--------------------------------- MODULE Web ---------------------------------
(***************************************************************************)
(* The web page's store: what is selected, what each pane shows, and the   *)
(* loads, polls and writes under way.                                      *)
(*                                                                         *)
(* Everything runs on one thread between awaits; each await is a request,  *)
(* answered when the server gets to it, whose answer is taken up some time *)
(* later or never.  The URL always says what is selected, so Back, Forward *)
(* and an edited URL are one change to some route.  A load's ticket is     *)
(* kept as whether it is still the newest.                                 *)
(***************************************************************************)
EXTENDS WebApi

CONSTANTS
  Views,     \* the views the human visits
  Routes,    \* where the page may be opened and the URL may go
  Contents,  \* what the database may hold at the start
  MaxMoves,  \* bound: what the human does
  MaxWrites, \* bound: what agents write
  MaxFails,  \* bound: requests that fail
  MaxEvents, \* bound: the three together
  MaxLoads,  \* bound: loads under way
  MaxPolls   \* bound: polls under way when the timer starts another

\* A URL may name any thread.
ASSUME WebAssumption ==
  /\ None \notin {"post", "reply", "inline", "resolve", "delete", "session", "init", "send"}
  /\ {"threads", "thread"} \subseteq Views
  /\ \A r \in Routes : /\ r.view \in Views /\ r.board \in Boards \cup {None} /\ r.thread \in Nat
                       /\ r.words \in Drafts \cup {None}
  /\ \A c \in Contents :
       /\ c \in Seq(Post)
       /\ \A i \in DOMAIN c : /\ c[i].parent < i
                              /\ c[i].parent # 0 => c[c[i].parent].board = c[i].board

VARIABLES
  view, board, session, threadId,  \* what is selected
  q,         \* what the search box holds; None is blank
  sought,    \* what the URL searches for while it names a search
  typed,     \* history: whether the box was typed in since the newest load asked
  pane,      \* what each view last showed
  sessions,  \* the rows of the session picker
  loads,     \* refreshes under way, oldest first
  busy,
  timer,     \* whether the 5 s timer is set
  asks, seenAskIds, askNotes,
  granted,   \* whether the browser lets the page notify
  polls,     \* pollAsks under way: their answers, oldest first
  reply,     \* the thread whose reply box holds a draft, or 0
  inline,    \* the post whose inline composer is open, or 0
  sending,
  out,       \* the write under way
  opening,   \* the post openPost is locating, or 0
  told,      \* history: asks notified, or there when the page was opened
  muted,     \* history: asks that came while the page might not notify
  used       \* [moves, writes, fails]

picked == <<view, board, session, threadId>>
box == <<q, sought, typed>>
selection == <<picked, box>>
askVars == <<asks, seenAskIds, askNotes, granted, told, muted>>
draftVars == <<reply, inline>>
vars == <<logVars, selection, pane, sessions, loads, busy, timer, askVars, polls,
          draftVars, sending, out, opening, used>>

Spend(what, max) ==
  /\ used[what] < max
  /\ used.moves + used.writes + used.fails < MaxEvents
  /\ used' = [used EXCEPT ![what] = @ + 1]
Move == Spend("moves", MaxMoves)
Fail == Spend("fails", MaxFails)

\* The state of the table, counted in writes.
Now == used.writes

-----------------------------------------------------------------------------
(***************************************************************************)
(* Queries                                                                 *)
(***************************************************************************)
Query(v, b, s, i, w) == [view |-> v, board |-> b, session |-> s, thread |-> i, words |-> w]

Selected ==
  CASE view = "threads" -> Query(view, board, session, 0, None)
    [] view = "thread" -> Query(view, None, None, threadId, None)
    [] view = "search" -> Query(view, board, None, 0, q)
    [] view = "inbox" -> Query(view, None, None, 0, None)
    [] OTHER -> Query(view, board, None, 0, None)

\* What takes no request: no board has no threads, a blank box finds nothing, and there is
\* no thread 0.
Blank ==
  CASE view = "threads" -> board = None
    [] view = "search" -> q = None
    [] view = "thread" -> threadId = 0
    [] OTHER -> FALSE

Answer(of) ==
  CASE of.view = "threads" -> IF of.board = None THEN <<>> ELSE GetThreads(of.board, of.session)
    [] of.view = "thread" -> GetThread(of.thread)
    [] of.view = "search" ->
         IF of.words = None THEN postsJSON({}) ELSE GetSearch(of.words, of.board)
    [] of.view = "questions" -> GetQuestions(of.board)
    [] of.view = "inbox" -> GetInbox
    [] of.view = "myposts" -> GetMyPosts(of.board)
    [] of.view = "stats" -> GetStats(of.board)
    [] of.view = "sessions" -> ListSessions(of.board)

Shown(of, data, at) == [of |-> of, data |-> data, at |-> at]
Cleared == Shown(Query(None, None, None, 0, None), None, 0)

-----------------------------------------------------------------------------
(***************************************************************************)
(* refresh                                                                 *)
(***************************************************************************)
NewLoad(then) ==
  [pc |-> "boards", of |-> Cleared.of, data |-> None, at |-> 0, mine |-> TRUE, then |-> then]

\* A new ticket supersedes those given out.
refresh(then) ==
  /\ Len(loads) < MaxLoads
  /\ loads' = Append([k \in DOMAIN loads |-> [loads[k] EXCEPT !.mine = FALSE]], NewLoad(then))
  /\ busy' = TRUE

\* A poll asks for nothing in particular: it may as well begin when it is answered.
pollAsks == polls' = Append(polls, postsJSON(AsksForHuman))


Drafted == {"post", "reply", "inline"}
NoWrite == [kind |-> None, target |-> None, closing |-> FALSE, pc |-> "none"]
NoPost == [id |-> 0, parent |-> 0, board |-> None]

\* What a write's caller does once the page is up to date again.
Settle ==
  /\ sending' = (sending /\ out.kind \notin Drafted)
  /\ reply' = IF out.kind = "reply" THEN 0 ELSE reply
  /\ inline' = IF out.kind = "inline" THEN 0 ELSE inline
  /\ out' = NoWrite

\* What awaited a load goes on.
Resume(then) ==
  CASE then = None -> UNCHANGED <<polls, timer, draftVars, sending, out>>
    [] then = "init" -> pollAsks /\ timer' = TRUE /\ UNCHANGED <<draftVars, sending, out>>
    [] then = "send" -> pollAsks /\ Settle /\ UNCHANGED timer

\* (Mutant: whichever load ends lowers the flag.)
EndLowers(k) ==
  /\ loads' = RemoveAt(loads, k)
  /\ busy' = FALSE
  /\ Resume(loads[k].then)

\* The load is over, whatever became of it: only the newest lowers the flag.
End(k) ==
  /\ loads' = RemoveAt(loads, k)
  /\ busy' = (busy /\ ~loads[k].mine)
  /\ Resume(loads[k].then)

Go(k, pc, of) ==
  /\ loads' = [loads EXCEPT ![k].pc = pc, ![k].of = of, ![k].data = None]
  /\ UNCHANGED <<busy, polls, timer, draftVars, sending, out>>

\* No board, no sessions and no filter.
NoSessions(k) ==
  /\ sessions' = IF loads[k].mine THEN {} ELSE sessions
  /\ session' = IF loads[k].mine THEN None ELSE session
  /\ UNCHANGED <<view, board, threadId>>

\* The rows of the picker are asked for last.
ThenSessions(k) ==
  IF board # None
  THEN Go(k, "sessions", Query("sessions", board, None, 0, None)) /\ UNCHANGED <<picked, sessions>>
  ELSE NoSessions(k) /\ End(k)

\* What the view's fetch asks for is read now, not when the load began.
BoardsLand(k) ==
  /\ loads[k].pc = "boards"
  /\ IF ~loads[k].mine THEN End(k) /\ UNCHANGED <<selection, sessions, pane>>
     ELSE /\ typed' = FALSE
          /\ UNCHANGED <<q, sought>>
          /\ IF Blank
             THEN /\ pane' = IF view = "thread" THEN pane
                             ELSE [pane EXCEPT ![view] = Shown(Selected, Answer(Selected), Now)]
                  /\ ThenSessions(k)
             ELSE Go(k, "view", Selected) /\ UNCHANGED <<picked, sessions, pane>>
  /\ UNCHANGED <<logVars, askVars, opening, used>>

\* The server gets to the view's fetch.
ViewServe(k) ==
  /\ loads[k].pc = "view" /\ loads[k].data = None
  /\ loads' = [loads EXCEPT ![k].data = Answer(loads[k].of), ![k].at = Now]
  /\ UNCHANGED <<logVars, selection, pane, sessions, busy, timer, askVars, polls,
                 draftVars, sending, out, opening, used>>

ViewLand(k) ==
  /\ loads[k].pc = "view" /\ loads[k].data # None
  /\ LET l == loads[k] IN
     IF l.data = Refused THEN End(k) /\ UNCHANGED <<selection, sessions, pane>>
     ELSE /\ pane' = IF l.mine THEN [pane EXCEPT ![l.of.view] = Shown(l.of, l.data, l.at)] ELSE pane
          /\ ThenSessions(k)
          /\ UNCHANGED box
  /\ UNCHANGED <<logVars, askVars, opening, used>>

\* pruneSession: a filter that matches nothing any more is dropped.
SessionsLand(k) ==
  /\ loads[k].pc = "sessions"
  /\ IF loads[k].mine
     THEN /\ sessions' = Range(Answer(loads[k].of))
          /\ session' = IF session \in Range(Answer(loads[k].of)) THEN session ELSE None
     ELSE UNCHANGED <<sessions, session>>
  /\ End(k)
  /\ UNCHANGED <<logVars, view, board, threadId, box, pane, askVars, opening, used>>

\* (Mutant: only a load that succeeds lowers the flag.)
LoadFailsBusy(k) ==
  /\ Fail
  /\ loads' = RemoveAt(loads, k)
  /\ Resume(loads[k].then)
  /\ UNCHANGED <<logVars, selection, pane, sessions, busy, askVars, opening>>

LoadFails(k) ==
  /\ Fail
  /\ End(k)
  /\ UNCHANGED <<logVars, selection, pane, sessions, askVars, opening>>

LoadStep(k) == BoardsLand(k) \/ ViewServe(k) \/ ViewLand(k) \/ SessionsLand(k)

\* The timer polls always, and reloads when the tab is seen and no load is under way.
Tick(hidden) ==
  /\ timer /\ Len(polls) < MaxPolls
  /\ pollAsks
  /\ IF hidden \/ busy THEN UNCHANGED <<loads, busy>> ELSE refresh(None)
  /\ UNCHANGED <<logVars, selection, pane, sessions, timer, askVars, draftVars, sending,
                 out, opening, used>>

-----------------------------------------------------------------------------
(***************************************************************************)
(* pollAsks                                                                *)
(***************************************************************************)
\* seenAskIds is null until a poll seeds it; 0 is no post's id.
Unseeded == {0}

\* Without permission an ask is seen, but the human is not told.
Notified(new) == IF granted THEN new ELSE {}

\* (Mutant: what is seen is what the last answer held.)
PollLandForgets(k) ==
  /\ LET live == DOMAIN polls[k]
         new == IF seenAskIds = Unseeded THEN {} ELSE live \ seenAskIds
     IN /\ asks' = polls[k]
        /\ seenAskIds' = live
        /\ askNotes' = (askNotes \cap live) \cup Notified(new)
        /\ told' = told \cup Notified(new) \cup (IF seenAskIds = Unseeded THEN live ELSE {})
        /\ muted' = muted \cup (new \ Notified(new))
  /\ polls' = RemoveAt(polls, k)
  /\ UNCHANGED <<logVars, selection, pane, sessions, loads, busy, timer, granted,
                 draftVars, sending, out, opening, used>>

\* No ticket: whichever answer lands is believed.  The first only seeds seenAskIds.
PollLand(k) ==
  /\ LET live == DOMAIN polls[k]
         new == IF seenAskIds = Unseeded THEN {} ELSE live \ seenAskIds
     IN /\ asks' = polls[k]
        /\ seenAskIds' = IF seenAskIds = Unseeded THEN live ELSE seenAskIds \cup new
        /\ askNotes' = (askNotes \cap live) \cup Notified(new)
        /\ told' = told \cup Notified(new) \cup (IF seenAskIds = Unseeded THEN live ELSE {})
        /\ muted' = muted \cup (new \ Notified(new))
  /\ polls' = RemoveAt(polls, k)
  /\ UNCHANGED <<logVars, selection, pane, sessions, loads, busy, timer, granted,
                 draftVars, sending, out, opening, used>>

PollFails(k) ==
  /\ Fail
  /\ polls' = RemoveAt(polls, k)
  /\ UNCHANGED <<logVars, selection, pane, sessions, loads, busy, timer, askVars,
                 draftVars, sending, out, opening>>

-----------------------------------------------------------------------------
(***************************************************************************)
(* The human looks around                                                  *)
(***************************************************************************)
\* A navigator's load is never dropped for one under way.
Navigate ==
  /\ Move
  /\ refresh(None)
  /\ UNCHANGED <<logVars, timer, askVars, polls, sending, out, opening>>

go(v) ==
  /\ v \in Views \ {"thread", "search"}
  /\ Navigate
  /\ view' = v
  /\ UNCHANGED <<board, session, threadId, box, pane, sessions, draftVars>>

\* The search box is there in every view; what is typed there starts no load.
TypeSearch(t) ==
  /\ t # q
  /\ Move
  /\ q' = t /\ typed' = TRUE
  /\ UNCHANGED <<logVars, picked, sought, pane, sessions, loads, busy, timer, askVars, polls,
                 draftVars, sending, out, opening>>

runSearch ==
  /\ "search" \in Views
  /\ Navigate
  /\ view' = "search" /\ sought' = q
  /\ UNCHANGED <<board, session, threadId, q, typed, pane, sessions, draftVars>>

pickBoard(b) ==
  /\ Navigate
  /\ view' = "threads" /\ board' = b
  /\ session' = IF b = board THEN session ELSE None
  /\ sessions' = IF b = board THEN sessions ELSE {}
  /\ UNCHANGED <<threadId, box, pane, draftVars>>

pickSession(s) ==
  /\ Navigate
  /\ s \in sessions \cup {None}
  /\ view' = "threads" /\ session' = s
  /\ UNCHANGED <<board, threadId, box, pane, sessions, draftVars>>

\* The reply in progress belongs to the thread that is left.
openThread(i) ==
  /\ view' = "thread" /\ threadId' = i
  /\ pane' = [pane EXCEPT !.thread = Cleared]
  /\ reply' = 0 /\ inline' = 0
  /\ UNCHANGED <<board, session, box, sessions>>

ClickThread(i) ==
  /\ view = "threads" /\ pane.threads.data # None
  /\ i \in {row.root : row \in Range(pane.threads.data)}
  /\ Navigate
  /\ openThread(i)

\* Back, Forward, or the address bar.
RouteHash ==
  [view |-> view, board |-> IF view = "threads" THEN board ELSE None,
   thread |-> IF view = "thread" THEN threadId ELSE 0,
   words |-> IF view = "search" THEN q ELSE None]

\* It names the search that was run, not what is being typed.
Url == IF view = "search" THEN [RouteHash EXCEPT !.words = sought] ELSE RouteHash

\* (Mutant: only what was fetched is dropped.)
applyRouteKeepsDrafts(r) ==
  /\ view' = r.view
  /\ threadId' = IF r.view = "thread" THEN r.thread ELSE threadId
  /\ pane' = IF r.view = "thread" /\ r.thread # threadId
             THEN [pane EXCEPT !.thread = Cleared] ELSE pane
  /\ board' = IF r.view = "threads" THEN r.board ELSE board
  /\ session' = IF r.view = "threads" /\ r.board # board THEN None ELSE session
  /\ q' = IF r.view = "search" THEN r.words ELSE q
  /\ UNCHANGED <<draftVars, sessions>>

applyRoute(r) ==
  LET leaves == r.view = "thread" /\ r.thread # threadId IN
  /\ view' = r.view
  /\ threadId' = IF leaves THEN r.thread ELSE threadId
  /\ pane' = IF leaves THEN [pane EXCEPT !.thread = Cleared] ELSE pane
  /\ reply' = IF leaves THEN 0 ELSE reply
  /\ inline' = IF leaves THEN 0 ELSE inline
  /\ board' = IF r.view = "threads" THEN r.board ELSE board
  /\ session' = IF r.view = "threads" /\ r.board # board THEN None ELSE session
  /\ q' = IF r.view = "search" THEN r.words ELSE q
  /\ UNCHANGED sessions

\* (Mutant: a search for another is left to the next tick.)
onHashChangeLazy(r) ==
  LET searches == view = "search" /\ r.view = "search" IN
  /\ r # Url
  /\ sought' = IF r.view = "search" THEN r.words ELSE sought
  /\ UNCHANGED typed
  /\ IF searches
     THEN /\ Move
          /\ q' = r.words
          /\ UNCHANGED <<logVars, picked, pane, sessions, loads, busy, timer, askVars, polls,
                         draftVars, sending, out, opening>>
     ELSE Navigate /\ applyRoute(r)

\* Nothing is to be done when the page is there already, as when what the URL comes to
\* search for has been typed.
onHashChange(r) ==
  /\ r # Url
  /\ sought' = IF r.view = "search" THEN r.words ELSE sought
  /\ UNCHANGED typed
  /\ IF r = RouteHash
     THEN /\ Move
          /\ UNCHANGED <<logVars, picked, q, pane, sessions, loads, busy, timer, askVars, polls,
                         draftVars, sending, out, opening>>
     ELSE Navigate /\ applyRoute(r)

\* The posts a list or a notification offers.
Offered ==
  LET listed == IF view \in {"search", "inbox", "myposts"} /\ pane[view].data # None
                THEN pane[view].data ELSE [i \in {} |-> {}]
  IN [i \in askNotes \cup DOMAIN listed |-> IF i \in askNotes THEN asks[i] ELSE listed[i]]

openPost(i) ==
  /\ i \in DOMAIN Offered /\ opening = NoPost
  /\ askNotes' = askNotes \ {i}
  /\ Move
  /\ IF Offered[i].parent = 0 THEN openThread(i) /\ refresh(None) /\ UNCHANGED opening
     ELSE /\ opening' = [id |-> i, parent |-> Offered[i].parent, board |-> Offered[i].board]
          /\ UNCHANGED <<selection, pane, sessions, loads, busy, draftVars>>
  /\ UNCHANGED <<logVars, timer, asks, seenAskIds, granted, told, muted, polls, sending, out>>

\* The board's grouping tells a reply's thread; failing that its parent is tried.
\* No ticket here either: the human may be elsewhere by now.
PostLocated(fails) ==
  /\ opening # NoPost
  /\ LET groups == GetBoard(opening.board)
         found == {r \in DOMAIN groups : ~fails /\ opening.id \in groups[r]}
     IN openThread(IF found = {} THEN opening.parent ELSE CHOOSE r \in found : TRUE)
  /\ opening' = NoPost
  /\ IF fails THEN Fail ELSE UNCHANGED used
  /\ refresh(None)
  /\ UNCHANGED <<logVars, timer, askVars, polls, sending, out>>

-----------------------------------------------------------------------------
(***************************************************************************)
(* The human writes                                                        *)
(***************************************************************************)
\* What is typed into the reply box of the thread shown.
TypeReply ==
  /\ view = "thread" /\ reply = 0
  /\ Move
  /\ reply' = threadId
  /\ UNCHANGED <<logVars, selection, pane, sessions, loads, busy, timer, askVars, polls,
                 inline, sending, out, opening>>

\* One composer at a time; opening it again closes it.
openInline(i) ==
  /\ view = "thread" /\ pane.thread.data # None /\ i \in DOMAIN pane.thread.data
  /\ Move
  /\ inline' = IF inline = i THEN 0 ELSE i
  /\ UNCHANGED <<logVars, selection, pane, sessions, loads, busy, timer, askVars, polls,
                 reply, sending, out, opening>>

\* Only drafts hold each other back (`sending`): resolving and deleting may overlap in the
\* code, and are taken one at a time here.
Submit(kind, target, closing) ==
  /\ out = NoWrite
  /\ kind \in Drafted => ~sending
  /\ Move
  /\ sending' = (sending \/ kind \in Drafted)
  /\ out' = [kind |-> kind, target |-> target, closing |-> closing, pc |-> "sent"]
  /\ UNCHANGED <<logVars, session, board, threadId, box, sessions, loads, busy, timer, askVars,
                 polls, draftVars, opening>>

Stay == UNCHANGED <<view, pane>>

doPost == board # None /\ Submit("post", board, FALSE) /\ Stay
doReply == view = "thread" /\ reply # 0 /\ Submit("reply", threadId, FALSE) /\ Stay
doInlineReply == view = "thread" /\ inline # 0 /\ Submit("inline", inline, FALSE) /\ Stay

InThread ==
  IF view = "thread" /\ pane.thread.data # None THEN pane.thread.data ELSE [i \in {} |-> {}]

canResolve(p) ==
  /\ ~p.resolved /\ ~p.deleted
  /\ p.human \/ (p.draft \in Questions /\ p.parent = 0)

doResolve(i) ==
  /\ i \in DOMAIN InThread /\ canResolve(InThread[i])
  /\ Submit("resolve", i, FALSE)
  /\ Stay

\* The thread that is open is left before the request goes.
doDeletePost(i) ==
  /\ i \in DOMAIN InThread
  /\ LET closing == i = threadId IN
     /\ Submit("delete", i, closing)
     /\ view' = IF closing THEN "threads" ELSE view
     /\ pane' = IF closing THEN [pane EXCEPT !.thread = Cleared] ELSE pane

doDeleteThread(i) ==
  /\ view = "threads" /\ pane.threads.data # None
  /\ i \in {row.root : row \in Range(pane.threads.data)}
  /\ Submit("delete", i, FALSE)
  /\ Stay

\* A filter on the session goes first.
doDeleteSession(s) ==
  /\ s \in sessions /\ out = NoWrite
  /\ Move
  /\ session' = IF session = s THEN None ELSE session
  /\ out' = [kind |-> "session", target |-> s, closing |-> FALSE, pc |-> "sent"]
  /\ UNCHANGED <<logVars, view, board, threadId, box, pane, sessions, loads, busy, timer, askVars,
                 polls, draftVars, sending, opening>>

\* What the server makes of it.
Accepts(w) ==
  CASE w.kind \in {"post", "session"} -> TRUE
    [] w.kind \in {"reply", "inline", "delete"} -> w.target \in DOMAIN posts
    [] w.kind = "resolve" -> w.target \in DOMAIN posts /\ Closable(w.target)
                             /\ posts[w.target].resolvedBy = None

Do(w, d) ==
  CASE w.kind = "post" -> PostPosts(w.target, d)
    [] w.kind \in {"reply", "inline"} -> PostReply(w.target, d)
    [] w.kind = "resolve" -> PostResolve(w.target)
    [] w.kind = "delete" -> DeletePost(w.target)
    [] w.kind = "session" -> DeleteSession(w.target)

WriteServe(d) ==
  /\ out.pc = "sent"
  /\ IF Accepts(out)
     THEN Do(out, d) /\ out' = [out EXCEPT !.pc = "ok"] /\ used' = [used EXCEPT !.writes = @ + 1]
     ELSE out' = [out EXCEPT !.pc = "refused"] /\ UNCHANGED <<logVars, used>>
  /\ UNCHANGED <<selection, pane, sessions, loads, busy, timer, askVars, polls,
                 draftVars, sending, opening>>

\* send: the page is reloaded before the caller goes on.
WriteLand ==
  /\ out.pc = "ok"
  /\ refresh("send")
  /\ out' = [out EXCEPT !.pc = "reload"]
  /\ UNCHANGED <<logVars, selection, pane, sessions, timer, askVars, polls,
                 draftVars, sending, opening, used>>

\* The draft is kept, and the thread shown again.
GiveUp ==
  /\ sending' = (sending /\ out.kind \notin Drafted)
  /\ out' = NoWrite
  /\ IF out.closing THEN refresh(None) /\ view' = "thread" ELSE UNCHANGED <<loads, busy, view>>
  /\ UNCHANGED <<logVars, board, session, threadId, box, pane, sessions, timer, askVars, polls,
                 draftVars, opening>>

WriteRefused == out.pc = "refused" /\ GiveUp /\ UNCHANGED used

\* Lost on the way there or back.
WriteFails == out.pc \in {"sent", "ok"} /\ GiveUp /\ Fail

-----------------------------------------------------------------------------
\* Agents write meanwhile, and a notification is dismissed.
AgentWrites ==
  /\ Spend("writes", MaxWrites)
  /\ \/ \E h \in Handles \ Humans, d \in Drafts, i \in DOMAIN posts :
          AppendPost(posts[i].board, h, d, i)
     \/ \E i \in DOMAIN posts, h \in Handles \ Humans :
          posts[i].resolvedBy = None /\ Resolve(i, h)
     \/ \E i \in DOMAIN posts : posts[i].author \notin Humans /\ Tombstone(i)
  /\ UNCHANGED <<selection, pane, sessions, loads, busy, timer, askVars, polls,
                 draftVars, sending, out, opening>>

Dismiss(i) ==
  /\ i \in askNotes
  /\ Move
  /\ askNotes' = askNotes \ {i}
  /\ UNCHANGED <<logVars, selection, pane, sessions, loads, busy, timer, asks, seenAskIds, granted,
                 told, muted, polls, draftVars, sending, out, opening>>

\* The human answers the browser, which asks on the first click, or changes its settings.
Permit ==
  /\ Move
  /\ granted' = ~granted
  /\ UNCHANGED <<logVars, selection, pane, sessions, loads, busy, timer, asks, seenAskIds, askNotes,
                 told, muted, polls, draftVars, sending, out, opening>>

-----------------------------------------------------------------------------
Init ==
  /\ \E c \in Contents : posts = [i \in DOMAIN c |-> c[i]] /\ seq = Len(c)
  /\ \E r \in Routes : /\ view = r.view /\ board = r.board /\ threadId = r.thread
                       /\ q = r.words /\ sought = r.words
  /\ typed = FALSE
  /\ session = None /\ sessions = {}
  /\ pane = [v \in Views |-> Cleared]
  /\ loads = <<NewLoad("init")>> /\ busy = TRUE /\ timer = FALSE
  /\ asks = [i \in {} |-> {}] /\ seenAskIds = Unseeded /\ askNotes = {}
  /\ granted \in BOOLEAN /\ told = {} /\ muted = {} /\ polls = <<>>
  /\ reply = 0 /\ inline = 0 /\ sending = FALSE
  /\ out = NoWrite /\ opening = NoPost
  /\ used = [moves |-> 0, writes |-> 0, fails |-> 0]

Looks ==
  \/ \E v \in Views : go(v)
  \/ \E t \in Drafts \cup {None} : TypeSearch(t)
  \/ runSearch
  \/ \E b \in Boards \cup {None} : pickBoard(b)
  \/ \E s \in sessions \cup {None} : pickSession(s)
  \/ \E i \in DOMAIN posts : ClickThread(i)
  \/ \E r \in Routes : onHashChange(r)
  \/ \E i \in 1..seq : openPost(i)
  \/ \E i \in askNotes : Dismiss(i)
  \/ Permit

Writes ==
  \/ TypeReply
  \/ \E i \in 1..seq : openInline(i)
  \/ doPost
  \/ doReply
  \/ doInlineReply
  \/ \E i \in 1..seq : doResolve(i)
  \/ \E i \in 1..seq : doDeletePost(i)
  \/ \E i \in 1..seq : doDeleteThread(i)
  \/ \E s \in sessions : doDeleteSession(s)

Answered ==
  \/ \E k \in DOMAIN loads : LoadStep(k)
  \/ \E k \in DOMAIN polls : PollLand(k)
  \/ \E d \in Drafts : WriteServe(d)
  \/ WriteLand
  \/ WriteRefused
  \/ PostLocated(FALSE)

Lost ==
  \/ \E k \in DOMAIN loads : LoadFails(k)
  \/ \E k \in DOMAIN polls : PollFails(k)
  \/ WriteFails
  \/ PostLocated(TRUE)

Next ==
  \/ Looks
  \/ Writes
  \/ Answered
  \/ Lost
  \/ \E hidden \in BOOLEAN : Tick(hidden)
  \/ AgentWrites

Spec == Init /\ [][Next]_vars

\* Every request is answered sooner or later, so the oldest is, and the timer goes on in
\* a tab that is seen now and then.  Nothing obliges the human or the agents.
Fairness ==
  /\ WF_vars(loads # <<>> /\ LoadStep(1))
  /\ WF_vars(polls # <<>> /\ PollLand(1))
  /\ WF_vars((\E d \in Drafts : WriteServe(d)) \/ WriteLand \/ WriteRefused \/ PostLocated(FALSE))
  /\ SF_vars(Tick(FALSE))

FairSpec == Spec /\ Fairness

-----------------------------------------------------------------------------
(***************************************************************************)
(* Properties                                                              *)
(***************************************************************************)
\* What each variable holds; the filter is none the picker does not offer; the flag of
\* the load under way is up exactly while the newest is, and the write flag while a write
\* from a draft is.
TypeOK ==
  /\ LogTypeOK
  /\ view \in Views /\ board \in Boards \cup {None} /\ threadId \in Nat
  /\ session \in sessions \cup {None}
  /\ {q, sought} \subseteq Drafts \cup {None} /\ typed \in BOOLEAN /\ granted \in BOOLEAN
  /\ busy <=> \E k \in DOMAIN loads : loads[k].mine
  /\ \A k \in DOMAIN loads : loads[k].mine => k = Len(loads)
  /\ sending <=> out.kind \in Drafted
  /\ \A k \in DOMAIN polls : DOMAIN polls[k] \subseteq 1..seq
  /\ askNotes \subseteq DOMAIN asks

\* "A run whose ticket has been superseded discards its response ... so a slow earlier
\* fetch can never land on top of a newer one" (store.js:235-237): what lands answers the
\* question the page asks now, and is of no older a table than what it replaces.  The
\* question may have lost its filter since it was asked, and the box may have been typed
\* in; a search that was left for another, by Back say, lands nowhere.
Fits(of) ==
  IF of.view = "thread" THEN of.thread = threadId
  ELSE /\ of.view = view
       /\ view # "inbox" => of.board = board
       /\ view = "threads" /\ session # None => of.session = session
       /\ view = "search" /\ ~typed => of.words = q

AnswersFit ==
  [][\A v \in Views : pane'[v] # pane[v] /\ pane'[v] # Cleared =>
       /\ pane'[v].of.view = v /\ Fits(pane[v].of)'
       /\ pane'[v].of = pane[v].of => pane'[v].at >= pane[v].at]_vars

\* The human's words go under the thread they were written for: "the in-progress reply
\* belongs to the post we just left" (store.js:122-123), and an inline draft "to the post
\* it was written under" (store.js:508).
DraftsStayHome ==
  /\ reply \in {0, threadId}
  /\ inline \in DOMAIN posts => inline \in Beneath({threadId})

\* "seenAskIds is null until the first successful poll seeds it, so a reload never
\* re-notifies the backlog" (store.js:37-38), and no ask is notified twice, whatever
\* order the answers of the polls land in.
NotifiedOnce == [][(askNotes' \ askNotes) \cap told = {}]_vars

\* "A poll that fails must never tear the page down" (store.js:227): when all is quiet the
\* page comes to show what the database holds for what is selected, what was typed into
\* the box of a search included, and the badge the asks that are open, each of them
\* notified unless it was there from the start or came while the page might not notify
\* (store.test.js:899-906).
CaughtUp ==
  /\ pane[view].of = Selected \/ Answer(Selected) = Refused
  /\ pane[view].data = Answer(Selected) \/ Answer(Selected) = Refused
  /\ asks = postsJSON(AsksForHuman)
  /\ AsksForHuman \subseteq told \cup muted
  /\ ~sending

CatchesUp == <>[]CaughtUp
=============================================================================
