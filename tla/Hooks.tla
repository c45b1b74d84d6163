-------------------------------- MODULE Hooks --------------------------------
(***************************************************************************)
(* `xfa hook ...` and the identities it speaks to: what a provider's hooks *)
(* tell a session, and when they keep quiet.                               *)
(*                                                                         *)
(* A hook is a short-lived process, and a session may have several at      *)
(* once: it is open in two terminals, or a subagent finishes while its     *)
(* lead is prompted.  All they remember is rows of the reminders table,    *)
(* under keys <session>[:suffix]: rows created once (stop, subagent) and   *)
(* marks that are read in one statement and upserted in another.  A hook   *)
(* may be killed after any statement: providers run it under a time limit. *)
(* What it counts is on the board of the directory it is called in; what   *)
(* it remembers is kept per session, whatever the board.                   *)
(***************************************************************************)
EXTENDS PostLog, FiniteSets

CONSTANTS
  Sessions,   \* agents.session_id values
  Home,       \* the session a handle registers for, or None
  Subagents,  \* handles registered with --parent
  Procs,      \* running hooks
  MaxPosts    \* bound: posts ever written

ASSUME HooksAssumption ==
  /\ Home \in [Handles -> Sessions \cup {None}]
  /\ \A h \in Humans : Home[h] = None
  /\ Subagents \subseteq Handles
  /\ MaxPosts \in Nat

VARIABLES
  agents,     \* the handles registered
  cursor,     \* where each handle's catch-up of each board has come to (row or floor)
  reminders,  \* the reminders table, but for the handle of the web UI's human
  job,        \* the event each process handles, again and again
  pc, mem,    \* the statement each process is at, and its variables
  told,       \* history: the posts counted in digests of a session, said or lost
  heard,      \* history: the sessions nudged in this window, or whose nudge was lost
  claims,     \* history: how many hooks created each fire-once row
  elsewhere,  \* history: the largest mark a session set from any but this board
  unsure      \* history: prompts that overlapped one of their session, or that could
              \* not read its mark

hookVars == <<reminders, told, heard, claims, elsewhere, unsure>>
vars == <<posts, seq, agents, cursor, job, pc, mem, hookVars>>

\* Keys of reminders.  Only the Stop hook writes the bare session id.
StopKey(s)     == <<s, "">>
SubagentKey(s) == <<s, ":subagent">>
StartKey(s)    == <<s, ":ag-start">>
NudgeKey(s)    == <<s, ":human-nudge">>
PromptKey(s)   == <<s, ":prompt-hwm">>

Keys == Sessions \X {"", ":subagent", ":ag-start", ":human-nudge", ":prompt-hwm"}
Once == Sessions \X {"", ":subagent"}

GetMark(k) == IF k \in DOMAIN reminders THEN reminders[k] ELSE 0

\* SetMark: an upsert.
SetMark(k, v) == reminders' = [j \in DOMAIN reminders \cup {k} |->
                                 IF j = k THEN v ELSE reminders[j]]

SessionHandles(s) == {h \in agents : Home[h] = s}

\* Ties among the non-parented handles go to the last one seen, which is left open.
Leads(s) == SessionHandles(s) \ Subagents

\* A live post on the board.
LiveOn(b, i) == Live(i) /\ posts[i].board = b

\* UnreadCountFor counts these.
UnreadFor(b, h) == {i \in DOMAIN posts : LiveOn(b, i) /\ i > cursor[h][b] /\ posts[i].author # h}

\* (Mutant: compared with >=.)
NewForeignPostsAgain(b, after, mine) ==
  {i \in DOMAIN posts : LiveOn(b, i) /\ i >= after /\ posts[i].author \notin mine}

\* NewForeignPosts counts these and returns the largest.
NewForeignPosts(b, after, mine) ==
  {i \in DOMAIN posts : LiveOn(b, i) /\ i > after /\ posts[i].author \notin mine}

\* Live, unresolved human posts without a live direct reply of an agent.
UnaddressedHuman(b) ==
  {i \in DOMAIN posts :
     /\ LiveOn(b, i) /\ posts[i].resolvedBy = None
     /\ posts[i].author \in Humans
     /\ ~\E r \in DOMAIN posts :
          Live(r) /\ posts[r].parent = i /\ posts[r].author \notin Humans}

\* The Stop hook's check, of every board: tombstoned posts count, erased ones are
\* forgotten.
Posted(s) == \E i \in DOMAIN posts : posts[i].author \in SessionHandles(s)
-----------------------------------------------------------------------------
Events == {"start", "prompt", "stop", "subagent", "invoke"}

Nothing == [session |-> None, board |-> None, hwm |-> 0, max |-> 0, lead |-> None,
            mine |-> {}, digest |-> {}, nudge |-> FALSE]

Init ==
  /\ LogInit
  /\ agents = Humans
  /\ cursor = [h \in Handles |-> [b \in Boards |-> 0]]
  /\ reminders = [k \in {} |-> 0]
  /\ job \in [Procs -> Events]
  /\ pc = [p \in Procs |-> "idle"]
  /\ mem = [p \in Procs |-> Nothing]
  /\ told = [s \in Sessions |-> {}]
  /\ heard = {}
  /\ claims = [k \in Once |-> 0]
  /\ elsewhere = [s \in Sessions |-> [b \in Boards |-> 0]]
  /\ unsure = {}

Goto(p, at, to) == pc[p] = at /\ pc' = [pc EXCEPT ![p] = to]
Ses(p) == mem[p].session
Board(p) == mem[p].board

\* The process ends and its variables are gone.
Exit(p) == pc' = [pc EXCEPT ![p] = "idle"] /\ mem' = [mem EXCEPT ![p] = Nothing]

Prompting(s) == {p \in Procs : Ses(p) = s /\ pc[p] \in {"lead", "fresh", "count", "set"}}

\* A prompt's statements begin.
BeginPrompt(p, s) ==
  unsure' = IF Prompting(s) = {} THEN unsure ELSE unsure \cup {p} \cup Prompting(s)

(***************************************************************************)
(* xfa hook: the payload names an event and a session, and its directory a *)
(* board.  Without a session or a board a hook prints nothing and changes  *)
(* nothing, but for the mark of an antigravity invocation: see Die.        *)
(***************************************************************************)
First(e) == CASE e = "start"    -> "digest"
              [] e = "prompt"   -> "lead"
              [] e = "stop"     -> "posted"
              [] e = "subagent" -> "remind-subagent"
              [] e = "invoke"   -> "first"

RunHook(p, s, b) ==
  /\ Goto(p, "idle", First(job[p]))
  /\ mem' = [mem EXCEPT ![p] = [Nothing EXCEPT !.session = s, !.board = b]]
  /\ IF job[p] = "prompt" THEN BeginPrompt(p, s) ELSE UNCHANGED unsure
  /\ UNCHANGED <<logVars, agents, cursor, job, reminders, told, heard, claims, elsewhere>>

\* (Mutant: an upsert, which cannot tell that the row was there.)
CreateUpserts(p, k) ==
  /\ SetMark(k, 0)
  /\ claims' = [claims EXCEPT ![k] = @ + 1]
  /\ pc' = [pc EXCEPT ![p] = "print"]
  /\ UNCHANGED mem

\* The unique index lets one hook create the row and refuses it to the others.
Create(p, k) ==
  IF k \in DOMAIN reminders
  THEN Exit(p) /\ UNCHANGED <<reminders, claims>>
  ELSE /\ SetMark(k, 0)
       /\ claims' = [claims EXCEPT ![k] = @ + 1]
       /\ pc' = [pc EXCEPT ![p] = "print"]
       /\ UNCHANGED mem

\* stopReason, then SubagentStop.
StopPosted(p) ==
  /\ pc[p] = "posted"
  /\ IF Posted(Ses(p)) THEN Exit(p) ELSE Goto(p, "posted", "remind-stop") /\ UNCHANGED mem
  /\ UNCHANGED <<logVars, agents, cursor, job, hookVars>>

StopRemind(p) ==
  /\ \/ pc[p] = "remind-stop" /\ Create(p, StopKey(Ses(p)))
     \/ pc[p] = "remind-subagent" /\ Create(p, SubagentKey(Ses(p)))
  /\ UNCHANGED <<logVars, agents, cursor, job, told, heard, elsewhere, unsure>>

\* AntigravityInvoke: the first invocation of a conversation gets the session
\* start's text, later ones, and those that cannot read the mark, the prompt's.
\* The mark is best effort.
Invoke(p) ==
  /\ \/ /\ StartKey(Ses(p)) \notin DOMAIN reminders
        /\ Goto(p, "first", "prime")
        /\ UNCHANGED <<reminders, unsure>>
     \/ /\ Goto(p, "first", "lead")
        /\ BeginPrompt(p, Ses(p))
        /\ UNCHANGED reminders
     \/ /\ Goto(p, "prime", "digest")
        /\ SetMark(StartKey(Ses(p)), 1) \/ UNCHANGED reminders
        /\ UNCHANGED unsure
  /\ UNCHANGED <<logVars, agents, cursor, job, mem, told, heard, claims, elsewhere>>

\* sessionStartText only reads.  Its sample of the last day is left out: of its
\* lines, only the count of human posts bears on what a session has heard.
StartDigest(p) ==
  /\ Goto(p, "digest", "print")
  /\ mem' = [mem EXCEPT ![p].nudge = (UnaddressedHuman(Board(p)) # {})]
  /\ UNCHANGED <<logVars, agents, cursor, job, hookVars>>

(***************************************************************************)
(* userPromptText: unreadLine, one action per query, then humanLine.       *)
(***************************************************************************)
\* SessionLeadAgent, SessionHandles and the mark.  Without a registered lead there
\* is nothing to say about unread posts; a mark that cannot be read is none.
PromptLead(p) ==
  /\ pc[p] = "lead"
  /\ IF Leads(Ses(p)) = {}
     THEN Goto(p, "lead", "humans") /\ UNCHANGED <<mem, unsure>>
     ELSE /\ Goto(p, "lead", "fresh")
          /\ \E h \in Leads(Ses(p)), hwm \in {GetMark(PromptKey(Ses(p))), 0} :
               /\ mem' = [mem EXCEPT ![p].lead = h,
                                     ![p].mine = SessionHandles(Ses(p)),
                                     ![p].hwm = hwm]
               /\ unsure' = IF hwm = GetMark(PromptKey(Ses(p))) THEN unsure ELSE unsure \cup {p}
  /\ UNCHANGED <<logVars, agents, cursor, job, reminders, told, heard, claims, elsewhere>>

PromptFresh(p) ==
  LET fresh == NewForeignPosts(Board(p), mem[p].hwm, mem[p].mine) IN
  /\ Goto(p, "fresh", IF fresh = {} THEN "humans" ELSE "count")
  /\ mem' = [mem EXCEPT ![p].max = Largest(fresh), ![p].hwm = 0, ![p].mine = {}]
  /\ UNCHANGED <<logVars, agents, cursor, job, hookVars>>

\* Caught up: neither nag nor advance the mark.
PromptCount(p) ==
  LET unread == UnreadFor(Board(p), mem[p].lead) IN
  /\ Goto(p, "count", IF unread = {} THEN "humans" ELSE "set")
  /\ mem' = [mem EXCEPT ![p].digest = unread, ![p].lead = None,
                        ![p].max = IF unread = {} THEN 0 ELSE @]
  /\ UNCHANGED <<logVars, agents, cursor, job, hookVars>>

\* A query of unreadLine fails: it has nothing to say, and humanLine goes on.
PromptFails(p) ==
  /\ \E at \in {"lead", "fresh", "count"} : Goto(p, at, "humans")
  /\ mem' = [mem EXCEPT ![p].lead = None, ![p].mine = {}, ![p].hwm = 0, ![p].max = 0]
  /\ UNCHANGED <<logVars, agents, cursor, job, hookVars>>

\* The mark is the session's, whatever the board.
MarkPrompt(p, v) ==
  /\ SetMark(PromptKey(Ses(p)), v)
  /\ elsewhere' = [elsewhere EXCEPT ![Ses(p)] =
                     [b \in Boards |-> IF b # Board(p) /\ v > @[b] THEN v ELSE @[b]]]

\* (Mutant: the mark is kept as the next id to look at.)
PromptSetNext(p) ==
  /\ Goto(p, "set", "humans")
  /\ MarkPrompt(p, mem[p].max + 1) \/ UNCHANGED <<reminders, elsewhere>>
  /\ mem' = [mem EXCEPT ![p].max = 0]
  /\ UNCHANGED <<logVars, agents, cursor, job, told, heard, claims, unsure>>

\* (Mutant: the mark is taken to the newest post there is by now.)
PromptSetNewest(p) ==
  /\ Goto(p, "set", "humans")
  /\ MarkPrompt(p, MaxPostID) \/ UNCHANGED <<reminders, elsewhere>>
  /\ mem' = [mem EXCEPT ![p].max = 0]
  /\ UNCHANGED <<logVars, agents, cursor, job, told, heard, claims, unsure>>

\* Best effort: the line is printed although the mark may fail to be written.
PromptSet(p) ==
  /\ Goto(p, "set", "humans")
  /\ MarkPrompt(p, mem[p].max) \/ UNCHANGED <<reminders, elsewhere>>
  /\ mem' = [mem EXCEPT ![p].max = 0]
  /\ UNCHANGED <<logVars, agents, cursor, job, told, heard, claims, unsure>>

\* (Mutant: the throttle is started whether or not there is anything to say.)
PromptHumansEager(p) ==
  /\ pc[p] = "humans"
  /\ IF GetMark(NudgeKey(Ses(p))) = 1
     THEN Goto(p, "humans", "print") /\ UNCHANGED mem
     ELSE /\ Goto(p, "humans", "nudge")
          /\ mem' = [mem EXCEPT ![p].nudge = (UnaddressedHuman(Board(p)) # {})]
  /\ UNCHANGED <<logVars, agents, cursor, job, hookVars>>

\* humanLine.  A nudge within the last ten minutes (1; 0 if it is older) keeps this
\* one back; with no unaddressed post the throttle is left alone.
PromptHumans(p) ==
  /\ pc[p] = "humans"
  /\ IF UnaddressedHuman(Board(p)) = {} \/ GetMark(NudgeKey(Ses(p))) = 1
     THEN Goto(p, "humans", "print") /\ UNCHANGED mem
     ELSE Goto(p, "humans", "nudge") /\ mem' = [mem EXCEPT ![p].nudge = TRUE]
  /\ UNCHANGED <<logVars, agents, cursor, job, hookVars>>

\* A query of humanLine fails.  Without the count there is nothing to say; a throttle
\* that cannot be read keeps nothing back.
HumansFail(p) ==
  /\ \/ Goto(p, "humans", "print") /\ UNCHANGED mem
     \/ /\ UnaddressedHuman(Board(p)) # {}
        /\ Goto(p, "humans", "nudge")
        /\ mem' = [mem EXCEPT ![p].nudge = TRUE]
  /\ UNCHANGED <<logVars, agents, cursor, job, hookVars>>

PromptNudge(p) ==
  /\ Goto(p, "nudge", "print")
  /\ SetMark(NudgeKey(Ses(p)), 1) \/ UNCHANGED reminders
  /\ UNCHANGED <<logVars, agents, cursor, job, mem, told, heard, claims, elsewhere, unsure>>

\* What only p can still say: the marks that keep others from saying it are set.
HeldUnread(p) == IF pc[p] \in {"humans", "nudge", "print"} THEN mem[p].digest ELSE {}
HeldNudge(p) == pc[p] = "print" /\ mem[p].nudge

\* The end of a hook: what it has to say reaches the session with its last
\* statement, or it is killed, or it fails open, with nothing printed, where its
\* board or another query that it needs cannot be had.
End(p) ==
  /\ told' = [told EXCEPT ![Ses(p)] = @ \cup HeldUnread(p)]
  /\ heard' = IF HeldNudge(p) THEN heard \cup {Ses(p)} ELSE heard
  /\ Exit(p)
  /\ unsure' = unsure \ {p}
  /\ UNCHANGED <<logVars, agents, cursor, job, reminders, claims, elsewhere>>

PrintLine(p) == pc[p] = "print" /\ End(p)
Die(p) == pc[p] \notin {"idle", "print"} /\ End(p)

(***************************************************************************)
(* Identities                                                              *)
(***************************************************************************)
\* xfa register.  A minted handle that is taken is drawn again; the web UI alone
\* mints humans, and has.
Register(h) ==
  /\ h \notin agents
  /\ agents' = agents \cup {h}
  /\ UNCHANGED <<logVars, cursor, job, pc, mem, hookVars>>

(***************************************************************************)
(* Everything else                                                         *)
(***************************************************************************)
\* Registered handles post and reply; posts are tombstoned.  An erased post
\* is to a hook what a tombstoned one is, a resolved one what an answered one is.
Write ==
  /\ \/ /\ seq < MaxPosts
        /\ \E b \in Boards, h \in agents, d \in Drafts, i \in {0} \cup DOMAIN posts :
             AppendPost(b, h, d, i)
     \/ \E i \in DOMAIN posts : Tombstone(i)
  /\ UNCHANGED <<agents, cursor, job, pc, mem, hookVars>>

\* `xfa read --unread` moves a handle's position on a board, see CatchUp.
ReadUp(h) ==
  /\ Home[h] # None
  /\ \E b \in Boards : \E i \in UnreadFor(b, h) : cursor' = [cursor EXCEPT ![h][b] = i]
  /\ UNCHANGED <<logVars, agents, job, pc, mem, hookVars>>

\* Ten minutes pass since the last nudge.
Slide(s) ==
  /\ GetMark(NudgeKey(s)) = 1
  /\ SetMark(NudgeKey(s), 0)
  /\ heard' = heard \ {s}
  /\ UNCHANGED <<logVars, agents, cursor, job, pc, mem, told, claims, elsewhere, unsure>>

PromptStep(p) ==
  \/ PromptLead(p) \/ PromptFresh(p) \/ PromptCount(p) \/ PromptFails(p)
  \/ PromptSet(p) \/ PromptHumans(p) \/ HumansFail(p) \/ PromptNudge(p)

Step(p) ==
  \/ StopPosted(p) \/ StopRemind(p) \/ Invoke(p) \/ StartDigest(p)
  \/ PromptStep(p) \/ PrintLine(p)

Next ==
  \/ \E p \in Procs, s \in Sessions, b \in Boards : RunHook(p, s, b)
  \/ \E p \in Procs : Step(p) \/ Die(p)
  \/ \E h \in Handles : Register(h) \/ ReadUp(h)
  \/ Write
  \/ \E s \in Sessions : Slide(s)

Spec == Init /\ [][Next]_vars
-----------------------------------------------------------------------------
(***************************************************************************)
(* Properties                                                              *)
(***************************************************************************)
\* Types; a prompt mark is an id that was given out.
TypeOK ==
  /\ LogTypeOK
  /\ agents \subseteq Handles
  /\ cursor \in [Handles -> [Boards -> 0..seq]]
  /\ DOMAIN reminders \subseteq Keys
  /\ \A k \in DOMAIN reminders : reminders[k] \in Nat
  /\ \A s \in Sessions : GetMark(PromptKey(s)) <= seq
  /\ pc \in [Procs ->
               {"idle", "digest", "posted", "remind-stop", "remind-subagent", "first", "prime",
                "lead", "fresh", "count", "set", "humans", "nudge", "print"}]
  /\ \A p \in Procs :
       /\ pc[p] = "idle" => mem[p] = Nothing
       /\ mem[p].max \in 0..seq /\ mem[p].hwm \in 0..seq
       /\ mem[p].mine \subseteq agents /\ mem[p].lead \in agents \cup {None}
       /\ mem[p].digest \subseteq 1..seq
  /\ told \in [Sessions -> SUBSET (1..seq)]
  /\ elsewhere \in [Sessions -> [Boards -> 0..seq]]
  /\ heard \subseteq Sessions /\ unsure \subseteq Procs

\* "Fire once per session: the unique index on reminders.session_id is the guard"
\* (stop.go:50), of any number of Stop hooks at once; and a row that silences the
\* end-of-session nudge was made by such a nudge: no other key may satisfy its
\* guard (userprompt.go:13-17, antigravity.go:25-27).
FiresOnce ==
  \A k \in Once : claims[k] = IF k \in DOMAIN reminders THEN 1 ELSE 0

\* The prompt mark silences nothing by mistake: a live post of someone else that
\* it has passed was counted in a digest, or read by the session's lead, or was on
\* the lips of a hook that was killed - however the hooks of the session overlap
\* and whichever of them writes its mark last.  The mark is kept per session and
\* compared with the posts of one board (userprompt.go:87, 94): a session that was
\* prompted on several boards is not told of what a mark set from one of them has
\* passed on the others.
NothingSilenced ==
  \A s \in Sessions : \A i \in 1..GetMark(PromptKey(s)) :
    Live(i) /\ posts[i].author \notin SessionHandles(s) =>
      \/ i \in told[s]
      \/ \E p \in Procs : Ses(p) = s /\ i \in HeldUnread(p)
      \/ \E h \in Leads(s) : i <= cursor[h][posts[i].board]
      \/ i <= elsewhere[s][posts[i].board]

\* "consecutive prompts stay silent until someone OUTSIDE the session posts
\* something new" (userprompt.go:76-77): a digest is about to be printed of nothing but
\* posts that the mark covers by now, and the mark about to be taken back, only by a
\* prompt that overlapped another of its session or could not read the mark.
OnlyRacesRepeat ==
  \A p \in Procs : pc[p] = "set" /\ p \notin unsure => mem[p].max > GetMark(PromptKey(Ses(p)))

\* "With zero unaddressed posts the mark is left untouched, so the first real human
\* post nudges immediately" (userprompt.go:109-110): the throttle holds a nudge back
\* only after one in the same window, or the hook that was killed with it.
ThrottleIsEarned ==
  \A s \in Sessions : GetMark(NudgeKey(s)) = 1 =>
    \/ s \in heard
    \/ \E p \in Procs : Ses(p) = s /\ HeldNudge(p)
=============================================================================
