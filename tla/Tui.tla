-------------------------------- MODULE Tui ---------------------------------
(***************************************************************************)
(* The terminal UI's model: which screen is shown, of what, and where in   *)
(* it, as keys are pressed, a timer refreshes and answers come in.         *)
(*                                                                         *)
(* Every load runs beside the model: it reads the store when it gets to    *)
(* run, and its answer is applied to whatever the model is by then.        *)
(* Answers are not numbered; those of a key, of the timer and of an        *)
(* earlier key arrive in any order.  A list's own selection moves freely,  *)
(* so `enter` takes any of its items.                                      *)
(***************************************************************************)
EXTENDS Threads

CONSTANTS
  Start,     \* boards `xfa tui` may open on, None for the picker
  Heights,   \* terminal heights
  Contents,  \* what the database may hold at the start
  MaxWrites, \* bound: what others write meanwhile
  MaxLoads   \* bound: loads on their way

ASSUME TuiAssumption ==
  /\ None \notin Boards \cup {"boards", "board", "sessions"}
  /\ Start \subseteq Boards \cup {None}
  /\ Heights \subseteq Nat /\ MaxLoads \in Nat
  /\ \A c \in Contents : /\ DOMAIN c \subseteq Nat \ {0} /\ IsFiniteSet(DOMAIN c)
                         /\ c \in [DOMAIN c -> Post]
                         /\ \A i \in DOMAIN c :
                              LET parent == c[i].parent IN
                              parent # 0 => /\ parent < i
                                            /\ parent \in DOMAIN c => c[parent].board = c[i].board

VARIABLES
  view,         \* "boards", "threads", "detail" or "sessions"
  visible,      \* contentHeight: the rows that fit
  boardList,    \* whether the picker has its items
  sessionList,  \* the session picker's items, but for "All sessions"
  board,        \* the board opened, or None
  session,      \* the filter in force, or None
  summaries,    \* the rows of the thread list
  groups,       \* the threads behind them
  cursor,       \* the row selected, from 0
  offset,       \* the first row visible, from 0
  detailRoot,   \* the thread opened
  loads,        \* the loads on their way
  inPlace,      \* history: slots of refreshes since which nothing was switched
  writes        \* how much others have written

scopeVars == <<board, session, summaries, groups>>
listVars == <<cursor, offset>>
pickVars == <<boardList, sessionList>>
storeVars == <<logVars, writes>>
uiVars == <<view, visible, pickVars, scopeVars, listVars, detailRoot>>
vars == <<storeVars, uiVars, loads, inPlace>>

chromeLines == 3
contentHeight(height) == IF height > chromeLines THEN height - chromeLines ELSE 1

AtLeast0(n, m) == IF n > m THEN n - m ELSE 0
LeastOf(n, m) == IF n < m THEN n ELSE m

-----------------------------------------------------------------------------
(***************************************************************************)
(* Loads                                                                   *)
(***************************************************************************)
Slots == 1..MaxLoads
NoLoad == [kind |-> None]

Load(kind, b, s) ==
  [kind |-> kind, board |-> b, session |-> s, read |-> FALSE, rows |-> <<>>,
   groups |-> [i \in {} |-> {}]]

loadBoards == Load("boards", None, None)
loadBoard(b) == Load("board", b, None)
loadBoardBySession(b, s) == Load("board", b, s)
loadSessions(b) == Load("sessions", b, None)

\* (Mutant: a refresh asks for the whole board.)
loadBoardScopedWide(b) == loadBoard(b)

loadBoardScoped(b) ==
  IF session = None THEN loadBoard(b) ELSE loadBoardBySession(b, session)

\* Whatever the active view shows.
refresh ==
  IF view = "boards" \/ board = None THEN loadBoards
  ELSE IF view = "sessions" THEN loadSessions(board)
  ELSE loadBoardScoped(board)

\* A command goes off to run.
Send(l) ==
  LET free == {k \in Slots : loads[k] = NoLoad} IN
  /\ free # {}
  /\ loads' = [loads EXCEPT ![CHOOSE k \in free : \A j \in free : k <= j] = l]

BoardRows(l) ==
  LET ps == IF l.session = None THEN BoardPosts(l.board)
            ELSE BoardPostsBySession(l.board, l.session)
  IN [l EXCEPT !.read = TRUE, !.rows = ThreadSummaries(ps), !.groups = GroupThreads(ps)]

SessionRows(l) == [l EXCEPT !.read = TRUE, !.rows = ListSessions(l.board)]

\* The load runs: its query is one point in time.
Read(k) ==
  /\ loads[k].kind \in {"board", "sessions"} /\ ~loads[k].read
  /\ loads' = [loads EXCEPT ![k] = IF @.kind = "board" THEN BoardRows(@) ELSE SessionRows(@)]
  /\ UNCHANGED <<storeVars, uiVars>>

Arrive(k, kind) ==
  /\ loads[k].kind = kind
  /\ kind # "boards" => loads[k].read
  /\ loads' = [loads EXCEPT ![k] = NoLoad]
  /\ UNCHANGED storeVars

-----------------------------------------------------------------------------
(***************************************************************************)
(* Answers                                                                 *)
(***************************************************************************)
BoardsMsg(k) ==
  /\ Arrive(k, "boards")
  /\ boardList' = TRUE
  /\ UNCHANGED <<view, visible, sessionList, scopeVars, listVars, detailRoot>>

SessionsMsg(k) ==
  /\ Arrive(k, "sessions")
  /\ sessionList' = loads[k].rows
  /\ UNCHANGED <<view, visible, boardList, scopeVars, listVars, detailRoot>>

\* (Mutant: the offset is left to the next key.)
ClampCursorOnly(n) ==
  /\ cursor' = IF cursor >= n THEN AtLeast0(n, 1) ELSE cursor
  /\ UNCHANGED offset

\* Fewer rows of the same scope: the cursor stays on one, the window on some.
Clamp(n) ==
  /\ cursor' = IF cursor >= n THEN AtLeast0(n, 1) ELSE cursor
  /\ offset' = LeastOf(offset, AtLeast0(n, visible))

\* Outside the detail view the thread opened last means nothing.
Leave(v) == view' = v /\ detailRoot' = 0

Top == cursor' = 0 /\ offset' = 0

\* (Mutant: whether or not the thread is still there.)
StaysOpenAnyway(msg) == view = "detail"

StaysOpen(msg) == view = "detail" /\ detailRoot \in DOMAIN msg.groups

\* Whatever the view, a board's answer shows its list, unless the thread being read
\* is still among its threads.
BoardMsg(k) ==
  LET msg == loads[k] IN
  /\ Arrive(k, "board")
  /\ board' = msg.board /\ session' = msg.session
  /\ summaries' = msg.rows /\ groups' = msg.groups
  /\ IF board = msg.board /\ session = msg.session THEN Clamp(Len(msg.rows)) ELSE Top
  /\ IF StaysOpen(msg)
     THEN UNCHANGED <<view, detailRoot>>
     ELSE Leave("threads")
  /\ UNCHANGED <<visible, pickVars>>

\* The query failed: an error line is shown until the next answer.
ErrMsg(k) ==
  /\ loads[k] # NoLoad
  /\ loads' = [loads EXCEPT ![k] = NoLoad]
  /\ UNCHANGED <<storeVars, uiVars>>

\* tickMsg, and the key r.
Refresh == Send(refresh) /\ UNCHANGED <<storeVars, uiVars>>

WindowSizeMsg(h) ==
  /\ visible' = contentHeight(h) /\ visible' # visible
  /\ UNCHANGED <<storeVars, view, pickVars, scopeVars, listVars, detailRoot, loads>>

-----------------------------------------------------------------------------
(***************************************************************************)
(* Keys                                                                    *)
(***************************************************************************)
KeyB ==
  /\ Leave("boards")
  /\ Send(loadBoards)
  /\ UNCHANGED <<storeVars, visible, pickVars, scopeVars, listVars>>

\* updateBoardPick: the view changes with the answer.
PickBoard(b) ==
  /\ view = "boards" /\ boardList
  /\ Send(loadBoard(b))
  /\ UNCHANGED <<storeVars, uiVars>>

\* updateSessionPick: enter on a session, on "All sessions", or esc.
PickSession(s) ==
  /\ view = "sessions" /\ board # None
  /\ s # None => s \in {sessionList[k] : k \in DOMAIN sessionList}
  /\ view' = "threads"
  /\ Send(IF s = None THEN loadBoard(board) ELSE loadBoardBySession(board, s))
  /\ UNCHANGED <<storeVars, visible, pickVars, scopeVars, listVars, detailRoot>>

\* The window follows the cursor to c.
Scroll(c) ==
  /\ cursor' = c
  /\ offset' = IF c < offset THEN c
               ELSE IF c >= offset + visible THEN c - visible + 1 ELSE offset
 

\* updateThreadList
KeyMove ==
  /\ view = "threads"
  /\ \/ cursor + 1 < Len(summaries) /\ Scroll(cursor + 1)
     \/ cursor > 0 /\ Scroll(cursor - 1)
  /\ UNCHANGED <<storeVars, view, visible, pickVars, scopeVars, detailRoot, loads>>

OpenThread ==
  /\ view = "threads"
  /\ cursor < Len(summaries)
  /\ summaries[cursor + 1].root \in DOMAIN groups
  /\ detailRoot' = summaries[cursor + 1].root
  /\ view' = "detail"
  /\ Scroll(cursor)
  /\ UNCHANGED <<storeVars, visible, pickVars, scopeVars, loads>>

KeyS ==
  /\ view = "threads" /\ board # None
  /\ view' = "sessions"
  /\ Send(loadSessions(board))
  /\ UNCHANGED <<storeVars, visible, pickVars, scopeVars, listVars, detailRoot>>

\* A filter is left before the board is.
EscList ==
  /\ view = "threads"
  /\ IF session # None
     THEN Send(loadBoard(board)) /\ UNCHANGED view
     ELSE Send(loadBoards) /\ view' = "boards"
  /\ UNCHANGED <<storeVars, visible, pickVars, scopeVars, listVars, detailRoot>>

EscDetail ==
  /\ view = "detail"
  /\ Leave("threads")
  /\ UNCHANGED <<storeVars, visible, pickVars, scopeVars, listVars, loads>>

Key ==
  \/ KeyB \/ KeyMove \/ OpenThread \/ KeyS \/ EscList \/ EscDetail
  \/ \E b \in Boards : PickBoard(b)
  \/ \E s \in {SessionOf[h] : h \in Handles} \cup {None} : PickSession(s)

-----------------------------------------------------------------------------
(***************************************************************************)
(* Others write                                                            *)
(***************************************************************************)
\* Posts come, are tombstoned, and are erased, at times under a reply.
Write ==
  /\ writes < MaxWrites /\ writes' = writes + 1
  /\ \/ \E b \in Boards, h \in Handles, d \in Drafts :
          \E i \in {0} \cup {j \in DOMAIN posts : posts[j].board = b} : AppendPost(b, h, d, i)
     \/ \E i \in DOMAIN posts : Tombstone(i) \/ Erase({i})
  /\ UNCHANGED <<uiVars, loads>>

\* tui.New and Init.
Init ==
  /\ posts \in Contents /\ seq = MaxPostID /\ writes = 0
  /\ board \in Start
  /\ view = IF board = None THEN "boards" ELSE "threads"
  /\ visible = contentHeight(0)  \* until the terminal says how high it is
  /\ boardList = FALSE /\ sessionList = <<>>
  /\ session = None /\ summaries = <<>> /\ groups = [i \in {} |-> {}]
  /\ cursor = 0 /\ offset = 0
  /\ detailRoot = 0 /\ inPlace = {}
  /\ loads = [k \in Slots |->
                IF k > 1 THEN NoLoad
                ELSE IF board = None THEN loadBoards ELSE loadBoard(board)]

Switched == <<board, session, view>>' # <<board, session, view>>
Sent == {k \in Slots : loads[k] = NoLoad /\ loads'[k] # NoLoad}
Answered == {k \in Slots : loads'[k] = NoLoad}

Next ==
  \/ Refresh /\ inPlace' = inPlace \cup Sent
  \/ /\ \/ Key
        \/ \E h \in Heights : WindowSizeMsg(h)
        \/ \E k \in Slots : Read(k) \/ BoardsMsg(k) \/ SessionsMsg(k) \/ BoardMsg(k) \/ ErrMsg(k)
        \/ Write
     /\ inPlace' = IF Switched THEN {} ELSE inPlace \ Answered

Spec == Init /\ [][Next]_vars
-----------------------------------------------------------------------------
(***************************************************************************)
(* Properties                                                              *)
(***************************************************************************)
\* Types; what a view shows is there, and every row opens.
TypeOK ==
  /\ LogTypeOK
  /\ view \in {"boards", "threads", "detail", "sessions"}
  /\ visible \in Nat \ {0}
  /\ board \in Boards \cup {None}
  /\ view \in {"detail", "sessions"} => board # None
  /\ view = "detail" => detailRoot \in DOMAIN groups
  /\ session # None => board # None
  /\ cursor \in Nat /\ offset \in Nat
  /\ \A k \in DOMAIN summaries : summaries[k].root \in DOMAIN groups

\* What a load reads is right, of whatever has been written by then: these three
\* are Threads', with the lines of boardview.go, render.go and sessions.go.
ListingsHold ==
  [][(\E k \in Slots : Read(k)) => ListingsAgree /\ IndentShowsParent /\ LeadsAgree]_vars

\* "a stale offset past a shorter list would render blank" (model.go:333-335): whichever
\* answers come in over whichever scope and window, some row is drawn if there are any,
\* the cursor is on a row, and none of those above the window.
WindowHolds ==
  /\ cursor < Len(summaries) \/ cursor = 0
  /\ offset < Len(summaries) \/ offset = 0
  /\ offset <= cursor

\* "fetches a board under the filter currently applied, so a refresh cannot silently
\* widen the view back to every session" (model.go:237-238), which holds of a refresh
\* with nothing switched since: it changes neither board nor filter nor view, but for
\* a thread whose root has vanished.  (One sent before a filter was picked does widen
\* it again, when it comes in after the filter's answer.)
RefreshInPlace ==
  [][\A k \in Slots :
       (BoardsMsg(k) \/ SessionsMsg(k) \/ BoardMsg(k))
         /\ k \in inPlace
       => /\ <<board', session'>> = <<board, session>>
          /\ view' # view => view = "detail" /\ view' = "threads" /\ detailRoot \notin DOMAIN groups'
    ]_vars
=============================================================================
