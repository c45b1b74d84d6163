------------------------------- MODULE Activity -------------------------------
(***************************************************************************)
(* The activity log of `xfa tui --web`: a goroutine that polls the board    *)
(* through a connection of its own and prints a line per event.            *)
(*                                                                         *)
(* A poll is a handful of queries with commits of other connections        *)
(* between any two of them, and any of them may fail.  What is printed is  *)
(* told apart by event: a board, a post, or a mark set on a post.          *)
(***************************************************************************)
EXTENDS PostLog

CONSTANT MaxPosts  \* bound: posts ever written

ASSUME ActivityAssumption == MaxPosts \in Nat

VARIABLES
  exists,  \* the boards table
  pc,      \* the query the poller runs next; "wait" for a tick; "off"
  behind,  \* PRAGMA data_version differs from Activity.version
  raced,   \* ... and from what the running tick read
  lastID,  \* the id watermark
  marks,   \* the marks seen, as events
  boards,  \* the boards seen
  todo,    \* the mark events of this scan still to print
  before,  \* history: the events the snapshot covers
  told,    \* history: the events printed, marks a post's line carries included
  twice,   \* history: those printed once more
  lost     \* history: marks recorded whose post could not be fetched

pollVars == <<pc, lastID, marks, boards, todo, before, told, twice, lost>>
vars == <<posts, seq, exists, behind, raced, pollVars>>

\* MarkedPostIDs.
MarksOn(S) ==
  {<<"resolve", i>> : i \in {j \in S : posts[j].resolvedBy # None}}
    \cup {<<"delete", i>> : i \in {j \in S : posts[j].tombed}}

PostEvents(S) == {<<"post", i>> : i \in S}
BoardEvents(S) == {<<"board", b>> : b \in S}

\* Everything there is to report now.
Standing ==
  BoardEvents(exists) \cup PostEvents(DOMAIN posts) \cup MarksOn(DOMAIN posts)

Scanning == {"boards", "posts", "marks", "show"}
-----------------------------------------------------------------------------
Init ==
  /\ LogInit
  /\ exists = {}
  /\ pc = "version"
  /\ behind = FALSE
  /\ raced = FALSE
  /\ lastID = 0
  /\ marks = {}
  /\ boards = {}
  /\ todo = {}
  /\ before = {}
  /\ told = {}
  /\ twice = {}
  /\ lost = {}

(***************************************************************************)
(* The other connections.  Every commit moves data_version.                *)
(***************************************************************************)
Commit ==
  /\ behind' = (pc \notin {"version", "off"})
  /\ raced' = (pc \in Scanning)
  /\ UNCHANGED pollVars

WritePost ==
  /\ \/ /\ seq < MaxPosts
        /\ \E b \in exists, h \in Handles, d \in Drafts : AppendPost(b, h, d, 0)
     \/ \E i \in DOMAIN posts :
          \/ Tombstone(i)
          \/ \E h \in Handles : Resolve(i, h)
          \/ Erase({i})
  /\ UNCHANGED exists
  /\ Commit

WriteBoard(b) ==
  /\ exists' = exists \cup {b}
  /\ UNCHANGED logVars
  /\ Commit

\* Registrations, cursors, session names.
WriteOther == UNCHANGED <<logVars, exists>> /\ Commit

(***************************************************************************)
(* NewActivity: the snapshot                                               *)
(***************************************************************************)
SnapVersion ==
  /\ pc = "version"
  /\ pc' = "snapMax"
  /\ UNCHANGED <<logVars, exists, behind, raced, lastID, marks, boards, todo,
                 before, told, twice, lost>>

SnapMax ==
  /\ pc = "snapMax"
  /\ pc' = "snapBoards"
  /\ lastID' = MaxPostID
  /\ before' = PostEvents(1..MaxPostID)
  /\ UNCHANGED <<logVars, exists, behind, raced, marks, boards, todo, told, twice, lost>>

SnapBoards ==
  /\ pc = "snapBoards"
  /\ pc' = "snapMarks"
  /\ boards' = exists
  /\ before' = before \cup BoardEvents(exists)
  /\ UNCHANGED <<logVars, exists, behind, raced, lastID, marks, todo, told, twice, lost>>

\* Marks on posts past the watermark are recorded too; their posts' lines,
\* which are still to come, replace them.
SnapMarks ==
  /\ pc = "snapMarks"
  /\ pc' = "wait"
  /\ marks' = MarksOn(DOMAIN posts)
  /\ before' = before \cup MarksOn(DOMAIN posts \cap (1..lastID))
  /\ UNCHANGED <<logVars, exists, behind, raced, lastID, boards, todo, told, twice, lost>>

(***************************************************************************)
(* tick and scan                                                           *)
(***************************************************************************)
Tell(S) ==
  /\ told' = told \cup S
  /\ twice' = twice \cup (S \cap told)

\* The gate.  A pragma that fails, or an unchanged version, ends the tick.
Tick ==
  /\ pc = "wait"
  /\ behind
  /\ pc' = "boards"
  /\ raced' = FALSE
  /\ UNCHANGED <<logVars, exists, behind, lastID, marks, boards, todo, before,
                 told, twice, lost>>

ScanBoards ==
  /\ pc = "boards"
  /\ pc' = "posts"
  /\ boards' = boards \cup exists
  /\ Tell(BoardEvents(exists \ boards))
  /\ UNCHANGED <<logVars, exists, behind, raced, lastID, marks, todo, before, lost>>

Fresh == {i \in DOMAIN posts : i > lastID}

\* (Mutant: the watermark is read from the table.)
ScanPostsMax ==
  /\ pc = "posts"
  /\ pc' = "marks"
  /\ lastID' = MaxPostID
  /\ marks' = {m \in marks : m[2] \notin Fresh} \cup MarksOn(Fresh)
  /\ Tell(PostEvents(Fresh) \cup MarksOn(Fresh))
  /\ UNCHANGED <<logVars, exists, behind, raced, boards, todo, before, lost>>

\* PostsAfter: a line each, with the marks the row carries.
ScanPosts ==
  /\ pc = "posts"
  /\ pc' = "marks"
  /\ lastID' = IF Fresh = {} THEN lastID ELSE MaxPostID
  /\ marks' = {m \in marks : m[2] \notin Fresh} \cup MarksOn(Fresh)
  /\ Tell(PostEvents(Fresh) \cup MarksOn(Fresh))
  /\ UNCHANGED <<logVars, exists, behind, raced, boards, todo, before, lost>>

\* (Mutant: marks past the watermark are not left to the next PostsAfter.)
ScanMarksAll ==
  /\ pc = "marks"
  /\ pc' = "show"
  /\ todo' = MarksOn(DOMAIN posts) \ marks
  /\ UNCHANGED <<logVars, exists, behind, raced, lastID, marks, boards, before,
                 told, twice, lost>>

\* MarkedPostIDs: the marks newly set on posts the watermark has passed.
ScanMarks ==
  /\ pc = "marks"
  /\ pc' = "show"
  /\ todo' = MarksOn({i \in DOMAIN posts : i <= lastID}) \ marks
  /\ UNCHANGED <<logVars, exists, behind, raced, lastID, marks, boards, before,
                 told, twice, lost>>

\* The marks of the first post still to do.
Turn == {m \in todo : \A n \in todo : m[2] <= n[2]}

\* Recorded, then the post is fetched; one that is gone is passed over.
ShowMark ==
  /\ pc = "show"
  /\ todo # {}
  /\ todo' = todo \ Turn
  /\ marks' = marks \cup Turn
  /\ Tell({m \in Turn : m[2] \in DOMAIN posts})
  /\ UNCHANGED <<logVars, exists, behind, raced, pc, lastID, boards, before, lost>>

\* The fetch fails: the scan does, but these marks stay recorded.
MissMark ==
  /\ pc = "show"
  /\ todo # {}
  /\ pc' = "wait"
  /\ todo' = {}
  /\ marks' = marks \cup Turn
  /\ lost' = lost \cup Turn
  /\ raced' = FALSE
  /\ UNCHANGED <<logVars, exists, behind, lastID, boards, before, told, twice>>

\* (Mutant: the version is read after the scan.)
ScanDoneReread ==
  /\ pc = "show"
  /\ todo = {}
  /\ pc' = "wait"
  /\ behind' = FALSE
  /\ raced' = FALSE
  /\ UNCHANGED <<logVars, exists, lastID, marks, boards, todo, before, told, twice, lost>>

\* A scan that got through moves the gate, to where it stood before the scan.
ScanDone ==
  /\ pc = "show"
  /\ todo = {}
  /\ pc' = "wait"
  /\ behind' = raced
  /\ raced' = FALSE
  /\ UNCHANGED <<logVars, exists, lastID, marks, boards, todo, before, told, twice, lost>>

\* (Mutant: the gate moves whatever became of the scan.)
ScanFailsMoves ==
  /\ pc \in {"boards", "posts", "marks"}
  /\ pc' = "wait"
  /\ behind' = raced
  /\ raced' = FALSE
  /\ UNCHANGED <<logVars, exists, lastID, marks, boards, todo, before, told, twice, lost>>

\* A listing fails: the gate stays where it is.
ScanFails ==
  /\ pc \in {"boards", "posts", "marks"}
  /\ pc' = "wait"
  /\ raced' = FALSE
  /\ UNCHANGED <<logVars, exists, behind, lastID, marks, boards, todo, before,
                 told, twice, lost>>

\* The context is cancelled, or a query of the snapshot fails: no (more) log.
Stop ==
  /\ pc # "off"
  /\ pc' = "off"
  /\ behind' = FALSE
  /\ raced' = FALSE
  /\ todo' = {}
  /\ UNCHANGED <<logVars, exists, lastID, marks, boards, before, told, twice, lost>>

Poll == SnapVersion \/ SnapMax \/ SnapBoards \/ SnapMarks \/ Tick \/ ScanBoards
          \/ ScanPosts \/ ScanMarks \/ ShowMark \/ ScanDone

Next ==
  \/ WritePost
  \/ \E b \in Boards : WriteBoard(b)
  \/ WriteOther
  \/ Poll
  \/ MissMark
  \/ ScanFails
  \/ Stop

Spec == Init /\ [][Next]_vars

\* The ticker ticks, and no query fails for ever.
Fairness ==
  /\ WF_vars(SnapVersion)
  /\ WF_vars(SnapMax)
  /\ WF_vars(SnapBoards)
  /\ WF_vars(SnapMarks)
  /\ WF_vars(Tick)
  /\ SF_vars(ScanBoards)
  /\ SF_vars(ScanPosts)
  /\ SF_vars(ScanMarks)
  /\ SF_vars(ShowMark)
  /\ WF_vars(ScanDone)

FairSpec == Spec /\ Fairness
-----------------------------------------------------------------------------
(***************************************************************************)
(* Properties                                                              *)
(***************************************************************************)
Mark == {"resolve", "delete"} \X (1..seq)
Event == Mark \cup PostEvents(1..seq) \cup BoardEvents(exists)

\* Types; work is left over only while marks are being shown, and the watermark
\* covers the snapshot, whatever hard deletes did to MAX(id) (activity.go:120-121).
TypeOK ==
  /\ LogTypeOK
  /\ exists \subseteq Boards
  /\ pc \in {"version", "snapMax", "snapBoards", "snapMarks", "wait", "off"} \cup Scanning
  /\ behind \in BOOLEAN
  /\ raced \in BOOLEAN
  /\ lastID \in 0..seq
  /\ marks \subseteq Mark
  /\ boards \subseteq exists
  /\ todo \subseteq Mark
  /\ pc # "show" => todo = {}
  /\ before \subseteq Event
  /\ \A i \in 1..seq : <<"post", i>> \in before => i <= lastID
  /\ told \subseteq Event
  /\ twice \subseteq told
  /\ lost \subseteq Mark

\* "nothing existing is ever replayed" (activity.go:47-48), "ids are AUTOINCREMENT
\* so a hard delete lowering MAX(id) never replays anything" (store/activity.go:18)
\* and "a create+resolve or create+tombstone inside one tick prints once"
\* (activity.go:129): no event of the snapshot is printed, none is printed twice,
\* however many scans failed half-way, and no mark before the line of its post.
EachOnce ==
  /\ twice = {}
  /\ told \cap before = {}
  /\ \A m \in told \cap Mark : <<"post", m[2]>> \in told \cup before

\* With the gate shut nothing is unreported, although commits landed between the
\* queries of the last scan and earlier scans failed at any of them; but for marks
\* whose post could not be fetched.
GateShutWhenCaughtUp ==
  pc = "wait" /\ ~behind => Standing \subseteq before \cup told \cup lost

\* "prints one line per board event as it lands, from any writer" (README.md:242):
\* what happens and is not undone by a hard delete is reported by some later tick.
EventsSurface ==
  \A e \in BoardEvents(Boards) \cup ({"post", "resolve", "delete"} \X (1..MaxPosts)) :
    e \in Standing ~> \/ e \in before \cup told \cup lost
                      \/ e \notin Standing
                      \/ pc = "off"

\* "a transient scan error re-scans next tick instead of parking events until the
\* next commit" (activity.go:96-97): a shut gate has left nothing out.
NoEventParked ==
  pc = "wait" /\ ~behind => Standing \subseteq before \cup told
=============================================================================
