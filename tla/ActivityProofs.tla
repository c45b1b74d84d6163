---------------------------- MODULE ActivityProofs ----------------------------
(***************************************************************************)
(* Proofs about Activity, for any boards, handles and number of posts:     *)
(* each event is printed once, and a shut gate has left out nothing but    *)
(* marks whose post could not be fetched.                                  *)
(***************************************************************************)
EXTENDS Activity, PostLogProofs

Known == told \cup before

\* Until the snapshot is complete, what it has yet to read is empty.
SnapOK ==
  /\ pc \in {"version", "snapMax"} => lastID = 0 /\ before = {}
  /\ pc \in {"version", "snapMax", "snapBoards"} => boards = {}
  /\ pc \in {"version", "snapMax", "snapBoards", "snapMarks"} => told = {} /\ marks = {}

\* The watermark, the boards seen and the marks seen say what is known; a mark
\* of a post that is there may also be lost.
PostsOK ==
  /\ \A i \in 1..seq : <<"post", i>> \in Known => i <= lastID
  /\ \A i \in DOMAIN posts : i <= lastID => <<"post", i>> \in Known
BoardsOK == \A b \in Boards : <<"board", b>> \in Known <=> b \in boards
MarksOK ==
  /\ \A m \in Mark : m \in Known => m \in marks /\ m[2] <= lastID
  /\ \A m \in marks : m[2] \in DOMAIN posts /\ m[2] <= lastID => m \in Known \cup lost
TodoOK == \A m \in todo : m \notin marks /\ m[2] <= lastID

\* What the running scan, or for want of one the gate, vouches for so far.
Vouched == IF pc \in Scanning THEN ~raced ELSE ~behind
BoardsSeen == exists \subseteq boards
PostsSeen == \A i \in DOMAIN posts : i <= lastID
MarksSeen == MarksOn(DOMAIN posts) \subseteq marks \cup todo

GateOK ==
  /\ pc \in Scanning => behind
  /\ Vouched =>
       /\ pc \in {"snapMarks", "posts", "marks", "show", "wait"} => BoardsSeen
       /\ pc \in {"snapBoards", "snapMarks", "marks", "show", "wait"} => PostsSeen
       /\ pc \in {"show", "wait"} => MarksSeen

IInv == /\ TypeOK
        /\ EachOnce
        /\ SnapOK
        /\ PostsOK
        /\ BoardsOK
        /\ MarksOK
        /\ TodoOK
        /\ GateOK
-----------------------------------------------------------------------------
\* What MarkedPostIDs returns are marks on rows.
LEMMA MarksOnRows ==
  ASSUME LogTypeOK, NEW S \in SUBSET DOMAIN posts
  PROVE  /\ MarksOn(S) \subseteq Mark
         /\ \A m \in MarksOn(S) : m[2] \in S
         /\ \A m \in MarksOn(DOMAIN posts) : m[2] \in S => m \in MarksOn(S)
BY DEF MarksOn, Mark, LogTypeOK

\* The poller's own steps leave the tables alone.
LEMMA SameTables ==
  ASSUME LogTypeOK, UNCHANGED <<logVars, exists>>
  PROVE  LogTypeOK' /\ Mark' = Mark /\ Event' = Event /\ posts' = posts /\ seq' = seq
<1>1. posts' = posts /\ seq' = seq /\ exists' = exists
  BY DEF logVars
<1>2. LogTypeOK'
  BY <1>1 DEF LogTypeOK
<1>3. Mark' = Mark
  BY <1>1 DEF Mark
<1>4. Event' = Event
  BY <1>1, <1>3 DEF Event, PostEvents, BoardEvents
<1>5. QED
  BY <1>1, <1>2, <1>3, <1>4

\* A commit by another connection.
LEMMA OthersStep ==
  ASSUME TypeOK, WritePost \/ (\E b \in Boards : WriteBoard(b)) \/ WriteOther
  PROVE  /\ [LogNext]_logVars
         /\ exists \subseteq exists' /\ exists' \subseteq Boards
         /\ Commit
<1>1. CASE WritePost
  <2>1. 0 \in 0..seq
    BY DEF TypeOK, LogTypeOK
  <2>2. ASSUME NEW i \in DOMAIN posts, Erase({i})
        PROVE  LogNext
    BY <2>2 DEF LogNext
  <2>3. ASSUME NEW b \in exists, NEW h \in Handles, NEW d \in Drafts, AppendPost(b, h, d, 0)
        PROVE  LogNext
    BY <2>1, <2>3 DEF LogNext, TypeOK
  <2>4. QED
    BY <1>1, <2>2, <2>3 DEF WritePost, LogNext, TypeOK
<1>2. CASE (\E b \in Boards : WriteBoard(b)) \/ WriteOther
  BY <1>2 DEF WriteBoard, WriteOther, TypeOK, logVars
<1>3. QED
  BY <1>1, <1>2

\* A commit by another connection keeps the inductive invariant.
LEMMA OthersKeepIInv ==
  ASSUME IInv, WritePost \/ (\E b \in Boards : WriteBoard(b)) \/ WriteOther
  PROVE  IInv'
<1> USE DEF IInv
<1>1. /\ LogTypeOK'
      /\ seq \in Nat /\ seq' \in Nat /\ seq <= seq'
      /\ exists \subseteq exists' /\ exists' \subseteq Boards
      /\ Commit
      /\ \A i \in DOMAIN posts' : i \in DOMAIN posts \/ i > lastID
  BY OthersStep, LogTypeStep, LogStepKeepsContent DEF TypeOK, LogTypeOK
<1>2. UNCHANGED <<pc, lastID, marks, boards, todo, before, told, twice, lost>>
  BY <1>1 DEF Commit, pollVars
<1>3. Mark \subseteq Mark' /\ Event \subseteq Event'
  BY <1>1 DEF Mark, Event, PostEvents, BoardEvents
<1>4. Mark' \cap Event = Mark /\ \A i \in 1..seq' : <<"post", i>> \in Event => i \in 1..seq
  BY <1>1 DEF Mark, Event, PostEvents, BoardEvents
<1>5. TypeOK'
  <2>1. \A i \in 1..seq' : <<"post", i>> \in before => i \in 1..seq
    BY <1>4 DEF TypeOK
  <2>2. QED
    BY <1>1, <1>2, <1>3, <2>1 DEF TypeOK, Commit, Scanning
<1>6. EachOnce'
  BY <1>2, <1>4 DEF EachOnce, TypeOK
<1>7. SnapOK'
  BY <1>2 DEF SnapOK
<1>8. PostsOK' /\ BoardsOK'
  <2>1. Known' = Known /\ Known \subseteq Event
    BY <1>2 DEF Known, TypeOK
  <2>2. \A i \in 1..seq' : <<"post", i>> \in Known' => i <= lastID'
    BY <1>2, <1>4, <2>1 DEF PostsOK
  <2>3. \A i \in DOMAIN posts' : i <= lastID' => <<"post", i>> \in Known'
    <3>1. \A i \in DOMAIN posts' : i <= lastID => i \in DOMAIN posts
      BY <1>1 DEF TypeOK, LogTypeOK
    <3>2. QED
      BY <1>2, <2>1, <3>1 DEF PostsOK
  <2>4. BoardsOK'
    BY <1>2, <2>1 DEF BoardsOK
  <2>5. QED
    BY <2>2, <2>3, <2>4 DEF PostsOK
<1>9. MarksOK' /\ TodoOK'
  <2>1. \A m \in Mark' : m \in Known => m \in Mark
    BY <1>4 DEF Known, TypeOK
  <2>2. \A m \in marks : m[2] \in DOMAIN posts' /\ m[2] <= lastID => m[2] \in DOMAIN posts
    BY <1>1 DEF TypeOK, LogTypeOK, Mark
  <2>3. QED
    BY <1>2, <2>1, <2>2 DEF MarksOK, TodoOK, Known
<1>10. GateOK'
  BY <1>1, <1>2 DEF GateOK, Vouched, Commit, Scanning, TypeOK
<1>11. QED
  BY <1>5, <1>6, <1>7, <1>8, <1>9, <1>10
-----------------------------------------------------------------------------
\* The steps that print nothing and record nothing.
LEMMA QuietStepsKeepIInv ==
  ASSUME IInv, SnapVersion \/ Tick \/ ScanFails \/ ScanDone \/ Stop
  PROVE  IInv'
<1> USE DEF IInv
<1>1. /\ UNCHANGED <<logVars, exists, lastID, marks, boards, before, told, twice, lost>>
      /\ todo' \subseteq todo
  BY DEF SnapVersion, Tick, ScanFails, ScanDone, Stop
<1>2. TypeOK'
  <2>1. LogTypeOK' /\ Mark' = Mark /\ Event' = Event /\ seq' = seq
    BY <1>1, SameTables DEF TypeOK
  <2>2. /\ pc' \in {"snapMax", "boards", "wait", "off"} /\ todo' = {}
        /\ behind' \in BOOLEAN /\ raced' \in BOOLEAN
    BY DEF SnapVersion, Tick, ScanFails, ScanDone, Stop, TypeOK
  <2>3. QED
    BY <1>1, <2>1, <2>2 DEF TypeOK, Scanning
<1>3. EachOnce'
  BY <1>1 DEF EachOnce, Mark, logVars
<1>4. PostsOK' /\ BoardsOK' /\ MarksOK' /\ TodoOK'
  BY <1>1 DEF PostsOK, BoardsOK, MarksOK, TodoOK, Known, Mark, logVars
<1>5. SnapOK'
  BY <1>1 DEF SnapOK, SnapVersion, Tick, ScanFails, ScanDone, Stop
<1>6. GateOK'
  <2>1. BoardsSeen' = BoardsSeen /\ PostsSeen' = PostsSeen
    BY <1>1 DEF BoardsSeen, PostsSeen, logVars
  <2>2. todo' = todo => MarksSeen' = MarksSeen
    BY <1>1 DEF MarksSeen, MarksOn, logVars
  <2>3. CASE SnapVersion \/ Tick \/ Stop
    BY <2>3 DEF GateOK, Vouched, Scanning, SnapVersion, Tick, Stop
  <2>4. CASE ScanFails
    BY <2>4 DEF GateOK, Vouched, Scanning, ScanFails
  <2>5. CASE ScanDone
    <3>1. pc = "show" /\ pc' = "wait" /\ behind' = raced /\ todo' = todo
      BY <2>5 DEF ScanDone
    <3>2. QED
      BY <2>1, <2>2, <3>1 DEF GateOK, Vouched, Scanning
  <2>6. QED
    BY <2>3, <2>4, <2>5
<1>7. QED
  BY <1>2, <1>3, <1>4, <1>5, <1>6

\* The watermark of the snapshot.
LEMMA SnapMaxKeepsIInv ==
  ASSUME IInv, SnapMax
  PROVE  IInv'
<1> USE DEF IInv
<1>1. /\ MaxPostID \in 0..seq
      /\ \A i \in DOMAIN posts : i <= MaxPostID
  BY MaxPostIDOf DEF TypeOK
<1>2. /\ UNCHANGED <<logVars, exists, behind, raced, marks, boards, todo, told, twice, lost>>
      /\ pc = "snapMax" /\ pc' = "snapBoards"
      /\ lastID' = MaxPostID /\ before' = PostEvents(1..MaxPostID)
  BY DEF SnapMax
<1>3. told = {} /\ marks = {} /\ boards = {} /\ todo = {} /\ before = {} /\ twice = {}
  BY <1>2 DEF SnapOK, TypeOK, EachOnce
<1>4. before' \subseteq PostEvents(1..seq)
  BY <1>1, <1>2 DEF PostEvents, TypeOK, LogTypeOK
<1>5. \A i \in 1..seq : <<"post", i>> \in before' <=> i <= lastID'
  BY <1>1, <1>2 DEF PostEvents, TypeOK, LogTypeOK
<1>6. /\ \A m \in Mark : m \notin before'
      /\ \A b : <<"board", b>> \notin before'
  BY <1>4 DEF PostEvents, Mark
<1>7. LogTypeOK' /\ Mark' = Mark /\ Event' = Event /\ seq' = seq
  BY <1>2, SameTables DEF TypeOK
<1>8. TypeOK'
  <2>1. before' \subseteq Event
    BY <1>4 DEF Event
  <2>2. QED
    BY <1>1, <1>2, <1>3, <1>5, <1>7, <2>1 DEF TypeOK
<1>9. EachOnce' /\ SnapOK' /\ TodoOK'
  BY <1>2, <1>3 DEF EachOnce, SnapOK, TodoOK
<1>10. PostsOK'
  BY <1>1, <1>2, <1>3, <1>5 DEF PostsOK, Known, logVars, TypeOK, LogTypeOK
<1>11. BoardsOK' /\ MarksOK'
  BY <1>2, <1>3, <1>6, <1>7 DEF BoardsOK, MarksOK, Known
<1>12. GateOK'
  BY <1>1, <1>2 DEF GateOK, Vouched, Scanning, PostsSeen, logVars
<1>13. QED
  BY <1>8, <1>9, <1>10, <1>11, <1>12

\* The boards of the snapshot, and those of a scan.
LEMMA BoardStepsKeepIInv ==
  ASSUME IInv, SnapBoards \/ ScanBoards
  PROVE  IInv'
<1> USE DEF IInv
<1> DEFINE new == BoardEvents(exists \ boards)
<1>1. /\ UNCHANGED <<logVars, exists, behind, raced, lastID, marks, todo, lost>>
      /\ \/ pc = "snapBoards" /\ pc' = "snapMarks"
         \/ pc = "boards" /\ pc' = "posts"
      /\ boards' = boards \cup exists
  BY DEF SnapBoards, ScanBoards, SnapOK
<1>2. new \cap Known = {}
  BY DEF BoardEvents, BoardsOK, TypeOK
<1>3. /\ \/ told' = told \cup new /\ before' = before
         \/ told' = told /\ before' = before \cup new
      /\ twice' = twice
  <2>1. CASE SnapBoards
    BY <2>1 DEF SnapBoards, SnapOK
  <2>2. CASE ScanBoards
    BY <1>2, <2>2 DEF ScanBoards, Tell, Known
  <2>3. QED
    BY <2>1, <2>2
<1>4. Known' = Known \cup new
  BY <1>3 DEF Known
<1>5. /\ LogTypeOK' /\ Mark' = Mark /\ Event' = Event /\ seq' = seq
      /\ new \subseteq Event
      /\ new \cap Mark = {}
      /\ \A i \in 1..seq : <<"post", i>> \notin new
  <2>1. LogTypeOK' /\ Mark' = Mark /\ Event' = Event /\ seq' = seq
    BY <1>1, SameTables DEF TypeOK
  <2>2. QED
    BY <2>1 DEF Mark, Event, BoardEvents
<1>6. \A b \in Boards : <<"board", b>> \in new <=> b \in exists \ boards
  BY DEF BoardEvents
<1> HIDE DEF new
<1>7. TypeOK'
  BY <1>1, <1>3, <1>5 DEF TypeOK, Scanning
<1>8. EachOnce'
  BY <1>1, <1>2, <1>3, <1>5 DEF EachOnce, Known, logVars
<1>9. SnapOK'
  BY <1>1 DEF SnapOK, SnapBoards, ScanBoards
<1>10. PostsOK'
  BY <1>1, <1>4, <1>5 DEF PostsOK, logVars, TypeOK, LogTypeOK
<1>11. BoardsOK'
  BY <1>1, <1>4, <1>6 DEF BoardsOK
<1>12. MarksOK' /\ TodoOK'
  BY <1>1, <1>4, <1>5 DEF MarksOK, TodoOK, logVars
<1>13. GateOK'
  BY <1>1 DEF GateOK, Vouched, Scanning, BoardsSeen, PostsSeen, logVars
<1>14. QED
  BY <1>7, <1>8, <1>9, <1>10, <1>11, <1>12, <1>13

\* PostsAfter: the new rows are told with their marks, and the watermark moves.
LEMMA ScanPostsKeepsIInv ==
  ASSUME IInv, ScanPosts
  PROVE  IInv'
<1> USE DEF IInv
<1> DEFINE carried == MarksOn(Fresh)
           new == PostEvents(Fresh) \cup carried
<1>1. /\ UNCHANGED <<logVars, exists, behind, raced, boards, todo, before, lost>>
      /\ pc = "posts" /\ pc' = "marks"
      /\ lastID' = IF Fresh = {} THEN lastID ELSE MaxPostID
      /\ marks' = {m \in marks : m[2] \notin Fresh} \cup carried
      /\ told' = told \cup new
      /\ twice' = twice \cup (new \cap told)
  BY DEF ScanPosts, Tell
<1>2. /\ lastID' \in 0..seq /\ lastID <= lastID' /\ lastID \in 0..seq
      /\ \A i \in DOMAIN posts : i <= lastID'
      /\ Fresh \subseteq DOMAIN posts /\ DOMAIN posts \subseteq 1..seq
      /\ \A i \in DOMAIN posts : i \in Fresh <=> ~(i <= lastID)
  BY <1>1, MaxPostIDOf DEF Fresh, TypeOK, LogTypeOK
<1>3. LogTypeOK' /\ Mark' = Mark /\ Event' = Event /\ seq' = seq /\ posts' = posts
  BY <1>1, SameTables DEF TypeOK
<1>4. carried \subseteq Mark /\ \A m \in carried : m[2] \in Fresh
  BY <1>2, MarksOnRows DEF TypeOK
<1>5. \A i \in 1..seq : <<"post", i>> \in new <=> i \in Fresh
  BY <1>4 DEF PostEvents, Mark
<1>6. /\ new \cap Mark = carried
      /\ \A b : <<"board", b>> \notin new
      /\ new \subseteq Event
  BY <1>2, <1>4 DEF PostEvents, Mark, Event
<1>7. Known' = Known \cup new
  BY <1>1 DEF Known
<1>8. new \cap Known = {}
  <2>1. \A i \in Fresh : <<"post", i>> \notin Known
    BY <1>2 DEF PostsOK
  <2>2. \A m \in carried : m \notin Known
    BY <1>2, <1>4 DEF MarksOK
  <2>3. QED
    BY <2>1, <2>2 DEF PostEvents
<1> HIDE DEF new, carried
<1>9. TypeOK'
  <2>1. marks' \subseteq Mark
    BY <1>1, <1>4 DEF TypeOK
  <2>2. told' \subseteq Event /\ twice' \subseteq told'
    BY <1>1, <1>6 DEF TypeOK
  <2>3. \A i \in 1..seq : <<"post", i>> \in before => i <= lastID'
    BY <1>2 DEF TypeOK
  <2>4. QED
    BY <1>1, <1>2, <1>3, <2>1, <2>2, <2>3 DEF TypeOK, Scanning
<1>10. EachOnce'
  <2>1. twice' = {} /\ told' \cap before' = {}
    BY <1>1, <1>8 DEF EachOnce, Known
  <2>2. \A m \in told' \cap Mark : <<"post", m[2]>> \in told' \cup before'
    <3>1. \A m \in carried : <<"post", m[2]>> \in new
      BY <1>2, <1>4, <1>5
    <3>2. QED
      BY <1>1, <1>6, <3>1 DEF EachOnce
  <2>3. QED
    BY <1>3, <2>1, <2>2 DEF EachOnce
<1>11. SnapOK'
  BY <1>1 DEF SnapOK
<1>12. PostsOK'
  <2>1. \A i \in 1..seq : <<"post", i>> \in Known' => i <= lastID'
    BY <1>2, <1>5, <1>7 DEF PostsOK
  <2>2. \A i \in DOMAIN posts : <<"post", i>> \in Known'
    BY <1>2, <1>5, <1>7 DEF PostsOK
  <2>3. QED
    BY <1>3, <2>1, <2>2 DEF PostsOK
<1>13. BoardsOK'
  BY <1>1, <1>6, <1>7 DEF BoardsOK
<1>14. MarksOK'
  <2>1. ASSUME NEW m \in Mark, m \in Known'
        PROVE  m \in marks' /\ m[2] <= lastID'
    <3>1. CASE m \in carried
      BY <1>1, <1>2, <1>4, <3>1
    <3>2. CASE m \in Known
      <4>1. m \in marks /\ m[2] <= lastID
        BY <3>2 DEF MarksOK
      <4>2. m[2] \in Nat
        BY DEF Mark
      <4>3. QED
        BY <1>1, <1>2, <4>1, <4>2
    <3>3. QED
      BY <1>6, <1>7, <2>1, <3>1, <3>2
  <2>2. ASSUME NEW m \in marks', m[2] \in DOMAIN posts
        PROVE  m \in Known' \cup lost
    <3>1. CASE m \in carried
      BY <1>6, <1>7, <3>1
    <3>2. CASE m \in marks /\ m[2] \notin Fresh
      BY <1>2, <1>7, <2>2, <3>2 DEF MarksOK
    <3>3. QED
      BY <1>1, <3>1, <3>2
  <2>3. QED
    BY <1>1, <1>3, <2>1, <2>2 DEF MarksOK
<1>15. TodoOK'
  BY <1>1 DEF TodoOK, TypeOK
<1>16. GateOK'
  <2>1. PostsSeen'
    BY <1>2, <1>3 DEF PostsSeen
  <2>2. BoardsSeen' = BoardsSeen
    BY <1>1 DEF BoardsSeen
  <2>3. QED
    BY <1>1, <2>1, <2>2 DEF GateOK, Vouched, Scanning
<1>17. QED
  BY <1>9, <1>10, <1>11, <1>12, <1>13, <1>14, <1>15, <1>16

\* The marks of the snapshot.
LEMMA SnapMarksKeepsIInv ==
  ASSUME IInv, SnapMarks
  PROVE  IInv'
<1> USE DEF IInv
<1> DEFINE all == MarksOn(DOMAIN posts)
           new == MarksOn(DOMAIN posts \cap (1..lastID))
<1>1. /\ UNCHANGED <<logVars, exists, behind, raced, lastID, boards, todo, told, twice, lost>>
      /\ pc = "snapMarks" /\ pc' = "wait"
      /\ marks' = all
      /\ before' = before \cup new
  BY DEF SnapMarks
<1>2. told = {} /\ marks = {} /\ todo = {} /\ twice = {}
  BY <1>1 DEF SnapOK, TypeOK, EachOnce
<1>3. LogTypeOK' /\ Mark' = Mark /\ Event' = Event /\ seq' = seq /\ posts' = posts
  BY <1>1, SameTables DEF TypeOK
<1>4. /\ all \subseteq Mark
      /\ new \subseteq all
      /\ \A m \in new : m[2] <= lastID
      /\ \A m \in all : m[2] \in DOMAIN posts /\ (m[2] <= lastID => m \in new)
  BY MarksOnRows DEF MarksOn, TypeOK, LogTypeOK, Mark
<1>5. /\ \A i : <<"post", i>> \notin new
      /\ \A b : <<"board", b>> \notin new
  BY <1>4 DEF Mark
<1>6. Known' = Known \cup new /\ \A m \in Mark : m \notin Known
  BY <1>1, <1>2 DEF Known, MarksOK
<1> HIDE DEF all, new
<1>7. TypeOK'
  BY <1>1, <1>2, <1>3, <1>4, <1>5 DEF TypeOK, Scanning, Event
<1>8. EachOnce' /\ SnapOK' /\ TodoOK'
  BY <1>1, <1>2 DEF EachOnce, SnapOK, TodoOK
<1>9. PostsOK' /\ BoardsOK'
  BY <1>1, <1>3, <1>5, <1>6 DEF PostsOK, BoardsOK
<1>10. MarksOK'
  BY <1>1, <1>3, <1>4, <1>6 DEF MarksOK
<1>11. GateOK'
  <2>1. BoardsSeen' = BoardsSeen /\ PostsSeen' = PostsSeen
    BY <1>1, <1>3 DEF BoardsSeen, PostsSeen
  <2>2. MarksSeen'
    BY <1>1, <1>3 DEF MarksSeen, MarksOn, all
  <2>3. QED
    BY <1>1, <2>1, <2>2 DEF GateOK, Vouched, Scanning
<1>12. QED
  BY <1>7, <1>8, <1>9, <1>10, <1>11

\* MarkedPostIDs: what is to be shown is news, and on posts already told.
LEMMA ScanMarksKeepsIInv ==
  ASSUME IInv, ScanMarks
  PROVE  IInv'
<1> USE DEF IInv
<1> DEFINE passed == {i \in DOMAIN posts : i <= lastID}
<1>1. /\ UNCHANGED <<logVars, exists, behind, raced, lastID, marks, boards, before, told,
                     twice, lost>>
      /\ pc = "marks" /\ pc' = "show"
      /\ todo' = MarksOn(passed) \ marks
  BY DEF ScanMarks
<1>2. LogTypeOK' /\ Mark' = Mark /\ Event' = Event /\ seq' = seq /\ posts' = posts
  BY <1>1, SameTables DEF TypeOK
<1>3. /\ MarksOn(passed) \subseteq Mark
      /\ \A m \in MarksOn(passed) : m[2] \in passed
  BY MarksOnRows DEF TypeOK
<1>4. TypeOK'
  BY <1>1, <1>2, <1>3 DEF TypeOK, Scanning
<1>5. EachOnce' /\ SnapOK'
  BY <1>1, <1>2 DEF EachOnce, SnapOK
<1>6. PostsOK' /\ BoardsOK' /\ MarksOK'
  BY <1>1, <1>2 DEF PostsOK, BoardsOK, MarksOK, Known
<1>7. TodoOK'
  BY <1>1, <1>3 DEF TodoOK
<1>8. GateOK'
  <2>1. BoardsSeen' = BoardsSeen /\ PostsSeen' = PostsSeen
    BY <1>1, <1>2 DEF BoardsSeen, PostsSeen
  <2>2. PostsSeen => MarksSeen'
    <3>1. PostsSeen => passed = DOMAIN posts
      BY DEF PostsSeen
    <3>2. MarksOn(DOMAIN posts)' = MarksOn(DOMAIN posts)
      BY <1>2 DEF MarksOn
    <3> HIDE DEF passed
    <3>3. QED
      BY <1>1, <3>1, <3>2 DEF MarksSeen
  <2>3. QED
    BY <1>1, <2>1, <2>2 DEF GateOK, Vouched, Scanning
<1>9. QED
  BY <1>4, <1>5, <1>6, <1>7, <1>8

\* A mark is recorded, and told unless its post is gone or cannot be fetched.
LEMMA MarkStepsKeepIInv ==
  ASSUME IInv, ShowMark \/ MissMark
  PROVE  IInv'
<1> USE DEF IInv
<1> DEFINE there == {m \in Turn : m[2] \in DOMAIN posts}
<1>1. /\ UNCHANGED <<logVars, exists, behind, lastID, boards, before>>
      /\ pc = "show"
      /\ marks' = marks \cup Turn
  BY DEF ShowMark, MissMark
<1>2. LogTypeOK' /\ Mark' = Mark /\ Event' = Event /\ seq' = seq /\ posts' = posts
  BY <1>1, SameTables DEF TypeOK
<1>3. /\ Turn \subseteq todo /\ todo \subseteq Mark
      /\ \A m \in todo : m[2] <= lastID /\ m \notin marks /\ m \notin Known
  BY DEF Turn, TypeOK, TodoOK, MarksOK
<1>4. /\ \A i : <<"post", i>> \notin Turn
      /\ \A b : <<"board", b>> \notin Turn
      /\ Turn \subseteq Event
  BY <1>3 DEF Mark, Event
<1>5. /\ \/ pc' = "show" /\ todo' = todo \ Turn /\ raced' = raced
            /\ told' = told \cup there /\ lost' = lost
         \/ pc' = "wait" /\ todo' = {} /\ raced' = FALSE
            /\ told' = told /\ lost' = lost \cup Turn
      /\ twice' = twice
  <2>1. CASE ShowMark
    <3>1. there \cap told = {}
      BY <1>3 DEF Known
    <3>2. QED
      BY <2>1, <3>1 DEF ShowMark, Tell
  <2>2. CASE MissMark
    BY <2>2 DEF MissMark
  <2>3. QED
    BY <2>1, <2>2
<1>6. /\ Known' \subseteq Known \cup Turn /\ Known \subseteq Known'
      /\ there \subseteq Known' \cup lost'
      /\ lost \subseteq lost'
  BY <1>1, <1>5 DEF Known
<1>7. TypeOK'
  BY <1>1, <1>2, <1>3, <1>4, <1>5 DEF TypeOK, Scanning
<1>8. EachOnce'
  <2>1. told' \cap before' = {}
    BY <1>1, <1>3, <1>5 DEF EachOnce, Known
  <2>2. \A m \in there : <<"post", m[2]>> \in Known
    BY <1>3 DEF PostsOK
  <2>3. \A m \in told' \cap Mark : <<"post", m[2]>> \in told \cup before
    BY <1>5, <2>2 DEF EachOnce, Known
  <2>4. QED
    BY <1>1, <1>2, <1>5, <2>1, <2>3 DEF EachOnce
<1>9. SnapOK'
  BY <1>5 DEF SnapOK
<1>10. PostsOK' /\ BoardsOK'
  BY <1>1, <1>2, <1>4, <1>6 DEF PostsOK, BoardsOK
<1>11. MarksOK'
  <2>1. \A m \in Mark : m \in Known' => m \in marks' /\ m[2] <= lastID
    BY <1>1, <1>3, <1>6 DEF MarksOK
  <2>2. \A m \in marks' : m[2] \in DOMAIN posts /\ m[2] <= lastID => m \in Known' \cup lost'
    BY <1>1, <1>6 DEF MarksOK
  <2>3. QED
    BY <1>1, <1>2, <2>1, <2>2 DEF MarksOK
<1>12. TodoOK'
  BY <1>1, <1>3, <1>5 DEF TodoOK
<1>13. GateOK'
  <2>1. BoardsSeen' = BoardsSeen /\ PostsSeen' = PostsSeen
    BY <1>1, <1>2 DEF BoardsSeen, PostsSeen
  <2>2. todo' = todo \ Turn => (MarksSeen => MarksSeen')
    BY <1>1, <1>2 DEF MarksSeen, MarksOn
  <2>3. QED
    BY <1>1, <1>5, <2>1, <2>2 DEF GateOK, Vouched, Scanning
<1>14. QED
  BY <1>7, <1>8, <1>9, <1>10, <1>11, <1>12, <1>13
-----------------------------------------------------------------------------
\* The invariant holds in every state of every behaviour.
THEOREM Invariance == Spec => []IInv
<1>1. Init => IInv
  <2>1. ASSUME Init PROVE TypeOK
    <3>1. LogTypeOK /\ seq = 0
      BY <2>1 DEF Init, LogInit, LogTypeOK
    <3>2. lastID \in 0..seq /\ exists \subseteq Boards /\ boards \subseteq exists
      BY <2>1, <3>1 DEF Init
    <3>3. marks \subseteq Mark /\ todo \subseteq Mark /\ lost \subseteq Mark
      BY <2>1 DEF Init
    <3>4. before \subseteq Event /\ told \subseteq Event /\ twice \subseteq told /\ before = {}
      BY <2>1 DEF Init
    <3>5. QED
      BY <2>1, <3>1, <3>2, <3>3, <3>4 DEF Init, TypeOK
  <2>2. ASSUME Init PROVE EachOnce /\ SnapOK /\ PostsOK /\ BoardsOK /\ MarksOK /\ TodoOK
    BY <2>2 DEF Init, LogInit, EachOnce, SnapOK, PostsOK, BoardsOK, MarksOK, TodoOK, Known
  <2>3. ASSUME Init PROVE GateOK
    BY <2>3 DEF Init, GateOK, Scanning
  <2>4. QED
    BY <2>1, <2>2, <2>3 DEF IInv
<1>2. IInv /\ [Next]_vars => IInv'
  <2>1. SUFFICES ASSUME IInv, [Next]_vars
                 PROVE  IInv'
    OBVIOUS
  <2>2. CASE WritePost \/ (\E b \in Boards : WriteBoard(b)) \/ WriteOther
    BY <2>1, <2>2, OthersKeepIInv
  <2>3. CASE SnapVersion \/ Tick \/ ScanFails \/ ScanDone \/ Stop
    BY <2>1, <2>3, QuietStepsKeepIInv
  <2>4. CASE SnapMax
    BY <2>1, <2>4, SnapMaxKeepsIInv
  <2>5. CASE SnapBoards \/ ScanBoards
    BY <2>1, <2>5, BoardStepsKeepIInv
  <2>6. CASE SnapMarks
    BY <2>1, <2>6, SnapMarksKeepsIInv
  <2>7. CASE ScanPosts
    BY <2>1, <2>7, ScanPostsKeepsIInv
  <2>8. CASE ScanMarks
    BY <2>1, <2>8, ScanMarksKeepsIInv
  <2>9. CASE ShowMark \/ MissMark
    BY <2>1, <2>9, MarkStepsKeepIInv
  <2>10. CASE UNCHANGED vars
    <3>1. UNCHANGED <<logVars, exists>>
      BY <2>10 DEF vars, logVars
    <3>2. LogTypeOK' /\ Mark' = Mark /\ Event' = Event /\ posts' = posts /\ seq' = seq
      BY <2>1, <3>1, SameTables DEF IInv, TypeOK
    <3>3. UNCHANGED <<exists, behind, raced, pc, lastID, marks, boards, todo, before, told,
                      twice, lost>>
      BY <2>10 DEF vars, pollVars
    <3>4. TypeOK'
      BY <2>1, <3>2, <3>3 DEF IInv, TypeOK
    <3>5. EachOnce' /\ SnapOK' /\ PostsOK' /\ BoardsOK' /\ MarksOK' /\ TodoOK'
      BY <2>1, <3>2, <3>3
      DEF IInv, EachOnce, SnapOK, PostsOK, BoardsOK, MarksOK, TodoOK, Known
    <3>6. GateOK'
      BY <2>1, <3>2, <3>3
      DEF IInv, GateOK, Vouched, BoardsSeen, PostsSeen, MarksSeen, MarksOn
    <3>7. QED
      BY <3>4, <3>5, <3>6 DEF IInv
  <2>11. QED
    BY <2>1, <2>2, <2>3, <2>4, <2>5, <2>6, <2>7, <2>8, <2>9, <2>10 DEF Next, Poll
<1>3. QED
  BY <1>1, <1>2, PTL DEF Spec

\* Every variable keeps its type, and the watermark covers the snapshot.
THEOREM TypeCorrect == Spec => []TypeOK
<1>1. IInv => TypeOK
  BY DEF IInv
<1>2. QED
  BY <1>1, Invariance, PTL

\* No event of the snapshot is replayed, and none is printed twice.
THEOREM EventsArePrintedOnce == Spec => []EachOnce
<1>1. IInv => EachOnce
  BY DEF IInv
<1>2. QED
  BY <1>1, Invariance, PTL

\* When the gate is shut every event that stands is in the snapshot, printed, or a
\* mark whose post could not be fetched.
THEOREM ShutGateHidesNothing == Spec => []GateShutWhenCaughtUp
<1>1. IInv => GateShutWhenCaughtUp
  <2>1. SUFFICES ASSUME IInv, pc = "wait", ~behind
                 PROVE  Standing \subseteq before \cup told \cup lost
    BY DEF GateShutWhenCaughtUp
  <2>2. BoardsSeen /\ PostsSeen /\ MarksSeen /\ todo = {}
    BY <2>1 DEF IInv, GateOK, Vouched, Scanning, TypeOK
  <2>3. BoardEvents(exists) \subseteq Known
    BY <2>1, <2>2 DEF IInv, BoardsOK, BoardsSeen, BoardEvents, TypeOK
  <2>4. PostEvents(DOMAIN posts) \subseteq Known
    BY <2>1, <2>2 DEF IInv, PostsOK, PostsSeen, PostEvents
  <2>5. MarksOn(DOMAIN posts) \subseteq Known \cup lost
    <3>1. \A m \in MarksOn(DOMAIN posts) : m[2] \in DOMAIN posts
      BY <2>1, MarksOnRows DEF IInv, TypeOK
    <3>2. QED
      BY <2>1, <2>2, <3>1 DEF IInv, MarksOK, MarksSeen, PostsSeen
  <2>6. QED
    BY <2>3, <2>4, <2>5 DEF Standing, Known
<1>2. QED
  BY <1>1, Invariance, PTL
=============================================================================
