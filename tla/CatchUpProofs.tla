---------------------------- MODULE CatchUpProofs ----------------------------
(***************************************************************************)
(* Proofs about CatchUp, for any number of readers, boards, handles and    *)
(* posts and any page size: a cursor never skips a post and never moves    *)
(* back.  And about InboxWait: a wait passes no reply.                      *)
(***************************************************************************)
EXTENDS CatchUp, InboxWait, PostLogProofs

\* Up to n, the board has nothing left that h was not shown and is not outdated.
CaughtUp(h, b, n) == Unread(b, 0, h) \cap (1..n) \subseteq shown[h] \cup Outdated(b)

\* What a reader's variables still say: it is caught up to where it started; its
\* page leaves no gap; and it marks only what it has printed.
ReaderOK(r) ==
  /\ pc[r] # "idle" => CaughtUp(who[r], board[r], from[r])
  /\ \A i \in got[r], j \in Unread(board[r], from[r], who[r]) : j < i => j \in got[r]
  /\ pc[r] = "mark" => got[r] # {} /\ got[r] \subseteq shown[who[r]]

IInv == TypeOK /\ NothingSkipped /\ \A r \in Readers : ReaderOK(r)
-----------------------------------------------------------------------------
\* A page holds everything unread below its last post.
LEMMA OldestIsAPrefix ==
  ASSUME NEW m \in Nat, NEW S \in SUBSET (0..m), NEW n \in Nat,
         NEW i \in Oldest(n, S), NEW j \in S, j < i
  PROVE  j \in Oldest(n, S)
<1> DEFINE Below(k) == {l \in S : l < k}
<1>1. IsFiniteSet(S)
  BY IdsAreFinite
<1>2. i \in S /\ Below(j) \subseteq Below(i) /\ Below(i) \subseteq S
  <2>1. i \in S
    BY Zenon DEF Oldest
  <2>2. \A k \in S : k \in Nat
    OBVIOUS
  <2>3. ASSUME NEW k \in S, k < j
        PROVE  k < i
    BY <2>1, <2>2, <2>3
  <2>4. Below(j) \subseteq Below(i)
    BY <2>3
  <2>5. QED
    BY <2>1, <2>4
<1>3. IsFiniteSet(Below(i))
  BY <1>1, <1>2, FS_Subset
<1>4. Cardinality(Below(j)) <= Cardinality(Below(i))
  BY <1>2, <1>3, FS_Subset
<1>5. Cardinality(Below(j)) \in Nat /\ Cardinality(Below(i)) \in Nat
  BY <1>2, <1>3, FS_Subset, FS_CardinalityType
<1>6. Cardinality(Below(i)) < n
  <2>1. i \in {k \in S : Cardinality(Below(k)) < n}
    BY Zenon DEF Oldest
  <2> HIDE DEF Below
  <2>2. QED
    BY <2>1
<1>7. Cardinality(Below(j)) < n
  BY <1>4, <1>5, <1>6
<1>8. QED
  BY <1>7 DEF Oldest

\* No step of the log makes a post unread that was there and was not.
LEMMA UnreadShrinks ==
  ASSUME LogTypeOK, [LogNext]_logVars, NEW b, NEW n, NEW h,
         NEW i \in 1..seq, i \in Unread(b, n, h)'
  PROVE  i \in Unread(b, n, h)
<1>1. i \in DOMAIN posts /\ SameContent(i)
  BY LogStepKeepsContent DEF Unread, LogTypeOK
<1>2. ~posts[i].tombed
  BY <1>1, TombstonesStay DEF Unread, Live
<1>3. QED
  BY <1>1, <1>2 DEF Unread, Live, SameContent

\* Every step is a step of the log or leaves it alone.
LEMMA LogStep ==
  ASSUME [Next]_vars, TypeOK
  PROVE  [LogNext]_logVars
<1>1. CASE Write
  <2>1. 0 \in 0..seq
    BY DEF TypeOK, LogTypeOK
  <2>2. ASSUME NEW i \in DOMAIN posts, Erase({i})
        PROVE  LogNext
    BY <2>2 DEF LogNext
  <2>3. QED
    BY <1>1, <2>1, <2>2 DEF Write, LogNext
<1>2. CASE ~Write
  BY <1>2 DEF Next, Read, ReadCursor, Fetch, Show, MarkRead, Die, GrowOld, vars, logVars
<1>3. QED
  BY <1>1, <1>2

\* The ids a reader deals with are ids of posts.
LEMMA Ids ==
  ASSUME TypeOK
  PROVE  /\ seq \in Nat
         /\ \A b, n, h : Unread(b, n, h) \subseteq 1..seq
         /\ \A b \in Boards : Floor(b) \in {0} \cup old[b] /\ Floor(b) \in 0..seq
<1>1. seq \in Nat /\ DOMAIN posts \subseteq 1..seq
  BY DEF TypeOK, LogTypeOK
<1>2. ASSUME NEW b \in Boards
      PROVE  Floor(b) \in {0} \cup old[b] /\ Floor(b) \in 0..seq
  <2> DEFINE S == old[b] \cap DOMAIN posts
  <2>1. S \subseteq 0..seq
    BY <1>1
  <2>2. CASE S = {}
    BY <1>1, <2>2 DEF Floor, Largest
  <2>3. CASE S # {}
    <3>1. Largest(S) \in S
      BY <1>1, <2>1, <2>3, LargestOf
    <3>2. QED
      BY <2>1, <3>1 DEF Floor
  <2>4. QED
    BY <2>2, <2>3
<1>3. QED
  BY <1>1, <1>2 DEF Unread
-----------------------------------------------------------------------------
\* What a step of someone else, or of the clock, leaves true of a handle's board.
LEMMA CaughtUpFrame ==
  ASSUME TypeOK, [Next]_vars, NEW h \in Handles, NEW b \in Boards, NEW n \in 0..seq,
         CaughtUp(h, b, n)
  PROVE  CaughtUp(h, b, n)'
<1>1. shown[h] \subseteq shown'[h]
  <2>1. ASSUME NEW r \in Readers, Show(r)
        PROVE  shown[h] \subseteq shown'[h]
    BY <2>1 DEF Show, TypeOK
  <2>2. ASSUME ~\E r \in Readers : Show(r)
        PROVE  UNCHANGED shown
    BY <2>2 DEF Next, Read, ReadCursor, Fetch, MarkRead, Die, Write, GrowOld, readVars, vars
  <2>3. QED
    BY <2>1, <2>2
<1>2. Outdated(b) \subseteq Outdated(b)'
  <2>1. ASSUME NEW i \in DOMAIN posts, GrowOld(i)
        PROVE  old[b] \subseteq old'[b]
    BY <2>1 DEF GrowOld, TypeOK
  <2>2. ASSUME ~\E i \in DOMAIN posts : GrowOld(i)
        PROVE  UNCHANGED old
    BY <2>2 DEF Next, Read, ReadCursor, Fetch, Show, MarkRead, Die, Write, readVars, vars
  <2>3. seq \in Nat /\ 1..seq \subseteq 1..seq'
    BY LogStep, LogStepKeepsContent, Ids DEF TypeOK
  <2>4. QED
    BY <2>1, <2>2, <2>3 DEF Outdated
<1>3. [LogNext]_logVars /\ LogTypeOK /\ seq \in Nat
  BY LogStep, Ids DEF TypeOK
<1>4. ASSUME NEW i \in Unread(b, 0, h)', i \in 1..n
      PROVE  i \in shown'[h] \cup Outdated(b)'
  <2>1. i \in 1..seq
    BY <1>3, <1>4
  <2>2. i \in Unread(b, 0, h)
    BY <1>3, <1>4, <2>1, UnreadShrinks
  <2>3. i \in shown[h] \cup Outdated(b)
    BY <1>4, <2>2 DEF CaughtUp
  <2>4. QED
    BY <1>1, <1>2, <2>3
<1>5. QED
  BY <1>4 DEF CaughtUp
\* Nothing but its own steps changes a reader's variables, and nobody else's
\* steps make its page leave a gap.
LEMMA ReaderFrame ==
  ASSUME IInv, [Next]_vars, NEW r \in Readers,
         pc'[r] = pc[r], from'[r] = from[r], got'[r] = got[r]
  PROVE  ReaderOK(r)'
<1>1. /\ who' = who /\ board' = board
      /\ who[r] \in Handles /\ board[r] \in Boards
      /\ from[r] \in 0..seq /\ got[r] \subseteq 1..seq
  BY DEF IInv, TypeOK, Next, Read, ReadCursor, Fetch, Show, MarkRead, Die, Write, GrowOld,
         readVars, vars
<1>2. [LogNext]_logVars /\ LogTypeOK /\ seq \in Nat
  BY LogStep, Ids DEF IInv, TypeOK
<1>3. pc[r] # "idle" => CaughtUp(who[r], board[r], from[r])'
  BY <1>1, CaughtUpFrame DEF IInv, ReaderOK
<1>4. ASSUME NEW i \in got[r], NEW j \in Unread(board[r], from[r], who[r])', j < i
      PROVE  j \in got[r]
  <2>1. j \in Nat /\ j > from[r]
    BY <1>2, LogStepKeepsContent DEF Unread, LogTypeOK
  <2>2. j \in 1..seq
    BY <1>1, <1>2, <1>4, <2>1
  <2>3. j \in Unread(board[r], from[r], who[r])
    BY <1>1, <1>2, <1>4, <2>2, UnreadShrinks
  <2>4. QED
    BY <1>4, <2>3 DEF IInv, ReaderOK
<1>5. shown[who[r]] \subseteq shown'[who[r]]
  <2>1. ASSUME NEW q \in Readers, Show(q)
        PROVE  shown[who[r]] \subseteq shown'[who[r]]
    BY <1>1, <2>1 DEF Show, IInv, TypeOK
  <2>2. ASSUME ~\E q \in Readers : Show(q)
        PROVE  UNCHANGED shown
    BY <2>2 DEF Next, Read, ReadCursor, Fetch, MarkRead, Die, Write, GrowOld, readVars, vars
  <2>3. QED
    BY <2>1, <2>2
<1>6. QED
  BY <1>1, <1>3, <1>4, <1>5 DEF IInv, ReaderOK, CaughtUp, Unread, Live, Outdated
\* A page that is not empty has a last post, which is one of it.
LEMMA LastOfPage ==
  ASSUME TypeOK, NEW S, S \subseteq 1..seq, S # {}
  PROVE  Largest(S) \in S /\ \A j \in S : j <= Largest(S)
<1>1. seq \in Nat
  BY Ids
<1>2. S \in SUBSET (0..seq)
  BY <1>1
<1>3. QED
  BY <1>1, <1>2, LargestOf

\* Types are kept.
LEMMA TypeStep ==
  ASSUME IInv, [Next]_vars
  PROVE  TypeOK'
<1>1. LogTypeOK' /\ seq \in Nat /\ 1..seq \subseteq 1..seq' /\ 0..seq \subseteq 0..seq'
  BY LogStep, LogTypeStep, LogStepKeepsContent, Ids DEF IInv, TypeOK
<1> USE DEF IInv
<1>2. CASE UNCHANGED vars
  BY <1>1, <1>2 DEF vars, TypeOK
<1>3. ASSUME NEW r \in Readers, ReadCursor(r)
      PROVE  TypeOK'
  <2>1. \A b \in Boards : Floor(b) \in 0..seq
    BY Ids
  <2>2. from' \in [Readers -> 0..seq]
    BY <1>3, <2>1 DEF ReadCursor, TypeOK
  <2>3. QED
    BY <1>1, <1>3, <2>2 DEF TypeOK, ReadCursor, Step, logVars
<1>4. ASSUME NEW r \in Readers, Fetch(r)
      PROVE  TypeOK'
  <2>1. Oldest(Limit, Unread(board[r], from[r], who[r])) \subseteq 1..seq
    BY Ids DEF Oldest
  <2>2. got' \in [Readers -> SUBSET (1..seq)]
    BY <1>4, <2>1 DEF Fetch, TypeOK
  <2>3. QED
    BY <1>1, <1>4, <2>2 DEF TypeOK, Fetch, Step, logVars
<1>5. ASSUME NEW r \in Readers, Show(r)
      PROVE  TypeOK'
  <2>1. shown' \in [Handles -> SUBSET (1..seq)]
    BY <1>5 DEF Show, TypeOK
  <2>2. CASE got[r] = {}
    <3>1. /\ pc' = [pc EXCEPT ![r] = "idle"]
          /\ from' = [from EXCEPT ![r] = 0]
          /\ got' = [got EXCEPT ![r] = {}]
          /\ UNCHANGED <<posts, seq, cursor, old, who, board>>
      BY <1>5, <2>2 DEF Show, End, logVars
    <3>2. QED
      BY <1>1, <2>1, <3>1 DEF TypeOK
  <2>3. CASE got[r] # {}
    BY <1>1, <1>5, <2>1, <2>3 DEF TypeOK, Show, Step, logVars
  <2>4. QED
    BY <2>2, <2>3
<1>6. ASSUME NEW r \in Readers, MarkRead(r)
      PROVE  TypeOK'
  <2>1. got[r] # {} /\ got[r] \subseteq 1..seq
    BY <1>6 DEF MarkRead, ReaderOK, TypeOK
  <2>2. Largest(got[r]) \in 1..seq
    BY <2>1, LastOfPage
  <2>3. ASSUME NEW c \in 1..seq
        PROVE  Largest({c} \cup got[r]) \in 1..seq
    <3>1. {c} \cup got[r] \subseteq 1..seq /\ {c} \cup got[r] # {}
      BY <2>1
    <3>2. QED
      BY <3>1, LastOfPage
  <2>4. cursor' \in [Handles -> [Boards -> (1..seq) \cup {NoRow}]]
    BY <1>6, <2>2, <2>3 DEF MarkRead, TypeOK
  <2>5. QED
    BY <1>1, <1>6, <2>4 DEF TypeOK, MarkRead, End, logVars
<1>7. ASSUME NEW r \in Readers, Die(r)
      PROVE  TypeOK'
  BY <1>1, <1>7 DEF TypeOK, Die, End, logVars
<1>8. CASE Write
  BY <1>1, <1>8 DEF TypeOK, Write, readVars
<1>9. ASSUME NEW i \in DOMAIN posts, GrowOld(i)
      PROVE  TypeOK'
  <2>1. i \in 1..seq
    BY DEF TypeOK, LogTypeOK
  <2>2. QED
    BY <1>1, <1>9, <2>1 DEF TypeOK, GrowOld, logVars
<1>10. QED
  BY <1>2, <1>3, <1>4, <1>5, <1>6, <1>7, <1>8, <1>9 DEF Next, Read

\* Each step of a reader leaves the next one what it relies on.
LEMMA ReaderStep ==
  ASSUME IInv, [Next]_vars
  PROVE  \A r \in Readers : ReaderOK(r)'
<1> USE DEF IInv
<1>1. CASE UNCHANGED vars \/ Write \/ \E i \in DOMAIN posts : GrowOld(i)
  BY <1>1, ReaderFrame DEF vars, Write, readVars, GrowOld
<1>2. ASSUME NEW r \in Readers, Read(r) \/ Die(r), NEW q \in Readers, q # r
      PROVE  ReaderOK(q)'
  <2>1. pc'[q] = pc[q] /\ from'[q] = from[q] /\ got'[q] = got[q]
    BY <1>2 DEF Read, ReadCursor, Fetch, Show, MarkRead, Die, End, Step, TypeOK
  <2>2. QED
    BY <2>1, ReaderFrame
<1>3. ASSUME NEW r \in Readers, ReadCursor(r)
      PROVE  ReaderOK(r)'
  <2>1. /\ pc'[r] = "fetch" /\ got'[r] = {}
        /\ UNCHANGED <<posts, seq, who, board, shown, old>>
        /\ who[r] \in Handles /\ board[r] \in Boards
    BY <1>3 DEF ReadCursor, Step, TypeOK, logVars
  <2>2. CaughtUp(who[r], board[r], from'[r])
    <3>1. CASE cursor[who[r]][board[r]] = NoRow
      <4>1. from'[r] = Floor(board[r])
        BY <1>3, <3>1 DEF ReadCursor, TypeOK
      <4>2. from'[r] \in {0} \cup old[board[r]]
        BY <2>1, <4>1, Ids
      <4>3. QED
        <5>1. ASSUME NEW i \in Unread(board[r], 0, who[r]), i \in 1..(from'[r])
              PROVE  i \in Outdated(board[r])
          <6>1. i \in 1..seq /\ seq \in Nat
            BY Ids
          <6>2. QED
            BY <4>2, <5>1, <6>1 DEF Outdated
        <5>2. QED
          BY <5>1 DEF CaughtUp
    <3>2. CASE cursor[who[r]][board[r]] # NoRow
      <4>1. from'[r] = cursor[who[r]][board[r]]
        BY <1>3, <3>2 DEF ReadCursor, TypeOK
      <4>2. QED
        BY <2>1, <3>2, <4>1 DEF NothingSkipped, CaughtUp
    <3>3. QED
      BY <3>1, <3>2
  <2>3. QED
    BY <2>1, <2>2 DEF ReaderOK, CaughtUp, Unread, Live, Outdated
<1>4. ASSUME NEW r \in Readers, Fetch(r)
      PROVE  ReaderOK(r)'
  <2> DEFINE S == Unread(board[r], from[r], who[r])
  <2>1. /\ pc'[r] = "print" /\ got'[r] = Oldest(Limit, S)
        /\ UNCHANGED <<posts, seq, who, board, shown, old, from>>
        /\ CaughtUp(who[r], board[r], from[r])
    BY <1>4 DEF Fetch, Step, TypeOK, logVars, ReaderOK
  <2>2. seq \in Nat /\ S \subseteq 0..seq /\ Limit \in Nat
    BY Ids, CatchUpAssumption
  <2>3. \A i \in Oldest(Limit, S), j \in S : j < i => j \in Oldest(Limit, S)
    BY <2>2, OldestIsAPrefix
  <2>4. QED
    BY <2>1, <2>3 DEF ReaderOK, CaughtUp, Unread, Live, Outdated
<1>5. ASSUME NEW r \in Readers, Show(r)
      PROVE  ReaderOK(r)'
  <2>1. CASE got[r] = {}
    BY <1>5, <2>1 DEF Show, End, TypeOK, ReaderOK
  <2>2. CASE got[r] # {}
    <3>1. /\ pc'[r] = "mark" /\ UNCHANGED <<posts, seq, who, board, old, from, got>>
          /\ who[r] \in Handles
          /\ shown'[who[r]] = shown[who[r]] \cup got[r]
          /\ CaughtUp(who[r], board[r], from[r])
      BY <1>5, <2>2 DEF Show, Step, TypeOK, logVars, ReaderOK
    <3>2. QED
      BY <2>2, <3>1 DEF ReaderOK, CaughtUp, Unread, Live, Outdated
  <2>3. QED
    BY <2>1, <2>2
<1>6. ASSUME NEW r \in Readers, MarkRead(r) \/ Die(r)
      PROVE  ReaderOK(r)'
  BY <1>6 DEF MarkRead, Die, End, TypeOK, ReaderOK
<1>7. QED
  BY <1>1, <1>2, <1>3, <1>4, <1>5, <1>6 DEF Next, Read

\* A mark only passes posts that were shown or have grown old.
LEMMA NothingSkippedStep ==
  ASSUME IInv, [Next]_vars
  PROVE  NothingSkipped'
<1> USE DEF IInv
<1>1. ASSUME NEW h \in Handles, NEW b \in Boards, cursor'[h][b] = cursor[h][b],
             cursor[h][b] # NoRow
      PROVE  CaughtUp(h, b, cursor[h][b])'
  <2>1. cursor[h][b] \in 0..seq /\ CaughtUp(h, b, cursor[h][b])
    BY <1>1 DEF NothingSkipped, CaughtUp, TypeOK
  <2>2. QED
    BY <1>1, <2>1, CaughtUpFrame
<1>2. ASSUME ~\E r \in Readers : MarkRead(r)
      PROVE  UNCHANGED cursor
  BY <1>2 DEF Next, Read, ReadCursor, Fetch, Show, Die, Write, GrowOld, readVars, vars
<1>3. ASSUME NEW r \in Readers, MarkRead(r)
      PROVE  CaughtUp(who[r], board[r], cursor[who[r]][board[r]])'
  <2> DEFINE c == cursor[who[r]][board[r]]
             m == cursor'[who[r]][board[r]]
  <2>1. /\ who[r] \in Handles /\ board[r] \in Boards
        /\ UNCHANGED <<posts, seq, who, board, shown, old>>
        /\ from[r] \in 0..seq
    BY <1>3 DEF MarkRead, TypeOK, logVars
  <2>2. /\ m = IF c = NoRow THEN Largest(got[r]) ELSE Largest({c} \cup got[r])
        /\ c \in (1..seq) \cup {NoRow}
    <3>1. cursor[who[r]] \in [Boards -> (1..seq) \cup {NoRow}]
      BY <2>1 DEF TypeOK
    <3>2. cursor'[who[r]] = [cursor[who[r]] EXCEPT ![board[r]] =
            IF c = NoRow THEN Largest(got[r]) ELSE Largest({c} \cup got[r])]
      BY <1>3, <2>1 DEF MarkRead, TypeOK
    <3>3. QED
      BY <2>1, <3>1, <3>2
  <2>3. /\ got[r] # {} /\ got[r] \subseteq 1..seq /\ got[r] \subseteq shown[who[r]]
        /\ \A i \in got[r], j \in Unread(board[r], from[r], who[r]) :
             j < i => j \in got[r]
        /\ CaughtUp(who[r], board[r], from[r])
    BY <1>3 DEF MarkRead, ReaderOK, TypeOK
  <2>4. m \in got[r] \/ (c # NoRow /\ m = c)
    <3>1. CASE c = NoRow
      BY <2>2, <2>3, <3>1, LastOfPage
    <3>2. CASE c # NoRow
      <4>1. {c} \cup got[r] \subseteq 1..seq /\ {c} \cup got[r] # {}
        BY <2>2, <2>3, <3>2
      <4>2. QED
        BY <2>2, <3>2, <4>1, LastOfPage
    <3>3. QED
      BY <3>1, <3>2
  <2> HIDE DEF c, m
  <2>5. ASSUME NEW i \in Unread(board[r], 0, who[r]), i \in 1..m
        PROVE  i \in shown[who[r]] \cup Outdated(board[r])
    <3>1. seq \in Nat /\ i \in 1..seq
      BY Ids
    <3>2. CASE c # NoRow /\ m = c
      BY <2>1, <2>5, <3>2 DEF NothingSkipped, c
    <3>3. CASE m \in got[r]
      <4>1. CASE i <= from[r]
        BY <2>1, <2>3, <2>5, <3>1, <4>1 DEF CaughtUp
      <4>2. CASE i > from[r]
        <5>1. i \in Unread(board[r], from[r], who[r])
          BY <2>5, <4>2 DEF Unread
        <5>2. i = m \/ i < m
          BY <2>3, <2>5, <3>1, <3>3
        <5>3. i \in got[r]
          BY <2>3, <3>3, <5>1, <5>2
        <5>4. QED
          BY <2>3, <5>3
      <4>3. QED
        BY <2>1, <3>1, <4>1, <4>2
    <3>4. QED
      BY <2>4, <3>2, <3>3
  <2>6. CaughtUp(who[r], board[r], m)
    BY <2>5 DEF CaughtUp
  <2>7. QED
    BY <2>1, <2>6 DEF CaughtUp, Unread, Live, Outdated, m
<1>4. ASSUME NEW h \in Handles, NEW b \in Boards, cursor'[h][b] # NoRow
      PROVE  CaughtUp(h, b, cursor[h][b])'
  <2>1. CASE \E r \in Readers : MarkRead(r) /\ who[r] = h /\ board[r] = b
    <3>1. PICK r \in Readers : MarkRead(r) /\ who[r] = h /\ board[r] = b
      BY <2>1
    <3>2. who' = who /\ board' = board
      BY <3>1 DEF MarkRead
    <3>3. QED
      BY <1>3, <3>1, <3>2
  <2>2. CASE ~\E r \in Readers : MarkRead(r) /\ who[r] = h /\ board[r] = b
    <3>1. ASSUME NEW r \in Readers, MarkRead(r)
          PROVE  cursor'[h][b] = cursor[h][b]
      <4>1. who[r] # h \/ board[r] # b
        BY <2>2, <3>1
      <4>2. QED
        BY <3>1, <4>1 DEF MarkRead, TypeOK
    <3>2. cursor'[h][b] = cursor[h][b]
      BY <1>2, <3>1
    <3>3. QED
      BY <1>1, <1>4, <3>2
  <2>3. QED
    BY <2>1, <2>2
<1>5. QED
  BY <1>4 DEF NothingSkipped, CaughtUp
-----------------------------------------------------------------------------
\* No row, no reader and no post.
LEMMA Initially == Init => IInv
<1> SUFFICES ASSUME Init PROVE IInv
  OBVIOUS
<1>1. TypeOK
  BY DEF Init, LogInit, TypeOK, LogTypeOK
<1>2. NothingSkipped /\ \A r \in Readers : ReaderOK(r)
  BY DEF Init, NothingSkipped, ReaderOK
<1>3. QED
  BY <1>1, <1>2 DEF IInv

\* Every step of a reader and of the others preserves it.
LEMMA Inductive == IInv /\ [Next]_vars => IInv'
BY TypeStep, ReaderStep, NothingSkippedStep DEF IInv

\* In every behaviour the inductive invariant holds.
THEOREM Invariance == Spec => []IInv
BY Initially, Inductive, PTL DEF Spec

\* Types are kept, whatever number of readers runs.
THEOREM TypeCorrect == Spec => []TypeOK
<1>1. IInv => TypeOK
  BY DEF IInv
<1>2. QED
  BY <1>1, Invariance, PTL

\* A cursor never passes a live post its handle was not shown.
THEOREM NoPostIsSkipped == Spec => []NothingSkipped
<1>1. IInv => NothingSkipped
  BY DEF IInv
<1>2. QED
  BY <1>1, Invariance, PTL

\* A cursor never moves back, and its row never goes away.
THEOREM CursorsAdvance == Spec => CursorOnlyAdvances
<1> DEFINE Advance == \A h \in Handles, b \in Boards : cursor[h][b] # NoRow =>
                        cursor'[h][b] # NoRow /\ cursor'[h][b] >= cursor[h][b]
<1>1. ASSUME IInv, NEW r \in Readers, MarkRead(r)
      PROVE  Advance
  <2>1. got[r] # {} /\ got[r] \subseteq 1..seq /\ seq \in Nat
    BY <1>1, Ids DEF IInv, MarkRead, ReaderOK, TypeOK
  <2>2. ASSUME NEW c \in 1..seq
        PROVE  Largest({c} \cup got[r]) # NoRow /\ Largest({c} \cup got[r]) >= c
    <3>1. {c} \cup got[r] \subseteq 1..seq /\ {c} \cup got[r] # {}
      BY <2>1
    <3>2. /\ Largest({c} \cup got[r]) \in 1..seq
          /\ c <= Largest({c} \cup got[r])
      BY <1>1, <3>1, LastOfPage DEF IInv
    <3>3. QED
      BY <2>1, <3>2, CatchUpAssumption
  <2>3. ASSUME NEW h \in Handles, NEW b \in Boards, cursor[h][b] # NoRow
        PROVE  cursor'[h][b] # NoRow /\ cursor'[h][b] >= cursor[h][b]
    <3>1. cursor[h][b] \in 1..seq
      BY <1>1, <2>3 DEF IInv, TypeOK
    <3>2. cursor'[h][b] \in {cursor[h][b], Largest({cursor[h][b]} \cup got[r])}
      BY <1>1, <2>3 DEF IInv, TypeOK, MarkRead
    <3>3. QED
      BY <2>1, <2>2, <2>3, <3>1, <3>2
  <2>4. QED
    BY <2>3
<1>2. ASSUME [Next]_vars, ~\E r \in Readers : MarkRead(r)
      PROVE  UNCHANGED cursor
  BY <1>2 DEF Next, Read, ReadCursor, Fetch, Show, Die, Write, GrowOld, readVars, vars
<1>3. IInv /\ [Next]_vars => [Advance]_cursor
  BY <1>1, <1>2
<1>4. QED
  BY <1>3, Invariance, PTL DEF Spec, CursorOnlyAdvances
-----------------------------------------------------------------------------
(***************************************************************************)
(* `xfa inbox --wait`, the other command that asks for what is new, over   *)
(* the same posts: it misses no reply and invents none.  The two have      *)
(* nothing in common but the posts.                                        *)
(***************************************************************************)
\* A live reply is not crowded out of the inbox by tombstones alone.
Uncrowded == \A i \in Replies : Live(i) => \E j \in Inbox : i <= j /\ Live(j)

\* No live reply is cut off by the limit.
Uncut == \A i \in Replies : Live(i) => i \in Inbox

\* The inductive invariant: which posts are replies rests on parents being older.
WaitInv == WaitTypeOK /\ ParentsFit /\ NoReplyPassed

\* The top-level posts of Me.
Tops == {i \in DOMAIN posts : posts[i].parent = 0 /\ posts[i].author = Me}

\* A post is in the tree of Me if it tops it or its parent is in it.
ThreadOK ==
  /\ Thread \subseteq DOMAIN posts
  /\ \A i \in DOMAIN posts :
       i \in Thread <=> (i \in Tops \/ posts[i].parent \in Thread)

\* The recursion of the tree query has a solution, so its equation may be used.
LEMMA ThreadUnfolds == ThreadOK
<1> DEFINE up == [j \in DOMAIN posts |-> posts[j].parent]
           Mine(x) == posts[x].parent = 0 /\ posts[x].author = Me
           b == [i \in DOMAIN posts |-> \E x \in Upwards(DOMAIN posts, up, i) : Mine(x)]
           Unfolds(f) == f = [i \in DOMAIN posts |->
                                \/ posts[i].parent = 0 /\ posts[i].author = Me
                                \/ posts[i].parent \in DOMAIN posts /\ f[posts[i].parent]]
<1>1. Unfolds(b)
  <2>1. ASSUME NEW i \in DOMAIN posts, posts[i].parent \in DOMAIN posts
        PROVE  b[i] = (Mine(i) \/ b[posts[i].parent])
    <3>1. up[i] \in DOMAIN posts /\ up[i] = posts[i].parent
      BY <2>1
    <3>2. Upwards(DOMAIN posts, up, i) = {i} \cup Upwards(DOMAIN posts, up, up[i])
      BY <3>1, UpwardsUnfolds
    <3>3. \A S : (\E x \in {i} \cup S : Mine(x)) = (Mine(i) \/ \E x \in S : Mine(x))
      OBVIOUS
    <3> HIDE DEF Mine, up
    <3>4. /\ b[i] = (\E x \in Upwards(DOMAIN posts, up, i) : Mine(x))
          /\ b[up[i]] = (\E x \in Upwards(DOMAIN posts, up, up[i]) : Mine(x))
      BY <3>1
    <3> HIDE DEF b
    <3>5. QED
      BY Zenon, <3>1, <3>2, <3>3, <3>4
  <2>2. ASSUME NEW i \in DOMAIN posts, posts[i].parent \notin DOMAIN posts
        PROVE  b[i] = Mine(i)
    <3>1. up[i] \notin DOMAIN posts
      BY <2>2
    <3>2. Upwards(DOMAIN posts, up, i) = {i}
      BY <3>1, UpwardsUnfolds
    <3>3. (\E x \in {i} : Mine(x)) = Mine(i)
      OBVIOUS
    <3> HIDE DEF Mine, up
    <3>4. b[i] = (\E x \in Upwards(DOMAIN posts, up, i) : Mine(x))
      OBVIOUS
    <3> HIDE DEF b
    <3>5. QED
      BY Zenon, <3>2, <3>3, <3>4
  <2> DEFINE Both(i) == \/ Mine(i)
                        \/ posts[i].parent \in DOMAIN posts /\ b[posts[i].parent]
  <2>3. ASSUME NEW i \in DOMAIN posts
        PROVE  b[i] = Both(i)
    <3> HIDE DEF b, Mine
    <3>1. CASE posts[i].parent \in DOMAIN posts
      <4>1. b[i] = (Mine(i) \/ b[posts[i].parent])
        BY Zenon, <2>1, <3>1
      <4>2. Both(i) = (Mine(i) \/ b[posts[i].parent])
        BY Zenon, <3>1
      <4>3. PICK x : x = (Mine(i) \/ b[posts[i].parent])
        OBVIOUS
      <4>4. b[i] = x /\ Both(i) = x
        BY Zenon, <4>1, <4>2, <4>3
      <4> HIDE DEF Both
      <4>5. QED
        BY <4>4
    <3>2. CASE posts[i].parent \notin DOMAIN posts
      <4>1. b[i] = Mine(i)
        BY Zenon, <2>2, <3>2
      <4>2. Both(i) = Mine(i)
        BY <3>2 DEF Mine
      <4> HIDE DEF Both
      <4>3. QED
        BY <4>1, <4>2
    <3>3. QED
      BY <3>1, <3>2
  <2>4. b = [i \in DOMAIN posts |-> b[i]]
    OBVIOUS
  <2>5. b = [i \in DOMAIN posts |-> Both(i)]
    <3> HIDE DEF b, Both
    <3>1. QED
      BY <2>3, <2>4
  <2> HIDE DEF b
  <2>6. QED
    BY Zenon, <2>5
<1>2. \E f : Unfolds(f)
  BY <1>1
<1>3. Unfolds(CHOOSE f : Unfolds(f))
  BY <1>2
<1>4. Thread = {i \in DOMAIN posts : (CHOOSE f : Unfolds(f))[i]}
  BY DEF Thread
<1>5. PICK f : Unfolds(f) /\ Thread = {i \in DOMAIN posts : f[i]}
  BY Zenon, <1>3, <1>4
<1>6. ASSUME NEW i \in DOMAIN posts
      PROVE  f[i] = (Mine(i) \/ (posts[i].parent \in DOMAIN posts /\ f[posts[i].parent]))
  BY Zenon, <1>5
<1>7. \A i : i \in Thread <=> i \in DOMAIN posts /\ f[i]
  BY Zenon, <1>5
<1>8. \A i : i \in Tops <=> i \in DOMAIN posts /\ Mine(i)
  BY DEF Tops
<1> HIDE DEF Mine, Unfolds
<1>9. ASSUME NEW i \in DOMAIN posts
      PROVE  i \in Thread <=> (i \in Tops \/ posts[i].parent \in Thread)
  BY Zenon, <1>6, <1>7, <1>8
<1>10. QED
  BY <1>7, <1>9 DEF ThreadOK

\* No step of the log makes a reply of a post that was there and was not one: content
\* never changes, and a post above it may only go away.  Of those that were not in the
\* tree and now are, the oldest has its parent among them, which is older.
LEMMA RepliesStay ==
  ASSUME LogTypeOK, LogTypeOK', ParentsFit, [LogNext]_logVars,
         NEW i \in DOMAIN posts, i \in Replies'
  PROVE  i \in Replies
<1>1. \A j \in DOMAIN posts' : j \in DOMAIN posts => SameContent(j)
  BY LogStepKeepsContent DEF LogTypeOK
<1>2. \A j \in DOMAIN posts' : \A k \in DOMAIN posts' :
         k \in DOMAIN posts /\ posts[k].parent = j => j \in DOMAIN posts /\ j < k
  BY LogStepKeepsContent DEF LogTypeOK, ParentsFit
<1>3. ThreadOK /\ ThreadOK'
  BY ThreadUnfolds, PTL
<1>4. ASSUME NEW j \in DOMAIN posts', j \in DOMAIN posts, j \in Thread'
      PROVE  j \in Thread
  <2> DEFINE Odd == {k \in DOMAIN posts : k \in DOMAIN posts' /\ k \in Thread' /\ k \notin Thread}
  <2>1. SUFFICES ASSUME j \notin Thread
                 PROVE  FALSE
    OBVIOUS
  <2>2. Odd \in SUBSET Nat /\ Odd # {}
    BY <1>4, <2>1 DEF LogTypeOK
  <2>3. PICK k \in Odd : \A l \in Odd : k <= l
    BY <2>2, SmallestOf
  <2>4. k \in Tops' \/ posts'[k].parent \in Thread'
    BY <1>3, <2>3 DEF ThreadOK
  <2>5. k \notin Tops /\ posts[k].parent \notin Thread
    BY <1>3, <2>3 DEF ThreadOK
  <2>6. k \notin Tops'
    BY <1>1, <2>3, <2>5 DEF Tops, SameContent
  <2>7. PICK up \in DOMAIN posts' : up = posts[k].parent /\ up \in Thread'
    BY <1>1, <1>3, <2>3, <2>4, <2>6 DEF ThreadOK, SameContent
  <2>8. up \in DOMAIN posts /\ up < k
    BY <1>2, <2>3, <2>7
  <2>9. up \in Odd
    BY <2>5, <2>7, <2>8
  <2>10. k <= up /\ k \in Nat /\ up \in Nat
    BY <2>2, <2>3, <2>9
  <2>11. QED
    BY <2>8, <2>10
<1>5. i \in DOMAIN posts' /\ posts'[i].author # Me
  BY DEF Replies
<1>6. posts[i].author # Me /\ posts[i].parent = posts'[i].parent
  BY <1>1, <1>5 DEF SameContent
<1>7. CASE i \in Thread'
  BY <1>4, <1>5, <1>6, <1>7 DEF Replies
<1>8. CASE posts'[i].parent \in DOMAIN posts' /\ posts'[posts'[i].parent].author = Me
  <2>1. PICK up \in DOMAIN posts' : up = posts'[i].parent /\ posts'[up].author = Me
    BY <1>8
  <2>2. up \in DOMAIN posts /\ posts[up].author = Me
    BY <1>1, <1>2, <1>5, <1>6, <2>1 DEF SameContent
  <2>3. QED
    BY <1>6, <2>1, <2>2 DEF Replies
<1>9. QED
  BY <1>7, <1>8 DEF Replies

\* Posting, tombstoning and deleting around the wait are steps of the log.
LEMMA WaitStepLogs ==
  ASSUME LogTypeOK, [WaitNext]_inboxVars
  PROVE  [LogNext]_logVars
<1>1. ASSUME NEW b \in Boards, NEW h \in Handles, NEW d \in Drafts, NEW i \in {0} \cup DOMAIN posts,
             Insert(b, h, d, i)
      PROVE  LogNext
  <2>1. i \in 0..seq
    BY DEF LogTypeOK
  <2>2. AppendPost(b, h, d, i)
    BY <1>1 DEF Insert
  <2>3. QED
    BY <2>1, <2>2 DEF LogNext
<1>2. ASSUME Remove
      PROVE  LogNext
  <2>1. PICK i \in DOMAIN posts : Tombstone(i) \/ \E S : Erase(S)
    BY <1>2, Zenon DEF Remove
  <2>2. Tombstone(i) \/ \E S \in SUBSET DOMAIN posts : Erase(S)
    BY <2>1 DEF Erase
  <2>3. QED
    BY <2>2 DEF LogNext
<1>3. ASSUME \/ \E i \in owed : Mention(i)
             \/ Start \/ Tick \/ Query \/ GiveUp
             \/ UNCHANGED inboxVars
      PROVE  UNCHANGED logVars
  BY <1>3 DEF Mention, Start, Tick, Query, GiveUp, inboxVars, logVars
<1>4. QED
  BY <1>1, <1>2, <1>3 DEF WaitNext

\* Each step keeps the types, and the watermark between the entry and the last id.
LEMMA WaitTypeStep ==
  ASSUME WaitTypeOK, [WaitNext]_inboxVars
  PROVE  WaitTypeOK'
<1>1. LogTypeOK
  BY DEF WaitTypeOK
<1>2. LogTypeOK'
  BY <1>1, WaitStepLogs, LogTypeStep
<1>3. seq' \in {seq, seq + 1} /\ seq \in Nat
  BY <1>1, WaitStepLogs, LogStepKeepsContent DEF LogTypeOK
<1>4. MaxPostID \in 0..seq
  BY <1>1, MaxPostIDOf
<1>5. ASSUME NEW b \in Boards, NEW h \in Handles, NEW d \in Drafts, NEW i \in {0} \cup DOMAIN posts,
             Insert(b, h, d, i)
      PROVE  WaitTypeOK'
  BY <1>2, <1>3, <1>5 DEF WaitTypeOK, Insert, AppendPost, waitVars
<1>6. ASSUME NEW i \in owed, Mention(i)
      PROVE  WaitTypeOK'
  BY <1>2, <1>6 DEF WaitTypeOK, Mention, waitVars, logVars
<1>7. ASSUME Remove
      PROVE  WaitTypeOK'
  <2>1. seq' = seq /\ UNCHANGED <<mentioned, owed, waitVars>>
    BY <1>7 DEF Remove, Tombstone, Erase
  <2>2. QED
    BY <1>2, <2>1 DEF WaitTypeOK, waitVars
<1>8. ASSUME Start
      PROVE  WaitTypeOK'
  BY <1>2, <1>3, <1>4, <1>8 DEF WaitTypeOK, Start, logVars
<1>9. ASSUME Tick
       PROVE  WaitTypeOK'
  BY <1>2, <1>3, <1>4, <1>9 DEF WaitTypeOK, Tick, logVars
<1>10. ASSUME Query
       PROVE  WaitTypeOK'
  <2>1. Fresh \subseteq 1..seq
    BY <1>1 DEF Fresh, Live, LogTypeOK
  <2>2. /\ seq' = seq /\ UNCHANGED <<mentioned, owed>> /\ max' = 0
        /\ \/ waiting' = "idle" /\ since' = 0 /\ entry' = 0 /\ result' = Fresh
           \/ waiting' = "wait" /\ since' = max /\ UNCHANGED <<entry, result>>
    BY <1>10 DEF Query, logVars
  <2>3. max > since
    BY <1>10 DEF WaitTypeOK, Query
  <2>4. CASE waiting' = "idle" /\ since' = 0 /\ entry' = 0 /\ result' = Fresh
    BY <1>2, <1>3, <2>1, <2>2, <2>4 DEF WaitTypeOK
  <2>5. CASE waiting' = "wait" /\ since' = max /\ UNCHANGED <<entry, result>>
    <3>1. since' \in entry'..seq'
      BY <1>3, <2>2, <2>3, <2>5 DEF WaitTypeOK
    <3>2. QED
      BY <1>2, <1>3, <2>2, <2>5, <3>1 DEF WaitTypeOK
  <2>6. QED
    BY <2>2, <2>4, <2>5
<1>11. ASSUME GiveUp
       PROVE  WaitTypeOK'
  BY <1>2, <1>3, <1>11 DEF WaitTypeOK, GiveUp, logVars
<1>12. CASE UNCHANGED inboxVars
  BY <1>2, <1>12 DEF WaitTypeOK, inboxVars
<1>13. QED
  BY <1>5, <1>6, <1>7, <1>8, <1>9, <1>10, <1>11, <1>12 DEF WaitNext

\* No step passes a reply: the watermark moves only to a maximum read before an inbox
\* without news, and what was not there by then lies above that maximum.
LEMMA NoReplyStep ==
  ASSUME WaitTypeOK, ParentsFit, NoReplyPassed, Uncrowded, [WaitNext]_inboxVars
  PROVE  NoReplyPassed'
<1>1. LogTypeOK /\ [LogNext]_logVars
  BY WaitStepLogs DEF WaitTypeOK
<1>2. LogTypeOK'
  BY <1>1, LogTypeStep
<1>3. SUFFICES ASSUME waiting' # "idle", NEW i, i \in Replies', Live(i)', i \in (entry' + 1)..since'
               PROVE  FALSE
  BY DEF NoReplyPassed
<1>4. entry \in Nat /\ since \in Nat /\ since <= seq /\ seq \in Nat /\ entry <= since
  BY DEF WaitTypeOK, LogTypeOK
<1>5. CASE waiting # "idle" /\ entry' = entry /\ since' = since
  <2>1. i \in DOMAIN posts' /\ ~posts'[i].tombed
    BY <1>3 DEF Live
  <2>2. i \in DOMAIN posts
    BY <1>1, <1>3, <1>4, <1>5, <2>1, LogStepKeepsContent
  <2>3. i \in Replies
    BY <1>1, <1>2, <1>3, <2>2, RepliesStay
  <2>4. Live(i)
    BY <1>1, <2>1, <2>2, TombstonesStay DEF Live
  <2>5. QED
    BY <1>3, <1>5, <2>3, <2>4 DEF NoReplyPassed
<1>6. CASE entry' = since'
  <2>1. since' \in Nat
    BY <1>1, WaitTypeStep DEF WaitTypeOK, LogTypeOK
  <2>2. \A n \in Nat : i \notin (n + 1)..n
    OBVIOUS
  <2>3. QED
    BY <1>3, <1>6, <2>1, <2>2
<1>7. CASE waiting = "query" /\ Fresh = {} /\ since' = max /\ UNCHANGED <<entry, posts, seq>>
  <2>1. i \in Replies /\ Live(i)
    BY <1>3, <1>7 DEF Replies, Thread, Live
  <2>2. PICK j \in Inbox : i <= j /\ Live(j)
    BY <2>1 DEF Uncrowded
  <2>3. ~(j > since)
    BY <1>7, <2>2 DEF Fresh, Live
  <2>4. i \in Nat /\ j \in Nat
    BY <1>1, <2>1, <2>2 DEF LogTypeOK, Live
  <2>5. i \in (entry + 1)..since
    BY <1>3, <1>4, <1>7, <2>2, <2>3, <2>4
  <2>6. QED
    BY <1>7, <2>1, <2>5 DEF NoReplyPassed, Live
<1>8. QED
  BY <1>3, <1>5, <1>6, <1>7 DEF WaitNext, Insert, Mention, Remove, Start,
     Tick, Query, GiveUp, inboxVars, waitVars, logVars

\* Before the first wait nothing is passed.
LEMMA InitWait ==
  ASSUME WaitInit
  PROVE  WaitInv
BY DEF WaitInv, WaitInit, LogInit, WaitTypeOK, LogTypeOK, ParentsFit, NoReplyPassed

\* Parents stay older than their replies.
LEMMA WaitParentsStep ==
  ASSUME WaitTypeOK, ParentsFit, [WaitNext]_inboxVars
  PROVE  ParentsFit'
<1>1. LogTypeOK
  BY DEF WaitTypeOK
<1>2. QED
  BY <1>1, WaitStepLogs, ParentsFitStep

\* Types, and a watermark that never falls behind the entry.
THEOREM WaitTypeCorrect == WaitSpec => []WaitTypeOK
<1>1. WaitInit => WaitTypeOK
  BY InitWait DEF WaitInv
<1>2. WaitTypeOK /\ [WaitNext]_inboxVars => WaitTypeOK'
  BY WaitTypeStep
<1>3. QED
  BY <1>1, <1>2, PTL DEF WaitSpec

\* As long as tombstones crowd no live reply out of the inbox (inbox.go:30), the wait
\* never moves its watermark past one, however the MAX(id) and the inbox of a tick are
\* interleaved with posts, tombstones and deletes: crowding is the only way to miss one.
THEOREM RepliesAreNotPassed == WaitSpec /\ []Uncrowded => []NoReplyPassed
<1>1. WaitInit => WaitInv
  BY InitWait
<1>2. WaitInv /\ Uncrowded /\ [WaitNext]_inboxVars => WaitInv'
  BY WaitTypeStep, WaitParentsStep, NoReplyStep DEF WaitInv
<1>3. WaitInv => NoReplyPassed
  BY DEF WaitInv
<1>4. QED
  BY <1>1, <1>2, <1>3, PTL DEF WaitSpec

\* A query that ends the wait returns all replies since the entry, and no other news
\* than what is addressed to the handle.
LEMMA ReturnStep ==
  ASSUME WaitTypeOK, NoReplyPassed, Uncut, [WaitNext]_inboxVars,
         waiting = "query", waiting' = "idle", result' # result
  PROVE  LET news(S) == {i \in S : Live(i) /\ i > entry} IN
         /\ result' \subseteq news(Replies \cup Mentions)
         /\ news(Replies) \subseteq result'
<1>1. result' = {i \in Inbox : i > since /\ Live(i)}
  BY DEF WaitNext, Insert, Mention, Remove, Start, Tick, Query,
         Fresh, GiveUp, inboxVars, waitVars
<1>2. Inbox \subseteq Replies \cup Mentions
  BY DEF Inbox
<1>3. \A i \in DOMAIN posts : i \in Nat
  BY DEF WaitTypeOK, LogTypeOK
<1>4. entry \in Nat /\ since \in Nat /\ entry <= since
  BY DEF WaitTypeOK, LogTypeOK
<1>5. ASSUME NEW i \in result'
      PROVE  i \in Replies \cup Mentions /\ Live(i) /\ i > entry
  BY <1>1, <1>2, <1>3, <1>4, <1>5 DEF Live
<1>6. ASSUME NEW i \in Replies, Live(i), i > entry
      PROVE  i \in result'
  <2>1. i \in Nat /\ i \in Inbox
    BY <1>3, <1>6 DEF Uncut, Live
  <2>2. i \notin (entry + 1)..since
    BY <1>6 DEF NoReplyPassed
  <2>3. i > since
    BY <1>4, <1>6, <2>1, <2>2
  <2>4. QED
    BY <1>1, <1>6, <2>1, <2>3
<1>7. QED
  BY <1>5, <1>6

\* What is in the inbox itself is not crowded out.
LEMMA UncutIsUncrowded ==
  ASSUME WaitTypeOK, Uncut
  PROVE  Uncrowded
<1>1. ASSUME NEW i \in Replies, Live(i)
      PROVE  \E j \in Inbox : i <= j /\ Live(j)
  <2>1. i \in Inbox /\ i \in Nat
    BY <1>1 DEF Uncut, Live, WaitTypeOK, LogTypeOK
  <2>2. QED
    BY <1>1, <2>1
<1>2. QED
  BY <1>1 DEF Uncrowded

\* As long as the limit cuts no live reply, a return brings every live reply newer than
\* the entry, and nothing but live posts addressed to the handle and newer than that.
THEOREM WaitsReturnTheNews == WaitSpec /\ []Uncut => ReturnsTheNews
<1> DEFINE News(S) == {i \in S : Live(i) /\ i > entry}
           A == waiting = "query" /\ waiting' = "idle" /\ result' # result =>
                  /\ result' \subseteq News(Replies \cup Mentions)
                  /\ News(Replies) \subseteq result'
<1>1. WaitInit => WaitInv
  BY InitWait
<1>2. WaitInv /\ Uncut /\ [WaitNext]_inboxVars => WaitInv'
  BY UncutIsUncrowded, WaitTypeStep, WaitParentsStep, NoReplyStep DEF WaitInv
<1>3. WaitInv /\ Uncut /\ [WaitNext]_inboxVars => [A]_inboxVars
  BY ReturnStep DEF WaitInv
<1>4. ReturnsTheNews <=> [][A]_inboxVars
  BY DEF ReturnsTheNews
<1> HIDE DEF A
<1>5. QED
  BY <1>1, <1>2, <1>3, <1>4, PTL DEF WaitSpec

\* A limit no smaller than the number of posts cuts nothing, so that the two theorems
\* above hold of such a wait without further condition.
THEOREM WideInboxesCutNothing == MaxInserts <= InboxLimit => (WaitSpec => []Uncut)
<1> DEFINE Bounded == WaitTypeOK /\ seq <= MaxInserts
<1>1. SUFFICES ASSUME MaxInserts <= InboxLimit
               PROVE  WaitSpec => []Uncut
  OBVIOUS
<1>2. WaitInit => Bounded
  BY InitWait, InboxAssumption DEF WaitInv, WaitInit, LogInit
<1>3. Bounded /\ [WaitNext]_inboxVars => Bounded'
  <2>1. ASSUME WaitTypeOK, seq <= MaxInserts, [WaitNext]_inboxVars
        PROVE  seq' <= MaxInserts
    <3>1. CASE Remove
      BY <2>1, <3>1 DEF Remove, Tombstone, Erase
    <3>2. CASE \E b \in Boards, h \in Handles, d \in Drafts, i \in {0} \cup DOMAIN posts :
                 Insert(b, h, d, i)
      BY <3>2, <2>1, InboxAssumption DEF WaitTypeOK, LogTypeOK, Insert, AppendPost
    <3>3. CASE \/ \E i \in owed : Mention(i)
               \/ Start \/ Tick \/ Query \/ GiveUp
               \/ UNCHANGED inboxVars
      BY <3>3, <2>1 DEF Mention, Start, Tick, Query, GiveUp, inboxVars,
                        logVars
    <3>4. QED
      BY <2>1, <3>1, <3>2, <3>3 DEF WaitNext
  <2>2. QED
    BY <2>1, WaitTypeStep
<1>4. Bounded => Uncut
  <2>1. SUFFICES ASSUME WaitTypeOK, seq <= MaxInserts, NEW i \in Replies
                 PROVE  i \in Inbox
    BY DEF Uncut
  <2> DEFINE all == Replies \cup Mentions
             Above == {j \in all : j > i}
  <2>2. seq \in Nat /\ all \subseteq 1..seq /\ i \in 1..seq
    BY <2>1 DEF WaitTypeOK, LogTypeOK, Replies, Mentions
  <2>3. Above \subseteq (i + 1)..seq
    <3> HIDE DEF all
    <3>1. ASSUME NEW j \in all, j > i
          PROVE  j \in (i + 1)..seq
      <4>1. j \in 1..seq
        BY <2>2
      <4>2. QED
        BY <2>2, <3>1, <4>1
    <3>2. QED
      BY <3>1
  <2>4. IsFiniteSet((i + 1)..seq) /\ Cardinality((i + 1)..seq) < seq
    <3>1. i + 1 \in Int /\ seq \in Int /\ seq \in Nat /\ i \in Nat /\ 1 <= i /\ i <= seq
      BY <2>2
    <3> DEFINE n == i + 1
    <3>2. IsFiniteSet(n..seq) /\ Cardinality(n..seq) = IF n > seq THEN 0 ELSE seq - n + 1
      <4> HIDE DEF n
      <4>1. n \in Int
        BY <3>1 DEF n
      <4>2. QED
        BY <3>1, <4>1, FS_Interval
    <3>3. QED
      BY <3>1, <3>2
  <2>5. Cardinality(Above) < InboxLimit
    <3> HIDE DEF Above
    <3>1. Cardinality(Above) <= Cardinality((i + 1)..seq)
      BY <2>3, <2>4, FS_Subset
    <3>2. Cardinality(Above) \in Nat /\ Cardinality((i + 1)..seq) \in Nat
      BY <2>3, <2>4, FS_Subset, FS_CardinalityType
    <3>3. QED
      BY <1>1, <2>1, <2>2, <2>4, <3>1, <3>2, InboxAssumption
  <2>6. QED
    BY <2>1, <2>5 DEF Inbox
<1> HIDE DEF Bounded
<1>5. QED
  BY <1>2, <1>3, <1>4, PTL DEF WaitSpec

\* Such a wait misses no reply and returns exactly the news.
THEOREM WideWaitsMissNothing ==
  MaxInserts <= InboxLimit => (WaitSpec => []NoReplyPassed /\ ReturnsTheNews)
<1>1. SUFFICES ASSUME MaxInserts <= InboxLimit
               PROVE  WaitSpec => []NoReplyPassed /\ ReturnsTheNews
  OBVIOUS
<1>2. WaitSpec => []Uncut
  BY <1>1, WideInboxesCutNothing
<1>3. WaitTypeOK /\ Uncut => Uncrowded
  BY UncutIsUncrowded
<1>4. QED
  BY <1>2, <1>3, WaitTypeCorrect, RepliesAreNotPassed, WaitsReturnTheNews, PTL
=============================================================================
