---------------------------- MODULE PostLogProofs ----------------------------
(***************************************************************************)
(* What a step of the abstract log may do to the posts table.  The proofs  *)
(* about the modules that read or implement the log rest on these facts.   *)
(***************************************************************************)
EXTENDS PostLog, FiniteSetTheorems, WellFoundedInduction, TLAPS

\* The content of a row, as opposed to its marks.
SameContent(i) ==
  /\ posts'[i].board = posts[i].board
  /\ posts'[i].author = posts[i].author
  /\ posts'[i].draft = posts[i].draft
  /\ posts'[i].parent = posts[i].parent

\* A parent is older than its replies and on their board.
ParentsFit ==
  \A i \in DOMAIN posts :
    LET parent == posts[i].parent IN
    parent # 0 => /\ parent < i
                  /\ parent \in DOMAIN posts => posts[parent].board = posts[i].board

\* A set of ids is finite.
LEMMA IdsAreFinite ==
  ASSUME NEW n \in Nat, NEW S \in SUBSET (0..n)
  PROVE  IsFiniteSet(S)
<1>1. IsFiniteSet(0..n)
  <2>1. 0 \in Int /\ n \in Int
    OBVIOUS
  <2>2. QED
    BY <2>1, FS_Interval
<1>2. QED
  BY <1>1, FS_Subset

\* A nonempty finite set of ids has a largest one.  The set of those above it is
\* minimal for inclusion.
LEMMA LargestOfFinite ==
  ASSUME NEW S \in SUBSET Nat, IsFiniteSet(S), S # {}
  PROVE  Largest(S) \in S /\ \A j \in S : j <= Largest(S)
<1> DEFINE Above(i) == {j \in S : i < j}
           T == {Above(i) : i \in S}
           R == StrictSubsetOrdering(S)
<1>1. IsFiniteSet(S)
  OBVIOUS
<1>2. T \subseteq FiniteSubsetsOf(S) /\ T # {}
  <2>1. FiniteSubsetsOf(S) = SUBSET S
    BY <1>1, FS_FiniteSubsetsOfFinite
  <2>2. \A i \in S : Above(i) \in SUBSET S
    OBVIOUS
  <2>3. \E i \in S : TRUE
    OBVIOUS
  <2> HIDE DEF Above
  <2>4. QED
    BY <2>1, <2>2, <2>3
<1>3. IsWellFoundedOn(R, FiniteSubsetsOf(S))
  BY FS_StrictSubsetOrderingWellFounded
<1>4. PICK U \in T : \A V \in T : <<V, U>> \notin R
  <2> HIDE DEF R, T
  <2>1. QED
    BY <1>2, <1>3, WFMin
<1>5. PICK i \in S : U = Above(i)
  OBVIOUS
<1>6. ASSUME NEW j \in S, i < j
      PROVE  FALSE
  <2>1. \A k \in S : k \in Nat
    OBVIOUS
  <2>2. j \in Above(i)
    BY <1>6
  <2>3. j \notin Above(j)
    BY <2>1
  <2>4. Above(j) \subseteq Above(i)
    <3>1. ASSUME NEW k \in S, j < k PROVE i < k
      BY <1>6, <2>1, <3>1
    <3>2. QED
      BY <3>1
  <2>5. <<Above(j), Above(i)>> \in R
    BY <2>2, <2>3, <2>4 DEF StrictSubsetOrdering
  <2>6. QED
    BY <1>4, <1>5, <2>5
<1>7. \A j \in S : j <= i
  BY <1>6
<1>8. QED
  BY <1>7 DEF Largest

\* So has one of ids that are all at most n.
LEMMA LargestOf ==
  ASSUME NEW n \in Nat, NEW S \in SUBSET (0..n), S # {}
  PROVE  Largest(S) \in S /\ \A j \in S : j <= Largest(S)
<1>1. S \in SUBSET Nat
  OBVIOUS
<1>2. QED
  BY <1>1, IdsAreFinite, LargestOfFinite

\* MAX(id) of a table that is not empty is the id of a row.
LEMMA MaxPostIDOf ==
  ASSUME LogTypeOK
  PROVE  /\ MaxPostID \in 0..seq
         /\ DOMAIN posts # {} => MaxPostID \in DOMAIN posts
         /\ \A i \in DOMAIN posts : i <= MaxPostID
<1>1. CASE DOMAIN posts = {}
  BY <1>1 DEF MaxPostID, Largest, LogTypeOK
<1>2. CASE DOMAIN posts # {}
  BY <1>2, LargestOf DEF MaxPostID, LogTypeOK
<1>3. QED
  BY <1>1, <1>2

\* Rows keep their types, and no row lies beyond the rowid sequence.
LEMMA LogTypeStep ==
  ASSUME LogTypeOK, [LogNext]_logVars
  PROVE  LogTypeOK'
<1>1. CASE UNCHANGED logVars
  BY <1>1 DEF logVars, LogTypeOK
<1>2. ASSUME NEW b \in Boards, NEW h \in Handles, NEW d \in Drafts, NEW i \in 0..seq,
             AppendPost(b, h, d, i)
      PROVE  LogTypeOK'
  BY <1>2, LogAssumption DEF LogTypeOK, AppendPost, NewPost, Post
<1>3. ASSUME NEW i \in DOMAIN posts, Tombstone(i)
      PROVE  LogTypeOK'
  BY <1>3 DEF LogTypeOK, Tombstone, Live, Post
<1>4. ASSUME NEW i \in DOMAIN posts, NEW h \in Handles, Resolve(i, h)
      PROVE  LogTypeOK'
  BY <1>4 DEF LogTypeOK, Resolve, Post
<1>5. ASSUME NEW S \in SUBSET DOMAIN posts, Erase(S)
      PROVE  LogTypeOK'
  BY <1>5 DEF LogTypeOK, Erase
<1>6. QED
  BY <1>1, <1>2, <1>3, <1>4, <1>5 DEF LogNext

\* A row that is there after a step was there before with the same content, or
\* it is new and lies under the next id.
LEMMA LogStepKeepsContent ==
  ASSUME LogTypeOK, [LogNext]_logVars
  PROVE  /\ seq' \in {seq, seq + 1}
         /\ \A i \in DOMAIN posts' : \/ i \in DOMAIN posts /\ SameContent(i)
                                     \/ i = seq + 1 /\ seq' = seq + 1
<1>1. CASE UNCHANGED logVars
  BY <1>1 DEF logVars, LogTypeOK, SameContent
<1>2. ASSUME NEW b \in Boards, NEW h \in Handles, NEW d \in Drafts, NEW i \in 0..seq,
             AppendPost(b, h, d, i)
      PROVE  /\ seq' = seq + 1
             /\ \A j \in DOMAIN posts' : \/ j \in DOMAIN posts /\ SameContent(j)
                                         \/ j = seq + 1
  BY <1>2 DEF LogTypeOK, AppendPost, SameContent
<1>3. ASSUME NEW i \in DOMAIN posts, Tombstone(i)
      PROVE  seq' = seq /\ \A j \in DOMAIN posts' : j \in DOMAIN posts /\ SameContent(j)
  BY <1>3 DEF LogTypeOK, Tombstone, SameContent, Post
<1>4. ASSUME NEW i \in DOMAIN posts, NEW h \in Handles, Resolve(i, h)
      PROVE  seq' = seq /\ \A j \in DOMAIN posts' : j \in DOMAIN posts /\ SameContent(j)
  BY <1>4 DEF LogTypeOK, Resolve, SameContent, Post
<1>5. ASSUME NEW S \in SUBSET DOMAIN posts, Erase(S)
      PROVE  seq' = seq /\ \A j \in DOMAIN posts' : j \in DOMAIN posts /\ SameContent(j)
  BY <1>5 DEF LogTypeOK, Erase, SameContent
<1>6. QED
  BY <1>1, <1>2, <1>3, <1>4, <1>5 DEF LogNext

\* An id that was given out and is not there any more never comes back.
LEMMA ErasedStaysErased ==
  ASSUME LogTypeOK, [LogNext]_logVars, NEW i \in 1..seq, i \notin DOMAIN posts
  PROVE  i \notin DOMAIN posts'
BY LogStepKeepsContent DEF LogTypeOK

\* A tombstone is never taken back.
LEMMA TombstonesStay ==
  ASSUME LogTypeOK, [LogNext]_logVars, NEW i \in DOMAIN posts', i \in DOMAIN posts,
         posts[i].tombed
  PROVE  posts'[i].tombed
<1>1. CASE UNCHANGED logVars
  BY <1>1 DEF logVars
<1>2. ASSUME NEW b \in Boards, NEW h \in Handles, NEW d \in Drafts, NEW k \in 0..seq,
             AppendPost(b, h, d, k)
      PROVE  posts'[i].tombed
  BY <1>2 DEF LogTypeOK, AppendPost
<1>3. ASSUME NEW k \in DOMAIN posts, Tombstone(k)
      PROVE  posts'[i].tombed
  BY <1>3 DEF LogTypeOK, Tombstone, Post
<1>4. ASSUME NEW k \in DOMAIN posts, NEW h \in Handles, Resolve(k, h)
      PROVE  posts'[i].tombed
  BY <1>4 DEF LogTypeOK, Resolve, Post
<1>5. ASSUME NEW S \in SUBSET DOMAIN posts, Erase(S)
      PROVE  posts'[i].tombed
  BY <1>5 DEF Erase
<1>6. QED
  BY <1>1, <1>2, <1>3, <1>4, <1>5 DEF LogNext

\* Threads keep their order and stay on their board, whatever is erased.
LEMMA ParentsFitStep ==
  ASSUME LogTypeOK, ParentsFit, [LogNext]_logVars
  PROVE  ParentsFit'
<1>1. ASSUME NEW b \in Boards, NEW h \in Handles, NEW d \in Drafts, NEW i \in 0..seq,
             AppendPost(b, h, d, i)
      PROVE  ParentsFit'
  BY <1>1 DEF LogTypeOK, ParentsFit, AppendPost, ParentFits, NewPost, Post
<1>2. CASE seq' = seq
  BY <1>2, LogStepKeepsContent DEF LogTypeOK, ParentsFit, SameContent
<1>3. CASE UNCHANGED logVars
  BY <1>2, <1>3 DEF logVars
<1>4. QED
  BY <1>1, <1>2, <1>3 DEF LogNext, Tombstone, Resolve, Erase

\* In every behaviour of the log a parent is older than its replies, and on their
\* board.
THEOREM LogParentsFit == LogSpec => [](LogTypeOK /\ ParentsFit)
<1>1. LogInit => LogTypeOK /\ ParentsFit
  BY DEF LogInit, LogTypeOK, ParentsFit
<1>2. LogTypeOK /\ ParentsFit /\ [LogNext]_logVars => (LogTypeOK /\ ParentsFit)'
  BY LogTypeStep, ParentsFitStep
<1>3. QED
  BY <1>1, <1>2, PTL DEF LogSpec

-----------------------------------------------------------------------------
(***************************************************************************)
(* Recursion over a listing's parents.  Each of these functions is defined *)
(* by an equation; that the equation has a solution is what allows a proof *)
(* to use it.                                                              *)
(***************************************************************************)
\* What is reached from j by going from a post to its parent, within D.
Upwards(D, up, j) ==
  {x \in D : \A S \in SUBSET D : j \in S /\ (\A y \in S : up[y] \in D => up[y] \in S) => x \in S}

\* It is closed, and what is reached from a post is what is reached from its parent,
\* and the post.
LEMMA UpwardsUnfolds ==
  ASSUME NEW D, NEW up, NEW j \in D
  PROVE  /\ Upwards(D, up, j) \subseteq D /\ j \in Upwards(D, up, j)
         /\ up[j] \in D => Upwards(D, up, j) = {j} \cup Upwards(D, up, up[j])
         /\ up[j] \notin D => Upwards(D, up, j) = {j}
<1> DEFINE Closed(S) == \A y \in S : up[y] \in D => up[y] \in S
           A(i) == Upwards(D, up, i)
<1>1. \A i : \A x \in A(i) : x \in D /\ \A S \in SUBSET D : i \in S /\ Closed(S) => x \in S
  BY DEF Upwards
<1>2. ASSUME NEW i, NEW x \in D, \A S \in SUBSET D : i \in S /\ Closed(S) => x \in S
      PROVE  x \in A(i)
  BY <1>2 DEF Upwards
<1> HIDE DEF A
<1>3. \A i \in D : i \in A(i)
  BY <1>2
<1>4. ASSUME NEW i \in D
      PROVE  Closed(A(i))
  <2>1. ASSUME NEW y \in A(i), up[y] \in D
        PROVE  up[y] \in A(i)
    <3>1. ASSUME NEW S \in SUBSET D, i \in S, Closed(S)
          PROVE  up[y] \in S
      BY <1>1, <2>1, <3>1
    <3>2. QED
      BY <1>2, <2>1, <3>1
  <2>2. QED
    BY <2>1
<1>5. ASSUME up[j] \in D
      PROVE  A(j) = {j} \cup A(up[j])
  <2>1. {j} \cup A(up[j]) \in SUBSET D
    BY <1>1
  <2>2. Closed({j} \cup A(up[j]))
    BY <1>3, <1>4, <1>5
  <2>3. A(j) \subseteq {j} \cup A(up[j])
    BY <1>1, <2>1, <2>2
  <2>4. up[j] \in A(j)
    BY <1>3, <1>4, <1>5
  <2>5. A(j) \in SUBSET D
    BY <1>1
  <2>6. A(up[j]) \subseteq A(j)
    BY <1>1, <1>4, <2>4, <2>5
  <2>7. QED
    BY <1>3, <2>3, <2>6
<1>6. ASSUME up[j] \notin D
      PROVE  A(j) = {j}
  <2>1. Closed({j})
    BY <1>6
  <2>2. A(j) \subseteq {j}
    BY <1>1, <2>1
  <2>3. QED
    BY <1>3, <2>2
<1>7. A(j) \subseteq D /\ j \in A(j)
  BY <1>1, <1>3
<1>8. QED
  BY <1>5, <1>6, <1>7 DEF A

\* A nonempty set of ids has a smallest one.
LEMMA SmallestOf ==
  ASSUME NEW S \in SUBSET Nat, S # {}
  PROVE  \E i \in S : \A j \in S : i <= j
<1>1. PICK n \in S : TRUE
  OBVIOUS
<1> DEFINE T == {n - i : i \in {j \in S : j <= n}}
<1>2. T \in SUBSET (0..n) /\ T # {}
  OBVIOUS
<1>3. Largest(T) \in T /\ \A t \in T : t <= Largest(T)
  <2> HIDE DEF T
  <2>1. QED
    BY <1>1, <1>2, LargestOf
<1>4. PICK i \in S : i <= n /\ Largest(T) = n - i
  BY <1>3
<1>5. ASSUME NEW j \in S
      PROVE  i <= j
  <2>1. CASE j <= n
    <3>1. n - j \in T
      BY <2>1
    <3>2. n - j <= n - i
      BY <1>3, <1>4, <3>1
    <3>3. QED
      BY <2>1, <1>4, <3>2
  <2>2. CASE ~(j <= n)
    <3>1. n \in Nat /\ i \in Nat /\ j \in Nat
      OBVIOUS
    <3>2. QED
      BY <2>2, <1>4, <3>1
  <2>3. QED
    BY <2>1, <2>2
<1>6. QED
  BY <1>5

\* The paths of a listing.
LEMMA PathsExist ==
  ASSUME NEW D, NEW up
  PROVE  \E path : path = [j \in D |-> IF up[j] \in D THEN {j} \cup path[up[j]] ELSE {j}]
<1> DEFINE path == [j \in D |-> Upwards(D, up, j)]
<1>1. \A j \in D : path[j] = IF up[j] \in D THEN {j} \cup path[up[j]] ELSE {j}
  BY UpwardsUnfolds
<1>2. path = [j \in D |-> path[j]]
  OBVIOUS
<1> HIDE DEF path
<1>3. path = [j \in D |-> IF up[j] \in D THEN {j} \cup path[up[j]] ELSE {j}]
  BY <1>1, <1>2
<1>4. QED
  BY <1>3

\* The roots of a listing in which a parent is older than its replies: the oldest of
\* what is reached.
LEMMA RootsExist ==
  ASSUME NEW D \in SUBSET Nat, NEW up, \A j \in D : up[j] \in D => up[j] < j
  PROVE  \E root : root = [j \in D |-> IF up[j] \in D THEN root[up[j]] ELSE j]
<1> DEFINE A(j) == Upwards(D, up, j)
           Oldest(i, S) == i \in S /\ \A x \in S : i <= x
           root == [j \in D |-> CHOOSE i \in D : Oldest(i, A(j))]
<1>1. ASSUME NEW j \in D
      PROVE  \E i \in D : Oldest(i, A(j))
  <2>1. A(j) \in SUBSET Nat /\ A(j) # {} /\ A(j) \subseteq D
    BY UpwardsUnfolds
  <2>2. \E i \in A(j) : \A x \in A(j) : i <= x
    BY <2>1, SmallestOf
  <2>3. QED
    BY <2>1, <2>2
<1>2. \A j \in D : \A i1, i2 \in D : Oldest(i1, A(j)) /\ Oldest(i2, A(j)) => i1 = i2
  OBVIOUS
<1>3. \A j \in D : \A i \in D : Oldest(i, A(j)) <=> root[j] = i
  <2> HIDE DEF Oldest
  <2>1. QED
    BY <1>1, <1>2
<1>4. ASSUME NEW j \in D, up[j] \in D
      PROVE  root[j] = root[up[j]]
  <2>1. PICK i \in D : Oldest(i, A(up[j]))
    BY <1>1, <1>4
  <2>2. A(j) = {j} \cup A(up[j]) /\ up[j] \in A(up[j])
    BY <1>4, UpwardsUnfolds
  <2>3. i <= up[j] /\ up[j] < j
    BY <1>4, <2>1, <2>2
  <2>4. i <= j
    <3>1. i \in Nat /\ j \in Nat /\ up[j] \in Nat
      BY <1>4
    <3>2. QED
      BY <2>3, <3>1
  <2>5. Oldest(i, A(j))
    <3> HIDE DEF A
    <3>1. QED
      BY <2>1, <2>2, <2>4
  <2> HIDE DEF Oldest, root
  <2>6. QED
    BY <1>3, <1>4, <2>1, <2>5
<1>5. ASSUME NEW j \in D, up[j] \notin D
      PROVE  root[j] = j
  <2>1. A(j) = {j}
    BY <1>5, UpwardsUnfolds
  <2>2. Oldest(j, A(j))
    BY <2>1
  <2> HIDE DEF Oldest, root
  <2>3. QED
    BY <1>3, <2>2
<1>6. root = [j \in D |-> root[j]]
  OBVIOUS
<1> HIDE DEF root
<1>7. root = [j \in D |-> IF up[j] \in D THEN root[up[j]] ELSE j]
  BY <1>4, <1>5, <1>6
<1>8. QED
  BY <1>7
=============================================================================
