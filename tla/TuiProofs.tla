----------------------------- MODULE TuiProofs ------------------------------
(***************************************************************************)
(* Proofs about the terminal UI, for any boards, posts and loads under     *)
(* way: the listings drop nothing, agree on what a thread is and hang each *)
(* reply under its parent; whichever answers come in over whichever scope, *)
(* a row is drawn if there is one and every row opens; and a refresh takes *)
(* the human nowhere.                                                      *)
(*                                                                         *)
(* The first half is about Threads alone.  A parent is older than its      *)
(* replies, so what is said of all posts is proved of the oldest that it   *)
(* might not hold of.                                                      *)
(***************************************************************************)
EXTENDS Tui, PostLogProofs

-----------------------------------------------------------------------------
(***************************************************************************)
(* Places in a listing                                                     *)
(***************************************************************************)
\* What a younger id takes from the older ones, all ids have.
LEMMA OldestFirst ==
  ASSUME NEW D \in SUBSET Nat, NEW G,
         \A j \in D : (\A k \in D : k < j => k \in G) => j \in G
  PROVE  D \subseteq G
<1> DEFINE S == D \ G
<1>1. ASSUME S # {}
      PROVE  FALSE
  <2>1. PICK j \in S : \A k \in S : j <= k
    <3>1. S \in SUBSET Nat
      OBVIOUS
    <3> HIDE DEF S
    <3>2. QED
      BY <1>1, <3>1, SmallestOf
  <2>2. \A k \in D : k < j => k \in G
    BY <2>1
  <2>3. QED
    BY <2>2
<1>2. QED
  BY <1>1

\* The place of x in S when R says who comes no later than whom.
Place(S, R, x) == Cardinality({y \in S : <<y, x>> \in R})

\* R puts the elements of S in a row.
Lines(S, R) ==
  /\ \A x \in S : <<x, x>> \in R
  /\ \A x, y \in S : <<x, y>> \in R \/ <<y, x>> \in R
  /\ \A x, y \in S : <<x, y>> \in R /\ <<y, x>> \in R => x = y
  /\ \A x, y, z \in S : <<x, y>> \in R /\ <<y, z>> \in R => <<x, z>> \in R

\* Each element has a place of its own, each place is somebody's.
LEMMA PlacesOf ==
  ASSUME NEW S, IsFiniteSet(S), NEW R, Lines(S, R)
  PROVE  /\ \A x \in S : Place(S, R, x) \in 1..Cardinality(S)
         /\ \A x, y \in S : <<x, y>> \in R <=> Place(S, R, x) <= Place(S, R, y)
         /\ \A k \in 1..Cardinality(S) : \E x \in S : Place(S, R, x) = k
<1> DEFINE n == Cardinality(S)
           Upto(x) == {y \in S : <<y, x>> \in R}
           f == [x \in S |-> Cardinality(Upto(x))]
<1>1. n \in Nat
  BY FS_CardinalityType
<1>2. ASSUME NEW x \in S
      PROVE  IsFiniteSet(Upto(x)) /\ Cardinality(Upto(x)) \in 1..n
  <2>1. Upto(x) \in SUBSET S /\ Upto(x) # {}
    BY DEF Lines
  <2> HIDE DEF Upto
  <2>2. IsFiniteSet(Upto(x)) /\ Cardinality(Upto(x)) <= n
    BY <2>1, FS_Subset
  <2>3. Cardinality(Upto(x)) \in Nat /\ Cardinality(Upto(x)) # 0
    BY <2>1, <2>2, FS_CardinalityType, FS_EmptySet
  <2>4. QED
    BY <1>1, <2>2, <2>3
<1>3. ASSUME NEW x \in S, NEW y \in S, <<x, y>> \in R, x # y
      PROVE  Cardinality(Upto(x)) < Cardinality(Upto(y))
  <2>1. Upto(x) \in SUBSET Upto(y)
    BY <1>3 DEF Lines
  <2>2. y \in Upto(y) /\ y \notin Upto(x)
    BY <1>3 DEF Lines
  <2>3. IsFiniteSet(Upto(y)) /\ Cardinality(Upto(y)) \in Nat /\ Cardinality(Upto(x)) \in Nat
    BY <1>2
  <2> HIDE DEF Upto
  <2>4. Cardinality(Upto(x)) <= Cardinality(Upto(y)) /\ Cardinality(Upto(x)) # Cardinality(Upto(y))
    BY <2>1, <2>2, <2>3, FS_Subset
  <2>5. QED
    BY <2>3, <2>4
<1>4. f \in [S -> 1..n]
  BY <1>2
<1>5. \A x \in S : f[x] = Place(S, R, x)
  BY DEF Place
<1>6. \A x, y \in S : <<x, y>> \in R /\ x # y => f[x] < f[y]
  BY <1>3
<1> HIDE DEF f
<1>7. \A x \in S : f[x] \in Nat
  BY <1>1, <1>4
<1>8. ASSUME NEW x \in S, NEW y \in S
      PROVE  <<x, y>> \in R <=> f[x] <= f[y]
  <2>1. <<x, y>> \in R => x = y \/ f[x] < f[y]
    BY <1>6
  <2>2. <<x, y>> \notin R => f[y] < f[x]
    <3>1. <<x, y>> \notin R => <<y, x>> \in R /\ x # y
      BY Zenon DEF Lines
    <3>2. QED
      BY <1>6, <3>1
  <2>3. f[x] \in Nat /\ f[y] \in Nat
    BY <1>7
  <2>4. QED
    BY <2>1, <2>2, <2>3
<1>9. f \in Injection(S, 1..n)
  <2>1. \A x, y \in S : f[x] = f[y] => x = y
    BY <1>7, <1>8 DEF Lines
  <2>2. QED
    BY <1>4, <2>1 DEF Injection, IsInjective
<1>10. IsFiniteSet(1..n) /\ Cardinality(1..n) = n
  <2>1. 1 \in Int /\ n \in Int
    BY <1>1
  <2>2. IsFiniteSet(1..n) /\ Cardinality(1..n) = IF 1 > n THEN 0 ELSE n - 1 + 1
    BY <2>1, FS_Interval
  <2>3. QED
    BY <1>1, <2>2
<1>11. f \in Surjection(S, 1..n)
  BY <1>9, <1>10, FS_Injection
<1>12. \A k \in 1..n : \E x \in S : f[x] = k
  BY <1>11 DEF Surjection
<1>13. QED
  BY <1>4, <1>5, <1>8, <1>12

\* Ranked lists each element of S once, where ranks differ.
LEMMA RankedLists ==
  ASSUME NEW S, IsFiniteSet(S), NEW rank \in [S -> Nat],
         \A x, y \in S : rank[x] = rank[y] => x = y
  PROVE  /\ \A k \in 1..Cardinality(S) :
              \E x \in S : Cardinality({y \in S : rank[y] > rank[x]}) = k - 1
         /\ \A x \in S : Cardinality({y \in S : rank[y] > rank[x]}) \in 0..(Cardinality(S) - 1)
         /\ \A x, y \in S :
              Cardinality({z \in S : rank[z] > rank[x]}) = Cardinality({z \in S : rank[z] > rank[y]})
                => x = y
<1> DEFINE R == {p \in S \X S : rank[p[1]] >= rank[p[2]]}
           Above(x) == {y \in S : rank[y] > rank[x]}
<1>1. \A x, y \in S : <<x, y>> \in R <=> rank[x] >= rank[y]
  OBVIOUS
<1>2. Lines(S, R)
  <2> HIDE DEF R
  <2>1. QED
    BY <1>1 DEF Lines
<1>3. ASSUME NEW x \in S
      PROVE  Cardinality(Above(x)) = Place(S, R, x) - 1
  <2>1. {y \in S : <<y, x>> \in R} = Above(x) \cup {x}
    <3> HIDE DEF R
    <3>1. \A y \in S : rank[y] >= rank[x] <=> rank[y] > rank[x] \/ y = x
      OBVIOUS
    <3>2. QED
      BY <1>1, <3>1
  <2>2. x \notin Above(x) /\ IsFiniteSet(Above(x))
    <3>1. Above(x) \in SUBSET S
      OBVIOUS
    <3> HIDE DEF Above
    <3>2. IsFiniteSet(Above(x))
      BY <3>1, FS_Subset
    <3>3. QED
      BY <3>2 DEF Above
  <2> HIDE DEF Above, R
  <2>3. /\ Cardinality(Above(x) \cup {x}) = Cardinality(Above(x)) + 1
        /\ Cardinality(Above(x)) \in Nat
    BY <2>2, FS_AddElement, FS_CardinalityType
  <2>4. Place(S, R, x) = Cardinality(Above(x) \cup {x})
    BY <2>1, Zenon DEF Place
  <2>5. QED
    BY <2>3, <2>4
<1> HIDE DEF Above, R
<1>4. /\ \A x \in S : Place(S, R, x) \in 1..Cardinality(S)
      /\ \A x, y \in S : <<x, y>> \in R <=> Place(S, R, x) <= Place(S, R, y)
      /\ \A k \in 1..Cardinality(S) : \E x \in S : Place(S, R, x) = k
  BY <1>2, PlacesOf
<1>5. Cardinality(S) \in Nat
  BY FS_CardinalityType
<1>6. /\ \A x \in S : Cardinality(Above(x)) = Place(S, R, x) - 1
      /\ \A x, y \in S : Place(S, R, x) = Place(S, R, y) => x = y
  BY <1>2, <1>3, <1>4, <1>5 DEF Lines
<1>7. /\ \A k \in 1..Cardinality(S) : \E x \in S : Cardinality(Above(x)) = k - 1
      /\ \A x \in S : Cardinality(Above(x)) \in 0..(Cardinality(S) - 1)
      /\ \A x, y \in S : Cardinality(Above(x)) = Cardinality(Above(y)) => x = y
  BY <1>4, <1>5, <1>6
<1>8. QED
  BY <1>7 DEF Above

-----------------------------------------------------------------------------
(***************************************************************************)
(* Threads                                                                 *)
(***************************************************************************)
\* What the listings rely on of the posts table.
Fits == LogTypeOK /\ ParentsFit

\* A post's path is its own id and its parent's path.
LEMMA PathUnfolds ==
  ASSUME NEW ps, NEW i \in ps
  PROVE  Path(ps, i) = IF Parent(i) \in ps THEN {i} \cup Path(ps, Parent(i)) ELSE {i}
<1> DEFINE up == [j \in ps |-> Parent(j)]
           Solves(path) == path = [j \in ps |-> IF Parent(j) \in ps THEN {j} \cup path[Parent(j)] ELSE {j}]
           path == CHOOSE path : Solves(path)
<1>1. \E p : Solves(p)
  <2>1. PICK p : p = [j \in ps |-> IF up[j] \in ps THEN {j} \cup p[up[j]] ELSE {j}]
    BY PathsExist
  <2>2. Solves(p)
    BY <2>1
  <2>3. QED
    BY <2>2
<1>2. Solves(path)
  <2> HIDE DEF Solves
  <2>1. QED
    BY <1>1
<1>3. \A j \in ps : Path(ps, j) = path[j]
  BY DEF Path
<1> HIDE DEF path
<1>4. QED
  BY <1>2, <1>3

\* A post's root is its parent's, if that is listed.
LEMMA RootUnfolds ==
  ASSUME Fits, NEW ps \in SUBSET DOMAIN posts, NEW i \in ps
  PROVE  RootOf(ps)[i] = IF Parent(i) \in ps THEN RootOf(ps)[Parent(i)] ELSE i
<1> DEFINE up == [j \in ps |-> Parent(j)]
           Solves(root) == root = [j \in ps |-> IF Parent(j) \in ps THEN root[Parent(j)] ELSE j]
<1>1. \E r : Solves(r)
  <2>1. ps \in SUBSET Nat /\ \A j \in ps : up[j] \in ps => up[j] < j
    BY DEF Fits, LogTypeOK, ParentsFit, Parent
  <2>2. PICK r : r = [j \in ps |-> IF up[j] \in ps THEN r[up[j]] ELSE j]
    <3> HIDE DEF up
    <3>1. QED
      BY <2>1, RootsExist
  <2>3. Solves(r)
    BY <2>2
  <2>4. QED
    BY <2>3
<1>2. Solves(CHOOSE r : Solves(r))
  <2> HIDE DEF Solves
  <2>1. QED
    BY <1>1
<1>3. RootOf(ps) = CHOOSE r : Solves(r)
  BY DEF RootOf
<1>4. PICK r : Solves(r) /\ r = RootOf(ps)
  BY <1>2, <1>3
<1>5. QED
  BY <1>4

\* On a board, the path of a post is on the board, and has one root, which is on it.
LEMMA PathsHaveOneRoot ==
  ASSUME Fits, NEW b,
         NEW ps, ps = BoardPosts(b), NEW i \in ps
  PROVE  /\ RootOf(ps)[i] \in Path(DOMAIN posts, i)
         /\ Path(DOMAIN posts, i) \subseteq ps
         /\ \A x \in Path(DOMAIN posts, i) : RootOf(ps)[x] = RootOf(ps)[i]
<1> DEFINE P(j) == Path(DOMAIN posts, j)
           root == RootOf(ps)
           Good(j) == root[j] \in P(j) /\ P(j) \subseteq ps /\ \A x \in P(j) : root[x] = root[j]
           S == {j \in ps : ~Good(j)}
<1>1. ps \in SUBSET DOMAIN posts /\ ps \in SUBSET Nat
  BY DEF BoardPosts, Fits, LogTypeOK
<1>2. \A j \in ps : root[j] = IF Parent(j) \in ps THEN root[Parent(j)] ELSE j
  BY <1>1, RootUnfolds
<1>3. \A j \in ps : P(j) = IF Parent(j) \in DOMAIN posts THEN {j} \cup P(Parent(j)) ELSE {j}
  BY <1>1, PathUnfolds
<1>4. \A j \in ps : Parent(j) \in DOMAIN posts <=> Parent(j) \in ps /\ Parent(j) < j
  BY DEF Fits, LogTypeOK, ParentsFit, BoardPosts, Parent
<1> HIDE DEF P, root
<1>5. ASSUME S # {}
      PROVE  FALSE
  <2>1. PICK j \in S : \A k \in S : j <= k
    <3>1. S \in SUBSET Nat
      BY <1>1
    <3> HIDE DEF S
    <3>2. QED
      BY <1>5, <3>1, SmallestOf
  <2>2. j \in ps /\ ~Good(j)
    OBVIOUS
  <2>3. CASE Parent(j) \notin ps
    BY <1>2, <1>3, <1>4, <2>2, <2>3
  <2>4. CASE Parent(j) \in ps
    <3>1. Parent(j) \in DOMAIN posts /\ Parent(j) < j
      BY <1>1, <1>4, <2>2, <2>4
    <3>2. Good(Parent(j))
      <4>1. Parent(j) \in Nat /\ j \in Nat
        BY <1>1, <2>2, <2>4
      <4>2. ~(j <= Parent(j))
        BY <3>1, <4>1
      <4> HIDE DEF Good
      <4>3. QED
        BY <2>1, <2>4, <4>2
    <3>3. root[j] = root[Parent(j)] /\ P(j) = {j} \cup P(Parent(j))
      BY <1>2, <1>3, <2>2, <2>4, <3>1
    <3>4. Good(j)
      BY <2>2, <3>2, <3>3
    <3>5. QED
      BY <2>2, <3>4
  <2>5. QED
    BY <2>3, <2>4
<1>6. Good(i)
  <2> HIDE DEF Good
  <2>1. QED
    BY <1>5
<1>7. QED
  BY <1>6 DEF P, root

\* A thread is the posts of one root: its listing and the reference are the same.
LEMMA ThreadsAreRoots ==
  ASSUME Fits, NEW b, NEW ps, ps = BoardPosts(b), NEW i \in ps
  PROVE  /\ RootOf(ps)[i] \in ps /\ RootOf(ps)[RootOf(ps)[i]] = RootOf(ps)[i]
         /\ Thread(i) = {j \in ps : RootOf(ps)[j] = RootOf(ps)[i]}
<1> DEFINE P(j) == Path(DOMAIN posts, j)
           root == RootOf(ps)
<1>1. ps \in SUBSET DOMAIN posts
  BY DEF BoardPosts
<1>2. \A j \in ps : root[j] \in P(j) /\ P(j) \subseteq ps /\ \A x \in P(j) : root[x] = root[j]
  BY PathsHaveOneRoot
<1>3. \A j \in DOMAIN posts : j \in P(j)
  BY PathUnfolds
<1>4. Thread(i) = {j \in DOMAIN posts : P(i) \cap P(j) # {}}
  BY <1>1 DEF Thread, Ancestors
<1>5. ASSUME NEW j \in DOMAIN posts, P(i) \cap P(j) # {}
      PROVE  j \in ps
  <2>1. ASSUME NEW c \in Boards, j \in BoardPosts(c)
        PROVE  j \in ps
    <3>1. P(j) \subseteq BoardPosts(c)
      BY <2>1, PathsHaveOneRoot
    <3>2. P(i) \subseteq BoardPosts(b)
      BY <1>2
    <3> HIDE DEF P
    <3>3. PICK x : x \in BoardPosts(c) /\ x \in BoardPosts(b)
      BY <1>5, <3>1, <3>2
    <3>4. QED
      BY <2>1, <3>3 DEF BoardPosts
  <2>2. posts[j].board \in Boards /\ j \in BoardPosts(posts[j].board)
    BY DEF Fits, LogTypeOK, Post, BoardPosts
  <2>3. QED
    BY <2>1, <2>2
<1> HIDE DEF P, root
<1>6. \A j \in ps : P(i) \cap P(j) # {} <=> root[j] = root[i]
  BY <1>2
<1>7. Thread(i) = {j \in ps : root[j] = root[i]}
  BY <1>1, <1>4, <1>5, <1>6
<1>8. root[i] \in ps /\ root[root[i]] = root[i]
  BY <1>2
<1>9. QED
  BY <1>7, <1>8 DEF root

\* A session's threads are those with a live post of it, whole.
LEMMA SessionsThreads ==
  ASSUME Fits, NEW b, NEW s
  PROVE  BoardPostsBySession(b, s) = UNION {Thread(i) : i \in PostsOf(b, s)}
<1> DEFINE all == BoardPosts(b)
           root == RootOf(all)
<1>1. BoardPostsBySession(b, s) = {i \in all : root[i] \in {root[j] : j \in PostsOf(b, s)}}
  BY DEF BoardPostsBySession, PostsOf
<1>2. PostsOf(b, s) \subseteq all
  BY DEF PostsOf
<1>3. \A i \in all : Thread(i) = {j \in all : root[j] = root[i]}
  BY ThreadsAreRoots
<1> HIDE DEF all, root
<1>4. QED
  BY <1>1, <1>2, <1>3

\* A path is made of ids of the listing; each opens the paths of the posts on it.
LEMMA PathsOpen ==
  ASSUME Fits, NEW ps \in SUBSET DOMAIN posts, NEW i \in ps
  PROVE  /\ i \in Path(ps, i) /\ Path(ps, i) \subseteq ps
         /\ \A x \in Path(ps, i) : x <= i /\ Path(ps, x) = {y \in Path(ps, i) : y <= x}
<1> DEFINE P(j) == Path(ps, j)
           Good(j) == /\ j \in P(j) /\ P(j) \subseteq ps
                      /\ \A x \in P(j) : x <= j /\ P(x) = {y \in P(j) : y <= x}
           G == {j \in ps : Good(j)}
<1>1. ps \in SUBSET Nat
  BY DEF Fits, LogTypeOK
<1>2. \A j \in ps : P(j) = IF Parent(j) \in ps THEN {j} \cup P(Parent(j)) ELSE {j}
  BY PathUnfolds
<1>3. \A j \in ps : Parent(j) \in ps => Parent(j) < j
  BY DEF Fits, LogTypeOK, ParentsFit, Parent
<1> HIDE DEF P
<1>4. ASSUME NEW j \in ps, \A k \in ps : k < j => k \in G
      PROVE  Good(j)
  <2>1. CASE Parent(j) \notin ps
    <3>1. P(j) = {j}
      BY <1>2, <2>1
    <3>2. QED
      BY <1>1, <3>1
  <2>2. CASE Parent(j) \in ps
    <3> DEFINE p == Parent(j)
    <3>1. p \in ps /\ p < j /\ Good(p) /\ P(j) = {j} \cup P(p)
      BY <1>2, <1>3, <1>4, <2>2
    <3> HIDE DEF p
    <3>2. \A x \in P(p) : x \in Nat /\ x < j
      BY <1>1, <3>1
    <3>3. j \in P(j) /\ P(j) \subseteq ps
      BY <3>1
    <3>4. ASSUME NEW x \in P(j)
          PROVE  x <= j /\ P(x) = {y \in P(j) : y <= x}
      <4>1. CASE x = j
        BY <1>1, <3>1, <3>2, <4>1
      <4>2. CASE x # j
        <5>1. x \in P(p) /\ P(x) = {y \in P(p) : y <= x}
          BY <3>1, <3>4, <4>2
        <5>2. x <= j /\ ~(j <= x)
          BY <1>1, <3>2, <5>1
        <5>3. QED
          BY <3>1, <5>1, <5>2
      <4>3. QED
        BY <4>1, <4>2
    <3>5. QED
      BY <3>3, <3>4
  <2>3. QED
    BY <2>1, <2>2
<1>5. ps \subseteq G
  <2>1. \A j \in ps : (\A k \in ps : k < j => k \in G) => j \in G
    BY <1>4
  <2> HIDE DEF G
  <2>2. QED
    BY <1>1, <2>1, OldestFirst
<1>6. Good(i)
  <2> HIDE DEF Good
  <2>1. QED
    BY <1>5
<1>7. QED
  BY <1>6 DEF P

-----------------------------------------------------------------------------
(***************************************************************************)
(* Listings                                                                *)
(***************************************************************************)
\* What a thread list shows: a row for each number, of a thread that is there.
Listing(rows, gs) ==
  /\ Len(rows) \in Nat /\ DOMAIN rows = 1..Len(rows)
  /\ \A k \in DOMAIN rows : rows[k].root \in DOMAIN gs

\* ThreadSummaries and GroupThreads of the same posts make one, with a row for each
\* thread, which counts its replies.
LEMMA RowsOpen ==
  ASSUME LogTypeOK, NEW ps \in SUBSET DOMAIN posts
  PROVE  /\ Listing(ThreadSummaries(ps), GroupThreads(ps))
         /\ {ThreadSummaries(ps)[k].root : k \in DOMAIN ThreadSummaries(ps)} = DOMAIN GroupThreads(ps)
         /\ \A k \in DOMAIN ThreadSummaries(ps) :
              ThreadSummaries(ps)[k].replies
                = Cardinality(GroupThreads(ps)[ThreadSummaries(ps)[k].root]) - 1
<1> DEFINE root == RootOf(ps)
           roots == {root[i] : i \in ps}
           thread(r) == {i \in ps : root[i] = r}
           row(r) == [root |-> r, replies |-> Cardinality(thread(r)) - 1, last |-> Largest(thread(r))]
           S == {row(r) : r \in roots}
           above(x) == {y \in S : y.last > x.last}
           out == ThreadSummaries(ps)
<1>1. out = [k \in 1..Cardinality(S) |-> CHOOSE x \in S : Cardinality(above(x)) = k - 1]
  BY DEF ThreadSummaries, Ranked
<1>2. DOMAIN GroupThreads(ps) = roots /\ \A r \in roots : GroupThreads(ps)[r] = thread(r)
  BY DEF GroupThreads
<1>3. \A i \in ps : i \in Nat /\ root[i] \in roots
  BY DEF LogTypeOK
<1>4. IsFiniteSet(S)
  <2> DEFINE g == [i \in ps |-> row(root[i])]
  <2>1. g \in Surjection(ps, S)
    <3> HIDE DEF row, root
    <3>1. g \in [ps -> S] /\ \A t \in S : \E i \in ps : g[i] = t
      OBVIOUS
    <3>2. QED
      BY <3>1 DEF Surjection
  <2>2. IsFiniteSet(ps)
    BY IdsAreFinite DEF LogTypeOK
  <2> HIDE DEF g, S
  <2>3. QED
    BY <2>1, <2>2, FS_Surjection
<1>5. ASSUME NEW t \in S
      PROVE  /\ t.root \in roots /\ t = row(t.root)
             /\ t.last \in Nat /\ root[t.last] = t.root
  <2>1. PICK j \in ps : t = row(root[j])
    OBVIOUS
  <2>2. t.root = root[j] /\ t.last = Largest(thread(t.root))
    BY <2>1
  <2>3. thread(t.root) \in SUBSET (0..seq) /\ thread(t.root) # {} /\ seq \in Nat
    BY <2>2 DEF LogTypeOK
  <2>4. t.last \in thread(t.root)
    BY <2>2, <2>3, LargestOf
  <2>5. t.root \in roots /\ t = row(t.root)
    <3> HIDE DEF row, root
    <3>1. QED
      BY <2>1, <2>2
  <2>6. t.last \in Nat /\ root[t.last] = t.root
    BY <1>3, <2>4
  <2>7. QED
    BY <2>5, <2>6
<1>6. /\ \A k \in 1..Cardinality(S) : \E x \in S : Cardinality(above(x)) = k - 1
      /\ \A x \in S : Cardinality(above(x)) \in 0..(Cardinality(S) - 1)
      /\ \A x, y \in S : Cardinality(above(x)) = Cardinality(above(y)) => x = y
  <2> DEFINE rank == [t \in S |-> t.last]
  <2>1. rank \in [S -> Nat]
    BY <1>5
  <2>2. ASSUME NEW x \in S, NEW y \in S, rank[x] = rank[y]
        PROVE  x = y
    <3> HIDE DEF S, row, root
    <3>1. x.last = y.last
      BY <2>2
    <3>2. x.root = y.root
      BY <1>5, <3>1
    <3>3. QED
      BY <1>5, <3>2
  <2> HIDE DEF S
  <2>3. \A x \in S : above(x) = {y \in S : rank[y] > rank[x]}
    OBVIOUS
  <2> HIDE DEF rank, above
  <2>4. \A x, y \in S : rank[x] = rank[y] => x = y
    BY <2>2
  <2>5. /\ \A k \in 1..Cardinality(S) :
             \E x \in S : Cardinality({y \in S : rank[y] > rank[x]}) = k - 1
        /\ \A x \in S : Cardinality({y \in S : rank[y] > rank[x]}) \in 0..(Cardinality(S) - 1)
        /\ \A x, y \in S :
             Cardinality({z \in S : rank[z] > rank[x]}) = Cardinality({z \in S : rank[z] > rank[y]})
               => x = y
    BY <1>4, <2>1, <2>4, RankedLists, Zenon
  <2>6. QED
    BY <2>3, <2>5
<1>7. Cardinality(S) \in Nat
  BY <1>4, FS_CardinalityType
<1> HIDE DEF S, above
<1>8. /\ DOMAIN out = 1..Cardinality(S)
      /\ \A k \in 1..Cardinality(S) : out[k] \in S /\ Cardinality(above(out[k])) = k - 1
  <2> HIDE DEF out
  <2>1. QED
    BY <1>1, <1>6
<1>9. Len(out) = Cardinality(S)
  BY <1>1, <1>7
<1>10. \A x \in S : \E k \in DOMAIN out : out[k] = x
  <2> HIDE DEF out
  <2>1. SUFFICES ASSUME NEW x \in S
                 PROVE  \E k \in DOMAIN out : out[k] = x
    OBVIOUS
  <2> DEFINE k == Cardinality(above(x)) + 1
  <2>2. k \in 1..Cardinality(S) /\ Cardinality(above(x)) = k - 1
    BY <1>6, <1>7
  <2> HIDE DEF k
  <2>3. out[k] = x
    BY <1>6, <1>8, <2>2
  <2>4. QED
    BY <1>8, <2>2, <2>3
<1>11. \A r \in roots : \E x \in S : x.root = r
  <2>1. \A r \in roots : row(r) \in S
    <3> HIDE DEF row, roots
    <3>1. QED
      BY DEF S
  <2>2. \A r \in roots : row(r).root = r
    <3> HIDE DEF thread, roots
    <3>1. QED
      OBVIOUS
  <2> HIDE DEF row, roots
  <2>3. QED
    BY <2>1, <2>2
<1>12. \A k \in DOMAIN out : /\ out[k].root \in roots
                             /\ out[k].replies = Cardinality(thread(out[k].root)) - 1
  <2>1. \A t \in S : t.root \in roots /\ t.replies = Cardinality(thread(t.root)) - 1
    <3>1. SUFFICES ASSUME NEW t \in S
                   PROVE  t.root \in roots /\ t.replies = Cardinality(thread(t.root)) - 1
      OBVIOUS
    <3>2. t.root \in roots /\ t = row(t.root)
      BY <1>5
    <3> HIDE DEF roots, thread
    <3>3. QED
      BY <3>2
  <2> HIDE DEF out, roots, thread
  <2>2. QED
    BY <1>8, <2>1
<1> HIDE DEF out, roots, thread
<1>13. {out[k].root : k \in DOMAIN out} = roots
  BY <1>10, <1>11, <1>12
<1>14. Listing(out, GroupThreads(ps))
  BY <1>2, <1>7, <1>8, <1>9, <1>12 DEF Listing
<1>15. QED
  BY <1>2, <1>12, <1>13, <1>14 DEF out

\* The three passes agree.
LEMMA ListingsDoAgree ==
  ASSUME Fits
  PROVE  ListingsAgree
<1>1. ASSUME NEW b \in Boards, NEW ps, ps = BoardPosts(b),
             NEW k \in DOMAIN ThreadSummaries(ps)
      PROVE  GroupThreads(ps)[ThreadSummaries(ps)[k].root] = Thread(ThreadSummaries(ps)[k].root)
  <2> DEFINE r == ThreadSummaries(ps)[k].root
  <2>1. ps \in SUBSET DOMAIN posts
    BY <1>1 DEF BoardPosts
  <2>2. r \in DOMAIN GroupThreads(ps)
    BY <2>1, RowsOpen DEF Fits, Listing
  <2> HIDE DEF r
  <2>3. /\ \E i \in ps : r = RootOf(ps)[i]
        /\ GroupThreads(ps)[r] = {i \in ps : RootOf(ps)[i] = r}
    BY <2>2 DEF GroupThreads
  <2>4. r \in ps /\ RootOf(ps)[r] = r
    BY <1>1, <2>3, ThreadsAreRoots
  <2>5. Thread(r) = {j \in ps : RootOf(ps)[j] = RootOf(ps)[r]}
    BY <1>1, <2>4, ThreadsAreRoots
  <2>6. QED
    BY <2>3, <2>4, <2>5 DEF r
<1>2. ASSUME NEW b \in Boards
      PROVE  BoardPosts(b) \in SUBSET DOMAIN posts
  BY DEF BoardPosts
<1>3. \A b \in Boards : \A ps \in {BoardPosts(b)} :
        /\ {ThreadSummaries(ps)[k].root : k \in DOMAIN ThreadSummaries(ps)} = DOMAIN GroupThreads(ps)
        /\ \A k \in DOMAIN ThreadSummaries(ps) :
             ThreadSummaries(ps)[k].replies
               = Cardinality(GroupThreads(ps)[ThreadSummaries(ps)[k].root]) - 1
  BY <1>2, RowsOpen DEF Fits
<1>4. \A b \in Boards : \A s \in {SessionOf[h] : h \in Handles} \ {None} :
        BoardPostsBySession(b, s) = UNION {Thread(i) : i \in PostsOf(b, s)}
  BY SessionsThreads
<1>5. ASSUME NEW b \in Boards, NEW ps, ps = BoardPosts(b),
             NEW gs, gs = GroupThreads(ps), NEW rows, rows = ThreadSummaries(ps)
      PROVE  /\ {rows[k].root : k \in DOMAIN rows} = DOMAIN gs
             /\ \A k \in DOMAIN rows :
                  /\ rows[k].replies = Cardinality(gs[rows[k].root]) - 1
                  /\ gs[rows[k].root] = Thread(rows[k].root)
             /\ \A s \in {SessionOf[h] : h \in Handles} \ {None} :
                  BoardPostsBySession(b, s) = UNION {Thread(i) : i \in PostsOf(b, s)}
  <2>1. {rows[k].root : k \in DOMAIN rows} = DOMAIN gs
    BY <1>3, <1>5, Zenon
  <2>2. \A k \in DOMAIN rows : rows[k].replies = Cardinality(gs[rows[k].root]) - 1
    BY <1>3, <1>5, Zenon
  <2>3. \A k \in DOMAIN rows : gs[rows[k].root] = Thread(rows[k].root)
    BY <1>1, <1>5, Zenon
  <2>4. QED
    BY <1>4, <2>1, <2>2, <2>3, Zenon
<1>6. QED
  BY <1>5, Zenon DEF ListingsAgree

-----------------------------------------------------------------------------
(***************************************************************************)
(* The order of a thread                                                   *)
(***************************************************************************)
\* Up to an id they share, what A has B has.
Opens(A, B) == \A x \in A, y \in A \cap B : x < y => x \in B

\* The order of two paths, by the first ids they do not share.
Before(A, B) ==
  \/ A \subseteq B
  \/ B \ A # {} /\ \E w \in A \ B : \A z \in B \ A : w < z

\* Transitive, of paths that open one another.
LEMMA BeforeGoesOn ==
  ASSUME NEW A \in SUBSET Nat, NEW B \in SUBSET Nat, NEW C \in SUBSET Nat,
         Opens(A, B), Opens(B, A), Opens(B, C), Opens(C, B), Opens(A, C), Opens(C, A),
         Before(A, B), Before(B, C)
  PROVE  Before(A, C)
<1>1. CASE A \subseteq B /\ B \subseteq C
  BY <1>1 DEF Before
<1>2. CASE A \subseteq B /\ ~(B \subseteq C)
  <2>1. PICK x \in B \ C : \A z \in C \ B : x < z
    BY <1>2 DEF Before
  <2>2. PICK y \in C \ B : TRUE
    BY <1>2 DEF Before
  <2>3. CASE A \subseteq C
    BY <2>3 DEF Before
  <2>4. CASE ~(A \subseteq C)
    <3>1. PICK a \in A \ C : \A z \in A \ C : a <= z
      <4>1. A \ C \in SUBSET Nat /\ A \ C # {}
        BY <2>4
      <4>2. QED
        BY <4>1, SmallestOf
    <3>2. ASSUME NEW z \in C \ A
          PROVE  a < z
      <4>1. CASE z \in B
        <5>1. z \in Nat /\ a \in Nat /\ a \in B /\ a # z
          BY <1>2, <3>1
        <5>2. ~(z < a)
          BY <3>1, <4>1, <5>1 DEF Opens
        <5>3. QED
          BY <5>1, <5>2
      <4>2. CASE z \notin B
        <5>1. x < z /\ x \in Nat /\ a \in Nat /\ z \in Nat
          BY <2>1, <4>2
        <5>2. a \in B
          BY <1>2, <3>1
        <5>3. a <= x
          <6>1. CASE x \in A
            BY <3>1, <2>1, <6>1
          <6>2. CASE x \notin A
            BY <1>2, <3>1, <2>1, <5>1, <5>2, <6>2 DEF Opens
          <6>3. QED
            BY <6>1, <6>2
        <5>4. QED
          BY <5>1, <5>3
      <4>3. QED
        BY <4>1, <4>2
    <3>3. y \in C \ A
      BY <1>2, <2>2
    <3>4. QED
      BY <3>1, <3>2, <3>3 DEF Before
  <2>5. QED
    BY <2>3, <2>4
<1>3. CASE ~(A \subseteq B) /\ B \subseteq C
  <2>1. PICK x \in A \ B : \A z \in B \ A : x < z
    BY <1>3 DEF Before
  <2>2. PICK y \in B \ A : TRUE
    BY <1>3 DEF Before
  <2>3. x < y /\ y \in C /\ x \in Nat /\ y \in Nat
    BY <1>3, <2>1, <2>2
  <2>4. x \notin C
    BY <2>1, <2>2, <2>3 DEF Opens
  <2>5. ASSUME NEW z \in C \ A
        PROVE  x < z
    <3>1. z \in Nat /\ x # z
      BY <2>1
    <3>2. CASE z < x
      <4>1. z \in B
        BY <2>2, <2>3, <3>1, <3>2 DEF Opens
      <4>2. QED
        BY <2>1, <4>1
    <3>3. QED
      BY <2>3, <3>1, <3>2
  <2>6. QED
    BY <2>1, <2>2, <2>3, <2>4, <2>5 DEF Before
<1>4. CASE ~(A \subseteq B) /\ ~(B \subseteq C)
  <2>1. PICK x \in A \ B : \A z \in B \ A : x < z
    BY <1>4 DEF Before
  <2>2. PICK y \in B \ A : TRUE
    BY <1>4 DEF Before
  <2>3. PICK u \in B \ C : \A z \in C \ B : u < z
    BY <1>4 DEF Before
  <2>4. PICK v \in C \ B : TRUE
    BY <1>4 DEF Before
  <2>5. x \in Nat /\ y \in Nat /\ u \in Nat /\ v \in Nat /\ x < y /\ u < v
    BY <2>1, <2>2, <2>3, <2>4
  <2>6. CASE u < x \/ u = x
    <3>1. u \in A /\ u \notin C
      BY <2>1, <2>2, <2>3, <2>5, <2>6
    <3>2. \A z \in C \ A : u < z
      <4>1. SUFFICES ASSUME NEW z \in C \ A
                     PROVE  u < z
        OBVIOUS
      <4>2. CASE z \in B
        <5>1. x < z /\ z \in Nat
          BY <2>1, <4>2
        <5>2. QED
          BY <2>5, <2>6, <5>1
      <4>3. CASE z \notin B
        BY <2>3, <4>3
      <4>4. QED
        BY <4>2, <4>3
    <3>3. v \notin A
      BY <2>3, <2>4, <2>5, <3>1 DEF Opens
    <3>4. QED
      BY <2>4, <3>1, <3>2, <3>3 DEF Before
  <2>7. CASE x < u
    <3>1. x \notin C
      <4>1. CASE x \in C
        <5>1. u < x
          BY <2>1, <2>3, <4>1
        <5>2. QED
          BY <2>5, <2>7, <5>1
      <4>2. QED
        BY <4>1
    <3>2. \A z \in C \ A : x < z
      <4>1. SUFFICES ASSUME NEW z \in C \ A
                     PROVE  x < z
        OBVIOUS
      <4>2. CASE z \in B
        BY <2>1, <4>2
      <4>3. CASE z \notin B
        <5>1. u < z /\ z \in Nat
          BY <2>3, <4>3
        <5>2. QED
          BY <2>5, <2>7, <5>1
      <4>4. QED
        BY <4>2, <4>3
    <3>3. v \notin A
      <4>1. x < v
        BY <2>5, <2>7
      <4>2. QED
        BY <2>1, <2>4, <3>1, <4>1 DEF Opens
    <3>4. QED
      BY <2>1, <2>4, <3>1, <3>2, <3>3 DEF Before
  <2>8. QED
    BY <2>5, <2>6, <2>7
<1>5. QED
  BY <1>1, <1>2, <1>3, <1>4

\* The paths of a listing open one another.
LEMMA PathsOpenOneAnother ==
  ASSUME Fits, NEW ps \in SUBSET DOMAIN posts, NEW i \in ps, NEW j \in ps
  PROVE  Opens(Path(ps, i), Path(ps, j))
<1>1. ps \in SUBSET Nat
  BY DEF Fits, LogTypeOK
<1>2. ASSUME NEW x \in Path(ps, i), NEW y \in Path(ps, i) \cap Path(ps, j), x < y
      PROVE  x \in Path(ps, j)
  <2>1. Path(ps, i) \subseteq ps
    BY PathsOpen
  <2>2. Path(ps, y) = {z \in Path(ps, i) : z <= y} /\ Path(ps, y) = {z \in Path(ps, j) : z <= y}
    BY PathsOpen
  <2>3. x <= y
    BY <1>1, <1>2, <2>1
  <2>4. QED
    BY <2>2, <2>3
<1>3. QED
  BY <1>2 DEF Opens

\* Precedes compares paths.
LEMMA PrecedesIsBefore ==
  ASSUME Fits, NEW ps \in SUBSET DOMAIN posts, NEW i \in ps, NEW j \in ps
  PROVE  Precedes(ps, i, j) <=> Before(Path(ps, i), Path(ps, j))
<1> DEFINE A == Path(ps, i)
           B == Path(ps, j)
<1>1. A \in SUBSET Nat /\ B \in SUBSET Nat
  BY PathsOpen DEF Fits, LogTypeOK
<1>2. Precedes(ps, i, j) <=> \/ A \subseteq B
                             \/ B \ A # {} /\ Smallest(A \ B) < Smallest(B \ A)
  BY DEF Precedes
<1> HIDE DEF A, B
<1>3. \A S \in SUBSET Nat : S # {} => Smallest(S) \in S /\ \A k \in S : Smallest(S) <= k
  <2>1. SUFFICES ASSUME NEW S \in SUBSET Nat, S # {}
                 PROVE  Smallest(S) \in S /\ \A k \in S : Smallest(S) <= k
    OBVIOUS
  <2>2. \E k \in S : \A l \in S : k <= l
    BY <2>1, SmallestOf
  <2>3. QED
    BY <2>2 DEF Smallest
<1>4. ASSUME ~(A \subseteq B), B \ A # {}
      PROVE  Smallest(A \ B) < Smallest(B \ A) <=> \E w \in A \ B : \A z \in B \ A : w < z
  <2>1. /\ A \ B \in SUBSET Nat /\ A \ B # {}
        /\ B \ A \in SUBSET Nat
    BY <1>1, <1>4
  <2> DEFINE p == Smallest(A \ B)
             q == Smallest(B \ A)
  <2>2. p \in A \ B /\ \A k \in A \ B : p <= k
    BY <1>3, <2>1
  <2>3. q \in B \ A /\ \A k \in B \ A : q <= k
    BY <1>3, <1>4, <2>1
  <2> HIDE DEF p, q
  <2>4. p < q <=> \E w \in A \ B : \A z \in B \ A : w < z
    BY <1>1, <2>2, <2>3
  <2>5. QED
    BY <2>4 DEF p, q
<1>5. QED
  BY <1>2, <1>4 DEF Before, A, B

\* The pairs of a listing in order.
InOrder(ps) == {p \in ps \X ps : Precedes(ps, p[1], p[2])}

\* The order is total.
LEMMA ThreadsAreInOrder ==
  ASSUME Fits, NEW ps \in SUBSET DOMAIN posts
  PROVE  Lines(ps, InOrder(ps))
<1> DEFINE P(i) == Path(ps, i)
           R == InOrder(ps)
<1>1. \A i, j \in ps : <<i, j>> \in R <=> Before(P(i), P(j))
  BY PrecedesIsBefore DEF InOrder
<1>2. \A i \in ps : i \in P(i) /\ P(i) \in SUBSET Nat /\ i \in Nat /\ \A x \in P(i) : x <= i
  BY PathsOpen DEF Fits, LogTypeOK
<1>3. \A i, j \in ps : Opens(P(i), P(j))
  BY PathsOpenOneAnother
<1> HIDE DEF P, R
<1>4. \A i \in ps : <<i, i>> \in R
  BY <1>1 DEF Before
<1>5. ASSUME NEW i \in ps, NEW j \in ps
      PROVE  /\ Before(P(i), P(j)) \/ Before(P(j), P(i))
             /\ Before(P(i), P(j)) /\ Before(P(j), P(i)) => i = j
  <2>1. CASE P(i) \subseteq P(j)
    <3>1. Before(P(j), P(i)) => P(j) \subseteq P(i)
      BY <2>1 DEF Before
    <3>2. P(j) \subseteq P(i) => i = j
      BY <1>2, <2>1
    <3>3. QED
      BY <2>1, <3>1, <3>2 DEF Before
  <2>2. CASE P(j) \subseteq P(i)
    <3>1. Before(P(i), P(j)) => P(i) \subseteq P(j)
      BY <2>2 DEF Before
    <3>2. P(i) \subseteq P(j) => i = j
      BY <1>2, <2>2
    <3>3. QED
      BY <2>2, <3>1, <3>2 DEF Before
  <2>3. CASE ~(P(i) \subseteq P(j)) /\ ~(P(j) \subseteq P(i))
    <3> DEFINE D == P(i) \ P(j)
               E == P(j) \ P(i)
    <3>1. D \in SUBSET Nat /\ D # {} /\ E \in SUBSET Nat /\ E # {} /\ D \cap E = {}
      BY <1>2, <2>3
    <3>2. /\ Before(P(i), P(j)) <=> \E w \in D : \A z \in E : w < z
          /\ Before(P(j), P(i)) <=> \E w \in E : \A z \in D : w < z
      BY <2>3 DEF Before
    <3> HIDE DEF D, E
    <3>3. PICK d \in D : \A z \in D : d <= z
      BY <3>1, SmallestOf
    <3>4. PICK e \in E : \A z \in E : e <= z
      BY <3>1, SmallestOf
    <3>5. d \in Nat /\ e \in Nat /\ d # e
      BY <3>1
    <3>6. CASE d < e
      <4>1. \A z \in E : d < z
        BY <3>1, <3>4, <3>5, <3>6
      <4>2. ~ \E w \in E : \A z \in D : w < z
        <5>1. SUFFICES ASSUME NEW w \in E, w < d
                       PROVE  FALSE
          OBVIOUS
        <5>2. QED
          BY <3>1, <4>1, <5>1
      <4>3. QED
        BY <3>2, <4>1, <4>2
    <3>7. CASE e < d
      <4>1. \A z \in D : e < z
        BY <3>1, <3>3, <3>5, <3>7
      <4>2. ~ \E w \in D : \A z \in E : w < z
        <5>1. SUFFICES ASSUME NEW w \in D, w < e
                       PROVE  FALSE
          OBVIOUS
        <5>2. QED
          BY <3>1, <4>1, <5>1
      <4>3. QED
        BY <3>2, <4>1, <4>2
    <3>8. QED
      BY <3>5, <3>6, <3>7
  <2>4. QED
    BY <2>1, <2>2, <2>3
<1>6. ASSUME NEW i \in ps, NEW j \in ps, NEW k \in ps, <<i, j>> \in R, <<j, k>> \in R
      PROVE  <<i, k>> \in R
  <2>1. Before(P(i), P(j)) /\ Before(P(j), P(k))
    BY <1>1, <1>6
  <2>2. /\ Opens(P(i), P(j)) /\ Opens(P(j), P(i)) /\ Opens(P(j), P(k))
        /\ Opens(P(k), P(j)) /\ Opens(P(i), P(k)) /\ Opens(P(k), P(i))
    BY <1>3
  <2>3. P(i) \in SUBSET Nat /\ P(j) \in SUBSET Nat /\ P(k) \in SUBSET Nat
    BY <1>2
  <2>4. Before(P(i), P(k))
    BY <2>1, <2>2, <2>3, BeforeGoesOn
  <2>5. QED
    BY <1>1, <2>4
<1>7. QED
  BY <1>1, <1>4, <1>5, <1>6 DEF Lines, R

\* TreeOrder lists each post once, at its place.
LEMMA TreeOrderLists ==
  ASSUME Fits, NEW ps \in SUBSET DOMAIN posts
  PROVE  LET out == TreeOrder(ps) IN
         /\ Len(out) = Cardinality(ps) /\ Cardinality(ps) \in Nat
         /\ \A i \in ps : Place(ps, InOrder(ps), i) \in 1..Len(out)
         /\ \A i \in ps : out[Place(ps, InOrder(ps), i)] = i
         /\ \A i, j \in ps :
              Precedes(ps, i, j) <=> Place(ps, InOrder(ps), i) <= Place(ps, InOrder(ps), j)
         /\ \A k \in 1..Len(out) : out[k] \in ps /\ Place(ps, InOrder(ps), out[k]) = k
<1> DEFINE out == TreeOrder(ps)
           n == Cardinality(ps)
           place(i) == Place(ps, InOrder(ps), i)
<1>1. IsFiniteSet(ps) /\ n \in Nat
  BY IdsAreFinite, FS_CardinalityType DEF Fits, LogTypeOK
<1>2. Lines(ps, InOrder(ps))
  BY ThreadsAreInOrder
<1>3. /\ \A i \in ps : place(i) \in 1..n
      /\ \A i, j \in ps : <<i, j>> \in InOrder(ps) <=> place(i) <= place(j)
      /\ \A k \in 1..n : \E i \in ps : place(i) = k
  <2>1. \A S, R : IsFiniteSet(S) /\ Lines(S, R) =>
          /\ \A x \in S : Place(S, R, x) \in 1..Cardinality(S)
          /\ \A x, y \in S : <<x, y>> \in R <=> Place(S, R, x) <= Place(S, R, y)
          /\ \A k \in 1..Cardinality(S) : \E x \in S : Place(S, R, x) = k
    BY PlacesOf
  <2>2. QED
    BY <1>1, <1>2, <2>1, Zenon
<1>4. \A i \in ps : Cardinality({j \in ps : Precedes(ps, j, i)}) = place(i)
  <2>1. \A i \in ps : {j \in ps : Precedes(ps, j, i)} = {j \in ps : <<j, i>> \in InOrder(ps)}
    BY DEF InOrder
  <2>2. QED
    BY <2>1, Zenon DEF Place
<1>5. out = [k \in 1..n |-> CHOOSE i \in ps : Cardinality({j \in ps : Precedes(ps, j, i)}) = k]
  BY DEF TreeOrder
<1> HIDE DEF place, out, n
<1>6. \A k \in 1..n : out[k] \in ps /\ place(out[k]) = k
  BY <1>3, <1>4, <1>5
<1>7. \A i, j \in ps : place(i) = place(j) => i = j
  <2>1. SUFFICES ASSUME NEW i \in ps, NEW j \in ps, place(i) = place(j)
                 PROVE  i = j
    OBVIOUS
  <2>2. place(i) <= place(j) /\ place(j) <= place(i)
    BY <1>1, <1>3, <2>1
  <2>3. QED
    BY <1>2, <1>3, <2>2 DEF Lines
<1>8. \A i \in ps : out[place(i)] = i
  BY <1>3, <1>6, <1>7
<1>9. Len(out) = n
  BY <1>1, <1>5
<1>10. \A i, j \in ps : Precedes(ps, i, j) <=> place(i) <= place(j)
  <2>1. \A i, j \in ps : Precedes(ps, i, j) <=> <<i, j>> \in InOrder(ps)
    BY DEF InOrder
  <2>2. QED
    BY <1>3, <2>1
<1>11. QED
  BY <1>1, <1>3, <1>6, <1>8, <1>9, <1>10 DEF place, out, n

\* The posts of a board under a root.
Under(b, r) == {i \in BoardPosts(b) : RootOf(BoardPosts(b))[i] = r}

\* In a thread every post but the first has its parent, and the first is on every path.
LEMMA ThreadsHaveParents ==
  ASSUME Fits, NEW b, NEW r
  PROVE  /\ \A i \in Under(b, r) : i # r => Parent(i) \in Under(b, r)
         /\ \A i \in Under(b, r) : r \in Path(Under(b, r), i)
         /\ Under(b, r) # {} => r \in Under(b, r) /\ Path(Under(b, r), r) = {r}
<1> DEFINE ps == BoardPosts(b)
           root == RootOf(ps)
           g == Under(b, r)
<1>0. g = {i \in ps : root[i] = r}
  BY DEF Under
<1>1. ps \in SUBSET DOMAIN posts /\ ps \in SUBSET Nat /\ g \in SUBSET ps
  BY <1>0 DEF BoardPosts, Fits, LogTypeOK
<1>2. \A i \in ps : root[i] = IF Parent(i) \in ps THEN root[Parent(i)] ELSE i
  BY <1>1, RootUnfolds
<1>3. \A i \in ps : root[i] \in ps /\ root[root[i]] = root[i]
  BY ThreadsAreRoots
<1>4. \A i \in ps : root[i] <= i
  <2>1. \A i \in ps : root[i] \in Path(DOMAIN posts, i)
    BY PathsHaveOneRoot
  <2>2. \A i \in DOMAIN posts : \A x \in Path(DOMAIN posts, i) : x <= i
    BY PathsOpen
  <2>3. QED
    BY <1>1, <2>1, <2>2
<1>5. \A i \in ps : Parent(i) \in ps => Parent(i) < i
  BY DEF Fits, LogTypeOK, ParentsFit, BoardPosts, Parent
<1> HIDE DEF root, ps, g
<1>6. g = {i \in ps : root[i] = r}
  BY <1>0
<1>7. \A i \in g : i # r => Parent(i) \in g
  BY <1>2, <1>6
<1>8. \A i \in g : Path(g, i) = IF Parent(i) \in g THEN {i} \cup Path(g, Parent(i)) ELSE {i}
  BY PathUnfolds
<1>9. g # {} => r \in g /\ Parent(r) \notin g
  <2>1. SUFFICES ASSUME g # {}
                 PROVE  r \in g /\ Parent(r) \notin g
    OBVIOUS
  <2>2. r \in g
    BY <1>3, <1>6, <2>1
  <2>3. Parent(r) \in g => r <= Parent(r) /\ Parent(r) < r
    BY <1>1, <1>4, <1>5, <1>6, <2>2
  <2>4. QED
    BY <1>1, <2>2, <2>3
<1>10. g \subseteq {i \in g : r \in Path(g, i)}
  <2> DEFINE G == {i \in g : r \in Path(g, i)}
  <2>1. ASSUME NEW i \in g, \A k \in g : k < i => k \in G
        PROVE  r \in Path(g, i)
    <3>1. CASE i = r
      BY <1>8, <1>9, <3>1
    <3>2. CASE i # r
      <4>1. Parent(i) \in g /\ i \in ps /\ Parent(i) \in ps
        BY <1>1, <1>7, <3>2
      <4>2. Parent(i) < i
        BY <1>5, <4>1
      <4>3. r \in Path(g, Parent(i))
        BY <2>1, <4>1, <4>2
      <4>4. QED
        BY <1>8, <4>1, <4>3
    <3>3. QED
      BY <3>1, <3>2
  <2>2. g \in SUBSET Nat /\ \A i \in g : (\A k \in g : k < i => k \in G) => i \in G
    BY <1>1, <2>1
  <2> HIDE DEF G
  <2>3. g \subseteq G
    BY <2>2, OldestFirst
  <2>4. QED
    BY <2>3 DEF G
<1>11. QED
  BY <1>7, <1>8, <1>9, <1>10 DEF g

\* Between a post and its reply come those under the post, as deep as the reply or deeper.
LEMMA BetweenIsDeeper ==
  ASSUME Fits, NEW g \in SUBSET DOMAIN posts, NEW c \in g, NEW p \in g, p = Parent(c),
         NEW q \in g, Precedes(g, p, q), Precedes(g, q, c), q # p, q # c
  PROVE  Path(g, c) = {c} \cup Path(g, p) /\ Path(g, p) \subseteq Path(g, q)
<1> DEFINE P == Path(g, p)
           Q == Path(g, q)
           C == Path(g, c)
<1>1. C = {c} \cup P
  BY PathUnfolds
<1>2. p < c
  BY DEF Fits, LogTypeOK, ParentsFit, Parent
<1>3. /\ P \in SUBSET Nat /\ Q \in SUBSET Nat /\ c \in Nat /\ p \in Nat /\ q \in Nat
      /\ \A x \in P : x <= p
      /\ \A x \in Q : x <= q
  BY PathsOpen DEF Fits, LogTypeOK
<1>4. c \notin Q
  <2>1. SUFFICES ASSUME c \in Q
                 PROVE  FALSE
    OBVIOUS
  <2>2. C \subseteq Q
    BY <2>1, PathsOpen
  <2>3. <<c, q>> \in InOrder(g) /\ <<q, c>> \in InOrder(g)
    <3>1. Precedes(g, c, q)
      BY <2>2 DEF Precedes
    <3>2. QED
      BY <3>1 DEF InOrder
  <2>4. QED
    BY <2>3, ThreadsAreInOrder DEF Lines
<1>5. Before(P, Q) /\ Before(Q, C)
  BY PrecedesIsBefore
<1>6. q \notin P
  <2>1. SUFFICES ASSUME q \in P
                 PROVE  FALSE
    OBVIOUS
  <2>2. Q \subseteq P
    BY <2>1, PathsOpen
  <2>3. Precedes(g, q, p)
    BY <2>2 DEF Precedes
  <2>4. <<p, q>> \in InOrder(g) /\ <<q, p>> \in InOrder(g)
    BY <2>3 DEF InOrder
  <2>5. QED
    BY <2>4, ThreadsAreInOrder DEF Lines
<1>7. q \in Q
  BY PathsOpen
<1> HIDE DEF P, Q, C
<1>8. ASSUME ~(P \subseteq Q)
      PROVE  FALSE
  <2>1. PICK w \in P \ Q : \A z \in Q \ P : w < z
    BY <1>5, <1>8 DEF Before
  <2>2. ~(Q \subseteq C)
    <3>1. q # c
      OBVIOUS
    <3>2. QED
      BY <1>1, <1>6, <1>7, <3>1
  <2>3. PICK u \in Q \ C : \A z \in C \ Q : u < z
    BY <1>5, <2>2 DEF Before
  <2>4. w < u /\ u < w
    BY <1>1, <2>1, <2>3
  <2>5. w \in Nat /\ u \in Nat
    BY <1>3, <2>1, <2>3
  <2>6. QED
    BY <2>4, <2>5
<1>9. QED
  BY <1>1, <1>8 DEF P, Q, C

\* Reading upwards from a reply, the first line indented less is its parent's.
LEMMA IndentDoesShowParent ==
  ASSUME Fits
  PROVE  IndentShowsParent
<1>1. ASSUME NEW b \in Boards, NEW ps, ps = BoardPosts(b), NEW r \in DOMAIN GroupThreads(ps),
             NEW g, g = GroupThreads(ps)[r], NEW out, out = TreeOrder(g), NEW k \in 2..Len(out),
             NEW less, less = {j \in 1..k-1 : Depth(g, out[j]) < Depth(g, out[k])}
      PROVE  less # {} /\ out[Largest(less)] = Parent(out[k])
  <2> DEFINE c == out[k]
             p == Parent(c)
             place(i) == Place(g, InOrder(g), i)
  <2>1. g = {i \in ps : RootOf(ps)[i] = r}
    BY <1>1 DEF GroupThreads
  <2>2. g \in SUBSET DOMAIN posts
    BY <1>1, <2>1 DEF BoardPosts
  <2>3. /\ Len(out) = Cardinality(g) /\ Cardinality(g) \in Nat
        /\ \A i \in g : place(i) \in 1..Len(out)
        /\ \A i \in g : out[place(i)] = i
        /\ \A i, j \in g : Precedes(g, i, j) <=> place(i) <= place(j)
        /\ \A j \in 1..Len(out) : out[j] \in g /\ place(out[j]) = j
    BY <1>1, <2>2, TreeOrderLists
  <2>4. k \in 1..Len(out) /\ k \in Nat /\ k >= 2
    BY <1>1, <2>3
  <2>5. c \in g /\ place(c) = k
    BY <2>3, <2>4
  <2>6. /\ \A i \in g : i # r => Parent(i) \in g
        /\ \A i \in g : r \in Path(g, i)
        /\ r \in g /\ Path(g, r) = {r}
    <3>1. g = Under(b, r) /\ g # {}
      BY <1>1, <2>1, <2>5 DEF Under
    <3> HIDE DEF c
    <3>2. QED
      BY <3>1, ThreadsHaveParents
  <2> HIDE DEF place, c
  <2>7. c # r
    <3>1. 1 \in 1..Len(out) /\ out[1] \in g /\ place(out[1]) = 1
      BY <2>3, <2>4
    <3>2. Precedes(g, r, out[1])
      BY <2>6, <3>1 DEF Precedes
    <3>3. place(r) <= 1
      BY <2>3, <2>6, <3>1, <3>2
    <3>4. place(c) = k
      BY <2>5
    <3>5. QED
      BY <2>4, <3>3, <3>4
  <2>8. p \in g
    BY <2>5, <2>6, <2>7
  <2>9. Path(g, c) = {c} \cup Path(g, p)
    BY <2>5, <2>8, PathUnfolds
  <2>10. p < c /\ p \in Nat /\ c \in Nat
    BY <2>2, <2>5, <2>8 DEF Fits, LogTypeOK, ParentsFit, Parent
  <2>11. c \notin Path(g, p)
    <3>1. \A x \in Path(g, p) : x <= p
      BY <2>2, <2>8, PathsOpen
    <3>2. QED
      BY <2>10, <3>1
  <2>12. \A i \in g : IsFiniteSet(Path(g, i)) /\ Cardinality(Path(g, i)) \in Nat
    <3>1. SUFFICES ASSUME NEW i \in g
                   PROVE  IsFiniteSet(Path(g, i))
      BY FS_CardinalityType
    <3>2. Path(g, i) \in SUBSET (0..seq) /\ seq \in Nat
      BY <2>2, PathsOpen DEF Fits, LogTypeOK
    <3>3. QED
      BY <3>2, IdsAreFinite
  <2>13. Cardinality(Path(g, c)) = Cardinality(Path(g, p)) + 1
    <3>1. Path(g, c) = Path(g, p) \cup {c} /\ IsFiniteSet(Path(g, p))
      BY <2>8, <2>9, <2>12
    <3>2. QED
      BY <2>11, <3>1, FS_AddElement
  <2> DEFINE m == place(p)
  <2>14. m \in 1..Len(out) /\ out[m] = p
    BY <2>3, <2>8
  <2>15. m < k
    <3>1. Precedes(g, p, c)
      BY <2>9 DEF Precedes
    <3>2. m <= k
      BY <2>3, <2>5, <2>8, <3>1
    <3>3. m # k
      BY <2>10, <2>14 DEF c
    <3>4. QED
      BY <2>4, <2>14, <3>2, <3>3
  <2> HIDE DEF m, p
  <2>16. m \in less
    <3>1. Depth(g, out[m]) < Depth(g, c)
      BY <2>5, <2>8, <2>12, <2>13, <2>14 DEF Depth
    <3>2. m \in 1..k-1
      BY <2>4, <2>14, <2>15
    <3>3. QED
      BY <1>1, <3>1, <3>2 DEF c
  <2>17. ASSUME NEW j \in less, m < j
         PROVE  FALSE
    <3> DEFINE q == out[j]
    <3>1. j \in Nat /\ j \in 1..Len(out) /\ j < k /\ Depth(g, q) < Depth(g, c)
      <4>1. j \in 1..k-1 /\ Depth(g, q) < Depth(g, c)
        BY <1>1, <2>17 DEF c
      <4>2. QED
        BY <2>3, <2>4, <4>1
    <3>2. q \in g /\ place(q) = j
      BY <2>3, <3>1
    <3> HIDE DEF q
    <3>3. place(p) = m
      BY DEF m
    <3>4. Precedes(g, p, q) /\ Precedes(g, q, c)
      <4>1. place(p) <= place(q) /\ place(q) <= place(c)
        BY <2>4, <2>5, <2>14, <2>17, <3>1, <3>2, <3>3
      <4>2. QED
        BY <2>3, <2>5, <2>8, <3>2, <4>1
    <3>5. q # p /\ q # c
      BY <2>4, <2>5, <2>14, <2>17, <3>1, <3>2, <3>3
    <3>6. Path(g, p) \subseteq Path(g, q)
      BY <2>2, <2>5, <2>8, <3>2, <3>4, <3>5, BetweenIsDeeper DEF p
    <3>7. q \in Path(g, q) /\ q \notin Path(g, p)
      <4>1. q \in Path(g, q)
        BY <2>2, <3>2, PathsOpen
      <4>2. CASE q \in Path(g, p)
        <5>1. Path(g, q) \subseteq Path(g, p)
          BY <2>2, <2>8, <4>2, PathsOpen
        <5>2. Precedes(g, q, p)
          BY <5>1 DEF Precedes
        <5>3. place(q) <= place(p)
          BY <2>3, <2>8, <3>2, <5>2
        <5>4. QED
          BY <2>14, <2>17, <3>1, <3>2, <3>3, <5>3
      <4>3. QED
        BY <4>1, <4>2
    <3>8. Cardinality(Path(g, p)) <= Cardinality(Path(g, q)) /\ Cardinality(Path(g, p)) # Cardinality(Path(g, q))
      BY <2>12, <3>2, <3>6, <3>7, FS_Subset
    <3>9. Cardinality(Path(g, c)) <= Cardinality(Path(g, q))
      BY <2>8, <2>12, <2>13, <3>2, <3>8
    <3>10. QED
      BY <2>5, <2>12, <3>1, <3>2, <3>9 DEF Depth
  <2>18. less \in SUBSET (0..k)
    BY <1>1, <2>4
  <2>19. Largest(less) \in less /\ \A j \in less : j <= Largest(less)
    BY <2>4, <2>16, <2>18, LargestOf
  <2>20. Largest(less) = m
    <3>1. m <= Largest(less) /\ ~(m < Largest(less))
      BY <2>16, <2>17, <2>19
    <3>2. m \in Nat /\ Largest(less) \in Nat
      <4>1. m \in 1..Len(out) /\ Len(out) \in Nat
        BY <2>3, <2>14
      <4>2. Largest(less) \in 0..k /\ k \in Nat
        BY <2>4, <2>18, <2>19
      <4>3. QED
        BY <4>1, <4>2
    <3>3. QED
      BY <3>1, <3>2
  <2>21. QED
    BY <2>14, <2>16, <2>20 DEF p, c
<1>2. ASSUME NEW b \in Boards, NEW r \in DOMAIN GroupThreads(BoardPosts(b)),
             NEW k \in 2..Len(TreeOrder(GroupThreads(BoardPosts(b))[r]))
      PROVE  LET g == GroupThreads(BoardPosts(b))[r]
                 out == TreeOrder(g)
                 less == {j \in 1..k-1 : Depth(g, out[j]) < Depth(g, out[k])}
             IN less # {} /\ out[Largest(less)] = Parent(out[k])
  <2>1. PICK ps : ps = BoardPosts(b)
    OBVIOUS
  <2>2. PICK g : g = GroupThreads(BoardPosts(b))[r]
    OBVIOUS
  <2>3. PICK out : out = TreeOrder(g)
    OBVIOUS
  <2>4. PICK less : less = {j \in 1..k-1 : Depth(g, out[j]) < Depth(g, out[k])}
    OBVIOUS
  <2>5. less # {} /\ out[Largest(less)] = Parent(out[k])
    <3>1. r \in DOMAIN GroupThreads(ps) /\ g = GroupThreads(ps)[r] /\ k \in 2..Len(out)
      BY <1>2, <2>1, <2>2, <2>3, Zenon
    <3>2. QED
      BY <1>1, <2>1, <2>3, <2>4, <3>1
  <2>6. QED
    BY <2>2, <2>3, <2>4, <2>5, Zenon
<1>3. ASSUME NEW b \in Boards, NEW gs \in {GroupThreads(BoardPosts(b))}, NEW r \in DOMAIN gs,
             NEW out \in {TreeOrder(gs[r])}, NEW k \in 2..Len(out)
      PROVE  LET less == {j \in 1..k-1 : Depth(gs[r], out[j]) < Depth(gs[r], out[k])} IN
             less # {} /\ out[Largest(less)] = Parent(out[k])
  <2>1. gs = GroupThreads(BoardPosts(b))
    OBVIOUS
  <2>2. out = TreeOrder(GroupThreads(BoardPosts(b))[r])
    BY <2>1
  <2>3. QED
    BY <1>2, <2>1, <2>2, Zenon
<1>4. QED
  BY <1>3, Zenon DEF IndentShowsParent

-----------------------------------------------------------------------------
(***************************************************************************)
(* Leads of sessions                                                       *)
(***************************************************************************)
\* A listing of the agents has each once.
LEMMA AgentsListed ==
  ASSUME NEW agents \in SetToSeqs(Handles)
  PROVE  /\ Cardinality(Handles) \in Nat
         /\ agents \in [1..Cardinality(Handles) -> Handles]
         /\ \A i, j \in DOMAIN agents : agents[i] = agents[j] => i = j
         /\ {agents[i] : i \in DOMAIN agents} = Handles
<1> DEFINE n == Cardinality(Handles)
<1>1. IsFiniteSet(Handles) /\ n \in Nat
  BY ThreadsAssumption, FS_CardinalityType
<1>2. agents \in [1..n -> Handles] /\ \A i, j \in 1..n : i # j => agents[i] # agents[j]
  BY DEF SetToSeqs
<1>3. IsFiniteSet(1..n) /\ Cardinality(1..n) = n
  <2>1. 1 \in Int /\ n \in Int
    BY <1>1
  <2>2. IsFiniteSet(1..n) /\ Cardinality(1..n) = IF 1 > n THEN 0 ELSE n - 1 + 1
    BY <2>1, FS_Interval
  <2>3. QED
    BY <1>1, <2>2
<1> HIDE DEF n
<1>4. agents \in Injection(1..n, Handles)
  BY <1>2 DEF Injection, IsInjective
<1>5. agents \in Surjection(1..n, Handles)
  BY <1>1, <1>3, <1>4, FS_Injection DEF n
<1>6. \A h \in Handles : \E i \in 1..n : agents[i] = h
  BY <1>5 DEF Surjection
<1>7. {agents[i] : i \in DOMAIN agents} = Handles
  BY <1>2, <1>6
<1>8. QED
  BY <1>1, <1>2, <1>7 DEF n

\* The order of the handles is one.
LEMMA HandlesInOrder == HandleOrder \in SetToSeqs(Handles)
<1> DEFINE n == Cardinality(Handles)
<1>1. \E f \in [1..n -> Handles] : IsInjective(f)
  <2>1. ExistsBijection(1..n, Handles)
    BY ThreadsAssumption, FS_CardinalityType
  <2>2. QED
    BY <2>1 DEF ExistsBijection, Bijection, Injection
<1>2. HandleOrder \in [1..n -> Handles] /\ IsInjective(HandleOrder)
  BY <1>1 DEF HandleOrder, SetToSeq
<1>3. QED
  BY <1>2 DEF SetToSeqs, IsInjective

\* One of two agents is the better lead, and the best is better than all.
LEMMA LeadsAreInOrder ==
  ASSUME NEW a \in Handles, NEW b \in Handles, NEW c \in Handles
  PROVE  /\ ~betterLead(a, a)
         /\ a # b => betterLead(a, b) \/ betterLead(b, a)
         /\ ~(betterLead(a, b) /\ betterLead(b, a))
         /\ betterLead(a, b) /\ betterLead(b, c) => betterLead(a, c)
<1> DEFINE n == Cardinality(Handles)
           order == HandleOrder
           at == [h \in Handles |-> CHOOSE k \in 1..n : order[k] = h]
<1>1. /\ n \in Nat /\ order \in [1..n -> Handles]
      /\ \A i, j \in 1..n : order[i] = order[j] => i = j
      /\ \A h \in Handles : \E k \in 1..n : order[k] = h
  BY AgentsListed, HandlesInOrder
<1>2. \A h \in Handles : at[h] \in 1..n /\ order[at[h]] = h
  BY <1>1
<1>3. ASSUME NEW x \in Handles, NEW y \in Handles
      PROVE  (\E k \in DOMAIN order : order[k] = x /\ y \notin {order[j] : j \in 1..k})
               <=> at[x] < at[y]
  <2> HIDE DEF order, at, n
  <2>1. ASSUME NEW k \in 1..n, order[k] = x
        PROVE  y \notin {order[j] : j \in 1..k} <=> k < at[y]
    <3>1. at[y] \in 1..n /\ order[at[y]] = y
      BY <1>2
    <3>2. CASE k < at[y]
      <4>1. \A j \in 1..k : order[j] # y
        BY <1>1, <2>1, <3>1, <3>2
      <4>2. QED
        BY <3>2, <4>1
    <3>3. CASE ~(k < at[y])
      <4>1. at[y] \in 1..k
        BY <1>1, <2>1, <3>1, <3>3
      <4>2. QED
        BY <3>1, <3>3, <4>1
    <3>4. QED
      BY <3>2, <3>3
  <2>2. at[x] \in 1..n /\ order[at[x]] = x /\ \A k \in 1..n : order[k] = x => k = at[x]
    BY <1>1, <1>2
  <2>3. DOMAIN order = 1..n
    BY <1>1
  <2>4. QED
    BY <2>1, <2>2, <2>3
<1>4. \A x, y \in Handles :
        betterLead(x, y) <=> IF (x \in Parented) # (y \in Parented) THEN x \notin Parented
                             ELSE IF Registered[x] # Registered[y] THEN Registered[x] < Registered[y]
                             ELSE at[x] < at[y]
  BY <1>3, Zenon DEF betterLead
<1>5. \A x \in Handles : at[x] \in Nat /\ Registered[x] \in Nat
  BY <1>1, <1>2, ThreadsAssumption
<1>6. \A x, y \in Handles : at[x] = at[y] => x = y
  BY <1>2
<1> HIDE DEF at
<1>7. QED
  BY <1>4, <1>5, <1>6

\* One agent more.
Summed(sum, a, s) ==
  IF SessionOf[a] # s THEN sum
  ELSE [lead |-> IF sum.lead = None \/ betterLead(a, sum.lead) THEN a ELSE sum.lead,
        started |-> IF sum.lead = None \/ Registered[a] < sum.started THEN Registered[a] ELSE sum.started]

\* The pass over the agents listed at the numbers in t, the last of them last.
Passes(iter, agents, s) ==
  iter = [t \in SUBSET DOMAIN agents |->
            IF t = {} THEN [lead |-> None, started |-> 0]
            ELSE Summed(iter[t \ {Max(t)}], agents[Max(t)], s)]

\* summarizeAgents is such a pass over all of them.
LEMMA SummarizeUnfolds ==
  ASSUME NEW agents, NEW s
  PROVE  summarizeAgents(agents, s) = (CHOOSE iter : Passes(iter, agents, s))[DOMAIN agents]
BY DEF summarizeAgents, FoldLeft, MapThenFoldSet, Passes, Summed

\* What the pass makes of the session's agents T: its best lead, and when the first
\* of them registered.
IsSum(sum, T) ==
  IF T = {} THEN sum = [lead |-> None, started |-> 0]
  ELSE /\ sum = [lead |-> sum.lead, started |-> sum.started]
       /\ sum.lead \in T /\ \A b \in T : b = sum.lead \/ betterLead(sum.lead, b)
       /\ sum.started \in {Registered[b] : b \in T} /\ \A b \in T : sum.started <= Registered[b]

\* There is one sum of a set of agents.
LEMMA OneSum ==
  ASSUME NEW T \in SUBSET Handles, NEW x, NEW y, IsSum(x, T), IsSum(y, T)
  PROVE  x = y
<1>1. CASE T = {}
  BY <1>1 DEF IsSum
<1>2. CASE T # {}
  <2>1. x.lead = y.lead
    BY <1>2, LeadsAreInOrder DEF IsSum
  <2>2. x.started = y.started
    <3>1. /\ x.started \in Nat /\ y.started \in Nat
          /\ x.started <= y.started /\ y.started <= x.started
      BY <1>2, ThreadsAssumption DEF IsSum
    <3>2. QED
      BY <3>1
  <2>3. QED
    BY <1>2, <2>1, <2>2 DEF IsSum
<1>3. QED
  BY <1>1, <1>2

\* One agent more makes the sum of one more.
LEMMA SumGrows ==
  ASSUME NEW T \in SUBSET Handles, NEW x, IsSum(x, T), NEW a \in Handles, NEW s
  PROVE  IsSum(Summed(x, a, s), IF SessionOf[a] = s THEN T \cup {a} ELSE T)
<1>1. CASE SessionOf[a] # s
  BY <1>1 DEF Summed
<1>2. CASE SessionOf[a] = s
  <2> DEFINE lead == IF x.lead = None \/ betterLead(a, x.lead) THEN a ELSE x.lead
             started == IF x.lead = None \/ Registered[a] < x.started THEN Registered[a] ELSE x.started
             U == T \cup {a}
  <2>1. Summed(x, a, s) = [lead |-> lead, started |-> started]
    BY <1>2 DEF Summed
  <2>2. Registered \in [Handles -> Nat]
    BY ThreadsAssumption
  <2>3. /\ lead \in U /\ \A b \in U : b = lead \/ betterLead(lead, b)
        /\ started \in {Registered[b] : b \in U} /\ \A b \in U : started <= Registered[b]
    <3>1. CASE T = {}
      <4>1. x.lead = None
        BY <3>1 DEF IsSum
      <4>2. U = {a} /\ lead = a /\ started = Registered[a]
        BY <3>1, <4>1
      <4> HIDE DEF U, lead, started
      <4>3. QED
        BY <2>2, <4>2
    <3>2. CASE T # {}
      <4>1. /\ x.lead \in T /\ \A b \in T : b = x.lead \/ betterLead(x.lead, b)
            /\ x.started \in {Registered[b] : b \in T} /\ \A b \in T : x.started <= Registered[b]
        BY <3>2 DEF IsSum
      <4>2. x.lead \in Handles /\ x.lead # None
        BY <4>1, LogAssumption
      <4>3. lead \in U /\ \A b \in U : b = lead \/ betterLead(lead, b)
        <5>1. CASE betterLead(a, x.lead)
          <6>1. lead = a
            BY <5>1
          <6>2. \A b \in T : b = a \/ betterLead(a, b)
            BY <4>1, <4>2, <5>1, LeadsAreInOrder
          <6>3. QED
            BY <6>1, <6>2
        <5>2. CASE ~betterLead(a, x.lead)
          <6>1. lead = x.lead
            BY <4>2, <5>2
          <6>2. a = x.lead \/ betterLead(x.lead, a)
            BY <4>2, <5>2, LeadsAreInOrder
          <6> HIDE DEF lead
          <6>3. QED
            BY <4>1, <6>1, <6>2
        <5>3. QED
          BY <5>1, <5>2
      <4>4. started \in {Registered[b] : b \in U} /\ \A b \in U : started <= Registered[b]
        <5>1. x.started \in Nat /\ Registered[a] \in Nat /\ \A b \in T : Registered[b] \in Nat
          BY <2>2, <4>1
        <5>2. CASE Registered[a] < x.started
          <6>1. started = Registered[a]
            BY <5>2
          <6> HIDE DEF started
          <6>2. QED
            BY <4>1, <5>1, <5>2, <6>1
        <5>3. CASE ~(Registered[a] < x.started)
          <6>1. started = x.started
            BY <4>2, <5>3
          <6> HIDE DEF started
          <6>2. QED
            BY <4>1, <5>1, <5>3, <6>1
        <5>4. QED
          BY <5>2, <5>3
      <4>5. QED
        BY <4>3, <4>4
    <3>3. QED
      BY <3>1, <3>2
  <2>4. U # {}
    OBVIOUS
  <2> HIDE DEF lead, started, U
  <2>5. IsSum([lead |-> lead, started |-> started], U)
    BY <2>3, <2>4 DEF IsSum
  <2>6. QED
    BY <1>2, <2>1, <2>5 DEF U
<1>3. QED
  BY <1>1, <1>2

\* The session's agents at the numbers in t.
Among(agents, t, s) == {a \in {agents[i] : i \in t} : SessionOf[a] = s}

\* Without the last number.
LEMMA LastApart ==
  ASSUME NEW agents \in SetToSeqs(Handles), NEW s, NEW m \in Nat,
         NEW t \in SUBSET DOMAIN agents, t \subseteq 1..m, t # {}
  PROVE  /\ Max(t) \in t /\ t \ {Max(t)} \subseteq 1..m-1 /\ m # 0
         /\ agents[Max(t)] \in Handles
         /\ Among(agents, t, s) =
              IF SessionOf[agents[Max(t)]] = s THEN Among(agents, t \ {Max(t)}, s) \cup {agents[Max(t)]}
              ELSE Among(agents, t \ {Max(t)}, s)
<1>1. Max(t) \in t /\ \A i \in t : i <= Max(t)
  <2>1. t \in SUBSET (0..m)
    OBVIOUS
  <2>2. Largest(t) \in t /\ \A i \in t : Largest(t) >= i
    BY <2>1, LargestOf
  <2>3. (CHOOSE x \in t : \A y \in t : x >= y) \in t /\ \A i \in t : (CHOOSE x \in t : \A y \in t : x >= y) >= i
    BY <2>2, Zenon
  <2>4. Max(t) \in t /\ \A i \in t : Max(t) >= i
    BY <2>3, Zenon DEF Max
  <2>5. QED
    BY <2>4
<1>2. PICK k : k = Max(t)
  OBVIOUS
<1>3. k \in t /\ k \in 1..m /\ t \ {k} \subseteq 1..m-1 /\ m # 0
  BY <1>1, <1>2
<1>4. agents[k] \in Handles
  BY <1>3, AgentsListed
<1>5. {agents[i] : i \in t} = {agents[i] : i \in t \ {k}} \cup {agents[k]}
  BY <1>3
<1>6. Among(agents, t, s) = IF SessionOf[agents[k]] = s THEN Among(agents, t \ {k}, s) \cup {agents[k]}
                            ELSE Among(agents, t \ {k}, s)
  BY <1>5 DEF Among
<1>7. QED
  BY <1>2, <1>3, <1>4, <1>6

\* The pass makes the sum of the session's agents, in whatever order they come.
LEMMA PassesSum ==
  ASSUME NEW agents \in SetToSeqs(Handles), NEW s
  PROVE  IsSum(summarizeAgents(agents, s), {a \in Handles : SessionOf[a] = s})
<1> DEFINE D == DOMAIN agents
           n == Cardinality(Handles)
           base == [lead |-> None, started |-> 0]
           A(t) == Among(agents, t, s)
           Next1(iter, t) == Summed(iter[t \ {Max(t)}], agents[Max(t)], s)
<1>1. n \in Nat /\ D = 1..n /\ \A t \in SUBSET D : A(t) \in SUBSET Handles
  BY AgentsListed DEF Among
<1>2. IsSum(base, A({}))
  BY DEF IsSum, Among
<1>3. ASSUME NEW m \in Nat, NEW t \in SUBSET D, t \subseteq 1..m, t # {}, NEW x,
             IsSum(x, A(t \ {Max(t)}))
      PROVE  IsSum(Summed(x, agents[Max(t)], s), A(t))
  <2> DEFINE a == agents[Max(t)]
             T == A(t \ {Max(t)})
  <2>1. a \in Handles /\ A(t) = IF SessionOf[a] = s THEN T \cup {a} ELSE T
    BY <1>3, LastApart
  <2>2. T \in SUBSET Handles
    BY <1>1
  <2> HIDE DEF a, T, A
  <2>3. IsSum(Summed(x, a, s), IF SessionOf[a] = s THEN T \cup {a} ELSE T)
    BY <1>3, <2>1, <2>2, SumGrows DEF T
  <2>4. QED
    BY <2>1, <2>3 DEF a
<1>4. ASSUME NEW m \in Nat, NEW t \in SUBSET D, t \subseteq 1..m, t # {}
      PROVE  t \ {Max(t)} \in SUBSET D /\ t \ {Max(t)} \subseteq 1..m-1 /\ m # 0
  BY <1>4, LastApart
<1> HIDE DEF D, base, A
<1>5. \A t \in SUBSET D : \E x : IsSum(x, A(t))
  <2> DEFINE G == {m \in 0..n : \A t \in SUBSET D : t \subseteq 1..m => \E x : IsSum(x, A(t))}
  <2>1. ASSUME NEW m \in 0..n, \A k \in 0..n : k < m => k \in G,
               NEW t \in SUBSET D, t \subseteq 1..m
        PROVE  \E x : IsSum(x, A(t))
    <3>1. CASE t = {}
      BY <1>2, <3>1
    <3>2. CASE t # {}
      <4>1. t \ {Max(t)} \in SUBSET D /\ t \ {Max(t)} \subseteq 1..m-1 /\ m # 0
        BY <1>4, <2>1, <3>2
      <4>2. m - 1 \in G
        <5>1. m - 1 \in 0..n /\ m - 1 < m
          BY <1>1, <4>1
        <5> HIDE DEF G
        <5>2. QED
          BY <2>1, <5>1
      <4>3. PICK x : IsSum(x, A(t \ {Max(t)}))
        BY <4>1, <4>2
      <4>4. IsSum(Summed(x, agents[Max(t)], s), A(t))
        <5>1. m \in Nat
          OBVIOUS
        <5> HIDE DEF G
        <5>2. QED
          BY <1>3, <2>1, <3>2, <4>3, <5>1
      <4>5. QED
        BY <4>4
    <3>3. QED
      BY <3>1, <3>2
  <2>2. 0..n \in SUBSET Nat /\ \A m \in 0..n : (\A k \in 0..n : k < m => k \in G) => m \in G
    BY <2>1
  <2> HIDE DEF G
  <2>3. 0..n \subseteq G
    BY <2>2, OldestFirst
  <2>4. n \in G
    BY <1>1, <2>3
  <2>5. QED
    BY <1>1, <2>4 DEF G
<1>6. \E iter : Passes(iter, agents, s)
  <2> DEFINE iter == [t \in SUBSET D |-> CHOOSE x : IsSum(x, A(t))]
  <2>1. \A t \in SUBSET D : IsSum(iter[t], A(t))
    BY <1>5
  <2> HIDE DEF iter
  <2>2. ASSUME NEW t \in SUBSET D
        PROVE  iter[t] = IF t = {} THEN base ELSE Next1(iter, t)
    <3>1. CASE t = {}
      BY <1>1, <1>2, <2>1, <3>1, OneSum
    <3>2. CASE t # {}
      <4>1. t \ {Max(t)} \in SUBSET D
        BY <1>1, <1>4, <3>2
      <4>2. IsSum(Next1(iter, t), A(t))
        BY <1>1, <1>3, <2>1, <3>2, <4>1
      <4>3. iter[t] = Next1(iter, t)
        BY <1>1, <2>1, <4>2, OneSum
      <4>4. QED
        BY <3>2, <4>3
    <3>3. QED
      BY <3>1, <3>2
  <2>3. iter = [t \in SUBSET D |-> iter[t]]
    BY DEF iter
  <2>4. Passes(iter, agents, s)
    <3> HIDE DEF Next1
    <3>1. iter = [t \in SUBSET D |-> IF t = {} THEN base ELSE Next1(iter, t)]
      BY <2>2, <2>3
    <3>2. QED
      BY <3>1, Zenon DEF Passes, D, base, Next1
  <2>5. QED
    BY <2>4
<1>7. PICK iter : Passes(iter, agents, s) /\ summarizeAgents(agents, s) = iter[D]
  <2>1. Passes(CHOOSE iter : Passes(iter, agents, s), agents, s)
    BY <1>6, Zenon
  <2>2. QED
    BY <2>1, SummarizeUnfolds, Zenon DEF D
<1>8. \A t \in SUBSET D : iter[t] = IF t = {} THEN base ELSE Next1(iter, t)
  <2>1. iter = [t \in SUBSET D |-> IF t = {} THEN base ELSE Next1(iter, t)]
    BY <1>7, Zenon DEF Passes, D, base
  <2> HIDE DEF Next1
  <2>2. PICK next : next = [t \in SUBSET D |-> IF t = {} THEN base ELSE Next1(iter, t)]
    OBVIOUS
  <2>3. \A t \in SUBSET D : next[t] = IF t = {} THEN base ELSE Next1(iter, t)
    BY <2>2
  <2>4. QED
    BY <2>1, <2>2, <2>3, Zenon
<1>9. IsSum(iter[D], A(D))
  <2> DEFINE G == {m \in 0..n : \A t \in SUBSET D : t \subseteq 1..m => IsSum(iter[t], A(t))}
  <2>1. ASSUME NEW m \in 0..n, \A k \in 0..n : k < m => k \in G,
               NEW t \in SUBSET D, t \subseteq 1..m
        PROVE  IsSum(iter[t], A(t))
    <3>1. CASE t = {}
      BY <1>2, <1>8, <3>1
    <3>2. CASE t # {}
      <4>1. t \ {Max(t)} \in SUBSET D /\ t \ {Max(t)} \subseteq 1..m-1 /\ m # 0
        BY <1>4, <2>1, <3>2
      <4>2. m - 1 \in G
        <5>1. m - 1 \in 0..n /\ m - 1 < m
          BY <1>1, <4>1
        <5> HIDE DEF G
        <5>2. QED
          BY <2>1, <5>1
      <4>3. IsSum(iter[t \ {Max(t)}], A(t \ {Max(t)}))
        BY <4>1, <4>2
      <4>4. IsSum(Next1(iter, t), A(t))
        <5>1. m \in Nat
          OBVIOUS
        <5> HIDE DEF Next1, G
        <5>2. QED
          BY <1>3, <2>1, <3>2, <4>3, <5>1 DEF Next1
      <4>5. QED
        BY <1>8, <3>2, <4>4
    <3>3. QED
      BY <3>1, <3>2
  <2>2. 0..n \in SUBSET Nat /\ \A m \in 0..n : (\A k \in 0..n : k < m => k \in G) => m \in G
    BY <2>1
  <2> HIDE DEF G
  <2>3. 0..n \subseteq G
    BY <2>2, OldestFirst
  <2>4. n \in G
    BY <1>1, <2>3
  <2>5. QED
    BY <1>1, <2>4 DEF G
<1>10. A(D) = {a \in Handles : SessionOf[a] = s}
  <2>1. {agents[i] : i \in D} = Handles
    BY AgentsListed DEF D
  <2>2. QED
    BY <2>1 DEF A, Among
<1>11. QED
  BY <1>7, <1>9, <1>10

\* Two listings of one session show one lead.
LEMMA LeadsDoAgree == LeadsAgree
<1>1. ASSUME NEW agents \in SetToSeqs(Handles), NEW s
      PROVE  summarizeAgents(agents, s) = summarizeAgents(HandleOrder, s)
  <2> DEFINE T == {a \in Handles : SessionOf[a] = s}
  <2>1. IsSum(summarizeAgents(agents, s), T) /\ IsSum(summarizeAgents(HandleOrder, s), T)
    BY HandlesInOrder, PassesSum
  <2>2. T \in SUBSET Handles
    OBVIOUS
  <2> HIDE DEF T
  <2>3. QED
    BY <2>1, <2>2, OneSum
<1>2. QED
  BY <1>1 DEF LeadsAgree

-----------------------------------------------------------------------------
(***************************************************************************)
(* The inductive invariant                                                 *)
(***************************************************************************)
\* A load asks for a board that exists; the rows it has read make a listing.
LoadOK(l) ==
  /\ l = [kind |-> l.kind, board |-> l.board, session |-> l.session, read |-> l.read,
          rows |-> l.rows, groups |-> l.groups]
  /\ l.kind \in {"boards", "board", "sessions"}
  /\ l.kind # "boards" => l.board \in Boards
  /\ l.kind = "board" /\ l.read => Listing(l.rows, l.groups)

LoadsOK ==
  /\ loads = [k \in Slots |-> loads[k]]
  /\ \A k \in Slots : loads[k] = NoLoad \/ LoadOK(loads[k])

\* What the lists show; nothing before a board is open.
ListOK ==
  /\ Listing(summaries, groups)
  /\ board = None => Len(summaries) = 0

\* A refresh since which nothing was switched asks for what is shown.
InPlaceOK ==
  /\ inPlace \subseteq Slots
  /\ \A k \in inPlace :
       /\ loads[k] # NoLoad
       /\ loads[k].kind = "board" =>
            /\ loads[k].board = board /\ loads[k].session = session
            /\ view \in {"threads", "detail"}

IInv == TypeOK /\ WindowHolds /\ ListOK /\ LoadsOK /\ InPlaceOK /\ ParentsFit

-----------------------------------------------------------------------------
(***************************************************************************)
(* Loads                                                                   *)
(***************************************************************************)
\* A command goes off into a free slot.
LEMMA SendTakesOne ==
  ASSUME NEW l, Send(l)
  PROVE  \E k \in Slots : loads[k] = NoLoad /\ loads' = [loads EXCEPT ![k] = l]
<1> DEFINE free == {k \in Slots : loads[k] = NoLoad}
           first == CHOOSE k \in free : \A j \in free : k <= j
<1>1. free # {} /\ loads' = [loads EXCEPT ![first] = l]
  BY DEF Send
<1>2. free \in SUBSET Nat
  BY TuiAssumption DEF Slots
<1>3. \E k \in free : \A j \in free : k <= j
  <2> HIDE DEF free
  <2>1. QED
    BY <1>1, <1>2, SmallestOf
<1>4. first \in free
  <2> HIDE DEF free
  <2>1. QED
    BY <1>3
<1> HIDE DEF first
<1>5. QED
  BY <1>1, <1>4

\* What is asked for before it is read.
LEMMA Requests ==
  /\ LoadOK(loadBoards)
  /\ \A b \in Boards : /\ LoadOK(loadBoard(b)) /\ LoadOK(loadSessions(b))
                       /\ \A s : LoadOK(loadBoardBySession(b, s))
BY DEF LoadOK, loadBoards, loadBoard, loadBoardBySession, loadSessions, Load

\* A load is not NoLoad.
LEMMA LoadsAreLoads ==
  ASSUME NEW l, LoadOK(l)
  PROVE  l # NoLoad
BY TuiAssumption DEF LoadOK, NoLoad

\* A query of a board finds posts of it.
LEMMA QueriesFindPosts ==
  ASSUME NEW b, NEW s
  PROVE  BoardPosts(b) \subseteq DOMAIN posts /\ BoardPostsBySession(b, s) \subseteq DOMAIN posts
BY DEF BoardPosts, BoardPostsBySession

\* Reading fills a load in and keeps what it asks for.
LEMMA ReadFills ==
  ASSUME LogTypeOK, LoadsOK, NEW k \in Slots, Read(k)
  PROVE  /\ loads' = [loads EXCEPT ![k] = loads'[k]]
         /\ loads[k] # NoLoad /\ LoadOK(loads'[k])
         /\ loads'[k].kind = loads[k].kind /\ loads'[k].board = loads[k].board
         /\ loads'[k].session = loads[k].session
<1> DEFINE l == loads[k]
<1>1. l.kind \in {"board", "sessions"} /\ l # NoLoad
  BY TuiAssumption DEF Read, NoLoad
<1>2. LoadOK(l)
  BY <1>1 DEF LoadsOK
<1>3. /\ loads' = [loads EXCEPT ![k] = IF l.kind = "board" THEN BoardRows(l) ELSE SessionRows(l)]
      /\ loads'[k] = IF l.kind = "board" THEN BoardRows(l) ELSE SessionRows(l)
  BY DEF Read, LoadsOK
<1>4. CASE l.kind = "board"
  <2> DEFINE ps == IF l.session = None THEN BoardPosts(l.board) ELSE BoardPostsBySession(l.board, l.session)
  <2>1. ps \in SUBSET DOMAIN posts
    BY QueriesFindPosts
  <2> HIDE DEF ps
  <2>2. Listing(ThreadSummaries(ps), GroupThreads(ps))
    BY <2>1, RowsOpen
  <2> DEFINE rows == ThreadSummaries(ps)
             gs == GroupThreads(ps)
  <2>3. BoardRows(l) = [l EXCEPT !.read = TRUE, !.rows = rows, !.groups = gs]
    BY DEF BoardRows, ps
  <2> HIDE DEF rows, gs, l
  <2>4. BoardRows(l) = [kind |-> l.kind, board |-> l.board, session |-> l.session, read |-> TRUE,
                        rows |-> rows, groups |-> gs]
    BY <1>2, <2>3 DEF LoadOK
  <2>5. loads'[k] = BoardRows(l) /\ loads' = [loads EXCEPT ![k] = loads'[k]]
    BY <1>3, <1>4 DEF l
  <2>6. Listing(rows, gs)
    BY <2>2 DEF rows, gs
  <2>7. /\ LoadOK(BoardRows(l))
        /\ BoardRows(l).kind = l.kind /\ BoardRows(l).board = l.board /\ BoardRows(l).session = l.session
    BY <1>2, <1>4, <2>4, <2>6 DEF LoadOK
  <2>8. QED
    BY <1>1, <2>5, <2>7 DEF l
<1>5. CASE l.kind # "board"
  <2> DEFINE rows == ListSessions(l.board)
  <2>1. SessionRows(l) = [l EXCEPT !.read = TRUE, !.rows = rows]
    BY DEF SessionRows
  <2> HIDE DEF rows, l
  <2>2. SessionRows(l) = [kind |-> l.kind, board |-> l.board, session |-> l.session, read |-> TRUE,
                          rows |-> rows, groups |-> l.groups]
    BY <1>2, <2>1 DEF LoadOK
  <2>3. loads'[k] = SessionRows(l) /\ loads' = [loads EXCEPT ![k] = loads'[k]]
    BY <1>3, <1>5 DEF l
  <2>4. /\ LoadOK(SessionRows(l))
        /\ SessionRows(l).kind = l.kind /\ SessionRows(l).board = l.board /\ SessionRows(l).session = l.session
    BY <1>2, <1>5, <2>2 DEF LoadOK
  <2>5. QED
    BY <1>1, <2>3, <2>4 DEF l
<1>6. QED
  BY <1>4, <1>5

\* A step answers loads, sends one, or fills one in.
LEMMA LoadsMove ==
  ASSUME IInv, Next
  PROVE  /\ loads' = [k \in Slots |-> loads'[k]]
         /\ \A k \in Slots :
              \/ loads'[k] = loads[k]
              \/ loads'[k] = NoLoad
              \/ loads[k] = NoLoad /\ LoadOK(loads'[k])
              \/ /\ loads[k] # NoLoad /\ LoadOK(loads'[k])
                 /\ loads'[k].kind = loads[k].kind /\ loads'[k].board = loads[k].board
                 /\ loads'[k].session = loads[k].session
<1> DEFINE Goal == /\ loads' = [k \in Slots |-> loads'[k]]
                   /\ \A k \in Slots :
                        \/ loads'[k] = loads[k]
                        \/ loads'[k] = NoLoad
                        \/ loads[k] = NoLoad /\ LoadOK(loads'[k])
                        \/ /\ loads[k] # NoLoad /\ LoadOK(loads'[k])
                           /\ loads'[k].kind = loads[k].kind /\ loads'[k].board = loads[k].board
                           /\ loads'[k].session = loads[k].session
<1> SUFFICES Goal
  OBVIOUS
<1>1. /\ LogTypeOK /\ LoadsOK /\ loads = [k \in Slots |-> loads[k]]
      /\ board \in Boards \cup {None} /\ (session # None => board # None)
  BY DEF IInv, TypeOK, LoadsOK
<1>2. ASSUME NEW l, LoadOK(l), Send(l)
      PROVE  Goal
  <2>1. PICK k \in Slots : loads[k] = NoLoad /\ loads' = [loads EXCEPT ![k] = l]
    BY <1>2, SendTakesOne
  <2>2. QED
    BY <1>1, <1>2, <2>1
<1>3. ASSUME NEW k \in Slots, loads' = [loads EXCEPT ![k] = NoLoad]
      PROVE  Goal
  BY <1>1, <1>3
<1>4. CASE UNCHANGED loads
  BY <1>1, <1>4
<1>5. ASSUME NEW k \in Slots, Read(k)
      PROVE  Goal
  <2>1. /\ loads' = [loads EXCEPT ![k] = loads'[k]]
        /\ loads[k] # NoLoad /\ LoadOK(loads'[k])
        /\ loads'[k].kind = loads[k].kind /\ loads'[k].board = loads[k].board
        /\ loads'[k].session = loads[k].session
    BY <1>1, <1>5, ReadFills
  <2>2. \A j \in Slots : j # k => loads'[j] = loads[j]
    BY <1>1, <2>1
  <2>3. loads' = [j \in Slots |-> loads'[j]]
    BY <1>1, <2>1
  <2>4. QED
    BY <2>1, <2>2, <2>3
<1>6. CASE Refresh
  <2>1. LoadOK(refresh)
    BY <1>1, Requests DEF refresh, loadBoardScoped
  <2>2. QED
    BY <1>2, <1>6, <2>1 DEF Refresh
<1>7. CASE Key
  <2> HIDE DEF Goal
  <2>1. CASE KeyB \/ KeyS \/ EscList
    <3>1. LoadOK(loadBoards)
      BY Requests
    <3>2. board # None => LoadOK(loadSessions(board)) /\ LoadOK(loadBoard(board))
      BY <1>1, Requests
    <3>3. KeyB => Send(loadBoards)
      BY DEF KeyB
    <3>4. KeyS => board # None /\ Send(loadSessions(board))
      BY DEF KeyS
    <3>5. EscList => (board # None /\ Send(loadBoard(board))) \/ Send(loadBoards)
      BY <1>1 DEF EscList
    <3>6. QED
      BY <1>2, <2>1, <3>1, <3>2, <3>3, <3>4, <3>5
  <2>2. ASSUME NEW b \in Boards, PickBoard(b)
        PROVE  Goal
    BY <1>2, <2>2, Requests DEF PickBoard
  <2>3. ASSUME NEW s, PickSession(s)
        PROVE  Goal
    <3>1. board \in Boards
      BY <1>1, <2>3 DEF PickSession
    <3>2. LoadOK(loadBoard(board)) /\ LoadOK(loadBoardBySession(board, s))
      BY <3>1, Requests
    <3>3. Send(loadBoard(board)) \/ Send(loadBoardBySession(board, s))
      BY <2>3 DEF PickSession
    <3>4. QED
      BY <1>2, <3>2, <3>3
  <2>4. CASE KeyMove \/ OpenThread \/ EscDetail
    BY <1>4, <2>4 DEF KeyMove, OpenThread, EscDetail
  <2>5. QED
    BY <1>7, <2>1, <2>2, <2>3, <2>4 DEF Key
<1>8. ASSUME NEW k \in Slots, BoardsMsg(k) \/ SessionsMsg(k) \/ BoardMsg(k) \/ ErrMsg(k)
      PROVE  Goal
  <2>1. loads' = [loads EXCEPT ![k] = NoLoad]
    BY <1>8 DEF BoardsMsg, SessionsMsg, BoardMsg, ErrMsg, Arrive
  <2> HIDE DEF Goal
  <2>2. QED
    BY <1>3, <2>1
<1>9. CASE Write \/ \E h \in Heights : WindowSizeMsg(h)
  BY <1>4, <1>9 DEF Write, WindowSizeMsg
<1>10. QED
  BY <1>5, <1>6, <1>7, <1>8, <1>9 DEF Next

\* Every load stays one of a board that exists, with a listing once it is read.
LEMMA LoadsStep ==
  ASSUME IInv, [Next]_vars
  PROVE  LoadsOK'
<1>1. CASE Next
  <2>1. \A k \in Slots : loads[k] = NoLoad \/ LoadOK(loads[k])
    BY DEF IInv, LoadsOK
  <2>2. \A k \in Slots : loads'[k] = NoLoad \/ LoadOK(loads'[k])
    BY <1>1, <2>1, LoadsMove
  <2>3. QED
    BY <1>1, <2>2, LoadsMove DEF LoadsOK
<1>2. CASE UNCHANGED vars
  BY <1>2 DEF vars, IInv, LoadsOK
<1>3. QED
  BY <1>1, <1>2

-----------------------------------------------------------------------------
(***************************************************************************)
(* Refreshes                                                               *)
(***************************************************************************)
\* A refresh that was sent asks for what is shown, and nothing that is not switched
\* makes it ask for anything else.
LEMMA InPlaceStep ==
  ASSUME IInv, [Next]_vars
  PROVE  InPlaceOK'
<1>1. /\ InPlaceOK /\ LoadsOK /\ \A k \in Slots : loads[k] = NoLoad \/ LoadOK(loads[k])
      /\ view \in {"boards", "threads", "detail", "sessions"} /\ board \in Boards \cup {None}
  BY DEF IInv, LoadsOK, TypeOK
<1>2. CASE Refresh /\ inPlace' = inPlace \cup Sent
  <2>1. PICK k \in Slots : loads[k] = NoLoad /\ loads' = [loads EXCEPT ![k] = refresh]
    BY <1>2, SendTakesOne DEF Refresh
  <2>2. /\ loads'[k] = refresh /\ \A j \in Slots : j # k => loads'[j] = loads[j]
        /\ Sent \subseteq {k} /\ k \notin inPlace
    BY <1>1, <2>1 DEF LoadsOK, InPlaceOK, Sent
  <2>3. UNCHANGED <<board, session, view>>
    BY <1>2 DEF Refresh, uiVars, scopeVars
  <2>4. LoadOK(refresh) /\ refresh # NoLoad
    BY <1>1, Requests, LoadsAreLoads DEF refresh, loadBoardScoped
  <2>5. refresh.kind = "board" =>
          refresh.board = board /\ refresh.session = session /\ view \in {"threads", "detail"}
    BY <1>1 DEF refresh, loadBoardScoped, loadBoards, loadBoard, loadBoardBySession, loadSessions, Load
  <2> HIDE DEF refresh
  <2>6. ASSUME NEW j \in inPlace'
        PROVE  /\ j \in Slots /\ loads'[j] # NoLoad
               /\ loads'[j].kind = "board" =>
                    /\ loads'[j].board = board' /\ loads'[j].session = session'
                    /\ view' \in {"threads", "detail"}
    <3>1. j = k \/ (j \in inPlace /\ j # k)
      BY <1>2, <2>2, <2>6
    <3>2. QED
      BY <1>1, <2>2, <2>3, <2>4, <2>5, <3>1 DEF InPlaceOK
  <2>7. QED
    BY <2>6 DEF InPlaceOK
<1>3. CASE Next /\ inPlace' = IF Switched THEN {} ELSE inPlace \ Answered
  <2>1. CASE Switched
    BY <1>3, <2>1 DEF InPlaceOK
  <2>2. CASE ~Switched
    <3>1. UNCHANGED <<board, session, view>> /\ inPlace' = inPlace \ Answered
      BY <1>3, <2>2 DEF Switched
    <3>2. ASSUME NEW j \in inPlace'
          PROVE  /\ j \in Slots /\ loads'[j] # NoLoad
                 /\ loads'[j].kind = "board" =>
                      /\ loads'[j].board = board' /\ loads'[j].session = session'
                      /\ view' \in {"threads", "detail"}
      <4>1. j \in inPlace /\ j \in Slots /\ loads[j] # NoLoad /\ loads'[j] # NoLoad
        BY <1>1, <3>1, <3>2 DEF InPlaceOK, Answered
      <4>2. \/ loads'[j] = loads[j]
            \/ /\ loads'[j].kind = loads[j].kind /\ loads'[j].board = loads[j].board
               /\ loads'[j].session = loads[j].session
        BY <1>3, <4>1, LoadsMove
      <4>3. QED
        BY <1>1, <3>1, <4>1, <4>2 DEF InPlaceOK
    <3>3. QED
      BY <3>2 DEF InPlaceOK
  <2>3. QED
    BY <2>1, <2>2
<1>4. CASE UNCHANGED vars
  BY <1>1, <1>4 DEF InPlaceOK, vars, uiVars, scopeVars
<1>5. QED
  BY <1>2, <1>3, <1>4 DEF Next

-----------------------------------------------------------------------------
(***************************************************************************)
(* The screen                                                              *)
(***************************************************************************)
\* The window and what it is of: the invariants, but for the posts and the loads.
ScreenOK ==
  /\ view \in {"boards", "threads", "detail", "sessions"} /\ visible \in Nat \ {0}
  /\ board \in Boards \cup {None}
  /\ view \in {"detail", "sessions"} => board # None
  /\ view = "detail" => detailRoot \in DOMAIN groups
  /\ session # None => board # None
  /\ cursor \in Nat /\ offset \in Nat
  /\ WindowHolds /\ ListOK

\* It is what the invariants say.
LEMMA ScreenInParts == TypeOK /\ WindowHolds /\ ListOK <=> LogTypeOK /\ ScreenOK
BY DEF TypeOK, ScreenOK, ListOK, Listing

\* The lists stay as they are: a view that shows them is of them.
LEMMA SameLists ==
  ASSUME ScreenOK, UNCHANGED <<scopeVars, listVars>>,
         view' \in {"boards", "threads", "detail", "sessions"}, visible' \in Nat \ {0},
         view' \in {"detail", "sessions"} => board # None,
         view' = "detail" => view = "detail" /\ detailRoot' = detailRoot
  PROVE  ScreenOK'
BY DEF ScreenOK, ListOK, WindowHolds, scopeVars, listVars

\* Clamp leaves the cursor on a row of the shorter list, and a row to draw.
LEMMA ClampFits ==
  ASSUME NEW n \in Nat, visible \in Nat \ {0}, cursor \in Nat, offset \in Nat, offset <= cursor,
         Clamp(n)
  PROVE  /\ cursor' \in Nat /\ offset' \in Nat /\ offset' <= cursor'
         /\ cursor' < n \/ cursor' = 0
         /\ offset' < n \/ offset' = 0
BY DEF Clamp, AtLeast0, LeastOf

\* Scroll keeps the window at or above the cursor.
LEMMA ScrollFits ==
  ASSUME NEW c \in Nat, visible \in Nat \ {0}, offset \in Nat, Scroll(c)
  PROVE  cursor' = c /\ offset' \in Nat /\ offset' <= c
BY DEF Scroll

\* Every step keeps the screen in order.
LEMMA ScreenStep ==
  ASSUME IInv, [Next]_vars
  PROVE  ScreenOK'
<1>1. ScreenOK /\ LoadsOK
  BY ScreenInParts DEF IInv
<1>2. /\ view \in {"boards", "threads", "detail", "sessions"} /\ visible \in Nat \ {0}
      /\ board \in Boards \cup {None} /\ None \notin Boards
      /\ view \in {"detail", "sessions"} => board # None
      /\ session # None => board # None
      /\ cursor \in Nat /\ offset \in Nat
      /\ view = "detail" => detailRoot \in DOMAIN groups
      /\ Listing(summaries, groups) /\ (board = None => Len(summaries) = 0)
      /\ offset <= cursor /\ (cursor < Len(summaries) \/ cursor = 0)
  BY <1>1, TuiAssumption DEF ScreenOK, ListOK, WindowHolds
<1>3. ASSUME UNCHANGED <<view, visible, scopeVars, listVars, detailRoot>>
      PROVE  ScreenOK'
  BY <1>1, <1>2, <1>3, SameLists
<1>4. CASE KeyB \/ KeyS \/ EscList \/ EscDetail
  <2>1. UNCHANGED <<visible, scopeVars, listVars>>
    BY <1>4 DEF KeyB, KeyS, EscList, EscDetail
  <2>2. /\ view' \in {"boards", "threads", "sessions"} /\ (view' = "sessions" => board # None)
    BY <1>4 DEF KeyB, KeyS, EscList, EscDetail, Leave
  <2>3. QED
    BY <1>1, <1>2, <2>1, <2>2, SameLists
<1>5. ASSUME NEW s, PickSession(s)
      PROVE  ScreenOK'
  <2>1. UNCHANGED <<visible, scopeVars, listVars>> /\ view' = "threads"
    BY <1>5 DEF PickSession
  <2>2. QED
    BY <1>1, <1>2, <2>1, SameLists
<1>6. ASSUME NEW h \in Heights, WindowSizeMsg(h)
      PROVE  ScreenOK'
  <2>1. visible' \in Nat \ {0}
    BY <1>6, TuiAssumption DEF WindowSizeMsg, contentHeight, chromeLines
  <2>2. UNCHANGED <<view, scopeVars, listVars, detailRoot>>
    BY <1>6 DEF WindowSizeMsg
  <2>3. QED
    BY <1>1, <1>2, <2>1, <2>2, SameLists
<1>7. ASSUME \/ Refresh \/ Write \/ \E b \in Boards : PickBoard(b)
             \/ \E k \in Slots : Read(k) \/ BoardsMsg(k) \/ SessionsMsg(k) \/ ErrMsg(k)
             \/ UNCHANGED vars
      PROVE  ScreenOK'
  <2>1. UNCHANGED <<view, visible, scopeVars, listVars, detailRoot>>
    BY <1>7 DEF Refresh, Write, PickBoard, Read, BoardsMsg, SessionsMsg, ErrMsg, vars, uiVars
  <2>2. QED
    BY <1>3, <2>1
<1>8. CASE KeyMove
  <2>1. PICK c \in Nat : Scroll(c) /\ c < Len(summaries)
    <3>1. Len(summaries) \in Nat
      BY <1>2 DEF Listing
    <3>2. cursor + 1 \in Nat /\ (cursor > 0 => cursor - 1 \in Nat /\ cursor - 1 < Len(summaries))
      BY <1>2, <3>1
    <3>3. QED
      BY <1>8, <3>2 DEF KeyMove
  <2>2. cursor' = c /\ offset' \in Nat /\ offset' <= c
    BY <1>2, <2>1, ScrollFits
  <2>3. view = "threads" /\ UNCHANGED <<view, visible, scopeVars, detailRoot>>
    BY <1>8 DEF KeyMove
  <2>4. Len(summaries) \in Nat
    BY <1>2 DEF Listing
  <2>5. QED
    BY <1>1, <2>1, <2>2, <2>3, <2>4 DEF ScreenOK, ListOK, WindowHolds, scopeVars
<1>9. CASE OpenThread
  <2>1. /\ cursor < Len(summaries) /\ detailRoot' \in DOMAIN groups /\ view' = "detail"
        /\ UNCHANGED <<visible, scopeVars>>
    BY <1>9 DEF OpenThread
  <2>2. cursor' = cursor /\ offset' \in Nat /\ offset' <= cursor
    BY <1>2, <1>9, ScrollFits DEF OpenThread
  <2>3. board # None /\ Len(summaries) \in Nat
    BY <1>2, <2>1 DEF Listing
  <2>4. QED
    BY <1>1, <2>1, <2>2, <2>3 DEF ScreenOK, ListOK, WindowHolds, scopeVars
<1>10. ASSUME NEW k \in Slots, BoardMsg(k)
       PROVE  ScreenOK'
  <2> DEFINE msg == loads[k]
  <2>1. msg.kind = "board" /\ msg.read
    BY <1>10 DEF BoardMsg, Arrive
  <2>2. LoadOK(msg)
    BY <1>1, <2>1, TuiAssumption DEF LoadsOK, NoLoad
  <2>3. msg.board \in Boards /\ Listing(msg.rows, msg.groups)
    BY <2>1, <2>2 DEF LoadOK
  <2>4. /\ board' = msg.board /\ session' = msg.session
        /\ summaries' = msg.rows /\ groups' = msg.groups /\ visible' = visible
    BY <1>10 DEF BoardMsg
  <2>5. /\ cursor' \in Nat /\ offset' \in Nat /\ offset' <= cursor'
        /\ cursor' < Len(msg.rows) \/ cursor' = 0
        /\ offset' < Len(msg.rows) \/ offset' = 0
    <3>1. Clamp(Len(msg.rows)) \/ Top
      BY <1>10 DEF BoardMsg
    <3>2. Len(msg.rows) \in Nat
      BY <2>3 DEF Listing
    <3>3. CASE Clamp(Len(msg.rows))
      BY <1>2, <3>2, <3>3, ClampFits
    <3>4. CASE Top
      BY <3>4 DEF Top
    <3>5. QED
      BY <3>1, <3>3, <3>4
  <2>6. view' = "threads" \/ (view' = "detail" /\ detailRoot' \in DOMAIN msg.groups)
    BY <1>10 DEF BoardMsg, StaysOpen, Leave
  <2> HIDE DEF msg
  <2>7. QED
    BY <1>2, <2>3, <2>4, <2>5, <2>6 DEF ScreenOK, ListOK, WindowHolds
<1>11. QED
  BY <1>4, <1>5, <1>6, <1>7, <1>8, <1>9, <1>10 DEF Next, Key

-----------------------------------------------------------------------------
(***************************************************************************)
(* The theorems                                                            *)
(***************************************************************************)
\* Others write as the log allows, and the UI does not write.
LEMMA TableStep ==
  ASSUME Fits, [Next]_vars
  PROVE  Fits'
<1> USE DEF Fits
<1>1. CASE Write
  <2>1. \A j \in DOMAIN posts : j \in 0..seq
    BY DEF LogTypeOK
  <2>2. ASSUME NEW b \in Boards, NEW h \in Handles, NEW d \in Drafts,
               NEW i \in {0} \cup {j \in DOMAIN posts : posts[j].board = b}, AppendPost(b, h, d, i)
        PROVE  LogNext
    BY <2>1, <2>2 DEF LogNext, LogTypeOK
  <2>3. ASSUME NEW i \in DOMAIN posts, Tombstone(i) \/ Erase({i})
        PROVE  LogNext
    BY <2>3 DEF LogNext
  <2>4. LogNext
    BY <1>1, <2>2, <2>3 DEF Write
  <2>5. QED
    BY <2>4, LogTypeStep, ParentsFitStep
<1>2. CASE UNCHANGED logVars
  BY <1>2, LogTypeStep, ParentsFitStep
<1>3. Write \/ UNCHANGED logVars
  BY DEF Next, Refresh, Key, KeyB, KeyMove, OpenThread, KeyS, EscList, EscDetail, PickBoard, PickSession,
     WindowSizeMsg, Read, BoardsMsg, SessionsMsg, BoardMsg, ErrMsg, Arrive, storeVars, vars
<1>4. QED
  BY <1>1, <1>2, <1>3

\* The inductive invariant holds in the initial states, whatever the database holds
\* and whether or not a board is named.
LEMMA IInvInit == Init => IInv
<1> SUFFICES ASSUME Init
             PROVE  IInv
  OBVIOUS
<1>1. LogTypeOK
  <2>1. /\ IsFiniteSet(DOMAIN posts) /\ DOMAIN posts \subseteq Nat \ {0}
        /\ posts \in [DOMAIN posts -> Post] /\ seq = Largest(DOMAIN posts)
    BY TuiAssumption DEF Init, MaxPostID
  <2>2. CASE DOMAIN posts = {}
    BY <2>1, <2>2 DEF LogTypeOK, Largest
  <2>3. CASE DOMAIN posts # {}
    <3>1. seq \in DOMAIN posts /\ \A j \in DOMAIN posts : j <= seq
      BY <2>1, <2>3, LargestOfFinite
    <3>2. QED
      BY <2>1, <3>1 DEF LogTypeOK
  <2>4. QED
    BY <2>2, <2>3
<1>2. ScreenOK
  <2>1. visible \in Nat \ {0}
    BY DEF Init, contentHeight, chromeLines
  <2>2. summaries = <<>> /\ Len(summaries) = 0 /\ DOMAIN summaries = {}
    BY DEF Init
  <2>3. Listing(summaries, groups)
    BY <2>2 DEF Listing
  <2>4. /\ board \in Boards \cup {None} /\ view = IF board = None THEN "boards" ELSE "threads"
        /\ session = None
    BY TuiAssumption DEF Init
  <2>5. cursor = 0 /\ offset = 0
    BY DEF Init
  <2>6. QED
    BY <2>1, <2>2, <2>3, <2>4, <2>5 DEF ScreenOK, ListOK, WindowHolds
<1>3. LoadsOK
  <2>1. board \in Boards \cup {None}
    BY TuiAssumption DEF Init
  <2>2. ASSUME NEW k \in Slots
        PROVE  loads[k] = NoLoad \/ LoadOK(loads[k])
    BY <2>1, Requests DEF Init
  <2>3. loads = [k \in Slots |-> loads[k]]
    BY DEF Init
  <2>4. QED
    BY <2>2, <2>3 DEF LoadsOK
<1>4. InPlaceOK
  BY DEF Init, InPlaceOK
<1>5. ParentsFit
  BY TuiAssumption DEF Init, ParentsFit
<1>6. QED
  BY <1>1, <1>2, <1>3, <1>4, <1>5, ScreenInParts DEF IInv

\* Every step keeps the inductive invariant.
LEMMA IInvStep == IInv /\ [Next]_vars => IInv'
<1> SUFFICES ASSUME IInv, [Next]_vars
             PROVE  IInv'
  OBVIOUS
<1>1. LogTypeOK' /\ ParentsFit' /\ ScreenOK'
  BY TableStep, ScreenStep DEF IInv, TypeOK, Fits
<1>2. (TypeOK /\ WindowHolds /\ ListOK)'
  BY <1>1 DEF TypeOK, ScreenOK, ListOK, Listing
<1>3. QED
  BY <1>1, <1>2, LoadsStep, InPlaceStep DEF IInv

\* The screen, the lists behind it and the loads under way fit together.
THEOREM Invariance == Spec => []IInv
BY IInvInit, IInvStep, PTL DEF Spec

\* Every variable keeps its type; what a view shows is there, and every row opens,
\* whichever answer replaced the list last.
THEOREM TypeCorrect == Spec => []TypeOK
<1>1. IInv => TypeOK
  BY DEF IInv
<1>2. QED
  BY <1>1, Invariance, PTL

\* A row is drawn if there is one, the cursor is on a row, and it is not above the
\* window, for any heights and any answers in any order.
THEOREM SomeRowIsDrawn == Spec => []WindowHolds
<1>1. IInv => WindowHolds
  BY DEF IInv
<1>2. QED
  BY <1>1, Invariance, PTL

\* The answer to a refresh, with nothing switched since it was sent, changes neither
\* the board nor the filter, nor the view but for a thread that has vanished.
THEOREM RefreshesStayInPlace == Spec => RefreshInPlace
<1> DEFINE Stays == \A k \in Slots :
                      (BoardsMsg(k) \/ SessionsMsg(k) \/ BoardMsg(k)) /\ k \in inPlace
                      => /\ <<board', session'>> = <<board, session>>
                         /\ view' # view => view = "detail" /\ view' = "threads"
                                            /\ detailRoot \notin DOMAIN groups'
<1>1. IInv => Stays
  <2> SUFFICES ASSUME IInv, NEW k \in Slots, k \in inPlace,
                      BoardsMsg(k) \/ SessionsMsg(k) \/ BoardMsg(k)
               PROVE  /\ <<board', session'>> = <<board, session>>
                      /\ view' # view => view = "detail" /\ view' = "threads"
                                         /\ detailRoot \notin DOMAIN groups'
    OBVIOUS
  <2>1. CASE BoardsMsg(k) \/ SessionsMsg(k)
    BY <2>1 DEF BoardsMsg, SessionsMsg, scopeVars
  <2>2. CASE BoardMsg(k)
    <3>1. loads[k].kind = "board"
      BY <2>2 DEF BoardMsg, Arrive
    <3>2. loads[k].board = board /\ loads[k].session = session /\ view \in {"threads", "detail"}
      BY <3>1 DEF IInv, InPlaceOK
    <3>3. QED
      BY <2>2, <3>2 DEF BoardMsg, StaysOpen, Leave
  <2>3. QED
    BY <2>1, <2>2
<1>2. QED
  BY <1>1, Invariance, PTL DEF RefreshInPlace

\* What a load reads is right, of any posts, however others write meanwhile: no
\* listing drops or invents a post and all agree on what a thread is, the indentation
\* of a reply shows its parent, and a session's lead does not depend on the order its
\* agents are listed in.
THEOREM ListingsAreRight == Spec => ListingsHold
<1> DEFINE Right == (\E k \in Slots : Read(k)) => ListingsAgree /\ IndentShowsParent /\ LeadsAgree
<1>1. IInv => Right
  BY ListingsDoAgree, IndentDoesShowParent, LeadsDoAgree DEF IInv, TypeOK, Fits
<1>2. IInv /\ [Next]_vars => [Right]_vars
  BY <1>1
<1>3. ListingsHold <=> [][Right]_vars
  BY DEF ListingsHold
<1> HIDE DEF Right
<1>4. QED
  BY <1>2, <1>3, Invariance, PTL DEF Spec
=============================================================================
