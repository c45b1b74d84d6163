----------------------------- MODULE WebProofs ------------------------------
(***************************************************************************)
(* Proofs about the web page's store, for any boards, posts, views and     *)
(* requests under way: whatever is answered late or not at all, a draft    *)
(* stays with the thread it was written under, no older answer replaces a  *)
(* newer one, and no ask is notified twice.                                *)
(***************************************************************************)
EXTENDS Web, PostLogProofs

-----------------------------------------------------------------------------
(***************************************************************************)
(* Requests under way                                                      *)
(***************************************************************************)
\* A queue less one of its elements: the others, those behind one place further on.
LEMMA RemoveAtOf ==
  ASSUME NEW X, NEW s \in Seq(X), NEW k \in DOMAIN s
  PROVE  /\ RemoveAt(s, k) \in Seq(X)
         /\ Len(RemoveAt(s, k)) = Len(s) - 1
         /\ \A j \in DOMAIN RemoveAt(s, k) :
              \/ j < k /\ j \in DOMAIN s /\ RemoveAt(s, k)[j] = s[j]
              \/ j >= k /\ j + 1 \in DOMAIN s /\ RemoveAt(s, k)[j] = s[j + 1]
<1> DEFINE a == SubSeq(s, 1, k - 1)
           z == SubSeq(s, k + 1, Len(s))
<1>1. k \in 1..Len(s) /\ Len(s) \in Nat
  OBVIOUS
<1>2. a \in Seq(X) /\ Len(a) = k - 1 /\ \A j \in 1..(k - 1) : a[j] = s[j]
  BY <1>1
<1>3. z \in Seq(X) /\ Len(z) = Len(s) - k /\ \A j \in 1..(Len(s) - k) : z[j] = s[k + j]
  BY <1>1
<1>4. RemoveAt(s, k) = a \o z
  BY DEF RemoveAt
<1> HIDE DEF a, z
<1>5. a \o z \in Seq(X) /\ Len(a \o z) = Len(s) - 1
  BY <1>1, <1>2, <1>3
<1>6. \A j \in 1..(Len(s) - 1) : (a \o z)[j] = IF j < k THEN s[j] ELSE s[j + 1]
  <2>1. ASSUME NEW j \in 1..(Len(s) - 1), j < k
        PROVE  (a \o z)[j] = s[j]
    BY <1>1, <1>2, <1>3, <2>1
  <2>2. ASSUME NEW j \in 1..(Len(s) - 1), ~(j < k)
        PROVE  (a \o z)[j] = s[j + 1]
    <3>1. (a \o z)[j] = z[j - (k - 1)]
      BY <1>1, <1>2, <1>3, <2>2
    <3>2. j - (k - 1) \in 1..(Len(s) - k) /\ k + (j - (k - 1)) = j + 1
      BY <1>1, <2>2
    <3>3. QED
      BY <1>3, <3>1, <3>2
  <2>3. QED
    BY <2>1, <2>2
<1> DEFINE c == a \o z
<1>7. DOMAIN c = 1..(Len(s) - 1) /\ DOMAIN s = 1..Len(s)
  BY <1>1, <1>5
<1>8. \A j \in 1..(Len(s) - 1) : c[j] = IF j < k THEN s[j] ELSE s[j + 1]
  BY <1>6
<1>9. RemoveAt(s, k) = c /\ c \in Seq(X) /\ Len(c) = Len(s) - 1
  BY <1>4, <1>5
<1> HIDE DEF c
<1>10. ASSUME NEW j \in DOMAIN c
       PROVE  \/ j < k /\ j \in DOMAIN s /\ c[j] = s[j]
              \/ j >= k /\ j + 1 \in DOMAIN s /\ c[j] = s[j + 1]
  BY <1>1, <1>7, <1>8
<1>11. QED
  BY <1>9, <1>10

-----------------------------------------------------------------------------
(***************************************************************************)
(* Threads                                                                 *)
(***************************************************************************)
\* A post's path is its own id and its parent's path.
LEMMA PathUnfolds ==
  ASSUME NEW ps, NEW i \in ps
  PROVE  Path(ps, i) = IF Parent(i) \in ps THEN {i} \cup Path(ps, Parent(i)) ELSE {i}
<1> DEFINE up == [j \in ps |-> Parent(j)]
           Solves(path) == path = [j \in ps |-> IF Parent(j) \in ps THEN {j} \cup path[Parent(j)] ELSE {j}]
           path == CHOOSE path : Solves(path)
<1>1. \E p : Solves(p)
  <2>1. PICK p : p = [j \in ps |-> IF up[j] \in ps THEN {j} \cup p[up[j]] ELSE {j}]
    BY PathsExist
  <2>2. Solves(p)
    BY <2>1
  <2>3. QED
    BY <2>2
<1>2. Solves(path)
  <2> HIDE DEF Solves
  <2>1. QED
    BY <1>1
<1>3. \A j \in ps : Path(ps, j) = path[j]
  BY DEF Path
<1> HIDE DEF path
<1>4. QED
  BY <1>2, <1>3

\* Of every post.
LEMMA PathsUnfold ==
  \A i \in DOMAIN posts : \A p : p = Parent(i) =>
    Path(DOMAIN posts, i) = IF p \in DOMAIN posts THEN {i} \cup Path(DOMAIN posts, p) ELSE {i}
BY PathUnfolds

\* The posts that are still there are where they were.
Kept ==
  \A i \in 1..seq :
    i \in DOMAIN posts' => i \in DOMAIN posts /\ Path(DOMAIN posts, i)' = Path(DOMAIN posts, i)

LogOK == LogTypeOK /\ ParentsFit

\* What a post replies to, is, or is not, there after the step as before it: then so is
\* all of its path.
LEMMA PathsKept ==
  ASSUME LogOK,
         \A i \in 1..seq :
           i \in DOMAIN posts' =>
             /\ i \in DOMAIN posts /\ posts'[i].parent = posts[i].parent
             /\ posts[i].parent \in DOMAIN posts <=> posts[i].parent \in DOMAIN posts'
  PROVE  Kept
<1> DEFINE P(i) == Path(DOMAIN posts, i)
           Q(i) == Path(DOMAIN posts, i)'
           S == {i \in 1..seq : i \in DOMAIN posts' /\ Q(i) # P(i)}
<1>1. \A i \in DOMAIN posts : \A p : p = posts[i].parent =>
        P(i) = IF p \in DOMAIN posts THEN {i} \cup P(p) ELSE {i}
  BY PathsUnfold DEF Parent
<1>2. \A i \in DOMAIN posts' : \A p : p = posts'[i].parent =>
        Q(i) = IF p \in DOMAIN posts' THEN {i} \cup Q(p) ELSE {i}
  <2>1. (\A i \in DOMAIN posts : \A p : p = Parent(i) =>
           Path(DOMAIN posts, i) =
             IF p \in DOMAIN posts THEN {i} \cup Path(DOMAIN posts, p) ELSE {i})'
    BY PathsUnfold, PTL
  <2>2. QED
    BY <2>1 DEF Parent
<1> HIDE DEF P, Q
<1>3. seq \in Nat /\ DOMAIN posts \subseteq 1..seq
  BY DEF LogOK, LogTypeOK
<1>4. ASSUME S # {}
      PROVE  FALSE
  <2>1. S \in SUBSET Nat
    BY <1>3
  <2>2. PICK i \in S : \A j \in S : i <= j
    <3> HIDE DEF S
    <3>1. QED
      BY <1>4, <2>1, SmallestOf
  <2>3. PICK p : p = posts[i].parent
    OBVIOUS
  <2>4. i \in 1..seq /\ i \in DOMAIN posts /\ i \in DOMAIN posts' /\ posts'[i].parent = p
    BY <2>3
  <2>5. CASE p \in DOMAIN posts
    <3>1. p \in 1..seq /\ p < i /\ p \in DOMAIN posts'
      BY <1>3, <2>3, <2>4, <2>5 DEF LogOK, ParentsFit
    <3>2. p \notin S
      <4> HIDE DEF S
      <4>1. p \in Nat /\ i \in Nat
        BY <1>3, <2>4, <3>1
      <4>2. QED
        BY <2>2, <3>1, <4>1
    <3>3. Q(p) = P(p)
      BY <3>1, <3>2
    <3>4. P(i) = {i} \cup P(p) /\ Q(i) = {i} \cup Q(p)
      BY <1>1, <1>2, <2>3, <2>4, <2>5, <3>1
    <3>5. QED
      BY <3>3, <3>4
  <2>6. CASE p \notin DOMAIN posts
    <3>1. P(i) = {i} /\ Q(i) = {i}
      BY <1>1, <1>2, <2>3, <2>4, <2>6
    <3>2. QED
      BY <3>1
  <2>7. QED
    BY <2>5, <2>6
<1>5. \A i \in 1..seq : i \in DOMAIN posts' => i \in DOMAIN posts /\ Q(i) = P(i)
  BY <1>4
<1>6. QED
  BY <1>5 DEF Kept, P, Q

\* A new post has an id of its own, and nobody replied to it before.
LEMMA AppendKeeps ==
  ASSUME LogOK, NEW b, NEW h, NEW d, NEW i, AppendPost(b, h, d, i)
  PROVE  Kept
<1>1. seq \in Nat /\ DOMAIN posts \subseteq 1..seq
  BY DEF LogOK, LogTypeOK
<1>2. DOMAIN posts' = DOMAIN posts \cup {seq + 1} /\ \A j \in DOMAIN posts : posts'[j] = posts[j]
  BY <1>1 DEF AppendPost
<1>3. \A j \in DOMAIN posts : posts[j].parent # seq + 1
  <2>1. ASSUME NEW j \in DOMAIN posts
        PROVE  posts[j].parent # seq + 1
    <3>1. posts[j].parent = 0 \/ posts[j].parent < j
      BY DEF LogOK, ParentsFit
    <3>2. j \in 1..seq
      BY <1>1
    <3>3. QED
      BY <1>1, <3>1, <3>2
  <2>2. QED
    BY <2>1
<1>4. \A j \in 1..seq : j # seq + 1
  BY <1>1
<1>5. QED
  BY <1>2, <1>3, <1>4, PathsKept

\* A mark moves nothing.
LEMMA MarkKeeps ==
  ASSUME LogOK, NEW i \in DOMAIN posts, NEW h, Tombstone(i) \/ Resolve(i, h)
  PROVE  Kept
<1>1. DOMAIN posts' = DOMAIN posts /\ \A j \in DOMAIN posts : posts'[j].parent = posts[j].parent
  BY DEF Tombstone, Resolve, LogOK, LogTypeOK, Post
<1>2. QED
  BY <1>1, PathsKept

\* A delete takes all that is beneath what it takes, so whoever stays keeps those above.
LEMMA EraseKeeps ==
  ASSUME LogOK, NEW S, Erase(Beneath(S))
  PROVE  Kept
<1>1. DOMAIN posts' = DOMAIN posts \ Beneath(S) /\ \A j \in DOMAIN posts' : posts'[j] = posts[j]
  BY DEF Erase
<1>2. ASSUME NEW j \in DOMAIN posts, posts[j].parent \in Beneath(S)
      PROVE  j \in Beneath(S)
  <2>1. posts[j].parent \in DOMAIN posts /\ Path(DOMAIN posts, posts[j].parent) \cap S # {}
    BY <1>2 DEF Beneath
  <2>2. Path(DOMAIN posts, j) = {j} \cup Path(DOMAIN posts, posts[j].parent)
    BY <2>1, PathUnfolds DEF Parent
  <2>3. QED
    BY <2>1, <2>2 DEF Beneath
<1>3. QED
  BY <1>1, <1>2, PathsKept

-----------------------------------------------------------------------------
(***************************************************************************)
(* The inductive invariant                                                 *)
(***************************************************************************)
\* Records, whatever they hold.
Load(X) == [pc: X, of: X, data: X, at: Nat, mine: BOOLEAN, then: X]

Pane(X) == [of: X, data: X, at: Nat]

ShapesOK ==
  /\ \E X : loads \in Seq(Load(X))
  /\ \E X : polls \in Seq(X)
  /\ \E X : pane \in [Views -> Pane(X)]
  /\ \E X : out \in [kind: X, target: X, closing: BOOLEAN, pc: X]
  /\ used \in [moves: Nat, writes: Nat, fails: Nat]

SelectionOK ==
  /\ view \in Views /\ board \in Boards \cup {None} /\ threadId \in Nat
  /\ session \in sessions \cup {None}
  /\ {q, sought} \subseteq Drafts \cup {None} /\ typed \in BOOLEAN

\* The newest load is the last, and has the flag up.
LoadsOK ==
  /\ \A k \in DOMAIN loads : /\ loads[k].then \in {None, "init", "send"}
                             /\ loads[k].mine => k = Len(loads)
  /\ busy \in BOOLEAN
  /\ busy <=> \E k \in DOMAIN loads : loads[k].mine

WritesOK ==
  /\ out = NoWrite \/ out.kind \in {"post", "reply", "inline", "resolve", "delete", "session"}
  /\ out.kind = "post" => out.target \in Boards
  /\ sending \in BOOLEAN
  /\ sending <=> out.kind \in Drafted

\* Posts on the wire.
Wires(f) ==
  /\ DOMAIN f \subseteq 1..seq
  /\ \A i \in DOMAIN f : f[i].parent \in Nat

\* What has been notified, was there at first, or might not be notified is what is
\* remembered as seen.
AsksOK ==
  /\ \A k \in DOMAIN polls : Wires(polls[k])
  /\ Wires(asks) /\ askNotes \subseteq DOMAIN asks
  /\ \/ seenAskIds = Unseeded /\ told = {} /\ muted = {}
     \/ seenAskIds \in SUBSET (1..seq) /\ told \cup muted = seenAskIds
  /\ granted \in BOOLEAN

\* Posts of the thread that is open, as far as they are still there.
OfThread(S) == \A i \in S : i \in 1..seq /\ (i \in DOMAIN posts => i \in Beneath({threadId}))

PostLists == {"search", "inbox", "myposts"}

PanesOK ==
  /\ \A v \in Views : pane[v].at <= Now
  /\ \A v \in Views : v \in PostLists /\ pane[v].data # None => Wires(pane[v].data)
  /\ pane["thread"].data # None => OfThread(DOMAIN pane["thread"].data)

\* The newest load asks for what is selected, and its answer is no older than what is
\* shown.  The others land nowhere.
Lands(l) ==
  l.pc = "view" /\ l.mine =>
    /\ l.of.view \in Views /\ Fits(l.of)
    /\ l.data # None => l.at <= Now /\ \A v \in Views : pane[v].at <= l.at
    /\ l.data \notin {None, Refused} =>
         /\ l.of.view \in PostLists => Wires(l.data)
         /\ l.of.view = "thread" => OfThread(DOMAIN l.data)

LandingOK == \A k \in DOMAIN loads : Lands(loads[k])

DraftsOK == DraftsStayHome /\ inline \in 0..seq

IInv ==
  /\ LogOK /\ ShapesOK
  /\ SelectionOK /\ LoadsOK /\ WritesOK /\ AsksOK
  /\ PanesOK /\ LandingOK /\ DraftsOK
  /\ opening.parent \in Nat

-----------------------------------------------------------------------------
(***************************************************************************)
(* The posts                                                               *)
(***************************************************************************)
\* What the server makes of a write is a write of the log's.
LEMMA DoIsLogged ==
  ASSUME LogOK, WritesOK, out # NoWrite, NEW d \in Drafts, Do(out, d)
  PROVE  [LogNext]_logVars /\ Kept
<1>1. Human \in Handles
  BY WebApiAssumption, LogAssumption
<1>2. seq \in Nat /\ DOMAIN posts \subseteq 1..seq /\ \A i \in DOMAIN posts : posts[i].board \in Boards
  BY DEF LogOK, LogTypeOK, Post
<1>3. CASE out.kind = "post"
  <2>1. AppendPost(out.target, Human, d, 0) /\ out.target \in Boards /\ 0 \in 0..seq
    BY <1>2, <1>3 DEF Do, PostPosts, WritesOK
  <2>2. QED
    BY <1>1, <2>1, AppendKeeps DEF LogNext
<1>4. CASE out.kind = "reply" \/ out.kind = "inline"
  <2>1. out.target \in DOMAIN posts /\ AppendPost(posts[out.target].board, Human, d, out.target)
    BY <1>4 DEF Do, PostReply
  <2>2. out.target \in 0..seq /\ posts[out.target].board \in Boards
    BY <1>2, <2>1
  <2>3. QED
    BY <1>1, <2>1, <2>2, AppendKeeps DEF LogNext
<1>5. CASE out.kind = "resolve"
  <2>1. out.target \in DOMAIN posts /\ Resolve(out.target, Human)
    BY <1>5 DEF Do, PostResolve
  <2>2. QED
    BY <1>1, <2>1, MarkKeeps DEF LogNext
<1>6. ASSUME NEW S, Erase(Beneath(S))
      PROVE  LogNext /\ Kept
  <2>1. Beneath(S) \in SUBSET DOMAIN posts
    BY DEF Beneath
  <2>2. QED
    BY <1>6, <2>1, EraseKeeps DEF LogNext
<1>7. CASE out.kind = "delete"
  <2>1. Erase(Beneath({out.target}))
    BY <1>7 DEF Do, DeletePost
  <2>2. QED
    BY <1>6, <2>1
<1>8. CASE out.kind = "session"
  <2>1. UNCHANGED logVars \/ Erase(Beneath({i \in DOMAIN posts : Mine(i, out.target)}))
    BY <1>8 DEF Do, DeleteSession
  <2>2. CASE UNCHANGED logVars
    <3>1. Kept
      BY <2>2 DEF Kept, logVars, Path, Parent
    <3>2. QED
      BY <2>2, <3>1
  <2>3. QED
    BY <1>6, <2>1, <2>2
<1>9. QED
  BY <1>3, <1>4, <1>5, <1>7, <1>8 DEF WritesOK

\* The table changes only in these two.
LEMMA LogFrame ==
  ASSUME [Next]_vars
  PROVE  \/ UNCHANGED logVars /\ (Move \/ Fail \/ UNCHANGED used)
         \/ \E d \in Drafts : WriteServe(d)
         \/ AgentWrites
<1>1. ASSUME Looks PROVE UNCHANGED logVars /\ Move
  BY <1>1 DEF Looks, go, TypeSearch, runSearch, pickBoard, pickSession, ClickThread, onHashChange,
     openPost, Dismiss, Permit, Navigate
<1>2. ASSUME Writes PROVE UNCHANGED logVars /\ Move
  BY <1>2 DEF Writes, TypeReply, openInline, doPost, doReply, doInlineReply, doResolve,
              doDeletePost, doDeleteThread, doDeleteSession, Submit
<1>3. ASSUME Lost PROVE UNCHANGED logVars /\ Fail
  BY <1>3 DEF Lost, LoadFails, PollFails, WriteFails, GiveUp, PostLocated
<1>4. ASSUME Answered PROVE UNCHANGED <<logVars, used>> \/ \E d \in Drafts : WriteServe(d)
  BY <1>4 DEF Answered, LoadStep, BoardsLand, ViewServe, ViewLand, SessionsLand, PollLand,
              WriteLand, WriteRefused, GiveUp, PostLocated
<1>5. ASSUME NEW h \in BOOLEAN, Tick(h) PROVE UNCHANGED <<logVars, used>>
  BY <1>5 DEF Tick
<1>6. CASE UNCHANGED vars
  BY <1>6 DEF vars
<1>7. QED
  BY <1>1, <1>2, <1>3, <1>4, <1>5, <1>6 DEF Next

\* Every step writes as the log does; whoever stays is where it was, and no count goes back.
LEMMA LogStep ==
  ASSUME IInv, [Next]_vars
  PROVE  /\ LogOK' /\ Kept
         /\ seq \in Nat /\ seq' \in Nat /\ seq <= seq'
         /\ used' \in [moves: Nat, writes: Nat, fails: Nat]
         /\ Now \in Nat /\ Now' \in Nat /\ Now <= Now'
<1>1. LogOK /\ LogTypeOK /\ ParentsFit /\ WritesOK /\ used \in [moves: Nat, writes: Nat, fails: Nat]
  BY DEF IInv, LogOK, ShapesOK
<1>2. [LogNext]_logVars /\ Kept
  <2>1. CASE UNCHANGED logVars
    <3>1. Kept
      BY <2>1 DEF Kept, logVars, Path, Parent
    <3>2. QED
      BY <2>1, <3>1
  <2>2. ASSUME NEW d \in Drafts, WriteServe(d), ~UNCHANGED logVars
        PROVE  [LogNext]_logVars /\ Kept
    <3>1. Do(out, d) /\ out # NoWrite
      BY <2>2 DEF WriteServe, NoWrite
    <3>2. QED
      BY <1>1, <3>1, DoIsLogged
  <2>3. CASE AgentWrites
    <3>1. ASSUME NEW h \in Handles, NEW d \in Drafts, NEW i \in DOMAIN posts,
                 AppendPost(posts[i].board, h, d, i)
          PROVE  [LogNext]_logVars /\ Kept
      <4>1. i \in 0..seq /\ posts[i].board \in Boards
        BY <1>1 DEF LogTypeOK, Post
      <4>2. QED
        BY <1>1, <3>1, <4>1, AppendKeeps DEF LogNext
    <3>2. ASSUME NEW i \in DOMAIN posts, NEW h \in Handles, Resolve(i, h)
          PROVE  [LogNext]_logVars /\ Kept
      BY <1>1, <3>2, MarkKeeps DEF LogNext
    <3>3. ASSUME NEW i \in DOMAIN posts, Tombstone(i)
          PROVE  [LogNext]_logVars /\ Kept
      BY <1>1, <3>3, MarkKeeps DEF LogNext
    <3>4. QED
      BY <2>3, <3>1, <3>2, <3>3 DEF AgentWrites
  <2>4. QED
    BY <2>1, <2>2, <2>3, LogFrame
<1>3. LogOK' /\ seq' \in {seq, seq + 1}
  <2>1. LogTypeOK' /\ seq' \in {seq, seq + 1}
    BY <1>1, <1>2, LogTypeStep, LogStepKeepsContent
  <2>2. ParentsFit'
    BY <1>1, <1>2, ParentsFitStep
  <2>3. QED
    BY <2>1, <2>2 DEF LogOK
<1>4. seq \in Nat /\ seq' \in Nat /\ seq <= seq'
  BY <1>1, <1>3 DEF LogTypeOK
<1>5. used' \in [moves: Nat, writes: Nat, fails: Nat] /\ used.writes <= used'.writes
  <2>1. CASE Move \/ Fail \/ UNCHANGED used
    BY <1>1, <2>1 DEF Move, Fail, Spend
  <2>2. ASSUME NEW d \in Drafts, WriteServe(d)
        PROVE  used' \in [moves: Nat, writes: Nat, fails: Nat] /\ used.writes <= used'.writes
    <3>1. used' = [used EXCEPT !.writes = @ + 1] \/ used' = used
      BY <2>2 DEF WriteServe
    <3>2. QED
      BY <1>1, <3>1
  <2>3. CASE AgentWrites
    BY <1>1, <2>3 DEF AgentWrites, Spend
  <2>4. QED
    BY <2>1, <2>2, <2>3, LogFrame
<1>6. used.writes \in Nat /\ used'.writes \in Nat
  BY <1>1, <1>5
<1>7. QED
  BY <1>2, <1>3, <1>4, <1>5, <1>6 DEF Now

-----------------------------------------------------------------------------
(***************************************************************************)
(* The selection                                                           *)
(***************************************************************************)
\* The oldest post of a thread is what GetBoard files it under.
LEMMA BoardsRoots ==
  ASSUME LogOK, NEW b
  PROVE  DOMAIN GetBoard(b) \subseteq Nat
<1> DEFINE ps == BoardPosts(b)
           Solves(root) == root = [i \in ps |-> IF Parent(i) \in ps THEN root[Parent(i)] ELSE i]
           root == CHOOSE root : Solves(root)
           up == [i \in ps |-> Parent(i)]
<1>1. ps \in SUBSET Nat
  BY DEF BoardPosts, LogOK, LogTypeOK
<1>2. \A i \in ps : up[i] \in ps => up[i] < i
  BY DEF BoardPosts, Parent, LogOK, LogTypeOK, ParentsFit
<1> HIDE DEF ps
<1>3. \E r : Solves(r)
  <2>1. PICK r : r = [i \in ps |-> IF up[i] \in ps THEN r[up[i]] ELSE i]
    BY <1>1, <1>2, RootsExist
  <2>2. Solves(r)
    BY <2>1
  <2>3. QED
    BY <2>2
<1>4. Solves(root)
  <2> HIDE DEF Solves
  <2>1. QED
    BY <1>3
<1>5. DOMAIN GetBoard(b) = {root[i] : i \in ps}
  BY DEF GetBoard, boardPostsForRequest, GroupThreads, RootOf, ps
<1> HIDE DEF root
<1>6. \A i \in ps : root[i] = IF up[i] \in ps THEN root[up[i]] ELSE i
  BY <1>4
<1> DEFINE S == {i \in ps : root[i] \notin ps}
<1>7. ASSUME S # {}
      PROVE  FALSE
  <2>1. S \in SUBSET Nat
    BY <1>1
  <2>2. PICK i \in S : \A j \in S : i <= j
    <3> HIDE DEF S
    <3>1. QED
      BY <1>7, <2>1, SmallestOf
  <2>3. i \in ps /\ root[i] \notin ps
    OBVIOUS
  <2>4. up[i] \in ps /\ root[up[i]] \notin ps /\ up[i] < i
    BY <1>2, <1>6, <2>3
  <2>5. i <= up[i] /\ i \in Nat /\ up[i] \in Nat
    BY <1>1, <2>2, <2>3, <2>4
  <2>6. QED
    BY <2>4, <2>5
<1>8. QED
  BY <1>1, <1>5, <1>7

\* What an open click or a late openPost selects is a thread's number.
LEMMA LocatedIn ==
  ASSUME IInv, NEW fails \in BOOLEAN, PostLocated(fails)
  PROVE  \E i \in Nat : openThread(i)
<1> DEFINE groups == GetBoard(opening.board)
           found == {r \in DOMAIN groups : ~fails /\ opening.id \in groups[r]}
           t == IF found = {} THEN opening.parent ELSE CHOOSE r \in found : TRUE
<1>1. openThread(t)
  BY DEF PostLocated
<1>2. DOMAIN groups \subseteq Nat
  BY BoardsRoots DEF IInv
<1>3. t \in Nat
  BY <1>2 DEF IInv
<1> HIDE DEF t
<1>4. QED
  BY <1>1, <1>3

\* The page is on a view it has, on a board or all, and filters by no session that the
\* picker does not offer.
LEMMA SelectionStep ==
  ASSUME IInv, [Next]_vars
  PROVE  SelectionOK'
<1>1. SelectionOK
  BY DEF IInv
<1>2. "threads" \in Views /\ "thread" \in Views
  BY WebAssumption
<1>3. ASSUME UNCHANGED <<selection, sessions>>
      PROVE  SelectionOK'
  BY <1>1, <1>3 DEF SelectionOK, selection, picked, box
<1>4. ASSUME NEW i \in Nat, openThread(i)
      PROVE  SelectionOK'
  BY <1>1, <1>2, <1>4 DEF SelectionOK, openThread, box
<1>5. ASSUME NEW k \in DOMAIN loads, ThenSessions(k), UNCHANGED <<q, sought>>, typed' \in BOOLEAN
      PROVE  SelectionOK'
  BY <1>1, <1>5 DEF SelectionOK, ThenSessions, NoSessions, picked
<1>6. ASSUME Looks
      PROVE  SelectionOK'
  <2>1. ASSUME NEW v \in Views, go(v)
        PROVE  SelectionOK'
    BY <1>1, <2>1 DEF SelectionOK, go, box
  <2>2. CASE runSearch
    BY <1>1, <2>2 DEF SelectionOK, runSearch
  <2>3. ASSUME NEW b \in Boards \cup {None}, pickBoard(b)
        PROVE  SelectionOK'
    BY <1>1, <1>2, <2>3 DEF SelectionOK, pickBoard, box
  <2>4. ASSUME NEW s \in sessions \cup {None}, pickSession(s)
        PROVE  SelectionOK'
    BY <1>1, <1>2, <2>4 DEF SelectionOK, pickSession, box
  <2>5. ASSUME NEW i \in DOMAIN posts, ClickThread(i)
        PROVE  SelectionOK'
    BY <1>4, <2>5 DEF ClickThread, IInv, LogOK, LogTypeOK
  <2>6. ASSUME NEW r \in Routes, onHashChange(r)
        PROVE  SelectionOK'
    <3>1. /\ r.view \in Views /\ r.board \in Boards \cup {None} /\ r.thread \in Nat
          /\ r.words \in Drafts \cup {None}
      BY WebAssumption
    <3>2. CASE r = RouteHash
      BY <1>1, <2>6, <3>1, <3>2 DEF SelectionOK, onHashChange, picked
    <3>3. CASE r # RouteHash
      BY <1>1, <2>6, <3>1, <3>3 DEF SelectionOK, onHashChange, applyRoute
    <3>4. QED
      BY <3>2, <3>3
  <2>7. ASSUME NEW i \in 1..seq, openPost(i)
        PROVE  SelectionOK'
    BY <1>3, <1>4, <2>7 DEF openPost
  <2>8. ASSUME NEW i \in askNotes, Dismiss(i)
        PROVE  SelectionOK'
    BY <1>3, <2>8 DEF Dismiss
  <2>9. CASE Permit
    BY <1>3, <2>9 DEF Permit
  <2>10. ASSUME NEW t \in Drafts \cup {None}, TypeSearch(t)
         PROVE  SelectionOK'
    BY <1>1, <2>10 DEF SelectionOK, TypeSearch, picked
  <2>11. QED
    BY <1>6, <2>1, <2>2, <2>3, <2>4, <2>5, <2>6, <2>7, <2>8, <2>9, <2>10 DEF Looks
<1>7. ASSUME Writes
      PROVE  SelectionOK'
  <2>1. ASSUME NEW i \in 1..seq, doDeletePost(i)
        PROVE  SelectionOK'
    BY <1>1, <1>2, <2>1 DEF SelectionOK, doDeletePost, Submit, box
  <2>2. ASSUME NEW s \in sessions, doDeleteSession(s)
        PROVE  SelectionOK'
    BY <1>1, <2>2 DEF SelectionOK, doDeleteSession, box
  <2>3. QED
    BY <1>3, <1>7, <2>1, <2>2 DEF Writes, TypeReply, openInline, doPost, doReply, doInlineReply,
                                  doResolve, doDeleteThread, Submit, Stay, selection, picked, box
<1>8. ASSUME GiveUp
      PROVE  SelectionOK'
  BY <1>1, <1>2, <1>8 DEF SelectionOK, GiveUp, box
<1>9. ASSUME NEW fails \in BOOLEAN, PostLocated(fails)
      PROVE  SelectionOK'
  BY <1>4, <1>9, LocatedIn
<1>10. ASSUME Answered
       PROVE  SelectionOK'
  <2>1. ASSUME NEW k \in DOMAIN loads, BoardsLand(k)
        PROVE  SelectionOK'
    <3>1. CASE ~loads[k].mine
      BY <1>3, <2>1, <3>1 DEF BoardsLand
    <3>2. CASE loads[k].mine /\ Blank
      BY <1>5, <2>1, <3>2 DEF BoardsLand
    <3>3. CASE loads[k].mine /\ ~Blank
      BY <1>1, <2>1, <3>3 DEF SelectionOK, BoardsLand, picked
    <3>4. QED
      BY <3>1, <3>2, <3>3
  <2>2. ASSUME NEW k \in DOMAIN loads, ViewLand(k)
        PROVE  SelectionOK'
    BY <1>1, <1>3, <1>5, <2>2 DEF SelectionOK, ViewLand, box
  <2>3. ASSUME NEW k \in DOMAIN loads, SessionsLand(k)
        PROVE  SelectionOK'
    BY <1>1, <2>3 DEF SelectionOK, SessionsLand, box
  <2>4. QED
    BY <1>3, <1>8, <1>9, <1>10, <2>1, <2>2, <2>3 DEF Answered, LoadStep, ViewServe, PollLand,
       WriteServe, WriteLand, WriteRefused
<1>11. ASSUME Lost
       PROVE  SelectionOK'
  BY <1>3, <1>8, <1>9, <1>11 DEF Lost, LoadFails, PollFails, WriteFails
<1>12. ASSUME \/ UNCHANGED vars
              \/ AgentWrites
              \/ \E h \in BOOLEAN : Tick(h)
       PROVE  SelectionOK'
  BY <1>3, <1>12 DEF vars, AgentWrites, Tick
<1>13. QED
  BY <1>6, <1>7, <1>10, <1>11, <1>12 DEF Next

-----------------------------------------------------------------------------
(***************************************************************************)
(* The loads                                                               *)
(***************************************************************************)
\* The page asks for what it asked for, but for the filter and for what is typed, or leaves
\* the thread it shows.
Stays ==
  /\ UNCHANGED <<board, threadId>>
  /\ typed' = TRUE \/ UNCHANGED <<q, typed>>
  /\ \/ UNCHANGED <<view, session, pane>>
     \/ session' = None /\ UNCHANGED <<view, pane>>
     \/ /\ view = "thread" /\ session' = session
        /\ pane' = [pane EXCEPT !.thread = Cleared]

\* What fits still fits, if all that happens is that the filter goes or the human types.
LEMMA FitsKept ==
  ASSUME NEW of, Fits(of), UNCHANGED <<board, threadId>>, view' = view \/ of.view = "thread",
         session' \in {session, None}, typed' = TRUE \/ UNCHANGED <<q, typed>>
  PROVE  Fits(of)'
BY DEF Fits

\* What is selected fits, and does when the filter goes.
LEMMA SelectedFits ==
  ASSUME NEW of, of = Selected, UNCHANGED <<view, board, threadId, q>>, session' \in {session, None}
  PROVE  of.view = view /\ Fits(of)'
<1>1. of.view = view
  BY DEF Selected, Query
<1>2. CASE view = "thread"
  BY <1>1, <1>2 DEF Selected, Query, Fits
<1>3. CASE view = "threads"
  BY <1>1, <1>3 DEF Selected, Query, Fits
<1>4. CASE view = "search"
  BY <1>1, <1>4 DEF Selected, Query, Fits
<1>5. CASE view = "inbox"
  BY <1>1, <1>5 DEF Selected, Query, Fits
<1>6. CASE view \notin {"thread", "threads", "search", "inbox"}
  BY <1>1, <1>6 DEF Selected, Query, Fits
<1>7. QED
  BY <1>1, <1>2, <1>3, <1>4, <1>5, <1>6

\* What becomes of the loads: nothing, one more, one less, or one a request further.
LEMMA LoadsKinds ==
  ASSUME [Next]_vars
  PROVE  \/ UNCHANGED <<loads, busy>> /\ Stays
         \/ \E then \in {None, "send"} : refresh(then)
         \/ \E k \in DOMAIN loads : End(k) /\ (loads[k].mine \/ UNCHANGED <<selection, pane>>)
         \/ \E k \in DOMAIN loads : /\ Go(k, "view", Selected) /\ loads[k].mine
                                    /\ UNCHANGED <<picked, q, pane>>
         \/ \E k \in DOMAIN loads : ViewServe(k)
         \/ \E k \in DOMAIN loads : /\ Go(k, "sessions", Query("sessions", board, None, 0, None))
                                    /\ loads[k].mine \/ UNCHANGED <<selection, pane>>
<1> DEFINE Goal ==
      \/ UNCHANGED <<loads, busy>> /\ Stays
      \/ \E then \in {None, "send"} : refresh(then)
      \/ \E k \in DOMAIN loads : End(k) /\ (loads[k].mine \/ UNCHANGED <<selection, pane>>)
      \/ \E k \in DOMAIN loads : /\ Go(k, "view", Selected) /\ loads[k].mine
                                 /\ UNCHANGED <<picked, q, pane>>
      \/ \E k \in DOMAIN loads : ViewServe(k)
      \/ \E k \in DOMAIN loads : /\ Go(k, "sessions", Query("sessions", board, None, 0, None))
                                 /\ loads[k].mine \/ UNCHANGED <<selection, pane>>
<1> SUFFICES Goal
  OBVIOUS
<1>1. ASSUME NEW k \in DOMAIN loads, End(k), loads[k].mine \/ UNCHANGED <<selection, pane>>
      PROVE  Goal
  BY <1>1
<1>2. ASSUME NEW then \in {None, "send"}, refresh(then)
      PROVE  Goal
  BY <1>2
<1>3. ASSUME UNCHANGED <<loads, busy>> /\ Stays
      PROVE  Goal
  BY <1>3
<1>4. ASSUME NEW k \in DOMAIN loads, ThenSessions(k),
             loads[k].mine \/ UNCHANGED <<box, pane>>
      PROVE  Goal
  <2>1. CASE board # None
    <3>1. /\ Go(k, "sessions", Query("sessions", board, None, 0, None))
          /\ UNCHANGED picked
      BY <1>4, <2>1 DEF ThenSessions
    <3>2. QED
      BY <1>4, <3>1 DEF selection
  <2>2. CASE board = None
    <3>1. NoSessions(k) /\ End(k)
      BY <1>4, <2>2 DEF ThenSessions
    <3>2. CASE loads[k].mine
      BY <1>1, <3>1, <3>2
    <3>3. CASE ~loads[k].mine
      <4>1. UNCHANGED <<selection, pane>>
        BY <1>4, <3>1, <3>3 DEF NoSessions, selection, picked
      <4>2. QED
        BY <1>1, <3>1, <4>1
    <3>4. QED
      BY <3>2, <3>3
  <2>3. QED
    BY <2>1, <2>2
<1>5. ASSUME NEW k \in DOMAIN loads, BoardsLand(k)
      PROVE  Goal
  <2>1. CASE ~loads[k].mine
    BY <1>1, <1>5, <2>1 DEF BoardsLand
  <2>2. CASE loads[k].mine /\ Blank
    BY <1>4, <1>5, <2>2 DEF BoardsLand
  <2>3. CASE loads[k].mine /\ ~Blank
    <3>1. Go(k, "view", Selected) /\ loads[k].mine /\ UNCHANGED <<picked, q, pane>>
      BY <1>5, <2>3 DEF BoardsLand
    <3>2. QED
      BY <3>1
  <2>4. QED
    BY <2>1, <2>2, <2>3
<1>6. ASSUME NEW k \in DOMAIN loads, ViewLand(k)
      PROVE  Goal
  <2>1. CASE loads[k].data = Refused
    <3>1. End(k) /\ UNCHANGED <<selection, pane>>
      BY <1>6, <2>1 DEF ViewLand
    <3>2. QED
      BY <1>1, <3>1
  <2>2. CASE loads[k].data # Refused
    <3>1. ThenSessions(k) /\ UNCHANGED box /\ (~loads[k].mine => pane' = pane)
      BY <1>6, <2>2 DEF ViewLand
    <3>2. QED
      BY <1>4, <3>1
  <2>3. QED
    BY <2>1, <2>2
<1>7. ASSUME NEW k \in DOMAIN loads, SessionsLand(k)
      PROVE  Goal
  <2>1. End(k) /\ (loads[k].mine \/ UNCHANGED <<selection, pane>>)
    BY <1>7 DEF SessionsLand, selection, picked, box
  <2>2. QED
    BY <1>1, <2>1
<1>8. ASSUME NEW k \in DOMAIN loads, LoadFails(k)
      PROVE  Goal
  <2>1. End(k) /\ UNCHANGED <<selection, pane>>
    BY <1>8 DEF LoadFails
  <2>2. QED
    BY <1>1, <2>1
<1>9. ASSUME NEW k \in DOMAIN loads, ViewServe(k)
      PROVE  Goal
  BY <1>9
<1> HIDE DEF Goal
<1>10. ASSUME UNCHANGED <<loads, busy, selection, pane>>
       PROVE  Goal
  BY <1>3, <1>10 DEF Stays, selection, picked, box
<1>11. ASSUME GiveUp, ~out.closing
       PROVE  Goal
  BY <1>10, <1>11 DEF GiveUp, selection, picked, box
<1>12. ASSUME NEW i \in 1..seq, doDeletePost(i)
       PROVE  Goal
  <2>1. UNCHANGED <<loads, busy, session, board, threadId, q, typed, sought>>
    BY <1>12 DEF doDeletePost, Submit, box
  <2>2. CASE i = threadId
    <3>1. view = "thread" /\ pane' = [pane EXCEPT !.thread = Cleared]
      BY <1>12, <2>2 DEF doDeletePost, InThread
    <3>2. QED
      BY <1>3, <2>1, <3>1 DEF Stays
  <2>3. CASE i # threadId
    BY <1>10, <1>12, <2>1, <2>3 DEF doDeletePost, selection, picked, box
  <2>4. QED
    BY <2>2, <2>3
<1>13. ASSUME NEW s \in sessions, doDeleteSession(s)
       PROVE  Goal
  BY <1>3, <1>13 DEF doDeleteSession, Stays, box
<1>14. ASSUME GiveUp \/ WriteLand \/ \E f \in BOOLEAN : PostLocated(f) \/ Tick(f)
       PROVE  Goal
  BY <1>2, <1>10, <1>11, <1>14 DEF GiveUp, WriteLand, PostLocated, Tick
<1>15. CASE Looks
  <2>1. ASSUME NEW t \in Drafts \cup {None}, TypeSearch(t)
        PROVE  Goal
    BY <1>3, <2>1 DEF TypeSearch, Stays, picked
  <2>2. ASSUME NEW r \in Routes, onHashChange(r)
        PROVE  Goal
    <3>1. CASE r = RouteHash
      BY <1>3, <2>2, <3>1 DEF onHashChange, Stays, picked
    <3>2. CASE r # RouteHash
      BY <1>2, <2>2, <3>2 DEF onHashChange, Navigate
    <3>3. QED
      BY <3>1, <3>2
  <2>3. QED
    BY <1>2, <1>10, <1>15, <2>1, <2>2 DEF Looks, go, runSearch, pickBoard, pickSession,
                                             ClickThread, openPost, Dismiss, Permit, Navigate
<1>16. CASE Writes
  BY <1>10, <1>12, <1>13, <1>16 DEF Writes, TypeReply, openInline, doPost, doReply, doInlineReply,
                                    doResolve, doDeleteThread, Submit, Stay, selection, picked, box
<1>17. CASE Answered
  BY <1>5, <1>6, <1>7, <1>9, <1>14, <1>10, <1>17 DEF Answered, LoadStep, PollLand, WriteServe, WriteRefused
<1>18. CASE Lost
  BY <1>8, <1>14, <1>10, <1>18 DEF Lost, PollFails, WriteFails
<1>19. CASE UNCHANGED vars \/ AgentWrites
  BY <1>10, <1>19 DEF vars, AgentWrites
<1>20. QED
  BY <1>14, <1>15, <1>16, <1>17, <1>18, <1>19 DEF Next

\* The new load is the last, and the only one that is the newest.
LEMMA RefreshOf ==
  ASSUME NEW X, loads \in Seq(Load(X)), NEW then, refresh(then)
  PROVE  /\ \E Y : loads' \in Seq(Load(Y))
         /\ busy' = TRUE
         /\ Len(loads') = Len(loads) + 1 /\ DOMAIN loads' = 1..Len(loads')
         /\ loads'[Len(loads')] = NewLoad(then)
         /\ \A k \in DOMAIN loads' : k # Len(loads') =>
              /\ k \in DOMAIN loads
              /\ ~loads'[k].mine /\ loads'[k].then = loads[k].then
<1> DEFINE Y == X \cup {"boards", Cleared.of, None, then}
           s == [k \in DOMAIN loads |-> [loads[k] EXCEPT !.mine = FALSE]]
<1>1. \A k \in DOMAIN loads : loads[k] \in Load(X)
  OBVIOUS
<1>2. ASSUME NEW k \in DOMAIN loads
      PROVE  s[k] \in Load(Y) /\ ~s[k].mine /\ s[k].then = loads[k].then
  BY <1>1 DEF Load
<1>3. Len(loads) \in Nat /\ DOMAIN loads = 1..Len(loads)
  OBVIOUS
<1>4. s \in Seq(Load(Y)) /\ Len(s) = Len(loads) /\ DOMAIN s = DOMAIN loads
  <2>1. s = [k \in 1..Len(loads) |-> s[k]]
    BY <1>3
  <2>2. \A k \in 1..Len(loads) : s[k] \in Load(Y)
    BY <1>2, <1>3
  <2> HIDE DEF s, Y
  <2>3. s \in [1..Len(loads) -> Load(Y)]
    BY <2>1, <2>2
  <2>4. QED
    BY <1>3, <2>3
<1>5. NewLoad(then) \in Load(Y) /\ loads' = Append(s, NewLoad(then)) /\ busy' = TRUE
  BY DEF NewLoad, Load, refresh
<1> HIDE DEF s, Y
<1>6. /\ loads' \in Seq(Load(Y)) /\ Len(loads') = Len(loads) + 1
      /\ DOMAIN loads' = 1..(Len(loads) + 1)
      /\ loads'[Len(loads) + 1] = NewLoad(then)
      /\ \A k \in 1..Len(loads) : loads'[k] = s[k]
  <2>1. PICK l \in Load(Y) : l = NewLoad(then)
    BY <1>5
  <2>2. Append(s, l) \in Seq(Load(Y)) /\ Len(Append(s, l)) = Len(s) + 1
    BY <1>4
  <2>3. DOMAIN Append(s, l) = 1..(Len(s) + 1)
    BY <2>2
  <2>4. Append(s, l)[Len(s) + 1] = l /\ \A k \in 1..Len(s) : Append(s, l)[k] = s[k]
    BY <1>3, <1>4
  <2>5. QED
    BY <1>4, <1>5, <2>1, <2>2, <2>3, <2>4
<1>7. \A k \in 1..(Len(loads) + 1) : k # Len(loads) + 1 => k \in 1..Len(loads)
  BY <1>3
<1>8. QED
  BY <1>2, <1>3, <1>5, <1>6, <1>7

\* A load a request further is the same load otherwise.
LEMMA FurtherOf ==
  ASSUME NEW X, loads \in Seq(Load(X)), NEW k \in DOMAIN loads,
         NEW Y, NEW l \in Load(Y), loads' = [loads EXCEPT ![k] = l]
  PROVE  /\ \E Z : loads' \in Seq(Load(Z))
         /\ Len(loads') = Len(loads) /\ DOMAIN loads' = DOMAIN loads
         /\ loads'[k] = l /\ \A j \in DOMAIN loads : j # k => loads'[j] = loads[j]
<1> DEFINE Z == X \cup Y
<1>1. \A j \in DOMAIN loads : loads[j] \in Load(X)
  OBVIOUS
<1>2. \A r : r \in Load(X) \/ r \in Load(Y) => r \in Load(Z)
  BY DEF Load
<1> HIDE DEF Z
<1>3. loads \in Seq(Load(Z)) /\ l \in Load(Z)
  <2>1. Len(loads) \in Nat /\ DOMAIN loads = 1..Len(loads) /\ loads = [j \in DOMAIN loads |-> loads[j]]
    OBVIOUS
  <2>2. loads \in [1..Len(loads) -> Load(Z)]
    BY <1>1, <1>2, <2>1
  <2>3. QED
    BY <1>2, <2>1, <2>2
<1>4. loads' \in Seq(Load(Z)) /\ Len(loads') = Len(loads)
  BY <1>3
<1>5. DOMAIN loads' = DOMAIN loads
  OBVIOUS
<1>6. loads'[k] = l /\ \A j \in DOMAIN loads : j # k => loads'[j] = loads[j]
  OBVIOUS
<1>7. QED
  BY <1>4, <1>5, <1>6

\* The next request of a load.
LEMMA GoOf ==
  ASSUME NEW X, loads \in Seq(Load(X)), NEW k \in DOMAIN loads, NEW pc, NEW of, Go(k, pc, of)
  PROVE  /\ \E Z : loads' \in Seq(Load(Z))
         /\ Len(loads') = Len(loads) /\ DOMAIN loads' = DOMAIN loads
         /\ loads'[k].pc = pc /\ loads'[k].of = of /\ loads'[k].data = None
         /\ loads'[k].mine = loads[k].mine /\ loads'[k].then = loads[k].then
         /\ \A j \in DOMAIN loads : j # k => loads'[j] = loads[j]
<1>1. loads[k] \in Load(X)
  OBVIOUS
<1>2. PICK l : l = [loads[k] EXCEPT !.pc = pc, !.of = of, !.data = None]
  OBVIOUS
<1>3. l \in Load(X \cup {pc, of, None})
  BY <1>1, <1>2 DEF Load
<1>4. /\ l.pc = pc /\ l.of = of /\ l.data = None
      /\ l.mine = loads[k].mine /\ l.then = loads[k].then
  BY <1>1, <1>2 DEF Load
<1>5. loads' = [loads EXCEPT ![k] = l]
  <2>1. loads' = [loads EXCEPT ![k].pc = pc, ![k].of = of, ![k].data = None]
    BY DEF Go
  <2>2. QED
    BY <1>2, <2>1
<1>6. QED
  BY <1>3, <1>4, <1>5, FurtherOf

\* The answer to one.
LEMMA ServeOf ==
  ASSUME NEW X, loads \in Seq(Load(X)), NEW k \in DOMAIN loads, Now \in Nat, ViewServe(k)
  PROVE  /\ \E Z : loads' \in Seq(Load(Z))
         /\ Len(loads') = Len(loads) /\ DOMAIN loads' = DOMAIN loads
         /\ loads'[k].pc = loads[k].pc /\ loads'[k].of = loads[k].of
         /\ loads'[k].data = Answer(loads[k].of) /\ loads'[k].at = Now
         /\ loads'[k].mine = loads[k].mine /\ loads'[k].then = loads[k].then
         /\ \A j \in DOMAIN loads : j # k => loads'[j] = loads[j]
<1>1. loads[k] \in Load(X)
  OBVIOUS
<1>2. PICK a : a = Answer(loads[k].of)
  OBVIOUS
<1>3. PICK n \in Nat : n = Now
  OBVIOUS
<1>4. PICK l : l = [loads[k] EXCEPT !.data = a, !.at = n]
  OBVIOUS
<1>5. l \in Load(X \cup {a})
  BY <1>1, <1>4 DEF Load
<1>6. /\ l.pc = loads[k].pc /\ l.of = loads[k].of /\ l.data = a /\ l.at = n
      /\ l.mine = loads[k].mine /\ l.then = loads[k].then
  BY <1>1, <1>4 DEF Load
<1>7. loads' = [loads EXCEPT ![k] = l]
  BY <1>1, <1>2, <1>3, <1>4 DEF ViewServe, Load
<1>8. QED
  BY <1>2, <1>3, <1>5, <1>6, <1>7, FurtherOf

\* Loads are records, the newest is the last of them, and the flag is up while it is.
LEMMA LoadsStep ==
  ASSUME IInv, [Next]_vars
  PROVE  (\E X : loads \in Seq(Load(X)))' /\ LoadsOK'
<1> DEFINE Goal == (\E X : loads' \in Seq(Load(X))) /\ LoadsOK'
<1>1. LoadsOK /\ Now \in Nat
  BY LogStep DEF IInv
<1>2. PICK X : loads \in Seq(Load(X))
  BY DEF IInv, ShapesOK
<1>3. Len(loads) \in Nat /\ DOMAIN loads = 1..Len(loads) /\ \A k \in DOMAIN loads : loads[k] \in Load(X)
  BY <1>2
<1>4. \A k \in DOMAIN loads : loads[k].mine \in BOOLEAN
  BY <1>3 DEF Load
<1>5. ASSUME UNCHANGED <<loads, busy>>
      PROVE  Goal
  BY <1>1, <1>2, <1>5 DEF LoadsOK
<1>6. ASSUME NEW then \in {None, "send"}, refresh(then)
      PROVE  Goal
  <2>1. NewLoad(then).then = then /\ NewLoad(then).mine
    BY DEF NewLoad
  <2>2. /\ \E Y : loads' \in Seq(Load(Y))
        /\ busy' = TRUE /\ Len(loads') \in DOMAIN loads'
        /\ loads'[Len(loads')] = NewLoad(then)
        /\ \A k \in DOMAIN loads' : k # Len(loads') =>
             k \in DOMAIN loads /\ ~loads'[k].mine /\ loads'[k].then = loads[k].then
    <3>1. Len(loads') = Len(loads) + 1 /\ DOMAIN loads' = 1..Len(loads')
      BY <1>2, <1>6, RefreshOf
    <3>2. Len(loads') \in DOMAIN loads'
      BY <1>3, <3>1
    <3>3. QED
      BY <1>2, <1>6, <3>2, RefreshOf
  <2>3. QED
    BY <1>1, <2>1, <2>2 DEF LoadsOK
<1>7. ASSUME NEW k \in DOMAIN loads, End(k)
      PROVE  Goal
  <2>1. loads' = RemoveAt(loads, k) /\ busy' = (busy /\ ~loads[k].mine)
    BY <1>7 DEF End
  <2>2. /\ loads' \in Seq(Load(X)) /\ Len(loads') = Len(loads) - 1
        /\ \A j \in DOMAIN loads' :
             \/ j < k /\ j \in DOMAIN loads /\ loads'[j] = loads[j]
             \/ j >= k /\ j + 1 \in DOMAIN loads /\ loads'[j] = loads[j + 1]
    BY <1>2, <2>1, RemoveAtOf
  <2>3. DOMAIN loads' = 1..(Len(loads) - 1)
    BY <2>2
  <2>4. ASSUME NEW j \in DOMAIN loads'
        PROVE  /\ loads'[j].then \in {None, "init", "send"}
               /\ loads'[j].mine => j = Len(loads') /\ busy /\ ~loads[k].mine
    <3>1. j \in Nat /\ k \in Nat /\ j < Len(loads) /\ k <= Len(loads)
      BY <1>3, <2>3
    <3>2. CASE j < k /\ j \in DOMAIN loads /\ loads'[j] = loads[j]
      BY <1>1, <3>1, <3>2 DEF LoadsOK
    <3>3. CASE j >= k /\ j + 1 \in DOMAIN loads /\ loads'[j] = loads[j + 1]
      <4>1. loads'[j].then \in {None, "init", "send"}
        BY <1>1, <3>3 DEF LoadsOK
      <4>2. ASSUME loads'[j].mine
            PROVE  j + 1 = Len(loads) /\ busy /\ (loads[k].mine => k = j + 1)
        BY <1>1, <3>3, <4>2 DEF LoadsOK
      <4>3. ASSUME loads'[j].mine
            PROVE  j = Len(loads') /\ ~loads[k].mine
        <5>1. j + 1 = Len(loads) /\ (loads[k].mine => k = j + 1)
          BY <4>2, <4>3
        <5>2. k # j + 1 /\ (j + 1 = Len(loads) => j = Len(loads) - 1)
          BY <1>3, <3>1, <3>3
        <5>3. QED
          BY <2>2, <5>1, <5>2
      <4>4. QED
        BY <4>1, <4>2, <4>3
    <3>4. QED
      BY <2>2, <3>2, <3>3
  <2>5. ASSUME busy, ~loads[k].mine
        PROVE  \E j \in DOMAIN loads' : loads'[j].mine
    <3>1. PICK i \in DOMAIN loads : loads[i].mine
      BY <1>1, <2>5 DEF LoadsOK
    <3>2. i = Len(loads) /\ i # k
      BY <1>1, <2>5, <3>1 DEF LoadsOK
    <3>3. k < Len(loads) /\ i - 1 \in DOMAIN loads' /\ i - 1 >= k
      BY <1>3, <2>3, <3>2
    <3>4. loads'[i - 1] = loads[i]
      <4>1. ~(i - 1 < k) /\ (i - 1) + 1 = i
        BY <1>3, <3>3
      <4>2. QED
        BY <2>2, <3>3, <4>1
    <3>5. QED
      BY <3>1, <3>3, <3>4
  <2>6. QED
    BY <1>1, <1>4, <2>1, <2>2, <2>4, <2>5 DEF LoadsOK
<1>8. ASSUME NEW k \in DOMAIN loads, busy' = busy,
             \E Z : loads' \in Seq(Load(Z)),
             Len(loads') = Len(loads) /\ DOMAIN loads' = DOMAIN loads,
             loads'[k].mine = loads[k].mine /\ loads'[k].then = loads[k].then,
             \A j \in DOMAIN loads : j # k => loads'[j] = loads[j]
      PROVE  Goal
  <2>1. \A j \in DOMAIN loads : loads'[j].mine = loads[j].mine /\ loads'[j].then = loads[j].then
    BY <1>8
  <2>2. QED
    BY <1>1, <1>8, <2>1 DEF LoadsOK
<1>9. ASSUME NEW k \in DOMAIN loads, NEW pc, NEW of, Go(k, pc, of)
      PROVE  Goal
  <2>1. busy' = busy
    BY <1>9 DEF Go
  <2> HIDE DEF Goal
  <2>2. QED
    BY <1>2, <1>8, <1>9, <2>1, GoOf
<1>10. ASSUME NEW k \in DOMAIN loads, ViewServe(k)
       PROVE  Goal
  <2>1. busy' = busy
    BY <1>10 DEF ViewServe
  <2> HIDE DEF Goal
  <2>2. QED
    BY <1>1, <1>2, <1>8, <1>10, <2>1, ServeOf
<1>11. Goal
  <2> HIDE DEF Goal
  <2>1. QED
    BY <1>5, <1>6, <1>7, <1>9, <1>10, LoadsKinds
<1>12. QED
  BY <1>11

-----------------------------------------------------------------------------
(***************************************************************************)
(* The writes                                                              *)
(***************************************************************************)
\* What a load does beside loading: what awaited it goes on.
LEMMA LoadResumes ==
  ASSUME IInv, NEW k \in DOMAIN loads, LoadStep(k) \/ LoadFails(k)
  PROVE  /\ UNCHANGED polls \/ pollAsks
         /\ UNCHANGED <<draftVars, sending, out>> \/ Settle
<1> DEFINE Goal == /\ UNCHANGED polls \/ pollAsks
                   /\ UNCHANGED <<draftVars, sending, out>> \/ Settle
<1>1. ASSUME NEW then \in {None, "init", "send"}, Resume(then)
      PROVE  Goal
  <2>1. None # "init" /\ None # "send"
    BY WebAssumption
  <2>2. CASE then = None
    BY <1>1, <2>1, <2>2 DEF Resume
  <2>3. CASE then = "init"
    BY <1>1, <2>1, <2>3 DEF Resume
  <2>4. CASE then = "send"
    BY <1>1, <2>1, <2>4 DEF Resume
  <2>5. QED
    BY <2>2, <2>3, <2>4
<1>2. ASSUME End(k)
      PROVE  Goal
  <2>1. loads[k].then \in {None, "init", "send"} /\ Resume(loads[k].then)
    BY <1>2 DEF End, IInv, LoadsOK
  <2> HIDE DEF Goal
  <2>2. QED
    BY <1>1, <2>1
<1>3. ASSUME UNCHANGED <<polls, draftVars, sending, out>>
      PROVE  Goal
  BY <1>3
<1> HIDE DEF Goal
<1>4. Goal
  BY <1>2, <1>3 DEF LoadStep, BoardsLand, ViewServe, ViewLand, ThenSessions, SessionsLand,
     LoadFails, Go
<1>5. QED
  BY <1>4 DEF Goal

\* A write under way is one the page sends, and its flag is up while it is of a draft.
LEMMA WritesStep ==
  ASSUME IInv, [Next]_vars
  PROVE  (\E X : out \in [kind: X, target: X, closing: BOOLEAN, pc: X])' /\ WritesOK'
<1> DEFINE W(X) == [kind: X, target: X, closing: BOOLEAN, pc: X]
           Goal == (\E X : out' \in W(X)) /\ WritesOK'
<1>1. WritesOK /\ board \in Boards \cup {None}
  BY DEF IInv, SelectionOK
<1>2. PICK X : out \in W(X)
  BY DEF IInv, ShapesOK
<1>3. /\ None \notin {"post", "reply", "inline", "resolve", "delete", "session"}
      /\ NoWrite.kind = None
  BY WebAssumption DEF NoWrite
<1>4. ASSUME UNCHANGED <<sending, out>>
      PROVE  Goal
  BY <1>1, <1>2, <1>4 DEF WritesOK
<1>5. ASSUME out' = NoWrite, sending' = (sending /\ out.kind \notin Drafted)
      PROVE  Goal
  <2>1. out' \in W({None, "none"})
    BY <1>5 DEF NoWrite
  <2>2. sending' = FALSE /\ out'.kind = None
    BY <1>1, <1>3, <1>5 DEF WritesOK
  <2>3. QED
    BY <1>3, <1>5, <2>1, <2>2 DEF WritesOK, Drafted
<1>6. ASSUME NEW kind \in {"post", "reply", "inline", "resolve", "delete", "session"},
             NEW target, NEW closing \in BOOLEAN, kind = "post" => target \in Boards,
             out = NoWrite, sending' = (sending \/ kind \in Drafted),
             out' = [kind |-> kind, target |-> target, closing |-> closing, pc |-> "sent"]
      PROVE  Goal
  <2>1. out' \in W({kind, target, "sent"})
    BY <1>6
  <2>2. sending = FALSE
    BY <1>1, <1>3, <1>6 DEF WritesOK, Drafted
  <2>3. out'.kind = kind /\ out'.target = target
    BY <1>6
  <2>4. sending' \in BOOLEAN /\ (sending' <=> kind \in Drafted)
    BY <1>6, <2>2
  <2>5. QED
    BY <1>6, <2>1, <2>3, <2>4 DEF WritesOK
<1>7. ASSUME NEW kind \in {"post", "reply", "inline", "resolve", "delete"},
             NEW target, NEW closing \in BOOLEAN, kind = "post" => target \in Boards,
             Submit(kind, target, closing)
      PROVE  Goal
  <2> HIDE DEF Goal
  <2>1. QED
    BY <1>6, <1>7 DEF Submit
<1>8. ASSUME NEW pc \in {"ok", "refused", "reload"}, sending' = sending, out # NoWrite,
             out' = [out EXCEPT !.pc = pc]
      PROVE  Goal
  <2>1. out' \in W(X \cup {pc})
    BY <1>2, <1>8
  <2>2. out'.kind = out.kind /\ out'.target = out.target
    BY <1>2, <1>8
  <2>3. QED
    BY <1>1, <1>8, <2>1, <2>2 DEF WritesOK
<1> HIDE DEF Goal
<1>9. ASSUME NEW k \in DOMAIN loads, LoadStep(k) \/ LoadFails(k)
      PROVE  Goal
  BY <1>4, <1>5, <1>9, LoadResumes DEF Settle
<1>10. ASSUME GiveUp
       PROVE  Goal
  BY <1>5, <1>10 DEF GiveUp
<1>11. ASSUME Writes
       PROVE  Goal
  <2>1. CASE doPost
    BY <1>1, <1>7, <2>1 DEF doPost
  <2>2. CASE doReply \/ doInlineReply
    BY <1>7, <2>2 DEF doReply, doInlineReply
  <2>3. ASSUME NEW i \in 1..seq, doResolve(i) \/ doDeletePost(i) \/ doDeleteThread(i)
        PROVE  Goal
    BY <1>7, <2>3 DEF doResolve, doDeletePost, doDeleteThread
  <2>4. ASSUME NEW s \in sessions, doDeleteSession(s)
        PROVE  Goal
    <3>1. sending' = (sending \/ "session" \in Drafted)
      BY <1>1, <2>4 DEF doDeleteSession, Drafted, WritesOK
    <3>2. QED
      BY <1>6, <2>4, <3>1 DEF doDeleteSession
  <2>5. ASSUME TypeReply \/ \E i \in 1..seq : openInline(i)
        PROVE  Goal
    BY <1>4, <2>5 DEF TypeReply, openInline
  <2>6. QED
    BY <1>11, <2>1, <2>2, <2>3, <2>4, <2>5 DEF Writes
<1>12. ASSUME NEW d \in Drafts, WriteServe(d)
       PROVE  Goal
  <2>1. out # NoWrite /\ sending' = sending
    BY <1>12 DEF WriteServe, NoWrite
  <2>2. out' = [out EXCEPT !.pc = "ok"] \/ out' = [out EXCEPT !.pc = "refused"]
    BY <1>12 DEF WriteServe
  <2>3. QED
    BY <1>8, <2>1, <2>2
<1>13. ASSUME WriteLand
       PROVE  Goal
  <2>1. out # NoWrite
    BY <1>13 DEF WriteLand, NoWrite
  <2>2. QED
    BY <1>8, <1>13, <2>1 DEF WriteLand
<1>14. ASSUME \/ UNCHANGED vars \/ AgentWrites \/ \E f \in BOOLEAN : PostLocated(f) \/ Tick(f)
              \/ \E k \in DOMAIN polls : PollLand(k) \/ PollFails(k)
       PROVE  Goal
  BY <1>4, <1>14 DEF vars, AgentWrites, PostLocated, Tick, PollLand, PollFails
<1>15. ASSUME Looks
       PROVE  Goal
  BY <1>4, <1>15 DEF Looks, go, TypeSearch, runSearch, pickBoard, pickSession, ClickThread,
     onHashChange, openPost, Dismiss, Permit, Navigate
<1>16. Goal
  BY <1>9, <1>10, <1>11, <1>12, <1>13, <1>14, <1>15 DEF Next, Answered, Lost, WriteRefused, WriteFails
<1>17. QED
  BY <1>16 DEF Goal

-----------------------------------------------------------------------------
(***************************************************************************)
(* The asks                                                                *)
(***************************************************************************)
\* What the server sends of posts that are there, and that stays so.
LEMMA WiresOf ==
  ASSUME LogOK, NEW S \in SUBSET DOMAIN posts
  PROVE  Wires(postsJSON(S)) /\ DOMAIN postsJSON(S) = S
BY DEF Wires, postsJSON, toPostJSON, Parent, LogOK, LogTypeOK, Post

LEMMA WiresKept ==
  ASSUME IInv, [Next]_vars, NEW f, Wires(f)
  PROVE  Wires(f)'
<1>1. seq \in Nat /\ seq' \in Nat /\ seq <= seq'
  BY LogStep
<1>2. 1..seq \subseteq 1..seq'
  BY <1>1
<1>3. QED
  BY <1>2 DEF Wires

\* What becomes of the polls: nothing, one more, or one less.
LEMMA PollsKinds ==
  ASSUME IInv, [Next]_vars
  PROVE  UNCHANGED polls \/ pollAsks \/ \E k \in DOMAIN polls : polls' = RemoveAt(polls, k)
<1> DEFINE Goal == UNCHANGED polls \/ pollAsks \/ \E k \in DOMAIN polls : polls' = RemoveAt(polls, k)
<1>1. ASSUME NEW k \in DOMAIN loads, LoadStep(k) \/ LoadFails(k)
      PROVE  Goal
  BY <1>1, LoadResumes
<1>2. ASSUME NEW k \in DOMAIN polls, PollLand(k) \/ PollFails(k)
      PROVE  Goal
  BY <1>2 DEF PollLand, PollFails
<1>3. ASSUME \E f \in BOOLEAN : PostLocated(f) \/ Tick(f)
      PROVE  Goal
  BY <1>3 DEF PostLocated, Tick
<1>4. ASSUME Looks
      PROVE  Goal
  BY <1>4 DEF Looks, go, TypeSearch, runSearch, pickBoard, pickSession, ClickThread, onHashChange,
              openPost, Dismiss, Permit, Navigate
<1>5. ASSUME Writes
      PROVE  Goal
  BY <1>5 DEF Writes, TypeReply, openInline, doPost, doReply, doInlineReply, doResolve,
              doDeletePost, doDeleteThread, doDeleteSession, Submit
<1>6. ASSUME UNCHANGED vars \/ AgentWrites \/ GiveUp \/ WriteLand \/ \E d \in Drafts : WriteServe(d)
      PROVE  Goal
  BY <1>6 DEF vars, AgentWrites, GiveUp, WriteLand, WriteServe
<1> HIDE DEF Goal
<1>7. Goal
  BY <1>1, <1>2, <1>3, <1>4, <1>5, <1>6 DEF Next, Answered, Lost, WriteRefused, WriteFails
<1>8. QED
  BY <1>7 DEF Goal

\* The asks change when a poll lands, and the notifications are also closed.
LEMMA AsksFrame ==
  ASSUME [Next]_vars
  PROVE  \/ UNCHANGED askVars
         \/ /\ UNCHANGED <<asks, seenAskIds, told, muted>>
            /\ granted' \in {granted, ~granted} /\ \E i : askNotes' \in {askNotes, askNotes \ {i}}
         \/ \E k \in DOMAIN polls : PollLand(k)
<1> DEFINE Goal == \/ UNCHANGED askVars
                   \/ /\ UNCHANGED <<asks, seenAskIds, told, muted>>
                      /\ granted' \in {granted, ~granted}
                      /\ \E i : askNotes' \in {askNotes, askNotes \ {i}}
                   \/ \E k \in DOMAIN polls : PollLand(k)
<1>1. ASSUME Looks
      PROVE  Goal
  BY <1>1 DEF Looks, go, TypeSearch, runSearch, pickBoard, pickSession, ClickThread, onHashChange,
              openPost, Dismiss, Permit, Navigate
<1>2. ASSUME Writes
      PROVE  Goal
  BY <1>2 DEF Writes, TypeReply, openInline, doPost, doReply, doInlineReply, doResolve,
              doDeletePost, doDeleteThread, doDeleteSession, Submit
<1>3. ASSUME Answered
      PROVE  Goal
  BY <1>3 DEF Answered, LoadStep, BoardsLand, ViewServe, ViewLand, SessionsLand,
              WriteServe, WriteLand, WriteRefused, GiveUp, PostLocated
<1>4. ASSUME Lost
      PROVE  Goal
  BY <1>4 DEF Lost, LoadFails, PollFails, WriteFails, GiveUp, PostLocated
<1>5. ASSUME UNCHANGED vars \/ AgentWrites \/ \E h \in BOOLEAN : Tick(h)
      PROVE  Goal
  BY <1>5 DEF vars, AgentWrites, Tick
<1> HIDE DEF Goal
<1>6. Goal
  BY <1>1, <1>2, <1>3, <1>4, <1>5 DEF Next
<1>7. QED
  BY <1>6 DEF Goal

\* A poll that lands leaves seen what it notified, and notifies only what was not.
LEMMA PollLands ==
  ASSUME IInv, NEW k \in DOMAIN polls, PollLand(k)
  PROVE  /\ asks' = polls[k] /\ askNotes' \subseteq DOMAIN asks'
         /\ seenAskIds' \in SUBSET (1..seq) /\ told' \cup muted' = seenAskIds'
         /\ granted' = granted /\ (askNotes' \ askNotes) \cap told = {}
<1> DEFINE live == DOMAIN polls[k]
           new == IF seenAskIds = Unseeded THEN {} ELSE live \ seenAskIds
<1>1. live \in SUBSET (1..seq)
  BY DEF IInv, AsksOK, Wires
<1>2. /\ asks' = polls[k]
      /\ seenAskIds' = IF seenAskIds = Unseeded THEN live ELSE seenAskIds \cup new
      /\ askNotes' = (askNotes \cap live) \cup Notified(new)
      /\ told' = told \cup Notified(new) \cup (IF seenAskIds = Unseeded THEN live ELSE {})
      /\ muted' = muted \cup (new \ Notified(new))
      /\ granted' = granted
  BY DEF PollLand
<1>3. \/ seenAskIds = Unseeded /\ told = {} /\ muted = {}
      \/ seenAskIds # Unseeded /\ seenAskIds \in SUBSET (1..seq) /\ told \cup muted = seenAskIds
  BY DEF IInv, AsksOK, Unseeded
<1>4. PICK heard : heard = Notified(new) /\ heard \subseteq new
  <2>1. Notified(new) \subseteq new
    <3> HIDE DEF new
    <3>1. QED
      BY DEF Notified
  <2>2. QED
    BY <2>1
<1> HIDE DEF live
<1>5. CASE seenAskIds = Unseeded
  <2>1. new = {} /\ heard = {}
    BY <1>4, <1>5
  <2>2. QED
    BY <1>1, <1>2, <1>3, <1>4, <1>5, <2>1 DEF live, Unseeded
<1>6. CASE seenAskIds # Unseeded
  <2>1. PICK n : n = new /\ n = live \ seenAskIds
    BY <1>6
  <2>2. /\ seenAskIds' = seenAskIds \cup n /\ told' = told \cup heard
        /\ muted' = muted \cup (n \ heard) /\ askNotes' = (askNotes \cap live) \cup heard
    BY <1>2, <1>4, <1>6, <2>1
  <2>3. seenAskIds' \in SUBSET (1..seq) /\ told' \cup muted' = seenAskIds'
    BY <1>1, <1>3, <1>4, <1>6, <2>1, <2>2
  <2>4. askNotes' \subseteq live /\ (askNotes' \ askNotes) \cap told = {}
    BY <1>3, <1>4, <1>6, <2>1, <2>2
  <2>5. QED
    BY <1>2, <2>3, <2>4 DEF live
<1>7. QED
  BY <1>5, <1>6

\* What is on the wire are posts, and what has been notified is what is remembered.
LEMMA AsksStep ==
  ASSUME IInv, [Next]_vars
  PROVE  (\E X : polls \in Seq(X))' /\ AsksOK'
<1>1. AsksOK /\ LogOK /\ seq \in Nat /\ seq' \in Nat /\ seq <= seq'
  BY LogStep DEF IInv
<1>2. PICK X : polls \in Seq(X)
  BY DEF IInv, ShapesOK
<1>3. \A f : Wires(f) => Wires(f)'
  BY WiresKept
<1> DEFINE Polls == (\E Y : polls' \in Seq(Y)) /\ (\A k \in DOMAIN polls : Wires(polls[k]))'
<1>4. Polls
  <2>1. CASE UNCHANGED polls
    BY <1>1, <1>2, <1>3, <2>1 DEF AsksOK, Wires
  <2>2. CASE pollAsks
    <3>1. PICK f : f = postsJSON(AsksForHuman)
      OBVIOUS
    <3>2. Wires(f)
      <4>1. AsksForHuman \in SUBSET DOMAIN posts
        BY DEF AsksForHuman
      <4>2. QED
        BY <1>1, <3>1, <4>1, WiresOf
    <3>3. polls' = Append(polls, f) /\ polls \in Seq(X \cup {f}) /\ f \in X \cup {f}
      <4>1. polls' = Append(polls, f)
        BY <2>2, <3>1 DEF pollAsks
      <4>2. polls = [j \in 1..Len(polls) |-> polls[j]] /\ Len(polls) \in Nat
            /\ \A j \in 1..Len(polls) : polls[j] \in X \cup {f}
        BY <1>2
      <4>3. polls \in [1..Len(polls) -> X \cup {f}]
        BY <4>2
      <4>4. QED
        BY <4>1, <4>2, <4>3
    <3>4. polls' \in Seq(X \cup {f})
      BY <3>3
    <3>5. \A k \in DOMAIN polls' : (k \in DOMAIN polls /\ polls'[k] = polls[k]) \/ polls'[k] = f
      BY <3>3
    <3>6. QED
      BY <1>1, <1>3, <3>2, <3>4, <3>5 DEF AsksOK, Wires
  <2>3. ASSUME NEW k \in DOMAIN polls, polls' = RemoveAt(polls, k)
        PROVE  Polls
    <3>1. polls' \in Seq(X) /\ \A j \in DOMAIN polls' : \E i \in DOMAIN polls : polls'[j] = polls[i]
      BY <1>2, <2>3, RemoveAtOf
    <3>2. QED
      BY <1>1, <1>3, <3>1 DEF AsksOK, Wires
  <2>4. QED
    BY <2>1, <2>2, <2>3, PollsKinds
<1> HIDE DEF Polls
<1>5. Wires(asks)' /\ (askNotes \subseteq DOMAIN asks)'
  <2>1. CASE \/ UNCHANGED askVars
             \/ /\ UNCHANGED <<asks, seenAskIds, told, muted>>
                /\ \E i : askNotes' \in {askNotes, askNotes \ {i}}
    <3>1. asks' = asks /\ askNotes' \subseteq askNotes
      BY <2>1 DEF askVars
    <3>2. Wires(asks)'
      BY <1>1, <1>3, <3>1 DEF AsksOK
    <3>3. QED
      BY <1>1, <3>1, <3>2 DEF AsksOK
  <2>2. ASSUME NEW k \in DOMAIN polls, PollLand(k)
        PROVE  Wires(asks)' /\ (askNotes \subseteq DOMAIN asks)'
    <3>1. asks' = polls[k] /\ askNotes' \subseteq DOMAIN asks' /\ Wires(polls[k])
      BY <1>1, <2>2, PollLands DEF AsksOK
    <3>2. QED
      BY <1>3, <3>1
  <2>3. QED
    BY <2>1, <2>2, AsksFrame
<1>6. (/\ \/ seenAskIds = Unseeded /\ told = {} /\ muted = {}
          \/ seenAskIds \in SUBSET (1..seq) /\ told \cup muted = seenAskIds
       /\ granted \in BOOLEAN)'
  <2>1. 1..seq \subseteq 1..seq'
    BY <1>1
  <2>2. CASE UNCHANGED <<seenAskIds, told, muted>> /\ granted' \in {granted, ~granted}
    BY <1>1, <2>1, <2>2 DEF AsksOK, Unseeded
  <2>3. ASSUME NEW k \in DOMAIN polls, PollLand(k)
        PROVE  /\ seenAskIds' \in SUBSET (1..seq') /\ told' \cup muted' = seenAskIds'
               /\ granted' \in BOOLEAN
    BY <1>1, <2>1, <2>3, PollLands DEF AsksOK
  <2>4. QED
    BY <2>2, <2>3, AsksFrame DEF askVars
<1>7. QED
  BY <1>4, <1>5, <1>6 DEF AsksOK, Polls

\* The parent of a reply that is being located is a post's number.
LEMMA OpeningStep ==
  ASSUME IInv, [Next]_vars
  PROVE  opening'.parent \in Nat
<1>1. opening.parent \in Nat /\ NoPost.parent \in Nat
  BY DEF IInv, NoPost
<1>2. ASSUME NEW i \in 1..seq, openPost(i)
      PROVE  opening'.parent \in Nat
  <2>1. CASE UNCHANGED opening
    BY <1>1, <2>1
  <2>2. CASE opening'.parent = Offered[i].parent
    <3> DEFINE g == IF view \in {"search", "inbox", "myposts"} /\ pane[view].data # None
                    THEN pane[view].data ELSE [j \in {} |-> {}]
    <3>1. Offered = [j \in askNotes \cup DOMAIN g |-> IF j \in askNotes THEN asks[j] ELSE g[j]]
      BY DEF Offered
    <3>2. i \in DOMAIN Offered
      BY <1>2 DEF openPost
    <3>3. \A j \in askNotes : asks[j].parent \in Nat
      BY DEF IInv, AsksOK, Wires
    <3>4. \A j \in DOMAIN g : g[j].parent \in Nat
      <4>1. CASE view \in PostLists /\ pane[view].data # None
        <5>1. Wires(pane[view].data)
          BY <4>1 DEF IInv, PanesOK, SelectionOK
        <5>2. g = pane[view].data
          BY <4>1 DEF PostLists
        <5>3. QED
          BY <5>1, <5>2 DEF Wires
      <4>2. CASE ~(view \in PostLists /\ pane[view].data # None)
        BY <4>2 DEF PostLists
      <4>3. QED
        BY <4>1, <4>2
    <3> HIDE DEF g
    <3>5. QED
      BY <2>2, <3>1, <3>2, <3>3, <3>4
  <2>3. QED
    BY <1>2, <2>1, <2>2 DEF openPost
<1>3. ASSUME UNCHANGED opening \/ opening' = NoPost
      PROVE  opening'.parent \in Nat
  BY <1>1, <1>3
<1>4. CASE Looks
  BY <1>2, <1>3, <1>4 DEF Looks, go, TypeSearch, runSearch, pickBoard, pickSession, ClickThread,
     onHashChange, Dismiss, Permit, Navigate
<1>5. CASE Writes
  BY <1>3, <1>5 DEF Writes, TypeReply, openInline, doPost, doReply, doInlineReply, doResolve,
              doDeletePost, doDeleteThread, doDeleteSession, Submit
<1>6. CASE Answered
  BY <1>3, <1>6 DEF Answered, LoadStep, BoardsLand, ViewServe, ViewLand, SessionsLand, PollLand,
              WriteServe, WriteLand, WriteRefused, GiveUp, PostLocated
<1>7. CASE Lost
  BY <1>3, <1>7 DEF Lost, LoadFails, PollFails, WriteFails, GiveUp, PostLocated
<1>8. CASE UNCHANGED vars \/ AgentWrites \/ \E h \in BOOLEAN : Tick(h)
  BY <1>3, <1>8 DEF vars, AgentWrites, Tick
<1>9. QED
  BY <1>4, <1>5, <1>6, <1>7, <1>8 DEF Next

-----------------------------------------------------------------------------
(***************************************************************************)
(* The panes                                                               *)
(***************************************************************************)
\* Posts of the open thread stay posts of it while it is open.
LEMMA OfThreadKept ==
  ASSUME IInv, [Next]_vars, threadId' = threadId, NEW S, OfThread(S)
  PROVE  OfThread(S)'
<1>1. Kept /\ seq \in Nat /\ seq' \in Nat /\ seq <= seq'
  BY LogStep
<1>2. ASSUME NEW i \in S
      PROVE  i \in 1..seq' /\ (i \in DOMAIN posts' => i \in Beneath({threadId})')
  <2>1. i \in 1..seq /\ (i \in DOMAIN posts => i \in Beneath({threadId}))
    BY DEF OfThread
  <2>2. ASSUME i \in DOMAIN posts'
        PROVE  i \in Beneath({threadId})'
    <3>1. i \in DOMAIN posts /\ Path(DOMAIN posts, i)' = Path(DOMAIN posts, i)
      BY <1>1, <2>1, <2>2 DEF Kept
    <3>2. Path(DOMAIN posts, i) \cap {threadId} # {}
      BY <2>1, <3>1 DEF Beneath
    <3>3. QED
      BY <2>2, <3>1, <3>2 DEF Beneath
  <2>3. QED
    BY <1>1, <2>1, <2>2
<1>3. QED
  BY <1>2 DEF OfThread

\* Asking for the sessions, or that there are none to ask for, drops the filter at most.
LEMMA ThenPicks ==
  ASSUME NEW k \in DOMAIN loads, ThenSessions(k)
  PROVE  UNCHANGED <<view, board, threadId>> /\ session' \in {session, None}
BY DEF ThenSessions, NoSessions, picked

\* What the page shows changes in four ways: not at all, a thread is left, or a load lands.
LEMMA PanesKinds ==
  ASSUME IInv, [Next]_vars
  PROVE  \/ UNCHANGED <<pane, threadId>>
         \/ /\ pane' = [pane EXCEPT !.thread = Cleared]
            /\ threadId' = threadId \/ (reply' = 0 /\ inline' = 0)
         \/ /\ Blank /\ view # "thread"
            /\ UNCHANGED <<view, board, threadId, q>> /\ session' \in {session, None}
            /\ pane' = [pane EXCEPT ![view] = Shown(Selected, Answer(Selected), Now)]
         \/ /\ UNCHANGED <<view, board, threadId, box>> /\ session' \in {session, None}
            /\ \E k \in DOMAIN loads :
                 LET l == loads[k] IN
                 /\ l.pc = "view" /\ l.mine /\ l.data \notin {None, Refused}
                 /\ pane' = [pane EXCEPT ![l.of.view] = Shown(l.of, l.data, l.at)]
<1> DEFINE Goal ==
      \/ UNCHANGED <<pane, threadId>>
      \/ /\ pane' = [pane EXCEPT !.thread = Cleared]
         /\ threadId' = threadId \/ (reply' = 0 /\ inline' = 0)
      \/ /\ Blank /\ view # "thread"
         /\ UNCHANGED <<view, board, threadId, q>> /\ session' \in {session, None}
         /\ pane' = [pane EXCEPT ![view] = Shown(Selected, Answer(Selected), Now)]
      \/ /\ UNCHANGED <<view, board, threadId, box>> /\ session' \in {session, None}
         /\ \E k \in DOMAIN loads :
              LET l == loads[k] IN
              /\ l.pc = "view" /\ l.mine /\ l.data \notin {None, Refused}
              /\ pane' = [pane EXCEPT ![l.of.view] = Shown(l.of, l.data, l.at)]
<1> SUFFICES Goal
  OBVIOUS
<1>1. ASSUME UNCHANGED <<pane, threadId>>
      PROVE  Goal
  BY <1>1
<1>2. ASSUME NEW i, openThread(i)
      PROVE  Goal
  BY <1>2 DEF openThread
<1>3. ASSUME NEW r, applyRoute(r)
      PROVE  Goal
  BY <1>3 DEF applyRoute
<1>4. ASSUME NEW k \in DOMAIN loads, BoardsLand(k)
      PROVE  Goal
  <2>1. CASE loads[k].mine /\ Blank
    <3>1. UNCHANGED <<view, board, threadId, q>> /\ session' \in {session, None}
      BY <1>4, <2>1, ThenPicks DEF BoardsLand
    <3>2. CASE view = "thread"
      BY <1>1, <1>4, <2>1, <3>1, <3>2 DEF BoardsLand
    <3>3. CASE view # "thread"
      <4>1. pane' = [pane EXCEPT ![view] = Shown(Selected, Answer(Selected), Now)]
        BY <1>4, <2>1, <3>3 DEF BoardsLand
      <4>2. QED
        BY <2>1, <3>1, <3>3, <4>1
    <3>4. QED
      BY <3>2, <3>3
  <2>2. CASE ~(loads[k].mine /\ Blank)
    BY <1>1, <1>4, <2>2 DEF BoardsLand, selection, picked
  <2>3. QED
    BY <2>1, <2>2
<1>5. ASSUME NEW k \in DOMAIN loads, ViewLand(k)
      PROVE  Goal
  <2>1. CASE loads[k].data = Refused
    BY <1>1, <1>5, <2>1 DEF ViewLand, selection, picked
  <2>2. CASE loads[k].data # Refused
    <3>1. UNCHANGED <<view, board, threadId, box>> /\ session' \in {session, None}
      BY <1>5, <2>2, ThenPicks DEF ViewLand
    <3>2. CASE ~loads[k].mine
      BY <1>1, <1>5, <2>2, <3>1, <3>2 DEF ViewLand
    <3>3. CASE loads[k].mine
      <4>1. loads[k].pc = "view" /\ loads[k].data \notin {None, Refused}
        BY <1>5, <2>2 DEF ViewLand
      <4>2. pane' = [pane EXCEPT ![loads[k].of.view] = Shown(loads[k].of, loads[k].data, loads[k].at)]
        BY <1>5, <2>2, <3>3 DEF ViewLand
      <4>3. QED
        BY <3>1, <3>3, <4>1, <4>2
    <3>4. QED
      BY <3>2, <3>3
  <2>3. QED
    BY <2>1, <2>2
<1>6. ASSUME NEW i \in 1..seq, doDeletePost(i)
      PROVE  Goal
  BY <1>6 DEF doDeletePost, Submit
<1> HIDE DEF Goal
<1>7. CASE Looks
  BY <1>1, <1>2, <1>3, <1>7 DEF Looks, go, TypeSearch, runSearch, pickBoard, pickSession,
     ClickThread, onHashChange, openPost, Dismiss, Permit, selection, picked, box
<1>8. CASE Writes
  BY <1>1, <1>6, <1>8 DEF Writes, TypeReply, openInline, doPost, doReply, doInlineReply, doResolve,
                          doDeleteThread, doDeleteSession, Submit, Stay, selection, picked, box
<1>9. CASE Answered
  BY <1>1, <1>2, <1>4, <1>5, <1>9 DEF Answered, LoadStep, ViewServe, SessionsLand, PollLand,
                 WriteServe, WriteLand, WriteRefused, GiveUp, PostLocated, selection, picked, box
<1>10. CASE Lost
  BY <1>1, <1>2, <1>10 DEF Lost, LoadFails, PollFails, WriteFails, GiveUp, PostLocated, selection, picked, box
<1>11. CASE UNCHANGED vars \/ AgentWrites \/ \E h \in BOOLEAN : Tick(h)
  BY <1>1, <1>11 DEF vars, AgentWrites, Tick, selection, picked, box
<1>12. QED
  BY <1>7, <1>8, <1>9, <1>10, <1>11 DEF Next

\* A view shows something else.
LEMMA ShownOf ==
  ASSUME NEW X, pane \in [Views -> Pane(X)], NEW v \in Views, NEW of, NEW data, NEW at \in Nat,
         pane' = [pane EXCEPT ![v] = Shown(of, data, at)]
  PROVE  /\ \E Y : pane' \in [Views -> Pane(Y)]
         /\ pane'[v].of = of /\ pane'[v].data = data /\ pane'[v].at = at
         /\ \A w \in Views : w # v => pane'[w] = pane[w]
<1>1. PICK p : p = Shown(of, data, at)
  OBVIOUS
<1>2. p \in Pane(X \cup {of, data}) /\ p.of = of /\ p.data = data /\ p.at = at
  BY <1>1 DEF Shown, Pane
<1>3. \A r \in Pane(X) : r \in Pane(X \cup {of, data})
  BY DEF Pane
<1>4. pane' = [pane EXCEPT ![v] = p]
  BY <1>1
<1>5. pane' \in [Views -> Pane(X \cup {of, data})]
  BY <1>2, <1>3, <1>4
<1>6. pane'[v] = p /\ \A w \in Views : w # v => pane'[w] = pane[w]
  BY <1>4
<1>7. QED
  BY <1>2, <1>5, <1>6

\* A view that is left shows nothing.
LEMMA ClearedOf ==
  ASSUME NEW X, pane \in [Views -> Pane(X)], pane' = [pane EXCEPT !.thread = Cleared]
  PROVE  /\ \E Y : pane' \in [Views -> Pane(Y)]
         /\ pane'["thread"] = Cleared /\ Cleared.data = None /\ Cleared.at = 0
         /\ \A w \in Views : w # "thread" => pane'[w] = pane[w]
<1>1. "thread" \in Views
  BY WebAssumption
<1>2. PICK of : of = Query(None, None, None, 0, None)
  OBVIOUS
<1>3. Cleared = Shown(of, None, 0) /\ Cleared.data = None /\ Cleared.at = 0
  BY <1>2 DEF Cleared, Shown
<1>4. pane' = [pane EXCEPT !["thread"] = Shown(of, None, 0)] /\ pane'["thread"] = Cleared
  BY <1>1, <1>3
<1>5. QED
  BY <1>1, <1>3, <1>4, ShownOf

\* What the server answers is what was asked for, of the table as it is.
LEMMA AnswerOf ==
  ASSUME IInv, NEW of, of.view \in Views, Fits(of)
  PROVE  Answer(of) \notin {None, Refused} =>
           /\ of.view \in PostLists => Wires(Answer(of))
           /\ of.view = "thread" => OfThread(DOMAIN Answer(of))
<1>1. LogOK
  BY DEF IInv
<1>2. ASSUME of.view \in PostLists
      PROVE  Wires(Answer(of))
  <2>1. ASSUME NEW S \in SUBSET DOMAIN posts
        PROVE  Wires(postsJSON(Newest(S)))
    <3>1. Newest(S) \in SUBSET DOMAIN posts
      BY DEF Newest
    <3>2. QED
      BY <1>1, <3>1, WiresOf
  <2>2. CASE of.view = "search"
    <3>1. CASE of.words = None
      <4>1. Answer(of) = postsJSON({})
        BY <2>2, <3>1 DEF Answer
      <4>2. QED
        BY <1>1, <4>1, WiresOf
    <3>2. CASE of.words # None
      <4>1. Answer(of) = GetSearch(of.words, of.board)
        BY <2>2, <3>2 DEF Answer
      <4>2. {i \in InScope(of.board) : posts[i].draft = of.words /\ Live(i)} \in SUBSET DOMAIN posts
        BY DEF InScope
      <4>3. QED
        BY <2>1, <4>1, <4>2 DEF GetSearch
    <3>3. QED
      BY <3>1, <3>2
  <2>3. CASE of.view = "inbox"
    <3>1. Answer(of) = GetInbox
      BY <2>3 DEF Answer
    <3>2. QED
      BY <2>1, <3>1 DEF GetInbox
  <2>4. CASE of.view = "myposts"
    <3>1. Answer(of) = GetMyPosts(of.board)
      BY <2>4 DEF Answer
    <3>2. {i \in InScope(of.board) : posts[i].author = Human} \in SUBSET DOMAIN posts
      BY DEF InScope
    <3>3. QED
      BY <2>1, <3>1, <3>2 DEF GetMyPosts
  <2>5. QED
    BY <1>2, <2>2, <2>3, <2>4 DEF PostLists
<1>3. ASSUME of.view = "thread", Answer(of) # Refused
      PROVE  OfThread(DOMAIN Answer(of))
  <2>1. Answer(of) = GetThread(threadId)
    BY <1>3 DEF Answer, Fits
  <2>2. Answer(of) = postsJSON(Beneath({threadId}))
    BY <1>3, <2>1 DEF GetThread
  <2>3. DOMAIN Answer(of) = Beneath({threadId})
    BY <2>2 DEF postsJSON
  <2>4. Beneath({threadId}) \subseteq 1..seq
    BY <1>1 DEF Beneath, LogOK, LogTypeOK
  <2>5. QED
    BY <2>3, <2>4 DEF OfThread
<1>4. QED
  BY <1>2, <1>3

\* What the panes show stays what they should: of ids that were given out, no older
\* than the table, and in the thread's view only posts of the thread.
LEMMA PanesStep ==
  ASSUME IInv, [Next]_vars
  PROVE  (\E X : pane \in [Views -> Pane(X)])' /\ PanesOK'
<1> DEFINE Goal == (\E X : pane' \in [Views -> Pane(X)]) /\ PanesOK'
<1>1. PanesOK /\ LandingOK /\ Now \in Nat /\ Now' \in Nat /\ Now <= Now'
  BY LogStep DEF IInv
<1>2. PICK X : pane \in [Views -> Pane(X)]
  BY DEF IInv, ShapesOK
<1>3. \A v \in Views : pane[v].at \in Nat /\ pane[v].at <= Now'
  <2>1. ASSUME NEW v \in Views
        PROVE  pane[v].at \in Nat /\ pane[v].at <= Now
    BY <1>1, <1>2 DEF PanesOK, Pane
  <2>2. QED
    BY <1>1, <2>1
<1>4. \A f : Wires(f) => Wires(f)'
  BY WiresKept
<1>5. "thread" \in Views /\ "threads" \in Views /\ "thread" \notin PostLists /\ "threads" \notin PostLists
  BY WebAssumption DEF PostLists
<1>6. ASSUME NEW v \in Views, v \in PostLists, pane[v].data # None
      PROVE  Wires(pane[v].data)
  BY <1>1, <1>6 DEF PanesOK
<1>7. ASSUME threadId' = threadId
      PROVE  \A S : OfThread(S) => OfThread(S)'
  BY <1>7, OfThreadKept
<1>8. ASSUME NEW Y, pane' \in [Views -> Pane(Y)],
             NEW v \in Views, v \notin PostLists,
             \A w \in Views : w # v => pane'[w] = pane[w],
             pane'[v].at <= Now',
             v = "thread" => pane'[v].data = None,
             v # "thread" => threadId' = threadId
      PROVE  Goal
  <2>1. \A w \in Views : pane'[w].at <= Now'
    BY <1>3, <1>8
  <2>2. \A w \in Views : w \in PostLists /\ pane'[w].data # None => \E f : f = pane'[w].data /\ Wires(f)'
    BY <1>4, <1>6, <1>8
  <2>3. pane'["thread"].data # None => \E S : S = DOMAIN pane'["thread"].data /\ OfThread(S)'
    BY <1>1, <1>5, <1>7, <1>8 DEF PanesOK
  <2>4. QED
    BY <1>8, <2>1, <2>2, <2>3 DEF PanesOK, Wires, OfThread
<1>9. ASSUME UNCHANGED <<pane, threadId>>
      PROVE  Goal
  <2>1. \A w \in Views : pane'[w].at <= Now'
    BY <1>3, <1>9
  <2>2. \A w \in Views : w \in PostLists /\ pane'[w].data # None => \E f : f = pane'[w].data /\ Wires(f)'
    BY <1>4, <1>6, <1>9
  <2>3. pane'["thread"].data # None => \E S : S = DOMAIN pane'["thread"].data /\ OfThread(S)'
    BY <1>1, <1>7, <1>9 DEF PanesOK
  <2>4. QED
    BY <1>2, <1>9, <2>1, <2>2, <2>3 DEF PanesOK, Wires, OfThread
<1>10. ASSUME pane' = [pane EXCEPT !.thread = Cleared]
       PROVE  Goal
  <2>1. (\E Y : pane' \in [Views -> Pane(Y)])
        /\ pane'["thread"].data = None /\ pane'["thread"].at = 0
        /\ \A w \in Views : w # "thread" => pane'[w] = pane[w]
    BY <1>2, <1>10, ClearedOf
  <2> HIDE DEF Goal
  <2>2. 0 <= Now'
    BY <1>1
  <2>3. QED
    BY <1>5, <1>8, <2>1, <2>2
<1>11. ASSUME threadId' = threadId, NEW v \in Views, NEW of, NEW data, NEW at \in Nat, at <= Now,
              v \in PostLists => Wires(data), v = "thread" => OfThread(DOMAIN data),
              pane' = [pane EXCEPT ![v] = Shown(of, data, at)]
       PROVE  Goal
  <2>1. /\ \E Y : pane' \in [Views -> Pane(Y)]
        /\ pane'[v].data = data /\ pane'[v].at = at
        /\ \A w \in Views : w # v => pane'[w] = pane[w]
    BY <1>2, <1>11, ShownOf
  <2>2. \A w \in Views : pane'[w].at <= Now'
    BY <1>1, <1>3, <1>11, <2>1
  <2>3. \A w \in Views : w \in PostLists /\ pane'[w].data # None => \E f : f = pane'[w].data /\ Wires(f)'
    BY <1>4, <1>6, <1>11, <2>1
  <2>4. pane'["thread"].data # None => \E S : S = DOMAIN pane'["thread"].data /\ OfThread(S)'
    BY <1>1, <1>5, <1>7, <1>11, <2>1 DEF PanesOK
  <2>5. QED
    BY <2>1, <2>2, <2>3, <2>4 DEF PanesOK, Wires, OfThread
<1>12. ASSUME threadId' = threadId, Blank, view # "thread",
              pane' = [pane EXCEPT ![view] = Shown(Selected, Answer(Selected), Now)]
       PROVE  Goal
  <2>1. PICK of : of = Selected
    OBVIOUS
  <2>2. PICK data : data = Answer(Selected)
    OBVIOUS
  <2>3. PICK n \in Nat : n = Now /\ n <= Now
    BY <1>1
  <2>4. view \in PostLists => Wires(data)
    <3>1. CASE view = "search"
      <4>1. of.view = "search" /\ of.words = None
        BY <1>12, <2>1, <3>1 DEF Blank, Selected, Query
      <4>2. data = postsJSON({})
        BY <2>1, <2>2, <4>1 DEF Answer
      <4>3. QED
        BY <4>2, WiresOf DEF IInv
    <3>2. CASE view # "search"
      BY <1>5, <1>12, <3>2 DEF Blank
    <3>3. QED
      BY <3>1, <3>2
  <2>5. pane' = [pane EXCEPT ![view] = Shown(of, data, n)]
    BY <1>12, <2>1, <2>2, <2>3
  <2>6. view \in Views
    BY DEF IInv, SelectionOK
  <2> HIDE DEF Goal
  <2>7. QED
    BY <1>11, <1>12, <2>3, <2>4, <2>5, <2>6
<1>13. ASSUME threadId' = threadId, NEW k \in DOMAIN loads,
              loads[k].pc = "view" /\ loads[k].mine /\ loads[k].data \notin {None, Refused},
              pane' = [pane EXCEPT ![loads[k].of.view] = Shown(loads[k].of, loads[k].data, loads[k].at)]
       PROVE  Goal
  <2>1. PICK Z : loads \in Seq(Load(Z))
    BY DEF IInv, ShapesOK
  <2>2. loads[k] \in Load(Z)
    BY <2>1
  <2>3. PICK of : of = loads[k].of
    OBVIOUS
  <2>4. PICK data : data = loads[k].data
    OBVIOUS
  <2>5. PICK at \in Nat : at = loads[k].at
    BY <2>2 DEF Load
  <2>6. /\ of.view \in Views /\ at <= Now
        /\ of.view \in PostLists => Wires(data)
        /\ of.view = "thread" => OfThread(DOMAIN data)
    BY <1>1, <1>13, <2>3, <2>4, <2>5 DEF LandingOK, Lands
  <2>7. PICK v \in Views : v = of.view
    BY <2>6
  <2>8. pane' = [pane EXCEPT ![v] = Shown(of, data, at)]
    BY <1>13, <2>3, <2>4, <2>5, <2>7
  <2>9. v \in PostLists => Wires(data)
    BY <2>6, <2>7
  <2>10. v = "thread" => OfThread(DOMAIN data)
    BY <2>6, <2>7
  <2>11. threadId' = threadId /\ at <= Now
    BY <1>13, <2>6
  <2> HIDE DEF Goal
  <2>12. QED
    BY <1>11, <2>7, <2>8, <2>9, <2>10, <2>11
<1> HIDE DEF Goal
<1>14. Goal
  BY <1>9, <1>10, <1>12, <1>13, PanesKinds
<1>15. QED
  BY <1>14 DEF Goal

-----------------------------------------------------------------------------
(***************************************************************************)
(* The answers under way                                                   *)
(***************************************************************************)
\* What is still asked for is still asked for, and what was sent is no newer than before.
LEMMA LandsKept ==
  ASSUME IInv, [Next]_vars, Stays, NEW X, NEW l \in Load(X), Lands(l)
  PROVE  Lands(l)'
<1>1. PanesOK /\ SelectionOK /\ Now \in Nat /\ Now' \in Nat /\ Now <= Now'
  BY LogStep DEF IInv
<1>2. l.at \in Nat
  BY DEF Load
<1>3. PICK of : of = l.of
  OBVIOUS
<1>4. PICK d : d = l.data
  OBVIOUS
<1>5. threadId' = threadId /\ board' = board
  BY DEF Stays
<1>6. ASSUME Fits(of)
      PROVE  Fits(of)'
  <2>1. CASE of.view = "thread"
    BY <1>5, <1>6, <2>1 DEF Fits
  <2>2. CASE of.view # "thread"
    <3>1. of.view = view
      BY <1>6, <2>2 DEF Fits
    <3>2. view' = view /\ session' \in {session, None} /\ (typed' = TRUE \/ UNCHANGED <<q, typed>>)
      BY <2>2, <3>1 DEF Stays
    <3>3. QED
      BY <1>5, <1>6, <3>2, FitsKept
  <2>3. QED
    BY <2>1, <2>2
<1>7. \A v \in Views : pane'[v].at = pane[v].at \/ pane'[v].at = 0
  <2>1. CASE pane' = pane
    BY <2>1
  <2>2. CASE pane' = [pane EXCEPT !.thread = Cleared]
    <3>1. PICK Y : pane \in [Views -> Pane(Y)]
      BY DEF IInv, ShapesOK
    <3>2. pane'["thread"].at = 0 /\ \A w \in Views : w # "thread" => pane'[w] = pane[w]
      BY <2>2, <3>1, ClearedOf
    <3>3. QED
      BY <3>2
  <2>3. QED
    BY <2>1, <2>2 DEF Stays
<1>8. ASSUME l.pc = "view" /\ l.mine
      PROVE  /\ of.view \in Views /\ Fits(of)'
             /\ d # None => l.at <= Now' /\ \A v \in Views : pane'[v].at <= l.at
             /\ d \notin {None, Refused} =>
                  /\ of.view \in PostLists => Wires(d)'
                  /\ of.view = "thread" => \E S : S = DOMAIN d /\ OfThread(S)'
  <2>1. /\ of.view \in Views /\ Fits(of)
        /\ d # None => l.at <= Now /\ \A v \in Views : pane[v].at <= l.at
        /\ d \notin {None, Refused} =>
             /\ of.view \in PostLists => Wires(d)
             /\ of.view = "thread" => OfThread(DOMAIN d)
    BY <1>3, <1>4, <1>8 DEF Lands
  <2>2. d # None => l.at <= Now'
    BY <1>1, <1>2, <2>1
  <2>3. d # None => \A v \in Views : pane'[v].at <= l.at
    BY <1>2, <1>7, <2>1
  <2>4. \A f : Wires(f) => Wires(f)'
    BY WiresKept
  <2>5. \A S : OfThread(S) => OfThread(S)'
    BY <1>5, OfThreadKept
  <2>6. QED
    BY <1>6, <2>1, <2>2, <2>3, <2>4, <2>5
<1>9. QED
  BY <1>3, <1>4, <1>8 DEF Lands, Fits, Wires, OfThread

\* Only the newest load can land, and it asks for what is selected: whatever changes the
\* selection starts another, and what takes it away brings nothing else.
LEMMA LandingStep ==
  ASSUME IInv, [Next]_vars
  PROVE  LandingOK'
<1> DEFINE Goal == \A k \in DOMAIN loads' : \E l : l = loads'[k] /\ Lands(l)'
<1>1. PICK X : loads \in Seq(Load(X))
  BY DEF IInv, ShapesOK
<1>2. LandingOK /\ LoadsOK /\ PanesOK /\ LogOK /\ SelectionOK /\ Now \in Nat
  BY LogStep DEF IInv
<1>3. Len(loads) \in Nat /\ DOMAIN loads = 1..Len(loads) /\ \A k \in DOMAIN loads : loads[k] \in Load(X)
  BY <1>1
<1>4. \A k \in DOMAIN loads : Lands(loads[k]) /\ (loads[k].mine => k = Len(loads))
  BY <1>2 DEF LandingOK, LoadsOK
<1>5. ASSUME Stays
      PROVE  \A k \in DOMAIN loads : \E l : l = loads[k] /\ Lands(l)'
  <2>1. ASSUME NEW k \in DOMAIN loads
        PROVE  \E l : l = loads[k] /\ Lands(l)'
    <3>1. PICK l \in Load(X) : l = loads[k] /\ Lands(l)
      BY <1>3, <1>4
    <3>2. Lands(l)'
      BY <1>5, <3>1, LandsKept
    <3>3. QED
      BY <3>1, <3>2
  <2>2. QED
    BY <2>1
<1>6. ASSUME UNCHANGED <<selection, pane>>
      PROVE  Stays
  BY <1>6 DEF Stays, selection, picked, box
<1>7. ASSUME NEW l, l.pc # "view" \/ ~l.mine
      PROVE  Lands(l)'
  BY <1>7 DEF Lands
<1>8. ASSUME UNCHANGED loads, Stays
      PROVE  Goal
  BY <1>5, <1>8
<1>9. ASSUME NEW then \in {None, "send"}, refresh(then)
      PROVE  Goal
  <2>1. NewLoad(then).pc # "view"
    BY DEF NewLoad
  <2>2. \A k \in DOMAIN loads' : loads'[k] = NewLoad(then) \/ ~loads'[k].mine
    BY <1>1, <1>9, RefreshOf
  <2>3. ASSUME NEW k \in DOMAIN loads'
        PROVE  \E l : l = loads'[k] /\ Lands(l)'
    <3>1. PICK l : l = loads'[k]
      OBVIOUS
    <3>2. l.pc # "view" \/ ~l.mine
      BY <2>1, <2>2, <3>1
    <3>3. QED
      BY <1>7, <3>1, <3>2
  <2>4. QED
    BY <2>3
<1>10. ASSUME NEW k \in DOMAIN loads, End(k), loads[k].mine \/ UNCHANGED <<selection, pane>>
       PROVE  Goal
  <2>1. DOMAIN loads' = 1..(Len(loads) - 1)
        /\ \A j \in DOMAIN loads' :
             \/ j < k /\ j \in DOMAIN loads /\ loads'[j] = loads[j]
             \/ j >= k /\ j + 1 \in DOMAIN loads /\ loads'[j] = loads[j + 1]
    <3>1. loads' = RemoveAt(loads, k)
      BY <1>10 DEF End
    <3>2. loads' \in Seq(Load(X)) /\ Len(loads') = Len(loads) - 1
          /\ \A j \in DOMAIN loads' :
               \/ j < k /\ j \in DOMAIN loads /\ loads'[j] = loads[j]
               \/ j >= k /\ j + 1 \in DOMAIN loads /\ loads'[j] = loads[j + 1]
      BY <1>1, <3>1, RemoveAtOf
    <3>3. QED
      BY <3>2
  <2>2. ASSUME NEW j \in DOMAIN loads'
        PROVE  \E i \in DOMAIN loads : loads'[j] = loads[i] /\ i # k
    <3>1. CASE j < k /\ j \in DOMAIN loads /\ loads'[j] = loads[j]
      BY <1>3, <2>1, <3>1
    <3>2. CASE j >= k /\ j + 1 \in DOMAIN loads /\ loads'[j] = loads[j + 1]
      <4>1. j + 1 # k
        BY <1>3, <2>1, <3>2
      <4>2. QED
        BY <3>2, <4>1
    <3>3. QED
      BY <2>1, <3>1, <3>2
  <2>3. CASE loads[k].mine
    <3>1. ASSUME NEW j \in DOMAIN loads'
          PROVE  \E l : l = loads'[j] /\ Lands(l)'
      <4>1. PICK i \in DOMAIN loads : loads'[j] = loads[i] /\ i # k
        BY <2>2
      <4>2. ~loads[i].mine
        BY <1>4, <2>3, <4>1
      <4>3. QED
        BY <1>7, <4>1, <4>2
    <3>2. QED
      BY <3>1
  <2>4. CASE UNCHANGED <<selection, pane>>
    <3>1. \A i \in DOMAIN loads : \E l : l = loads[i] /\ Lands(l)'
      BY <1>5, <1>6, <2>4
    <3>2. QED
      BY <2>2, <3>1
  <2>5. QED
    BY <1>10, <2>3, <2>4
<1>11. ASSUME NEW k \in DOMAIN loads,
              DOMAIN loads' = DOMAIN loads, \A j \in DOMAIN loads : j # k => loads'[j] = loads[j],
              loads[k].mine \/ UNCHANGED <<selection, pane>>,
              \E l : l = loads'[k] /\ Lands(l)'
       PROVE  Goal
  <2>1. CASE loads[k].mine
    <3>1. ASSUME NEW j \in DOMAIN loads, j # k
          PROVE  \E l : l = loads'[j] /\ Lands(l)'
      <4>1. loads'[j] = loads[j] /\ ~loads[j].mine
        BY <1>4, <1>11, <2>1, <3>1
      <4>2. QED
        BY <1>7, <4>1
    <3>2. QED
      BY <1>11, <3>1
  <2>2. CASE UNCHANGED <<selection, pane>>
    <3>1. \A i \in DOMAIN loads : \E l : l = loads[i] /\ Lands(l)'
      BY <1>5, <1>6, <2>2
    <3>2. QED
      BY <1>11, <3>1
  <2>3. QED
    BY <1>11, <2>1, <2>2
<1>12. ASSUME NEW k \in DOMAIN loads, Go(k, "view", Selected), loads[k].mine,
              UNCHANGED <<picked, q, pane>>
       PROVE  Goal
  <2>1. PICK of : of = Selected
    OBVIOUS
  <2>2. Go(k, "view", of)
    BY <1>12, <2>1
  <2>3. /\ DOMAIN loads' = DOMAIN loads
        /\ loads'[k].of = of /\ loads'[k].data = None
        /\ \A j \in DOMAIN loads : j # k => loads'[j] = loads[j]
    BY <1>1, <2>2, GoOf
  <2>4. of.view = view /\ view \in Views /\ Fits(of)'
    BY <1>2, <1>12, <2>1, SelectedFits DEF SelectionOK, picked
  <2>5. PICK l : l = loads'[k]
    OBVIOUS
  <2>6. Lands(l)'
    BY <2>3, <2>4, <2>5 DEF Lands
  <2> HIDE DEF Goal
  <2>7. QED
    BY <1>11, <1>12, <2>3, <2>5, <2>6
<1>13. ASSUME NEW k \in DOMAIN loads, Go(k, "sessions", Query("sessions", board, None, 0, None)),
              loads[k].mine \/ UNCHANGED <<selection, pane>>
       PROVE  Goal
  <2>1. PICK of : of = Query("sessions", board, None, 0, None)
    OBVIOUS
  <2>2. /\ DOMAIN loads' = DOMAIN loads /\ loads'[k].pc = "sessions"
        /\ \A j \in DOMAIN loads : j # k => loads'[j] = loads[j]
    BY <1>1, <1>13, <2>1, GoOf
  <2>3. PICK l : l = loads'[k]
    OBVIOUS
  <2>4. Lands(l)'
    BY <1>7, <2>2, <2>3
  <2> HIDE DEF Goal
  <2>5. QED
    BY <1>11, <1>13, <2>2, <2>3, <2>4
<1>14. ASSUME NEW k \in DOMAIN loads, ViewServe(k)
       PROVE  Goal
  <2>1. /\ DOMAIN loads' = DOMAIN loads
        /\ loads'[k].pc = loads[k].pc /\ loads'[k].of = loads[k].of
        /\ loads'[k].data = Answer(loads[k].of) /\ loads'[k].at = Now
        /\ loads'[k].mine = loads[k].mine
        /\ \A j \in DOMAIN loads : j # k => loads'[j] = loads[j]
    BY <1>1, <1>2, <1>14, ServeOf
  <2>2. UNCHANGED <<logVars, selection, pane, used>>
    BY <1>14 DEF ViewServe
  <2>3. PICK of : of = loads[k].of
    OBVIOUS
  <2>4. PICK d : d = Answer(of)
    OBVIOUS
  <2>5. PICK n \in Nat : n = Now
    BY <1>2
  <2>6. PICK l : l = loads'[k]
    OBVIOUS
  <2>7. l.of = of /\ l.data = d /\ l.at = n
    BY <2>1, <2>3, <2>4, <2>5, <2>6
  <2>8. ASSUME l.pc = "view", l.mine
        PROVE  /\ of.view \in Views /\ Fits(of)'
               /\ n <= Now' /\ \A v \in Views : pane'[v].at <= n
               /\ d \notin {None, Refused} =>
                    /\ of.view \in PostLists => Wires(d)'
                    /\ of.view = "thread" => \E S : S = DOMAIN d /\ OfThread(S)'
    <3>1. of.view \in Views /\ Fits(of)
      BY <1>4, <2>1, <2>3, <2>6, <2>8 DEF Lands
    <3>2. Fits(of)'
      BY <2>2, <3>1 DEF Fits, Selected, selection, picked, box
    <3>3. n <= Now' /\ \A v \in Views : pane'[v].at <= n
      BY <1>2, <2>2, <2>5 DEF Now, PanesOK
    <3>4. d \notin {None, Refused} =>
            /\ of.view \in PostLists => Wires(d)
            /\ of.view = "thread" => OfThread(DOMAIN d)
      BY <2>4, <3>1, AnswerOf
    <3>5. \A f : Wires(f) => Wires(f)'
      BY WiresKept
    <3>6. \A S : OfThread(S) => OfThread(S)'
      BY <2>2, OfThreadKept DEF selection, picked, box
    <3>7. QED
      BY <3>1, <3>2, <3>3, <3>4, <3>5, <3>6
  <2>9. Lands(l)'
    BY <2>7, <2>8 DEF Lands, Fits, Wires, OfThread
  <2> HIDE DEF Goal
  <2>10. QED
    BY <1>11, <2>1, <2>2, <2>6, <2>9
<1>15. Goal
  <2> HIDE DEF Goal
  <2>1. QED
    BY <1>8, <1>9, <1>10, <1>12, <1>13, <1>14, LoadsKinds
<1>16. QED
  BY <1>15 DEF LandingOK, Lands, Fits, Wires, OfThread

-----------------------------------------------------------------------------
(***************************************************************************)
(* The drafts                                                              *)
(***************************************************************************)
\* A draft is written where the page is, is dropped, or goes with the thread.
LEMMA DraftsKinds ==
  ASSUME IInv, [Next]_vars
  PROVE  \/ reply' = 0 /\ inline' = 0
         \/ threadId' = threadId /\ reply' \in {0, reply, threadId} /\ inline' \in {0, inline}
         \/ /\ threadId' = threadId /\ reply' = reply
            /\ pane["thread"].data # None /\ inline' \in DOMAIN pane["thread"].data
<1> DEFINE Goal ==
      \/ reply' = 0 /\ inline' = 0
      \/ threadId' = threadId /\ reply' \in {0, reply, threadId} /\ inline' \in {0, inline}
      \/ /\ threadId' = threadId /\ reply' = reply
         /\ pane["thread"].data # None /\ inline' \in DOMAIN pane["thread"].data
<1> SUFFICES Goal
  OBVIOUS
<1>1. ASSUME UNCHANGED <<threadId, draftVars>>
      PROVE  Goal
  BY <1>1 DEF draftVars
<1>2. ASSUME NEW i, openThread(i)
      PROVE  Goal
  BY <1>2 DEF openThread
<1>3. ASSUME NEW r, applyRoute(r)
      PROVE  Goal
  BY <1>3 DEF applyRoute
<1>4. ASSUME TypeReply
      PROVE  Goal
  BY <1>4 DEF TypeReply, selection, picked, box
<1>5. ASSUME NEW i \in 1..seq, openInline(i)
      PROVE  Goal
  <2>1. UNCHANGED <<threadId, reply>>
    BY <1>5 DEF openInline, selection, picked, box
  <2>2. pane["thread"].data # None /\ i \in DOMAIN pane["thread"].data /\ inline' \in {0, i}
    BY <1>5 DEF openInline
  <2>3. CASE inline' = 0
    BY <2>1, <2>3
  <2>4. CASE inline' = i
    BY <2>1, <2>2, <2>4
  <2>5. QED
    BY <2>2, <2>3, <2>4
<1>6. ASSUME NEW k \in DOMAIN loads, LoadStep(k) \/ LoadFails(k)
      PROVE  Goal
  <2>1. threadId' = threadId
    BY <1>6 DEF LoadStep, BoardsLand, ViewServe, ViewLand, ThenSessions, SessionsLand, LoadFails,
                NoSessions, selection, picked
  <2>2. CASE UNCHANGED draftVars
    BY <1>1, <2>1, <2>2
  <2>3. CASE Settle
    <3>1. reply' \in {0, reply} /\ inline' \in {0, inline}
      BY <2>3 DEF Settle
    <3>2. QED
      BY <2>1, <3>1
  <2>4. QED
    BY <1>6, <2>2, <2>3, LoadResumes
<1> HIDE DEF Goal
<1>7. CASE Looks
  BY <1>1, <1>2, <1>3, <1>7 DEF Looks, go, TypeSearch, runSearch, pickBoard, pickSession,
     ClickThread, onHashChange, openPost, Dismiss, Permit, selection, picked, box
<1>8. CASE Writes
  BY <1>1, <1>4, <1>5, <1>8 DEF Writes, doPost, doReply, doInlineReply, doResolve, doDeletePost,
                          doDeleteThread, doDeleteSession, Submit, selection, picked, box
<1>9. CASE Answered
  BY <1>1, <1>2, <1>6, <1>9 DEF Answered, PollLand, WriteServe, WriteLand, WriteRefused, GiveUp,
                 PostLocated, selection, picked, box
<1>10. CASE Lost
  BY <1>1, <1>2, <1>6, <1>10 DEF Lost, PollFails, WriteFails, GiveUp, PostLocated, selection,
                                 picked, box
<1>11. CASE UNCHANGED vars \/ AgentWrites \/ \E h \in BOOLEAN : Tick(h)
  BY <1>1, <1>11 DEF vars, AgentWrites, Tick, selection, picked, box
<1>12. QED
  BY <1>7, <1>8, <1>9, <1>10, <1>11 DEF Next

\* A draft stays with the thread, and its post in it, as long as both are there.
LEMMA DraftsStep ==
  ASSUME IInv, [Next]_vars
  PROVE  DraftsOK'
<1>1. DraftsOK /\ PanesOK /\ LogOK /\ LogOK' /\ seq \in Nat /\ seq' \in Nat /\ seq <= seq'
  BY LogStep DEF IInv
<1>2. 0 \notin DOMAIN posts /\ 0 \notin DOMAIN posts'
  BY <1>1 DEF LogOK, LogTypeOK
<1>3. CASE reply' = 0 /\ inline' = 0
  BY <1>1, <1>2, <1>3 DEF DraftsOK, DraftsStayHome
<1>4. ASSUME threadId' = threadId, NEW S, OfThread(S), inline' \in S
      PROVE  inline' \in 0..seq' /\ (inline \in DOMAIN posts => inline \in Beneath({threadId}))'
  <2>1. OfThread(S)'
    BY <1>4, OfThreadKept
  <2>2. inline' \in 1..seq' /\ (inline' \in DOMAIN posts' => inline' \in Beneath({threadId})')
    BY <1>4, <2>1 DEF OfThread
  <2>3. QED
    BY <2>2
<1>5. CASE threadId' = threadId /\ reply' \in {0, reply, threadId} /\ inline' \in {0, inline}
  <2>1. reply' \in {0, threadId'}
    BY <1>1, <1>5 DEF DraftsOK, DraftsStayHome
  <2>2. CASE inline' = 0
    BY <1>1, <1>2, <2>1, <2>2 DEF DraftsOK, DraftsStayHome
  <2>3. CASE inline' = inline /\ inline # 0
    <3>1. inline \in 1..seq /\ (inline \in DOMAIN posts => inline \in Beneath({threadId}))
      BY <1>1, <2>3 DEF DraftsOK, DraftsStayHome
    <3>2. PICK S : S = {inline}
      OBVIOUS
    <3>3. \A i \in S : i = inline
      BY <3>2
    <3>4. OfThread(S)
      BY <3>1, <3>3 DEF OfThread
    <3>5. inline' \in S
      BY <2>3, <3>2
    <3>6. QED
      BY <1>4, <1>5, <2>1, <3>4, <3>5 DEF DraftsOK, DraftsStayHome
  <2>4. QED
    BY <1>5, <2>2, <2>3
<1>6. CASE /\ threadId' = threadId /\ reply' = reply
           /\ pane["thread"].data # None /\ inline' \in DOMAIN pane["thread"].data
  <2>1. PICK S : S = DOMAIN pane["thread"].data /\ OfThread(S)
    BY <1>1, <1>6 DEF PanesOK
  <2>2. QED
    BY <1>1, <1>4, <1>6, <2>1 DEF DraftsOK, DraftsStayHome
<1>7. QED
  BY <1>3, <1>5, <1>6, DraftsKinds

-----------------------------------------------------------------------------
(***************************************************************************)
(* The theorems                                                            *)
(***************************************************************************)
\* The page begins so.
LEMMA InitIInv == Init => IInv
<1> SUFFICES ASSUME Init PROVE IInv
  OBVIOUS
<1>1. LogOK
  <2>1. PICK c \in Contents : posts = [i \in DOMAIN c |-> c[i]] /\ seq = Len(c)
    BY DEF Init
  <2>2. /\ c \in Seq(Post)
        /\ \A i \in DOMAIN c : /\ c[i].parent < i
                               /\ c[i].parent # 0 => c[c[i].parent].board = c[i].board
    BY WebAssumption
  <2>3. Len(c) \in Nat /\ DOMAIN c = 1..Len(c) /\ \A i \in DOMAIN c : c[i] \in Post
    BY <2>2
  <2>4. seq \in Nat /\ posts = [i \in 1..seq |-> c[i]] /\ \A i \in 1..seq : c[i] \in Post
    BY <2>1, <2>3
  <2>5. LogTypeOK
    BY <2>4 DEF LogTypeOK
  <2>6. ParentsFit
    <3>1. DOMAIN c = 1..seq /\ DOMAIN posts = 1..seq /\ \A i \in 1..seq : posts[i] = c[i]
      BY <2>1, <2>3, <2>4
    <3>2. ASSUME NEW i \in 1..seq, NEW p, p = posts[i].parent, p # 0
          PROVE  p < i /\ (p \in DOMAIN posts => posts[p].board = posts[i].board)
      <4>1. p = c[i].parent /\ p < i /\ c[p].board = c[i].board
        BY <2>2, <3>1, <3>2
      <4>2. QED
        BY <3>1, <4>1
    <3>3. QED
      BY <3>1, <3>2 DEF ParentsFit
  <2>7. QED
    BY <2>5, <2>6 DEF LogOK
<1>2. seq \in Nat /\ Now = 0 /\ used \in [moves: Nat, writes: Nat, fails: Nat]
  BY <1>1 DEF Init, Now, LogOK, LogTypeOK
<1>3. /\ None # "init"
      /\ \A r \in Routes : /\ r.view \in Views /\ r.board \in Boards \cup {None} /\ r.thread \in Nat
                           /\ r.words \in Drafts \cup {None}
  BY WebAssumption
<1>4. SelectionOK
  BY <1>3 DEF Init, SelectionOK
<1>5. PICK l : l = NewLoad("init")
  OBVIOUS
<1>6. l.pc = "boards" /\ l.mine = TRUE /\ l.then = "init" /\ \E X : l \in Load(X)
  <2>1. PICK of : of = Cleared.of
    OBVIOUS
  <2>2. l \in Load({"boards", of, None, "init"})
    BY <1>5, <2>1 DEF NewLoad, Load
  <2>3. QED
    BY <1>5, <2>2 DEF NewLoad
<1>7. loads = <<l>> /\ Len(loads) = 1 /\ DOMAIN loads = {1} /\ loads[1] = l /\ \E X : loads \in Seq(Load(X))
  <2>1. loads = <<l>>
    BY <1>5 DEF Init
  <2>2. PICK X : l \in Load(X)
    BY <1>6
  <2>3. <<l>> \in Seq(Load(X)) /\ Len(<<l>>) = 1 /\ DOMAIN <<l>> = {1} /\ <<l>>[1] = l
    BY <2>2
  <2>4. QED
    BY <2>1, <2>3
<1>8. LoadsOK /\ LandingOK
  BY <1>6, <1>7 DEF LoadsOK, LandingOK, Lands, Init
<1>9. /\ Cleared.data = None /\ Cleared.at = 0
      /\ \A v \in Views : pane[v] = Cleared
      /\ \E X : pane \in [Views -> Pane(X)]
  <2>1. PICK of : of = Query(None, None, None, 0, None)
    OBVIOUS
  <2>2. PICK p : p = Cleared
    OBVIOUS
  <2>3. p \in Pane({of, None}) /\ p.data = None /\ p.at = 0
    BY <2>1, <2>2 DEF Cleared, Shown, Pane
  <2>4. pane = [v \in Views |-> p]
    BY <2>2 DEF Init
  <2>5. QED
    BY <2>2, <2>3, <2>4
<1>10. PanesOK
  BY <1>2, <1>9, WebAssumption DEF PanesOK
<1>11. WritesOK /\ \E X : out \in [kind: X, target: X, closing: BOOLEAN, pc: X]
  <2>1. None \notin {"post", "reply", "inline"}
    BY WebAssumption
  <2>2. out = NoWrite /\ sending = FALSE /\ NoWrite.kind = None
    BY DEF Init, NoWrite
  <2>3. NoWrite \in [kind: {None, "none"}, target: {None, "none"}, closing: BOOLEAN, pc: {None, "none"}]
    BY DEF NoWrite
  <2>4. WritesOK
    BY <2>1, <2>2 DEF WritesOK, Drafted
  <2>5. QED
    BY <2>2, <2>3, <2>4
<1>12. AsksOK /\ \E X : polls \in Seq(X)
  <2>1. polls = <<>> /\ DOMAIN polls = {} /\ polls \in Seq({})
    BY DEF Init
  <2>2. asks = [i \in {} |-> {}] /\ seenAskIds = Unseeded /\ askNotes = {}
        /\ told = {} /\ muted = {} /\ granted \in BOOLEAN
    BY DEF Init
  <2>3. QED
    BY <2>1, <2>2 DEF AsksOK, Wires
<1>13. DraftsOK /\ opening.parent \in Nat
  <2>1. reply = 0 /\ inline = 0 /\ opening.parent = 0
    BY DEF Init, NoPost
  <2>2. 0 \notin DOMAIN posts
    BY <1>1 DEF LogOK, LogTypeOK
  <2>3. QED
    BY <1>2, <2>1, <2>2 DEF DraftsOK, DraftsStayHome
<1>14. ShapesOK
  BY <1>2, <1>7, <1>9, <1>11, <1>12 DEF ShapesOK
<1>15. QED
  BY <1>1, <1>4, <1>8, <1>10, <1>11, <1>12, <1>13, <1>14 DEF IInv

\* It stays so, whatever the human does and in whatever order the answers land.
LEMMA IInvStep == IInv /\ [Next]_vars => IInv'
<1> SUFFICES ASSUME IInv, [Next]_vars PROVE IInv'
  OBVIOUS
<1>1. LogOK' /\ used' \in [moves: Nat, writes: Nat, fails: Nat]
  BY LogStep
<1>2. (\E X : loads \in Seq(Load(X)))' /\ LoadsOK'
  BY LoadsStep
<1>3. (\E X : out \in [kind: X, target: X, closing: BOOLEAN, pc: X])' /\ WritesOK'
  BY WritesStep
<1>4. (\E X : polls \in Seq(X))' /\ AsksOK'
  BY AsksStep
<1>5. (\E X : pane \in [Views -> Pane(X)])' /\ PanesOK'
  BY PanesStep
<1>6. ShapesOK'
  BY <1>1, <1>2, <1>3, <1>4, <1>5 DEF ShapesOK
<1>7. SelectionOK'
  BY SelectionStep
<1>8. LandingOK'
  BY LandingStep
<1>9. DraftsOK'
  BY DraftsStep
<1>10. opening'.parent \in Nat
  BY OpeningStep
<1>11. QED
  BY <1>1, <1>2, <1>3, <1>4, <1>5, <1>6, <1>7, <1>8, <1>9, <1>10 DEF IInv

\* What everything below rests on: the selection, the loads and their answers, the panes,
\* the asks and the drafts fit together in every state of the page.
THEOREM Invariance == Spec => []IInv
BY InitIInv, IInvStep, PTL DEF Spec

\* Every variable holds what it should; the loading flag is up exactly while the newest
\* load is under way, and the filter is one the picker offers.
THEOREM TypeCorrect == Spec => []TypeOK
<1>1. IInv => TypeOK
  BY DEF IInv, TypeOK, LogOK, SelectionOK, LoadsOK, WritesOK, AsksOK, Wires
<1>2. QED
  BY <1>1, Invariance, PTL

\* What the human is writing goes under the post it was written for, however the page has
\* moved meanwhile (store.js:122-123, 508).
THEOREM DraftsKeepTheirThread == Spec => []DraftsStayHome
<1>1. IInv => DraftsStayHome
  BY DEF IInv, DraftsOK
<1>2. QED
  BY <1>1, Invariance, PTL

\* A step shows no answer to a question the page has left, and none older than what is
\* there (store.js:235-237).
LEMMA LandsWhereAsked ==
  ASSUME IInv, [Next]_vars, NEW w \in Views, pane'[w] # pane[w], pane'[w] # Cleared
  PROVE  /\ pane'[w].of.view = w /\ Fits(pane[w].of)'
         /\ pane'[w].of = pane[w].of => pane'[w].at >= pane[w].at
<1>1. PICK X : pane \in [Views -> Pane(X)]
  BY DEF IInv, ShapesOK
<1>2. PanesOK /\ LandingOK /\ SelectionOK /\ Now \in Nat
  BY LogStep DEF IInv
<1>3. pane[w].at \in Nat /\ pane[w].at <= Now
  BY <1>1, <1>2 DEF PanesOK, Pane
<1>4. CASE UNCHANGED <<pane, threadId>>
  BY <1>4
<1>5. CASE pane' = [pane EXCEPT !.thread = Cleared]
  BY <1>1, <1>5, ClearedOf
<1>6. ASSUME NEW of, NEW data, NEW at \in Nat, NEW v \in Views, v = of.view, Fits(of)',
             pane[v].at <= at, pane' = [pane EXCEPT ![v] = Shown(of, data, at)]
      PROVE  /\ pane'[w].of.view = w /\ Fits(pane[w].of)'
             /\ pane'[w].of = pane[w].of => pane'[w].at >= pane[w].at
  <2>1. pane'[v].of = of /\ pane'[v].at = at /\ \A u \in Views : u # v => pane'[u] = pane[u]
    BY <1>1, <1>6, ShownOf
  <2>2. w = v
    BY <2>1
  <2>3. Fits(pane[w].of)'
    BY <1>6, <2>1, <2>2 DEF Fits
  <2>4. QED
    BY <1>3, <1>6, <2>1, <2>2, <2>3
<1>7. CASE /\ UNCHANGED <<view, board, threadId, q>> /\ session' \in {session, None}
           /\ pane' = [pane EXCEPT ![view] = Shown(Selected, Answer(Selected), Now)]
  <2>1. PICK of : of = Selected
    OBVIOUS
  <2>2. PICK d : d = Answer(Selected)
    OBVIOUS
  <2>3. PICK n \in Nat : n = Now /\ \A v \in Views : pane[v].at <= n
    BY <1>2 DEF PanesOK
  <2>4. view \in Views /\ view = of.view /\ Fits(of)'
    BY <1>2, <1>7, <2>1, SelectedFits DEF SelectionOK
  <2>5. pane' = [pane EXCEPT ![view] = Shown(of, d, n)]
    BY <1>7, <2>1, <2>2, <2>3
  <2>6. QED
    BY <1>6, <2>3, <2>4, <2>5
<1>8. ASSUME UNCHANGED <<view, board, threadId, box>>, session' \in {session, None}, NEW k \in DOMAIN loads,
             loads[k].pc = "view" /\ loads[k].mine /\ loads[k].data \notin {None, Refused},
             pane' = [pane EXCEPT ![loads[k].of.view] = Shown(loads[k].of, loads[k].data, loads[k].at)]
      PROVE  /\ pane'[w].of.view = w /\ Fits(pane[w].of)'
             /\ pane'[w].of = pane[w].of => pane'[w].at >= pane[w].at
  <2>1. PICK Z : loads \in Seq(Load(Z))
    BY DEF IInv, ShapesOK
  <2>2. loads[k] \in Load(Z)
    BY <2>1
  <2>3. PICK of : of = loads[k].of
    OBVIOUS
  <2>4. PICK d : d = loads[k].data
    OBVIOUS
  <2>5. PICK at \in Nat : at = loads[k].at
    BY <2>2 DEF Load
  <2>6. of.view \in Views /\ Fits(of) /\ \A v \in Views : pane[v].at <= at
    BY <1>2, <1>8, <2>3, <2>4, <2>5 DEF LandingOK, Lands
  <2>7. Fits(of)'
    BY <1>8, <2>6, FitsKept DEF box
  <2>8. PICK v \in Views : v = of.view
    BY <2>6
  <2>9. pane' = [pane EXCEPT ![v] = Shown(of, d, at)]
    BY <1>8, <2>3, <2>4, <2>5, <2>8
  <2>10. QED
    BY <1>6, <2>6, <2>7, <2>8, <2>9
<1>9. QED
  BY <1>4, <1>5, <1>7, <1>8, PanesKinds

\* "A slow earlier fetch can never land on top of a newer one" (store.js:235-237).
THEOREM NoOlderAnswerLands == Spec => AnswersFit
<1>1. IInv /\ [Next]_vars =>
        [\A v \in Views : pane'[v] # pane[v] /\ pane'[v] # Cleared =>
           /\ pane'[v].of.view = v /\ Fits(pane[v].of)'
           /\ pane'[v].of = pane[v].of => pane'[v].at >= pane[v].at]_vars
  BY LandsWhereAsked
<1>2. QED
  BY <1>1, Invariance, PTL DEF Spec, AnswersFit

\* What was notified, or was there when the page was opened, never is again
\* (store.js:37-38), in whatever order the polls' answers land.
THEOREM AsksAreNotifiedOnce == Spec => NotifiedOnce
<1>1. IInv /\ [Next]_vars => [(askNotes' \ askNotes) \cap told = {}]_vars
  <2> SUFFICES ASSUME IInv, [Next]_vars
               PROVE  (askNotes' \ askNotes) \cap told = {}
    OBVIOUS
  <2>1. CASE UNCHANGED askVars
    BY <2>1 DEF askVars
  <2>2. CASE \E i : askNotes' \in {askNotes, askNotes \ {i}}
    BY <2>2
  <2>3. ASSUME NEW k \in DOMAIN polls, PollLand(k)
        PROVE  (askNotes' \ askNotes) \cap told = {}
    BY <2>3, PollLands
  <2>4. QED
    BY <2>1, <2>2, <2>3, AsksFrame
<1>2. QED
  BY <1>1, Invariance, PTL DEF Spec, NotifiedOnce
=============================================================================
