--------------------------- MODULE PostStoreProofs ---------------------------
(***************************************************************************)
(* Proofs about PostStore, for any number of commands, boards, handles and *)
(* drafts: the inductive invariant, the safety properties and the          *)
(* implementation of PostLog.                                              *)
(*                                                                         *)
(* A command checks in one statement and writes in another.  The           *)
(* strengthening (MemOK, SweepOK) therefore says what is left of each      *)
(* check at the statement that relies on it.                               *)
(***************************************************************************)
EXTENDS PostStore, PostLogProofs

\* What the variables of a command still say about the tables.
ProcOK(p) ==
  /\ pc[p] \in {"insert", "doom"} => mem[p].ids = {}
  /\ pc[p] = "insert" =>
       /\ mem[p].by \in Handles
       /\ mem[p].board \in Boards
       /\ mem[p].draft \in Drafts
       /\ ParentFits(mem[p].board, mem[p].target)
  /\ pc[p] \in {"mentions", "links"} =>
       /\ mem[p].own \in 1..seq
       /\ mem[p].draft \in Drafts
       /\ mem[p].todo \subseteq mem[p].draft.at
       /\ mem[p].ids \subseteq (mem[p].draft.refs \cap (1..seq)) \ {mem[p].own}
       /\ mem[p].own \in DOMAIN posts => posts[mem[p].own].draft = mem[p].draft
  /\ pc[p] = "tombstone" =>
       /\ mem[p].target \in 1..seq
       /\ mem[p].target \in DOMAIN posts => posts[mem[p].target].author = mem[p].by
  /\ pc[p] = "resolve" =>
       /\ mem[p].by \in Handles
       /\ mem[p].target \in 1..seq
       /\ mem[p].target \in DOMAIN posts => Closable(mem[p].target)
  /\ pc[p] \in {"delPosts", "delMentions", "delLinks", "delName"} =>
       mem[p].ids \subseteq 1..seq
  /\ pc[p] = "delName" => mem[p].session \in Sessions

MemOK == \A p \in Procs : ProcOK(p)

\* No row names d, and no running CreatePost will write one.
NoMention(d) == \A m \in mentions : m[1] # d
NoLink(d) == \A l \in links : l[1] # d /\ l[2] # d

\* How far a hard delete has got.
SweepOK(p) ==
  /\ pc[p] \in {"delMentions", "delLinks", "delName"} =>
       mem[p].ids \cap DOMAIN posts = {}
  /\ pc[p] \in {"delLinks", "delName"} =>
       \A d \in mem[p].ids \ mem[p].late : NoMention(d) /\ ~Writing(d)
  /\ pc[p] = "delName" =>
       \A d \in mem[p].ids \ mem[p].late : NoLink(d)

SweptOK ==
  /\ \A p \in Procs : SweepOK(p)
  /\ \A d \in swept : /\ d \notin DOMAIN posts
                      /\ NoMention(d) /\ NoLink(d) /\ ~Writing(d)

IInv == TypeOK /\ MemOK /\ RepliesFollowParents /\ RowsNameTheirPost /\ SweptOK

-----------------------------------------------------------------------------
(***************************************************************************)
(* PostStore implements PostLog                                            *)
(***************************************************************************)
\* The doomed ids are ids of posts.
LEMMA SubtreeOfPosts == \A S : Subtree(S) \subseteq DOMAIN posts
BY DEF Subtree

\* Every statement is a step of the log or leaves the log alone.
LEMMA LogStep ==
  ASSUME LogTypeOK, MemOK, [Next]_vars
  PROVE  [LogNext]_logVars
<1>1. CASE UNCHANGED vars
  BY <1>1 DEF vars, logVars
<1>2. ASSUME NEW p \in Procs, Begin(p)
      PROVE  UNCHANGED logVars
  BY <1>2 DEF Begin, StartCreate, StartTombstone, StartResolve, StartDeletePost,
              StartDeleteSession, SetSessionName, tables, logVars
<1>3. ASSUME NEW p \in Procs, InsertPost(p)
      PROVE  LogNext
  <2>1. ProcOK(p)
    BY DEF MemOK
  <2>2. /\ mem[p].by \in Handles
        /\ mem[p].board \in Boards
        /\ mem[p].draft \in Drafts
        /\ mem[p].target \in 0..seq
    BY <1>3, <2>1 DEF InsertPost, ProcOK, ParentFits
  <2>3. AppendPost(mem[p].board, mem[p].by, mem[p].draft, mem[p].target)
    BY <1>3, <2>1 DEF InsertPost, ProcOK, AppendPost, NewId
  <2>4. QED
    BY <2>2, <2>3 DEF LogNext
<1>4. ASSUME NEW p \in Procs, WriteTombstone(p)
      PROVE  [LogNext]_logVars
  <2>1. CASE Live(mem[p].target)
    <3>1. Tombstone(mem[p].target)
      BY <1>4, <2>1 DEF WriteTombstone, Tombstone, Live, LogTypeOK
    <3>2. QED
      BY <2>1, <3>1 DEF LogNext, Live
  <2>2. CASE ~Live(mem[p].target)
    <3>1. posts' = posts
      <4>1. ASSUME NEW i \in DOMAIN posts, i = mem[p].target
            PROVE  [posts[i] EXCEPT !.tombed = TRUE] = posts[i]
        BY <2>2, <4>1 DEF Live, LogTypeOK, Post
      <4>2. QED
        BY <1>4, <4>1 DEF WriteTombstone, LogTypeOK
    <3>2. QED
      BY <1>4, <3>1 DEF WriteTombstone, logVars
  <2>3. QED
    BY <2>1, <2>2
<1>5. ASSUME NEW p \in Procs, WriteResolve(p)
      PROVE  [LogNext]_logVars
  <2>1. CASE mem[p].target \in DOMAIN posts
    <3>1. mem[p].by \in Handles /\ Closable(mem[p].target)
      BY <1>5, <2>1 DEF WriteResolve, MemOK, ProcOK
    <3>2. Resolve(mem[p].target, mem[p].by)
      BY <1>5, <2>1, <3>1 DEF WriteResolve, Resolve, LogTypeOK
    <3>3. QED
      BY <2>1, <3>1, <3>2 DEF LogNext
  <2>2. CASE mem[p].target \notin DOMAIN posts
    BY <1>5, <2>2 DEF WriteResolve, LogTypeOK, logVars
  <2>3. QED
    BY <2>1, <2>2
<1>6. ASSUME NEW p \in Procs, DeletePosts(p)
      PROVE  [LogNext]_logVars
  <2> DEFINE S == mem[p].ids \cap DOMAIN posts
  <2>1. CASE S = {}
    BY <1>6, <2>1 DEF DeletePosts, LogTypeOK, logVars
  <2>2. CASE S # {}
    <3>1. Erase(S)
      BY <1>6, <2>2 DEF DeletePosts, Erase
    <3>2. QED
      BY <3>1 DEF LogNext
  <2>3. QED
    BY <2>1, <2>2
<1>7. ASSUME NEW p \in Procs,
             \/ \E h \in Handles : AddMention(p, h)
             \/ LookupRefs(p)
             \/ \E t \in mem[p].ids : AddLink(p, t)
             \/ ReturnPost(p)
             \/ FindDoomed(p)
             \/ DeleteMentions(p)
             \/ DeleteLinks(p)
             \/ DeleteName(p)
             \/ Retry(p)
             \/ Fail(p)
      PROVE  UNCHANGED logVars
  BY <1>7 DEF AddMention, LookupRefs, AddLink, ReturnPost, FindDoomed, DeleteMentions,
              DeleteLinks, DeleteName, Retry, Fail, tables, logVars
<1>8. QED
  BY <1>1, <1>2, <1>3, <1>4, <1>5, <1>6, <1>7 DEF Next, Continue
-----------------------------------------------------------------------------
(***************************************************************************)
(* The inductive invariant, conjunct by conjunct                           *)
(***************************************************************************)
\* A command that has ended, or runs no statement yet, holds nothing.
LEMMA BlankIsMemory == Blank \in Memory
BY DEF Blank, Memory

\* Types are kept.
LEMMA TypeStep ==
  ASSUME TypeOK, MemOK, [Next]_vars
  PROVE  TypeOK'
<1>1. LogTypeOK'
  BY LogStep, LogTypeStep DEF TypeOK
<1>2. seq' \in Nat /\ 1..seq \subseteq 1..seq'
  BY LogStep, LogStepKeepsContent DEF TypeOK, LogTypeOK
<1>3. CASE UNCHANGED vars
  BY <1>3, <1>1 DEF vars, TypeOK
<1>4. ASSUME NEW p \in Procs, Begin(p)
      PROVE  TypeOK'
  <2>1. DOMAIN posts \subseteq Nat
    BY DEF TypeOK, LogTypeOK
  <2>2. ASSUME NEW h \in Handles, NEW b \in Boards, NEW d \in Drafts,
               NEW i \in {0} \cup DOMAIN posts, StartCreate(p, h, b, d, i)
        PROVE  TypeOK'
    <3>1. i \in Nat
      BY <2>1
    <3>2. [Blank EXCEPT !.by = h, !.board = b, !.draft = d, !.target = i] \in Memory
      BY <3>1 DEF Blank, Memory
    <3>3. QED
      BY <1>1, <2>2, <3>2 DEF TypeOK, StartCreate, Goto, Load, Statement, tables
  <2>3. ASSUME NEW h \in Handles, NEW i \in DOMAIN posts,
               StartTombstone(p, h, i) \/ StartResolve(p, h, i)
        PROVE  TypeOK'
    <3>1. [Blank EXCEPT !.by = h, !.target = i] \in Memory
      BY <2>1 DEF Blank, Memory
    <3>2. QED
      BY <1>1, <2>3, <3>1
      DEF TypeOK, StartTombstone, StartResolve, Goto, Load, Statement, tables
  <2>4. ASSUME NEW i \in DOMAIN posts, StartDeletePost(p, i)
        PROVE  TypeOK'
    BY <1>1, <2>1, <2>4, BlankIsMemory
    DEF TypeOK, StartDeletePost, Goto, Load, Statement, Memory, tables
  <2>5. ASSUME NEW s \in Sessions, StartDeleteSession(p, s)
        PROVE  TypeOK'
    BY <1>1, <2>5, BlankIsMemory
    DEF TypeOK, StartDeleteSession, Goto, Load, Statement, Memory, tables
  <2>6. ASSUME NEW s \in Sessions, SetSessionName(p, s)
        PROVE  TypeOK'
    BY <1>1, <2>6, BlankIsMemory DEF TypeOK, SetSessionName, End, Goto, Load, Statement
  <2>7. QED
    BY <1>4, <2>2, <2>3, <2>4, <2>5, <2>6 DEF Begin
<1>5. ASSUME NEW p \in Procs, InsertPost(p)
      PROVE  TypeOK'
  <2>1. mem[p].draft.at \in SUBSET Handles
    BY <1>5, StoreAssumption DEF InsertPost, MemOK, ProcOK, Draft
  <2>2. NewId \in Nat
    BY DEF NewId, TypeOK, LogTypeOK
  <2>3. [mem[p] EXCEPT !.own = NewId, !.todo = mem[p].draft.at] \in Memory
    BY <2>1, <2>2 DEF TypeOK, Memory
  <2>4. QED
    BY <1>1, <1>2, <1>5, <2>3 DEF TypeOK, InsertPost, Goto, Load, Statement
<1>6. ASSUME NEW p \in Procs, NEW h \in Handles, AddMention(p, h)
      PROVE  TypeOK'
  <2>1. mem[p].own \in 1..seq
    BY <1>6 DEF AddMention, MemOK, ProcOK
  <2>2. [mem[p] EXCEPT !.todo = @ \ {h}] \in Memory
    BY DEF TypeOK, Memory
  <2>3. QED
    BY <1>1, <1>6, <2>1, <2>2 DEF TypeOK, AddMention, Load, Statement
<1>7. ASSUME NEW p \in Procs, LookupRefs(p)
      PROVE  TypeOK'
  <2>1. PICK found \in {{}, (mem[p].draft.refs \cap DOMAIN posts) \ {mem[p].own}} :
          Load(p, [mem[p] EXCEPT !.ids = found])
    BY <1>7 DEF LookupRefs
  <2>2. found \in SUBSET Nat
    BY DEF TypeOK, LogTypeOK
  <2>3. [mem[p] EXCEPT !.ids = found] \in Memory
    BY <2>2 DEF TypeOK, Memory
  <2>4. QED
    BY <1>1, <1>7, <2>1, <2>3 DEF TypeOK, LookupRefs, Goto, Load, Statement, tables
<1>8. ASSUME NEW p \in Procs, NEW t \in mem[p].ids, AddLink(p, t)
      PROVE  TypeOK'
  <2>1. mem[p].own \in 1..seq /\ t \in 1..seq
    BY <1>8 DEF AddLink, MemOK, ProcOK
  <2>2. [mem[p] EXCEPT !.ids = @ \ {t}] \in Memory
    BY DEF TypeOK, Memory
  <2>3. QED
    BY <1>1, <1>8, <2>1, <2>2 DEF TypeOK, AddLink, Load, Statement
<1>9. ASSUME NEW p \in Procs,
             ReturnPost(p) \/ WriteTombstone(p) \/ WriteResolve(p) \/ Fail(p)
      PROVE  TypeOK'
  BY <1>1, <1>9, BlankIsMemory
  DEF TypeOK, ReturnPost, WriteTombstone, WriteResolve, Fail, End, Goto, Load, Statement,
      tables
<1>10. ASSUME NEW p \in Procs, FindDoomed(p)
       PROVE  TypeOK'
  <2> DEFINE ids == Subtree(Seeds(mem[p]))
  <2>1. ids \in SUBSET Nat
    BY SubtreeOfPosts DEF TypeOK, LogTypeOK
  <2> HIDE DEF ids
  <2>2. [mem[p] EXCEPT !.ids = ids] \in Memory
    BY <2>1 DEF TypeOK, Memory
  <2>3. QED
    BY <1>1, <1>10, <2>2, BlankIsMemory
    DEF TypeOK, FindDoomed, End, Goto, Load, Statement, tables, ids
<1>11. ASSUME NEW p \in Procs, DeletePosts(p) \/ Retry(p)
       PROVE  TypeOK'
  BY <1>1, <1>11 DEF TypeOK, DeletePosts, Retry, Goto, Statement, tables
<1>12. ASSUME NEW p \in Procs, DeleteMentions(p)
       PROVE  TypeOK'
  <2>1. [mem[p] EXCEPT !.late = {d \in mem[p].ids : Writing(d)}] \in Memory
    BY DEF TypeOK, Memory
  <2>2. QED
    BY <1>1, <1>12, <2>1 DEF TypeOK, DeleteMentions, Goto, Load, Statement
<1>13. ASSUME NEW p \in Procs, DeleteLinks(p)
       PROVE  TypeOK'
  <2> DEFINE m == [mem[p] EXCEPT !.late = @ \cup {d \in mem[p].ids : Writing(d)}]
  <2>1. m \in Memory /\ m.ids \subseteq 1..seq
    BY <1>13 DEF TypeOK, Memory, DeleteLinks, MemOK, ProcOK
  <2> HIDE DEF m
  <2>2. QED
    BY <1>1, <1>13, <2>1, BlankIsMemory
    DEF TypeOK, DeleteLinks, Swept, End, Goto, Load, Statement, m
<1>14. ASSUME NEW p \in Procs, DeleteName(p)
       PROVE  TypeOK'
  BY <1>1, <1>14, BlankIsMemory
  DEF TypeOK, DeleteName, Swept, MemOK, ProcOK, End, Goto, Load, Statement
<1>15. QED
  BY <1>3, <1>4, <1>5, <1>6, <1>7, <1>8, <1>9, <1>10, <1>11, <1>12, <1>13, <1>14
  DEF Next, Continue
\* A row that a command knows by its number is unchanged or gone.
LEMMA KnownRow ==
  ASSUME TypeOK, [LogNext]_logVars, NEW i \in 1..seq, i \in DOMAIN posts'
  PROVE  i \in DOMAIN posts /\ SameContent(i)
BY LogStepKeepsContent DEF TypeOK, LogTypeOK

\* What other commands do to the tables leaves a command's knowledge right.
LEMMA MemFrame ==
  ASSUME TypeOK, [LogNext]_logVars, NEW q \in Procs, ProcOK(q),
         pc'[q] = pc[q], mem'[q] = mem[q]
  PROVE  ProcOK(q)'
<1>1. seq \in Nat /\ seq' \in Nat /\ 1..seq \subseteq 1..seq' /\ 0..seq \subseteq 0..seq'
  BY LogStepKeepsContent DEF TypeOK, LogTypeOK
<1>2. ASSUME pc[q] = "insert", mem[q].target \in 0..seq
      PROVE  ParentFits(mem[q].board, mem[q].target)'
  <2>1. mem[q].target \in DOMAIN posts' => mem[q].target \in 1..seq
    BY <1>2, LogStepKeepsContent DEF TypeOK, LogTypeOK, ProcOK, ParentFits
  <2>2. QED
    BY <1>1, <1>2, <2>1, KnownRow DEF ProcOK, ParentFits, SameContent
<1>3. ASSUME NEW i \in 1..seq, i \in DOMAIN posts => Closable(i), i \in DOMAIN posts'
      PROVE  Closable(i)'
  BY <1>3, KnownRow DEF Closable, SameContent
<1>4. QED
  BY <1>1, <1>2, <1>3, KnownRow DEF ProcOK, ParentFits, SameContent

\* Each statement leaves the next one what it relies on.
LEMMA MemStep ==
  ASSUME TypeOK, MemOK, [Next]_vars
  PROVE  MemOK'
<1> USE DEF MemOK
<1>1. [LogNext]_logVars
  BY LogStep DEF TypeOK
<1>2. ASSUME NEW p \in Procs, NEW q \in Procs, q # p, Begin(p) \/ Continue(p)
      PROVE  pc'[q] = pc[q] /\ mem'[q] = mem[q]
  BY <1>2
  DEF TypeOK, Begin, Continue, StartCreate, StartTombstone, StartResolve, StartDeletePost,
      StartDeleteSession, SetSessionName, InsertPost, AddMention, LookupRefs, AddLink,
      ReturnPost, WriteTombstone, WriteResolve, FindDoomed, DeletePosts, DeleteMentions,
      DeleteLinks, DeleteName, Retry, Fail, End, Goto, Load
<1>3. SUFFICES ASSUME NEW p \in Procs, Begin(p) \/ Continue(p)
               PROVE  ProcOK(p)'
  <2>1. CASE UNCHANGED vars
    BY <2>1, <1>1, MemFrame DEF vars
  <2>2. CASE \E p \in Procs : Begin(p) \/ Continue(p)
    BY <2>2, <1>1, <1>2, <1>3, MemFrame
  <2>3. QED
    BY <2>1, <2>2 DEF Next
<1>4. ProcOK(p)
  OBVIOUS
<1>5. seq \in Nat /\ 1..seq \subseteq 1..seq' /\ DOMAIN posts \subseteq 1..seq
  BY <1>1, LogStepKeepsContent DEF TypeOK, LogTypeOK
<1>6. CASE pc'[p] = "done"
  BY <1>6 DEF ProcOK
<1>7. ASSUME NEW h \in Handles, NEW b \in Boards, NEW d \in Drafts,
             NEW i \in {0} \cup DOMAIN posts, StartCreate(p, h, b, d, i)
      PROVE  ProcOK(p)'
  <2>1. /\ pc'[p] = "insert"
        /\ mem'[p] = [Blank EXCEPT !.by = h, !.board = b, !.draft = d, !.target = i]
        /\ UNCHANGED <<posts, seq>>
        /\ i # 0 => i \in DOMAIN posts /\ posts[i].board = b
    BY <1>7 DEF StartCreate, TypeOK, Goto, Load, tables
  <2>2. i \in 0..seq
    BY <1>5
  <2>3. i \in DOMAIN posts => posts[i].board = b
    BY <1>5, <2>1
  <2>4. QED
    BY <2>1, <2>2, <2>3 DEF ProcOK, ParentFits, Blank
<1>8. ASSUME NEW h \in Handles, NEW i \in DOMAIN posts, StartTombstone(p, h, i)
      PROVE  ProcOK(p)'
  BY <1>5, <1>8 DEF StartTombstone, ProcOK, TypeOK, Goto, Load, Blank, tables
<1>9. ASSUME NEW h \in Handles, NEW i \in DOMAIN posts, StartResolve(p, h, i)
      PROVE  ProcOK(p)'
  BY <1>5, <1>9 DEF StartResolve, ProcOK, TypeOK, Goto, Load, Blank, tables, Closable
<1>10. ASSUME \/ \E i \in DOMAIN posts : StartDeletePost(p, i)
              \/ \E s \in Sessions : StartDeleteSession(p, s)
       PROVE  ProcOK(p)'
  BY <1>10 DEF StartDeletePost, StartDeleteSession, ProcOK, TypeOK, Goto, Load, Blank
<1>11. ASSUME InsertPost(p)
       PROVE  ProcOK(p)'
  <2>1. /\ pc'[p] = "mentions"
        /\ mem'[p] = [mem[p] EXCEPT !.own = seq + 1, !.todo = mem[p].draft.at]
        /\ mem[p].draft \in Drafts
        /\ mem[p] \in Memory
    BY <1>11 DEF InsertPost, ProcOK, TypeOK, Goto, Load, NewId
  <2>2. mem[p].ids = {}
    BY <1>11 DEF InsertPost, ProcOK
  <2>3. seq' = seq + 1 /\ posts'[seq + 1].draft = mem[p].draft
    BY <1>11 DEF InsertPost, NewPost, NewId
  <2>4. QED
    BY <2>1, <2>2, <2>3, <1>5 DEF ProcOK, Memory
<1>12. ASSUME NEW h \in Handles, AddMention(p, h)
       PROVE  ProcOK(p)'
  BY <1>12, <1>4 DEF AddMention, ProcOK, TypeOK, Memory, Load
<1>13. ASSUME LookupRefs(p)
       PROVE  ProcOK(p)'
  BY <1>13, <1>4, <1>5 DEF LookupRefs, ProcOK, TypeOK, Memory, Goto, Load, tables
<1>14. ASSUME NEW t \in mem[p].ids, AddLink(p, t)
       PROVE  ProcOK(p)'
  BY <1>14, <1>4 DEF AddLink, ProcOK, TypeOK, Memory, Load
<1>15. ASSUME FindDoomed(p)
       PROVE  ProcOK(p)'
  <2> DEFINE ids == Subtree(Seeds(mem[p]))
  <2>1. ids \subseteq 1..seq
    BY <1>5, SubtreeOfPosts
  <2>2. CASE ids = {} /\ mem[p].session # NoSession
    BY <1>15, <2>2 DEF FindDoomed, ProcOK, TypeOK, Memory, Goto, tables
  <2> HIDE DEF ids
  <2>3. CASE ids # {}
    BY <1>15, <2>1, <2>3
    DEF FindDoomed, ProcOK, TypeOK, Memory, Goto, Load, tables, ids
  <2>4. QED
    BY <1>15, <1>6, <2>2, <2>3 DEF FindDoomed, End, Goto, TypeOK, ids
<1>16. ASSUME DeletePosts(p) \/ Retry(p)
       PROVE  ProcOK(p)'
  BY <1>16, <1>4 DEF DeletePosts, Retry, ProcOK, TypeOK, Goto, tables
<1>17. ASSUME DeleteMentions(p)
       PROVE  ProcOK(p)'
  BY <1>17, <1>4 DEF DeleteMentions, ProcOK, TypeOK, Memory, Goto, Load
<1>18. ASSUME DeleteLinks(p)
       PROVE  ProcOK(p)'
  BY <1>18, <1>4, <1>6 DEF DeleteLinks, ProcOK, TypeOK, Memory, Goto, Load, End
<1>19. ASSUME \/ \E s \in Sessions : SetSessionName(p, s)
              \/ ReturnPost(p) \/ WriteTombstone(p) \/ WriteResolve(p)
              \/ DeleteName(p) \/ Fail(p)
       PROVE  pc'[p] = "done"
  BY <1>19
  DEF SetSessionName, ReturnPost, WriteTombstone, WriteResolve, DeleteName, Fail, End,
      Goto, TypeOK
<1>20. QED
  BY <1>3, <1>6, <1>7, <1>8, <1>9, <1>10, <1>11, <1>12, <1>13, <1>14, <1>15, <1>16,
     <1>17, <1>18, <1>19
  DEF Begin, Continue
\* A row of mentions or links that a step adds is one its command had to write.
LEMMA NewRows ==
  ASSUME [Next]_vars
  PROVE  /\ \A m \in mentions' \ mentions : \E p \in Procs :
              /\ pc[p] = "mentions"
              /\ \E h \in mem[p].todo : m = <<mem[p].own, h>>
              /\ UNCHANGED <<posts, seq>>
         /\ \A l \in links' \ links : \E p \in Procs :
              /\ pc[p] = "links"
              /\ \E t \in mem[p].ids : l = <<mem[p].own, t>>
              /\ UNCHANGED <<posts, seq>>
<1>1. ASSUME NEW p \in Procs, NEW h \in Handles, AddMention(p, h)
      PROVE  /\ links' = links
             /\ \A m \in mentions' \ mentions :
                  pc[p] = "mentions" /\ h \in mem[p].todo /\ m = <<mem[p].own, h>>
             /\ UNCHANGED <<posts, seq>>
  BY <1>1 DEF AddMention
<1>2. ASSUME NEW p \in Procs, NEW t \in mem[p].ids, AddLink(p, t)
      PROVE  /\ mentions' = mentions
             /\ \A l \in links' \ links : pc[p] = "links" /\ l = <<mem[p].own, t>>
             /\ UNCHANGED <<posts, seq>>
  BY <1>2 DEF AddLink
<1>3. ASSUME NEW p \in Procs,
             \/ Begin(p) \/ InsertPost(p) \/ LookupRefs(p) \/ ReturnPost(p)
             \/ WriteTombstone(p) \/ WriteResolve(p) \/ FindDoomed(p) \/ DeletePosts(p)
             \/ DeleteMentions(p) \/ DeleteLinks(p) \/ DeleteName(p) \/ Retry(p) \/ Fail(p)
      PROVE  mentions' \subseteq mentions /\ links' \subseteq links
  BY <1>3
  DEF Begin, StartCreate, StartTombstone, StartResolve, StartDeletePost,
      StartDeleteSession, SetSessionName, InsertPost, LookupRefs, ReturnPost,
      WriteTombstone, WriteResolve, FindDoomed, DeletePosts, DeleteMentions, DeleteLinks,
      DeleteName, Retry, Fail, tables
<1>4. CASE UNCHANGED vars
  BY <1>4 DEF vars
<1>5. ASSUME NEW p \in Procs, Begin(p) \/ Continue(p)
      PROVE  \/ \E h \in Handles : AddMention(p, h)
             \/ \E t \in mem[p].ids : AddLink(p, t)
             \/ mentions' \subseteq mentions /\ links' \subseteq links
  BY <1>3, <1>5 DEF Continue
<1>6. QED
  BY <1>1, <1>2, <1>4, <1>5 DEF Next

\* A mention or link row never comes to belong to a post that does not carry it.
LEMMA RowsStep ==
  ASSUME TypeOK, MemOK, RowsNameTheirPost, [Next]_vars
  PROVE  RowsNameTheirPost'
<1>1. [LogNext]_logVars
  BY LogStep DEF TypeOK
<1>2. ASSUME NEW m \in mentions', m[1] \in DOMAIN posts'
      PROVE  m[2] \in posts'[m[1]].draft.at
  <2>1. CASE m \in mentions
    BY <1>1, <1>2, <2>1, KnownRow DEF TypeOK, RowsNameTheirPost, SameContent
  <2>2. CASE m \notin mentions
    BY <1>2, <2>2, NewRows DEF MemOK, ProcOK
  <2>3. QED
    BY <2>1, <2>2
<1>3. ASSUME NEW l \in links'
      PROVE  /\ l[1] \in DOMAIN posts' => l[2] \in posts'[l[1]].draft.refs
             /\ l[1] # l[2]
  <2>1. CASE l \in links
    BY <1>1, <2>1, KnownRow DEF TypeOK, RowsNameTheirPost, SameContent
  <2>2. CASE l \notin links
    BY <1>3, <2>2, NewRows DEF MemOK, ProcOK
  <2>3. QED
    BY <2>1, <2>2
<1>4. QED
  BY <1>2, <1>3 DEF RowsNameTheirPost

\* Once a post is gone and no CreatePost is writing rows about it, none will.
LEMMA StaysClean ==
  ASSUME TypeOK, MemOK, [Next]_vars,
         NEW d \in 1..seq, d \notin DOMAIN posts, ~Writing(d)
  PROVE  /\ ~Writing(d)'
         /\ NoMention(d) => NoMention(d)'
         /\ NoLink(d) => NoLink(d)'
<1>1. NoMention(d) => NoMention(d)'
  BY NewRows DEF NoMention, Writing
<1>2. NoLink(d) => NoLink(d)'
  BY NewRows DEF NoLink, Writing
<1>3. CASE UNCHANGED vars
  BY <1>1, <1>2, <1>3 DEF vars, Writing
<1>4. ASSUME NEW p \in Procs, Begin(p) \/ Continue(p),
             NEW q \in Procs, pc'[q] \in {"mentions", "links"},
             d \in {mem'[q].own} \cup mem'[q].ids
      PROVE  FALSE
  <2>1. CASE pc'[q] = pc[q] /\ mem'[q] = mem[q]
    BY <1>4, <2>1 DEF Writing
  <2>2. CASE InsertPost(p)
    <3>1. CASE q = p
      <4>1. mem'[p].own = seq + 1 /\ mem'[p].ids = {}
        BY <2>2 DEF InsertPost, MemOK, ProcOK, TypeOK, Memory, Load, NewId
      <4>2. QED
        BY <1>4, <3>1, <4>1 DEF TypeOK, LogTypeOK
    <3>2. CASE q # p
      BY <2>1, <2>2, <3>2 DEF InsertPost, TypeOK, Goto, Load
    <3>3. QED
      BY <3>1, <3>2
  <2>3. ASSUME NEW h \in Handles, AddMention(p, h)
        PROVE  FALSE
    BY <1>4, <2>3 DEF AddMention, TypeOK, Memory, Load, Writing
  <2>4. CASE LookupRefs(p)
    BY <1>4, <2>4 DEF LookupRefs, TypeOK, Memory, Goto, Load, Writing
  <2>5. ASSUME NEW t \in mem[p].ids, AddLink(p, t)
        PROVE  FALSE
    BY <1>4, <2>5 DEF AddLink, TypeOK, Memory, Load, Writing
  <2>6. CASE \/ Begin(p) \/ ReturnPost(p) \/ WriteTombstone(p) \/ WriteResolve(p)
             \/ FindDoomed(p) \/ DeletePosts(p) \/ DeleteMentions(p) \/ DeleteLinks(p)
             \/ DeleteName(p) \/ Retry(p) \/ Fail(p)
    <3>1. q # p => pc'[q] = pc[q] /\ mem'[q] = mem[q]
      BY <2>6
      DEF Begin, StartCreate, StartTombstone, StartResolve, StartDeletePost,
          StartDeleteSession, SetSessionName, ReturnPost, WriteTombstone, WriteResolve,
          FindDoomed, DeletePosts, DeleteMentions, DeleteLinks, DeleteName, Retry, Fail,
          End, Goto, Load, TypeOK
    <3>2. pc'[p] \notin {"mentions", "links"}
      BY <2>6
      DEF Begin, StartCreate, StartTombstone, StartResolve, StartDeletePost,
          StartDeleteSession, SetSessionName, ReturnPost, WriteTombstone, WriteResolve,
          FindDoomed, DeletePosts, DeleteMentions, DeleteLinks, DeleteName, Retry, Fail,
          End, Goto, TypeOK
    <3>3. QED
      BY <1>4, <2>1, <3>1, <3>2
  <2>7. QED
    BY <1>4, <2>2, <2>3, <2>4, <2>5, <2>6 DEF Continue
<1>5. QED
  BY <1>1, <1>2, <1>3, <1>4 DEF Next, Writing
\* A hard delete only ever gets on with its sweep, and what it reported stays so.
LEMMA SweepStep ==
  ASSUME TypeOK, MemOK, SweptOK, [Next]_vars
  PROVE  SweptOK'
<1> DEFINE Clean(p) == mem[p].ids \ mem[p].late
<1>1. [LogNext]_logVars /\ LogTypeOK
  BY LogStep DEF TypeOK
<1>2. ASSUME NEW q \in Procs, pc'[q] = pc[q], mem'[q] = mem[q]
      PROVE  SweepOK(q)'
  <2>1. CASE pc[q] \notin {"delMentions", "delLinks", "delName"}
    BY <1>2, <2>1 DEF SweepOK
  <2>2. CASE pc[q] \in {"delMentions", "delLinks", "delName"}
    <3>1. mem[q].ids \subseteq 1..seq /\ mem[q].ids \cap DOMAIN posts = {}
      BY <2>2 DEF MemOK, ProcOK, SweptOK, SweepOK
    <3>2. mem[q].ids \cap DOMAIN posts' = {}
      BY <1>1, <3>1, ErasedStaysErased
    <3>3. ASSUME NEW d \in Clean(q)
          PROVE  /\ pc[q] \in {"delLinks", "delName"} => NoMention(d)' /\ ~Writing(d)'
                 /\ pc[q] = "delName" => NoLink(d)'
      BY <3>1, StaysClean DEF SweptOK, SweepOK
    <3>4. QED
      BY <1>2, <3>2, <3>3 DEF SweepOK
  <2>3. QED
    BY <2>1, <2>2
<1>3. ASSUME NEW d \in swept
      PROVE  d \notin DOMAIN posts' /\ NoMention(d)' /\ NoLink(d)' /\ ~Writing(d)'
  <2>1. d \in 1..seq /\ d \notin DOMAIN posts
    BY DEF TypeOK, SweptOK
  <2>2. QED
    BY <1>1, <2>1, StaysClean, ErasedStaysErased DEF SweptOK
<1>4. CASE UNCHANGED vars
  BY <1>2, <1>3, <1>4 DEF vars, SweptOK
<1>5. ASSUME NEW p \in Procs, Begin(p) \/ Continue(p)
      PROVE  SweptOK'
  <2>1. ASSUME NEW q \in Procs, q # p
        PROVE  SweepOK(q)'
    <3>1. pc'[q] = pc[q] /\ mem'[q] = mem[q]
      BY <1>5, <2>1
      DEF TypeOK, Begin, Continue, StartCreate, StartTombstone, StartResolve,
          StartDeletePost, StartDeleteSession, SetSessionName, InsertPost, AddMention,
          LookupRefs, AddLink, ReturnPost, WriteTombstone, WriteResolve, FindDoomed,
          DeletePosts, DeleteMentions, DeleteLinks, DeleteName, Retry, Fail, End, Goto, Load
    <3>2. QED
      BY <1>2, <3>1
  <2>2. CASE DeletePosts(p)
    <3>1. SweepOK(p)'
      BY <2>2 DEF DeletePosts, SweepOK, TypeOK, Goto
    <3>2. QED
      BY <2>1, <2>2, <1>3, <3>1 DEF SweptOK, DeletePosts
  <2>3. CASE DeleteMentions(p)
    <3>1. /\ pc'[p] = "delLinks"
          /\ mem'[p].ids = mem[p].ids
          /\ mem'[p].late = {d \in mem[p].ids : Writing(d)}
      BY <2>3 DEF DeleteMentions, TypeOK, Memory, Goto, Load
    <3>2. mem[p].ids \subseteq 1..seq /\ mem[p].ids \cap DOMAIN posts = {}
      BY <2>3 DEF DeleteMentions, MemOK, ProcOK, SweptOK, SweepOK
    <3>3. \A d \in mem[p].ids \ mem'[p].late : NoMention(d)' /\ ~Writing(d)'
      BY <2>3, <3>1, <3>2, StaysClean DEF DeleteMentions, NoMention
    <3>4. SweepOK(p)'
      BY <2>3, <3>1, <3>2, <3>3 DEF DeleteMentions, SweepOK
    <3>5. QED
      BY <2>1, <2>3, <1>3, <3>4 DEF SweptOK, DeleteMentions
  <2>4. CASE DeleteLinks(p)
    <3> DEFINE late == mem[p].late \cup {d \in mem[p].ids : Writing(d)}
    <3>1. mem[p].ids \subseteq 1..seq /\ mem[p].ids \cap DOMAIN posts = {}
      BY <2>4 DEF DeleteLinks, MemOK, ProcOK, SweptOK, SweepOK
    <3>2. ASSUME NEW d \in mem[p].ids \ late
          PROVE  NoMention(d)' /\ ~Writing(d)' /\ NoLink(d)' /\ d \notin DOMAIN posts'
      BY <2>4, <3>1, StaysClean DEF DeleteLinks, SweptOK, SweepOK, NoLink
    <3>3. CASE mem[p].session # NoSession
      <4>1. /\ pc'[p] = "delName"
            /\ mem'[p].ids = mem[p].ids
            /\ mem'[p].late = late
            /\ UNCHANGED <<posts, swept>>
        BY <2>4, <3>3 DEF DeleteLinks, TypeOK, Memory, Goto, Load
      <4>2. SweepOK(p)'
        BY <3>1, <3>2, <4>1 DEF SweepOK
      <4>3. QED
        BY <2>1, <1>3, <4>1, <4>2 DEF SweptOK
    <3>4. CASE mem[p].session = NoSession
      <4>1. pc'[p] = "done" /\ swept' = swept \cup (mem[p].ids \ late)
        BY <2>4, <3>4 DEF DeleteLinks, TypeOK, Memory, End, Goto, Swept
      <4>2. SweepOK(p)'
        BY <4>1 DEF SweepOK
      <4>3. QED
        BY <2>1, <1>3, <3>2, <4>1, <4>2 DEF SweptOK
    <3>5. QED
      BY <3>3, <3>4
  <2>5. CASE DeleteName(p)
    <3>1. pc'[p] = "done" /\ swept' = swept \cup Clean(p)
      BY <2>5 DEF DeleteName, TypeOK, End, Goto, Swept
    <3>2. mem[p].ids \subseteq 1..seq /\ mem[p].ids \cap DOMAIN posts = {}
      BY <2>5 DEF DeleteName, MemOK, ProcOK, SweptOK, SweepOK
    <3>3. ASSUME NEW d \in Clean(p)
          PROVE  NoMention(d)' /\ ~Writing(d)' /\ NoLink(d)' /\ d \notin DOMAIN posts'
      BY <1>1, <2>5, <3>2, StaysClean, ErasedStaysErased DEF DeleteName, SweptOK, SweepOK
    <3>4. SweepOK(p)'
      BY <3>1 DEF SweepOK
    <3>5. QED
      BY <2>1, <1>3, <3>1, <3>3, <3>4 DEF SweptOK
  <2>6. CASE FindDoomed(p)
    <3>1. CASE pc'[p] # "delName"
      BY <2>1, <2>6, <1>3, <3>1 DEF FindDoomed, SweptOK, SweepOK, TypeOK, End, Goto
    <3>2. CASE pc'[p] = "delName"
      <4>1. mem'[p].ids = {} /\ swept' = swept
        BY <2>6, <3>2 DEF FindDoomed, MemOK, ProcOK, TypeOK, End, Goto
      <4>2. QED
        BY <2>1, <1>3, <4>1 DEF SweptOK, SweepOK
    <3>3. QED
      BY <3>1, <3>2
  <2>7. CASE \/ Begin(p)
             \/ InsertPost(p)
             \/ \E h \in Handles : AddMention(p, h)
             \/ LookupRefs(p)
             \/ \E t \in mem[p].ids : AddLink(p, t)
             \/ ReturnPost(p)
             \/ WriteTombstone(p)
             \/ WriteResolve(p)
             \/ Retry(p)
             \/ Fail(p)
    <3>1. /\ pc'[p] \notin {"delMentions", "delLinks", "delName"}
          /\ swept' = swept
      BY <2>7
      DEF Begin, StartCreate, StartTombstone, StartResolve, StartDeletePost,
          StartDeleteSession, SetSessionName, InsertPost, AddMention, LookupRefs, AddLink,
          ReturnPost, WriteTombstone, WriteResolve, Retry, Fail, End, Goto, TypeOK
    <3>2. QED
      BY <2>1, <1>3, <3>1 DEF SweptOK, SweepOK
  <2>8. QED
    BY <1>5, <2>2, <2>3, <2>4, <2>5, <2>6, <2>7 DEF Continue
<1>6. QED
  BY <1>4, <1>5 DEF Next
-----------------------------------------------------------------------------
(***************************************************************************)
(* Theorems                                                                *)
(***************************************************************************)
\* An empty database satisfies the inductive invariant.
LEMMA Initially == Init => IInv
<1> SUFFICES ASSUME Init PROVE IInv
  OBVIOUS
<1>1. TypeOK
  BY BlankIsMemory DEF Init, LogInit, TypeOK, LogTypeOK
<1>2. MemOK /\ RepliesFollowParents /\ RowsNameTheirPost /\ SweptOK
  BY DEF Init, LogInit, MemOK, ProcOK, RepliesFollowParents, RowsNameTheirPost, SweptOK,
         SweepOK
<1>3. QED
  BY <1>1, <1>2 DEF IInv

\* Every statement of every command preserves it.
LEMMA Inductive == IInv /\ [Next]_vars => IInv'
<1> SUFFICES ASSUME IInv, [Next]_vars PROVE IInv'
  OBVIOUS
<1>1. TypeOK' /\ MemOK' /\ RowsNameTheirPost' /\ SweptOK'
  BY TypeStep, MemStep, RowsStep, SweepStep DEF IInv
<1>2. RepliesFollowParents'
  BY LogStep, ParentsFitStep DEF IInv, TypeOK, RepliesFollowParents, ParentsFit
<1>3. QED
  BY <1>1, <1>2 DEF IInv

\* In every behaviour of the store the inductive invariant holds.
THEOREM Invariance == Spec => []IInv
BY Initially, Inductive, PTL DEF Spec

\* Rows and variables keep their types, whatever number of commands runs.
THEOREM TypeCorrect == Spec => []TypeOK
<1>1. IInv => TypeOK
  BY DEF IInv
<1>2. QED
  BY <1>1, Invariance, PTL

\* A parent is older than its replies and on their board, in spite of deletes
\* between CreatePost's check and its INSERT.
THEOREM ThreadsAreOrdered == Spec => []RepliesFollowParents
<1>1. IInv => RepliesFollowParents
  BY DEF IInv
<1>2. QED
  BY <1>1, Invariance, PTL

\* A leftover mention or link row is never taken for one of a later post.
THEOREM LeftoversAreInert == Spec => []RowsNameTheirPost
<1>1. IInv => RowsNameTheirPost
  BY DEF IInv
<1>2. QED
  BY <1>1, Invariance, PTL

\* What a hard delete reported gone is gone and stays gone, but for rows that a
\* CreatePost was still writing.
THEOREM DeletesAreFinal == Spec => []SweptStaysClean
<1>1. IInv => SweptStaysClean
  BY DEF IInv, SweptOK, SweptStaysClean, NoMention, NoLink
<1>2. QED
  BY <1>1, Invariance, PTL

\* A post that is still there keeps its mention rows, and its links to posts that
\* are, at every statement of every delete.
THEOREM DeletesTakePostsFirst == Spec => LivePostsKeepTheirRows
<1> DEFINE Keep == /\ \A m \in mentions \ mentions' : m[1] \notin DOMAIN posts'
                   /\ \A l \in links \ links' : ~({l[1], l[2]} \subseteq DOMAIN posts')
<1>1. ASSUME IInv, NEW p \in Procs, DeleteMentions(p) \/ DeleteLinks(p)
      PROVE  Keep
  <2>1. mem[p].ids \cap DOMAIN posts' = {}
    BY <1>1 DEF IInv, SweptOK, SweepOK, DeleteMentions, DeleteLinks
  <2>2. QED
    BY <1>1, <2>1 DEF DeleteMentions, DeleteLinks
<1>2. ASSUME NEW p \in Procs, Begin(p) \/ Continue(p),
             ~DeleteMentions(p), ~DeleteLinks(p)
      PROVE  mentions \subseteq mentions' /\ links \subseteq links'
  BY <1>2
  DEF Begin, Continue, StartCreate, StartTombstone, StartResolve, StartDeletePost,
      StartDeleteSession, SetSessionName, InsertPost, AddMention, LookupRefs, AddLink,
      ReturnPost, WriteTombstone, WriteResolve, FindDoomed, DeletePosts, DeleteName, Retry,
      Fail, tables
<1>3. IInv /\ [Next]_vars => [Keep]_vars
  BY <1>1, <1>2 DEF Next
<1>4. QED
  BY <1>3, Invariance, PTL DEF Spec, LivePostsKeepTheirRows

\* A post is tombstoned only by a command of its author.
THEOREM TombstonesAreTheAuthors == Spec => OnlyAuthorTombstones
<1> DEFINE Own == \A i \in DOMAIN posts \cap DOMAIN posts' :
                    posts'[i].tombed /\ ~posts[i].tombed =>
                      \E p \in Procs : pc[p] = "tombstone" /\ mem[p].by = posts[i].author
<1>1. ASSUME IInv, NEW p \in Procs, WriteTombstone(p)
      PROVE  Own
  BY <1>1 DEF IInv, MemOK, ProcOK, WriteTombstone
<1>2. ASSUME IInv, NEW p \in Procs, Begin(p) \/ Continue(p), ~WriteTombstone(p),
             NEW i \in DOMAIN posts \cap DOMAIN posts'
      PROVE  posts'[i].tombed = posts[i].tombed
  <2>1. CASE InsertPost(p)
    BY <1>2, <2>1 DEF IInv, TypeOK, LogTypeOK, InsertPost, NewId
  <2>2. CASE WriteResolve(p)
    BY <1>2, <2>2 DEF IInv, TypeOK, LogTypeOK, Post, WriteResolve
  <2>3. CASE DeletePosts(p)
    BY <1>2, <2>3 DEF DeletePosts
  <2>4. QED
    BY <1>2, <2>1, <2>2, <2>3
    DEF Begin, Continue, StartCreate, StartTombstone, StartResolve, StartDeletePost,
        StartDeleteSession, SetSessionName, AddMention, LookupRefs, AddLink, ReturnPost,
        FindDoomed, DeleteMentions, DeleteLinks, DeleteName, Retry, Fail, tables
<1>3. IInv /\ [Next]_vars => [Own]_vars
  BY <1>1, <1>2 DEF Next
<1>4. QED
  BY <1>3, Invariance, PTL DEF Spec, OnlyAuthorTombstones

\* PostStore implements PostLog: what the readers of the table rely on.
THEOREM StoreImplementsLog == Spec => ImplementsLog
<1>1. Init => LogInit
  BY DEF Init
<1>2. IInv /\ [Next]_vars => [LogNext]_logVars
  BY LogStep DEF IInv, TypeOK
<1>3. QED
  BY <1>1, <1>2, Invariance, PTL DEF Spec, ImplementsLog, LogSpec
=============================================================================
