------------------------------- MODULE PostLog -------------------------------
(***************************************************************************)
(* What the posts table promises to everything that reads it: the abstract *)
(* specification of internal/store's write side.                           *)
(*                                                                         *)
(* A post is appended under a number never used before, its content never  *)
(* changes, it may be marked (tombstoned, resolved) and it may be erased   *)
(* for good.  The unread cursors, the inbox watermark, the prompt          *)
(* high-water mark and the UI activity poller all rest on this promise and *)
(* on nothing else, so their modules extend this one; PostStore, which     *)
(* follows the code statement by statement, implements it.                 *)
(***************************************************************************)
EXTENDS Naturals

CONSTANTS
  Boards,     \* boards.id values
  Handles,    \* registered agents.handle values
  Humans,     \* those registered with provider "human"
  Drafts,     \* what an author submits: body and tag
  Questions,  \* the drafts tagged "question"
  None        \* no handle: resolved_by of an open post

ASSUME LogAssumption ==
  /\ Humans \subseteq Handles
  /\ Questions \subseteq Drafts
  /\ None \notin Handles

VARIABLES
  posts,  \* the posts table: a function from the ids present to their rows
  seq     \* sqlite_sequence: the largest id ever given out

logVars == <<posts, seq>>

\* A row of posts.  Id 0 stands for a NULL parent_id.
Post == [board: Boards, author: Handles, draft: Drafts, parent: Nat,
         tombed: BOOLEAN, resolvedBy: Handles \cup {None}]

NewPost(b, h, d, i) ==
  [board |-> b, author |-> h, draft |-> d, parent |-> i,
   tombed |-> FALSE, resolvedBy |-> None]

LogTypeOK ==
  /\ seq \in Nat
  /\ DOMAIN posts \subseteq 1..seq
  /\ posts \in [DOMAIN posts -> Post]

Largest(S) == IF S = {} THEN 0 ELSE CHOOSE i \in S : \A j \in S : j <= i

MaxPostID == Largest(DOMAIN posts)

Live(i) == i \in DOMAIN posts /\ ~posts[i].tombed

\* The parent a reply names is older, and still on the board it is sent to
\* unless it has been erased meanwhile.
ParentFits(b, i) ==
  /\ i \in 0..seq
  /\ i \in DOMAIN posts => posts[i].board = b

\* A human's post can be closed whatever it is, anyone else's only when it is a
\* top-level question.
Closable(i) ==
  \/ posts[i].author \in Humans
  \/ posts[i].parent = 0 /\ posts[i].draft \in Questions
-----------------------------------------------------------------------------
LogInit ==
  /\ posts = [i \in {} |-> {}]
  /\ seq = 0

AppendPost(b, h, d, i) ==
  /\ ParentFits(b, i)
  /\ seq' = seq + 1
  /\ posts' = [j \in DOMAIN posts \cup {seq + 1} |->
                 IF j = seq + 1 THEN NewPost(b, h, d, i) ELSE posts[j]]

Tombstone(i) ==
  /\ Live(i)
  /\ UNCHANGED seq
  /\ posts' = [posts EXCEPT ![i].tombed = TRUE]

Resolve(i, h) ==
  /\ i \in DOMAIN posts
  /\ Closable(i)
  /\ UNCHANGED seq
  /\ posts' = [posts EXCEPT ![i].resolvedBy = h]

Erase(S) ==
  /\ S # {}
  /\ S \subseteq DOMAIN posts
  /\ UNCHANGED seq
  /\ posts' = [j \in DOMAIN posts \ S |-> posts[j]]

LogNext ==
  \/ \E b \in Boards, h \in Handles, d \in Drafts, i \in 0..seq : AppendPost(b, h, d, i)
  \/ \E i \in DOMAIN posts : Tombstone(i)
  \/ \E i \in DOMAIN posts, h \in Handles : Resolve(i, h)
  \/ \E S \in SUBSET DOMAIN posts : Erase(S)

LogSpec == LogInit /\ [][LogNext]_logVars
=============================================================================
