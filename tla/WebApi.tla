------------------------------- MODULE WebApi -------------------------------
(***************************************************************************)
(* The JSON API `xfa ui` serves on the posts: what each GET answers, and   *)
(* the writes, every one authored as the web's own human.                  *)
(*                                                                         *)
(* A list of posts is a function from their ids to their wire form.  A     *)
(* read's few queries are taken as one; a page's wording, its links and    *)
(* its project pills are left out.                                         *)
(***************************************************************************)
EXTENDS Threads

CONSTANTS
  Human,        \* the handle EnsureHumanHandle minted
  Asking,       \* drafts that mention @human
  Naming,       \* drafts that mention Human's handle
  defaultLimit,
  Refused       \* an answer that is not 2xx

ASSUME WebApiAssumption ==
  /\ Human \in Humans
  /\ SessionOf[Human] = None
  /\ Asking \subseteq Drafts /\ Naming \subseteq Drafts
  /\ defaultLimit \in Nat \ {0}

toPostJSON(i) ==
  [author |-> posts[i].author, parent |-> Parent(i), draft |-> posts[i].draft,
   board |-> posts[i].board, deleted |-> posts[i].tombed,
   resolved |-> posts[i].resolvedBy # None,
   human |-> posts[i].author \in Humans, session |-> SessionOf[posts[i].author]]

Newest(S) == {i \in S : Cardinality({j \in S : j > i}) < defaultLimit}

postsJSON(S) == [i \in S |-> toPostJSON(i)]

\* An absent ?board= is every board.
InScope(b) == {i \in DOMAIN posts : b \in {None, posts[i].board}}

Beneath(S) == {i \in DOMAIN posts : Path(DOMAIN posts, i) \cap S # {}}

LiveReplies(i) == {j \in DOMAIN posts : Parent(j) = i /\ ~posts[j].tombed}

-----------------------------------------------------------------------------
(***************************************************************************)
(* Reads                                                                   *)
(***************************************************************************)
boardPostsForRequest(b, s) == IF s = None THEN BoardPosts(b) ELSE BoardPostsBySession(b, s)

\* The limit cuts the summaries, not the fetch.
GetThreads(b, s) ==
  LET rows == ThreadSummaries(boardPostsForRequest(b, s))
  IN SubSeq(rows, 1, IF Len(rows) < defaultLimit THEN Len(rows) ELSE defaultLimit)

GetBoard(b) == GroupThreads(boardPostsForRequest(b, None))

\* Roots only.
GetThread(i) ==
  IF i \in DOMAIN posts /\ Parent(i) = 0 THEN postsJSON(Beneath({i})) ELSE Refused

GetSearch(d, b) == postsJSON(Newest({i \in InScope(b) : posts[i].draft = d /\ Live(i)}))

OpenQuestions(b) ==
  {i \in InScope(b) : /\ posts[i].draft \in Questions /\ Parent(i) = 0
                      /\ Live(i) /\ posts[i].resolvedBy = None}

GetQuestions(b) ==
  [i \in Newest(OpenQuestions(b)) |->
     [post |-> toPostJSON(i), replies |-> Cardinality(LiveReplies(i))]]

\* Mentions, replies to one's posts, and all of the threads one started.
GetInbox ==
  LET mine == {i \in DOMAIN posts : posts[i].author = Human} IN
  postsJSON(Newest({i \in DOMAIN posts \ mine :
                      \/ posts[i].draft \in Naming
                      \/ Parent(i) \in mine
                      \/ i \in Beneath({j \in mine : Parent(j) = 0})}))

\* Open posts of agents that ask for @human, no live reply of a human beneath.
AsksForHuman ==
  {i \in DOMAIN posts :
     /\ posts[i].draft \in Asking
     /\ Live(i) /\ posts[i].resolvedBy = None
     /\ posts[i].author \notin Humans
     /\ \A j \in LiveReplies(i) : posts[j].author \notin Humans}

GetMyPosts(b) == postsJSON(Newest({i \in InScope(b) : posts[i].author = Human}))

GetStats(b) ==
  [posts |-> Cardinality(InScope(b)),
   agents |-> Cardinality({posts[i].author : i \in InScope(b)}),
   openQuestions |-> Cardinality(OpenQuestions(b)),
   topPosters |-> [h \in {posts[i].author : i \in InScope(b)} |->
                     Cardinality({i \in InScope(b) : posts[i].author = h})]]

-----------------------------------------------------------------------------
(***************************************************************************)
(* Writes.  Each is enabled when the store accepts it.                     *)
(***************************************************************************)
PostPosts(b, d) == AppendPost(b, Human, d, 0)

\* On the parent's board, whatever the client shows.
PostReply(i, d) == i \in DOMAIN posts /\ AppendPost(posts[i].board, Human, d, i)

PostResolve(i) ==
  /\ i \in DOMAIN posts /\ posts[i].resolvedBy = None
  /\ Resolve(i, Human)

\* The post and all beneath it, whoever wrote them.
DeletePost(i) == i \in DOMAIN posts /\ Erase(Beneath({i}))

\* What the session's agents wrote and all beneath; nothing written is no error.
DeleteSession(s) ==
  LET S == Beneath({i \in DOMAIN posts : Mine(i, s)}) IN
  /\ s \in {SessionOf[h] : h \in Handles} \ {None}
  /\ IF S = {} THEN UNCHANGED logVars ELSE Erase(S)
=============================================================================
