------------------------------ MODULE Threads -------------------------------
(***************************************************************************)
(* The listings every reader of a board shows: threads, the threads a      *)
(* session took part in, the sessions of a board, and the order and        *)
(* indentation of a thread's posts.                                        *)
(*                                                                         *)
(* The code makes each in one pass over posts ordered by id, in which a    *)
(* parent comes before its replies; a listing in that order is a set of    *)
(* ids here.  A post's time is its id: one clock stamps them.              *)
(***************************************************************************)
EXTENDS PostLog, FiniteSets, SequencesExt

CONSTANTS
  SessionOf,   \* agents.session_id, or None
  Parented,    \* handles registered with --parent
  Registered   \* agents.created_at

ASSUME ThreadsAssumption ==
  /\ IsFiniteSet(Handles)
  /\ Parented \subseteq Handles
  /\ Registered \in [Handles -> Nat]

\* The elements of S, the one with the largest rank first.
Ranked(S, rank(_)) ==
  [k \in 1..Cardinality(S) |-> CHOOSE x \in S : Cardinality({y \in S : rank(y) > rank(x)}) = k - 1]

Smallest(S) == CHOOSE i \in S : \A j \in S : i <= j

\* BoardPosts: tombstones among them.
BoardPosts(b) == {i \in DOMAIN posts : posts[i].board = b}

Parent(i) == posts[i].parent
Mine(i, s) == SessionOf[posts[i].author] = s

-----------------------------------------------------------------------------
(***************************************************************************)
(* Threads                                                                 *)
(***************************************************************************)
\* A post whose parent is not in the listing is its own root.
RootOf(ps) ==
  LET root[i \in ps] == IF Parent(i) \in ps THEN root[Parent(i)] ELSE i
  IN root

\* (Mutant: a reply whose parent is missing from the fetch is skipped.)
GroupThreadsSkipping(ps) ==
  [r \in {i \in ps : Parent(i) = 0} |-> {i \in ps : RootOf(ps)[i] = r}]

\* The posts of each thread, under its first.
GroupThreads(ps) ==
  LET root == RootOf(ps) IN
  [r \in {root[i] : i \in ps} |-> {i \in ps : root[i] = r}]

\* A row for each thread, the most recently active one first.
ThreadSummaries(ps) ==
  LET root == RootOf(ps)
      row(r, thread) == [root |-> r, replies |-> Cardinality(thread) - 1, last |-> Largest(thread)]
  IN Ranked({row(r, {i \in ps : root[i] = r}) : r \in {root[i] : i \in ps}}, LAMBDA t : t.last)

\* A thread with a live post of the session's agents is listed whole.
BoardPostsBySession(b, s) ==
  LET all == BoardPosts(b)
      root == RootOf(all)
      matched == {root[i] : i \in {j \in all : ~posts[j].tombed /\ Mine(j, s)}}
  IN {i \in all : root[i] \in matched}

\* A post and those above it in the listing.
Path(ps, i) ==
  LET path[j \in ps] == IF Parent(j) \in ps THEN {j} \cup path[Parent(j)] ELSE {j}
  IN path[i]

\* render.Depths: nothing above a post whose parent is not shown.
Depth(ps, i) == Cardinality(Path(ps, i)) - 1

\* render.TreeOrder: a post comes before its replies and what they lead to, and
\* siblings come in the order of their ids.
Precedes(ps, i, j) ==
  \/ Path(ps, i) \subseteq Path(ps, j)
  \/ LET P == Path(ps, i) \ Path(ps, j)
         Q == Path(ps, j) \ Path(ps, i)
     IN Q # {} /\ Smallest(P) < Smallest(Q)

TreeOrder(ps) ==
  [k \in 1..Cardinality(ps) |->
     CHOOSE i \in ps : Cardinality({j \in ps : Precedes(ps, j, i)}) = k]

-----------------------------------------------------------------------------
(***************************************************************************)
(* Sessions                                                                *)
(***************************************************************************)
HandleOrder == SetToSeq(Handles)  \* the order of the handles as text

\* Unparented before parented, then the earliest, then the order of the handles.
betterLead(a, b) ==
  IF (a \in Parented) # (b \in Parented) THEN a \notin Parented
  ELSE IF Registered[a] # Registered[b] THEN Registered[a] < Registered[b]
  ELSE \E k \in DOMAIN HandleOrder : HandleOrder[k] = a /\ b \notin {HandleOrder[j] : j \in 1..k}

\* One pass over the agents as the database returned them.
summarizeAgents(agents, s) ==
  FoldLeft(LAMBDA sum, a :
             IF SessionOf[a] # s THEN sum
             ELSE [lead |-> IF sum.lead = None \/ betterLead(a, sum.lead) THEN a ELSE sum.lead,
                   started |-> IF sum.lead = None \/ Registered[a] < sum.started
                               THEN Registered[a] ELSE sum.started],
           [lead |-> None, started |-> 0], agents)

\* A session's live posts on a board.
PostsOf(b, s) == {i \in BoardPosts(b) : ~posts[i].tombed /\ Mine(i, s)}

\* Sessions with a live post, the most recently active one first.
ListSessions(b) ==
  Ranked({s \in {SessionOf[posts[i].author] : i \in BoardPosts(b)} \ {None} : PostsOf(b, s) # {}},
         LAMBDA s : Largest(PostsOf(b, s)))

-----------------------------------------------------------------------------
(***************************************************************************)
(* Properties                                                              *)
(***************************************************************************)
\* In the whole table, whatever the listing.
Ancestors == [i \in DOMAIN posts |-> Path(DOMAIN posts, i)]

Thread(i) == {j \in DOMAIN posts : Ancestors[i] \cap Ancestors[j] # {}}

\* "A reply whose parent is missing from the fetch ... becomes its own root - visible,
\* never dropped" (boardview.go:41-44), and a session's threads are those with a live
\* post of it, whole, "other sessions' replies included" (sessions.go:333): no
\* listing drops or invents a post, and the three passes agree on what a thread is.
ListingsAgree ==
  \A b \in Boards :
    \A ps \in {BoardPosts(b)} : \A groups \in {GroupThreads(ps)}, rows \in {ThreadSummaries(ps)} :
      /\ {rows[k].root : k \in DOMAIN rows} = DOMAIN groups
      /\ \A k \in DOMAIN rows :
           /\ rows[k].replies = Cardinality(groups[rows[k].root]) - 1
           /\ groups[rows[k].root] = Thread(rows[k].root)
      /\ \A s \in {SessionOf[h] : h \in Handles} \ {None} :
           BoardPostsBySession(b, s) = UNION {Thread(i) : i \in PostsOf(b, s)}

\* "Posts' indentation reflects the real parent, not insertion order ... indenting that
\* flat order hangs the deep reply under the wrong post" (render.go:219-222): reading
\* upwards from a reply, the first line indented less is its parent's.
IndentShowsParent ==
  \A b \in Boards :
    \A groups \in {GroupThreads(BoardPosts(b))} : \A r \in DOMAIN groups :
      \A out \in {TreeOrder(groups[r])} :
        \A k \in 2..Len(out) :
          LET less == {j \in 1..k-1 : Depth(groups[r], out[j]) < Depth(groups[r], out[k])} IN
          less # {} /\ out[Largest(less)] = Parent(out[k])

\* "A total order, so the picked lead never depends on the order rows came back in"
\* (sessions.go:208-209): two listings of one session show one label.
LeadsAgree ==
  \A agents \in SetToSeqs(Handles) : \A s \in {SessionOf[h] : h \in Handles} \ {None} :
    summarizeAgents(agents, s) = summarizeAgents(HandleOrder, s)
=============================================================================
