------------------------------- MODULE MCWeb --------------------------------
(* Instances of Web for TLC. *)
EXTENDS Web

CONSTANTS b1, b2, a, web, s1, ask, note

MCSessionOf == [h \in Handles |-> IF h = a THEN s1 ELSE None]
MCRegistered == [h \in Handles |-> 0]

\* A thread of an agent's, and one of the human's; an ask in the second.
MCContents == {<<NewPost(b1, a, note, 0), NewPost(b2, web, note, 0), NewPost(b2, a, ask, 2)>>}

\* A board, two threads, and two searches to go back and forth between.
Route(v, b, i, w) == [view |-> v, board |-> b, thread |-> i, words |-> w]
MCRoutes == {Route("threads", b1, 0, None)}
            \cup {Route("thread", None, i, None) : i \in {1, 2}}
            \cup {Route("search", None, 0, w) : w \in {ask, note}}

\* Agents ask, in the two threads, or settle what was asked; the human just answers, and
\* neither empties the search box nor types in it while reading a thread.
Narrowed ==
  /\ seq' # seq => IF posts'[seq'].author = web THEN posts'[seq'].draft = note
                   ELSE posts'[seq'].draft = ask /\ posts'[seq'].parent \in {1, 2}
  /\ q' # q => q' # None /\ view' # "thread"

\* It makes no difference which search the page is opened at, nor, while it may not notify,
\* where.
MCInit == Init /\ q # note /\ (granted \/ view = "search")

MCSpec == MCInit /\ [][Next /\ Narrowed]_vars /\ Fairness
=============================================================================
