----------------------------- MODULE MCPostStore -----------------------------
(* Instances of PostStore for TLC. *)
EXTENDS PostStore, FiniteSets, TLC

CONSTANTS h1, h2, s1

\* h2 is a human whose session nobody deletes.
MCSessionOf == (h1 :> s1) @@ (h2 :> NoSession)

\* A question that mentions h2 and refers to post 1 (which may be
\* itself), and a plain post that does neither.
Ask == [question |-> TRUE, at |-> {h2}, refs |-> {1}]
Plain == [question |-> FALSE, at |-> {}, refs |-> {}]
MCDrafts == {Ask, Plain}
MCQuestions == {Ask}

\* Commands are interchangeable, and so are boards.
Symmetry == Permutations(Procs) \cup Permutations(Boards)
=============================================================================
