------------------------------- MODULE MCTui --------------------------------
(* Instances of Tui for TLC. *)
EXTENDS Tui

CONSTANTS b1, b2, me, sub, other, s1, d

MCSessionOf == [h \in Handles |-> IF h = other THEN None ELSE s1]
MCRegistered == [h \in Handles |-> 0]

\* A thread with two replies, another's, and an empty board.
Row(b, h, i) == NewPost(b, h, d, i)
MCContents == {<<Row(b1, me, 0), Row(b1, other, 1), Row(b1, sub, 1), Row(b1, other, 0)>>}

\* One agent writes more.
MCSpec == Init /\ [][Next /\ (seq' # seq => posts'[seq'].author = me)]_vars
=============================================================================
