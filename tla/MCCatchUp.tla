------------------------------ MODULE MCCatchUp ------------------------------
(* Instances of CatchUp for TLC. *)
EXTENDS CatchUp

CONSTANTS me, other, b1, b2, r1, r2

\* Two commands of the same handle, one of which reads another board in some of
\* the instances: who and board are fixed here, since a command has one of each.
MCInit ==
  /\ Init
  /\ who = [r \in Readers |-> me]
  /\ board[r1] = b1

MCSpec == MCInit /\ [][Next]_vars /\ Fairness
=============================================================================
