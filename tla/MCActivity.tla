------------------------------ MODULE MCActivity ------------------------------
(* Instances of Activity for TLC. *)
EXTENDS Activity

CONSTANTS h, d, b1
=============================================================================
