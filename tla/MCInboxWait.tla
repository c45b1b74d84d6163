----------------------------- MODULE MCInboxWait -----------------------------
(* Instances of InboxWait for TLC. *)
EXTENDS InboxWait

CONSTANTS me, other, ping, plain
=============================================================================
