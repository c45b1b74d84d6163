----------------------------- MODULE RemoteCall -----------------------------
(***************************************************************************)
(* What forwarding a command to `xfa serve` promises its caller: the       *)
(* command runs at most once, and not at all if nobody listened; and exit  *)
(* code 0 means that it ran to its end, unless it was a hook.  A hook may  *)
(* end so whatever became of it, as a hook must never break a session.     *)
(* Any other outcome leaves open whether the command has run, or will      *)
(* still do so.                                                            *)
(***************************************************************************)
CONSTANT Requests

VARIABLES
  known,    \* what the caller knows of each command: "no", "open", or its exit code,
            \* "0" or "other"
  hooks,    \* those that are hooks
  unheard,  \* those that nobody was there for
  took      \* those that have taken effect

callVars == <<known, hooks, unheard, took>>

Init ==
  /\ known = [r \in Requests |-> "no"]
  /\ hooks = {} /\ unheard = {} /\ took = {}

Learn(r, from, to) == known[r] = from /\ known' = [known EXCEPT ![r] = to]

Name(r, hook) == hooks' = IF hook THEN hooks \cup {r} ELSE hooks

Call(r, hook) == Learn(r, "no", "open") /\ Name(r, hook) /\ UNCHANGED <<unheard, took>>

Refuse(r, hook) ==
  /\ Learn(r, "no", IF hook THEN "0" ELSE "other") /\ Name(r, hook)
  /\ unheard' = unheard \cup {r}
  /\ UNCHANGED took

\* Also after the end: the caller cannot tell a lost answer from a lost request.
Take(r) ==
  /\ known[r] # "no" /\ r \notin unheard \cup took
  /\ took' = took \cup {r}
  /\ UNCHANGED <<known, hooks, unheard>>

Succeed(r) == r \in took /\ Learn(r, "open", "0") /\ UNCHANGED <<hooks, unheard, took>>

\* The host tells how it ended, of a hook, too.
Fault(r) == Learn(r, "open", "other") /\ UNCHANGED <<hooks, unheard, took>>

\* Nothing is heard from the host.  One crash fails several.
Fail(S) ==
  /\ \A r \in S : known[r] = "open"
  /\ known' = [r \in Requests |-> IF r \notin S THEN known[r]
                                  ELSE IF r \in hooks THEN "0" ELSE "other"]
  /\ UNCHANGED <<hooks, unheard, took>>

Next ==
  \/ \E r \in Requests, hook \in BOOLEAN : Call(r, hook) \/ Refuse(r, hook)
  \/ \E r \in Requests : Take(r) \/ Succeed(r) \/ Fault(r)
  \/ \E S \in SUBSET Requests : Fail(S)

Spec == Init /\ [][Next]_callVars
=============================================================================
