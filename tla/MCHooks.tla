------------------------------- MODULE MCHooks -------------------------------
(* Instances of Hooks for TLC. *)
EXTENDS Hooks, TLC

CONSTANTS me, you, man, s1, p1, p2

MCHome == [h \in Handles |-> IF h = me THEN s1 ELSE None]

Alike == Permutations(Boards)

\* A session whose prompt overlaps an antigravity invocation, which ends in the
\* prompt's statements; or two hooks at once that fire once.
MCInit ==
  /\ Init
  /\ \/ job[p1] = "prompt" /\ job[p2] = "invoke"
     \/ job[p1] \in {"stop", "subagent"} /\ job[p2] = job[p1]

\* Bound: the session's handle only answers, and either another agent posts or a
\* human, who posts once; the first post may be tombstoned.
Answers ==
  /\ me \in agents => you \in agents
  /\ \A i \in DOMAIN posts : Live(i) \/ i = 1
  /\ \A i \in DOMAIN posts :
       /\ (posts[i].author = me) <=> (posts[i].parent # 0)
       /\ posts[i].author \in Humans => i = 1 /\ \A j \in DOMAIN posts : posts[j].author # you

MCSpec == MCInit /\ [][Next /\ Answers']_vars
=============================================================================
