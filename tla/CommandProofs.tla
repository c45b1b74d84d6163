---------------------------- MODULE CommandProofs ---------------------------
(***************************************************************************)
(* Proofs about the commands whose effects are not rows of the tables.     *)
(* First those that are forwarded, for any number of them and of slots and *)
(* for any timeouts: every subprocess has its handler and a slot, a client *)
(* gives up only when the network took the slack, and a forwarded command  *)
(* is the call that RemoteCall promises.  Then init and uninstall, for any *)
(* providers, versions, directories, registrations and edits: they keep    *)
(* what the human wrote, pins and bindings stand, and a command that ends  *)
(* well has done what it says.                                             *)
(***************************************************************************)
EXTENDS Remote, Install, FiniteSetTheorems, WellFoundedInduction, TLAPS

-----------------------------------------------------------------------------
(***************************************************************************)
(* The inductive invariant                                                 *)
(***************************************************************************)
\* The type invariant, without what it counts and bounds, and with the domains
\* of the functions.
ShapeOK ==
  /\ serving \in {"up", "stopping", "down"}
  /\ slots \in [Pools -> Nat]
  /\ outcome \in [Requests -> Outcomes] /\ at \in [Requests -> Places]
  /\ age \in [Requests -> Nat] /\ lag \in [Requests -> Nat] /\ spent \in [Requests -> Nat]
  /\ verb \in [Requests -> Verbs \cup {"none"}] /\ flaws \in [Requests -> Flaws \cup {{}}]
  /\ child \in [Requests -> {"none", "alive", "exited", "failed"}]
  /\ hungup \subseteq Requests /\ effect \subseteq Requests
  /\ code \in [Requests -> Codes]

\* What the client of a request has to do with its place on the server: nothing is
\* anywhere unless it was sent, an invocation has its verb from its start, only a
\* handler is told of a departure, and the time a client has waited is what its request
\* spent outside of a handler and, at most, what the server's deadline grants within.
ClientOK(r) ==
  /\ at[r] = "none" <=> outcome[r] \in {"none", "refused"}
  /\ outcome[r] = "none" => verb[r] = "none"
  /\ r \in hungup => Handled(r) /\ ~Waiting(r)
  /\ ~Waiting(r) => age[r] = 0 /\ lag[r] = 0
  /\ ~Handled(r) => spent[r] = 0
  /\ spent[r] <= ServerTimeout(r)
  /\ age[r] <= ClientTimeout(r) /\ lag[r] <= age[r]
  /\ at[r] \in {"none", "wire"} => age[r] = lag[r]
  /\ Handled(r) => age[r] <= lag[r] + spent[r]
  /\ at[r] = "reply" => age[r] <= lag[r] + ServerTimeout(r)

\* What the subprocess of a request has to do with its place: it is there for the
\* run, or cut off from it; and a success was a run to the end.
ChildOK(r) ==
  /\ at[r] = "running" => child[r] # "none"
  /\ child[r] # "none" => at[r] \in {"running", "cut"}
  /\ child[r] = "exited" => r \in effect
  /\ code[r] = "0" => at[r] = "reply" /\ r \in effect
  /\ r \in effect => at[r] # "none"

\* The requests that hold a token of a pool.
Running(p) == {r \in Requests : at[r] = "running" /\ Pool(r) = p}

\* A semaphore holds one token for each of them, and never more than it has room for.
SlotsOK == \A p \in Pools : slots[p] = Cardinality(Running(p)) /\ slots[p] <= Capacity(p)

IInv ==
  /\ ShapeOK
  /\ \A r \in Requests : ClientOK(r) /\ ChildOK(r)
  /\ SlotsOK

-----------------------------------------------------------------------------
(***************************************************************************)
(* The operators                                                           *)
(***************************************************************************)
\* Every timeout is a number, also the next one: only the verb decides.
LEMMA TimeoutsAreNumbers ==
  ASSUME NEW r
  PROVE  /\ ClientTimeout(r) \in Nat /\ ServerTimeout(r) \in Nat
         /\ ClientTimeout(r)' \in Nat /\ ServerTimeout(r)' \in Nat
         /\ verb'[r] = verb[r] => /\ ClientTimeout(r)' = ClientTimeout(r)
                                  /\ ServerTimeout(r)' = ServerTimeout(r)
                                  /\ Pool(r)' = Pool(r)
BY RemoteAssumption DEF ClientTimeout, ServerTimeout, verbForwardTimeout, Pool

\* The tokens of a pool are held by finitely many requests.
LEMMA RunningIsFinite ==
  ASSUME NEW p
  PROVE  IsFiniteSet(Running(p)) /\ Cardinality(Running(p)) \in Nat
<1>1. IsFiniteSet(Requests)
  <2>1. 1 \in Int /\ MaxRequests \in Int
    BY RemoteAssumption
  <2>2. QED
    BY <2>1, FS_Interval DEF Requests
<1>2. IsFiniteSet(Running(p))
  BY <1>1, FS_Subset DEF Running
<1>3. QED
  BY <1>2, FS_CardinalityType

\* The client's end of an invocation, and the way of its request to it.
LEMMA ClientsMoves ==
  ASSUME ShapeOK, NEW r \in Requests, GiveUp(r) \/ Receive(r) \/ Break(r)
  PROVE  /\ (\E o \in Outcomes : EndsAs(r, o)) \/ UNCHANGED clientVars
         /\ at' = at \/ at' = [at EXCEPT ![r] = "over"]
         /\ code' = code \/ code' = [code EXCEPT ![r] = "none"]
         /\ UNCHANGED <<serving, slots, verb, flaws, spent, hungup, child, effect>>
<1>1. (\E o \in Outcomes : EndsAs(r, o)) \/ UNCHANGED clientVars
  <2>1. {"exit 0", "exit n", "error"} \subseteq Outcomes /\ code[r] \in {"0", "other", "none"}
    BY DEF Outcomes, Codes, ShapeOK
  <2>2. QED
    BY <2>1 DEF GiveUp, Receive, Break
<1>2. QED
  BY <1>1 DEF GiveUp, Receive, Break, Move, reqVars

\* The steps in which one request, its client, its handler or its subprocess moves.
Moves(r) == Client(r) \/ Handler(r) \/ HangUp(r) \/ TakeEffect(r) \/ Terminate(r)

\* They leave the other requests alone.
LEMMA OthersStay ==
  ASSUME ShapeOK, NEW r \in Requests, Moves(r), NEW q \in Requests, q # r
  PROVE  /\ at'[q] = at[q] /\ outcome'[q] = outcome[q] /\ verb'[q] = verb[q]
         /\ age'[q] = age[q] /\ lag'[q] = lag[q] /\ spent'[q] = spent[q]
         /\ child'[q] = child[q] /\ code'[q] = code[q]
         /\ (q \in hungup' <=> q \in hungup) /\ (q \in effect' <=> q \in effect)
<1> USE DEF ShapeOK, reqVars, clientVars, timeVars
<1>1. CASE Forward(r)
  BY <1>1 DEF Forward, Move
<1>2. CASE GiveUp(r) \/ Receive(r) \/ Break(r)
  BY <1>2, ClientsMoves DEF EndsAs
<1>3. CASE Serve(r) \/ Admit(r) \/ Kill(r)
  BY <1>3 DEF Serve, Admit, Kill, Move
<1>4. CASE Busy(r) \/ Finish(r)
  BY <1>4 DEF Busy, Finish, Answer, Move
<1>5. CASE HangUp(r) \/ TakeEffect(r)
  BY <1>5 DEF HangUp, TakeEffect
<1>6. CASE Terminate(r)
  BY <1>6 DEF Terminate
<1>7. QED
  BY <1>1, <1>2, <1>3, <1>4, <1>5, <1>6 DEF Moves, Client, Handler

-----------------------------------------------------------------------------
(***************************************************************************)
(* Types                                                                   *)
(***************************************************************************)
\* Every step keeps the types.
LEMMA ShapeStep ==
  ASSUME IInv, [Next]_vars
  PROVE  ShapeOK'
<1> USE DEF ShapeOK, Waiting, Handled, Expired, Alive, reqVars, clientVars, timeVars
<1>0. ShapeOK
  BY DEF IInv
<1>0b. /\ "wire" \in Places /\ "queued" \in Places /\ "running" \in Places
       /\ "reply" \in Places /\ "over" \in Places /\ "cut" \in Places
  BY DEF Places
<1>0c. /\ "waiting" \in Outcomes /\ "error" \in Outcomes /\ "refused" \in Outcomes
       /\ "none" \in Codes /\ "0" \in Codes /\ "other" \in Codes
  BY DEF Outcomes, Codes
<1>0a. \A r \in Requests : Pool(r) \in Pools
  BY DEF Pool, Pools
<1>1. ASSUME NEW r \in Requests, Forward(r)
      PROVE  ShapeOK'
  <2>1. CASE serving = "up"
    <3>1. PICK v \in Verbs : verb' = [verb EXCEPT ![r] = v]
      BY <1>0, <1>1, <2>1 DEF Forward, Waiting
    <3>2. PICK f \in Flaws : flaws' = [flaws EXCEPT ![r] = f]
      BY <1>0, <1>1, <2>1 DEF Forward, Waiting
    <3>3. QED
      BY <1>0, <1>0b, <1>0c, <1>1, <2>1, <3>1, <3>2 DEF Forward, Waiting, Move
  <2>2. CASE serving # "up"
    <3>1. PICK v \in Verbs : verb' = [verb EXCEPT ![r] = v]
      BY <1>0, <1>1, <2>2 DEF Forward
    <3>2. verb' \in [Requests -> Verbs \cup {"none"}]
      BY <1>0, <3>1
    <3>3. QED
      BY <1>0, <1>0c, <1>1, <2>2, <3>2 DEF Forward, Waiting
  <2>3. QED
    BY <1>0, <2>1, <2>2
<1>2. ASSUME NEW r \in Requests, GiveUp(r) \/ Receive(r) \/ Break(r)
      PROVE  ShapeOK'
  <2>1. outcome' \in [Requests -> Outcomes] /\ age' \in [Requests -> Nat] /\ lag' \in [Requests -> Nat]
    <3>1. CASE UNCHANGED clientVars
      BY <1>0, <3>1
    <3>2. ASSUME NEW o \in Outcomes, EndsAs(r, o)
          PROVE  outcome' \in [Requests -> Outcomes] /\ age' \in [Requests -> Nat] /\ lag' \in [Requests -> Nat]
      BY <1>0, <3>2 DEF EndsAs
    <3>3. QED
      BY <1>0, <1>2, <3>1, <3>2, ClientsMoves
  <2>2. at' \in [Requests -> Places] /\ code' \in [Requests -> Codes]
    <3>1. /\ at' = at \/ at' = [at EXCEPT ![r] = "over"]
          /\ code' = code \/ code' = [code EXCEPT ![r] = "none"]
      BY <1>0, <1>2, ClientsMoves
    <3>2. at' \in [Requests -> Places]
      BY <1>0, <1>0b, <3>1
    <3>3. code' \in [Requests -> Codes]
      BY <1>0, <1>0c, <3>1
    <3>4. QED
      BY <3>2, <3>3
  <2>3. QED
    BY <1>0, <1>2, <2>1, <2>2, ClientsMoves
<1>3. ASSUME NEW r \in Requests, Serve(r) \/ HangUp(r) \/ TakeEffect(r)
      PROVE  ShapeOK'
  BY <1>0, <1>0b, <1>3 DEF Serve, HangUp, TakeEffect, Move
<1>4. ASSUME NEW r \in Requests, Terminate(r) \/ Kill(r)
      PROVE  ShapeOK'
  <2>1. \E c \in {"failed", "exited"} : child' = [child EXCEPT ![r] = c]
    BY <1>0, <1>4 DEF Terminate, Kill
  <2>2. QED
    BY <1>0, <1>4, <2>1 DEF Terminate, Kill
<1>5. ASSUME NEW r \in Requests, Admit(r)
      PROVE  ShapeOK'
  <2>1. slots' \in [Pools -> Nat]
    BY <1>0, <1>0a, <1>5 DEF Admit
  <2>2. at' \in [Requests -> Places]
    BY <1>0, <1>0b, <1>5 DEF Admit, Move
  <2>3. child' \in [Requests -> {"none", "alive", "exited", "failed"}]
    <3>1. child' = [child EXCEPT ![r] = "failed"] \/ child' = [child EXCEPT ![r] = "alive"]
      BY <1>5 DEF Admit, Done
    <3>2. QED
      BY <1>0, <3>1
  <2>4. QED
    BY <1>0, <1>5, <2>1, <2>2, <2>3 DEF Admit
<1>6. ASSUME NEW r \in Requests, Busy(r)
      PROVE  ShapeOK'
  BY <1>0, <1>0b, <1>0c, <1>6 DEF Busy, Answer, Move
<1>7. ASSUME NEW r \in Requests, Finish(r)
      PROVE  ShapeOK'
  <2>1. at[r] = "running"
    BY <1>7 DEF Finish, Answer, Move
  <2>2. r \in Running(Pool(r))
    BY <2>1 DEF Running
  <2>3. Cardinality(Running(Pool(r))) # 0
    <3>1. IsFiniteSet(Running(Pool(r)))
      BY RunningIsFinite
    <3>2. QED
      BY <2>2, <3>1, FS_EmptySet
  <2>4. slots[Pool(r)] - 1 \in Nat
    <3>1. \A p \in Pools : slots[p] = Cardinality(Running(p))
      BY DEF SlotsOK, IInv
    <3>2. slots[Pool(r)] \in Nat
      BY <1>0, <1>0a
    <3>3. QED
      BY <1>0a, <2>3, <3>1, <3>2
  <2>5. PICK c \in Codes : Answer(r, "running", c)
    BY <1>0c, <1>7 DEF Finish
  <2>6. slots' \in [Pools -> Nat] /\ child' \in [Requests -> {"none", "alive", "exited", "failed"}]
    BY <1>0, <1>0a, <1>7, <2>4 DEF Finish
  <2>7. at' \in [Requests -> Places] /\ code' \in [Requests -> Codes] /\ spent' \in [Requests -> Nat]
    BY <1>0, <1>0b, <2>5 DEF Answer, Move
  <2>8. hungup' \subseteq Requests
    BY <1>0, <2>5 DEF Answer
  <2>9. UNCHANGED <<serving, verb, flaws, outcome, age, lag, effect>>
    BY <1>7 DEF Finish
  <2>10. QED
    BY <1>0, <2>6, <2>7, <2>8, <2>9
<1>8. ASSUME NEW place \in {"over", "cut"}, Goes(place)
      PROVE  ShapeOK'
  <2>1. at' \in [Requests -> Places]
    BY <1>0, <1>0b, <1>0c, <1>8 DEF Goes
  <2>2. outcome' \in [Requests -> Outcomes] /\ age' \in [Requests -> Nat] /\ lag' \in [Requests -> Nat]
    BY <1>0, <1>0b, <1>0c, <1>8 DEF Goes
  <2>3. QED
    BY <1>0, <1>0c, <1>8, <2>1, <2>2 DEF Goes
<1>9. CASE Tick
  <2>a. age \in [Requests -> Nat]
    BY <1>0
  <2>b. age' = [r \in Requests |-> IF Waiting(r) THEN age[r] + 1 ELSE age[r]]
    BY <1>9 DEF Tick
  <2>1. age' \in [Requests -> Nat]
    BY <2>a, <2>b
  <2>2. lag' \in [Requests -> Nat]
    BY <1>0, <1>9 DEF Tick
  <2>3. spent' \in [Requests -> Nat]
    BY <1>0, <1>9 DEF Tick
  <2>4. QED
    BY <1>0, <1>9, <2>1, <2>2, <2>3 DEF Tick
<1>10. CASE Shutdown \/ Restart \/ UNCHANGED vars
  BY <1>0, <1>10 DEF Shutdown, Restart, vars
<1>11. QED
  BY <1>0, <1>1, <1>2, <1>3, <1>4, <1>5, <1>6, <1>7, <1>8, <1>9, <1>10
     DEF Next, Client, Handler, Stopped, Crash

-----------------------------------------------------------------------------
(***************************************************************************)
(* The client and the place of its request                                 *)
(***************************************************************************)
\* What is said of a request goes on while nothing happens to it.
LEMMA ClientStays ==
  ASSUME NEW q \in Requests, ClientOK(q),
         at'[q] = at[q], outcome'[q] = outcome[q], verb'[q] = verb[q],
         age'[q] = age[q], lag'[q] = lag[q], spent'[q] = spent[q],
         q \in hungup' <=> q \in hungup
  PROVE  ClientOK(q)'
BY TimeoutsAreNumbers DEF ClientOK, Handled, Waiting

\* Every step keeps what is said of clients.
LEMMA ClientStep ==
  ASSUME IInv, [Next]_vars, NEW q \in Requests
  PROVE  ClientOK(q)'
<1> USE DEF ClientOK, Handled, Waiting
<1>1. /\ ShapeOK
      /\ at \in [Requests -> Places] /\ outcome \in [Requests -> Outcomes]
      /\ age \in [Requests -> Nat] /\ lag \in [Requests -> Nat] /\ spent \in [Requests -> Nat]
      /\ verb \in [Requests -> Verbs \cup {"none"}]
  BY DEF IInv, ShapeOK
<1>2. ClientOK(q)
  BY DEF IInv
<1>3. ClientTimeout(q) \in Nat /\ ServerTimeout(q) \in Nat
  BY TimeoutsAreNumbers
<1>4. ASSUME NEW r \in Requests, Moves(r), q # r
      PROVE  ClientOK(q)'
  BY <1>1, <1>2, <1>4, OthersStay, ClientStays
<1>5. CASE Forward(q)
  <2>1. CASE serving = "up"
    <3>1. at'[q] = "wire" /\ outcome'[q] = "waiting" /\ at[q] = "none" /\ outcome[q] = "none"
      BY <1>1, <1>5, <2>1 DEF Forward, Move
    <3>2. age'[q] = 0 /\ lag'[q] = 0 /\ spent'[q] = 0 /\ q \notin hungup'
      BY <1>2, <1>5, <3>1 DEF Forward, timeVars
    <3>3. QED
      BY <3>1, <3>2, TimeoutsAreNumbers
  <2>2. CASE serving # "up"
    <3>1. outcome'[q] = "refused" /\ outcome[q] = "none"
      BY <1>1, <1>5, <2>2 DEF Forward
    <3>2. UNCHANGED <<at, age, lag, spent, hungup>>
      BY <1>5, <2>2 DEF Forward, timeVars
    <3>3. age'[q] = 0 /\ lag'[q] = 0 /\ spent'[q] = 0 /\ q \notin hungup' /\ at'[q] = "none"
      BY <1>2, <3>1, <3>2
    <3>4. QED
      BY <3>1, <3>3, TimeoutsAreNumbers
  <2>3. QED
    BY <2>1, <2>2
<1>6. CASE GiveUp(q) \/ Receive(q) \/ Break(q)
  <2>1. /\ UNCHANGED <<verb, spent, hungup>>
        /\ at'[q] = at[q] \/ (at[q] \in {"wire", "reply"} /\ at'[q] = "over")
    BY <1>1, <1>6, ClientsMoves DEF GiveUp, Receive, Break, Move
  <2>2. \/ UNCHANGED clientVars
        \/ /\ Waiting(q) /\ outcome'[q] \in {"exit 0", "exit n", "error"}
           /\ age'[q] = 0 /\ lag'[q] = 0
    <3>1. code[q] \in {"0", "other", "none"}
      BY <1>1 DEF ShapeOK, Codes
    <3>2. QED
      BY <1>1, <1>6, <3>1 DEF GiveUp, Receive, Break, EndsAs
  <2>3. CASE UNCHANGED clientVars
    BY <1>1, <1>2, <1>3, <2>1, <2>3, TimeoutsAreNumbers DEF clientVars
  <2>4. CASE ~UNCHANGED clientVars
    <3>1. Waiting(q) /\ outcome'[q] \notin {"none", "refused", "waiting"} /\ age'[q] = 0 /\ lag'[q] = 0
      BY <2>2, <2>4
    <3>2. at[q] # "none" /\ at'[q] # "none" /\ q \notin hungup'
      BY <1>2, <2>1, <3>1
    <3>3. /\ ~Handled(q)' => spent'[q] = 0
          /\ spent'[q] <= ServerTimeout(q)' /\ spent'[q] \in Nat
      BY <1>1, <1>2, <2>1, TimeoutsAreNumbers
    <3>4. QED
      BY <3>1, <3>2, <3>3, TimeoutsAreNumbers
  <2>5. QED
    BY <2>3, <2>4
<1>7. CASE Serve(q) \/ Admit(q)
  <2>1. \/ at[q] = "wire" /\ at'[q] \in {"reply", "queued"}
        \/ at[q] = "queued" /\ at'[q] = "running"
    BY <1>1, <1>7 DEF Serve, Admit, Move
  <2>2. UNCHANGED <<outcome, verb, age, lag, spent, hungup>>
    BY <1>7 DEF Serve, Admit, timeVars, reqVars
  <2>3. QED
    BY <1>1, <1>2, <1>3, <2>1, <2>2, TimeoutsAreNumbers
<1>8. CASE Busy(q) \/ Finish(q)
  <2>1. /\ at[q] \in {"queued", "running"} /\ at'[q] = "reply" /\ spent'[q] = 0 /\ q \notin hungup'
    BY <1>1, <1>8 DEF Busy, Finish, Answer, Move
  <2>2. UNCHANGED <<outcome, verb, age, lag>>
    BY <1>8 DEF Busy, Finish, clientVars, reqVars
  <2>3. QED
    BY <1>1, <1>2, <1>3, <2>1, <2>2, TimeoutsAreNumbers
<1>9. CASE HangUp(q)
  BY <1>2, <1>9, TimeoutsAreNumbers DEF HangUp, reqVars, timeVars
<1>10. CASE Kill(q) \/ TakeEffect(q) \/ Terminate(q) \/ Shutdown \/ Restart \/ UNCHANGED vars
  BY <1>2, <1>10, ClientStays DEF Kill, TakeEffect, Terminate, Shutdown, Restart, vars, reqVars, timeVars
<1>11. ASSUME NEW place \in {"over", "cut"}, Goes(place)
       PROVE  ClientOK(q)'
  <2>1. /\ hungup' = {} /\ spent'[q] = 0 /\ verb' = verb
        /\ at'[q] = IF at[q] \in {"wire", "queued", "running", "reply"} THEN place ELSE at[q]
    BY <1>11 DEF Goes, reqVars
  <2>2. \/ outcome'[q] = outcome[q] /\ age'[q] = age[q] /\ lag'[q] = lag[q]
        \/ /\ at[q] \in {"wire", "queued", "running", "reply"}
           /\ outcome'[q] = "error" /\ age'[q] = 0 /\ lag'[q] = 0
    BY <1>11 DEF Goes
  <2>3. QED
    BY <1>1, <1>2, <1>3, <1>11, <2>1, <2>2, TimeoutsAreNumbers
<1>12. CASE Tick
  <2>1. /\ age'[q] = IF Waiting(q) THEN age[q] + 1 ELSE age[q]
        /\ lag'[q] = IF Waiting(q) /\ ~Handled(q) THEN lag[q] + 1 ELSE lag[q]
        /\ spent'[q] = IF Handled(q) /\ ~Expired(q) THEN spent[q] + 1 ELSE spent[q]
        /\ UNCHANGED <<verb, at, outcome, hungup>>
    BY <1>12 DEF Tick, reqVars
  <2>2. Waiting(q) => age[q] < ClientTimeout(q)
    BY <1>12 DEF Tick
  <2>3. Handled(q) => spent[q] < ServerTimeout(q)
    BY <1>1, <1>3, <1>12 DEF Tick, Done, Expired
  <2>4. QED
    BY <1>1, <1>2, <1>3, <2>1, <2>2, <2>3, TimeoutsAreNumbers DEF Expired
<1>13. QED
  <2>1. ASSUME NEW r \in Requests, Moves(r)
        PROVE  ClientOK(q)'
    BY <1>4, <1>5, <1>6, <1>7, <1>8, <1>9, <1>10, <2>1 DEF Moves, Client, Handler
  <2>2. QED
    BY <1>10, <1>11, <1>12, <2>1 DEF Next, Moves, Stopped, Crash

-----------------------------------------------------------------------------
(***************************************************************************)
(* The subprocess and the place of its request                             *)
(***************************************************************************)
\* Every step keeps what is said of subprocesses; those of a server that is killed
\* are cut off, and one that stops has none.
LEMMA ChildStep ==
  ASSUME IInv, [Next]_vars, NEW q \in Requests
  PROVE  ChildOK(q)'
<1> USE DEF ChildOK, Alive
<1>1. /\ ShapeOK
      /\ at \in [Requests -> Places] /\ code \in [Requests -> Codes]
      /\ child \in [Requests -> {"none", "alive", "exited", "failed"}]
  BY DEF IInv, ShapeOK
<1>2. ChildOK(q)
  BY DEF IInv
<1>3. ASSUME NEW r \in Requests, Moves(r), q # r
      PROVE  ChildOK(q)'
  BY <1>1, <1>2, <1>3, OthersStay
<1>4. CASE Forward(q)
  <2>1. UNCHANGED <<child, effect, code>>
    BY <1>4 DEF Forward
  <2>2. at'[q] = at[q] \/ (at[q] = "none" /\ at'[q] = "wire")
    BY <1>1, <1>4 DEF Forward, Move
  <2>3. QED
    BY <1>2, <2>1, <2>2
<1>5. CASE GiveUp(q)
  BY <1>2, <1>5 DEF GiveUp
<1>6. CASE Receive(q) \/ Break(q)
  <2>1. at[q] \in {"wire", "reply"} /\ at'[q] = "over" /\ code'[q] = "none"
    BY <1>1, <1>6 DEF Receive, Break, Move
  <2>2. UNCHANGED <<child, effect>>
    BY <1>6 DEF Receive, Break
  <2>3. QED
    BY <1>2, <2>1, <2>2
<1>7. CASE Serve(q)
  <2>1. at[q] = "wire" /\ at'[q] \in {"reply", "queued"}
    BY <1>1, <1>7 DEF Serve, Move
  <2>2. UNCHANGED <<child, effect, code>>
    BY <1>7 DEF Serve
  <2>3. QED
    BY <1>2, <2>1, <2>2
<1>8. CASE Admit(q)
  <2>1. at[q] = "queued" /\ at'[q] = "running" /\ child'[q] \in {"failed", "alive"}
    BY <1>1, <1>8 DEF Admit, Move
  <2>2. UNCHANGED <<effect, code>>
    BY <1>8 DEF Admit
  <2>3. QED
    BY <1>2, <2>1, <2>2
<1>9. CASE Busy(q)
  <2>1. at[q] = "queued" /\ at'[q] = "reply" /\ code'[q] = "none"
    BY <1>1, <1>9 DEF Busy, Answer, Move
  <2>2. UNCHANGED <<child, effect>>
    BY <1>9 DEF Busy
  <2>3. QED
    BY <1>2, <2>1, <2>2
<1>10. CASE Finish(q)
  <2>1. at[q] = "running" /\ at'[q] = "reply" /\ child'[q] = "none" /\ effect' = effect
    BY <1>1, <1>10 DEF Finish, Answer, Move
  <2>2. code'[q] = "0" => child[q] = "exited"
    BY <1>1, <1>10 DEF Finish, Answer
  <2>3. QED
    BY <1>2, <2>1, <2>2
<1>11. CASE Kill(q) \/ Terminate(q)
  <2>1. /\ child[q] = "alive"
        /\ child'[q] = "failed" \/ (child'[q] = "exited" /\ q \in effect)
    BY <1>1, <1>11 DEF Kill, Terminate
  <2>2. UNCHANGED <<at, effect, code>>
    BY <1>11 DEF Kill, Terminate
  <2>3. QED
    BY <1>2, <2>1, <2>2
<1>12. CASE TakeEffect(q)
  BY <1>2, <1>12 DEF TakeEffect
<1>13. CASE HangUp(q) \/ Shutdown \/ Restart \/ Tick \/ UNCHANGED vars
  BY <1>2, <1>13 DEF HangUp, Shutdown, Restart, Tick, vars
<1>14. CASE Crash
  <2>1. /\ at'[q] = IF at[q] \in {"wire", "queued", "running", "reply"} THEN "cut" ELSE at[q]
        /\ code'[q] = "none" /\ UNCHANGED <<child, effect>>
    BY <1>14 DEF Crash, Goes
  <2>2. QED
    BY <1>2, <2>1
<1>15. CASE Stopped
  <2>1. /\ at'[q] = IF at[q] \in {"wire", "queued", "running", "reply"} THEN "over" ELSE at[q]
        /\ code'[q] = "none" /\ UNCHANGED <<child, effect>>
    BY <1>15 DEF Stopped, Goes
  <2>2. at[q] # "running"
    BY <1>15 DEF Stopped, Handled, Cancelled
  <2>3. QED
    BY <1>2, <2>1, <2>2
<1>16. QED
  <2>1. ASSUME NEW r \in Requests, Moves(r)
        PROVE  ChildOK(q)'
    BY <1>3, <1>4, <1>5, <1>6, <1>7, <1>8, <1>9, <1>10, <1>11, <1>12, <1>13, <2>1
       DEF Moves, Client, Handler
  <2>2. QED
    BY <1>13, <1>14, <1>15, <2>1 DEF Next, Moves

-----------------------------------------------------------------------------
(***************************************************************************)
(* The semaphores                                                          *)
(***************************************************************************)
\* A step in which nobody starts or stops running changes no count.
LEMMA SlotsStay ==
  ASSUME SlotsOK, slots' = slots,
         \A q \in Requests : /\ at'[q] = "running" <=> at[q] = "running"
                             /\ at[q] = "running" => verb'[q] = verb[q]
  PROVE  SlotsOK'
<1>1. ASSUME NEW p \in Pools
      PROVE  Running(p)' = Running(p)
  BY DEF Running, Pool
<1>2. QED
  BY <1>1 DEF SlotsOK, Capacity

\* A step takes a token for the request it lets run, returns that of the one that
\* finishes, and loses all of them with the semaphores.
LEMMA SlotsStep ==
  ASSUME IInv, [Next]_vars
  PROVE  SlotsOK'
<1> USE DEF reqVars
<1>1. /\ SlotsOK
      /\ at \in [Requests -> Places] /\ slots \in [Pools -> Nat]
      /\ \A r \in Requests : Pool(r) \in Pools
  BY DEF IInv, ShapeOK, Pool, Pools
<1>2. ASSUME NEW r \in Requests, Forward(r)
      PROVE  SlotsOK'
  <2>1. slots' = slots /\ at[r] = "none" /\ at'[r] \in {"none", "wire"}
    BY <1>1, <1>2 DEF Forward, Move, IInv, ClientOK
  <2>2. \A q \in Requests : q # r => at'[q] = at[q] /\ verb'[q] = verb[q]
    BY <1>2, OthersStay DEF Moves, Client, IInv
  <2>3. QED
    BY <1>1, <2>1, <2>2, SlotsStay
<1>3. ASSUME NEW r \in Requests, GiveUp(r) \/ Receive(r) \/ Break(r) \/ Serve(r) \/ Busy(r)
      PROVE  SlotsOK'
  <2>1. UNCHANGED <<slots, verb>>
    BY <1>3 DEF GiveUp, Receive, Break, Serve, Busy
  <2>2. at'[r] = at[r] \/ (at[r] # "running" /\ at'[r] # "running")
    BY <1>1, <1>3 DEF GiveUp, Receive, Break, Serve, Busy, Answer, Move
  <2>3. \A q \in Requests : q # r => at'[q] = at[q]
    BY <1>3, OthersStay DEF Moves, Client, Handler, IInv
  <2>4. QED
    BY <1>1, <2>1, <2>2, <2>3, SlotsStay
<1>4. ASSUME NEW r \in Requests, Kill(r) \/ HangUp(r) \/ TakeEffect(r) \/ Terminate(r)
      PROVE  SlotsOK'
  <2>1. UNCHANGED <<slots, verb, at>>
    BY <1>4 DEF Kill, HangUp, TakeEffect, Terminate
  <2>2. QED
    BY <1>1, <2>1, SlotsStay
<1>5. CASE Shutdown \/ Restart \/ Tick \/ UNCHANGED vars
  <2>1. UNCHANGED <<slots, verb, at>>
    BY <1>5 DEF Shutdown, Restart, Tick, vars
  <2>2. QED
    BY <1>1, <2>1, SlotsStay
<1>6. ASSUME NEW r \in Requests, Admit(r) \/ Finish(r), NEW p \in Pools
      PROVE  slots'[p] = Cardinality(Running(p))' /\ slots'[p] <= Capacity(p)'
  <2>1. verb' = verb /\ \A q \in Requests \ {r} : at'[q] = at[q]
    BY <1>1, <1>6 DEF Admit, Finish, Answer, Move
  <2>2. \A q \in Requests \ {r} : q \in Running(p)' <=> q \in Running(p)
    BY <2>1 DEF Running, Pool
  <2>3. /\ slots[p] = Cardinality(Running(p)) /\ slots[p] <= Capacity(p)
        /\ IsFiniteSet(Running(p)) /\ slots[p] \in Nat
        /\ Capacity(p)' = Capacity(p) /\ Capacity(p) \in Nat
        /\ Pool(r)' = Pool(r)
    BY <1>1, <2>1, RunningIsFinite, RemoteAssumption DEF SlotsOK, Capacity, Pool
  <2>4. CASE p # Pool(r)
    <3>1. Running(p)' = Running(p)
      BY <2>1, <2>2, <2>4 DEF Running, Pool
    <3>2. slots'[p] = slots[p]
      BY <1>1, <1>6, <2>4 DEF Admit, Finish
    <3>3. QED
      BY <2>3, <3>1, <3>2
  <2>5. CASE p = Pool(r) /\ Admit(r)
    <3>1. at[r] = "queued" /\ at'[r] = "running"
      BY <1>1, <2>5 DEF Admit, Move
    <3>2. r \notin Running(p) /\ Running(p)' = Running(p) \cup {r}
      BY <2>2, <2>3, <2>5, <3>1 DEF Running
    <3>3. Cardinality(Running(p))' = Cardinality(Running(p)) + 1
      BY <2>3, <3>2, FS_AddElement
    <3>4. slots'[p] = slots[p] + 1 /\ slots[p] < Capacity(p)
      BY <1>1, <2>5 DEF Admit
    <3>5. QED
      BY <2>3, <3>3, <3>4
  <2>6. CASE p = Pool(r) /\ Finish(r)
    <3>1. at[r] = "running" /\ at'[r] = "reply"
      BY <1>1, <2>6 DEF Finish, Answer, Move
    <3>2. r \in Running(p) /\ Running(p)' = Running(p) \ {r}
      BY <2>2, <2>3, <2>6, <3>1 DEF Running
    <3>3. Cardinality(Running(p))' = Cardinality(Running(p)) - 1
      BY <2>3, <3>2, FS_RemoveElement
    <3>4. slots'[p] = slots[p] - 1
      BY <1>1, <2>6 DEF Finish
    <3>5. QED
      BY <2>3, <3>3, <3>4
  <2>7. QED
    BY <1>6, <2>4, <2>5, <2>6
<1>7. ASSUME NEW place \in {"over", "cut"}, Goes(place), NEW p \in Pools
      PROVE  slots'[p] = Cardinality(Running(p))' /\ slots'[p] <= Capacity(p)'
  <2>1. Running(p)' = {}
    BY <1>7 DEF Goes, Running
  <2>2. slots'[p] = 0
    BY <1>7 DEF Goes
  <2>3. Capacity(p)' \in Nat
    BY RemoteAssumption DEF Capacity
  <2>4. QED
    BY <2>1, <2>2, <2>3, FS_EmptySet
<1>8. QED
  BY <1>2, <1>3, <1>4, <1>5, <1>6, <1>7 DEF Next, Client, Handler, Stopped, Crash, SlotsOK

-----------------------------------------------------------------------------
(***************************************************************************)
(* The refinement of RemoteCall                                            *)
(***************************************************************************)
\* What a caller knows of its commands, which of them are hooks, and which nobody heard.
known == [r \in Requests |-> Seen(r)]
hooks == {r \in Requests : verb[r] = "hook"}
unheard == {r \in Requests : outcome[r] = "refused"}

\* How the caller's side changes where one invocation begins or ends.
LEMMA SeenChanges ==
  ASSUME ShapeOK, NEW r \in Requests, NEW o \in Outcomes, outcome' = [outcome EXCEPT ![r] = o],
         \A q \in Requests : q # r => verb'[q] = verb[q]
  PROVE  /\ known' = [known EXCEPT ![r] = Seen(r)'] /\ outcome'[r] = o
         /\ o # "refused" /\ outcome[r] # "refused" => unheard' = unheard
         /\ o = "refused" => unheard' = unheard \cup {r}
         /\ verb' = verb => hooks' = hooks
<1>1. \A q \in Requests : outcome'[q] = IF q = r THEN o ELSE outcome[q]
  BY DEF ShapeOK
<1>2. \A q \in Requests : q # r => Seen(q)' = Seen(q)
  BY <1>1 DEF Seen, ExitCode, FailsOpen
<1>3. known' = [known EXCEPT ![r] = Seen(r)']
  BY <1>2 DEF known
<1>4. QED
  BY <1>1, <1>3 DEF unheard, hooks

\* Every step of a forwarded command is one of the call's, or none.
LEMMA CallStep ==
  ASSUME IInv, [Next]_vars
  PROVE  [Call!Next]_(Call!callVars)
<1> USE DEF reqVars, clientVars, timeVars
<1>1. /\ ShapeOK /\ outcome \in [Requests -> Outcomes] /\ code \in [Requests -> Codes]
      /\ verb \in [Requests -> Verbs \cup {"none"}]
      /\ \A r \in Requests : ClientOK(r) /\ ChildOK(r)
  BY DEF IInv, ShapeOK
<1>2. \A r \in Requests : known[r] = Seen(r)
  BY DEF known
<1>3. ASSUME UNCHANGED <<verb, outcome, effect>>
      PROVE  UNCHANGED Call!callVars
  BY <1>3 DEF Call!callVars, known, hooks, unheard, Seen, ExitCode, FailsOpen
<1>4. ASSUME NEW S \in SUBSET Requests, \A r \in S : outcome[r] = "waiting",
             outcome' = [r \in Requests |-> IF r \in S THEN "error" ELSE outcome[r]],
             UNCHANGED <<verb, effect>>
      PROVE  Call!Fail(S)
  <2>1. \A r \in S : known[r] = "open"
    BY <1>2, <1>4 DEF Seen
  <2>2. known' = [r \in Requests |-> IF r \notin S THEN known[r]
                                     ELSE IF r \in hooks THEN "0" ELSE "other"]
    <3>1. ASSUME NEW r \in Requests
          PROVE  Seen(r)' = IF r \notin S THEN Seen(r) ELSE IF r \in hooks THEN "0" ELSE "other"
      BY <1>4 DEF Seen, ExitCode, FailsOpen, hooks
    <3>2. QED
      BY <3>1 DEF known
  <2>3. hooks' = hooks /\ unheard' = unheard
    BY <1>4 DEF hooks, unheard
  <2>4. QED
    BY <1>4, <2>1, <2>2, <2>3 DEF Call!Fail, known, hooks, unheard
<1>5. ASSUME NEW r \in Requests, EndsAs(r, "error"), UNCHANGED <<verb, effect>>
      PROVE  Call!Fail({r})
  <2>1. outcome[r] = "waiting" /\ outcome' = [outcome EXCEPT ![r] = "error"]
    BY <1>5 DEF EndsAs, Waiting
  <2>2. outcome' = [q \in Requests |-> IF q \in {r} THEN "error" ELSE outcome[q]]
    BY <1>1, <2>1
  <2>3. QED
    BY <1>4, <1>5, <2>1, <2>2
<1>6. ASSUME NEW r \in Requests, Forward(r)
      PROVE  \E hook \in BOOLEAN : Call!Call(r, hook) \/ Call!Refuse(r, hook)
  <2>1. outcome[r] = "none" /\ effect' = effect
    BY <1>6 DEF Forward
  <2>2. PICK v \in Verbs : verb' = [verb EXCEPT ![r] = v]
    BY <1>6 DEF Forward
  <2>3. PICK o \in {"waiting", "refused"} : outcome' = [outcome EXCEPT ![r] = o]
    BY <1>6 DEF Forward
  <2>4. o \in Outcomes /\ \A q \in Requests : verb'[q] = IF q = r THEN v ELSE verb[q]
    BY <1>1, <2>2 DEF Outcomes
  <2>5. /\ known' = [known EXCEPT ![r] = Seen(r)'] /\ outcome'[r] = o
        /\ o = "waiting" => unheard' = unheard
        /\ o = "refused" => unheard' = unheard \cup {r}
    BY <1>1, <2>1, <2>3, <2>4, SeenChanges
  <2>6. known[r] = "no" /\ Seen(r)' = IF o = "waiting" THEN "open"
                                       ELSE IF v = "hook" THEN "0" ELSE "other"
    BY <1>2, <2>1, <2>4, <2>5 DEF Seen, ExitCode, FailsOpen
  <2>7. r \notin hooks
    BY <1>1, <2>1 DEF hooks, ClientOK
  <2>8. hooks' = IF v = "hook" THEN hooks \cup {r} ELSE hooks
    BY <2>4, <2>7 DEF hooks
  <2>9. (v = "hook") \in BOOLEAN
    OBVIOUS
  <2>10. CASE o = "waiting"
    <3>1. Call!Call(r, v = "hook")
      BY <2>1, <2>5, <2>6, <2>8, <2>10 DEF Call!Call, Call!Learn, Call!Name, known, hooks, unheard
    <3>2. QED
      BY <2>9, <3>1
  <2>11. CASE o = "refused"
    <3>1. Call!Refuse(r, v = "hook")
      BY <2>1, <2>5, <2>6, <2>8, <2>11 DEF Call!Refuse, Call!Learn, Call!Name, known, hooks, unheard
    <3>2. QED
      BY <2>9, <3>1
  <2>12. QED
    BY <2>10, <2>11
<1>7. ASSUME NEW r \in Requests, Receive(r)
      PROVE  Call!Succeed(r) \/ Call!Fault(r) \/ Call!Fail({r}) \/ UNCHANGED Call!callVars
  <2>1. UNCHANGED <<verb, effect>>
    BY <1>7 DEF Receive
  <2>2. CASE Waiting(r) /\ code[r] # "none"
    <3>1. PICK o \in {"exit 0", "exit n"} : EndsAs(r, o) /\ (o = "exit 0" => code[r] = "0")
      BY <1>1, <1>7, <2>2 DEF Receive, Codes
    <3>2. /\ outcome[r] = "waiting" /\ outcome' = [outcome EXCEPT ![r] = o] /\ o \in Outcomes
          /\ o = "exit 0" => r \in effect
      BY <1>1, <3>1 DEF EndsAs, Waiting, ChildOK, Outcomes
    <3>3. /\ known' = [known EXCEPT ![r] = Seen(r)'] /\ outcome'[r] = o
          /\ UNCHANGED <<hooks, unheard>>
      BY <1>1, <2>1, <3>2, SeenChanges
    <3>4. known[r] = "open" /\ Seen(r)' = IF o = "exit 0" THEN "0" ELSE "other"
      BY <1>2, <3>2, <3>3 DEF Seen, ExitCode, FailsOpen
    <3>5. QED
      BY <2>1, <3>2, <3>3, <3>4
         DEF Call!Succeed, Call!Fault, Call!Learn, known, hooks, unheard
  <2>3. CASE Waiting(r) /\ code[r] = "none"
    BY <1>5, <1>7, <2>1, <2>3 DEF Receive
  <2>4. CASE ~Waiting(r)
    BY <1>3, <1>7, <2>1, <2>4 DEF Receive
  <2>5. QED
    BY <2>2, <2>3, <2>4
<1>8. ASSUME NEW r \in Requests, GiveUp(r) \/ Break(r)
      PROVE  Call!Fail({r}) \/ UNCHANGED Call!callVars
  BY <1>3, <1>5, <1>8 DEF GiveUp, Break
<1>9. ASSUME NEW r \in Requests, TakeEffect(r)
      PROVE  Call!Take(r)
  <2>1. outcome[r] \in Outcomes \ {"none", "refused"}
    BY <1>1, <1>9 DEF TakeEffect, Alive, ChildOK, ClientOK
  <2>2. known[r] # "no" /\ r \notin unheard
    BY <1>2, <2>1 DEF Seen, ExitCode, unheard
  <2>3. UNCHANGED <<known, hooks, unheard>>
    BY <1>9 DEF TakeEffect, known, hooks, unheard, Seen, ExitCode, FailsOpen
  <2>4. QED
    BY <1>9, <2>2, <2>3 DEF TakeEffect, Call!Take, known, hooks, unheard
<1>10. ASSUME NEW place, Goes(place)
       PROVE  \E S \in SUBSET Requests : Call!Fail(S)
  <2>1. PICK told \in SUBSET {r \in Requests : Waiting(r)} :
             outcome' = [r \in Requests |-> IF r \in told THEN "error" ELSE outcome[r]]
    BY <1>10 DEF Goes
  <2>2. told \in SUBSET Requests /\ \A r \in told : outcome[r] = "waiting"
    BY DEF Waiting
  <2>3. UNCHANGED <<verb, effect>>
    BY <1>10 DEF Goes
  <2>4. QED
    BY <1>4, <2>1, <2>2, <2>3
<1>11. ASSUME NEW r \in Requests,
              Handler(r) \/ HangUp(r) \/ Terminate(r) \/ Shutdown \/ Restart \/ Tick \/ UNCHANGED vars
       PROVE  UNCHANGED Call!callVars
  BY <1>3, <1>11 DEF Handler, Serve, Admit, Busy, Kill, Finish, HangUp, Terminate, Shutdown, Restart,
     Tick, vars
<1>12. CASE Shutdown \/ Restart \/ Tick \/ UNCHANGED vars
  BY <1>3, <1>12 DEF Shutdown, Restart, Tick, vars
<1>13. QED
  <2>1. ASSUME NEW r \in Requests, Client(r) \/ Handler(r) \/ HangUp(r) \/ TakeEffect(r) \/ Terminate(r)
        PROVE  Call!Next \/ UNCHANGED Call!callVars
    BY <1>6, <1>7, <1>8, <1>9, <1>11, <2>1 DEF Client, Call!Next
  <2>2. Stopped \/ Crash => Call!Next
    BY <1>10 DEF Stopped, Crash, Call!Next
  <2>3. QED
    BY <1>12, <2>1, <2>2 DEF Next

-----------------------------------------------------------------------------
(***************************************************************************)
(* The theorems                                                            *)
(***************************************************************************)
\* The inductive invariant holds in the initial state.
LEMMA IInvInit == Init => IInv
<1> SUFFICES ASSUME Init
             PROVE  IInv
  OBVIOUS
<1>1. ShapeOK
  BY DEF Init, ShapeOK, Outcomes, Places, Pools, Codes
<1>2. ASSUME NEW r \in Requests
      PROVE  ClientOK(r) /\ ChildOK(r)
  BY TimeoutsAreNumbers DEF Init, ClientOK, ChildOK, Handled, Waiting
<1>3. SlotsOK
  <2>1. ASSUME NEW p \in Pools
        PROVE  Running(p) = {} /\ slots[p] = 0 /\ Capacity(p) \in Nat
    BY RemoteAssumption DEF Init, Running, Capacity
  <2>2. QED
    BY <2>1, FS_EmptySet DEF SlotsOK
<1>4. QED
  BY <1>1, <1>2, <1>3 DEF IInv

\* Every step keeps the inductive invariant.
LEMMA IInvStep == IInv /\ [Next]_vars => IInv'
BY ShapeStep, ClientStep, ChildStep, SlotsStep DEF IInv

\* Clients, requests, subprocesses and semaphores belong together, for any number
\* of commands, whatever is lost and whoever gives up, stops or is killed.
THEOREM Invariance == Spec => []IInv
BY IInvInit, IInvStep, PTL DEF Spec

\* Every variable keeps its type, no timer passes its time unnoticed, and each
\* semaphore holds as many tokens as requests run.
THEOREM TypeCorrect == Spec => []TypeOK
<1>1. IInv => TypeOK
  <2> SUFFICES ASSUME IInv
               PROVE  TypeOK
    OBVIOUS
  <2>1. ShapeOK /\ SlotsOK /\ \A r \in Requests : ClientOK(r)
    BY DEF IInv
  <2>2. ASSUME NEW r \in Requests
        PROVE  age[r] \in 0..ClientTimeout(r) /\ lag[r] \in 0..age[r] /\ spent[r] \in 0..ServerTimeout(r)
    BY <2>1, TimeoutsAreNumbers DEF ShapeOK, ClientOK
  <2>3. hungup \subseteq {r \in Requests : Handled(r) /\ ~Waiting(r)}
    BY <2>1 DEF ShapeOK, ClientOK
  <2>4. QED
    BY <2>1, <2>2, <2>3 DEF TypeOK, ShapeOK, SlotsOK, Running
<1>2. QED
  BY <1>1, Invariance, PTL

\* Every subprocess of a server that was not killed has its handler and a token, and
\* of neither are there more than the semaphore bounds.
THEOREM SubprocessesAreBounded == Spec => []ChildrenHaveSlots
<1>1. IInv => ChildrenHaveSlots
  <2> SUFFICES ASSUME IInv, NEW p \in Pools
               PROVE  LET children == {r \in Requests : Alive(r) /\ at[r] # "cut" /\ Pool(r) = p} IN
                      /\ \A r \in children : at[r] = "running"
                      /\ Cardinality(children) <= slots[p] /\ slots[p] <= Capacity(p)
    BY DEF ChildrenHaveSlots
  <2> DEFINE children == {r \in Requests : Alive(r) /\ at[r] # "cut" /\ Pool(r) = p}
  <2>1. \A r \in children : at[r] = "running"
    BY DEF IInv, ChildOK, Alive
  <2>2. children \in SUBSET Running(p)
    BY <2>1 DEF Running
  <2>3. Cardinality(children) <= Cardinality(Running(p))
    BY <2>2, RunningIsFinite, FS_Subset
  <2>4. QED
    BY <2>1, <2>3 DEF IInv, SlotsOK
<1>2. QED
  BY <1>1, Invariance, PTL

\* A client that gives up on a server that is there lost the slack on the wire: the
\* deadline covers the wait for a slot and the run, so queueing alone cannot do it.
THEOREM QueueingIsCovered == Spec => GivesUpOnTheWire
<1> DEFINE Late == \A r \in Requests :
                     /\ verb[r] \notin {"hook", "inbox"} /\ at[r] \notin {"over", "cut"}
                     /\ GiveUp(r)
                     => lag[r] >= Slack
<1>1. IInv => Late
  <2> SUFFICES ASSUME IInv, NEW r \in Requests,
                      verb[r] \notin {"hook", "inbox"}, at[r] \notin {"over", "cut"}, GiveUp(r)
               PROVE  lag[r] >= Slack
    OBVIOUS
  <2>1. age[r] \in Nat /\ lag[r] \in Nat /\ spent[r] \in Nat /\ at[r] \in Places
    BY DEF IInv, ShapeOK
  <2>2. ClientTimeout(r) = VerbTimeout + Slack /\ ServerTimeout(r) = VerbTimeout
    BY DEF ClientTimeout, ServerTimeout, verbForwardTimeout
  <2>3. age[r] >= VerbTimeout + Slack
    BY <2>2 DEF GiveUp
  <2>4. age[r] <= lag[r] + VerbTimeout
    BY <2>1, <2>2, RemoteAssumption DEF IInv, ClientOK, Handled, Places
  <2>5. QED
    BY <2>1, <2>3, <2>4, RemoteAssumption
<1>2. QED
  BY <1>1, Invariance, PTL DEF GivesUpOnTheWire

\* A forwarded command is what RemoteCall promises: it runs at most once, and exit
\* code 0 means that it ran to its end, of every verb but hook, which fails open.
THEOREM RunsAtMostOnce == Spec => CallSpec
<1>1. Init => Call!Init
  BY DEF Init, Call!Init, Seen
<1>2. QED
  BY <1>1, CallStep, Invariance, PTL DEF Spec, CallSpec, Call!Spec

-----------------------------------------------------------------------------
(***************************************************************************)
(* `xfa init` and `xfa uninstall`, the commands that change files the      *)
(* human works with: whoever edits them meanwhile, and wherever a command  *)
(* ends, nothing of the human's is lost but what came after the last read. *)
(***************************************************************************)
\* Where a file has been read and is not yet written.
InFile == {"save", "write", "rules-bak", "rules-write"}

\* Every file, and every backup, is one that may be; only JSON may be unsound.
FilesOK ==
  /\ file \in [Files -> FileState \cup {None}]
  /\ bak \in [Files -> FileState \cup {None}]
  /\ \A f \in Files \ Jsons : file[f] # None => file[f].sound
  /\ used \in [cmds : Nat, edits : Nat]

\* A command knows what it is, and an init its version.
CmdOK ==
  /\ pc # "idle" => "op" \in DOMAIN cmd
  /\ (pc # "idle" /\ Installs) => "v" \in DOMAIN cmd /\ cmd.v \in Versions
  /\ pc \in {"stamp", "hooks", "rules"} => Installs

\* What the human had written when the file was read.
Held == IF mem.was = None THEN {} ELSE mem.was.notes

\* Between the read of a file and its rename: what is about to be written has all that
\* was read of the human's, and what the file has beside that has come since; so has,
\* once the backup is made, what the backup has not.
MemOK ==
  (pc \in InFile /\ mem.f \in Files) =>
    LET f == mem.f IN
    /\ mem.was \in FileState \cup {None} /\ mem.out \in FileState \cup {None}
    /\ IF mem.out = None THEN Held = {} ELSE mem.out.notes = Held /\ mem.out.sound
    /\ Content(f).notes \subseteq Held \cup late
    /\ Content(f).sound \/ "broken" \in late
    /\ pc = "rules-bak" => mem.was # None /\ late = unsaved
    /\ pc \in {"write", "rules-write"} =>
         /\ Content(f).notes \subseteq Saved(f).notes \cup unsaved
         /\ Content(f).sound \/ ~Saved(f).sound \/ "broken" \in unsaved

FilesInv == FilesOK /\ CmdOK /\ MemOK

\* No other step of a command has a file in hand.
Quiet ==
  /\ UNCHANGED shared
  /\ pc' \notin InFile \/ UNCHANGED <<pc, memVars>>
  /\ used' = used \/ Runs

-----------------------------------------------------------------------------
\* A file that is missing reads as an empty one.
LEMMA ContentOK ==
  ASSUME FilesOK, NEW f \in Files
  PROVE  /\ Empty \in FileState /\ Empty.notes = {} /\ Empty.sound
         /\ Content(f) \in FileState /\ Saved(f) \in FileState
<1>1. Empty \in FileState /\ Empty.notes = {} /\ Empty.sound
  <2>1. <<>> \in Seq(Versions)
    OBVIOUS
  <2>2. QED
    BY <2>1 DEF Empty, FileState
<1>2. QED
  BY <1>1 DEF FilesOK, Content, Saved

\* What xfa makes of a file is a file with the same notes, as sound as it was.
LEMMA EntriesKeepNotes ==
  ASSUME NEW c \in FileState, NEW events
  PROVE  /\ RemoveHookEntries(c, events) \in FileState
         /\ RemoveHookEntries(c, events).notes = c.notes
         /\ RemoveHookEntries(c, events).sound = c.sound
         /\ \A v \in Versions :
              /\ UpsertHookEntry(c, events, v) \in FileState
              /\ UpsertHookEntry(c, events, v).notes = c.notes
              /\ UpsertHookEntry(c, events, v).sound = c.sound
<1>1. ASSUME NEW o \in [Marks -> Seq(Versions)]
      PROVE  /\ [c EXCEPT !.ours = o] \in FileState
             /\ [c EXCEPT !.ours = o].notes = c.notes /\ [c EXCEPT !.ours = o].sound = c.sound
  BY DEF FileState
<1>2. c.ours \in [Marks -> Seq(Versions)] /\ "ours" \in DOMAIN c
  BY DEF FileState
<1>3. [m \in Marks |-> IF m \in events THEN <<>> ELSE c.ours[m]] \in [Marks -> Seq(Versions)]
  <2>1. <<>> \in Seq(Versions)
    OBVIOUS
  <2>2. QED
    BY <1>2, <2>1
<1>4. ASSUME NEW v \in Versions
      PROVE  [m \in Marks |-> IF m \in events THEN <<v>> ELSE c.ours[m]] \in [Marks -> Seq(Versions)]
  <2>1. <<v>> \in Seq(Versions)
    OBVIOUS
  <2>2. QED
    BY <1>2, <2>1
<1>5. QED
  BY <1>1, <1>3, <1>4 DEF RemoveHookEntries, UpsertHookEntry

\* So is what it makes of a rules file, unless nothing is left of that.
LEMMA BlocksKeepNotes ==
  ASSUME NEW c \in FileState
  PROVE  /\ \A v \in Versions :
              /\ mergeAwarenessBlock(c, v) \in FileState
              /\ mergeAwarenessBlock(c, v).notes = c.notes
              /\ mergeAwarenessBlock(c, v).sound = c.sound
         /\ c.ours["block"] # <<>> =>
              /\ withoutBlock(c) \in FileState \cup {None}
              /\ IF withoutBlock(c) = None THEN c.notes = {}
                 ELSE withoutBlock(c).notes = c.notes /\ withoutBlock(c).sound = c.sound
<1>1. ASSUME NEW s \in Seq(Versions)
      PROVE  /\ [c EXCEPT !.ours["block"] = s] \in FileState
             /\ [c EXCEPT !.ours["block"] = s].notes = c.notes
             /\ [c EXCEPT !.ours["block"] = s].sound = c.sound
  BY DEF FileState
<1>2. c.ours["block"] \in Seq(Versions)
  BY DEF FileState, Marks
<1>3. ASSUME NEW v \in Versions
      PROVE  /\ mergeAwarenessBlock(c, v) \in FileState
             /\ mergeAwarenessBlock(c, v).notes = c.notes
             /\ mergeAwarenessBlock(c, v).sound = c.sound
  <2>1. (IF c.ours["block"] = <<>> THEN <<v>> ELSE [c.ours["block"] EXCEPT ![1] = v]) \in Seq(Versions)
    BY <1>2
  <2>2. QED
    BY <1>1, <2>1 DEF mergeAwarenessBlock
<1>4. ASSUME c.ours["block"] # <<>>
      PROVE  /\ withoutBlock(c) \in FileState \cup {None}
             /\ IF withoutBlock(c) = None THEN c.notes = {}
                ELSE withoutBlock(c).notes = c.notes /\ withoutBlock(c).sound = c.sound
  <2>1. Tail(c.ours["block"]) \in Seq(Versions)
    BY <1>2, <1>4
  <2> DEFINE rest == [c EXCEPT !.ours["block"] = Tail(c.ours["block"])]
  <2>2. rest \in FileState /\ rest.notes = c.notes /\ rest.sound = c.sound
    BY <1>1, <2>1
  <2>3. withoutBlock(c) = IF rest = Empty THEN None ELSE rest
    BY DEF withoutBlock
  <2>4. rest = Empty => rest.notes = {}
    BY DEF Empty
  <2> HIDE DEF rest
  <2>5. QED
    BY <2>2, <2>3, <2>4, NoneIsNoFile
<1>5. QED
  BY <1>3, <1>4

\* Rules files are not JSON.
LEMMA RulesAreText ==
  ASSUME NEW p, Rules(p) # None
  PROVE  Rules(p) \notin Jsons
<1>1. Rules(p) \in {"CLAUDE-md", "GEMINI-md", "AGENTS-md"}
  BY DEF Rules
<1>2. ASSUME NEW q, NEW k \in DOMAIN Stripped(q)
      PROVE  Stripped(q)[k] \in {"settings", "settings-local", "codex-hooks",
                                 "gemini-settings", "agents-hooks"}
  <2>1. CASE q = "claude"
    BY <1>2, <2>1 DEF Stripped
  <2>2. CASE q # "claude" /\ Settings(q) # None
    <3>1. Settings(q) \in {"settings", "codex-hooks", "gemini-settings", "agents-hooks"}
      BY <2>2 DEF Settings
    <3>2. Stripped(q) = <<Settings(q)>>
      BY <2>2 DEF Stripped
    <3>3. QED
      BY <1>2, <3>1, <3>2
  <2>3. CASE q # "claude" /\ Settings(q) = None
    BY <1>2, <2>3 DEF Stripped
  <2>4. QED
    BY <2>1, <2>2, <2>3
<1>3. QED
  BY <1>1, <1>2 DEF Jsons

-----------------------------------------------------------------------------
\* A file that was just read is in hand as it was read.
LEMMA OpenStep ==
  ASSUME FilesOK, NEW f, NEW out, NEW next \in {"save", "rules-bak", "rules-write"},
         Open(f, out, next), UNCHANGED shared,
         f \in Files => /\ Content(f).sound
                        /\ out \in FileState \cup {None}
                        /\ IF out = None THEN Content(f).notes = {}
                           ELSE out.notes = Content(f).notes /\ out.sound,
         next = "rules-bak" => file[f] # None,
         next = "rules-write" => file[f] = None
  PROVE  MemOK'
<1>1. /\ mem' = [f |-> f, was |-> file[f], out |-> out]
      /\ late' = {} /\ unsaved' = {} /\ pc' = next /\ file' = file /\ bak' = bak
  BY DEF Open, shared
<1>2. mem'.f = f /\ mem'.was = file[f] /\ mem'.out = out
  BY <1>1
<1>3. SUFFICES ASSUME f \in Files
               PROVE  MemOK'
  BY <1>2 DEF MemOK
<1>4. /\ Content(f) \in FileState /\ Saved(f) \in FileState /\ Empty.notes = {} /\ Empty.sound
      /\ file[f] \in FileState \cup {None}
  BY <1>3, ContentOK DEF FilesOK
<1>5. Content(f)' = Content(f) /\ Saved(f)' = Saved(f)
  BY <1>1 DEF Content, Saved
<1>6. Held' = Content(f).notes
  BY <1>2, <1>4 DEF Held, Content
<1>7. next = "rules-write" => Content(f).notes = {}
  BY <1>4 DEF Content
<1>8. QED
  BY <1>1, <1>2, <1>3, <1>4, <1>5, <1>6, <1>7 DEF MemOK

\* A step that has no file in hand, or leaves it there.
LEMMA QuietStep ==
  ASSUME MemOK, Quiet
  PROVE  MemOK'
<1>1. CASE pc' \notin InFile
  BY <1>1 DEF MemOK
<1>2. CASE UNCHANGED <<pc, memVars>>
  BY <1>2 DEF MemOK, Quiet, shared, memVars, Content, Saved, Held
<1>3. QED
  BY <1>1, <1>2 DEF Quiet

\* A command stays what it is, and of its version.
SameCmd ==
  \A x \in {"op", "v"} : x \in DOMAIN cmd => x \in DOMAIN cmd' /\ cmd'[x] = cmd[x]

\* What the binding of a project does to the command under way.
LEMMA BindingSteps ==
  ASSUME BindStep
  PROVE  /\ pc # "idle"
         /\ pc' \in {"idle", "pin", "mkdir", "ignore", "fill", "resolve", "bind", "provide"}
         /\ pc' = "idle" \/ SameCmd
<1> USE DEF SameCmd
<1>1. CASE Place
  BY <1>1 DEF Place, EndCmd
<1>2. CASE MakeDir \/ Ignore \/ Truncate \/ Fill
  BY <1>2 DEF MakeDir, Ignore, Truncate, Fill, EndCmd, At
<1>3. CASE Resolve \/ Accepted \/ Rejected
  BY <1>3 DEF Resolve, Accepted, Rejected, EndCmd
<1>4. QED
  BY <1>1, <1>2, <1>3 DEF BindStep

\* The steps with a file in hand, those that begin and end that, and an editor's; all
\* others are quiet.
LEMMA StepsAreQuiet ==
  ASSUME InstallNext
  PROVE  \/ Quiet
         \/ InstallHooks \/ upsertAwarenessBlock \/ removeXfaHooks \/ removeAwarenessBlock
         \/ FileStep
         \/ \E f \in Files : Garble(f) \/ \E n \in Notes : Edit(f, n)
<1> USE DEF Quiet, InFile
<1>1. ASSUME NEW i \in Inits, NEW v \in Versions, RunInit(i, v)
      PROVE  Quiet
  BY <1>1 DEF RunInit, StartInit, At
<1>2. ASSUME NEW u \in Uninstalls, RunUninstall(u)
      PROVE  Quiet
  BY <1>2 DEF RunUninstall, At
<1>3. CASE BindStep /\ UNCHANGED <<shared, ours, memVars, used>>
  BY <1>3, BindingSteps
<1>4. ASSUME NEW r \in Registrations, RegisterStep(r) /\ UNCHANGED <<shared, ours, memVars, used>>
      PROVE  Quiet
  BY <1>4 DEF RegisterStep
<1>5. ASSUME NEW r \in Registrations, NEW dir \in Dirs, NEW slug \in Boards \cup {None},
             Other(r, dir, slug) /\ UNCHANGED <<shared, ours, memVars, used>>
      PROVE  Quiet
  BY <1>5 DEF Other
<1>6. CASE InstallSkill \/ Stamp \/ InstallPlugin \/ InstallRule
  BY <1>6 DEF InstallSkill, Stamp, InstallPlugin, InstallRule, At, NextProvider, Keep
<1>7. CASE Uninstall \/ RemovePlugin \/ RemoveSkill \/ RemoveRule
  BY <1>7 DEF Uninstall, RemovePlugin, RemoveSkill, RemoveRule, At, NextProvider, Keep
<1>8. CASE PartFails
  BY <1>8 DEF PartFails, Keep
<1>9. CASE Complete \/ Stop
  BY <1>9 DEF Complete, Stop, StopCmd, EndCmd
<1>10. QED
  BY <1>1, <1>2, <1>3, <1>4, <1>5, <1>6, <1>7, <1>8, <1>9 DEF InstallNext, InstallStep, UninstallStep

\* What a command reads it puts nothing into that costs the human a note; it reads no
\* JSON that does not parse.
LEMMA ReadsOpen ==
  ASSUME FilesInv, InstallHooks \/ upsertAwarenessBlock \/ removeXfaHooks \/ removeAwarenessBlock
  PROVE  MemOK'
<1> USE DEF FilesInv
<1>1. UNCHANGED shared
  BY DEF InstallHooks, upsertAwarenessBlock, removeXfaHooks, removeAwarenessBlock, Keep
<1>2. pc' \notin InFile \/ UNCHANGED <<pc, memVars>> => MemOK'
  <2>1. used' = used
    BY DEF InstallHooks, upsertAwarenessBlock, removeXfaHooks, removeAwarenessBlock, Keep
  <2>2. QED
    BY <1>1, <2>1, QuietStep DEF Quiet
<1>3. CASE InstallHooks
  <2> DEFINE f == Settings(P)
             out == UpsertHookEntry(Content(f), Events(P), cmd.v)
  <2>1. CASE ~Content(f).sound
    BY <1>2, <1>3, <2>1 DEF InstallHooks, EndCmd, InFile
  <2>2. CASE Content(f).sound
    <3>1. Open(f, out, "save")
      BY <1>3, <2>2 DEF InstallHooks
    <3>2. cmd.v \in Versions
      BY <1>3 DEF InstallHooks, CmdOK
    <3>3. ASSUME f \in Files
          PROVE  /\ out \in FileState /\ out # None
                 /\ out.notes = Content(f).notes /\ out.sound
      BY <2>2, <3>2, <3>3, ContentOK, EntriesKeepNotes, NoneIsNoFile
    <3> HIDE DEF f, out
    <3>4. QED
      BY <1>1, <2>2, <3>1, <3>3, OpenStep
  <2>3. QED
    BY <2>1, <2>2
<1>4. CASE upsertAwarenessBlock
  <2> DEFINE f == Rules(P)
             out == mergeAwarenessBlock(Content(f), cmd.v)
             next == IF file[f] = None THEN "rules-write" ELSE "rules-bak"
  <2>1. CASE file[f] = out
    BY <1>2, <1>4, <2>1 DEF upsertAwarenessBlock, NextProvider, InFile
  <2>2. CASE file[f] # out
    <3>1. Open(f, out, next) /\ f # None
      BY <1>4, <2>2 DEF upsertAwarenessBlock
    <3>2. cmd.v \in Versions
      BY <1>4 DEF upsertAwarenessBlock, CmdOK
    <3>3. ASSUME f \in Files
          PROVE  /\ Content(f).sound
                 /\ out \in FileState /\ out # None
                 /\ out.notes = Content(f).notes /\ out.sound
      <4>1. Content(f).sound
        BY <3>1, <3>3, RulesAreText, ContentOK DEF FilesOK, Content
      <4>2. QED
        BY <3>2, <3>3, <4>1, ContentOK, BlocksKeepNotes, NoneIsNoFile
    <3>4. /\ next \in {"save", "rules-bak", "rules-write"}
          /\ next = "rules-bak" => file[f] # None
          /\ next = "rules-write" => file[f] = None
      OBVIOUS
    <3> HIDE DEF f, out, next
    <3>5. QED
      BY <1>1, <3>1, <3>3, <3>4, OpenStep
  <2>3. QED
    BY <2>1, <2>2
<1>5. CASE removeXfaHooks
  <2> DEFINE f == cmd.strip[1]
             out == RemoveHookEntries(Content(f), Removed(P))
  <2>1. CASE ~Content(f).sound \/ out = Content(f)
    BY <1>2, <1>5, <2>1 DEF removeXfaHooks
  <2>2. CASE Content(f).sound /\ out # Content(f)
    <3>1. Open(f, out, "save")
      BY <1>5, <2>2 DEF removeXfaHooks
    <3>2. ASSUME f \in Files
          PROVE  /\ out \in FileState /\ out # None
                 /\ out.notes = Content(f).notes /\ out.sound
      BY <2>2, <3>2, ContentOK, EntriesKeepNotes, NoneIsNoFile
    <3> HIDE DEF f, out
    <3>3. QED
      BY <1>1, <2>2, <3>1, <3>2, OpenStep
  <2>3. QED
    BY <2>1, <2>2
<1>6. CASE removeAwarenessBlock
  <2> DEFINE f == Rules(P)
             out == withoutBlock(file[f])
  <2>1. CASE Content(f).ours["block"] = <<>>
    BY <1>2, <1>6, <2>1 DEF removeAwarenessBlock, NextProvider, InFile
  <2>2. CASE Content(f).ours["block"] # <<>>
    <3>1. Open(f, out, "rules-bak") /\ f # None
      BY <1>6, <2>2 DEF removeAwarenessBlock
    <3>2. file[f] # None
      BY <2>2 DEF Content, Empty, Marks
    <3>3. ASSUME f \in Files
          PROVE  /\ Content(f).sound
                 /\ out \in FileState \cup {None}
                 /\ IF out = None THEN Content(f).notes = {}
                    ELSE out.notes = Content(f).notes /\ out.sound
      <4>1. Content(f).sound /\ Content(f) = file[f] /\ Content(f) \in FileState
        BY <3>1, <3>2, <3>3, RulesAreText, ContentOK DEF FilesOK, Content
      <4>2. QED
        BY <2>2, <4>1, BlocksKeepNotes
    <3> HIDE DEF f, out
    <3>4. QED
      BY <1>1, <3>1, <3>2, <3>3, OpenStep
  <2>3. QED
    BY <2>1, <2>2
<1>7. QED
  BY <1>3, <1>4, <1>5, <1>6

\* A backup is made of what is there, or of what was read.
LEMMA BackUpStep ==
  ASSUME FilesInv, FileStep
  PROVE  MemOK'
<1> USE DEF FilesInv
<1>1. CASE Write \/ RulesWrite
  <2>1. pc' \notin InFile
    BY <1>1 DEF Write, RulesWrite, NextProvider, At, AfterHooks, InFile
  <2>2. QED
    BY <2>1 DEF MemOK
<1>2. CASE Save /\ pc' # "write"
  <2>1. pc' \notin InFile
    BY <1>2 DEF Save, AfterHooks, InFile
  <2>2. QED
    BY <2>1 DEF MemOK
<1>3. CASE Save /\ pc' = "write" /\ mem.f \in Files
  <2>1. /\ pc = "save" /\ file' = file /\ mem' = mem /\ late' = late /\ unsaved' = {}
        /\ bak' = IF file[mem.f] = None THEN bak ELSE [bak EXCEPT ![mem.f] = file[mem.f]]
    BY <1>3 DEF Save, AfterHooks, Keep
  <2>2. Content(mem.f)' = Content(mem.f) /\ Held' = Held
    BY <2>1 DEF Content, Held
  <2>3. PICK b : b = Saved(mem.f)'
    OBVIOUS
  <2>4. IF file[mem.f] = None THEN TRUE ELSE b = file[mem.f]
    BY <1>3, <2>1, <2>3 DEF Saved, FilesOK
  <2>5. Content(mem.f).notes \subseteq b.notes /\ (Content(mem.f).sound \/ ~b.sound)
    BY <1>3, <2>4, ContentOK DEF Content
  <2>6. QED
    BY <1>3, <2>1, <2>2, <2>3, <2>5 DEF MemOK, InFile
<1>4. CASE RulesBackUp /\ mem.f \in Files
  <2>1. /\ pc = "rules-bak" /\ pc' = "rules-write" /\ file' = file /\ mem' = mem
        /\ late' = late /\ unsaved' = unsaved /\ bak' = [bak EXCEPT ![mem.f] = mem.was]
    BY <1>4 DEF RulesBackUp, At, Keep, memVars
  <2>2. Content(mem.f)' = Content(mem.f) /\ Held' = Held
    BY <2>1 DEF Content, Held
  <2>3. PICK b : b = Saved(mem.f)'
    OBVIOUS
  <2>4. mem.was # None /\ late = unsaved
    BY <1>4, <2>1 DEF MemOK, InFile
  <2>5. b = mem.was /\ Held = mem.was.notes
    BY <1>4, <2>1, <2>3, <2>4 DEF Saved, FilesOK, Held
  <2>6. QED
    BY <1>4, <2>1, <2>2, <2>3, <2>4, <2>5 DEF MemOK, InFile
<1>5. CASE mem.f \notin Files /\ mem' = mem
  <2>1. mem'.f \notin Files
    BY <1>5
  <2>2. QED
    BY <2>1 DEF MemOK
<1>6. QED
  BY <1>1, <1>2, <1>3, <1>4, <1>5 DEF FileStep, Save, RulesBackUp, AfterHooks, memVars, Keep

\* The human's notes are added to a file that a command may have in hand.
LEMMA EditStep ==
  ASSUME FilesInv, NEW f \in Files, NEW what, Edited(f, what),
         NEW c \in FileState, file' = [file EXCEPT ![f] = c],
         c.notes \subseteq Content(f).notes \cup {what},
         c.sound \/ ~Content(f).sound \/ what = "broken",
         f \notin Jsons => c.sound
  PROVE  FilesInv'
<1> USE DEF FilesInv
<1>1. /\ pc' = pc /\ cmd' = cmd /\ mem' = mem /\ bak' = bak
      /\ late' = IF mem.f = f THEN late \cup {what} ELSE late
      /\ unsaved' = IF mem.f = f THEN unsaved \cup {what} ELSE unsaved
      /\ used' = [used EXCEPT !.edits = @ + 1]
  BY DEF Edited, bindingVars
<1>2. FilesOK'
  BY <1>1 DEF FilesOK
<1>3. CmdOK'
  BY <1>1 DEF CmdOK, Installs
<1>4. MemOK'
  <2>1. SUFFICES ASSUME pc \in InFile, mem.f \in Files
                 PROVE  MemOK'
    BY <1>1 DEF MemOK
  <2>2. Held' = Held /\ Saved(mem.f)' = Saved(mem.f)
    BY <1>1 DEF Held, Saved
  <2>3. PICK d : d = Content(mem.f)'
    OBVIOUS
  <2>4. CASE mem.f = f
    <3>1. d = c
      BY <1>1, <2>3, <2>4, NoneIsNoFile DEF Content, FilesOK
    <3>2. late' = late \cup {what} /\ unsaved' = unsaved \cup {what}
      BY <1>1, <2>4
    <3>3. QED
      BY <1>1, <2>1, <2>2, <2>3, <2>4, <3>1, <3>2 DEF MemOK
  <2>5. CASE mem.f # f
    <3>1. d = Content(mem.f)
      BY <1>1, <2>1, <2>3, <2>5 DEF Content, FilesOK
    <3>2. QED
      BY <1>1, <2>1, <2>2, <2>3, <2>5, <3>1 DEF MemOK
  <2>6. QED
    BY <2>4, <2>5
<1>5. QED
  BY <1>2, <1>3, <1>4

\* A command stays what it is until its end, and only an init installs.
LEMMA CmdStep ==
  ASSUME CmdOK, InstallNext
  PROVE  CmdOK'
<1>1. ASSUME NEW i \in Inits, NEW v \in Versions, RunInit(i, v)
      PROVE  CmdOK'
  BY <1>1 DEF RunInit, StartInit, At, CmdOK, Installs
<1>2. ASSUME NEW u \in Uninstalls, RunUninstall(u)
      PROVE  CmdOK'
  BY <1>2 DEF RunUninstall, At, CmdOK, Installs
<1>3. ASSUME pc # "idle", SameCmd, pc' \in {"stamp", "hooks", "rules"} => Installs
      PROVE  CmdOK'
  <2>1. Installs' <=> Installs
    BY <1>3 DEF CmdOK, SameCmd, Installs
  <2>2. QED
    BY <1>3, <2>1 DEF CmdOK, SameCmd
<1>4. pc' = "idle" => CmdOK'
  BY DEF CmdOK
<1>5. UNCHANGED <<pc, cmd>> => CmdOK'
  BY DEF CmdOK, Installs
<1>6. CASE BindStep
  BY <1>3, <1>4, <1>6, BindingSteps
<1>7. ASSUME NEW r \in Registrations, RegisterStep(r)
      PROVE  CmdOK'
  BY <1>5, <1>7 DEF RegisterStep
<1>8. ASSUME NEW r \in Registrations, NEW dir \in Dirs, NEW slug \in Boards \cup {None}, Other(r, dir, slug)
      PROVE  CmdOK'
  BY <1>5, <1>8 DEF Other
<1>9. CASE FileStep
  <2>1. pc # "idle" /\ SameCmd
    BY <1>9 DEF FileStep, Save, Write, RulesBackUp, RulesWrite, At, NextProvider, Keep, SameCmd
  <2>2. pc' \in {"stamp", "hooks", "rules"} => Installs
    BY <1>9 DEF FileStep, Save, Write, RulesBackUp, RulesWrite, At, AfterHooks, NextProvider
  <2>3. QED
    BY <1>3, <2>1, <2>2
<1>10. CASE InstallStep
  <2>1. pc' = "idle" \/ (pc # "idle" /\ SameCmd)
    BY <1>10 DEF InstallStep, InstallSkill, Stamp, InstallHooks, InstallPlugin, upsertAwarenessBlock,
                 InstallRule, Ready, Open, At, NextProvider, EndCmd, Keep, SameCmd
  <2>2. pc' \in {"stamp", "hooks", "rules"} => Installs
    BY <1>10 DEF InstallStep, InstallSkill, Stamp, InstallHooks, InstallPlugin, upsertAwarenessBlock,
                 InstallRule, Ready, Open, At, NextProvider, EndCmd, Keep, CmdOK, Installs
  <2>3. QED
    BY <1>3, <1>4, <2>1, <2>2
<1>11. CASE UninstallStep
  <2>1. pc # "idle" /\ SameCmd
    BY <1>11 DEF UninstallStep, Uninstall, removeXfaHooks, RemovePlugin, RemoveSkill,
                 removeAwarenessBlock, RemoveRule, PartFails, Ready, Open, At, NextProvider, Keep, SameCmd
  <2>2. pc' \notin {"stamp", "hooks", "rules"}
    BY <1>11 DEF UninstallStep, Uninstall, removeXfaHooks, RemovePlugin, RemoveSkill,
                 removeAwarenessBlock, RemoveRule, PartFails, Ready, Open, At, NextProvider, Keep
  <2>3. QED
    BY <1>3, <2>1, <2>2
<1>12. CASE Complete \/ Stop
  BY <1>4, <1>12 DEF Complete, Stop, StopCmd, EndCmd
<1>13. ASSUME NEW f \in Files, Garble(f) \/ \E n \in Notes : Edit(f, n)
       PROVE  CmdOK'
  BY <1>5, <1>13 DEF Garble, Edit, Edited, bindingVars
<1>14. QED
  BY <1>1, <1>2, <1>6, <1>7, <1>8, <1>9, <1>10, <1>11, <1>12, <1>13 DEF InstallNext

\* The inductive invariant of the files holds before any command.
LEMMA InitFiles ==
  ASSUME InstallInit
  PROVE  FilesInv
BY DEF InstallInit, BindingInit, FilesInv, FilesOK, CmdOK, MemOK, InFile

\* Every step keeps it.
LEMMA FilesStep ==
  ASSUME FilesInv, [InstallNext]_installVars
  PROVE  FilesInv'
<1>1. CASE UNCHANGED installVars
  BY <1>1 DEF installVars, bindingVars, shared, memVars, FilesInv, FilesOK, CmdOK, MemOK, Installs,
              Held, Content, Saved
<1>2. CASE InstallNext
  <2>1. CmdOK'
    BY <1>2, CmdStep DEF FilesInv
  <2>2. CASE Quiet
    <3>1. FilesOK'
      BY <2>2 DEF Quiet, Runs, shared, FilesInv, FilesOK
    <3>2. QED
      BY <2>1, <2>2, <3>1, QuietStep DEF FilesInv
  <2>3. CASE InstallHooks \/ upsertAwarenessBlock \/ removeXfaHooks \/ removeAwarenessBlock
    <3>1. UNCHANGED <<shared, used>>
      BY <2>3 DEF InstallHooks, upsertAwarenessBlock, removeXfaHooks, removeAwarenessBlock, Keep
    <3>2. FilesOK'
      BY <3>1 DEF shared, FilesInv, FilesOK
    <3>3. QED
      BY <2>1, <2>3, <3>2, ReadsOpen DEF FilesInv
  <2>4. CASE FileStep
    <3>1. FilesOK'
      <4> USE DEF FilesInv, FilesOK
      <4>1. CASE Save
        BY <4>1 DEF Save, Keep
      <4>2. CASE RulesBackUp
        <5>1. pc \in InFile /\ UNCHANGED <<file, used>> /\ bak' = [bak EXCEPT ![mem.f] = mem.was]
          BY <4>2 DEF RulesBackUp, At, Keep, InFile
        <5>2. mem.f \in Files => mem.was \in FileState \cup {None}
          BY <5>1 DEF MemOK
        <5>3. QED
          BY <5>1, <5>2
      <4>3. CASE Write \/ RulesWrite
        <5>1. pc \in InFile /\ UNCHANGED <<bak, used>> /\ file' = [file EXCEPT ![mem.f] = mem.out]
          BY <4>3 DEF Write, RulesWrite, At, Keep, InFile
        <5>2. mem.f \in Files => /\ mem.out \in FileState \cup {None}
                                 /\ mem.out # None => mem.out.sound
          BY <5>1 DEF MemOK
        <5>3. QED
          BY <5>1, <5>2
      <4>4. QED
        BY <2>4, <4>1, <4>2, <4>3 DEF FileStep
    <3>2. QED
      BY <2>1, <2>4, <3>1, BackUpStep DEF FilesInv
  <2>5. ASSUME NEW f \in Files, Garble(f)
        PROVE  FilesInv'
    <3> DEFINE c == [file[f] EXCEPT !.sound = FALSE]
    <3>1. /\ f \in Jsons /\ Content(f) = file[f] /\ Content(f) \in FileState
          /\ Edited(f, "broken") /\ file' = [file EXCEPT ![f] = c]
      BY <2>5, ContentOK DEF Garble, Content, FilesInv
    <3>2. c \in FileState /\ c.notes = Content(f).notes
      BY <3>1 DEF FileState
    <3> HIDE DEF c
    <3>3. QED
      BY <3>1, <3>2, EditStep
  <2>6. ASSUME NEW f \in Files, NEW n \in Notes, Edit(f, n)
        PROVE  FilesInv'
    <3> DEFINE c == [Content(f) EXCEPT !.notes = @ \cup {n}]
    <3>1. /\ Content(f) \in FileState
          /\ Edited(f, n) /\ file' = [file EXCEPT ![f] = c]
      BY <2>6, ContentOK DEF Edit, FilesInv
    <3>2. c \in FileState /\ c.notes = Content(f).notes \cup {n} /\ c.sound = Content(f).sound
      BY <3>1 DEF FileState
    <3>3. f \notin Jsons => Content(f).sound
      BY ContentOK DEF FilesInv, FilesOK, Content
    <3> HIDE DEF c
    <3>4. QED
      BY <3>1, <3>2, <3>3, EditStep
  <2>7. QED
    BY <1>2, <2>2, <2>3, <2>4, <2>5, <2>6, StepsAreQuiet
<1>3. QED
  BY <1>1, <1>2

\* Files, backups and what a command has in hand belong together, for any providers,
\* versions, commands and edits, whether it ends well, fails or is killed.
THEOREM FilesInvariance == InstallSpec => []FilesInv
BY InitFiles, FilesStep, PTL DEF InstallSpec

\* A command loses nothing that the human had written when it last read the file it
\* changes, and the backup has the rest but for what came after it was made; nor does
\* it write over JSON that did not parse when it was read.
THEOREM NotesAreKept == InstallSpec => UserKeepsTheirs
<1>1. ASSUME FilesInv, [InstallNext]_installVars,
             NEW f \in Files, file[f] # None, file'[f] # file[f], used' = used
      PROVE  /\ file[f].notes \ Content(f)'.notes \subseteq late
             /\ file[f].notes \subseteq Saved(f).notes \cup unsaved
             /\ file[f].sound \/ "broken" \in late
             /\ file[f].sound \/ ~Saved(f).sound \/ "broken" \in unsaved
  <2>1. Write \/ RulesWrite
    <3>1. ~Quiet /\ ~(UNCHANGED installVars)
      BY <1>1 DEF Quiet, shared, installVars
    <3>2. ~(InstallHooks \/ upsertAwarenessBlock \/ removeXfaHooks \/ removeAwarenessBlock)
      BY <1>1 DEF InstallHooks, upsertAwarenessBlock, removeXfaHooks, removeAwarenessBlock, Keep, shared
    <3>3. ~Save /\ ~RulesBackUp
      BY <1>1 DEF Save, RulesBackUp, Keep
    <3>4. ASSUME NEW g, NEW what, Edited(g, what)
          PROVE  FALSE
      <4>1. used.edits \in Nat /\ "edits" \in DOMAIN used
        BY <1>1 DEF FilesInv, FilesOK
      <4>2. used'.edits = used.edits + 1
        BY <3>4, <4>1 DEF Edited
      <4>3. QED
        BY <1>1, <4>1, <4>2
    <3>5. QED
      BY <1>1, <3>1, <3>2, <3>3, <3>4, StepsAreQuiet DEF FileStep, Garble, Edit
  <2>2. pc \in {"write", "rules-write"} /\ file' = [file EXCEPT ![mem.f] = mem.out]
    BY <2>1 DEF Write, RulesWrite, At
  <2>3. f = mem.f /\ file'[f] = mem.out
    BY <1>1, <2>2 DEF FilesInv, FilesOK
  <2>4. Content(f) = file[f]
    BY <1>1 DEF Content
  <2>5. PICK c : c = Content(f)'
    OBVIOUS
  <2>6. c.notes = Held
    BY <1>1, <2>2, <2>3, <2>5, ContentOK DEF Content, FilesInv, MemOK, InFile, Empty
  <2>7. QED
    BY <1>1, <2>2, <2>3, <2>4, <2>5, <2>6 DEF FilesInv, MemOK, InFile
<1> DEFINE Kept ==
             \A f \in Files : (file[f] # None /\ file'[f] # file[f] /\ used' = used) =>
               /\ file[f].notes \ Content(f)'.notes \subseteq late
               /\ file[f].notes \subseteq Saved(f).notes \cup unsaved
               /\ file[f].sound \/ "broken" \in late
               /\ file[f].sound \/ ~Saved(f).sound \/ "broken" \in unsaved
<1>2. FilesInv /\ [InstallNext]_installVars => [Kept]_installVars
  BY <1>1
<1>3. UserKeepsTheirs <=> [][Kept]_installVars
  BY DEF UserKeepsTheirs
<1> HIDE DEF Kept
<1>4. QED
  BY <1>2, <1>3, FilesInvariance, PTL DEF InstallSpec

-----------------------------------------------------------------------------
(***************************************************************************)
(* Pins and bindings: whichever registrations interleave on a server, and  *)
(* wherever the commands that asked for them end, a project is pinned to a *)
(* server only where that has bound it, a binding is never re-pointed, and *)
(* directories in one another are of one board, but for what is registered *)
(* between the check of one registration and its write.                    *)
(***************************************************************************)
\* Where a command is: an init before its providers, an init or an uninstall, the one,
\* the other.
Binds == {"place", "mkdir", "ignore", "pin", "fill", "resolve", "bind"}
Either == {"provide", "save", "write", "rules-bak", "rules-write"}
Gives == {"stamp", "hooks", "rules"}
Takes == {"strip", "unskill", "unrules"}

AnInit ==
  cmd \in [op : {"init"}, mode : {"plain", "db", "global", "server"}, env : {None, "file", "server"},
           slug : Boards \cup {None}, todo : Seq(Providers), asked : Seq(Providers), v : Versions,
           resolved : Databases \cup {None}, req : Registrations \cup {None}, fresh : BOOLEAN]
AnUninstall ==
  cmd \in [op : {"uninstall"}, todo : Seq(Providers), asked : Seq(Providers), all : BOOLEAN,
           strip : Seq(Jsons), failed : BOOLEAN, req : {None}]

\* A command knows what it has been asked for; one in hand has a provider, or has none left.
StagesOK ==
  /\ \/ pc = "idle" /\ cmd = NoCmd
     \/ pc \in Binds \cup Either \cup Gives /\ AnInit
     \/ pc \in Either \cup Takes /\ AnUninstall
  /\ pc \in Gives \cup Takes \cup (Either \ {"provide"}) => cmd.todo # <<>>

\* An init that has bound its project.
Settled == AnInit /\ ((pc \in {"pin", "fill"} /\ cmd.mode = "server") \/ pc \in Either \cup Gives)

Asking == {"look", "capture", "collide", "ensure", "register"}

\* A registration, as it is asked for and once its board is chosen.
ReqOK(q) ==
  \/ q = Free
  \/ /\ q \in [pc : Asking \cup {"done", "refused"}, db : Databases, dir : Dirs, slug : Boards \cup {None}]
     /\ q.pc \notin {"look", "refused"} => q.slug \in Boards
     /\ q.db = "server" => q.pc # "collide"

TablesOK ==
  /\ marker \in {None, "file", "server", "torn"} /\ xfaDir \in BOOLEAN
  /\ boards \in [Databases -> SUBSET Boards]
  /\ bound \in [Databases -> [Dirs -> Boards \cup {None}]]
  /\ req = [r \in Registrations |-> req[r]] /\ \A r \in Registrations : ReqOK(req[r])
  /\ unseen \in [Registrations -> SUBSET Dirs]
  /\ crossed \in BOOLEAN

\* Who waits for which registration: nobody else asks a local database, and nobody else
\* is told.
CallersOK ==
  /\ pc # "bind" => cmd.req = None
  /\ pc = "bind" => /\ cmd.req \in Registrations /\ req[cmd.req] # Free
                    /\ req[cmd.req].dir = Project /\ req[cmd.req].db = cmd.resolved
  /\ \A r \in Registrations :
       req[r] # Free /\ (req[r].pc \in {"done", "refused"} \/ req[r].db # "server") => cmd.req = r

\* What an init has found out, and made, stays so until its end.
PlanOK ==
  AnInit =>
    /\ pc = "place" => ~cmd.fresh
    /\ pc \in {"mkdir", "ignore"} =>
         cmd.mode = "plain" /\ cmd.env = None /\ marker = None /\ Above = "global"
    /\ pc \in {"pin", "fill"} => cmd.mode \in {"db", "server"}
    /\ pc = "resolve" /\ cmd.mode # "server" => ResolvePath(cmd.env) \in Databases
    /\ (cmd.mode = "server" /\ pc # "place") =>
         /\ cmd.env \in {None, "server"} /\ ~xfaDir
         /\ pc \in Either \cup Gives => marker = "server"
    /\ pc = "bind" \/ Settled =>
         /\ cmd.resolved \in Databases
         /\ IF cmd.mode = "server" THEN cmd.resolved = "server" ELSE cmd.resolved = ResolvePath(cmd.env)
    /\ cmd.fresh => ignored \/ pc \in {"mkdir", "ignore"}

\* The project stays bound to the board it was bound to, unless registrations have missed
\* a binding.
BoundOK ==
  Settled => /\ bound[cmd.resolved][Project] # None
             /\ bound[cmd.resolved][Project] = cmd.slug \/ crossed

\* Directories in one another are of one board.
Nested == crossed \/ \A d, e \in Dirs : <<d, e>> \in Inside =>
            LET b == bound["server"] IN b[d] = b[e] \/ b[d] = None \/ b[e] = None

\* What a registration has seen is so, unless it has missed a binding.
SeenOK(q, news) ==
  LET b == bound["server"] IN
  /\ (q # Free /\ q.pc = "done") =>
       /\ bound[q.db][q.dir] # None
       /\ bound[q.db][q.dir] = q.slug \/ crossed
  /\ (q # Free /\ q.db = "server" /\ q.pc \in {"capture", "ensure", "register"}) =>
       /\ q.dir \notin news => b[q.dir] \in {None, q.slug}
       /\ news = {} =>
            \/ crossed
            \/ /\ \A e \in Dirs : <<q.dir, e>> \in Inside => b[e] \in {None, q.slug}
               /\ q.pc # "capture" =>
                    \A e \in Dirs : <<e, q.dir>> \in Inside => b[e] \in {None, q.slug}

AllSeen == \A r \in Registrations : SeenOK(req[r], unseen[r])

BindInv == StagesOK /\ TablesOK /\ CallersOK /\ PlanOK /\ BoundOK /\ Nested /\ AllSeen

-----------------------------------------------------------------------------
\* Of a directory and what is above it, those that are bound.
OverIt(b, dir) == {e \in Dirs : b[e] # None /\ (e = dir \/ <<dir, e>> \in Inside)}

\* The nearest binding: the directory's own, or else the one that all others above it
\* are above; and there is one if any is.
LEMMA NearestIs ==
  ASSUME NEW d, NEW dir \in Dirs
  PROVE  /\ Nearest(d, dir) \subseteq OverIt(bound[d], dir)
         /\ bound[d][dir] # None => Nearest(d, dir) = {dir}
         /\ \A e \in Nearest(d, dir), f \in OverIt(bound[d], dir) : f = e \/ <<e, f>> \in Inside
         /\ \A e, f \in Nearest(d, dir) : e = f
         /\ OverIt(bound[d], dir) # {} => Nearest(d, dir) # {}
<1> DEFINE b == bound[d]
           C == OverIt(b, dir)
           N == Nearest(d, dir)
           Lower(e) == {f \in C : <<f, e>> \in Inside}
<1>1. /\ IsFiniteSet(Dirs)
      /\ \A x \in Dirs : <<x, x>> \notin Inside
      /\ \A x, y, z \in Dirs : <<x, y>> \in Inside /\ <<y, z>> \in Inside => <<x, z>> \in Inside
      /\ \A x, y, z \in Dirs : <<x, y>> \in Inside /\ <<x, z>> \in Inside
                                 => y = z \/ <<y, z>> \in Inside \/ <<z, y>> \in Inside
  BY BindingAssumption
<1>2. N = {e \in C : Lower(e) = {}}
  BY DEF Nearest, OverIt
<1>3. C \subseteq Dirs /\ \A e \in C : b[e] # None /\ (e = dir \/ <<dir, e>> \in Inside)
  BY DEF OverIt
<1>4. \A e \in N, f \in C : f = e \/ <<e, f>> \in Inside
  BY <1>1, <1>2, <1>3
<1>5. \A e, f \in N : e = f
  BY <1>1, <1>2, <1>3, <1>4
<1>6. ASSUME b[dir] # None
      PROVE  N = {dir}
  <2>1. dir \in C /\ Lower(dir) = {}
    BY <1>1, <1>3, <1>6 DEF OverIt
  <2>2. QED
    BY <1>2, <1>5, <2>1
<1>7. ASSUME C # {}
      PROVE  N # {}
  <2> DEFINE T == {Lower(e) : e \in C}
  <2>1. IsFiniteSet(C) /\ \A e \in C : IsFiniteSet(Lower(e))
    BY <1>1, <1>3, FS_Subset, Zenon
  <2>2. T \subseteq FiniteSubsetsOf(C) /\ T # {}
    BY <1>7, <2>1 DEF FiniteSubsetsOf
  <2>3. \E x \in T : \A y \in T : <<y, x>> \notin StrictSubsetOrdering(C)
    <3> HIDE DEF T, C
    <3>1. QED
      BY <2>2, FS_StrictSubsetOrderingWellFounded, WFMin
  <2>4. PICK e \in C : \A f \in C : <<Lower(f), Lower(e)>> \notin StrictSubsetOrdering(C)
    BY <2>3
  <2>5. ASSUME NEW f \in Lower(e)
        PROVE  FALSE
    <3>1. Lower(f) \subseteq Lower(e) /\ f \notin Lower(f) /\ f \in C
      BY <1>1, <1>3, <2>5
    <3>2. QED
      BY <2>4, <2>5, <3>1 DEF StrictSubsetOrdering
  <2>6. QED
    BY <1>2, <2>5
<1>8. QED
  BY <1>2, <1>4, <1>5, <1>6, <1>7

\* Commands are of two kinds.
LEMMA TwoKinds ==
  ASSUME StagesOK
  PROVE  /\ AnInit => Installs /\ ~AnUninstall /\ pc # "idle"
         /\ AnUninstall => ~Installs /\ pc # "idle" /\ cmd.req = None
         /\ pc = "idle" => ~AnInit /\ ~AnUninstall
         /\ AnInit \/ AnUninstall => cmd.todo \in Seq(Providers) /\ cmd.asked \in Seq(Providers)
<1>1. AnInit => cmd.op = "init" /\ cmd.todo \in Seq(Providers) /\ cmd.asked \in Seq(Providers)
  BY DEF AnInit
<1>2. AnUninstall => cmd.op = "uninstall" /\ cmd.req = None /\ cmd.todo \in Seq(Providers) /\ cmd.asked \in Seq(Providers)
  BY DEF AnUninstall
<1>3. pc = "idle" => cmd = NoCmd
  BY DEF StagesOK, Binds, Either, Gives, Takes
<1>4. "todo" \notin DOMAIN NoCmd
  BY DEF NoCmd
<1>5. AnInit \/ AnUninstall => "todo" \in DOMAIN cmd
  BY DEF AnInit, AnUninstall
<1>6. QED
  BY <1>1, <1>2, <1>3, <1>4, <1>5 DEF Installs

\* A command is one or the other, and has the file or the provider it is at, after each
\* step of an init's first half.
LEMMA BindStages ==
  ASSUME StagesOK, TablesOK, CallersOK, PlanOK, BindStep
  PROVE  StagesOK'
<1>1. pc \in Binds /\ AnInit
  <2>1. pc \in Binds
    BY DEF BindStep, Place, MakeDir, Ignore, Truncate, Fill, Resolve, Accepted, Rejected, At, Binds
  <2>2. QED
    BY <2>1 DEF StagesOK, Binds, Either, Gives, Takes
<1>2. ASSUME pc' = "idle", cmd' = NoCmd
      PROVE  StagesOK'
  BY <1>2 DEF StagesOK, Gives, Takes, Either
<1>3. ASSUME pc' \in Binds \cup {"provide"}, AnInit'
      PROVE  StagesOK'
  BY <1>3 DEF StagesOK, Gives, Takes, Either, Binds
<1>4. CASE Place
  <2>1. CASE EndCmd
    BY <1>2, <2>1 DEF EndCmd
  <2>2. CASE ~EndCmd
    <3>1. PICK new \in BOOLEAN : cmd' = [cmd EXCEPT !.fresh = new]
      BY <1>4, <2>2 DEF Place
    <3>2. AnInit'
      BY <1>1, <3>1 DEF AnInit
    <3>3. pc' \in Binds \cup {"provide"}
      BY <1>4, <2>2 DEF Place, Binds
    <3>4. QED
      BY <1>3, <3>2, <3>3
  <2>3. QED
    BY <2>1, <2>2
<1>5. CASE MakeDir \/ Ignore \/ Truncate \/ Fill
  <2>1. EndCmd \/ (cmd' = cmd /\ pc' \in Binds \cup {"provide"})
    BY <1>5 DEF MakeDir, Ignore, Truncate, Fill, At, Binds
  <2>2. QED
    BY <1>1, <1>2, <1>3, <2>1 DEF EndCmd, AnInit
<1>6. CASE Resolve
  <2> DEFINE d == IF cmd.mode = "server" THEN "server" ELSE ResolvePath(cmd.env)
  <2>1. PICK r \in Registrations :
          cmd' = [cmd EXCEPT !.resolved = d, !.req = r] /\ pc' = "bind" /\ pc = "resolve"
    BY <1>6 DEF Resolve
  <2>2. d \in Databases
    BY <1>1, <2>1 DEF PlanOK, Databases
  <2> HIDE DEF d
  <2>3. QED
    BY <1>1, <1>3, <2>1, <2>2 DEF AnInit, Binds
<1>7. CASE Accepted
  <2>1. cmd.req \in Registrations /\ req[cmd.req] # Free /\ req[cmd.req].pc = "done"
    BY <1>7 DEF Accepted, CallersOK
  <2>2. PICK b \in Boards : b = req[cmd.req].slug
    BY <2>1 DEF TablesOK, ReqOK
  <2>3. cmd' = [cmd EXCEPT !.slug = b, !.req = None]
    BY <1>7, <2>2 DEF Accepted
  <2>4. AnInit'
    BY <1>1, <2>3 DEF AnInit
  <2>5. QED
    BY <1>3, <1>7, <2>4 DEF Accepted, Binds
<1>8. CASE Rejected
  <2>1. CASE EndCmd
    BY <1>2, <2>1 DEF EndCmd
  <2>2. CASE ~EndCmd
    <3>1. PICK b \in Boards : cmd' = [cmd EXCEPT !.slug = b] /\ pc' = pc
      BY <1>8, <2>2 DEF Rejected
    <3>2. QED
      BY <1>1, <1>3, <3>1 DEF AnInit
  <2>3. QED
    BY <2>1, <2>2
<1>9. QED
  BY <1>4, <1>5, <1>6, <1>7, <1>8 DEF BindStep

\* The members of a sequence.
In(s) == {s[k] : k \in DOMAIN s}

\* The first is one of them, and there is none but it and those of the rest.
LEMMA FirstAndRest ==
  ASSUME NEW S, NEW s \in Seq(S), s # <<>>
  PROVE  /\ s[1] \in S /\ Tail(s) \in Seq(S)
         /\ In(s) = {s[1]} \cup In(Tail(s))
<1>1. Len(s) \in Nat /\ Len(s) >= 1 /\ 1 \in DOMAIN s /\ DOMAIN s = 1..Len(s)
  OBVIOUS
<1>2. s[1] \in S /\ Tail(s) \in Seq(S)
  BY <1>1
<1>3. /\ DOMAIN Tail(s) = 1..(Len(s) - 1)
      /\ \A k \in 1..(Len(s) - 1) : Tail(s)[k] = s[k + 1]
  BY <1>1
<1>4. ASSUME NEW k \in DOMAIN s
      PROVE  s[k] = s[1] \/ s[k] \in In(Tail(s))
  <2>1. CASE k = 1
    BY <2>1
  <2>2. CASE k # 1
    <3>1. k - 1 \in DOMAIN Tail(s) /\ Tail(s)[k - 1] = s[k]
      BY <1>1, <1>3, <2>2
    <3>2. QED
      BY <3>1 DEF In
  <2>3. QED
    BY <2>1, <2>2
<1>5. ASSUME NEW k \in DOMAIN Tail(s)
      PROVE  Tail(s)[k] \in In(s)
  <2>1. k + 1 \in DOMAIN s /\ Tail(s)[k] = s[k + 1]
    BY <1>1, <1>3
  <2>2. QED
    BY <2>1 DEF In
<1>6. QED
  BY <1>1, <1>2, <1>4, <1>5 DEF In

\* Hooks and rules are kept in files, each provider's hooks in some of its own.
LEMMA WhereItGoes ==
  ASSUME NEW p \in Providers
  PROVE  /\ Stripped(p) \in Seq(Jsons) /\ In(Stripped(p)) \subseteq Files
         /\ Settings(p) # None => Settings(p) \in In(Stripped(p))
         /\ Rules(p) # None => Rules(p) \in Files \ Jsons
<1>1. \A k \in DOMAIN Stripped(p) : Stripped(p)[k] \in Jsons
  BY DEF Jsons
<1>2. CASE p = "claude"
  <2>1. Stripped(p) = <<"settings", "settings-local">> /\ Settings(p) = "settings"
    BY <1>2 DEF Stripped, Settings
  <2>2. 1 \in DOMAIN Stripped(p) /\ Stripped(p)[1] = "settings"
    BY <2>1
  <2>3. Stripped(p) \in Seq(Jsons)
    BY <1>1, <2>1
  <2>4. QED
    BY <1>1, <2>1, <2>2, <2>3, RulesAreText DEF In, Files
<1>3. CASE p # "claude" /\ Settings(p) # None
  <2>1. Stripped(p) = <<Settings(p)>>
    BY <1>3 DEF Stripped
  <2>2. 1 \in DOMAIN Stripped(p) /\ Stripped(p)[1] = Settings(p)
    BY <2>1
  <2>3. Stripped(p) \in Seq(Jsons)
    BY <1>1, <2>1
  <2>4. QED
    BY <1>1, <2>1, <2>2, <2>3, RulesAreText DEF In, Files
<1>4. CASE p # "claude" /\ Settings(p) = None
  <2>1. Stripped(p) = <<>>
    BY <1>4 DEF Stripped
  <2>2. Stripped(p) \in Seq(Jsons)
    BY <1>1, <2>1
  <2>3. QED
    BY <1>1, <1>4, <2>1, <2>2, RulesAreText DEF In, Files
<1>5. QED
  BY <1>2, <1>3, <1>4

\* A command between its providers, or in the middle of one.
LEMMA AtProvider ==
  ASSUME StagesOK, pc \in Gives \cup Takes \cup (Either \ {"provide"}) \/ cmd.todo # <<>>,
         pc \in Gives \cup Takes \cup Either
  PROVE  /\ AnInit \/ AnUninstall
         /\ P \in Providers /\ Tail(cmd.todo) \in Seq(Providers)
         /\ In(cmd.todo) = {P} \cup In(Tail(cmd.todo))
<1>1. AnInit \/ AnUninstall
  BY DEF StagesOK, Gives, Takes, Either
<1>2. cmd.todo \in Seq(Providers) /\ cmd.todo # <<>>
  BY <1>1, TwoKinds DEF StagesOK
<1>3. QED
  BY <1>1, <1>2, FirstAndRest DEF P

\* What a step of the providers' half does to the command.
Onward ==
  /\ pc \in Gives \cup Takes \cup Either
  /\ UNCHANGED <<pinVars, boardVars, used>>
  /\ \/ pc' = "idle" /\ cmd' = NoCmd
     \/ /\ pc' \in Gives \cup Takes \cup Either
        /\ AnInit => AnInit' /\ \E t \in Seq(Providers) : cmd' = [cmd EXCEPT !.todo = t]
        /\ AnUninstall => AnUninstall'

\* A command goes on with its provider, goes on to the next, or ends.
LEMMA GoesOn ==
  ASSUME StagesOK, pc \in Gives \cup Takes \cup Either, cmd.todo # <<>>,
         UNCHANGED <<pinVars, boardVars, used>>,
         \/ /\ cmd' = cmd \/ (AnUninstall /\ AnUninstall' /\ cmd'.todo = cmd.todo)
            /\ pc' \in Either \cup (IF AnInit THEN Gives ELSE Takes)
         \/ NextProvider \/ (AnUninstall /\ AnUninstall' /\ pc' = "provide")
         \/ EndCmd
  PROVE  Onward /\ StagesOK'
<1>1. /\ AnInit \/ AnUninstall
      /\ P \in Providers /\ Tail(cmd.todo) \in Seq(Providers)
  BY AtProvider
<1>2. CASE /\ cmd' = cmd \/ (AnUninstall /\ AnUninstall' /\ cmd'.todo = cmd.todo)
           /\ pc' \in Either \cup (IF AnInit THEN Gives ELSE Takes)
  <2>1. AnInit => cmd' = cmd /\ AnInit'
    BY <1>2, TwoKinds DEF AnInit
  <2>2. AnUninstall => AnUninstall' /\ ~AnInit
    BY <1>2, TwoKinds DEF AnUninstall
  <2>3. AnInit => cmd.todo \in Seq(Providers) /\ cmd = [cmd EXCEPT !.todo = cmd.todo]
    BY DEF AnInit
  <2>4. StagesOK'
    BY <1>1, <1>2, <2>1, <2>2 DEF StagesOK
  <2>5. QED
    BY <1>1, <1>2, <2>1, <2>2, <2>3, <2>4 DEF Onward
<1>3. CASE NextProvider
  <2>1. PICK t \in Seq(Providers) : cmd' = [cmd EXCEPT !.todo = t] /\ pc' = "provide"
    BY <1>1, <1>3 DEF NextProvider
  <2>2. (AnInit => AnInit') /\ (AnUninstall => AnUninstall')
    BY <2>1 DEF AnInit, AnUninstall
  <2>3. QED
    BY <1>1, <2>1, <2>2 DEF Onward, StagesOK, Gives, Takes, Either
<1>4. CASE AnUninstall /\ AnUninstall' /\ pc' = "provide"
  BY <1>4, TwoKinds DEF Onward, StagesOK, Gives, Takes, Either
<1>5. CASE EndCmd
  BY <1>5 DEF EndCmd, Onward, StagesOK, Gives, Takes, Either
<1>6. QED
  BY <1>2, <1>3, <1>4, <1>5

\* So does a step on a file, of whichever command.
LEMMA FilesGoOn ==
  ASSUME StagesOK, FileStep
  PROVE  Onward /\ StagesOK'
<1>1. pc \in Either \ {"provide"} /\ cmd.todo # <<>>
  BY DEF FileStep, Save, Write, RulesBackUp, RulesWrite, At, Either, StagesOK
<1>2. UNCHANGED <<pinVars, boardVars, used>>
  BY DEF FileStep, Save, Write, RulesBackUp, RulesWrite, Keep
<1>3. AfterHooks \in IF AnInit THEN Gives ELSE Takes
  BY <1>1, TwoKinds DEF StagesOK, AfterHooks, Gives, Takes, Either
<1>4. (cmd' = cmd /\ pc' \in Either \cup {AfterHooks}) \/ NextProvider
  BY <1>1 DEF FileStep, Save, Write, RulesBackUp, RulesWrite, At, Keep, Either
<1>5. QED
  BY <1>1, <1>2, <1>3, <1>4, GoesOn

\* A step of an init's.
LEMMA InstallGoesOn ==
  ASSUME StagesOK, InstallStep
  PROVE  Onward /\ StagesOK' /\ AnInit
<1>1. pc \in Gives \cup {"provide"} /\ cmd.todo # <<>> /\ (pc = "provide" => Installs)
  BY DEF InstallStep, InstallSkill, Stamp, InstallHooks, InstallPlugin, upsertAwarenessBlock,
         InstallRule, Ready, At, StagesOK, Gives, Installs
<1>2. AnInit
  BY <1>1, TwoKinds DEF StagesOK, Gives, Takes, Either
<1>3. UNCHANGED <<pinVars, boardVars, used>>
  BY DEF InstallStep, InstallSkill, Stamp, InstallHooks, InstallPlugin, upsertAwarenessBlock,
         InstallRule, Keep
<1>4. (cmd' = cmd /\ pc' \in Either \cup Gives) \/ NextProvider \/ EndCmd
  BY DEF InstallStep, InstallSkill, Stamp, InstallHooks, InstallPlugin, upsertAwarenessBlock,
         InstallRule, Open, At, Keep, Either, Gives
<1>5. pc \in Gives \cup Takes \cup Either
  BY <1>1 DEF Either
<1>6. QED
  BY <1>1, <1>2, <1>3, <1>4, <1>5, GoesOn

\* A step of an uninstall's, wherever it fails.
LEMMA UninstallGoesOn ==
  ASSUME StagesOK, UninstallStep
  PROVE  Onward /\ StagesOK' /\ AnUninstall
<1>1. /\ pc \in Takes \cup Either /\ cmd.todo # <<>>
      /\ pc \notin Takes => cmd.op = "uninstall"
  BY DEF UninstallStep, Uninstall, removeXfaHooks, RemovePlugin, RemoveSkill, removeAwarenessBlock,
         RemoveRule, PartFails, Ready, At, StagesOK, Takes, Either
<1>2. AnUninstall
  <2>1. Installs <=> cmd.op = "init"
    BY DEF Installs
  <2>2. QED
    BY <1>1, <2>1, TwoKinds DEF StagesOK, Gives, Takes, Either, Binds
<1>3. UNCHANGED <<pinVars, boardVars, used>>
  BY DEF UninstallStep, Uninstall, removeXfaHooks, RemovePlugin, RemoveSkill, removeAwarenessBlock,
         RemoveRule, PartFails, Keep
<1>4. P \in Providers /\ Tail(cmd.todo) \in Seq(Providers)
  BY <1>1, AtProvider
<1>5. CASE Uninstall
  <2>1. PICK s \in Seq(Jsons) : cmd' = [cmd EXCEPT !.strip = s] /\ pc' = "strip"
    BY <1>4, <1>5, WhereItGoes DEF Uninstall
  <2>2. AnUninstall' /\ cmd'.todo = cmd.todo
    BY <1>2, <2>1 DEF AnUninstall
  <2>3. QED
    BY <1>1, <1>2, <1>3, <2>1, <2>2, TwoKinds, GoesOn DEF Takes
<1>6. CASE removeXfaHooks
  <2>1. cmd.strip \in Seq(Jsons) /\ cmd.strip # <<>> /\ cmd.failed \in BOOLEAN
    BY <1>2, <1>6 DEF AnUninstall, removeXfaHooks
  <2>2. PICK s \in Seq(Jsons), b \in BOOLEAN : cmd' = [cmd EXCEPT !.strip = s, !.failed = b]
    BY <1>6, <2>1, FirstAndRest DEF removeXfaHooks
  <2>3. AnUninstall' /\ cmd'.todo = cmd.todo
    BY <1>2, <2>2 DEF AnUninstall
  <2>4. pc' \in {"strip", "save"}
    BY <1>6 DEF removeXfaHooks, Open
  <2>5. QED
    BY <1>1, <1>2, <1>3, <2>3, <2>4, TwoKinds, GoesOn DEF Takes, Either
<1>7. CASE RemovePlugin \/ RemoveSkill
  <2>1. PICK b \in BOOLEAN : cmd' = cmd \/ cmd' = [cmd EXCEPT !.failed = b]
    <3>1. cmd.failed \in BOOLEAN
      BY <1>2 DEF AnUninstall
    <3>2. CASE RemovePlugin
      BY <3>2 DEF RemovePlugin, Keep
    <3>3. CASE RemoveSkill
      BY <3>1, <3>3 DEF RemoveSkill
    <3>4. QED
      BY <1>7, <3>2, <3>3
  <2>2. AnUninstall' /\ cmd'.todo = cmd.todo
    BY <1>2, <2>1 DEF AnUninstall
  <2>3. pc' \in Takes
    BY <1>7 DEF RemovePlugin, RemoveSkill, At, Takes
  <2>4. QED
    BY <1>1, <1>2, <1>3, <2>2, <2>3, TwoKinds, GoesOn
<1>8. CASE removeAwarenessBlock \/ RemoveRule
  <2>1. NextProvider \/ (cmd' = cmd /\ pc' = "rules-bak")
    BY <1>8 DEF removeAwarenessBlock, RemoveRule, Open
  <2>2. pc \in Gives \cup Takes \cup Either /\ "rules-bak" \in Either
    BY <1>1 DEF Either
  <2>3. QED
    BY <1>1, <1>2, <1>3, <2>1, <2>2, GoesOn
<1>9. CASE PartFails
  <2>1. PICK t \in Seq(Providers) : cmd' = [cmd EXCEPT !.failed = TRUE] \/ cmd' = [cmd EXCEPT !.failed = TRUE, !.todo = t]
    BY <1>4, <1>9 DEF PartFails
  <2>2. AnUninstall'
    BY <1>2, <2>1 DEF AnUninstall
  <2>3. pc' = "provide" \/ (pc' \in Takes /\ cmd'.todo = cmd.todo)
    BY <1>2, <1>9 DEF PartFails, Takes, AnUninstall
  <2>4. QED
    BY <1>1, <1>2, <1>3, <2>2, <2>3, TwoKinds, GoesOn
<1>10. QED
  BY <1>5, <1>6, <1>7, <1>8, <1>9 DEF UninstallStep

\* A step that leaves databases and registrations alone.
LEMMA BoardsStay ==
  ASSUME TablesOK, Nested, AllSeen, UNCHANGED boardVars,
         marker' \in {None, "file", "server", "torn"}, xfaDir' \in BOOLEAN
  PROVE  TablesOK' /\ Nested' /\ AllSeen'
BY DEF TablesOK, Nested, AllSeen, SeenOK, boardVars

\* A command that ends, or has not yet begun, waits for none.
LEMMA NoneWaits ==
  ASSUME TablesOK, CallersOK, pc # "bind"
  PROVE  /\ cmd.req = None
         /\ \A r \in Registrations : req[r] # Free => req[r].pc \notin {"done", "refused"} /\ req[r].db = "server"
BY BindingAssumption DEF CallersOK

\* Where there is no command nothing is asked of one.
LEMMA IdleIsPlain ==
  ASSUME pc' = "idle", cmd' = NoCmd
  PROVE  StagesOK' /\ PlanOK' /\ BoundOK' /\ cmd'.req = None
<1>1. StagesOK'
  BY DEF StagesOK, Gives, Takes, Either
<1>2. ~AnInit'
  <2>1. "todo" \notin DOMAIN cmd'
    BY DEF NoCmd
  <2>2. QED
    BY <2>1 DEF AnInit
<1>3. QED
  BY <1>1, <1>2 DEF PlanOK, BoundOK, Settled, NoCmd

\* A step of the providers' half.
LEMMA OnwardStep ==
  ASSUME BindInv, Onward, StagesOK'
  PROVE  BindInv'
<1> USE DEF BindInv
<1>1. /\ UNCHANGED <<marker, xfaDir, ignored>> /\ UNCHANGED boardVars
      /\ pc # "bind" /\ pc' # "bind" /\ cmd.req = None
  BY DEF Onward, pinVars, Gives, Takes, Either, CallersOK
<1>2. TablesOK' /\ Nested' /\ AllSeen'
  BY <1>1, BoardsStay DEF TablesOK
<1>3. cmd'.req = None => CallersOK'
  BY <1>1, NoneWaits DEF CallersOK, boardVars
<1>4. CASE pc' = "idle" /\ cmd' = NoCmd
  BY <1>2, <1>3, <1>4, IdleIsPlain
<1>5. CASE AnUninstall'
  <2>1. cmd'.req = None /\ ~AnInit'
    BY <1>5 DEF AnUninstall, AnInit
  <2>2. QED
    BY <1>2, <1>3, <2>1 DEF PlanOK, BoundOK, Settled
<1>6. CASE AnInit' /\ AnInit /\ pc' \in Gives \cup Takes \cup Either
  <2>1. PICK t : cmd' = [cmd EXCEPT !.todo = t]
    BY <1>6 DEF Onward, Gives, Takes, Either
  <2>2. /\ cmd'.req = cmd.req /\ cmd'.fresh = cmd.fresh /\ cmd'.mode = cmd.mode /\ cmd'.env = cmd.env
        /\ cmd'.resolved = cmd.resolved /\ cmd'.slug = cmd.slug
    BY <1>6, <2>1 DEF AnInit
  <2>3. pc \in Gives \cup Either /\ pc' \in Gives \cup Either
    BY <1>6, TwoKinds DEF Onward, StagesOK, AnInit, AnUninstall, Gives, Takes, Either, Binds
  <2>4. ResolvePath(cmd.env)' = ResolvePath(cmd.env)
    BY <1>1, <2>2 DEF ResolvePath
  <2>5. Settled
    BY <1>6, <2>3 DEF Settled
  <2>6. PlanOK' /\ BoundOK'
    BY <1>1, <1>6, <2>2, <2>3, <2>4, <2>5 DEF PlanOK, BoundOK, Settled, boardVars, Gives, Either
  <2>7. QED
    BY <1>1, <1>2, <1>3, <2>2, <2>6
<1>7. QED
  BY <1>4, <1>5, <1>6, TwoKinds DEF Onward, StagesOK, Gives, Takes, Either

\* A command that starts, ends or is stopped.
LEMMA StartStep ==
  ASSUME BindInv, (\E i \in Inits, v \in Versions : RunInit(i, v)) \/ \E u \in Uninstalls : RunUninstall(u)
  PROVE  BindInv'
<1> USE DEF BindInv
<1>1. UNCHANGED pinVars /\ UNCHANGED boardVars /\ pc = "idle"
  BY DEF RunInit, RunUninstall, StartInit, At
<1>2. TablesOK' /\ Nested' /\ AllSeen'
  BY <1>1, BoardsStay DEF TablesOK, pinVars
<1>3. cmd'.req = None /\ pc' # "bind" => CallersOK'
  BY <1>1, NoneWaits DEF CallersOK, boardVars
<1>4. ASSUME NEW i \in Inits, NEW v \in Versions, RunInit(i, v)
      PROVE  BindInv'
  <2>1. /\ i.mode \in {"plain", "db", "global", "server"} /\ i.env \in {None, "file", "server"}
        /\ i.slug \in Boards \cup {None} /\ i.providers \in Seq(Providers)
    BY InstallAssumption
  <2>2. /\ cmd' = [op |-> "init", mode |-> i.mode, env |-> i.env, slug |-> i.slug, todo |-> i.providers,
                   asked |-> i.providers, v |-> v, resolved |-> None, req |-> None, fresh |-> FALSE]
        /\ pc' = "place"
    BY <1>4 DEF RunInit, StartInit, At
  <2>3. AnInit'
    BY <2>1, <2>2 DEF AnInit
  <2>4. StagesOK' /\ ~Settled'
    BY <2>2, <2>3 DEF StagesOK, Settled, Binds, Gives, Takes, Either
  <2>5. PlanOK' /\ BoundOK'
    BY <2>2, <2>4 DEF PlanOK, BoundOK, Gives, Either
  <2>6. QED
    BY <1>2, <1>3, <2>2, <2>4, <2>5
<1>5. ASSUME NEW u \in Uninstalls, RunUninstall(u)
      PROVE  BindInv'
  <2>1. u.providers \in Seq(Providers) /\ u.all \in BOOLEAN
    BY InstallAssumption
  <2>2. /\ cmd' = [op |-> "uninstall", todo |-> u.providers, asked |-> u.providers, all |-> u.all,
                   strip |-> <<>>, failed |-> FALSE, req |-> None]
        /\ pc' = "provide"
    BY <1>5 DEF RunUninstall, At
  <2>3. <<>> \in Seq(Jsons)
    OBVIOUS
  <2>4. AnUninstall' /\ ~AnInit'
    BY <2>1, <2>2, <2>3 DEF AnUninstall, AnInit
  <2>5. StagesOK' /\ PlanOK' /\ BoundOK'
    BY <2>2, <2>4 DEF StagesOK, PlanOK, BoundOK, Settled, Gives, Takes, Either
  <2>6. QED
    BY <1>2, <1>3, <2>2, <2>5
<1>6. QED
  BY <1>4, <1>5

\* A command that ends well leaves at most the marker changed.
LEMMA CompleteStep ==
  ASSUME BindInv, Complete
  PROVE  BindInv'
<1> USE DEF BindInv
<1>1. UNCHANGED boardVars /\ xfaDir' = xfaDir /\ marker' \in {None, marker} /\ pc = "provide" /\ EndCmd
  BY DEF Complete
<1>2. StagesOK' /\ PlanOK' /\ BoundOK' /\ cmd'.req = None
  BY <1>1, IdleIsPlain DEF EndCmd
<1>3. TablesOK' /\ Nested' /\ AllSeen'
  BY <1>1, BoardsStay DEF TablesOK
<1>4. CallersOK'
  BY <1>1, <1>2, NoneWaits DEF CallersOK, boardVars, EndCmd
<1>5. QED
  BY <1>2, <1>3, <1>4

\* One registration changes, and what it has seen.
OneChanges(r, q, news) ==
  req' = [req EXCEPT ![r] = q] /\ unseen' = [unseen EXCEPT ![r] = news] /\ UNCHANGED <<bound, crossed>>

\* Nothing is disturbed if it changes as it may.
LEMMA OneStep ==
  ASSUME TablesOK, Nested, AllSeen, NEW r \in Registrations, NEW q, NEW news \in SUBSET Dirs,
         OneChanges(r, q, news), ReqOK(q), SeenOK(q, news),
         boards' \in [Databases -> SUBSET Boards],
         marker' \in {None, "file", "server", "torn"}, xfaDir' \in BOOLEAN
  PROVE  /\ TablesOK' /\ Nested' /\ AllSeen'
         /\ req'[r] = q /\ \A p \in Registrations \ {r} : req'[p] = req[p]
<1>1. /\ req' = [req EXCEPT ![r] = q] /\ unseen' = [unseen EXCEPT ![r] = news]
      /\ bound' = bound /\ crossed' = crossed
  BY DEF OneChanges
<1>2. /\ req'[r] = q /\ \A p \in Registrations \ {r} : req'[p] = req[p]
      /\ unseen'[r] = news /\ \A p \in Registrations \ {r} : unseen'[p] = unseen[p]
  BY <1>1 DEF TablesOK
<1>3. TablesOK'
  <2>1. req' = [p \in Registrations |-> req'[p]]
    BY <1>1 DEF TablesOK
  <2>2. \A p \in Registrations : ReqOK(req'[p])
    BY <1>2 DEF TablesOK
  <2>3. QED
    BY <1>1, <2>1, <2>2 DEF TablesOK, ReqOK
<1>4. ASSUME NEW p \in Registrations
      PROVE  SeenOK(req[p], unseen[p])'
  <2>1. SeenOK(req'[p], unseen'[p])
    BY <1>2 DEF AllSeen
  <2>2. QED
    BY <1>1, <2>1 DEF SeenOK
<1>5. QED
  BY <1>1, <1>2, <1>3, <1>4 DEF Nested, AllSeen

\* Nothing is known of a registration that is free, refused or just asked for.
LEMMA NothingSeen ==
  ASSUME NEW q, NEW news, q = Free \/ q.pc \in {"look", "collide", "refused"} \/ (q.db # "server" /\ q.pc # "done")
  PROVE  SeenOK(q, news)
BY DEF SeenOK

\* Another machine asks.
LEMMA OtherStep ==
  ASSUME BindInv, NEW r \in Registrations, NEW dir \in Dirs, NEW slug \in Boards \cup {None},
         Other(r, dir, slug)
  PROVE  BindInv'
<1> USE DEF BindInv
<1> DEFINE q == [pc |-> "look", db |-> "server", dir |-> dir, slug |-> slug]
<1>1. /\ OneChanges(r, q, {}) /\ req[r].pc = "free"
      /\ UNCHANGED <<marker, xfaDir, ignored, boards, cmd, pc>>
  BY DEF Other, Ask, OneChanges, pinVars
<1>2. ReqOK(q) /\ q.pc = "look" /\ q.db = "server" /\ q # Free
  BY DEF ReqOK, Asking, Databases, Free
<1>3. SeenOK(q, {})
  BY <1>2, NothingSeen
<1> HIDE DEF q
<1>4. /\ TablesOK' /\ Nested' /\ AllSeen'
      /\ req'[r] = q /\ \A p \in Registrations \ {r} : req'[p] = req[p]
  BY <1>1, <1>2, <1>3, OneStep DEF TablesOK
<1>5. req[r] = Free
  BY <1>1 DEF TablesOK, ReqOK, Asking
<1>6. CallersOK'
  BY <1>1, <1>2, <1>4, <1>5 DEF CallersOK
<1>7. StagesOK' /\ PlanOK' /\ BoundOK'
  BY <1>1 DEF StagesOK, PlanOK, BoundOK, Settled, AnInit, AnUninstall, ResolvePath, OneChanges
<1>8. QED
  BY <1>4, <1>6, <1>7

\* A command is stopped.
LEMMA StopStep ==
  ASSUME BindInv, Stop
  PROVE  BindInv'
<1> USE DEF BindInv
<1>1. /\ UNCHANGED <<marker, xfaDir, ignored, boards, bound, crossed>> /\ pc' = "idle" /\ cmd' = NoCmd
      /\ IF cmd.req # None /\ (~IsRemote(cmd.resolved) \/ req[cmd.req].pc \in {"done", "refused"})
         THEN Forget(cmd.req) ELSE UNCHANGED <<req, unseen>>
  BY DEF Stop, StopCmd, EndCmd, pinVars
<1>2. StagesOK' /\ PlanOK' /\ BoundOK' /\ cmd'.req = None
  BY <1>1, IdleIsPlain
<1>3. CASE UNCHANGED <<req, unseen>>
  <2>1. TablesOK' /\ Nested' /\ AllSeen'
    BY <1>1, <1>3, BoardsStay DEF TablesOK, boardVars
  <2>2. ASSUME NEW r \in Registrations, req[r] # Free, req[r].pc \in {"done", "refused"} \/ req[r].db # "server"
        PROVE  FALSE
    <3>1. cmd.req = r /\ pc = "bind" /\ req[r].db = cmd.resolved /\ r # None
      BY <2>2, BindingAssumption DEF CallersOK
    <3>2. Forget(r)
      BY <1>1, <2>2, <3>1 DEF IsRemote
    <3>3. req' = [req EXCEPT ![r] = Free]
      BY <3>2 DEF Forget
    <3>4. QED
      BY <1>3, <2>2, <3>3 DEF TablesOK
  <2>3. CallersOK'
    BY <1>1, <1>2, <1>3, <2>2 DEF CallersOK
  <2>4. QED
    BY <1>2, <2>1, <2>3
<1>4. CASE cmd.req # None /\ Forget(cmd.req)
  <2>1. PICK r : r = cmd.req
    OBVIOUS
  <2>2. r \in Registrations /\ pc = "bind"
    BY <1>4, <2>1 DEF CallersOK
  <2>3. OneChanges(r, Free, {})
    BY <1>1, <1>4, <2>1 DEF Forget, OneChanges
  <2>4. SeenOK(Free, {}) /\ ReqOK(Free)
    BY NothingSeen DEF ReqOK
  <2>5. /\ TablesOK' /\ Nested' /\ AllSeen'
        /\ req'[r] = Free /\ \A p \in Registrations \ {r} : req'[p] = req[p]
    BY <1>1, <2>2, <2>3, <2>4, OneStep DEF TablesOK
  <2>6. CallersOK'
    BY <1>1, <1>2, <2>1, <2>5 DEF CallersOK
  <2>7. QED
    BY <1>2, <2>5, <2>6
<1>5. QED
  BY <1>1, <1>3, <1>4

\* An init that pins its project, or makes it one of its own.
LEMMA PinStep ==
  ASSUME BindInv, Place \/ MakeDir \/ Ignore \/ Truncate \/ Fill, StagesOK'
  PROVE  BindInv'
<1> USE DEF BindInv
<1>1. pc \in Binds \ {"resolve", "bind"} /\ UNCHANGED boardVars
  BY DEF Place, MakeDir, Ignore, Truncate, Fill, At, Binds
<1>2. AnInit /\ pc # "bind" /\ cmd.req = None
  BY <1>1 DEF StagesOK, Binds, Either, Gives, Takes, CallersOK
<1>3. TablesOK' /\ Nested' /\ AllSeen'
  <2>1. marker' \in {None, "file", "server", "torn"} /\ xfaDir' \in BOOLEAN
    BY DEF TablesOK, Place, MakeDir, Ignore, Truncate, Fill, pinVars
  <2>2. QED
    BY <1>1, <2>1, BoardsStay
<1>4. cmd'.req = None /\ pc' # "bind" => CallersOK'
  BY <1>1, <1>2, NoneWaits DEF CallersOK, boardVars
<1>5. CASE EndCmd
  <2>1. PlanOK' /\ BoundOK' /\ cmd'.req = None /\ pc' # "bind"
    BY <1>5, IdleIsPlain DEF EndCmd
  <2>2. QED
    BY <1>3, <1>4, <2>1
<1>6. CASE Place /\ ~EndCmd
  <2> DEFINE creates == cmd.mode = "plain" /\ ~Pinned
  <2>1. /\ UNCHANGED <<marker, xfaDir, ignored>>
        /\ cmd' = [cmd EXCEPT !.fresh = creates] /\ pc = "place"
        /\ pc' = IF cmd.mode = "db" THEN "pin" ELSE IF creates THEN "mkdir" ELSE "resolve"
        /\ ~(CASE cmd.mode = "server" -> cmd.env \notin {None, "server"} \/ xfaDir
               [] cmd.mode = "db"     -> marker = "torn"
               [] cmd.mode = "global" -> ResolvePath(cmd.env) = "torn" \/ Pinned
               [] cmd.mode = "plain"  -> ResolvePath(cmd.env) = "torn")
    BY <1>6 DEF Place, pinVars
  <2>2. /\ cmd.mode \in {"plain", "db", "global", "server"} /\ cmd.env \in {None, "file", "server"}
        /\ cmd'.fresh = creates /\ cmd'.mode = cmd.mode /\ cmd'.env = cmd.env /\ cmd'.req = cmd.req
    BY <1>2, <2>1 DEF AnInit
  <2>3. /\ cmd.mode = "server" => cmd.env \in {None, "server"} /\ ~xfaDir
        /\ cmd.mode \in {"plain", "global"} => ResolvePath(cmd.env) # "torn"
    BY <2>1, <2>2
  <2>4. ResolvePath(cmd.env)' = ResolvePath(cmd.env)
    BY <2>1, <2>2 DEF ResolvePath
  <2>5. ResolvePath(cmd.env) \in Databases \cup {"torn"}
    BY <2>2, BindingAssumption DEF ResolvePath, TablesOK, Databases
  <2>6. creates => cmd.env = None /\ marker = None /\ Above = "global"
    <3>1. ASSUME creates
          PROVE  cmd.env = None /\ ResolvePath(cmd.env) = "global"
      BY <3>1 DEF Pinned
    <3>2. ASSUME creates, marker # None
          PROVE  FALSE
      <4>1. marker = "global"
        BY <3>1, <3>2 DEF ResolvePath
      <4>2. QED
        BY <3>2, <4>1 DEF TablesOK
    <3>3. ASSUME creates
          PROVE  Above = "global"
      BY <3>1, <3>2, <3>3 DEF ResolvePath
    <3>4. QED
      BY <3>1, <3>2, <3>3
  <2>7. PlanOK' /\ BoundOK'
    <3> HIDE DEF creates
    <3>1. ~Settled' /\ pc' \in {"pin", "mkdir", "resolve"} /\ (pc' = "pin" <=> cmd.mode = "db")
      BY <2>1, <2>2 DEF Settled, Either, Gives
    <3>2. creates => pc' = "mkdir" /\ cmd.mode = "plain"
      BY <2>1, <2>2 DEF creates
    <3>3. QED
      BY <2>1, <2>2, <2>3, <2>4, <2>5, <2>6, <3>1, <3>2 DEF PlanOK, BoundOK, Either, Gives
  <2>8. QED
    BY <1>2, <1>3, <1>4, <2>1, <2>2, <2>7
<1>7. CASE ~EndCmd /\ (MakeDir \/ Ignore \/ Truncate \/ Fill)
  <2>1. cmd' = cmd
    BY <1>7 DEF MakeDir, Ignore, Truncate, Fill
  <2>2. /\ cmd.mode \in {"plain", "db", "global", "server"} /\ cmd.env \in {None, "file", "server"}
    BY <1>2 DEF AnInit
  <2>3. CASE MakeDir
    <3>1. pc = "mkdir" /\ pc' = "ignore" /\ xfaDir' = TRUE /\ UNCHANGED <<marker, ignored, boardVars>>
      BY <2>3 DEF MakeDir, At
    <3>2. QED
      BY <1>2, <1>3, <1>4, <2>1, <2>2, <3>1 DEF PlanOK, BoundOK, Settled, Either, Gives
  <2>4. CASE Ignore
    <3>1. pc = "ignore" /\ pc' = "resolve" /\ ignored' = TRUE /\ UNCHANGED <<marker, xfaDir, boardVars>>
      BY <2>4 DEF Ignore, At
    <3>2. cmd.env = None /\ marker = None /\ cmd.mode = "plain" /\ Above = "global"
      BY <1>2, <3>1 DEF PlanOK
    <3>3. ResolvePath(cmd.env)' \in Databases
      BY <2>1, <3>1, <3>2, BindingAssumption DEF ResolvePath, Databases
    <3>4. QED
      BY <1>2, <1>3, <1>4, <2>1, <2>2, <3>1, <3>2, <3>3 DEF PlanOK, BoundOK, Settled, Either, Gives
  <2>5. CASE Truncate
    <3>1. pc = "pin" /\ pc' = "fill" /\ UNCHANGED <<xfaDir, ignored, boardVars>>
      BY <1>7, <2>5 DEF Truncate, At
    <3>2. cmd.mode \in {"db", "server"}
      BY <1>2, <3>1 DEF PlanOK
    <3>3. /\ Settled' <=> cmd.mode = "server"
          /\ Settled <=> cmd.mode = "server"
      BY <1>2, <2>1, <3>1 DEF Settled, Either, Gives, AnInit
    <3>4. PlanOK' /\ BoundOK'
      BY <1>2, <2>1, <3>1, <3>2, <3>3 DEF PlanOK, BoundOK, boardVars, Either, Gives
    <3>5. QED
      BY <1>2, <1>3, <1>4, <2>1, <3>1, <3>4
  <2>6. CASE Fill
    <3>1. /\ pc = "fill" /\ UNCHANGED <<xfaDir, ignored, boardVars>>
          /\ pc' = IF cmd.mode = "db" THEN "resolve" ELSE "provide"
          /\ marker' = IF cmd.mode = "db" THEN "file" ELSE "server"
      BY <2>6 DEF Fill, At
    <3>2. cmd.mode \in {"db", "server"}
      BY <1>2, <3>1 DEF PlanOK
    <3>3. /\ Settled' <=> cmd.mode = "server"
          /\ Settled <=> cmd.mode = "server"
      BY <1>2, <2>1, <3>1, <3>2 DEF Settled, Either, Gives, AnInit
    <3>4. cmd.mode = "db" => ResolvePath(cmd.env)' \in Databases
      BY <2>1, <2>2, <3>1, BindingAssumption DEF ResolvePath, Databases
    <3>5. PlanOK' /\ BoundOK'
      BY <1>2, <2>1, <3>1, <3>2, <3>3, <3>4 DEF PlanOK, BoundOK, boardVars, Either, Gives
    <3>6. QED
      BY <1>2, <1>3, <1>4, <2>1, <3>1, <3>5
  <2>7. QED
    BY <1>7, <2>3, <2>4, <2>5, <2>6
<1>8. QED
  BY <1>5, <1>6, <1>7

\* An init that asks for its registration, and hears of it.
LEMMA AskStep ==
  ASSUME BindInv, Resolve, StagesOK'
  PROVE  BindInv'
<1> USE DEF BindInv
<1> DEFINE d0 == IF cmd.mode = "server" THEN "server" ELSE ResolvePath(cmd.env)
           slug0 == IF cmd.slug = None /\ ~IsRemote(d0) THEN Derived[Project] ELSE cmd.slug
           stage0 == IF IsRemote(d0) THEN "look" ELSE IF cmd.slug = None THEN "collide" ELSE "ensure"
<1>1. PICK r \in Registrations :
        /\ Ask(r, stage0, d0, Project, slug0)
        /\ cmd' = [cmd EXCEPT !.resolved = d0, !.req = r]
        /\ pc = "resolve" /\ pc' = "bind"
        /\ UNCHANGED <<marker, xfaDir, ignored, boards, bound, crossed>>
  BY DEF Resolve, pinVars
<1>2. AnInit
  BY <1>1 DEF StagesOK, Binds, Either, Gives, Takes
<1>3. /\ d0 \in Databases /\ slug0 \in Boards \cup {None} /\ (stage0 # "look" => slug0 \in Boards)
      /\ stage0 \in {"look", "collide", "ensure"} /\ (d0 = "server" <=> stage0 = "look")
  BY <1>1, <1>2, BindingAssumption DEF PlanOK, AnInit, Databases, IsRemote
<1>4. PICK d, slug, stage : d = d0 /\ slug = slug0 /\ stage = stage0
  OBVIOUS
<1> DEFINE q == [pc |-> stage, db |-> d, dir |-> Project, slug |-> slug]
<1>5. OneChanges(r, q, {}) /\ req[r].pc = "free"
  BY <1>1, <1>4 DEF Ask, OneChanges
<1>6. cmd' = [cmd EXCEPT !.resolved = d, !.req = r]
  BY <1>1, <1>4
<1>7. d = IF cmd.mode = "server" THEN "server" ELSE ResolvePath(cmd.env)
  BY <1>4
<1> HIDE DEF d0, slug0, stage0
<1>8. /\ d \in Databases /\ slug \in Boards \cup {None} /\ (stage # "look" => slug \in Boards)
      /\ stage \in {"look", "collide", "ensure"} /\ (d = "server" <=> stage = "look")
  BY <1>3, <1>4
<1>9. /\ ReqOK(q) /\ q # Free /\ q.pc = stage /\ q.db = d /\ q.dir = Project
      /\ q.pc \notin {"done", "refused"}
  BY <1>8, BindingAssumption DEF ReqOK, Asking, Free
<1>10. SeenOK(q, {})
  BY <1>8, <1>9, NothingSeen
<1> HIDE DEF q
<1>11. /\ TablesOK' /\ Nested' /\ AllSeen'
       /\ req'[r] = q /\ \A p \in Registrations \ {r} : req'[p] = req[p]
  BY <1>1, <1>5, <1>9, <1>10, OneStep DEF TablesOK
<1>12. cmd'.resolved = d /\ cmd'.req = r /\ cmd'.mode = cmd.mode /\ cmd'.env = cmd.env /\ cmd'.fresh = cmd.fresh
  BY <1>2, <1>6 DEF AnInit
<1>13. CallersOK'
  <2>1. \A p \in Registrations : req[p] # Free => req[p].pc \notin {"done", "refused"} /\ req[p].db = "server"
    BY <1>1, NoneWaits
  <2>2. QED
    BY <1>1, <1>9, <1>11, <1>12, <2>1 DEF CallersOK
<1>14. PlanOK' /\ BoundOK'
  <2>1. ~Settled' /\ ResolvePath(cmd.env)' = ResolvePath(cmd.env)
    BY <1>1, <1>12 DEF Settled, ResolvePath, Either, Gives
  <2>2. QED
    BY <1>1, <1>2, <1>7, <1>8, <1>12, <2>1 DEF PlanOK, BoundOK, Either, Gives
<1>15. QED
  BY <1>11, <1>13, <1>14

\* It is told that it is bound, or that it is refused.
LEMMA HearStep ==
  ASSUME BindInv, Accepted \/ Rejected, StagesOK'
  PROVE  BindInv'
<1> USE DEF BindInv
<1>1. pc = "bind" /\ UNCHANGED <<marker, xfaDir, ignored, boards, bound, crossed>>
  BY DEF Accepted, Rejected, pinVars
<1>2. AnInit
  BY <1>1 DEF StagesOK, Binds, Either, Gives, Takes
<1>3. PICK r \in Registrations : r = cmd.req
  BY <1>1 DEF CallersOK
<1>4. req[r] # Free /\ req[r].dir = Project /\ req[r].db = cmd.resolved /\ ReqOK(req[r])
  BY <1>1, <1>3 DEF CallersOK, TablesOK
<1>5. ASSUME Forget(r)
      PROVE  /\ TablesOK' /\ Nested' /\ AllSeen'
             /\ cmd'.req = None /\ pc' # "bind" => CallersOK'
  <2>1. OneChanges(r, Free, {})
    BY <1>1, <1>5 DEF Forget, OneChanges
  <2>2. SeenOK(Free, {}) /\ ReqOK(Free)
    BY NothingSeen DEF ReqOK
  <2>3. /\ TablesOK' /\ Nested' /\ AllSeen'
        /\ req'[r] = Free /\ \A p \in Registrations \ {r} : req'[p] = req[p]
    BY <1>1, <2>1, <2>2, OneStep DEF TablesOK
  <2>4. cmd'.req = None /\ pc' # "bind" => CallersOK'
    BY <1>3, <2>3 DEF CallersOK
  <2>5. QED
    BY <2>3, <2>4
<1>6. CASE Accepted
  <2>1. PICK b : b = req[r].slug
    OBVIOUS
  <2>2. /\ req[r].pc = "done" /\ cmd' = [cmd EXCEPT !.slug = b, !.req = None] /\ Forget(r)
        /\ pc' = IF cmd.mode = "server" THEN "pin" ELSE "provide"
    BY <1>3, <1>6, <2>1 DEF Accepted
  <2>3. /\ cmd'.slug = b /\ cmd'.req = None /\ cmd'.resolved = cmd.resolved
        /\ cmd'.mode = cmd.mode /\ cmd'.env = cmd.env /\ cmd'.fresh = cmd.fresh
    BY <1>2, <2>2 DEF AnInit
  <2>4. bound[cmd.resolved][Project] # None /\ (bound[cmd.resolved][Project] = b \/ crossed)
    BY <1>4, <2>1, <2>2 DEF AllSeen, SeenOK
  <2>5. ResolvePath(cmd.env)' = ResolvePath(cmd.env)
    BY <1>1, <2>3 DEF ResolvePath
  <2>6. PlanOK' /\ BoundOK'
    BY <1>1, <1>2, <2>2, <2>3, <2>4, <2>5 DEF PlanOK, BoundOK, Settled, Either, Gives
  <2>7. QED
    BY <1>5, <2>2, <2>3, <2>6
<1>7. CASE Rejected /\ EndCmd
  <2>1. pc' = "idle" /\ cmd' = NoCmd
    BY <1>7 DEF EndCmd
  <2>2. PlanOK' /\ BoundOK' /\ cmd'.req = None
    BY <2>1, IdleIsPlain
  <2>3. Forget(r)
    BY <1>1, <1>3, <1>7, <2>1 DEF Rejected
  <2>4. QED
    BY <1>5, <2>1, <2>2, <2>3
<1>8. CASE Rejected /\ ~EndCmd
  <2>1. PICK b \in Boards :
          /\ cmd' = [cmd EXCEPT !.slug = b] /\ pc' = pc
          /\ req' = [req EXCEPT ![r].pc = "look", ![r].slug = b]
          /\ unseen' = [unseen EXCEPT ![r] = {}]
          /\ IsRemote(cmd.resolved)
    BY <1>3, <1>8 DEF Rejected
  <2>2. PICK q : q = [req[r] EXCEPT !.pc = "look", !.slug = b]
    OBVIOUS
  <2>3. OneChanges(r, q, {})
    BY <1>1, <2>1, <2>2 DEF OneChanges, TablesOK
  <2>4. ReqOK(q) /\ q # Free /\ q.pc = "look" /\ q.db = req[r].db /\ q.dir = Project
    BY <1>4, <2>2 DEF ReqOK, Asking, Free
  <2>5. SeenOK(q, {})
    BY <2>4, NothingSeen
  <2>6. /\ TablesOK' /\ Nested' /\ AllSeen'
        /\ req'[r] = q /\ \A p \in Registrations \ {r} : req'[p] = req[p]
    BY <1>1, <2>3, <2>4, <2>5, OneStep, Zenon DEF TablesOK
  <2>7. /\ cmd'.req = r /\ cmd'.resolved = cmd.resolved /\ AnInit'
        /\ cmd'.mode = cmd.mode /\ cmd'.env = cmd.env /\ cmd'.fresh = cmd.fresh
    BY <1>2, <1>3, <2>1 DEF AnInit
  <2>8. CallersOK'
    BY <1>1, <1>3, <1>4, <2>1, <2>4, <2>6, <2>7 DEF CallersOK
  <2>9. PlanOK' /\ BoundOK'
    <3>1. ~Settled' /\ ResolvePath(cmd.env)' = ResolvePath(cmd.env)
      BY <1>1, <2>1, <2>7 DEF Settled, ResolvePath, Either, Gives
    <3>2. QED
      BY <1>1, <1>2, <2>1, <2>7, <3>1 DEF PlanOK, BoundOK, Either, Gives
  <2>10. QED
    BY <2>6, <2>8, <2>9
<1>9. QED
  BY <1>6, <1>7, <1>8

\* A registration goes on, or is over; whoever waits for it is told.
LEMMA MoveStep ==
  ASSUME BindInv, NEW r \in Registrations, NEW q, NEW news \in SUBSET Dirs, req[r] # Free,
         UNCHANGED <<pinVars, cmd, pc>>, boards' \in [Databases -> SUBSET Boards],
         OneChanges(r, q, news), ReqOK(q), SeenOK(q, news),
         IF q = Free THEN cmd.req # r
         ELSE /\ q.dir = req[r].dir /\ q.db = req[r].db
              /\ q.pc \in {"done", "refused"} => cmd.req = r
  PROVE  BindInv'
<1> USE DEF BindInv
<1>1. UNCHANGED <<marker, xfaDir, ignored, cmd, pc, bound, crossed>>
  BY DEF pinVars, OneChanges
<1>2. /\ TablesOK' /\ Nested' /\ AllSeen'
      /\ req'[r] = q /\ \A p \in Registrations \ {r} : req'[p] = req[p]
  BY <1>1, OneStep DEF TablesOK
<1>3. CallersOK'
  <2>1. pc = "bind" => /\ cmd.req \in Registrations /\ req'[cmd.req] # Free
                       /\ req'[cmd.req].dir = Project /\ req'[cmd.req].db = cmd.resolved
    BY <1>2 DEF CallersOK
  <2>2. \A p \in Registrations :
          req'[p] # Free /\ (req'[p].pc \in {"done", "refused"} \/ req'[p].db # "server") => cmd.req = p
    BY <1>2 DEF CallersOK
  <2>3. QED
    BY <1>1, <2>1, <2>2 DEF CallersOK
<1>4. StagesOK' /\ PlanOK' /\ BoundOK'
  BY <1>1 DEF StagesOK, PlanOK, BoundOK, Settled, AnInit, AnUninstall, ResolvePath
<1>5. QED
  BY <1>2, <1>3, <1>4

\* A registration that is under way.
LEMMA UnderWay ==
  ASSUME TablesOK, NEW r \in Registrations, req[r].pc # "free"
  PROVE  /\ req[r] # Free
         /\ req[r] \in [pc : Asking \cup {"done", "refused"}, db : Databases, dir : Dirs, slug : Boards \cup {None}]
         /\ req[r].pc \notin {"look", "refused"} => req[r].slug \in Boards
         /\ req[r].db = "server" => req[r].pc # "collide"
BY DEF TablesOK, ReqOK, Free

\* It is refused, or fails.
LEMMA RefusedStep ==
  ASSUME BindInv, NEW r \in Registrations, req[r].pc # "free", End(r, "refused"),
         UNCHANGED <<pinVars, cmd, pc, boards, bound, crossed>>
  PROVE  BindInv'
<1> USE DEF BindInv
<1>1. /\ boards' \in [Databases -> SUBSET Boards] /\ UNCHANGED <<pinVars, cmd, pc>>
      /\ req[r] # Free /\ unseen[r] \in SUBSET Dirs
  BY UnderWay DEF TablesOK
<1>2. CASE cmd.req = r
  <2>1. PICK q, news : q = [req[r] EXCEPT !.pc = "refused"] /\ news = unseen[r]
    OBVIOUS
  <2>2. OneChanges(r, q, news)
    BY <1>2, <2>1 DEF OneChanges, End, Go, TablesOK
  <2>3. ReqOK(q) /\ q # Free /\ q.pc = "refused" /\ q.dir = req[r].dir /\ q.db = req[r].db
    BY <2>1, UnderWay DEF ReqOK, Free
  <2>4. SeenOK(q, news)
    BY <2>3, NothingSeen
  <2>5. QED
    BY <1>1, <1>2, <2>1, <2>2, <2>3, <2>4, MoveStep
<1>3. CASE cmd.req # r
  <2>1. OneChanges(r, Free, {})
    BY <1>3 DEF OneChanges, End, Forget
  <2>2. SeenOK(Free, {}) /\ ReqOK(Free)
    BY NothingSeen DEF ReqOK
  <2>3. QED
    BY <1>1, <1>3, <2>1, <2>2, MoveStep
<1>4. QED
  BY <1>2, <1>3

\* It goes on, knowing what it has seen.
LEMMA NextStep ==
  ASSUME BindInv, NEW r \in Registrations, req[r].pc # "free",
         NEW to \in Asking \ {"look", "collide"}, NEW b \in Boards,
         NEW missed \in SUBSET Dirs,
         req' = [req EXCEPT ![r].pc = to, ![r].slug = b] /\ Misses(r, missed),
         UNCHANGED <<pinVars, cmd, pc, bound, crossed>>, boards' \in [Databases -> SUBSET Boards],
         req[r].db = "server" =>
           LET t == bound["server"] IN
           /\ req[r].dir \notin unseen[r] \cup missed => t[req[r].dir] \in {None, b}
           /\ unseen[r] \cup missed = {} =>
                \/ crossed
                \/ /\ \A e \in Dirs : <<req[r].dir, e>> \in Inside => t[e] \in {None, b}
                   /\ to # "capture" => \A e \in Dirs : <<e, req[r].dir>> \in Inside => t[e] \in {None, b}
  PROVE  BindInv'
<1> USE DEF BindInv
<1>1. PICK q, news : q = [req[r] EXCEPT !.pc = to, !.slug = b] /\ news = unseen[r] \cup missed
  OBVIOUS
<1>2. OneChanges(r, q, news)
  BY <1>1 DEF OneChanges, Misses, TablesOK
<1>3. /\ ReqOK(q) /\ q # Free /\ q.pc = to /\ q.slug = b /\ q.dir = req[r].dir /\ q.db = req[r].db
      /\ req[r] # Free /\ news \in SUBSET Dirs
  BY <1>1, UnderWay DEF ReqOK, Free, Asking, TablesOK
<1>4. SeenOK(q, news)
  BY <1>1, <1>3 DEF SeenOK, Asking
<1>5. q.pc \notin {"done", "refused"}
  BY <1>3 DEF Asking
<1>6. QED
  BY <1>2, <1>3, <1>4, <1>5, MoveStep

\* It takes the board it asks for, that of the nearest binding, or the only one.  If the
\* nearest binding is another's it is refused, or has missed it.
LEMMA LookStep ==
  ASSUME BindInv, NEW r \in Registrations, Look(r), UNCHANGED <<pinVars, cmd, pc>>
  PROVE  BindInv'
<1> USE DEF BindInv
<1> DEFINE q == req[r]
           t == bound[q.db]
           near == Nearest(q.db, q.dir)
           theirs == {t[e] : e \in near}
           choice == IF q.slug # None THEN {q.slug}
                     ELSE IF near # {} THEN theirs
                     ELSE IF Cardinality(boards[q.db]) = 1 THEN boards[q.db]
                     ELSE {}
           another == near # {} /\ theirs # choice
<1>1. /\ q.pc = "look" /\ UNCHANGED <<boards, bound, crossed>>
      /\ \/ End(r, "refused")
         \/ /\ choice # {}
            /\ req' = [req EXCEPT ![r].pc = IF near = {q.dir} THEN "ensure" ELSE "capture",
                                  ![r].slug = CHOOSE b \in choice : TRUE]
            /\ Misses(r, IF another THEN near ELSE {})
  BY DEF Look
<1>2. q.db \in Databases /\ q.dir \in Dirs /\ q.slug \in Boards \cup {None} /\ q # Free
  BY <1>1, UnderWay
<1>3. CASE End(r, "refused")
  BY <1>1, <1>3, RefusedStep
<1>4. CASE ~End(r, "refused")
  <2>1. /\ near \subseteq OverIt(t, q.dir)
        /\ t[q.dir] # None => near = {q.dir}
        /\ \A e \in near, f \in OverIt(t, q.dir) : f = e \/ <<e, f>> \in Inside
        /\ OverIt(t, q.dir) # {} => near # {}
    BY <1>2, NearestIs
  <2>2. t \in [Dirs -> Boards \cup {None}] /\ boards[q.db] \subseteq Boards
    BY <1>2 DEF TablesOK
  <2>3. near \subseteq Dirs /\ \A e \in near : t[e] \in Boards
    BY <2>1, <2>2 DEF OverIt
  <2>4. choice \subseteq Boards
    BY <1>2, <2>2, <2>3
  <2>5. PICK b : b = CHOOSE x \in choice : TRUE
    OBVIOUS
  <2>6. b \in choice /\ b \in Boards
    BY <1>1, <1>4, <2>4, <2>5
  <2>7. PICK to, missed : /\ to = IF near = {q.dir} THEN "ensure" ELSE "capture"
                          /\ missed = IF another THEN near ELSE {}
    OBVIOUS
  <2>8. req' = [req EXCEPT ![r].pc = to, ![r].slug = b] /\ Misses(r, missed)
    BY <1>1, <1>4, <2>5, <2>7
  <2>9. ASSUME NEW e \in near, missed = {}
        PROVE  t[e] = b
    <3>1. t[e] \in choice
      BY <2>7, <2>9
    <3>2. \A x, y \in choice : x = y
      <4>1. \A x, y \in near : x = y
        BY <1>2, NearestIs
      <4>2. CASE q.slug # None
        BY <4>2
      <4>3. CASE q.slug = None
        BY <4>1, <4>3
      <4>4. QED
        BY <4>2, <4>3
    <3>3. QED
      BY <2>6, <3>1, <3>2
  <2>10. missed \in {{}, near} /\ missed \in SUBSET Dirs
    BY <2>3, <2>7
  <2> HIDE DEF choice, theirs, another
  <2>11. q.dir \notin missed => t[q.dir] \in {None, b}
    BY <2>1, <2>9, <2>10
  <2>12. ASSUME q.db = "server", missed = {}
         PROVE  \/ crossed
                \/ /\ \A e \in Dirs : <<q.dir, e>> \in Inside => t[e] \in {None, b}
                   /\ to # "capture" => \A e \in Dirs : <<e, q.dir>> \in Inside => t[e] \in {None, b}
    <3>1. ASSUME ~crossed, NEW e \in Dirs, <<q.dir, e>> \in Inside, t[e] # None
          PROVE  t[e] = b
      <4>1. e \in OverIt(t, q.dir)
        BY <3>1 DEF OverIt
      <4>2. PICK f \in near : TRUE
        BY <2>1, <4>1
      <4>3. e = f \/ <<f, e>> \in Inside
        BY <2>1, <4>1
      <4>4. t[f] = b /\ f \in Dirs /\ t[f] # None
        BY <2>1, <2>9, <2>12 DEF OverIt
      <4>5. QED
        BY <2>12, <3>1, <4>3, <4>4 DEF Nested
    <3>2. ASSUME ~crossed, to # "capture", NEW e \in Dirs, <<e, q.dir>> \in Inside, t[e] # None
          PROVE  t[e] = b
      <4>1. near = {q.dir}
        BY <2>7, <3>2
      <4>2. t[q.dir] = b /\ t[q.dir] # None
        BY <2>1, <2>9, <2>12, <4>1 DEF OverIt
      <4>3. QED
        BY <1>2, <2>12, <3>2, <4>2 DEF Nested
    <3>3. QED
      BY <3>1, <3>2
  <2>13. to \in Asking \ {"look", "collide"}
    BY <2>7 DEF Asking
  <2>14. boards' \in [Databases -> SUBSET Boards] /\ req[r].pc # "free"
    BY <1>1 DEF TablesOK
  <2>15. req[r].db = "server" =>
           LET s == bound["server"] IN
           /\ req[r].dir \notin unseen[r] \cup missed => s[req[r].dir] \in {None, b}
           /\ unseen[r] \cup missed = {} =>
                \/ crossed
                \/ /\ \A e \in Dirs : <<req[r].dir, e>> \in Inside => s[e] \in {None, b}
                   /\ to # "capture" => \A e \in Dirs : <<e, req[r].dir>> \in Inside => s[e] \in {None, b}
    <3>1. ASSUME unseen[r] \cup missed = {}
          PROVE  missed = {}
      BY <3>1
    <3>2. QED
      BY <2>11, <2>12, <3>1
  <2> HIDE DEF q, t, near
  <2>16. QED
    BY <1>1, <2>6, <2>8, <2>10, <2>13, <2>14, <2>15, NextStep
<1>5. QED
  BY <1>3, <1>4

\* It finds nothing in the way, or has missed it; or makes sure of its board.
LEMMA CheckStep ==
  ASSUME BindInv, NEW r \in Registrations, Capture(r) \/ Collide(r) \/ EnsureBoard(r),
         UNCHANGED <<pinVars, cmd, pc>>
  PROVE  BindInv'
<1> USE DEF BindInv
<1>1. req[r].pc \in {"capture", "collide", "ensure"} /\ UNCHANGED <<bound, crossed>>
  BY DEF Capture, Collide, EnsureBoard, Go
<1>2. /\ req[r] # Free /\ req[r].db \in Databases /\ req[r].dir \in Dirs
      /\ req[r].slug \in Boards /\ (req[r].db = "server" => req[r].pc # "collide")
      /\ "slug" \in DOMAIN req[r]
  BY <1>1, UnderWay
<1>3. boards' \in [Databases -> SUBSET Boards]
  BY <1>2 DEF Capture, Collide, EnsureBoard, TablesOK
<1>4. PICK b \in Boards : b = req[r].slug
  BY <1>2
<1>5. ASSUME NEW to, req' = [req EXCEPT ![r].pc = to]
      PROVE  req' = [req EXCEPT ![r].pc = to, ![r].slug = b]
  <2>1. req[r] \in [pc : Asking \cup {"done", "refused"}, db : Databases, dir : Dirs, slug : Boards \cup {None}]
    BY <1>1, UnderWay
  <2>2. [req[r] EXCEPT !.pc = to] = [req[r] EXCEPT !.pc = to, !.slug = b]
    BY <1>4, <2>1
  <2>3. QED
    BY <1>5, <2>2 DEF TablesOK
<1>6. CASE End(r, "refused") /\ UNCHANGED boards
  BY <1>1, <1>6, RefusedStep
<1>7. ASSUME NEW to \in {"ensure", "register"}, NEW missed \in SUBSET Dirs,
             req' = [req EXCEPT ![r].pc = to] /\ Misses(r, missed),
             req[r].pc = "capture" =>
               \A e \in Dirs : <<e, req[r].dir>> \in Inside => bound[req[r].db][e] = None \/ e \in missed
      PROVE  BindInv'
  <2>1. to \in Asking \ {"look", "collide"}
    BY DEF Asking
  <2>2. req' = [req EXCEPT ![r].pc = to, ![r].slug = b] /\ Misses(r, missed)
    BY <1>5, <1>7
  <2>3. SeenOK(req[r], unseen[r])
    BY DEF AllSeen
  <2>4. req[r].db = "server" =>
           LET t == bound["server"] IN
           /\ req[r].dir \notin unseen[r] \cup missed => t[req[r].dir] \in {None, b}
           /\ unseen[r] \cup missed = {} =>
                \/ crossed
                \/ /\ \A e \in Dirs : <<req[r].dir, e>> \in Inside => t[e] \in {None, b}
                   /\ to # "capture" => \A e \in Dirs : <<e, req[r].dir>> \in Inside => t[e] \in {None, b}
    <3>1. ASSUME unseen[r] \cup missed = {}
          PROVE  unseen[r] = {} /\ missed = {}
      BY <3>1
    <3>2. QED
      BY <1>1, <1>2, <1>4, <1>7, <2>3, <3>1 DEF SeenOK
  <2>5. QED
    BY <1>1, <1>3, <2>1, <2>2, <2>4, NextStep
<1>8. ASSUME NEW to, Go(r, to)
      PROVE  req' = [req EXCEPT ![r].pc = to] /\ Misses(r, {})
  BY <1>8 DEF Go, Misses, TablesOK
<1>9. CASE Capture(r)
  <2>1. PICK below : below = {e \in Dirs : <<e, req[r].dir>> \in Inside /\ bound[req[r].db][e] # None}
    OBVIOUS
  <2>2. \/ End(r, "refused") /\ UNCHANGED boards
        \/ req' = [req EXCEPT ![r].pc = "ensure"] /\ Misses(r, below)
    BY <1>9, <2>1 DEF Capture
  <2>3. QED
    BY <1>6, <1>7, <2>1, <2>2
<1>10. CASE Collide(r)
  <2>1. req[r].pc = "collide" /\ ((End(r, "refused") /\ UNCHANGED boards) \/ Go(r, "ensure"))
    BY <1>10 DEF Collide
  <2>2. QED
    BY <1>6, <1>7, <1>8, <2>1
<1>11. CASE EnsureBoard(r)
  <2>1. req[r].pc = "ensure" /\ Go(r, "register")
    BY <1>11 DEF EnsureBoard
  <2>2. QED
    BY <1>7, <1>8, <2>1
<1>12. QED
  BY <1>9, <1>10, <1>11

\* It binds its directory.  What is bound there stays, and what is bound above and below
\* is of its board, unless registrations have missed a binding.
LEMMA RegisterStays ==
  ASSUME BindInv, NEW r \in Registrations, RegisterProject(r)
  PROVE  /\ req[r].db \in Databases /\ req[r].dir \in Dirs /\ req[r].slug \in Boards
         /\ bound' = [bound EXCEPT ![req[r].db][req[r].dir] = req[r].slug]
         /\ req[r].db = "server" =>
              LET b == bound["server"] IN
              /\ b[req[r].dir] \in {None, req[r].slug} \/ req[r].dir \in unseen[r]
              /\ crossed' \/ /\ b[req[r].dir] \in {None, req[r].slug}
                             /\ \A e \in Dirs :
                                  <<req[r].dir, e>> \in Inside \/ <<e, req[r].dir>> \in Inside
                                    => b[e] \in {None, req[r].slug}
<1> USE DEF BindInv
<1>1. /\ req[r].pc = "register" /\ bound' = [bound EXCEPT ![req[r].db][req[r].dir] = req[r].slug]
      /\ crossed' = (crossed \/ unseen[r] # {})
  BY DEF RegisterProject
<1>2. req[r] # Free /\ req[r].db \in Databases /\ req[r].dir \in Dirs /\ req[r].slug \in Boards
  BY <1>1, UnderWay
<1>3. SeenOK(req[r], unseen[r])
  BY DEF AllSeen
<1>4. QED
  BY <1>1, <1>2, <1>3 DEF SeenOK

\* Having bound its directory it is done, and all others know of it.
LEMMA RegisterProjectStep ==
  ASSUME BindInv, NEW r \in Registrations, RegisterProject(r), UNCHANGED <<pinVars, cmd, pc>>
  PROVE  BindInv'
<1> USE DEF BindInv
<1> DEFINE q == req[r]
<1>1. /\ q.db \in Databases /\ q.dir \in Dirs /\ q.slug \in Boards
      /\ bound' = [bound EXCEPT ![q.db][q.dir] = q.slug]
      /\ q.db = "server" =>
           LET b == bound["server"] IN
           /\ b[q.dir] \in {None, q.slug} \/ q.dir \in unseen[r]
           /\ crossed' \/ /\ b[q.dir] \in {None, q.slug}
                          /\ \A e \in Dirs :
                               <<q.dir, e>> \in Inside \/ <<e, q.dir>> \in Inside => b[e] \in {None, q.slug}
  BY RegisterStays
<1>2. /\ q.pc = "register" /\ crossed' = (crossed \/ unseen[r] # {})
      /\ UNCHANGED <<marker, xfaDir, ignored, boards, cmd, pc>>
      /\ req' = [req EXCEPT ![r] = IF cmd.req = r THEN [q EXCEPT !.pc = "done"] ELSE Free]
      /\ unseen' = [p \in Registrations |-> CASE p = r -> {}
                                          [] p # r /\ req[p].db = q.db -> unseen[p] \cup {q.dir}
                                          [] OTHER -> unseen[p]]
  BY DEF RegisterProject, pinVars
<1>3. /\ q # Free
      /\ q \in [pc : Asking \cup {"done", "refused"}, db : Databases, dir : Dirs, slug : Boards \cup {None}]
  BY <1>2, UnderWay
<1>4. PICK new : new = IF cmd.req = r THEN [q EXCEPT !.pc = "done"] ELSE Free
  OBVIOUS
<1>5. /\ req'[r] = new /\ \A p \in Registrations \ {r} : req'[p] = req[p]
      /\ req' = [p \in Registrations |-> req'[p]]
  BY <1>2, <1>4 DEF TablesOK
<1>6. /\ ReqOK(new)
      /\ cmd.req = r => new # Free /\ new.pc = "done" /\ new.db = q.db /\ new.dir = q.dir /\ new.slug = q.slug
      /\ cmd.req # r => new = Free
  BY <1>1, <1>3, <1>4 DEF ReqOK, Free
<1>7. /\ unseen'[r] = {}
      /\ \A p \in Registrations \ {r} : unseen'[p] = IF req[p].db = q.db THEN unseen[p] \cup {q.dir} ELSE unseen[p]
      /\ unseen' \in [Registrations -> SUBSET Dirs]
  BY <1>1, <1>2 DEF TablesOK
<1>8. /\ bound'[q.db][q.dir] = q.slug /\ q.slug # None
      /\ \A d \in Databases, e \in Dirs : (d # q.db \/ e # q.dir) => bound'[d][e] = bound[d][e]
      /\ bound' \in [Databases -> [Dirs -> Boards \cup {None}]]
  BY <1>1, BindingAssumption DEF TablesOK
<1>9. crossed' \in BOOLEAN /\ (crossed => crossed')
  BY <1>2 DEF TablesOK
<1>10. TablesOK'
  <2>1. \A p \in Registrations : ReqOK(req'[p])
    BY <1>5, <1>6 DEF TablesOK
  <2>2. QED
    BY <1>2, <1>5, <1>7, <1>8, <1>9, <2>1 DEF TablesOK, ReqOK
<1>11. CallersOK'
  <2>1. pc = "bind" => /\ cmd.req \in Registrations /\ req'[cmd.req] # Free
                       /\ req'[cmd.req].dir = Project /\ req'[cmd.req].db = cmd.resolved
    BY <1>5, <1>6 DEF CallersOK
  <2>2. \A p \in Registrations :
          req'[p] # Free /\ (req'[p].pc \in {"done", "refused"} \/ req'[p].db # "server") => cmd.req = p
    BY <1>5, <1>6 DEF CallersOK
  <2>3. QED
    BY <1>2, <2>1, <2>2 DEF CallersOK
<1>12. cmd.req # r => q.db = "server"
  BY <1>3 DEF CallersOK
<1>13. BoundOK'
  <2>1. SUFFICES ASSUME Settled
                 PROVE  /\ bound'[cmd.resolved][Project] # None
                        /\ bound'[cmd.resolved][Project] = cmd.slug \/ crossed'
    BY <1>2 DEF BoundOK, Settled, AnInit
  <2>2. /\ bound[cmd.resolved][Project] # None /\ (bound[cmd.resolved][Project] = cmd.slug \/ crossed)
        /\ cmd.resolved \in Databases /\ pc # "bind" /\ Project \in Dirs
    BY <2>1, BindingAssumption DEF BoundOK, Settled, PlanOK, Either, Gives
  <2>3. q.db = "server"
    BY <1>12, <2>2, BindingAssumption DEF CallersOK
  <2>4. CASE cmd.resolved = q.db /\ Project = q.dir
    BY <1>1, <1>8, <1>9, <2>2, <2>3, <2>4
  <2>5. CASE cmd.resolved # q.db \/ Project # q.dir
    BY <1>8, <1>9, <2>2, <2>5
  <2>6. QED
    BY <2>4, <2>5
<1>14. Nested'
  <2>1. CASE crossed'
    BY <2>1 DEF Nested
  <2>2. CASE ~crossed' /\ q.db # "server"
    <3>1. bound'["server"] = bound["server"]
      BY <1>1, <2>2 DEF TablesOK
    <3>2. QED
      BY <1>9, <2>2, <3>1 DEF Nested
  <2>3. CASE ~crossed' /\ q.db = "server"
    <3> DEFINE b == bound["server"]
               t == bound'["server"]
    <3>1. ASSUME NEW d \in Dirs, NEW e \in Dirs, <<d, e>> \in Inside
          PROVE  t[d] = t[e] \/ t[d] = None \/ t[e] = None
      <4>1. d # e
        BY <3>1, BindingAssumption
      <4>2. CASE d = q.dir
        BY <1>1, <1>8, <2>3, <3>1, <4>1, <4>2, Zenon
      <4>3. CASE e = q.dir
        BY <1>1, <1>8, <2>3, <3>1, <4>1, <4>3, Zenon
      <4>4. CASE d # q.dir /\ e # q.dir
        <5>1. t[d] = b[d] /\ t[e] = b[e]
          BY <1>8, <2>3, <4>4 DEF Databases
        <5>2. QED
          BY <1>9, <2>3, <3>1, <5>1 DEF Nested
      <4>5. QED
        BY <4>2, <4>3, <4>4
    <3>2. QED
      BY <3>1 DEF Nested
  <2>4. QED
    BY <2>1, <2>2, <2>3
<1>15. AllSeen'
  <2>1. ASSUME NEW p \in Registrations
        PROVE  SeenOK(req[p], unseen[p])'
    <3>1. PICK x, s : x = req'[p] /\ s = unseen'[p]
      OBVIOUS
    <3>2. CASE p = r
      <4>1. x = new
        BY <1>5, <3>1, <3>2
      <4>2. QED
        BY <1>2, <1>6, <1>8, <3>1, <4>1 DEF SeenOK
    <3>3. CASE p # r
      <4>1. x = req[p] /\ s = IF x.db = q.db THEN unseen[p] \cup {q.dir} ELSE unseen[p]
        BY <1>5, <1>7, <3>1, <3>3
      <4>2. SeenOK(x, unseen[p]) /\ ReqOK(x) /\ SeenOK(x, unseen[p]) = SeenOK(req[p], unseen[p])
        BY <4>1 DEF AllSeen, TablesOK
      <4>3. ASSUME x # Free, x.pc = "done"
            PROVE  bound'[x.db][x.dir] # None /\ (bound'[x.db][x.dir] = x.slug \/ crossed')
        <5>1. /\ bound[x.db][x.dir] # None /\ (bound[x.db][x.dir] = x.slug \/ crossed)
              /\ x.db \in Databases /\ x.dir \in Dirs
          BY <4>2, <4>3 DEF SeenOK, ReqOK
        <5>2. cmd.req = p
          BY <4>1, <4>3 DEF CallersOK
        <5>3. q.db = "server"
          BY <1>12, <3>3, <5>2
        <5>4. CASE x.db = q.db /\ x.dir = q.dir
          BY <1>1, <1>8, <1>9, <5>1, <5>3, <5>4
        <5>5. CASE x.db # q.db \/ x.dir # q.dir
          BY <1>8, <1>9, <5>1, <5>5
        <5>6. QED
          BY <5>4, <5>5
      <4>4. ASSUME x # Free, x.db = "server", x.pc \in {"capture", "ensure", "register"}
            PROVE  LET t == bound'["server"] IN
                   /\ x.dir \notin s => t[x.dir] \in {None, x.slug}
                   /\ s = {} =>
                        \/ crossed'
                        \/ /\ \A e \in Dirs : <<x.dir, e>> \in Inside => t[e] \in {None, x.slug}
                           /\ x.pc # "capture" =>
                                \A e \in Dirs : <<e, x.dir>> \in Inside => t[e] \in {None, x.slug}
        <5>1. CASE q.db = "server"
          <6>1. s = unseen[p] \cup {q.dir}
            BY <4>1, <4>4, <5>1
          <6>2. x.dir \in Dirs
            BY <4>2, <4>4 DEF ReqOK
          <6>3. ASSUME x.dir \notin s
                PROVE  bound'["server"][x.dir] \in {None, x.slug}
            <7>1. bound'["server"][x.dir] = bound["server"][x.dir]
              BY <1>8, <6>1, <6>2, <6>3 DEF Databases
            <7>2. QED
              BY <4>2, <4>4, <6>1, <6>3, <7>1 DEF SeenOK
          <6>4. QED
            BY <6>1, <6>3
        <5>2. CASE q.db # "server"
          <6>1. bound'["server"] = bound["server"] /\ s = unseen[p]
            BY <1>1, <4>1, <4>4, <5>2 DEF TablesOK
          <6>2. QED
            BY <1>9, <4>2, <4>4, <6>1 DEF SeenOK
        <5>3. QED
          BY <5>1, <5>2
      <4>5. QED
        BY <3>1, <4>3, <4>4 DEF SeenOK
    <3>4. QED
      BY <3>2, <3>3
  <2>2. QED
    BY <2>1 DEF AllSeen
<1>16. StagesOK' /\ PlanOK'
  <2>1. (Settled' <=> Settled) /\ (AnInit' <=> AnInit) /\ (AnUninstall' <=> AnUninstall)
    BY <1>2 DEF Settled, AnInit, AnUninstall
  <2>2. ResolvePath(cmd.env)' = ResolvePath(cmd.env)
    BY <1>2 DEF ResolvePath
  <2>3. QED
    BY <1>2, <2>1, <2>2 DEF StagesOK, PlanOK
<1>17. QED
  BY <1>10, <1>11, <1>13, <1>14, <1>15, <1>16

\* A step of a registration.
LEMMA RegistersStep ==
  ASSUME BindInv, NEW r \in Registrations, RegisterStep(r)
  PROVE  BindInv'
<1>1. UNCHANGED <<pinVars, cmd, pc>>
  BY DEF RegisterStep
<1>2. CASE RegisterFails(r)
  <2>1. /\ req[r].pc # "free" /\ End(r, "refused") /\ UNCHANGED <<pinVars, cmd, pc, boards, bound, crossed>>
    BY <1>1, <1>2 DEF RegisterFails
  <2>2. QED
    BY <2>1, RefusedStep
<1>3. QED
  BY <1>1, <1>2, LookStep, CheckStep, RegisterProjectStep DEF RegisterStep

\* Every step keeps the invariant of pins and bindings.
LEMMA BindInvStep ==
  ASSUME BindInv, [InstallNext]_installVars
  PROVE  BindInv'
<1>1. ASSUME UNCHANGED bindingVars
      PROVE  BindInv'
  BY <1>1 DEF bindingVars, pinVars, boardVars, BindInv, StagesOK, TablesOK, CallersOK, PlanOK, BoundOK,
              Nested, AllSeen, Settled, AnInit, AnUninstall, ResolvePath, SeenOK
<1>2. CASE BindStep
  <2>1. StagesOK'
    BY <1>2, BindStages DEF BindInv
  <2>2. QED
    BY <1>2, <2>1, PinStep, AskStep, HearStep DEF BindStep
<1>3. CASE FileStep \/ InstallStep \/ UninstallStep
  <2>1. Onward /\ StagesOK'
    BY <1>3, FilesGoOn, InstallGoesOn, UninstallGoesOn DEF BindInv
  <2>2. QED
    BY <2>1, OnwardStep
<1>4. CASE Complete \/ Stop
  BY <1>4, CompleteStep, StopStep
<1>5. ASSUME NEW f \in Files, Garble(f) \/ \E n \in Notes : Edit(f, n)
      PROVE  BindInv'
  BY <1>1, <1>5 DEF Garble, Edit, Edited
<1>6. ASSUME NEW r \in Registrations, RegisterStep(r)
      PROVE  BindInv'
  BY <1>6, RegistersStep
<1>7. ASSUME NEW r \in Registrations, NEW dir \in Dirs, NEW slug \in Boards \cup {None}, Other(r, dir, slug)
      PROVE  BindInv'
  BY <1>7, OtherStep
<1>8. CASE (\E i \in Inits, v \in Versions : RunInit(i, v)) \/ \E u \in Uninstalls : RunUninstall(u)
  BY <1>8, StartStep
<1>9. UNCHANGED installVars => UNCHANGED bindingVars
  BY DEF installVars
<1>10. QED
  BY <1>1, <1>2, <1>3, <1>4, <1>5, <1>6, <1>7, <1>8, <1>9 DEF InstallNext

\* To begin with nothing is pinned, nobody asks, and only the global database has bindings.
LEMMA BindInvInit ==
  ASSUME InstallInit
  PROVE  BindInv
<1>1. /\ marker = None /\ xfaDir = FALSE
      /\ bound = [d \in Databases |-> [e \in Dirs |-> IF d = "global" THEN Elsewhere[e] ELSE None]]
      /\ boards = [d \in Databases |-> {bound[d][e] : e \in Dirs} \ {None}]
      /\ req = [r \in Registrations |-> Free] /\ unseen = [r \in Registrations |-> {}]
      /\ crossed = FALSE /\ cmd = NoCmd /\ pc = "idle"
  BY DEF InstallInit, BindingInit
<1>2. TablesOK
  <2>1. bound \in [Databases -> [Dirs -> Boards \cup {None}]]
    BY <1>1, BindingAssumption
  <2>2. \A d \in Databases : {bound[d][e] : e \in Dirs} \ {None} \subseteq Boards
    BY <2>1
  <2>3. QED
    BY <1>1, <2>1, <2>2 DEF TablesOK, ReqOK
<1>3. cmd.req = None /\ "todo" \notin DOMAIN cmd
  BY <1>1 DEF NoCmd
<1>4. ~AnInit
  BY <1>3 DEF AnInit
<1>5. Nested
  BY <1>1, BindingAssumption DEF Nested, Databases
<1>6. QED
  BY <1>1, <1>2, <1>3, <1>4, <1>5 DEF BindInv, StagesOK, CallersOK, PlanOK, BoundOK, Settled, AllSeen, SeenOK,
     Gives, Takes, Either

\* Registrations and commands, pins and bindings belong together, however registrations
\* interleave and wherever commands end.
THEOREM BindInvariance == InstallSpec => []BindInv
BY BindInvInit, BindInvStep, PTL DEF InstallSpec

\* Nothing but a registration binds a directory, and nothing but an init pins, or an
\* uninstall unpins, a project.
LEMMA WhoBinds ==
  ASSUME BindInv, [InstallNext]_installVars
  PROVE  /\ bound' = bound \/ \E r \in Registrations : RegisterProject(r)
         /\ marker' = marker \/ Truncate \/ Fill \/ (Complete /\ ~Installs)
<1>1. UNCHANGED bindingVars => bound' = bound /\ marker' = marker
  BY DEF bindingVars, pinVars, boardVars
<1>2. CASE BindStep
  BY <1>2 DEF BindStep, Place, MakeDir, Ignore, Truncate, Fill, Resolve, Accepted, Rejected, pinVars, boardVars
<1>3. CASE FileStep \/ InstallStep \/ UninstallStep
  <2>1. Onward
    BY <1>3, FilesGoOn, InstallGoesOn, UninstallGoesOn DEF BindInv
  <2>2. QED
    BY <2>1 DEF Onward, pinVars, boardVars
<1>4. CASE Complete
  BY <1>4 DEF Complete, boardVars
<1>5. CASE Stop
  BY <1>5 DEF Stop, StopCmd, pinVars
<1>6. ASSUME NEW f \in Files, Garble(f) \/ \E n \in Notes : Edit(f, n)
      PROVE  UNCHANGED bindingVars
  <2>1. PICK what : Edited(f, what)
    BY <1>6 DEF Garble, Edit
  <2>2. QED
    BY <2>1 DEF Edited
<1>7. ASSUME NEW r \in Registrations, RegisterStep(r)
      PROVE  marker' = marker /\ (bound' = bound \/ RegisterProject(r))
  BY <1>7 DEF RegisterStep, pinVars, Look, Capture, Collide, EnsureBoard, RegisterFails
<1>8. ASSUME NEW r \in Registrations, NEW dir \in Dirs, NEW slug \in Boards \cup {None}, Other(r, dir, slug)
      PROVE  bound' = bound /\ marker' = marker
  BY <1>8 DEF Other, pinVars
<1>9. ASSUME (\E i \in Inits, v \in Versions : RunInit(i, v)) \/ \E u \in Uninstalls : RunUninstall(u)
      PROVE  bound' = bound /\ marker' = marker
  BY <1>9 DEF RunInit, StartInit, RunUninstall, pinVars, boardVars
<1>10. UNCHANGED installVars => UNCHANGED bindingVars
  BY DEF installVars
<1>11. QED
  BY <1>1, <1>2, <1>3, <1>4, <1>5, <1>6, <1>7, <1>8, <1>9, <1>10 DEF InstallNext

\* A project is pinned to a server by a command that the server has bound it for.
LEMMA PinsAreBound ==
  ASSUME BindInv, [InstallNext]_installVars
  PROVE  PinsWhatIsBound
<1>1. SUFFICES ASSUME marker' # marker, cmd.op = "init", cmd.mode = "server"
               PROVE  bound["server"][Project] # None
  BY DEF PinsWhatIsBound
<1>2. Truncate \/ Fill
  BY <1>1, WhoBinds DEF Installs
<1>3. pc \in {"pin", "fill"}
  BY <1>2 DEF Truncate, Fill, At
<1>4. AnInit
  BY <1>3 DEF BindInv, StagesOK, Binds, Either, Gives, Takes
<1>5. Settled
  BY <1>1, <1>3, <1>4 DEF Settled
<1>6. QED
  BY <1>1, <1>4, <1>5 DEF BindInv, PlanOK, BoundOK

\* What a registration overwrites was not there when it looked.
LEMMA StandingBindings ==
  ASSUME BindInv, [InstallNext]_installVars
  PROVE  BindingsStand
<1>1. BindInv'
  BY BindInvStep
<1>2. ASSUME NEW e \in Dirs, bound["server"][e] # None, bound'["server"][e] # bound["server"][e]
      PROVE  \E r \in Registrations : req[r].dir = e /\ e \in unseen[r]
  <2>1. PICK r \in Registrations : RegisterProject(r)
    BY <1>2, WhoBinds
  <2>2. /\ req[r].db \in Databases /\ req[r].dir \in Dirs /\ req[r].slug \in Boards
        /\ bound' = [bound EXCEPT ![req[r].db][req[r].dir] = req[r].slug]
        /\ req[r].db = "server" =>
             bound["server"][req[r].dir] \in {None, req[r].slug} \/ req[r].dir \in unseen[r]
    BY <2>1, RegisterStays
  <2>3. bound \in [Databases -> [Dirs -> Boards \cup {None}]] /\ "server" \in Databases
    BY DEF BindInv, TablesOK, Databases
  <2>4. req[r].db = "server" /\ req[r].dir = e /\ bound'["server"][e] = req[r].slug
    BY <1>2, <2>2, <2>3
  <2>5. QED
    BY <1>2, <2>2, <2>4
<1>3. crossed' \/ \A p \in Inside : LET b == bound'["server"] IN
        b[p[1]] = b[p[2]] \/ b[p[1]] = None \/ b[p[2]] = None
  <2>1. SUFFICES ASSUME ~crossed', NEW p \in Inside
                 PROVE  LET b == bound'["server"] IN
                        b[p[1]] = b[p[2]] \/ b[p[1]] = None \/ b[p[2]] = None
    OBVIOUS
  <2>2. p[1] \in Dirs /\ p[2] \in Dirs /\ <<p[1], p[2]>> \in Inside
    BY BindingAssumption
  <2>3. Nested'
    BY <1>1 DEF BindInv
  <2>4. QED
    BY <2>1, <2>2, <2>3 DEF Nested
<1>4. QED
  BY <1>2, <1>3 DEF BindingsStand

\* The next command finds the database in which the project was bound to its board.
LEMMA FindsItsBoard ==
  ASSUME BindInv, Complete, Installs
  PROVE  /\ ResolvePath(cmd.env) = cmd.resolved
         /\ bound[cmd.resolved][Project] = cmd.slug \/ crossed
         /\ cmd.fresh => ignored
<1>1. pc = "provide" /\ cmd.op = "init"
  BY DEF Complete, Installs
<1>2. AnInit /\ Settled
  BY <1>1, TwoKinds DEF BindInv, StagesOK, Settled, Binds, Either, Gives, Takes, Installs
<1>3. cmd.mode = "server" => cmd.env \in {None, "server"} /\ marker = "server"
  BY <1>1, <1>2 DEF BindInv, PlanOK, Either
<1>4. cmd.mode = "server" => ResolvePath(cmd.env) = "server"
  BY <1>3, BindingAssumption DEF ResolvePath, Databases
<1>5. QED
  BY <1>1, <1>2, <1>4 DEF BindInv, PlanOK, BoundOK

-----------------------------------------------------------------------------
(***************************************************************************)
(* A command that ends well has done what it says: an init has given every *)
(* provider it was asked for its skill, hooks and rules, and an uninstall  *)
(* has taken them, whatever earlier commands left, and whatever the human  *)
(* did meanwhile.                                                          *)
(***************************************************************************)
OwnersOK ==
  /\ skill \in [{SkillDir(p) : p \in Providers} -> [text : Nat, stamp : Nat]]
  /\ owned \in [Providers -> Nat]
  /\ \A p \in Providers : owned[p] # 0 => Settings(p) = None \/ Rules(p) = None

\* No file has two blocks, nor will have.
Blocks(c) == Len(c.ours["block"])
BlocksOK ==
  /\ \A f \in Files : Blocks(Content(f)) <= 1
  /\ pc \in InFile /\ mem.out # None => Blocks(mem.out) <= 1

\* What an init gives a provider, and what uninstall leaves of it.
SkillDone(p) == LET s == skill[SkillDir(p)] IN s.stamp > cmd.v \/ (s.text = cmd.v /\ s.stamp = cmd.v)
HooksDone(p) ==
  LET f == Settings(p) IN
  IF f = None THEN owned[p] = cmd.v
  ELSE Content(f).sound => \A e \in Events(p) : Content(f).ours[e] = <<cmd.v>>
RulesDone(p) ==
  LET f == Rules(p) IN
  IF f = None THEN owned[p] = cmd.v ELSE Content(f).ours["block"] = <<cmd.v>>
Given(p) == SkillDone(p) /\ HooksDone(p) /\ RulesDone(p)

Stripd(p, f) == Content(f).sound => \A e \in Removed(p) : Content(f).ours[e] = <<>>
HooksGone(p) == \A f \in In(Stripped(p)) : Stripd(p, f)
PluginGone(p) == Settings(p) = None \/ Rules(p) # None => owned[p] = 0
SkillGone(p) == skill[SkillDir(p)] = [text |-> 0, stamp |-> 0]
RulesGone(p) == IF Rules(p) = None THEN owned[p] = 0 ELSE Content(Rules(p)).ours["block"] = <<>>
Taken(p) == HooksGone(p) /\ PluginGone(p) /\ SkillGone(p) /\ RulesGone(p)

\* How far an init has come with its providers.
GiveOK ==
  /\ (AnInit /\ pc \in Binds) => cmd.todo = cmd.asked
  /\ (AnInit /\ pc \in Either \cup Gives) =>
       /\ \A p \in Asked : p \in In(cmd.todo) \/ Given(p)
       /\ pc = "stamp" => skill[SkillDir(P)].text = cmd.v
       /\ pc \notin {"provide", "stamp"} => SkillDone(P)
       /\ pc \in {"rules", "rules-bak", "rules-write"} => HooksDone(P)
       /\ pc \in {"save", "write"} =>
            /\ mem.f = Settings(P) /\ mem.f # None /\ mem.out # None
            /\ \A e \in Events(P) : mem.out.ours[e] = <<cmd.v>>
       /\ pc \in {"rules-bak", "rules-write"} =>
            /\ mem.f = Rules(P) /\ mem.f # None /\ mem.out # None
            /\ mem.out.ours["block"] = <<cmd.v>>

\* How far an uninstall has, if nothing has failed.
TakeOK ==
  (AnUninstall /\ ~cmd.failed) =>
    /\ \A p \in Asked : p \in In(cmd.todo) \/ Taken(p)
    /\ pc \in {"strip", "save", "write"} =>
         /\ In(cmd.strip) \subseteq In(Stripped(P))
         /\ \A f \in In(Stripped(P)) :
              f \in In(cmd.strip) \/ Stripd(P, f) \/ (pc # "strip" /\ mem.f = f)
    /\ pc \in {"save", "write"} =>
         /\ mem.f \in In(Stripped(P)) /\ mem.out # None
         /\ \A e \in Removed(P) : mem.out.ours[e] = <<>>
    /\ pc \in {"unskill", "unrules", "rules-bak", "rules-write"} => HooksGone(P) /\ PluginGone(P)
    /\ pc \in {"unrules", "rules-bak", "rules-write"} => SkillGone(P)
    /\ pc \in {"rules-bak", "rules-write"} =>
         /\ mem.f = Rules(P) /\ mem.f # None
         /\ mem.out # None => mem.out.ours["block"] = <<>>

WordInv == OwnersOK /\ BlocksOK /\ GiveOK /\ TakeOK

-----------------------------------------------------------------------------
\* What becomes of xfa's entries, and of its block.
LEMMA MarksOf ==
  ASSUME NEW p
  PROVE  /\ Removed(p) \subseteq Marks \ {"block"} /\ "block" \in Marks
         /\ Settings(p) # None => Events(p) \subseteq Marks \ {"block"}
<1>1. Marks = {"SessionStart", "Stop", "SubagentStop", "UserPromptSubmit", "BeforeAgent", "xfa", "block"}
  BY DEF Marks, Removed
<1>2. Events("antigravity") = {"xfa"}
  BY DEF Events
<1>3. Removed(p) \subseteq Marks \ {"block"}
  BY <1>1, <1>2 DEF Removed
<1>4. ASSUME Settings(p) # None
      PROVE  Events(p) \subseteq Marks \ {"block"}
  <2>1. p \in {"claude", "codex", "gemini", "antigravity"}
    BY <1>4 DEF Settings
  <2>2. CASE p \in {"claude", "codex"}
    BY <1>1, <2>2 DEF Events
  <2>3. CASE p = "gemini"
    BY <1>1, <2>3 DEF Events
  <2>4. CASE p = "antigravity"
    BY <1>1, <1>2, <2>4
  <2>5. QED
    BY <2>1, <2>2, <2>3, <2>4
<1>5. QED
  BY <1>1, <1>3, <1>4

\* Entries are upserted and removed under the events that are named, and under no others.
LEMMA EntriesDo ==
  ASSUME NEW c \in FileState, NEW events \in SUBSET (Marks \ {"block"})
  PROVE  /\ \A v \in Versions : /\ \A e \in events : UpsertHookEntry(c, events, v).ours[e] = <<v>>
                               /\ UpsertHookEntry(c, events, v).ours["block"] = c.ours["block"]
         /\ \A e \in events : RemoveHookEntries(c, events).ours[e] = <<>>
         /\ RemoveHookEntries(c, events).ours["block"] = c.ours["block"]
<1>1. c.ours \in [Marks -> Seq(Versions)] /\ "ours" \in DOMAIN c /\ "block" \in Marks
  BY MarksOf DEF FileState
<1>2. ASSUME NEW o
      PROVE  [c EXCEPT !.ours = o].ours = o
  BY <1>1
<1>3. QED
  BY <1>1, <1>2 DEF UpsertHookEntry, RemoveHookEntries

\* A sequence of at most one has one if it has any.
LEMMA OneIfAny ==
  ASSUME NEW S, NEW s \in Seq(S), Len(s) <= 1
  PROVE  s = <<>> \/ Len(s) = 1
<1>1. Len(s) = 0 => s = <<>>
  OBVIOUS
<1>2. ASSUME NEW n \in Nat, n <= 1
      PROVE  n = 0 \/ n = 1
  BY <1>2
<1>3. Len(s) \in Nat
  OBVIOUS
<1>4. QED
  BY <1>1, <1>2, <1>3, Zenon

\* A sequence of one, replaced or taken.
LEMMA OnlyOne ==
  ASSUME NEW S, NEW s \in Seq(S), Len(s) = 1
  PROVE  /\ Tail(s) = <<>>
         /\ \A t \in Seq(S) : Len(t) = 1 /\ t[1] = s[1] => t = s
<1>1. PICK t : t = Tail(s)
  OBVIOUS
<1>2. t \in Seq(S) /\ Len(t) = 0
  BY <1>1
<1>3. t = <<>>
  BY <1>2
<1>4. ASSUME NEW u \in Seq(S), Len(u) = 1, u[1] = s[1]
      PROVE  u = s
  <2>1. s \in [1..1 -> S] /\ u \in [1..1 -> S]
    BY <1>4
  <2>2. QED
    BY <1>4, <2>1
<1>5. QED
  BY <1>1, <1>3, <1>4

\* The first of one, replaced, is all there is.
LEMMA OneReplaced ==
  ASSUME NEW S, NEW s \in Seq(S), Len(s) = 1, NEW v \in S
  PROVE  [s EXCEPT ![1] = v] = <<v>>
<1>1. PICK t, u : t = [s EXCEPT ![1] = v] /\ u = <<v>>
  OBVIOUS
<1>2. s \in [1..1 -> S]
  OBVIOUS
<1>3. t \in Seq(S)
  <2>1. PICK n \in Nat : n = 1
    OBVIOUS
  <2>2. t \in [1..n -> S]
    BY <1>1, <1>2, <2>1
  <2>3. QED
    BY <2>2
<1>4. DOMAIN t = DOMAIN s /\ t[1] = v
  BY <1>1
<1>5. DOMAIN s = 1..1 /\ DOMAIN t = 1..Len(t) /\ Len(t) \in Nat
  BY <1>3
<1>6. Len(t) = 1
  BY <1>4, <1>5
<1>7. u \in Seq(S) /\ Len(u) = 1 /\ u[1] = v
  BY <1>1
<1>8. t = u
  BY <1>3, <1>4, <1>6, <1>7, OnlyOne
<1>9. QED
  BY <1>1, <1>8

\* With at most one block in a file, merging leaves this one and removing leaves none.
LEMMA BlocksDo ==
  ASSUME NEW c \in FileState, Blocks(c) <= 1
  PROVE  /\ \A v \in Versions : mergeAwarenessBlock(c, v).ours["block"] = <<v>>
         /\ c.ours["block"] # <<>> =>
              withoutBlock(c) = None \/ withoutBlock(c).ours["block"] = <<>>
<1>1. c.ours \in [Marks -> Seq(Versions)] /\ "ours" \in DOMAIN c /\ "block" \in Marks
  BY MarksOf DEF FileState
<1>2. c.ours["block"] \in Seq(Versions) /\ Len(c.ours["block"]) \in Nat /\ Len(c.ours["block"]) <= 1
  BY <1>1 DEF Blocks
<1>3. ASSUME NEW s
      PROVE  [c EXCEPT !.ours["block"] = s].ours["block"] = s
  BY <1>1
<1>4. ASSUME NEW v \in Versions
      PROVE  mergeAwarenessBlock(c, v).ours["block"] = <<v>>
  <2>1. CASE c.ours["block"] = <<>>
    BY <1>3, <2>1 DEF mergeAwarenessBlock
  <2>2. CASE c.ours["block"] # <<>>
    <3>1. Len(c.ours["block"]) = 1
      BY <1>2, <2>2, OneIfAny
    <3>2. [c.ours["block"] EXCEPT ![1] = v] = <<v>>
      BY <1>2, <3>1, OneReplaced
    <3>3. QED
      BY <1>3, <2>2, <3>2 DEF mergeAwarenessBlock
  <2>3. QED
    BY <2>1, <2>2
<1>5. ASSUME c.ours["block"] # <<>>
      PROVE  withoutBlock(c) = None \/ withoutBlock(c).ours["block"] = <<>>
  <2>1. Len(c.ours["block"]) = 1
    BY <1>2, <1>5, OneIfAny
  <2>2. Tail(c.ours["block"]) = <<>>
    BY <1>2, <2>1, OnlyOne
  <2>3. PICK rest : rest = [c EXCEPT !.ours["block"] = Tail(c.ours["block"])]
    OBVIOUS
  <2>4. withoutBlock(c) = IF rest = Empty THEN None ELSE rest
    BY <2>3 DEF withoutBlock
  <2>5. rest.ours["block"] = <<>>
    BY <1>3, <2>2, <2>3
  <2>6. QED
    BY <2>4, <2>5
<1>6. QED
  BY <1>4, <1>5

\* Hooks of one provider are in no file of another's.
LEMMA FilesApart ==
  ASSUME NEW p, NEW q, NEW f \in In(Stripped(p)), f \in In(Stripped(q))
  PROVE  p = q
<1>1. ASSUME NEW r, NEW g \in In(Stripped(r))
      PROVE  \/ r = "claude" /\ g \in {"settings", "settings-local"}
             \/ r = "codex" /\ g = "codex-hooks"
             \/ r = "gemini" /\ g = "gemini-settings"
             \/ r = "antigravity" /\ g = "agents-hooks"
  <2>1. CASE r = "claude"
    BY <2>1 DEF Stripped, In
  <2>2. CASE r # "claude" /\ Settings(r) # None
    <3>1. Stripped(r) = <<Settings(r)>>
      BY <2>2 DEF Stripped
    <3>2. g = Settings(r)
      BY <3>1 DEF In
    <3>3. QED
      BY <2>2, <3>2 DEF Settings
  <2>3. CASE r # "claude" /\ Settings(r) = None
    BY <2>3 DEF Stripped, In
  <2>4. QED
    BY <2>1, <2>2, <2>3
<1>2. /\ \/ p = "claude" /\ f \in {"settings", "settings-local"}
         \/ p = "codex" /\ f = "codex-hooks"
         \/ p = "gemini" /\ f = "gemini-settings"
         \/ p = "antigravity" /\ f = "agents-hooks"
      /\ \/ q = "claude" /\ f \in {"settings", "settings-local"}
         \/ q = "codex" /\ f = "codex-hooks"
         \/ q = "gemini" /\ f = "gemini-settings"
         \/ q = "antigravity" /\ f = "agents-hooks"
  BY <1>1
<1>3. QED
  BY <1>2

\* Under xfa's marks a file stays as it is, and is no sounder.
SameOurs(f) == Content(f)'.ours = Content(f).ours /\ (Content(f)'.sound => Content(f).sound)

\* The file that is written changes, and no other.
LEMMA OneFile ==
  ASSUME FilesOK, NEW f \in Files, NEW c, file' = [file EXCEPT ![f] = c]
  PROVE  /\ Content(f)' = IF c = None THEN Empty ELSE c
         /\ \A g \in Files \ {f} : Content(g)' = Content(g)
<1>1. file'[f] = c /\ \A g \in Files \ {f} : file'[g] = file[g]
  BY DEF FilesOK
<1>2. QED
  BY <1>1 DEF Content

\* The human leaves xfa's marks alone.
LEMMA EditsSpareOurs ==
  ASSUME FilesOK, NEW f \in Files, Garble(f) \/ \E n \in Notes : Edit(f, n)
  PROVE  /\ UNCHANGED <<bindingVars, skill, owned, mem>>
         /\ \A g \in Files : SameOurs(g)
<1>1. UNCHANGED <<bindingVars, skill, owned, mem>>
  BY DEF Garble, Edit, Edited, ours
<1>2. PICK c \in FileState : /\ file' = [file EXCEPT ![f] = c]
                             /\ c.ours = Content(f).ours /\ (c.sound => Content(f).sound)
  <2>1. Content(f) \in FileState
    BY ContentOK
  <2>2. CASE Garble(f)
    <3>1. file' = [file EXCEPT ![f] = [file[f] EXCEPT !.sound = FALSE]] /\ Content(f) = file[f]
      BY <2>2 DEF Garble, Content, FilesOK
    <3>2. PICK c : c = [file[f] EXCEPT !.sound = FALSE]
      OBVIOUS
    <3>3. c \in FileState /\ c.ours = Content(f).ours /\ ~c.sound
      BY <2>1, <3>1, <3>2 DEF FileState
    <3>4. QED
      BY <3>1, <3>2, <3>3
  <2>3. ASSUME NEW n \in Notes, Edit(f, n)
        PROVE  \E c \in FileState : /\ file' = [file EXCEPT ![f] = c]
                                    /\ c.ours = Content(f).ours /\ (c.sound => Content(f).sound)
    <3>1. PICK c : c = [Content(f) EXCEPT !.notes = @ \cup {n}]
      OBVIOUS
    <3>2. c \in FileState /\ c.ours = Content(f).ours /\ c.sound = Content(f).sound
      BY <2>1, <3>1 DEF FileState
    <3>3. file' = [file EXCEPT ![f] = c]
      BY <2>3, <3>1 DEF Edit
    <3>4. QED
      BY <3>2, <3>3
  <2>4. QED
    BY <2>2, <2>3
<1>3. c # None
  BY NoneIsNoFile
<1>4. Content(f)' = c /\ \A g \in Files \ {f} : Content(g)' = Content(g)
  BY <1>2, <1>3, OneFile
<1>5. SameOurs(f)
  BY <1>2, <1>4 DEF SameOurs
<1>6. \A g \in Files \ {f} : SameOurs(g)
  BY <1>4 DEF SameOurs
<1>7. QED
  BY <1>1, <1>5, <1>6

\* What an agent owns alone changes with its skill, its plugin and its rule.
LEMMA OwnersStep ==
  ASSUME BindInv, OwnersOK, [InstallNext]_installVars
  PROVE  OwnersOK'
<1> USE DEF BindInv
<1>1. UNCHANGED <<skill, owned>> => OwnersOK'
  BY DEF OwnersOK
<1>2. ASSUME InstallSkill \/ Stamp \/ InstallPlugin \/ InstallRule
      PROVE  OwnersOK'
  <2>1. InstallStep
    BY <1>2 DEF InstallStep
  <2>2. AnInit /\ pc \in Gives \cup Either /\ (pc # "provide" \/ cmd.todo # <<>>)
    BY <1>2, <2>1, InstallGoesOn DEF InstallSkill, Stamp, InstallPlugin, InstallRule, Ready, At, Gives, Either
  <2>3. P \in Providers
    BY <2>2, AtProvider
  <2>4. cmd.v \in Nat
    BY <2>2, InstallAssumption DEF AnInit
  <2>5. skill' \in [{SkillDir(p) : p \in Providers} -> [text : Nat, stamp : Nat]]
    BY <1>2, <2>3, <2>4 DEF OwnersOK, InstallSkill, Stamp, InstallPlugin, InstallRule, Keep
  <2>6. /\ owned' \in [Providers -> Nat]
        /\ \A p \in Providers : owned'[p] # 0 => Settings(p) = None \/ Rules(p) = None
    BY <1>2, <2>3, <2>4 DEF OwnersOK, InstallSkill, Stamp, InstallPlugin, InstallRule, Keep
  <2>7. QED
    BY <2>5, <2>6 DEF OwnersOK
<1>3. ASSUME RemovePlugin \/ RemoveSkill \/ RemoveRule
      PROVE  OwnersOK'
  <2>1. pc \in Takes
    BY <1>3 DEF RemovePlugin, RemoveSkill, RemoveRule, At, Takes
  <2>2. P \in Providers
    BY <2>1, AtProvider
  <2>3. skill' \in [{SkillDir(p) : p \in Providers} -> [text : Nat, stamp : Nat]]
    <3>1. CASE UNCHANGED skill
      BY <3>1 DEF OwnersOK
    <3>2. CASE RemoveSkill
      <4>1. PICK gone : skill' = [skill EXCEPT ![SkillDir(P)] =
                                    [part \in {"text", "stamp"} |-> IF part \in gone THEN 0 ELSE @[part]]]
        BY <3>2 DEF RemoveSkill
      <4>2. PICK s : s = [part \in {"text", "stamp"} |-> IF part \in gone THEN 0 ELSE skill[SkillDir(P)][part]]
        OBVIOUS
      <4>3. skill[SkillDir(P)] \in [text : Nat, stamp : Nat]
        BY <2>2 DEF OwnersOK
      <4>4. s \in [text : Nat, stamp : Nat]
        BY <4>2, <4>3
      <4>5. skill' = [skill EXCEPT ![SkillDir(P)] = s]
        BY <4>1, <4>2
      <4>6. QED
        BY <4>4, <4>5 DEF OwnersOK
    <3>3. QED
      BY <1>3, <3>1, <3>2 DEF RemovePlugin, RemoveRule, Keep
  <2>4. /\ owned' \in [Providers -> Nat]
        /\ \A p \in Providers : owned'[p] # 0 => Settings(p) = None \/ Rules(p) = None
    BY <1>3, <2>2 DEF OwnersOK, RemovePlugin, RemoveSkill, RemoveRule, Keep
  <2>5. QED
    BY <2>3, <2>4 DEF OwnersOK
<1>4. UNCHANGED installVars => UNCHANGED <<skill, owned>>
  BY DEF installVars, ours
<1>5. ASSUME InstallNext
      PROVE  \/ UNCHANGED <<skill, owned>>
             \/ InstallSkill \/ Stamp \/ InstallPlugin \/ InstallRule
             \/ RemovePlugin \/ RemoveSkill \/ RemoveRule
  <2>1. FileStep => UNCHANGED <<skill, owned>>
    BY DEF FileStep, Save, Write, RulesBackUp, RulesWrite, Keep, ours
  <2>2. InstallHooks \/ upsertAwarenessBlock => UNCHANGED <<skill, owned>>
    BY DEF InstallHooks, upsertAwarenessBlock, Keep, ours
  <2>3. Uninstall \/ removeXfaHooks \/ removeAwarenessBlock \/ PartFails => UNCHANGED <<skill, owned>>
    BY DEF Uninstall, removeXfaHooks, removeAwarenessBlock, PartFails, Keep, ours
  <2>4. \A f \in Files : (Garble(f) \/ \E n \in Notes : Edit(f, n)) => UNCHANGED <<skill, owned>>
    BY DEF Garble, Edit, Edited, ours
  <2>5. QED
    BY <1>5, <2>1, <2>2, <2>3, <2>4 DEF InstallNext, InstallStep, UninstallStep, RunInit, RunUninstall, Complete, Stop, ours
<1>6. QED
  BY <1>1, <1>2, <1>3, <1>4, <1>5

\* No file gets a second block.
LEMMA BlocksStep ==
  ASSUME FilesInv, BindInv, BlocksOK, [InstallNext]_installVars
  PROVE  BlocksOK'
<1> USE DEF FilesInv, BindInv
<1>1. CASE UNCHANGED file /\ (pc' \notin InFile \/ UNCHANGED <<pc, mem>>)
  BY <1>1 DEF BlocksOK, Content
<1>2. ASSUME UNCHANGED file, NEW f \in Files, NEW out, NEW next, Open(f, out, next),
             out # None => Blocks(out) <= 1
      PROVE  BlocksOK'
  <2>1. mem'.out = out
    BY <1>2 DEF Open
  <2>2. QED
    BY <1>2, <2>1 DEF BlocksOK, Content
<1>3. CASE InstallHooks
  <2>1. pc = "hooks" /\ UNCHANGED file /\ Settings(P) # None
    BY <1>3 DEF InstallHooks, Keep, shared
  <2>2. P \in Providers /\ AnInit
    BY <1>3, <2>1, AtProvider, InstallGoesOn DEF InstallStep, Gives
  <2>3. Settings(P) \in Files /\ cmd.v \in Versions
    BY <2>1, <2>2, WhereItGoes DEF AnInit
  <2>4. CASE ~Content(Settings(P)).sound
    BY <1>1, <1>3, <2>1, <2>4 DEF InstallHooks, EndCmd, InFile
  <2>5. CASE Content(Settings(P)).sound
    <3>1. PICK f, out : f = Settings(P) /\ out = UpsertHookEntry(Content(f), Events(P), cmd.v)
      OBVIOUS
    <3>2. Open(f, out, "save")
      BY <1>3, <2>5, <3>1 DEF InstallHooks
    <3>3. f \in Files /\ Content(f) \in FileState /\ Events(P) \in SUBSET (Marks \ {"block"})
      BY <2>1, <2>3, <3>1, ContentOK, MarksOf
    <3>4. Blocks(out) <= 1
      BY <2>3, <3>1, <3>3, EntriesDo DEF BlocksOK, Blocks
    <3>5. QED
      BY <1>2, <2>1, <3>2, <3>3, <3>4
  <2>6. QED
    BY <2>4, <2>5
<1>4. CASE upsertAwarenessBlock
  <2>1. pc = "rules" /\ UNCHANGED file /\ Rules(P) # None
    BY <1>4 DEF upsertAwarenessBlock, Keep, shared
  <2>2. P \in Providers /\ AnInit
    BY <1>4, <2>1, AtProvider, InstallGoesOn DEF InstallStep, Gives
  <2>3. Rules(P) \in Files /\ cmd.v \in Versions
    BY <2>1, <2>2, WhereItGoes DEF AnInit
  <2>4. PICK f, out, next : f = Rules(P) /\ out = mergeAwarenessBlock(Content(f), cmd.v)
                            /\ next = IF file[f] = None THEN "rules-write" ELSE "rules-bak"
    OBVIOUS
  <2>5. NextProvider \/ Open(f, out, next)
    BY <1>4, <2>4 DEF upsertAwarenessBlock
  <2>6. CASE NextProvider
    BY <1>1, <2>1, <2>6 DEF NextProvider, InFile
  <2>7. CASE Open(f, out, next)
    <3>1. f \in Files /\ Content(f) \in FileState /\ Blocks(Content(f)) <= 1
      BY <2>3, <2>4, ContentOK DEF BlocksOK
    <3>2. Blocks(out) <= 1
      <4>1. out.ours["block"] = <<cmd.v>>
        BY <2>3, <2>4, <3>1, BlocksDo
      <4>2. QED
        BY <4>1 DEF Blocks
    <3>3. QED
      BY <1>2, <2>1, <2>7, <3>1, <3>2
  <2>8. QED
    BY <2>5, <2>6, <2>7
<1>5. CASE removeXfaHooks
  <2>1. /\ pc = "strip" /\ UNCHANGED file /\ cmd.strip # <<>>
        /\ (UNCHANGED <<pc, mem>> \/ Open(cmd.strip[1], RemoveHookEntries(Content(cmd.strip[1]), Removed(P)), "save"))
    BY <1>5 DEF removeXfaHooks, Keep, shared, memVars
  <2>2. AnUninstall
    BY <2>1 DEF StagesOK, Binds, Either, Gives, Takes
  <2>3. cmd.strip[1] \in Files
    <3>1. cmd.strip \in Seq(Jsons)
      BY <2>2 DEF AnUninstall
    <3>2. cmd.strip[1] \in Jsons
      BY <2>1, <3>1, FirstAndRest
    <3>3. QED
      BY <3>2 DEF Files
  <2>4. PICK f, out : f = cmd.strip[1] /\ out = RemoveHookEntries(Content(f), Removed(P))
    OBVIOUS
  <2>5. f \in Files /\ Content(f) \in FileState /\ Removed(P) \in SUBSET (Marks \ {"block"})
    BY <2>3, <2>4, ContentOK, MarksOf
  <2>6. Blocks(out) <= 1
    BY <2>4, <2>5, EntriesDo DEF BlocksOK, Blocks
  <2>7. CASE Open(f, out, "save")
    BY <1>2, <2>1, <2>5, <2>6, <2>7
  <2>8. QED
    BY <1>1, <2>1, <2>4, <2>7
<1>6. CASE removeAwarenessBlock
  <2>1. /\ pc = "unrules" /\ UNCHANGED file /\ Rules(P) # None
        /\ NextProvider \/ (Content(Rules(P)).ours["block"] # <<>> /\ Open(Rules(P), withoutBlock(file[Rules(P)]), "rules-bak"))
    BY <1>6 DEF removeAwarenessBlock, Keep, shared
  <2>2. P \in Providers
    BY <2>1, AtProvider DEF Takes
  <2>3. CASE NextProvider
    BY <1>1, <2>1, <2>3 DEF NextProvider, InFile
  <2>4. CASE ~NextProvider
    <3>1. PICK f, out : f = Rules(P) /\ out = withoutBlock(file[f])
      OBVIOUS
    <3>2. f \in Files /\ Content(f) \in FileState /\ Blocks(Content(f)) <= 1 /\ Content(f).ours["block"] # <<>>
      BY <2>1, <2>2, <2>4, <3>1, WhereItGoes, ContentOK DEF BlocksOK
    <3>3. Content(f) = file[f]
      BY <3>2, MarksOf DEF Content, Empty
    <3>4. out # None => Blocks(out) <= 1
      <4>1. out # None => out.ours["block"] = <<>>
        BY <3>1, <3>2, <3>3, BlocksDo
      <4>2. QED
        BY <4>1 DEF Blocks
    <3>5. QED
      BY <1>2, <2>1, <2>4, <3>1, <3>2, <3>4
  <2>5. QED
    BY <2>3, <2>4
<1>7. CASE Save \/ RulesBackUp
  <2>1. UNCHANGED file /\ pc \in InFile /\ (pc' \notin InFile \/ UNCHANGED mem)
    BY <1>7 DEF Save, RulesBackUp, AfterHooks, Keep, InFile, At, memVars
  <2>2. QED
    BY <2>1 DEF BlocksOK, Content
<1>8. CASE Write \/ RulesWrite
  <2>1. pc \in InFile /\ pc' \notin InFile /\ file' = [file EXCEPT ![mem.f] = mem.out]
    BY <1>8 DEF Write, RulesWrite, NextProvider, At, AfterHooks, InFile
  <2>2. Blocks(Empty) <= 1
    BY MarksOf DEF Empty, Blocks
  <2>3. CASE mem.f \in Files
    <3>1. PICK f, c : f = mem.f /\ c = mem.out
      OBVIOUS
    <3>2. Content(f)' = (IF c = None THEN Empty ELSE c) /\ \A g \in Files \ {f} : Content(g)' = Content(g)
      BY <2>1, <2>3, <3>1, OneFile
    <3>3. c # None => Blocks(c) <= 1
      BY <2>1, <3>1 DEF BlocksOK
    <3>4. \A g \in Files : Blocks(Content(g)') <= 1
      BY <2>2, <3>2, <3>3 DEF BlocksOK
    <3>5. QED
      BY <2>1, <3>4 DEF BlocksOK, Blocks
  <2>4. CASE mem.f \notin Files
    <3>1. \A g \in Files : file'[g] = file[g]
      BY <2>1, <2>4 DEF FilesOK
    <3>2. QED
      BY <2>1, <3>1 DEF BlocksOK, Content
  <2>5. QED
    BY <2>3, <2>4
<1>9. ASSUME NEW f \in Files, Garble(f) \/ \E n \in Notes : Edit(f, n)
      PROVE  BlocksOK'
  <2>1. UNCHANGED <<bindingVars, skill, owned, mem>> /\ \A g \in Files : SameOurs(g)
    BY <1>9, EditsSpareOurs
  <2>2. UNCHANGED pc
    BY <2>1 DEF bindingVars
  <2>3. \A g \in Files : Blocks(Content(g)') <= 1
    BY <2>1 DEF BlocksOK, SameOurs, Blocks
  <2>4. QED
    BY <2>1, <2>2, <2>3 DEF BlocksOK, Blocks
<1>10. CASE Quiet
  BY <1>1, <1>10 DEF Quiet, shared, memVars
<1>11. CASE UNCHANGED installVars
  BY <1>1, <1>11 DEF installVars, bindingVars, shared, memVars
<1>12. QED
  BY <1>3, <1>4, <1>5, <1>6, <1>7, <1>8, <1>9, <1>10, <1>11, StepsAreQuiet DEF FileStep

\* What a provider has been given it keeps.
Keeps == \A p \in Providers : /\ SkillDone(p) => SkillDone(p)'
                              /\ HooksDone(p) => HooksDone(p)'
                              /\ RulesDone(p) => RulesDone(p)'

\* So it is with hooks, rules and skill each.
LEMMA GivesFrom ==
  ASSUME AnInit, cmd' = cmd,
         \A p \in Providers : /\ HooksDone(p) => HooksDone(p)'
                              /\ RulesDone(p) => RulesDone(p)',
         UNCHANGED skill
  PROVE  Keeps
BY DEF Keeps, SkillDone

\* Hooks and rules stay where nothing happens to their files.
LEMMA FilesSpared ==
  ASSUME NEW p \in Providers, UNCHANGED <<owned>>, cmd'.v = cmd.v
  PROVE  /\ (Settings(p) # None => SameOurs(Settings(p))) => (HooksDone(p) => HooksDone(p)')
         /\ (Rules(p) # None => SameOurs(Rules(p))) => (RulesDone(p) => RulesDone(p)')
BY DEF SameOurs, HooksDone, RulesDone

\* Nothing is lost where files keep what xfa has in them.
LEMMA SpareAll ==
  ASSUME UNCHANGED <<skill, owned>>, cmd'.v = cmd.v, \A f \in Files : SameOurs(f)
  PROVE  Keeps
<1>1. ASSUME NEW p \in Providers
      PROVE  /\ HooksDone(p) => HooksDone(p)'
             /\ RulesDone(p) => RulesDone(p)'
             /\ SkillDone(p) => SkillDone(p)'
  <2>1. /\ Settings(p) # None => Settings(p) \in Files
        /\ Rules(p) # None => Rules(p) \in Files
    BY WhereItGoes
  <2>2. SkillDone(p) => SkillDone(p)'
    BY DEF SkillDone
  <2>3. QED
    BY <2>1, <2>2, FilesSpared
<1>2. QED
  BY <1>1 DEF Keeps

\* A step that writes no file leaves all as they are.
LEMMA SameFile ==
  ASSUME UNCHANGED file
  PROVE  \A f \in Files : SameOurs(f) /\ Content(f)' = Content(f)
BY DEF SameOurs, Content

\* An init that goes on with its provider, and one that goes on to the next.
LEMMA GiveMore ==
  ASSUME BindInv, GiveOK, AnInit, pc \in Either \cup Gives, NEW p \in Providers, p = P, cmd' = cmd,
         pc' \in (Either \cup Gives) \ {"provide"}, Keeps,
         pc' = "stamp" => skill'[SkillDir(p)].text = cmd.v,
         pc' # "stamp" => SkillDone(p)',
         pc' \in {"rules", "rules-bak", "rules-write"} => HooksDone(p)',
         pc' \in {"save", "write"} =>
           /\ mem'.f = Settings(p) /\ mem'.f # None /\ mem'.out # None
           /\ \A e \in Events(p) : mem'.out.ours[e] = <<cmd.v>>,
         pc' \in {"rules-bak", "rules-write"} =>
           /\ mem'.f = Rules(p) /\ mem'.f # None /\ mem'.out # None
           /\ mem'.out.ours["block"] = <<cmd.v>>
  PROVE  GiveOK'
<1>1. P' = p /\ Asked' = Asked /\ (AnInit' <=> AnInit)
  BY DEF P, Asked, AnInit
<1>2. \A q \in Asked : q \in Providers /\ (q \in In(cmd.todo) \/ Given(q))
  <2>1. cmd.asked \in Seq(Providers)
    BY DEF AnInit
  <2>2. QED
    BY <2>1 DEF GiveOK, Asked
<1>3. \A q \in Asked : q \in In(cmd.todo) \/ Given(q)'
  BY <1>2 DEF Given, Keeps
<1>4. pc' \notin Binds
  BY DEF Binds, Either, Gives
<1>5. SkillDone(P)' <=> SkillDone(p)'
  BY <1>1 DEF SkillDone
<1>6. HooksDone(P)' <=> HooksDone(p)'
  BY <1>1 DEF HooksDone
<1>7. QED
  BY <1>1, <1>3, <1>4, <1>5, <1>6 DEF GiveOK

\* The one it goes on from has been given all.
LEMMA GiveNext ==
  ASSUME BindInv, GiveOK, AnInit, pc \in Either \cup Gives, cmd.todo # <<>>, NEW p \in Providers, p = P,
         NextProvider, Keeps, SkillDone(p)', HooksDone(p)', RulesDone(p)'
  PROVE  GiveOK'
<1>1. PICK t : t = Tail(cmd.todo)
  OBVIOUS
<1>2. cmd' = [cmd EXCEPT !.todo = t] /\ pc' = "provide" /\ t \in Seq(Providers)
  BY <1>1, AtProvider DEF NextProvider, BindInv
<1>3. cmd'.todo = t /\ cmd'.asked = cmd.asked /\ cmd.asked \in Seq(Providers)
  BY <1>2 DEF AnInit
<1>4. Asked' = Asked /\ \A q \in Asked : q \in Providers /\ (q \in In(cmd.todo) \/ Given(q))
  BY <1>3 DEF GiveOK, Asked
<1>5. In(cmd.todo) = {p} \cup In(t)
  BY <1>1, AtProvider DEF BindInv
<1>6. \A q \in Asked : q \in In(t) \/ Given(q)'
  BY <1>4, <1>5 DEF Given, Keeps
<1>7. QED
  BY <1>2, <1>3, <1>4, <1>6 DEF GiveOK, Binds, Gives

\* An init gives a provider its skill, its hooks and its rules.
LEMMA SkillStep ==
  ASSUME BindInv, OwnersOK, GiveOK, InstallSkill \/ Stamp
  PROVE  GiveOK'
<1> USE DEF BindInv
<1>1. InstallStep
  BY DEF InstallStep
<1>2. AnInit /\ pc \in {"provide", "stamp"} /\ cmd.todo # <<>>
  BY <1>1, InstallGoesOn DEF InstallSkill, Stamp, Ready, At, StagesOK, Gives
<1>3. PICK p \in Providers : p = P
  BY <1>2, AtProvider DEF Gives, Either
<1>4. PICK d, s : d = SkillDir(p) /\ s = skill[d]
  OBVIOUS
<1>5. /\ cmd' = cmd /\ UNCHANGED owned /\ UNCHANGED file
  BY DEF InstallSkill, Stamp, Keep, shared
<1>6. s \in [text : Nat, stamp : Nat] /\ cmd.v \in Nat /\ d \in {SkillDir(q) : q \in Providers}
  BY <1>2, <1>3, <1>4, InstallAssumption DEF OwnersOK, AnInit
<1>7. pc = "stamp" => s.text = cmd.v
  BY <1>2, <1>3, <1>4 DEF GiveOK, Gives
<1>8. PICK t : t = skill'[d]
  OBVIOUS
<1>9. /\ \A q \in Providers : SkillDir(q) # d => skill'[SkillDir(q)] = skill[SkillDir(q)]
      /\ IF pc = "stamp" THEN t = [s EXCEPT !.stamp = cmd.v] /\ pc' = "hooks"
         ELSE IF s.stamp > cmd.v THEN t = s /\ pc' = "hooks"
         ELSE t = [s EXCEPT !.text = cmd.v] /\ pc' = "stamp"
  <2>1. CASE InstallSkill
    <3>1. IF s.stamp > cmd.v THEN pc' = "hooks" /\ UNCHANGED skill
          ELSE pc' = "stamp" /\ skill' = [skill EXCEPT ![d].text = cmd.v]
      BY <1>3, <1>4, <2>1 DEF InstallSkill
    <3>2. pc = "provide"
      BY <2>1 DEF InstallSkill, Ready
    <3>3. QED
      BY <1>4, <1>6, <1>8, <3>1, <3>2 DEF OwnersOK
  <2>2. CASE Stamp
    <3>1. pc = "stamp" /\ pc' = "hooks" /\ skill' = [skill EXCEPT ![d].stamp = cmd.v]
      BY <1>3, <1>4, <2>2 DEF Stamp, At
    <3>2. QED
      BY <1>4, <1>6, <1>8, <3>1 DEF OwnersOK
  <2>3. QED
    BY <2>1, <2>2
<1>10. t \in [text : Nat, stamp : Nat]
  BY <1>6, <1>9
<1>11. /\ (s.stamp > cmd.v \/ (s.text = cmd.v /\ s.stamp = cmd.v))
             => (t.stamp > cmd.v \/ (t.text = cmd.v /\ t.stamp = cmd.v))
       /\ pc' = "stamp" => t.text = cmd.v
       /\ pc' = "hooks" => (t.stamp > cmd.v \/ (t.text = cmd.v /\ t.stamp = cmd.v))
  BY <1>2, <1>6, <1>7, <1>9, <1>10
<1>12. ASSUME NEW q \in Providers
       PROVE  SkillDone(q) => SkillDone(q)'
  <2>1. CASE SkillDir(q) = d
    BY <1>4, <1>5, <1>8, <1>11, <2>1 DEF SkillDone
  <2>2. CASE SkillDir(q) # d
    BY <1>5, <1>9, <2>2 DEF SkillDone
  <2>3. QED
    BY <2>1, <2>2
<1>13. Keeps
  <2>1. \A q \in Providers : (HooksDone(q) => HooksDone(q)') /\ (RulesDone(q) => RulesDone(q)')
    <3>1. \A f : SameOurs(f)
      BY <1>5 DEF SameOurs, Content
    <3>2. QED
      BY <1>5, <3>1, FilesSpared
  <2>2. QED
    BY <1>12, <2>1 DEF Keeps
<1>14. pc' \in {"stamp", "hooks"}
  BY <1>9
<1>15. pc' # "stamp" => SkillDone(p)'
  BY <1>4, <1>5, <1>8, <1>11, <1>14 DEF SkillDone
<1>16. pc' = "stamp" => skill'[SkillDir(p)].text = cmd.v
  BY <1>4, <1>8, <1>11
<1>17. pc \in Either \cup Gives /\ pc' \in (Either \cup Gives) \ {"provide"}
  BY <1>2, <1>14 DEF Either, Gives
<1>18. QED
  BY <1>2, <1>3, <1>5, <1>13, <1>14, <1>15, <1>16, <1>17, GiveMore

\* Its hooks are about to be written, or its settings do not parse and it ends.
LEMMA HooksStep ==
  ASSUME FilesInv, BindInv, GiveOK, InstallHooks
  PROVE  GiveOK'
<1> USE DEF BindInv, FilesInv
<1>1. AnInit /\ pc = "hooks" /\ UNCHANGED <<file, skill, owned>> /\ StagesOK'
  BY InstallGoesOn DEF InstallHooks, InstallStep, Keep, shared, ours
<1>2. PICK p \in Providers : p = P
  BY <1>1, AtProvider DEF Gives
<1>3. CASE EndCmd
  BY <1>3, IdleIsPlain, TwoKinds DEF EndCmd, GiveOK, Binds, Either, Gives
<1>4. CASE ~EndCmd
  <2>1. PICK f, out : f = Settings(p) /\ out = UpsertHookEntry(Content(f), Events(p), cmd.v)
    OBVIOUS
  <2>2. f # None /\ Open(f, out, "save") /\ cmd' = cmd
    BY <1>2, <1>4, <2>1 DEF InstallHooks
  <2>3. f \in Files /\ Content(f) \in FileState /\ Events(p) \in SUBSET (Marks \ {"block"}) /\ cmd.v \in Versions
    BY <1>1, <2>1, <2>2, WhereItGoes, ContentOK, MarksOf DEF AnInit
  <2>4. out # None /\ \A e \in Events(p) : out.ours[e] = <<cmd.v>>
    <3>1. PICK c, events, v : c = Content(f) /\ events = Events(p) /\ v = cmd.v
      OBVIOUS
    <3>2. out = UpsertHookEntry(c, events, v)
      BY <2>1, <3>1
    <3>3. c \in FileState /\ events \in SUBSET (Marks \ {"block"}) /\ v \in Versions
      BY <2>3, <3>1
    <3>4. \A e \in events : out.ours[e] = <<v>>
      <4>1. \A e \in events : UpsertHookEntry(c, events, v).ours[e] = <<v>>
        BY <3>3, EntriesDo
      <4>2. QED
        BY <3>2, <4>1
    <3>5. out # None
      BY <3>2, <3>3, EntriesKeepNotes, NoneIsNoFile
    <3>6. QED
      BY <3>1, <3>4, <3>5
  <2>5. mem'.f = f /\ mem'.out = out /\ pc' = "save"
    BY <2>2 DEF Open
  <2>6. Keeps
    BY <1>1, <2>2, SameFile, SpareAll
  <2>7. SkillDone(p)'
    <3>1. SkillDone(p)
      BY <1>1, <1>2 DEF GiveOK, Gives, SkillDone
    <3>2. QED
      BY <2>6, <3>1 DEF Keeps
  <2>8. pc \in Either \cup Gives /\ pc' \in (Either \cup Gives) \ {"provide"}
    BY <1>1, <2>5 DEF Either, Gives
  <2>9. QED
    BY <1>1, <1>2, <2>1, <2>2, <2>4, <2>5, <2>6, <2>7, <2>8, GiveMore
<1>5. QED
  BY <1>3, <1>4

\* A provider without settings has a plugin instead.
LEMMA PluginStep ==
  ASSUME BindInv, OwnersOK, GiveOK, InstallPlugin
  PROVE  GiveOK'
<1> USE DEF BindInv
<1>1. AnInit /\ pc = "hooks" /\ pc' = "rules" /\ cmd' = cmd /\ UNCHANGED <<file, skill>>
  BY InstallGoesOn DEF InstallPlugin, InstallStep, At, Keep, shared, ours
<1>2. PICK p \in Providers : p = P
  BY <1>1, AtProvider DEF Gives
<1>3. Settings(p) = None /\ owned' = [owned EXCEPT ![p] = cmd.v]
  BY <1>2 DEF InstallPlugin
<1>4. owned'[p] = cmd.v /\ \A q \in Providers \ {p} : owned'[q] = owned[q]
  BY <1>3 DEF OwnersOK
<1>5. ASSUME NEW q \in Providers
      PROVE  (HooksDone(q) => HooksDone(q)') /\ (RulesDone(q) => RulesDone(q)')
  BY <1>1, <1>4, SameFile DEF HooksDone, RulesDone, Content
<1>6. Keeps
  BY <1>1, <1>5, GivesFrom
<1>7. HooksDone(p)' /\ SkillDone(p)'
  <2>1. SkillDone(p)
    BY <1>1, <1>2 DEF GiveOK, Gives, SkillDone
  <2>2. QED
    BY <1>1, <1>3, <1>4, <1>6, <2>1 DEF Keeps, HooksDone
<1>8. pc \in Either \cup Gives /\ pc' \in (Either \cup Gives) \ {"provide"}
  BY <1>1 DEF Either, Gives
<1>9. QED
  BY <1>1, <1>2, <1>6, <1>7, <1>8, GiveMore

\* A provider's rules are there, are about to be written, or are a file of xfa's own.
LEMMA RulesStep ==
  ASSUME FilesInv, BindInv, OwnersOK, BlocksOK, GiveOK, upsertAwarenessBlock \/ InstallRule
  PROVE  GiveOK'
<1> USE DEF BindInv, FilesInv
<1>1. AnInit /\ pc = "rules" /\ UNCHANGED <<file, skill>> /\ cmd.todo # <<>>
  BY InstallGoesOn DEF upsertAwarenessBlock, InstallRule, InstallStep, Keep, shared, ours, StagesOK, Gives
<1>2. PICK p \in Providers : p = P
  BY <1>1, AtProvider DEF Gives
<1>3. SkillDone(p) /\ HooksDone(p) /\ pc \in Either \cup Gives /\ cmd.v \in Versions
  BY <1>1, <1>2 DEF GiveOK, Gives, SkillDone, HooksDone, AnInit
<1>4. cmd'.v = cmd.v \/ cmd' = cmd
  BY <1>1 DEF AnInit, upsertAwarenessBlock, InstallRule, NextProvider
<1>5. CASE InstallRule
  <2>1. Rules(p) = None /\ owned' = [owned EXCEPT ![p] = cmd.v] /\ NextProvider
    BY <1>2, <1>5 DEF InstallRule
  <2>2. owned'[p] = cmd.v /\ \A q \in Providers \ {p} : owned'[q] = owned[q]
    BY <2>1 DEF OwnersOK
  <2>3. cmd'.v = cmd.v
    BY <1>4
  <2>4. ASSUME NEW q \in Providers
        PROVE  /\ HooksDone(q) => HooksDone(q)'
               /\ RulesDone(q) => RulesDone(q)'
               /\ SkillDone(q) => SkillDone(q)'
    BY <1>1, <2>2, <2>3 DEF HooksDone, RulesDone, SkillDone, Content
  <2>5. Keeps
    BY <2>4 DEF Keeps
  <2>6. SkillDone(p)' /\ HooksDone(p)' /\ RulesDone(p)'
    BY <1>3, <2>1, <2>2, <2>3, <2>5 DEF Keeps, RulesDone
  <2>7. QED
    BY <1>1, <1>2, <1>3, <2>1, <2>5, <2>6, GiveNext
<1>6. CASE upsertAwarenessBlock
  <2>1. PICK f, out : f = Rules(p) /\ out = mergeAwarenessBlock(Content(f), cmd.v)
    OBVIOUS
  <2>2. /\ f # None /\ UNCHANGED <<skill, owned>> /\ cmd'.v = cmd.v
        /\ \/ file[f] = out /\ NextProvider
           \/ /\ cmd' = cmd
              /\ \E next \in {"rules-write", "rules-bak"} : Open(f, out, next)
    BY <1>2, <1>4, <1>6, <2>1 DEF upsertAwarenessBlock, Keep, ours
  <2>3. f \in Files /\ Content(f) \in FileState /\ Blocks(Content(f)) <= 1
    BY <2>1, <2>2, WhereItGoes, ContentOK DEF BlocksOK
  <2>4. out # None /\ out.ours["block"] = <<cmd.v>>
    BY <1>3, <2>1, <2>3, BlocksDo, BlocksKeepNotes, NoneIsNoFile
  <2>5. Keeps
    BY <1>1, <2>2, SameFile, SpareAll
  <2>6. SkillDone(p)' /\ HooksDone(p)'
    BY <1>3, <2>5 DEF Keeps
  <2>7. CASE file[f] = out /\ NextProvider
    <3>1. RulesDone(p)
      BY <2>1, <2>2, <2>4, <2>7 DEF RulesDone, Content
    <3>2. RulesDone(p)'
      BY <2>5, <3>1 DEF Keeps
    <3>3. QED
      BY <1>1, <1>2, <1>3, <2>5, <2>6, <2>7, <3>2, GiveNext
  <2>8. ASSUME cmd' = cmd, NEW next \in {"rules-write", "rules-bak"}, Open(f, out, next)
        PROVE  GiveOK'
    <3>1. mem'.f = f /\ mem'.out = out /\ pc' = next
      BY <2>8 DEF Open
    <3>2. pc' \in (Either \cup Gives) \ {"provide"} /\ pc' \in {"rules-write", "rules-bak"}
      BY <2>8, <3>1 DEF Either
    <3>3. QED
      BY <1>1, <1>2, <1>3, <2>1, <2>2, <2>4, <2>5, <2>6, <2>8, <3>1, <3>2, GiveMore
  <2>9. QED
    BY <2>2, <2>7, <2>8
<1>7. QED
  BY <1>5, <1>6

\* Hooks are in files of JSON, and rules are not.
LEMMA HooksAreJson ==
  ASSUME NEW p \in Providers
  PROVE  /\ In(Stripped(p)) \subseteq Jsons
         /\ Settings(p) # None => Settings(p) \in In(Stripped(p)) /\ Settings(p) \in Jsons
         /\ Rules(p) # None => Rules(p) \in Files \ Jsons
<1>1. In(Stripped(p)) \subseteq Jsons
  BY DEF In, Jsons
<1>2. QED
  BY <1>1, WhereItGoes

\* What is written of a file for one provider spares what others have been given.
LEMMA WriteKeeps ==
  ASSUME FilesInv, AnInit, NEW p \in Providers, NEW f, NEW out \in FileState,
         file' = [file EXCEPT ![f] = out], UNCHANGED <<skill, owned>>, cmd'.v = cmd.v,
         \/ f # None /\ f = Settings(p) /\ \A e \in Events(p) : out.ours[e] = <<cmd.v>>
         \/ f # None /\ f = Rules(p) /\ out.ours["block"] = <<cmd.v>>
  PROVE  Keeps /\ (f = Settings(p) => HooksDone(p)') /\ (f = Rules(p) => RulesDone(p)')
<1>1. f \in Files /\ out # None /\ (f = Settings(p) => f \in Jsons) /\ (f = Rules(p) => f \notin Jsons)
  BY HooksAreJson, NoneIsNoFile DEF Files
<1>2. Content(f)' = out /\ \A g \in Files \ {f} : SameOurs(g)
  BY <1>1, OneFile DEF FilesInv, SameOurs
<1>3. ASSUME NEW q \in Providers
      PROVE  HooksDone(q) \/ (f = Settings(p) /\ q = p) => HooksDone(q)'
  <2>1. CASE Settings(q) = None
    BY <1>1, <2>1 DEF HooksDone
  <2>2. CASE Settings(q) # None /\ Settings(q) # f
    BY <1>2, <2>2, HooksAreJson DEF HooksDone, SameOurs, Files
  <2>3. CASE Settings(q) = f
    <3>1. f = Settings(p)
      BY <1>1, <2>3, HooksAreJson
    <3>2. q = p
      BY <1>1, <2>3, <3>1, HooksAreJson, FilesApart
    <3>3. \A e \in Events(p) : out.ours[e] = <<cmd.v>>
      BY <1>1, <3>1
    <3>4. QED
      BY <1>2, <2>3, <3>2, <3>3 DEF HooksDone
  <2>4. QED
    BY <2>1, <2>2, <2>3
<1>4. ASSUME NEW q \in Providers
      PROVE  RulesDone(q) \/ (f = Rules(p) /\ q = p) => RulesDone(q)'
  <2>1. CASE Rules(q) = None
    BY <1>1, <2>1 DEF RulesDone
  <2>2. CASE Rules(q) # None /\ Rules(q) # f
    BY <1>2, <2>2, HooksAreJson DEF RulesDone, SameOurs
  <2>3. CASE Rules(q) = f
    <3>1. f # None /\ f # Settings(p)
      BY <1>1, <2>3, HooksAreJson
    <3>2. out.ours["block"] = <<cmd.v>>
      BY <3>1
    <3>3. QED
      BY <1>2, <2>3, <3>1, <3>2 DEF RulesDone
  <2>4. QED
    BY <2>1, <2>2, <2>3
<1>5. QED
  BY <1>3, <1>4 DEF Keeps, SkillDone

\* A file that is saved, and one that is written, has what it is to have.
LEMMA GiveFileStep ==
  ASSUME FilesInv, BindInv, GiveOK, AnInit, FileStep
  PROVE  GiveOK'
<1> USE DEF BindInv
<1>1. pc \in InFile /\ pc \in Either \ {"provide"} /\ UNCHANGED <<skill, owned>> /\ cmd.todo # <<>> /\ Installs
  BY TwoKinds DEF FileStep, Save, Write, RulesBackUp, RulesWrite, InFile, Either, StagesOK, At, Keep, ours
<1>2. PICK p \in Providers, f \in {mem.f}, out \in {mem.out} : p = P
  BY <1>1, AtProvider
<1>3. SkillDone(p) /\ cmd.v \in Versions
  BY <1>1, <1>2 DEF GiveOK, SkillDone, Either, AnInit
<1>4. /\ pc \in {"save", "write"} =>
           /\ f = Settings(p) /\ f # None /\ out # None /\ \A e \in Events(p) : out.ours[e] = <<cmd.v>>
      /\ pc \in {"rules-bak", "rules-write"} =>
           /\ f = Rules(p) /\ f # None /\ out # None /\ out.ours["block"] = <<cmd.v>> /\ HooksDone(p)
  <2>1. HooksDone(P) = HooksDone(p)
    BY <1>2 DEF HooksDone
  <2>2. QED
    BY <1>1, <1>2, <2>1 DEF GiveOK
<1>5. f \in Files /\ out \in FileState
  <2>1. f \in Files
    BY <1>1, <1>4, HooksAreJson DEF InFile, Files
  <2>2. out \in FileState
    BY <1>1, <1>2, <1>4, <2>1 DEF FilesInv, MemOK, InFile
  <2>3. QED
    BY <2>1, <2>2
<1>6. CASE Save
  <2>1. pc = "save" /\ UNCHANGED file /\ cmd' = cmd
    BY <1>6 DEF Save, Keep
  <2>2. (file[f] = out /\ pc' = "rules") \/ (pc' = "write" /\ mem' = mem)
    BY <1>1, <1>2, <1>6 DEF Save, AfterHooks
  <2>3. Keeps
    BY <1>1, <2>1, SameFile, SpareAll
  <2>4. SkillDone(p)'
    BY <1>3, <2>3 DEF Keeps
  <2>5. pc' = "rules" => HooksDone(p)'
    <3>1. file[f] = out => HooksDone(p)
      BY <1>4, <2>1 DEF HooksDone, Content
    <3>2. QED
      BY <2>2, <2>3, <3>1 DEF Keeps
  <2>6. pc \in Either \cup Gives /\ pc' \in (Either \cup Gives) \ {"provide"}
    BY <1>1, <2>2 DEF Either, Gives
  <2>7. pc' = "write" => mem'.f = f /\ mem'.out = out
    BY <1>2, <2>2
  <2>8. pc' \in {"rules", "write"}
    BY <2>2
  <2>9. QED
    BY <1>2, <1>4, <2>1, <2>3, <2>4, <2>5, <2>6, <2>7, <2>8, GiveMore
<1>7. CASE Write
  <2>1. pc = "write" /\ file' = [file EXCEPT ![f] = out] /\ cmd' = cmd /\ pc' = "rules"
    BY <1>1, <1>2, <1>7 DEF Write, Keep, At, AfterHooks
  <2>2. Keeps /\ HooksDone(p)'
    BY <1>1, <1>4, <1>5, <2>1, WriteKeeps
  <2>3. SkillDone(p)'
    BY <1>3, <2>2 DEF Keeps
  <2>4. pc \in Either \cup Gives /\ pc' \in (Either \cup Gives) \ {"provide"}
    BY <1>1, <2>1 DEF Either, Gives
  <2>5. QED
    BY <1>2, <2>1, <2>2, <2>3, <2>4, GiveMore
<1>8. CASE RulesBackUp
  <2>1. pc = "rules-bak" /\ UNCHANGED file /\ cmd' = cmd /\ pc' = "rules-write" /\ mem' = mem
    BY <1>8 DEF RulesBackUp, Keep, At, memVars
  <2>2. Keeps
    BY <1>1, <2>1, SameFile, SpareAll
  <2>3. SkillDone(p)' /\ HooksDone(p)'
    BY <1>3, <1>4, <2>1, <2>2 DEF Keeps
  <2>4. pc \in Either \cup Gives /\ pc' \in (Either \cup Gives) \ {"provide"}
    BY <1>1, <2>1 DEF Either, Gives
  <2>5. mem'.f = f /\ mem'.out = out
    BY <1>2, <2>1
  <2>6. QED
    BY <1>2, <1>4, <2>1, <2>2, <2>3, <2>4, <2>5, GiveMore
<1>9. CASE RulesWrite
  <2>1. pc = "rules-write" /\ file' = [file EXCEPT ![f] = out] /\ NextProvider
    BY <1>2, <1>9 DEF RulesWrite
  <2>2. cmd'.v = cmd.v
    BY <2>1 DEF NextProvider, AnInit
  <2>3. Keeps /\ RulesDone(p)'
    BY <1>1, <1>4, <1>5, <2>1, <2>2, WriteKeeps
  <2>4. SkillDone(p)' /\ HooksDone(p)'
    BY <1>3, <1>4, <2>1, <2>3 DEF Keeps
  <2>5. pc \in Either \cup Gives
    BY <1>1
  <2>6. QED
    BY <1>1, <1>2, <2>1, <2>3, <2>4, <2>5, GiveNext
<1>10. QED
  BY <1>6, <1>7, <1>8, <1>9 DEF FileStep

\* Nothing is asked of whom no command serves.
LEMMA NoOneAsks ==
  ASSUME pc' = "idle" /\ cmd' = NoCmd
  PROVE  GiveOK' /\ TakeOK'
<1>1. ~AnInit' /\ ~AnUninstall'
  <2>1. "todo" \notin DOMAIN cmd'
    BY DEF NoCmd
  <2>2. QED
    BY <2>1 DEF AnInit, AnUninstall
<1>2. QED
  BY <1>1 DEF GiveOK, TakeOK

\* What has been taken of a provider stays away.
StaysGone(p) == /\ \A f \in In(Stripped(p)) : Stripd(p, f) => Stripd(p, f)'
                /\ HooksGone(p) => HooksGone(p)'
                /\ PluginGone(p) => PluginGone(p)'
                /\ SkillGone(p) => SkillGone(p)'
                /\ RulesGone(p) => RulesGone(p)'
KeepsGone == \A p \in Providers : StaysGone(p)

\* So it does where files keep what xfa has in them.
LEMMA SpareGone ==
  ASSUME NEW p \in Providers, \A f \in Files : SameOurs(f)
  PROVE  /\ \A f \in In(Stripped(p)) : Stripd(p, f) => Stripd(p, f)'
         /\ HooksGone(p) => HooksGone(p)'
         /\ Rules(p) # None => (RulesGone(p) => RulesGone(p)')
         /\ UNCHANGED owned => (PluginGone(p) => PluginGone(p)') /\ (RulesGone(p) => RulesGone(p)')
         /\ UNCHANGED skill => (SkillGone(p) => SkillGone(p)')
<1>1. \A f \in In(Stripped(p)) : f \in Files /\ (Stripd(p, f) => Stripd(p, f)')
  BY WhereItGoes DEF Stripd, SameOurs
<1>2. HooksGone(p) => HooksGone(p)'
  BY <1>1 DEF HooksGone
<1>3. Rules(p) # None => (RulesGone(p) => RulesGone(p)')
  BY WhereItGoes DEF RulesGone, SameOurs
<1>4. UNCHANGED owned => (PluginGone(p) => PluginGone(p)') /\ (RulesGone(p) => RulesGone(p)')
  BY <1>3 DEF PluginGone, RulesGone
<1>5. UNCHANGED skill => (SkillGone(p) => SkillGone(p)')
  BY DEF SkillGone
<1>6. QED
  BY <1>1, <1>2, <1>3, <1>4, <1>5

\* A step that leaves the command, its agents' own files and xfa's marks alone.
LEMMA Steady ==
  ASSUME BindInv, UNCHANGED <<cmd, pc, skill, owned, mem>>, \A f \in Files : SameOurs(f)
  PROVE  (GiveOK => GiveOK') /\ (TakeOK => TakeOK')
<1>1. Keeps
  BY SpareAll
<1>2. P' = P /\ Asked' = Asked /\ (AnInit' <=> AnInit) /\ (AnUninstall' <=> AnUninstall)
  BY DEF P, Asked, AnInit, AnUninstall
<1>3. AnInit \/ AnUninstall => /\ Asked \subseteq Providers
                               /\ pc \in Gives \cup Takes \cup (Either \ {"provide"}) => P \in Providers
  <2>1. AnInit \/ AnUninstall => cmd.asked \in Seq(Providers)
    BY DEF AnInit, AnUninstall
  <2>2. pc \in Gives \cup Takes \cup (Either \ {"provide"}) => P \in Providers
    BY AtProvider DEF BindInv
  <2>3. QED
    BY <2>1, <2>2 DEF Asked
<1>4. ASSUME GiveOK
      PROVE  GiveOK'
  <2>1. AnInit => \A p \in Asked : Given(p) => Given(p)'
    BY <1>1, <1>3 DEF Keeps, Given
  <2>2. AnInit /\ pc \in Gives \cup (Either \ {"provide"}) =>
          (SkillDone(P) => SkillDone(P)') /\ (HooksDone(P) => HooksDone(P)')
    <3>1. ASSUME AnInit, pc \in Gives \cup (Either \ {"provide"})
          PROVE  (SkillDone(P) => SkillDone(P)') /\ (HooksDone(P) => HooksDone(P)')
      <4>1. PICK p \in Providers : p = P
        BY <1>3, <3>1
      <4>2. (SkillDone(p) => SkillDone(p)') /\ (HooksDone(p) => HooksDone(p)')
        BY <1>1 DEF Keeps
      <4>3. P' = p
        BY <1>2, <4>1
      <4>4. /\ SkillDone(P) = SkillDone(p) /\ SkillDone(P)' = SkillDone(p)'
            /\ HooksDone(P) = HooksDone(p) /\ HooksDone(P)' = HooksDone(p)'
        BY <4>1, <4>3 DEF SkillDone, HooksDone
      <4>5. QED
        BY <4>2, <4>4
    <3>2. QED
      BY <3>1
  <2>3. QED
    BY <1>2, <1>4, <2>1, <2>2 DEF GiveOK, Either, Gives
<1>5. ASSUME TakeOK
      PROVE  TakeOK'
  <2>1. ASSUME NEW p \in Providers
        PROVE  StaysGone(p)
    BY SpareGone DEF StaysGone
  <2>2. AnUninstall => \A p \in Asked : Taken(p) => Taken(p)'
    BY <1>3, <2>1 DEF Taken, StaysGone
  <2>3. CASE AnUninstall /\ ~cmd.failed /\ pc \in Takes \cup (Either \ {"provide"})
    <3>1. PICK p \in Providers : p = P /\ p = P'
      BY <1>2, <1>3, <2>3
    <3>2. /\ \A f \in In(Stripped(p)) : Stripd(p, f) => Stripd(p, f)'
          /\ HooksGone(p) => HooksGone(p)'
          /\ PluginGone(p) => PluginGone(p)'
          /\ SkillGone(p) => SkillGone(p)'
      BY <2>1 DEF StaysGone
    <3>3. QED
      BY <1>2, <1>5, <2>2, <2>3, <3>1, <3>2 DEF TakeOK, HooksGone, PluginGone, SkillGone
  <2>4. CASE ~(AnUninstall /\ ~cmd.failed /\ pc \in Takes \cup (Either \ {"provide"}))
    BY <1>2, <1>5, <2>2, <2>4 DEF TakeOK, Takes, Either
  <2>5. QED
    BY <2>3, <2>4
<1>6. QED
  BY <1>4, <1>5

\* Until it comes to its providers an init has all of them to do.
LEMMA NotYetGiven ==
  ASSUME BindInv, GiveOK, BindStep
  PROVE  GiveOK' /\ TakeOK'
<1> USE DEF BindInv
<1>1. StagesOK'
  BY BindStages
<1>2. pc \in Binds /\ AnInit
  <2>1. pc \in Binds
    BY DEF BindStep, Place, MakeDir, Ignore, Truncate, Fill, Resolve, Accepted, Rejected, At, Binds
  <2>2. QED
    BY <2>1 DEF StagesOK, Binds, Either, Gives, Takes
<1>3. EndCmd \/ (cmd'.op = "init" /\ cmd'.todo = cmd.todo /\ cmd'.asked = cmd.asked /\ pc' \notin (Either \cup Gives) \ {"provide"})
  BY <1>2 DEF BindStep, Place, MakeDir, Ignore, Truncate, Fill, Resolve, Accepted, Rejected, At, Binds, AnInit,
              Either, Gives
<1>4. CASE EndCmd
  BY <1>4, NoOneAsks DEF EndCmd
<1>5. CASE ~EndCmd
  <2>1. cmd'.todo = cmd'.asked /\ pc' \notin (Either \cup Gives) \ {"provide"}
    BY <1>2, <1>3, <1>5 DEF GiveOK
  <2>2. GiveOK'
    BY <2>1 DEF GiveOK, Asked, In, Either, Gives
  <2>3. ~AnUninstall'
    BY <1>3, <1>5 DEF AnUninstall
  <2>4. QED
    BY <2>2, <2>3 DEF TakeOK
<1>6. QED
  BY <1>4, <1>5

\* An init gives one provider after the other all that it is to give.
LEMMA GiveStep ==
  ASSUME FilesInv, BindInv, OwnersOK, BlocksOK, GiveOK, [InstallNext]_installVars
  PROVE  GiveOK'
<1>1. CASE UNCHANGED installVars
  <2>1. UNCHANGED <<cmd, pc, skill, owned, mem, file>>
    BY <1>1 DEF installVars, bindingVars, ours, memVars, shared
  <2>2. QED
    BY <2>1, Steady, SameFile
<1>2. ASSUME NEW i \in Inits, NEW v \in Versions, RunInit(i, v)
      PROVE  GiveOK'
  <2>1. pc' = "place" /\ cmd'.todo = cmd'.asked
    BY <1>2 DEF RunInit, StartInit, At
  <2>2. QED
    BY <2>1 DEF GiveOK, Either, Gives
<1>3. ASSUME NEW u \in Uninstalls, RunUninstall(u)
      PROVE  GiveOK'
  <2>1. cmd'.op = "uninstall"
    BY <1>3 DEF RunUninstall
  <2>2. ~AnInit'
    BY <2>1 DEF AnInit
  <2>3. QED
    BY <2>2 DEF GiveOK
<1>4. CASE BindStep
  BY <1>4, NotYetGiven
<1>5. ASSUME NEW r \in Registrations, UNCHANGED <<shared, ours, memVars, used>>,
             RegisterStep(r) \/ \E dir \in Dirs, slug \in Boards \cup {None} : Other(r, dir, slug)
      PROVE  GiveOK'
  <2>1. UNCHANGED <<cmd, pc, skill, owned, mem, file>>
    BY <1>5 DEF RegisterStep, Other, ours, memVars, shared
  <2>2. QED
    BY <2>1, Steady, SameFile
<1>6. CASE FileStep \/ UninstallStep
  <2>1. CASE AnInit /\ FileStep
    BY <2>1, GiveFileStep
  <2>2. CASE ~AnInit \/ UninstallStep
    <3>1. Onward /\ AnUninstall
      <4>1. CASE UninstallStep
        BY <4>1, UninstallGoesOn DEF BindInv
      <4>2. CASE ~UninstallStep
        BY <1>6, <2>2, <4>2, FilesGoOn DEF BindInv, Onward, StagesOK, Gives, Takes, Either
      <4>3. QED
        BY <4>1, <4>2
    <3>2. (pc' = "idle" /\ cmd' = NoCmd) \/ AnUninstall'
      BY <3>1 DEF Onward
    <3>3. AnUninstall' => ~AnInit'
      BY DEF AnInit, AnUninstall
    <3>4. QED
      BY <3>2, <3>3, NoOneAsks DEF GiveOK
  <2>3. QED
    BY <1>6, <2>1, <2>2
<1>7. CASE InstallStep
  BY <1>7, SkillStep, HooksStep, PluginStep, RulesStep DEF InstallStep
<1>8. CASE Complete \/ Stop
  BY <1>8, NoOneAsks DEF Complete, Stop, StopCmd, EndCmd
<1>9. ASSUME NEW f \in Files, Garble(f) \/ \E n \in Notes : Edit(f, n)
      PROVE  GiveOK'
  <2>1. UNCHANGED <<bindingVars, skill, owned, mem>> /\ \A g \in Files : SameOurs(g)
    BY <1>9, EditsSpareOurs DEF FilesInv
  <2>2. UNCHANGED <<cmd, pc>>
    BY <2>1 DEF bindingVars
  <2>3. QED
    BY <2>1, <2>2, Steady
<1>10. QED
  BY <1>1, <1>2, <1>3, <1>4, <1>5, <1>6, <1>7, <1>8, <1>9 DEF InstallNext

\* An uninstall that goes on with its provider, and one that goes on to the next.
LEMMA TakeMore ==
  ASSUME BindInv, TakeOK, AnUninstall, AnUninstall', ~cmd.failed, cmd.todo # <<>>, NEW p \in Providers, p = P,
         cmd'.todo = cmd.todo, cmd'.asked = cmd.asked, KeepsGone,
         pc' \in {"strip", "save", "write"} =>
           /\ In(cmd'.strip) \subseteq In(Stripped(p))
           /\ \A f \in In(Stripped(p)) :
                f \in In(cmd'.strip) \/ Stripd(p, f)' \/ (pc' # "strip" /\ mem'.f = f),
         pc' \in {"save", "write"} =>
           /\ mem'.f \in In(Stripped(p)) /\ mem'.out # None
           /\ \A e \in Removed(p) : mem'.out.ours[e] = <<>>,
         pc' \in {"unskill", "unrules", "rules-bak", "rules-write"} => HooksGone(p)' /\ PluginGone(p)',
         pc' \in {"unrules", "rules-bak", "rules-write"} => SkillGone(p)',
         pc' \in {"rules-bak", "rules-write"} =>
           /\ mem'.f = Rules(p) /\ mem'.f # None
           /\ mem'.out # None => mem'.out.ours["block"] = <<>>
  PROVE  TakeOK'
<1>1. P' = p /\ Asked' = Asked
  BY DEF P, Asked
<1>2. \A q \in Asked : q \in Providers /\ (q \in In(cmd.todo) \/ Taken(q))
  <2>1. cmd.asked \in Seq(Providers)
    BY DEF AnUninstall
  <2>2. QED
    BY <2>1 DEF TakeOK, Asked
<1>3. \A q \in Asked : q \in In(cmd.todo) \/ Taken(q)'
  BY <1>2 DEF Taken, KeepsGone, StaysGone
<1>4. HooksGone(P)' = HooksGone(p)' /\ PluginGone(P)' = PluginGone(p)' /\ SkillGone(P)' = SkillGone(p)'
  BY <1>1 DEF HooksGone, PluginGone, SkillGone
<1>5. \A f : Stripd(P, f)' = Stripd(p, f)'
  BY <1>1 DEF Stripd
<1>6. In(cmd'.todo) = In(cmd.todo)
  OBVIOUS
<1>7. QED
  BY <1>1, <1>3, <1>4, <1>5, <1>6 DEF TakeOK

\* The one it goes on from has nothing left.
LEMMA TakeNext ==
  ASSUME BindInv, TakeOK, AnUninstall, ~cmd.failed, cmd.todo # <<>>,
         pc \in Either \cup Takes, NEW p \in Providers, p = P,
         NextProvider, KeepsGone, HooksGone(p)', PluginGone(p)', SkillGone(p)', RulesGone(p)'
  PROVE  TakeOK'
<1>1. PICK t : t = Tail(cmd.todo)
  OBVIOUS
<1>2. cmd' = [cmd EXCEPT !.todo = t] /\ pc' = "provide" /\ t \in Seq(Providers)
  BY <1>1, AtProvider DEF NextProvider, BindInv
<1>3. cmd'.todo = t /\ cmd'.asked = cmd.asked /\ cmd.asked \in Seq(Providers)
  BY <1>2 DEF AnUninstall
<1>4. Asked' = Asked /\ \A q \in Asked : q \in Providers /\ (q \in In(cmd.todo) \/ Taken(q))
  BY <1>3 DEF TakeOK, Asked
<1>5. In(cmd.todo) = {p} \cup In(t)
  BY <1>1, AtProvider DEF BindInv
<1>6. \A q \in Asked : q \in In(t) \/ Taken(q)'
  BY <1>4, <1>5 DEF Taken, KeepsGone, StaysGone
<1>7. QED
  BY <1>2, <1>3, <1>4, <1>6 DEF TakeOK

\* A step that leaves files and agents' own alone takes nothing back.
LEMMA NothingBack ==
  ASSUME UNCHANGED <<file, skill, owned>>
  PROVE  KeepsGone
<1>1. \A f \in Files : SameOurs(f)
  BY SameFile
<1>2. ASSUME NEW p \in Providers
      PROVE  StaysGone(p)
  BY <1>1, SpareGone DEF StaysGone
<1>3. QED
  BY <1>2 DEF KeepsGone

\* An uninstall takes hooks out of one file after the other.
LEMMA StripStep ==
  ASSUME FilesInv, BindInv, TakeOK, AnUninstall, AnUninstall', ~cmd'.failed, Uninstall \/ removeXfaHooks
  PROVE  TakeOK'
<1> USE DEF FilesInv, BindInv
<1>1. UNCHANGED <<file, skill, owned>> /\ pc \in {"provide", "strip"} /\ cmd.todo # <<>>
  BY DEF Uninstall, removeXfaHooks, Ready, Keep, shared, ours, StagesOK, Takes, Binds
<1>2. KeepsGone
  BY <1>1, NothingBack
<1>3. PICK p \in Providers : p = P
  BY <1>1, AtProvider DEF Takes, Either
<1>4. cmd.strip \in Seq(Jsons) /\ cmd.failed \in BOOLEAN
  BY DEF AnUninstall
<1>5. CASE Uninstall
  <2>1. PICK s : s = Stripped(p)
    OBVIOUS
  <2>2. cmd' = [cmd EXCEPT !.strip = s] /\ pc' = "strip" /\ ~cmd.failed
    BY <1>3, <1>5, <2>1 DEF Uninstall
  <2>3. cmd'.strip = s /\ cmd'.todo = cmd.todo /\ cmd'.asked = cmd.asked
    BY <2>2 DEF AnUninstall
  <2>4. QED
    BY <1>1, <1>2, <1>3, <2>1, <2>2, <2>3, TakeMore
<1>6. CASE removeXfaHooks
  <2>1. PICK f, out, s : f = cmd.strip[1] /\ out = RemoveHookEntries(Content(f), Removed(p)) /\ s = Tail(cmd.strip)
    OBVIOUS
  <2>2. /\ pc = "strip" /\ cmd.strip # <<>>
        /\ cmd' = [cmd EXCEPT !.strip = s, !.failed = @ \/ ~Content(f).sound]
        /\ IF ~Content(f).sound \/ out = Content(f) THEN UNCHANGED <<pc, memVars>> ELSE Open(f, out, "save")
    BY <1>3, <1>6, <2>1 DEF removeXfaHooks
  <2>3. /\ cmd'.strip = s /\ cmd'.todo = cmd.todo /\ cmd'.asked = cmd.asked
        /\ ~cmd.failed /\ Content(f).sound
    BY <1>4, <2>2 DEF AnUninstall
  <2>4. In(cmd.strip) = {f} \cup In(s)
    BY <1>4, <2>1, <2>2, FirstAndRest
  <2>5. /\ In(cmd.strip) \subseteq In(Stripped(p))
        /\ \A g \in In(Stripped(p)) : g \in In(cmd.strip) \/ Stripd(p, g)
    <3>1. \A g : Stripd(P, g) = Stripd(p, g)
      BY <1>3 DEF Stripd
    <3>2. QED
      BY <1>3, <2>2, <2>3, <3>1 DEF TakeOK
  <2>6. f \in Files /\ Content(f) \in FileState /\ Removed(p) \in SUBSET (Marks \ {"block"})
    BY <2>4, <2>5, WhereItGoes, ContentOK, MarksOf
  <2>7. out # None /\ \A e \in Removed(p) : out.ours[e] = <<>>
    <3>1. PICK events : events = Removed(p)
      OBVIOUS
    <3>2. out = RemoveHookEntries(Content(f), events) /\ events \in SUBSET (Marks \ {"block"})
      BY <2>1, <2>6, <3>1
    <3>3. QED
      BY <2>6, <3>1, <3>2, EntriesDo, EntriesKeepNotes, NoneIsNoFile
  <2>8. \A g \in In(Stripped(p)) : g \in In(s) \/ Stripd(p, g)' \/ g = f
    BY <1>2, <2>4, <2>5 DEF KeepsGone, StaysGone
  <2>9. CASE out = Content(f)
    <3>1. pc' = "strip"
      BY <2>2, <2>9
    <3>2. Stripd(p, f)
      BY <2>7, <2>9 DEF Stripd
    <3>3. Stripd(p, f)'
      BY <1>2, <2>4, <2>5, <3>2 DEF KeepsGone, StaysGone
    <3>4. QED
      BY <1>1, <1>2, <1>3, <2>3, <2>4, <2>5, <2>8, <3>1, <3>3, TakeMore
  <2>10. CASE out # Content(f)
    <3>1. pc' = "save" /\ mem'.f = f /\ mem'.out = out
      BY <2>2, <2>3, <2>10 DEF Open
    <3>2. QED
      BY <1>1, <1>2, <1>3, <2>3, <2>4, <2>5, <2>7, <2>8, <3>1, TakeMore
  <2>11. QED
    BY <2>9, <2>10
<1>7. QED
  BY <1>5, <1>6

\* It removes a plugin, a skill and a rule.
LEMMA RemoveStep ==
  ASSUME BindInv, OwnersOK, TakeOK, AnUninstall, AnUninstall', ~cmd'.failed,
         RemovePlugin \/ RemoveSkill \/ RemoveRule
  PROVE  TakeOK'
<1> USE DEF BindInv
<1>1. UNCHANGED file /\ pc \in Takes /\ cmd.todo # <<>>
  BY DEF RemovePlugin, RemoveSkill, RemoveRule, At, Keep, shared, StagesOK, Takes
<1>2. \A f \in Files : SameOurs(f)
  BY <1>1, SameFile
<1>3. PICK p \in Providers : p = P
  BY <1>1, AtProvider
<1>4. HooksGone(P) = HooksGone(p) /\ PluginGone(P) = PluginGone(p) /\ SkillGone(P) = SkillGone(p)
  BY <1>3 DEF HooksGone, PluginGone, SkillGone
<1>5. CASE RemovePlugin
  <2>1. /\ pc = "strip" /\ pc' = "unskill" /\ cmd' = cmd /\ cmd.strip = <<>> /\ UNCHANGED skill
        /\ owned' = IF Settings(p) = None THEN [owned EXCEPT ![p] = 0] ELSE owned
    BY <1>3, <1>5 DEF RemovePlugin, At, Keep
  <2>2. \A q \in Providers : owned'[q] = owned[q] \/ (q = p /\ owned'[q] = 0)
    BY <2>1 DEF OwnersOK
  <2>3. KeepsGone
    <3>1. ASSUME NEW q \in Providers
          PROVE  StaysGone(q)
      <4>1. PluginGone(q) => PluginGone(q)'
        BY <2>2 DEF PluginGone
      <4>2. RulesGone(q) => RulesGone(q)'
        <5>1. CASE Rules(q) = None
          BY <2>2, <5>1 DEF RulesGone
        <5>2. CASE Rules(q) # None
          BY <1>2, <5>2, SpareGone
        <5>3. QED
          BY <5>1, <5>2
      <4>3. QED
        BY <1>2, <2>1, <4>1, <4>2, SpareGone DEF StaysGone
    <3>2. QED
      BY <3>1 DEF KeepsGone
  <2>4. HooksGone(p)
    <3>1. In(cmd.strip) = {}
      BY <2>1 DEF In
    <3>2. \A f \in In(Stripped(p)) : Stripd(p, f)
      <4>1. \A f : Stripd(P, f) = Stripd(p, f)
        BY <1>3 DEF Stripd
      <4>2. QED
        BY <1>3, <2>1, <3>1, <4>1 DEF TakeOK
    <3>3. QED
      BY <3>2 DEF HooksGone
  <2>5. PluginGone(p)'
    BY <2>1 DEF PluginGone, OwnersOK
  <2>6. HooksGone(p)'
    BY <2>3, <2>4 DEF KeepsGone, StaysGone
  <2>7. QED
    BY <1>1, <1>3, <2>1, <2>3, <2>5, <2>6, TakeMore
<1>6. CASE RemoveSkill
  <2>1. PICK gone \in SUBSET {"text", "stamp"} :
          /\ skill' = [skill EXCEPT ![SkillDir(p)] = [part \in {"text", "stamp"} |-> IF part \in gone THEN 0 ELSE @[part]]]
          /\ cmd' = [cmd EXCEPT !.failed = @ \/ gone # {"text", "stamp"}]
    BY <1>3, <1>6 DEF RemoveSkill
  <2>2. pc = "unskill" /\ pc' = "unrules" /\ UNCHANGED owned
    BY <1>6 DEF RemoveSkill, At, Keep
  <2>3. cmd.failed \in BOOLEAN
    BY DEF AnUninstall
  <2>4. gone = {"text", "stamp"} /\ ~cmd.failed /\ cmd'.todo = cmd.todo /\ cmd'.asked = cmd.asked
    BY <2>1, <2>3 DEF AnUninstall
  <2>5. PICK z : z = [text |-> 0, stamp |-> 0]
    OBVIOUS
  <2>6. skill' = [skill EXCEPT ![SkillDir(p)] = z]
    <3>1. [part \in {"text", "stamp"} |-> IF part \in gone THEN 0 ELSE skill[SkillDir(p)][part]] = z
      BY <2>4, <2>5
    <3>2. QED
      BY <2>1, <3>1
  <2>7. \A q \in Providers : skill'[SkillDir(q)] = skill[SkillDir(q)] \/ skill'[SkillDir(q)] = z
    BY <2>6 DEF OwnersOK
  <2>8. skill'[SkillDir(p)] = z
    BY <2>6 DEF OwnersOK
  <2>9. SkillGone(p)' /\ \A q \in Providers : SkillGone(q) => SkillGone(q)'
    BY <2>5, <2>7, <2>8 DEF SkillGone
  <2>10. KeepsGone
    <3>1. ASSUME NEW q \in Providers
          PROVE  StaysGone(q)
      BY <1>2, <2>2, <2>9, SpareGone DEF StaysGone
    <3>2. QED
      BY <3>1 DEF KeepsGone
  <2>11. HooksGone(p)' /\ PluginGone(p)'
    <3>1. HooksGone(p) /\ PluginGone(p)
      BY <1>4, <2>2, <2>4 DEF TakeOK
    <3>2. QED
      BY <2>10, <3>1 DEF KeepsGone, StaysGone
  <2>12. QED
    BY <1>1, <1>3, <2>2, <2>4, <2>9, <2>10, <2>11, TakeMore
<1>7. CASE RemoveRule
  <2>1. pc = "unrules" /\ Rules(p) = None /\ owned' = [owned EXCEPT ![p] = 0] /\ NextProvider /\ UNCHANGED skill
    BY <1>3, <1>7 DEF RemoveRule, Keep
  <2>2. cmd'.failed = cmd.failed
    BY <2>1 DEF NextProvider, AnUninstall
  <2>3. owned'[p] = 0 /\ \A q \in Providers : owned'[q] = owned[q] \/ owned'[q] = 0
    BY <2>1 DEF OwnersOK
  <2>4. KeepsGone
    <3>1. ASSUME NEW q \in Providers
          PROVE  StaysGone(q)
      <4>1. PluginGone(q) => PluginGone(q)'
        BY <2>3 DEF PluginGone
      <4>2. RulesGone(q) => RulesGone(q)'
        <5>1. CASE Rules(q) = None
          BY <2>3, <5>1 DEF RulesGone
        <5>2. CASE Rules(q) # None
          BY <1>2, <5>2, SpareGone
        <5>3. QED
          BY <5>1, <5>2
      <4>3. QED
        BY <1>2, <2>1, <4>1, <4>2, SpareGone DEF StaysGone
    <3>2. QED
      BY <3>1 DEF KeepsGone
  <2>5. HooksGone(p) /\ PluginGone(p) /\ SkillGone(p)
    BY <1>4, <2>1, <2>2 DEF TakeOK
  <2>6. HooksGone(p)' /\ PluginGone(p)' /\ SkillGone(p)'
    BY <2>4, <2>5 DEF KeepsGone, StaysGone
  <2>7. RulesGone(p)'
    BY <2>1, <2>3 DEF RulesGone
  <2>8. QED
    BY <1>1, <1>3, <2>1, <2>2, <2>4, <2>6, <2>7, TakeNext
<1>8. QED
  BY <1>5, <1>6, <1>7

\* It takes its block out of a rules file.
LEMMA UnblockStep ==
  ASSUME FilesInv, BindInv, BlocksOK, TakeOK, AnUninstall, AnUninstall', ~cmd'.failed, removeAwarenessBlock
  PROVE  TakeOK'
<1> USE DEF FilesInv, BindInv
<1>1. UNCHANGED <<file, skill, owned>> /\ pc = "unrules" /\ cmd.todo # <<>>
  BY DEF removeAwarenessBlock, Keep, shared, ours, StagesOK, Takes
<1>2. KeepsGone
  BY <1>1, NothingBack
<1>3. PICK p \in Providers : p = P
  BY <1>1, AtProvider DEF Takes
<1>4. PICK f, out : f = Rules(p) /\ out = withoutBlock(file[f])
  OBVIOUS
<1>5. /\ f # None
      /\ IF Content(f).ours["block"] = <<>> THEN NextProvider /\ UNCHANGED memVars
         ELSE Open(f, out, "rules-bak") /\ UNCHANGED cmd
  BY <1>3, <1>4 DEF removeAwarenessBlock
<1>6. ~cmd.failed
  BY <1>5 DEF NextProvider, AnUninstall
<1>7. f \in Files /\ Content(f) \in FileState /\ Blocks(Content(f)) <= 1
  BY <1>4, <1>5, WhereItGoes, ContentOK DEF BlocksOK
<1>8. HooksGone(p)' /\ PluginGone(p)' /\ SkillGone(p)'
  <2>1. HooksGone(P) = HooksGone(p) /\ PluginGone(P) = PluginGone(p) /\ SkillGone(P) = SkillGone(p)
    BY <1>3 DEF HooksGone, PluginGone, SkillGone
  <2>2. HooksGone(p) /\ PluginGone(p) /\ SkillGone(p)
    BY <1>1, <1>6, <2>1 DEF TakeOK
  <2>3. QED
    BY <1>2, <2>2 DEF KeepsGone, StaysGone
<1>9. CASE Content(f).ours["block"] = <<>>
  <2>1. RulesGone(p)'
    BY <1>1, <1>4, <1>5, <1>9 DEF RulesGone, Content
  <2>2. NextProvider /\ pc \in Either \cup Takes
    BY <1>1, <1>5, <1>9 DEF Takes
  <2>3. QED
    BY <1>1, <1>2, <1>3, <1>6, <1>8, <2>1, <2>2, TakeNext
<1>10. CASE Content(f).ours["block"] # <<>>
  <2>1. Content(f) = file[f]
    BY <1>10, MarksOf DEF Content, Empty
  <2>2. out = None \/ out.ours["block"] = <<>>
    BY <1>4, <1>7, <1>10, <2>1, BlocksDo
  <2>3. pc' = "rules-bak" /\ mem'.f = f /\ mem'.out = out /\ cmd' = cmd
    BY <1>5, <1>10 DEF Open
  <2>4. QED
    BY <1>1, <1>2, <1>3, <1>4, <1>5, <1>6, <1>8, <2>2, <2>3, TakeMore
<1>11. QED
  BY <1>9, <1>10

\* What is written of a file for one provider gives nothing back to others.
LEMMA WriteTakes ==
  ASSUME FilesInv, NEW p \in Providers, NEW f, NEW out \in FileState \cup {None},
         file' = [file EXCEPT ![f] = out], UNCHANGED <<skill, owned>>,
         \/ f \in In(Stripped(p)) /\ out # None /\ \A e \in Removed(p) : out.ours[e] = <<>>
         \/ f # None /\ f = Rules(p) /\ (out # None => out.ours["block"] = <<>>)
  PROVE  /\ KeepsGone
         /\ f \in In(Stripped(p)) => Stripd(p, f)'
         /\ f # None /\ f = Rules(p) => RulesGone(p)'
<1>1. f \in Files /\ (f \in In(Stripped(p)) => f \in Jsons) /\ (f # None /\ f = Rules(p) => f \notin Jsons)
  <2>1. CASE f \in In(Stripped(p))
    <3>1. f \in Jsons
      BY <2>1, HooksAreJson
    <3>2. Rules(p) # None => Rules(p) \notin Jsons
      BY HooksAreJson
    <3>3. QED
      BY <3>1, <3>2 DEF Files
  <2>2. CASE f # None /\ f = Rules(p)
    BY <2>2, HooksAreJson
  <2>3. QED
    BY <2>1, <2>2
<1>2. /\ Content(f)' = (IF out = None THEN Empty ELSE out)
      /\ \A g \in Files \ {f} : Content(g)' = Content(g)
  BY <1>1, OneFile DEF FilesInv
<1>3. f \in Jsons => f \in In(Stripped(p))
  BY <1>1
<1>4. f \notin Jsons => f # None /\ f = Rules(p) /\ Content(f)'.ours["block"] = <<>>
  <2>1. Empty.ours["block"] = <<>>
    BY MarksOf DEF Empty
  <2>2. QED
    BY <1>1, <1>2, <2>1
<1>5. f \in Jsons => Stripd(p, f)'
  <2>1. ASSUME f \in Jsons
        PROVE  out # None /\ \A e \in Removed(p) : out.ours[e] = <<>>
    BY <1>1, <2>1
  <2>2. QED
    BY <1>2, <2>1 DEF Stripd
<1>6. ASSUME NEW q \in Providers
      PROVE  StaysGone(q)
  <2>1. ASSUME NEW g \in In(Stripped(q)), Stripd(q, g)
        PROVE  Stripd(q, g)'
    <3>1. g \in Files /\ g \in Jsons
      BY HooksAreJson, WhereItGoes
    <3>2. CASE g # f
      BY <1>2, <2>1, <3>1, <3>2 DEF Stripd
    <3>3. CASE g = f
      <4>1. q = p
        BY <1>3, <2>1, <3>1, <3>3, FilesApart
      <4>2. QED
        BY <1>5, <3>1, <3>3, <4>1
    <3>4. QED
      BY <3>2, <3>3
  <2>2. HooksGone(q) => HooksGone(q)'
    BY <2>1 DEF HooksGone
  <2>3. RulesGone(q) => RulesGone(q)'
    <3>1. CASE Rules(q) = None
      BY <3>1 DEF RulesGone
    <3>2. CASE Rules(q) # None /\ Rules(q) # f
      BY <1>2, <3>2, HooksAreJson DEF RulesGone
    <3>3. CASE Rules(q) # None /\ Rules(q) = f
      <4>1. f \notin Jsons
        BY <3>3, HooksAreJson
      <4>2. QED
        BY <1>4, <3>3, <4>1 DEF RulesGone
    <3>4. QED
      BY <3>1, <3>2, <3>3
  <2>4. QED
    BY <2>1, <2>2, <2>3 DEF StaysGone, PluginGone, SkillGone
<1>7. f # None /\ f = Rules(p) => RulesGone(p)'
  BY <1>1, <1>4 DEF RulesGone
<1>8. QED
  BY <1>1, <1>5, <1>6, <1>7 DEF KeepsGone

\* It saves and writes what is left.
LEMMA TakeFileStep ==
  ASSUME FilesInv, BindInv, TakeOK, AnUninstall, AnUninstall', ~cmd'.failed, FileStep
  PROVE  TakeOK'
<1> USE DEF BindInv
<1>1. pc \in InFile /\ pc \in Either \ {"provide"} /\ UNCHANGED <<skill, owned>> /\ cmd.todo # <<>> /\ ~Installs
  BY TwoKinds DEF FileStep, Save, Write, RulesBackUp, RulesWrite, InFile, Either, StagesOK, At, Keep, ours
<1>2. PICK p \in Providers, f \in {mem.f}, out \in {mem.out} : p = P
  BY <1>1, AtProvider
<1>3. ~cmd.failed /\ (cmd' = cmd \/ NextProvider)
  BY DEF FileStep, Save, Write, RulesBackUp, RulesWrite, Keep, NextProvider, AnUninstall
<1>4. /\ pc \in {"save", "write"} =>
           /\ f \in In(Stripped(p)) /\ out # None /\ \A e \in Removed(p) : out.ours[e] = <<>>
           /\ In(cmd.strip) \subseteq In(Stripped(p))
           /\ \A g \in In(Stripped(p)) : g \in In(cmd.strip) \/ Stripd(p, g) \/ g = f
      /\ pc \in {"rules-bak", "rules-write"} =>
           /\ f = Rules(p) /\ f # None /\ (out # None => out.ours["block"] = <<>>)
           /\ HooksGone(p) /\ PluginGone(p) /\ SkillGone(p)
  <2>1. HooksGone(P) = HooksGone(p) /\ PluginGone(P) = PluginGone(p) /\ SkillGone(P) = SkillGone(p)
    BY <1>2 DEF HooksGone, PluginGone, SkillGone
  <2>2. \A g : Stripd(P, g) = Stripd(p, g)
    BY <1>2 DEF Stripd
  <2>3. QED
    BY <1>1, <1>2, <1>3, <2>1, <2>2 DEF TakeOK
<1>5. f \in Files /\ out \in FileState \cup {None}
  <2>1. f \in Files
    BY <1>1, <1>4, HooksAreJson DEF InFile, Files
  <2>2. out \in FileState \cup {None}
    BY <1>1, <1>2, <2>1 DEF FilesInv, MemOK
  <2>3. QED
    BY <2>1, <2>2
<1>6. CASE Save
  <2>1. pc = "save" /\ UNCHANGED file /\ cmd' = cmd
    BY <1>6 DEF Save, Keep
  <2>2. (file[f] = out /\ pc' = "strip") \/ (pc' = "write" /\ mem' = mem)
    BY <1>1, <1>2, <1>6 DEF Save, AfterHooks
  <2>3. KeepsGone
    BY <1>1, <2>1, NothingBack
  <2>4. file[f] = out => Stripd(p, f)
    BY <1>4, <2>1 DEF Stripd, Content
  <2>5. pc' = "strip" => \A g \in In(Stripped(p)) : g \in In(cmd.strip) \/ Stripd(p, g)'
    BY <1>4, <2>1, <2>2, <2>3, <2>4 DEF KeepsGone, StaysGone
  <2>6. pc' = "write" => \A g \in In(Stripped(p)) : g \in In(cmd.strip) \/ Stripd(p, g)' \/ g = f
    BY <1>4, <2>1, <2>3 DEF KeepsGone, StaysGone
  <2>7. pc' = "write" => mem'.f = f /\ mem'.out = out
    BY <1>2, <2>2
  <2>8. pc' \in {"strip", "write"}
    BY <2>2
  <2>9. QED
    BY <1>1, <1>2, <1>3, <1>4, <2>1, <2>3, <2>5, <2>6, <2>7, <2>8, TakeMore
<1>7. CASE Write
  <2>1. pc = "write" /\ file' = [file EXCEPT ![f] = out] /\ cmd' = cmd /\ pc' = "strip"
    BY <1>1, <1>2, <1>7 DEF Write, Keep, At, AfterHooks
  <2>2. KeepsGone /\ Stripd(p, f)'
    BY <1>1, <1>4, <1>5, <2>1, WriteTakes
  <2>3. \A g \in In(Stripped(p)) : g \in In(cmd.strip) \/ Stripd(p, g)'
    BY <1>4, <2>1, <2>2 DEF KeepsGone, StaysGone
  <2>4. QED
    BY <1>1, <1>2, <1>3, <1>4, <2>1, <2>2, <2>3, TakeMore
<1>8. CASE RulesBackUp
  <2>1. pc = "rules-bak" /\ UNCHANGED file /\ cmd' = cmd /\ pc' = "rules-write" /\ mem' = mem
    BY <1>8 DEF RulesBackUp, Keep, At, memVars
  <2>2. KeepsGone
    BY <1>1, <2>1, NothingBack
  <2>3. HooksGone(p)' /\ PluginGone(p)' /\ SkillGone(p)'
    BY <1>4, <2>1, <2>2 DEF KeepsGone, StaysGone
  <2>4. mem'.f = f /\ mem'.out = out
    BY <1>2, <2>1
  <2>5. QED
    BY <1>1, <1>2, <1>3, <1>4, <2>1, <2>2, <2>3, <2>4, TakeMore
<1>9. CASE RulesWrite
  <2>1. pc = "rules-write" /\ file' = [file EXCEPT ![f] = out] /\ NextProvider
    BY <1>2, <1>9 DEF RulesWrite
  <2>2. KeepsGone /\ RulesGone(p)'
    BY <1>1, <1>4, <1>5, <2>1, WriteTakes
  <2>3. HooksGone(p)' /\ PluginGone(p)' /\ SkillGone(p)'
    BY <1>4, <2>1, <2>2 DEF KeepsGone, StaysGone
  <2>4. pc \in Either \cup Takes
    BY <1>1
  <2>5. QED
    BY <1>1, <1>2, <1>3, <2>1, <2>2, <2>3, <2>4, TakeNext
<1>10. QED
  BY <1>6, <1>7, <1>8, <1>9 DEF FileStep

\* An uninstall that nothing fails takes all that there is of one provider after the other.
LEMMA TakeStep ==
  ASSUME FilesInv, BindInv, OwnersOK, BlocksOK, GiveOK, TakeOK, [InstallNext]_installVars
  PROVE  TakeOK'
<1>1. CASE UNCHANGED installVars
  <2>1. UNCHANGED <<cmd, pc, skill, owned, mem, file>>
    BY <1>1 DEF installVars, bindingVars, ours, memVars, shared
  <2>2. QED
    BY <2>1, Steady, SameFile
<1>2. ASSUME NEW i \in Inits, NEW v \in Versions, RunInit(i, v)
      PROVE  TakeOK'
  <2>1. cmd'.op = "init"
    BY <1>2 DEF RunInit, StartInit
  <2>2. ~AnUninstall'
    BY <2>1 DEF AnUninstall
  <2>3. QED
    BY <2>2 DEF TakeOK
<1>3. ASSUME NEW u \in Uninstalls, RunUninstall(u)
      PROVE  TakeOK'
  <2>1. pc' = "provide" /\ cmd'.todo = cmd'.asked
    BY <1>3 DEF RunUninstall, At
  <2>2. QED
    BY <2>1 DEF TakeOK, Asked, In
<1>4. CASE BindStep
  BY <1>4, NotYetGiven
<1>5. ASSUME NEW r \in Registrations, UNCHANGED <<shared, ours, memVars, used>>,
             RegisterStep(r) \/ \E dir \in Dirs, slug \in Boards \cup {None} : Other(r, dir, slug)
      PROVE  TakeOK'
  <2>1. UNCHANGED <<cmd, pc, skill, owned, mem, file>>
    BY <1>5 DEF RegisterStep, Other, ours, memVars, shared
  <2>2. QED
    BY <2>1, Steady, SameFile
<1>6. CASE FileStep \/ InstallStep \/ UninstallStep
  <2>1. Onward
    BY <1>6, FilesGoOn, InstallGoesOn, UninstallGoesOn DEF BindInv
  <2>2. CASE AnUninstall
    <3>1. (pc' = "idle" /\ cmd' = NoCmd) \/ AnUninstall'
      BY <2>1, <2>2 DEF Onward
    <3>2. ~InstallStep
      BY <2>2, InstallGoesOn, TwoKinds DEF BindInv
    <3>3. CASE AnUninstall' /\ ~cmd'.failed
      <4>1. ~PartFails
        <5>1. PartFails => \E t : cmd' = [cmd EXCEPT !.failed = TRUE] \/ cmd' = [cmd EXCEPT !.failed = TRUE, !.todo = t]
          BY DEF PartFails
        <5>2. PartFails => cmd'.failed
          BY <2>2, <5>1 DEF AnUninstall
        <5>3. QED
          BY <3>3, <5>2
      <4>2. QED
        BY <1>6, <2>2, <3>2, <3>3, <4>1, TakeFileStep, StripStep, RemoveStep, UnblockStep DEF UninstallStep
    <3>4. CASE AnUninstall' /\ cmd'.failed
      BY <3>4 DEF TakeOK
    <3>5. QED
      BY <3>1, <3>3, <3>4, NoOneAsks
  <2>3. CASE ~AnUninstall
    <3>1. AnInit
      BY <2>1, <2>3 DEF Onward, BindInv, StagesOK, Gives, Takes, Either
    <3>2. (pc' = "idle" /\ cmd' = NoCmd) \/ AnInit'
      BY <2>1, <3>1 DEF Onward
    <3>3. AnInit' => ~AnUninstall'
      BY DEF AnInit, AnUninstall
    <3>4. QED
      BY <3>2, <3>3, NoOneAsks DEF TakeOK
  <2>4. QED
    BY <2>2, <2>3
<1>7. CASE Complete \/ Stop
  BY <1>7, NoOneAsks DEF Complete, Stop, StopCmd, EndCmd
<1>8. ASSUME NEW f \in Files, Garble(f) \/ \E n \in Notes : Edit(f, n)
      PROVE  TakeOK'
  <2>1. UNCHANGED <<bindingVars, skill, owned, mem>> /\ \A g \in Files : SameOurs(g)
    BY <1>8, EditsSpareOurs DEF FilesInv
  <2>2. UNCHANGED <<cmd, pc>>
    BY <2>1 DEF bindingVars
  <2>3. QED
    BY <2>1, <2>2, Steady
<1>9. QED
  BY <1>1, <1>2, <1>3, <1>4, <1>5, <1>6, <1>7, <1>8 DEF InstallNext

\* To begin with there is nothing of xfa's, and nobody asks for anything.
LEMMA WordInvInit ==
  ASSUME InstallInit
  PROVE  WordInv
<1>1. OwnersOK
  BY DEF InstallInit, OwnersOK
<1>2. BlocksOK
  <2>1. Empty.ours["block"] = <<>>
    BY MarksOf DEF Empty
  <2>2. \A f \in Files : Blocks(Content(f)) <= 1
    BY <2>1 DEF InstallInit, Content, Blocks
  <2>3. QED
    BY <2>2 DEF InstallInit, BindingInit, BlocksOK, InFile
<1>3. cmd = NoCmd /\ pc = "idle"
  BY DEF InstallInit, BindingInit
<1>4. "todo" \notin DOMAIN cmd
  BY <1>3 DEF NoCmd
<1>5. ~AnInit /\ ~AnUninstall
  BY <1>4 DEF AnInit, AnUninstall
<1>6. QED
  BY <1>1, <1>2, <1>5 DEF WordInv, GiveOK, TakeOK

\* What a command has done for the providers it is through with is done, and stays so.
THEOREM WordInvariance == InstallSpec => [](FilesInv /\ BindInv /\ WordInv)
<1> DEFINE J == FilesInv /\ BindInv /\ WordInv
<1>1. InstallInit => J
  BY InitFiles, BindInvInit, WordInvInit
<1>2. J /\ [InstallNext]_installVars => J'
  BY FilesStep, BindInvStep, OwnersStep, BlocksStep, GiveStep, TakeStep DEF WordInv
<1>3. QED
  BY <1>1, <1>2, PTL DEF InstallSpec

\* A command that has nothing left to do has done what it says.
LEMMA DoneIsDone ==
  ASSUME BindInv, WordInv, Complete
  PROVE  IF Installs THEN Installed ELSE Uninstalled /\ (cmd.all => marker' = None)
<1> USE DEF BindInv, WordInv
<1>1. pc = "provide" /\ cmd.todo = <<>> /\ (~Installs => ~cmd.failed) /\ (AnInit \/ AnUninstall)
  BY DEF Complete, StagesOK, Binds, Gives, Takes
<1>2. In(cmd.todo) = {}
  BY <1>1 DEF In
<1>3. CASE Installs
  <2>1. AnInit
    BY <1>1, <1>3, TwoKinds
  <2>2. \A p \in Asked : Given(p)
    BY <1>1, <1>2, <2>1 DEF GiveOK, Either
  <2>3. /\ ResolvePath(cmd.env) = cmd.resolved
        /\ bound[cmd.resolved][Project] = cmd.slug \/ crossed
        /\ cmd.fresh => ignored
    BY <1>3, FindsItsBoard
  <2>4. QED
    BY <1>3, <2>2, <2>3 DEF Installed, Given, HooksDone, RulesDone, SkillDone
<1>4. CASE ~Installs
  <2>1. AnUninstall /\ ~cmd.failed
    BY <1>1, <1>4, TwoKinds
  <2>2. ASSUME NEW p \in Asked
        PROVE  /\ \A k \in DOMAIN Stripped(p) :
                    LET c == Content(Stripped(p)[k]) IN c.sound => \A e \in Removed(p) : c.ours[e] = <<>>
               /\ Rules(p) # None => Content(Rules(p)).ours["block"] = <<>>
               /\ owned[p] = 0 /\ skill[SkillDir(p)] = [text |-> 0, stamp |-> 0]
    <3>1. Taken(p)
      BY <1>2, <2>1, <2>2 DEF TakeOK
    <3>2. \A k \in DOMAIN Stripped(p) : Stripd(p, Stripped(p)[k])
      BY <3>1 DEF Taken, HooksGone, In
    <3>3. QED
      BY <3>1, <3>2 DEF Taken, Stripd, PluginGone, SkillGone, RulesGone
  <2>3. Uninstalled
    BY <2>2 DEF Uninstalled
  <2>4. cmd.all => marker' = None
    BY <1>4 DEF Complete
  <2>5. QED
    BY <1>4, <2>3, <2>4
<1>5. QED
  BY <1>3, <1>4

\* A command that ends well has done what it says, whatever commands were before it and
\* wherever they ended; a project is pinned to a server only once that has bound it, and
\* bindings stand but for what a registration has missed.
THEOREM WordIsKept == InstallSpec => CommandsKeepTheirWord
<1> DEFINE A == /\ Complete => IF Installs THEN Installed ELSE Uninstalled /\ (cmd.all => marker' = None)
                /\ PinsWhatIsBound
                /\ BindingsStand
           J == FilesInv /\ BindInv /\ WordInv
<1>1. J /\ [InstallNext]_installVars => [A]_installVars
  BY DoneIsDone, PinsAreBound, StandingBindings
<1>2. CommandsKeepTheirWord <=> [][A]_installVars
  BY DEF CommandsKeepTheirWord
<1>3. InstallSpec => []J
  BY WordInvariance
<1> HIDE DEF A, J
<1>4. QED
  BY <1>1, <1>2, <1>3, PTL DEF InstallSpec
=============================================================================
