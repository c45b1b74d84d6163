------------------------------- MODULE Remote -------------------------------
(***************************************************************************)
(* A command forwarded to a host: the client of cmd/root.go, the handler   *)
(* of `xfa serve` and the subprocess it runs, under their timeouts.        *)
(*                                                                         *)
(* A request waits for a slot of its verb's semaphore and then runs under  *)
(* it; one deadline covers both.  The client gives up after a timeout of   *)
(* its own and may be gone long before the server notices.  The server is  *)
(* stopped, which cancels what it runs, or killed, which does not.  Time   *)
(* is counted in ticks; what a cancelled context sets off (a kill, the     *)
(* second of WaitDelay, the end of the handler) takes less than one.       *)
(***************************************************************************)
EXTENDS Naturals, FiniteSets

CONSTANTS
  MaxRequests,       \* bound: invocations of the CLI whose database is a URL
  Verbs,             \* what they may be: "hook", "inbox", "project-register", ...
  Flaws,             \* sets of things validate may object to
  VerbTimeout, InboxTimeout,          \* the server's
  Slack, HookTimeout, ForwardTimeout, \* the client's
  Concurrency, InboxConcurrency

Requests == 1..MaxRequests
Pools == {"sem", "inboxSem"}

ASSUME RemoteAssumption ==
  /\ MaxRequests \in Nat
  /\ Verbs # {} /\ Verbs \subseteq STRING /\ "none" \notin Verbs
  /\ VerbTimeout \in Nat /\ InboxTimeout \in Nat
  /\ Slack \in Nat /\ HookTimeout \in Nat /\ ForwardTimeout \in Nat
  /\ Concurrency \in Nat \ {0} /\ InboxConcurrency \in Nat \ {0}

VARIABLES
  serving,  \* the server: "up", "stopping" (its context is cancelled) or "down"
  slots,    \* the tokens in each semaphore's channel
  verb,     \* of each invocation
  flaws,    \* of each request, until it is validated
  outcome,  \* of each invocation: "none", "waiting", or its end
  age,      \* ticks a client has waited
  lag,      \* history: how many of them no handler had its request
  at,       \* where each request is: "wire", "queued", "running", "reply", ...
  spent,    \* ticks since serve bounded its life
  hungup,   \* requests whose handler was told that the client went away
  child,    \* the subprocess of each
  effect,   \* requests whose command has changed the database
  code      \* the envelope in each answer on its way: of code "0", "other" or "none"

clientVars == <<outcome, age, lag>>
timeVars == <<age, lag, spent>>
reqVars == <<verb, flaws>>
vars == <<serving, slots, reqVars, outcome, timeVars, at, hungup, child, effect, code>>

\* An invocation ends with the code of an envelope, or Forward failed: "error", or
\* "refused" if nobody was there.
Outcomes == {"none", "waiting", "exit 0", "exit n", "error", "refused"}
Codes == {"none", "0", "other"}
Places == {"none", "wire", "queued", "running", "reply", "over", "cut"}
-----------------------------------------------------------------------------
Pool(r) == IF verb[r] = "inbox" THEN "inboxSem" ELSE "sem"
Capacity(p) == IF p = "sem" THEN Concurrency ELSE InboxConcurrency

\* Verbs but hook and inbox: a little over the server's.
verbForwardTimeout == VerbTimeout + Slack

ClientTimeout(r) == CASE verb[r] = "hook"  -> HookTimeout
                      [] verb[r] = "inbox" -> ForwardTimeout
                      [] OTHER             -> verbForwardTimeout

ServerTimeout(r) == IF verb[r] = "inbox" THEN InboxTimeout ELSE VerbTimeout

\* validate: the checks, but for two that regard one verb only.
validate(r) ==
  flaws[r] \ ((IF verb[r] = "project-register" THEN {} ELSE {"shallow cwd"})
              \cup (IF verb[r] = "hook" THEN {} ELSE {"payload"}))

Handled(r) == at[r] \in {"queued", "running"}
Waiting(r) == outcome[r] = "waiting"
Alive(r) == child[r] = "alive"

Expired(r) == spent[r] >= ServerTimeout(r)

\* (Mutant: the server's requests do not hang from its context.)
CancelledByClient(r) == r \in hungup

\* r.Context(), over the BaseContext of the server.
Cancelled(r) == r \in hungup \/ serving = "stopping"

\* (Mutant: only a departed client ends the wait in the queue and the run.)
DoneByClient(r) == Cancelled(r)

\* ctx.Done() is closed.
Done(r) == Expired(r) \/ Cancelled(r)

Init ==
  /\ serving = "up"
  /\ slots = [p \in Pools |-> 0]
  /\ verb = [r \in Requests |-> "none"]
  /\ flaws = [r \in Requests |-> {}]
  /\ outcome = [r \in Requests |-> "none"]
  /\ age = [r \in Requests |-> 0] /\ lag = [r \in Requests |-> 0] /\ spent = [r \in Requests |-> 0]
  /\ at = [r \in Requests |-> "none"]
  /\ hungup = {}
  /\ child = [r \in Requests |-> "none"]
  /\ effect = {}
  /\ code = [r \in Requests |-> "none"]

Move(r, from, to) == at[r] = from /\ at' = [at EXCEPT ![r] = to]

\* The invocation ends; its clock is of no further interest.
EndsAs(r, o) ==
  /\ Waiting(r)
  /\ outcome' = [outcome EXCEPT ![r] = o]
  /\ age' = [age EXCEPT ![r] = 0] /\ lag' = [lag EXCEPT ![r] = 0]

\* A hook whose forwarding failed prints nothing and ends well all the same.
FailsOpen(r) == verb[r] = "hook" /\ outcome[r] \in {"error", "refused"}

\* The exit code of an invocation that has ended.
ExitCode(r) == IF outcome[r] = "exit 0" \/ FailsOpen(r) THEN "0" ELSE "other"

-----------------------------------------------------------------------------
(***************************************************************************)
(* The client                                                              *)
(***************************************************************************)
\* forwardIfRemote, where the path resolves to a URL.  Nobody answers for a server
\* that is down, nor for one that closed its listener.
Forward(r) ==
  /\ outcome[r] = "none" /\ \A q \in 1..r-1 : outcome[q] # "none"
  /\ \E v \in Verbs : verb' = [verb EXCEPT ![r] = v]
  /\ IF serving = "up"
     THEN /\ outcome' = [outcome EXCEPT ![r] = "waiting"]
          /\ \E f \in Flaws : flaws' = [flaws EXCEPT ![r] = f]
          /\ Move(r, "none", "wire")
     ELSE /\ outcome' = [outcome EXCEPT ![r] = "refused"]
          /\ UNCHANGED <<flaws, at>>
  /\ UNCHANGED <<serving, slots, timeVars, hungup, child, effect, code>>

\* http.Client's timeout, at its time.
GiveUp(r) ==
  /\ age[r] >= ClientTimeout(r)
  /\ EndsAs(r, "error")
  /\ UNCHANGED <<serving, slots, reqVars, at, spent, hungup, child, effect, code>>

\* The envelope arrives and is decoded; anything but a 2xx is an error.
Receive(r) ==
  /\ Move(r, "reply", "over")
  /\ IF Waiting(r)
     THEN EndsAs(r, CASE code[r] = "0"     -> "exit 0"
                      [] code[r] = "other" -> "exit n"
                      [] code[r] = "none"  -> "error")
     ELSE UNCHANGED clientVars
  /\ code' = [code EXCEPT ![r] = "none"]
  /\ UNCHANGED <<serving, slots, reqVars, spent, hungup, child, effect>>

\* The connection breaks, in either direction, and the client may be told.
Break(r) ==
  /\ \/ Move(r, "wire", "over")
     \/ Move(r, "reply", "over")
  /\ code' = [code EXCEPT ![r] = "none"]
  /\ EndsAs(r, "error") \/ UNCHANGED clientVars
  /\ UNCHANGED <<serving, slots, reqVars, spent, hungup, child, effect>>

-----------------------------------------------------------------------------
(***************************************************************************)
(* server.serve                                                            *)
(***************************************************************************)
\* The request has been read, perhaps after its client gave up.
Serve(r) ==
  /\ IF validate(r) # {}
     THEN Move(r, "wire", "reply")
     ELSE Move(r, "wire", "queued")
  /\ flaws' = [flaws EXCEPT ![r] = {}]
  /\ UNCHANGED <<serving, slots, verb, outcome, timeVars, hungup, child, effect, code>>

\* The handler is told, sooner or later, that its client closed the connection.
HangUp(r) ==
  /\ Handled(r) /\ ~Waiting(r) /\ r \notin hungup
  /\ hungup' = hungup \cup {r}
  /\ UNCHANGED <<serving, slots, reqVars, outcome, timeVars, at, child, effect, code>>

\* The handler answers, with an envelope or without, and is over.
Answer(r, from, c) ==
  /\ Move(r, from, "reply")
  /\ code' = [code EXCEPT ![r] = c]
  /\ spent' = [spent EXCEPT ![r] = 0]
  /\ hungup' = hungup \ {r}

\* (Mutant: exec gives the run a time of its own, counted from its start.)
AdmitAfresh(r) ==
  /\ slots[Pool(r)] < Capacity(Pool(r))
  /\ slots' = [slots EXCEPT ![Pool(r)] = @ + 1]
  /\ Move(r, "queued", "running")
  /\ child' = [child EXCEPT ![r] = IF Done(r) THEN "failed" ELSE "alive"]
  /\ spent' = [spent EXCEPT ![r] = 0]
  /\ UNCHANGED <<serving, reqVars, clientVars, hungup, effect, code>>

\* A slot and ctx.Done() may both be ready: select takes either.  On a context
\* that is done, exec starts no process.
Admit(r) ==
  /\ slots[Pool(r)] < Capacity(Pool(r))
  /\ slots' = [slots EXCEPT ![Pool(r)] = @ + 1]
  /\ Move(r, "queued", "running")
  /\ child' = [child EXCEPT ![r] = IF Done(r) THEN "failed" ELSE "alive"]
  /\ UNCHANGED <<serving, reqVars, outcome, timeVars, hungup, effect, code>>

\* (Mutant: the deferred receive is there on this path, too.)
BusyReleases(r) ==
  /\ Done(r)
  /\ Answer(r, "queued", "none")
  /\ slots' = [slots EXCEPT ![Pool(r)] = IF @ = 0 THEN 0 ELSE @ - 1]
  /\ UNCHANGED <<serving, reqVars, clientVars, child, effect>>

Busy(r) ==
  /\ Done(r)
  /\ Answer(r, "queued", "none")
  /\ UNCHANGED <<serving, slots, reqVars, clientVars, child, effect>>

\* exec.CommandContext kills the process once its context is done.
Kill(r) ==
  /\ at[r] = "running" /\ Alive(r) /\ Done(r)
  /\ child' = [child EXCEPT ![r] = "failed"]
  /\ UNCHANGED <<serving, slots, reqVars, outcome, timeVars, at, hungup, effect, code>>

\* (Mutant: a run that passed the deadline is a success if it wrote its output.)
FinishLeniently(r) ==
  /\ ~Alive(r)
  /\ \E truncated \in BOOLEAN :
       Answer(r, "running", IF (Expired(r) \/ child[r] = "exited") /\ ~truncated
                            THEN "0" ELSE "other")
  /\ slots' = [slots EXCEPT ![Pool(r)] = @ - 1]
  /\ child' = [child EXCEPT ![r] = "none"]
  /\ UNCHANGED <<serving, reqVars, clientVars, effect>>

\* Run has returned.  A deadline that passed (code 124) outweighs how the process
\* ended; an output over the limit (1) is no success.  The deferred receive returns the slot.
Finish(r) ==
  /\ ~Alive(r)
  /\ \E truncated \in BOOLEAN :
       Answer(r, "running", IF ~Expired(r) /\ child[r] = "exited" /\ ~truncated
                            THEN "0" ELSE "other")
  /\ slots' = [slots EXCEPT ![Pool(r)] = @ - 1]
  /\ child' = [child EXCEPT ![r] = "none"]
  /\ UNCHANGED <<serving, reqVars, clientVars, effect>>

-----------------------------------------------------------------------------
(***************************************************************************)
(* The subprocess: it changes the database once, or not at all, and exits. *)
(* read --unread moves its cursor so, when its output is in the buffer.    *)
(***************************************************************************)
TakeEffect(r) ==
  /\ Alive(r) /\ r \notin effect
  /\ effect' = effect \cup {r}
  /\ UNCHANGED <<serving, slots, reqVars, outcome, timeVars, at, hungup, child, code>>

Terminate(r) ==
  /\ Alive(r)
  /\ child' = [child EXCEPT ![r] = IF r \in effect THEN "exited" ELSE "failed"]
  /\ UNCHANGED <<serving, slots, reqVars, outcome, timeVars, at, hungup, effect, code>>

-----------------------------------------------------------------------------
(***************************************************************************)
(* The server process                                                      *)
(***************************************************************************)
\* ServeUntil on an interrupt: its context is cancelled, its listener closed.
Shutdown ==
  /\ serving = "up"
  /\ serving' = "stopping"
  /\ UNCHANGED <<slots, reqVars, outcome, timeVars, at, hungup, child, effect, code>>

\* The process goes, with the handlers it has: their answers are lost and their
\* clients find out at once or at their timeout.
Goes(place) ==
  /\ serving' = "down"
  /\ slots' = [p \in Pools |-> 0]
  /\ hungup' = {}
  /\ LET lost == {r \in Requests : at[r] \in {"wire", "queued", "running", "reply"}} IN
     /\ at' = [r \in Requests |-> IF r \in lost THEN place ELSE at[r]]
     /\ spent' = [r \in Requests |-> 0] /\ code' = [r \in Requests |-> "none"]
     /\ \E told \in SUBSET {r \in lost : Waiting(r)} :
          /\ outcome' = [r \in Requests |-> IF r \in told THEN "error" ELSE outcome[r]]
          /\ age' = [r \in Requests |-> IF r \in told THEN 0 ELSE age[r]]
          /\ lag' = [r \in Requests |-> IF r \in told THEN 0 ELSE lag[r]]
  /\ UNCHANGED <<reqVars, child, effect>>

\* Shutdown returns when the handlers are done or after three seconds: those whose
\* context is cancelled are done by then.
Stopped ==
  /\ serving = "stopping"
  /\ \A r \in Requests : Handled(r) => ~Cancelled(r)
  /\ Goes("over")

\* Killed: its subprocesses live on, without a deadline.
Crash == serving # "down" /\ Goes("cut")

\* NewHandler makes the semaphores anew.
Restart ==
  /\ serving = "down"
  /\ serving' = "up"
  /\ UNCHANGED <<slots, reqVars, outcome, timeVars, at, hungup, child, effect, code>>

\* Time passes for all, but not beyond a timer that is due.
Tick ==
  /\ \A r \in Requests : ~(Handled(r) /\ Done(r)) /\ (Waiting(r) => age[r] < ClientTimeout(r))
  /\ \E r \in Requests : Handled(r) \/ Waiting(r)
  /\ age' = [r \in Requests |-> IF Waiting(r) THEN age[r] + 1 ELSE age[r]]
  /\ lag' = [r \in Requests |-> IF Waiting(r) /\ ~Handled(r) THEN lag[r] + 1 ELSE lag[r]]
  /\ spent' = [r \in Requests |-> IF Handled(r) /\ ~Expired(r) THEN spent[r] + 1
                                                               ELSE spent[r]]
  /\ UNCHANGED <<serving, slots, reqVars, outcome, at, hungup, child, effect, code>>

Client(r) == Forward(r) \/ GiveUp(r) \/ Receive(r) \/ Break(r)
Handler(r) == Serve(r) \/ Admit(r) \/ Busy(r) \/ Kill(r) \/ Finish(r)

Next ==
  \/ \E r \in Requests :
       Client(r) \/ Handler(r) \/ HangUp(r) \/ TakeEffect(r) \/ Terminate(r)
  \/ Shutdown \/ Stopped \/ Crash \/ Restart
  \/ Tick

Spec == Init /\ [][Next]_vars

\* The timers fire and the handlers go on; no command must come to an end by
\* itself, no break or departure must be noticed.
FairSpec ==
  /\ Spec
  /\ WF_vars(Tick) /\ WF_vars(Stopped)
  /\ \A r \in Requests : WF_vars(GiveUp(r)) /\ WF_vars(Handler(r))
-----------------------------------------------------------------------------
(***************************************************************************)
(* Properties                                                              *)
(***************************************************************************)
\* Types; a semaphore holds one token for each handler past it.
TypeOK ==
  /\ serving \in {"up", "stopping", "down"}
  /\ \A p \in Pools :
       slots[p] = Cardinality({r \in Requests : at[r] = "running" /\ Pool(r) = p})
  /\ outcome \in [Requests -> Outcomes]
  /\ at \in [Requests -> Places]
  /\ \A r \in Requests :
       /\ age[r] \in 0..ClientTimeout(r) /\ lag[r] \in 0..age[r]
       /\ spent[r] \in 0..ServerTimeout(r)
  /\ verb \in [Requests -> Verbs \cup {"none"}] /\ flaws \in [Requests -> Flaws \cup {{}}]
  /\ hungup \subseteq {r \in Requests : Handled(r) /\ ~Waiting(r)}
  /\ child \in [Requests -> {"none", "alive", "exited", "failed"}]
  /\ effect \subseteq Requests
  /\ code \in [Requests -> Codes]

\* "Concurrency numbers are RSS bounds (each subprocess is a full xfa)"
\* (server.go:19-20), and "a shutdown cancels in-flight requests and their children,
\* instead of orphaning a 9m inbox --wait subprocess" (web/serve.go:54-56): whoever
\* gives up, times out or is stopped, every subprocess has its handler and a slot,
\* unless the server was killed.
ChildrenHaveSlots ==
  \A p \in Pools :
    LET children == {r \in Requests : Alive(r) /\ at[r] # "cut" /\ Pool(r) = p} IN
    /\ \A r \in children : at[r] = "running"
    /\ Cardinality(children) <= slots[p] /\ slots[p] <= Capacity(p)

\* "a little over the server's own VerbTimeout so the timed-out (124) envelope
\* arrives before the client gives up" (cmd/root.go:129-130): such a client gives up
\* on a server that is there only if the network took the slack, however long the
\* request queued behind others before it ran.
GivesUpOnTheWire ==
  [][\A r \in Requests :
       /\ verb[r] \notin {"hook", "inbox"} /\ at[r] \notin {"over", "cut"}
       /\ GiveUp(r)
       => lag[r] >= Slack]_vars

\* "a client that never disconnects cannot park a goroutine and its decoded body on
\* this unauthenticated listener forever" (server.go:74-76): although no command need
\* ever end, and no one need hang up, every handler does.
NoHandlerParked == \A r \in Requests : Handled(r) ~> ~Handled(r)

\* The promise of RemoteCall.  "A truncated payload must not read as a clean
\* success" (server.go:218), nor may a command that was killed, timed out or refused:
\* only hooks "fail open: nothing printed" (cmd/root.go:118-119).
Seen(r) == CASE outcome[r] = "none"    -> "no"
             [] outcome[r] = "waiting" -> "open"
             [] OTHER                  -> ExitCode(r)

Call == INSTANCE RemoteCall WITH known <- [r \in Requests |-> Seen(r)],
                                 hooks <- {r \in Requests : verb[r] = "hook"},
                                 unheard <- {r \in Requests : outcome[r] = "refused"},
                                 took <- effect

CallSpec == Call!Spec
=============================================================================
