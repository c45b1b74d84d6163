----------------------------- MODULE HooksProofs -----------------------------
(***************************************************************************)
(* Proofs about Hooks, for any sessions, handles, number of posts and      *)
(* number of hooks at once.                                                *)
(***************************************************************************)
EXTENDS Hooks, PostLogProofs

Prompted == {"lead", "fresh", "count", "set"}

Memory == [session : Sessions \cup {None}, board : Boards \cup {None}, hwm : Nat, max : Nat,
           lead : Handles \cup {None}, mine : SUBSET Handles, digest : SUBSET Nat, nudge : BOOLEAN]

\* What TypeOK leaves to be understood.
ShapeOK ==
  /\ job \in [Procs -> Events]
  /\ mem \in [Procs -> Memory]
  /\ claims \in [Once -> Nat]
  /\ \A p \in Procs : pc[p] # "idle" => Ses(p) \in Sessions /\ Board(p) \in Boards

\* A live post that no one of the session wrote.
Foreign(s, i) == Live(i) /\ posts[i].author \notin SessionHandles(s)

\* The session has been told of i, or a hook of it still has it to say or was killed
\* with it, or a lead of it has read that far, or a mark of another board passed it.
Covered(s, i) ==
  \/ i \in told[s]
  \/ \E p \in Procs : Ses(p) = s /\ i \in HeldUnread(p)
  \/ \E h \in Leads(s) : i <= cursor[h][posts[i].board]
  \/ i <= elsewhere[s][posts[i].board]

\* A digest that is about to be marked as given misses nothing of its board up to
\* its mark.
DigestOK ==
  \A p \in Procs :
    /\ pc[p] \in {"fresh", "count"} => mem[p].lead \in Leads(Ses(p))
    /\ pc[p] = "set" =>
         \A i \in 1..mem[p].max :
           Foreign(Ses(p), i) /\ posts[i].board = Board(p) =>
             Covered(Ses(p), i) \/ i \in mem[p].digest

\* A nudge is marked as given only by a hook that has it to say.
NudgeOK == \A p \in Procs : pc[p] = "nudge" => mem[p].nudge

\* Two prompts of a session at once are both unsure; what another has read of its
\* mark is not outdated.
UnracedOK ==
  /\ \A p, q \in Procs :
       p # q /\ Ses(p) = Ses(q) /\ pc[p] \in Prompted /\ pc[q] \in Prompted => p \in unsure
  /\ \A p \in Procs :
       p \notin unsure =>
         /\ pc[p] = "fresh" => mem[p].hwm = GetMark(PromptKey(Ses(p)))
         /\ pc[p] \in {"count", "set"} => mem[p].max > GetMark(PromptKey(Ses(p)))

\* p begins.
Runs(p) == \E s \in Sessions, b \in Boards : RunHook(p, s, b)

IInv ==
  /\ TypeOK /\ ShapeOK
  /\ FiresOnce
  /\ ThrottleIsEarned /\ NudgeOK
  /\ NothingSilenced /\ DigestOK
  /\ UnracedOK
-----------------------------------------------------------------------------
(***************************************************************************)
(* Types                                                                   *)
(***************************************************************************)
\* A write of the posts table is one of the log's, and ids only grow.
LEMMA WriteIsLogged ==
  ASSUME TypeOK, Write
  PROVE  LogNext /\ LogTypeOK' /\ seq' \in {seq, seq + 1}
<1>1. LogNext
  <2>1. LogTypeOK /\ 0 \in 0..seq /\ DOMAIN posts \subseteq 0..seq /\ agents \subseteq Handles
    BY DEF TypeOK, LogTypeOK
  <2>2. QED
    BY <2>1 DEF Write, LogNext
<1>2. QED
  BY <1>1, LogTypeStep, LogStepKeepsContent DEF TypeOK

\* The posts new to a session have ids, and a largest one.
LEMMA FreshOnes ==
  ASSUME LogTypeOK, NEW b, NEW n \in Nat, NEW mine, NewForeignPosts(b, n, mine) # {}
  PROVE  /\ Largest(NewForeignPosts(b, n, mine)) \in DOMAIN posts
         /\ Largest(NewForeignPosts(b, n, mine)) \in 1..seq
         /\ Largest(NewForeignPosts(b, n, mine)) > n
<1> DEFINE S == NewForeignPosts(b, n, mine)
<1>1. seq \in Nat /\ S \in SUBSET (0..seq)
  BY DEF NewForeignPosts, LiveOn, Live, LogTypeOK
<1>2. Largest(S) \in S
  <2> HIDE DEF S
  <2>1. QED
    BY <1>1, LargestOf DEF S
<1>3. QED
  BY <1>2 DEF NewForeignPosts, LogTypeOK

\* An upsert sets its mark and no other.
LEMMA OneMark ==
  ASSUME NEW key, NEW v, SetMark(key, v)
  PROVE  /\ DOMAIN reminders' = DOMAIN reminders \cup {key}
         /\ \A k : GetMark(k)' = IF k = key THEN v ELSE GetMark(k)
BY DEF SetMark, GetMark

\* The marks tell their sessions and their purposes apart.
LEMMA KeysDiffer ==
  ASSUME NEW s, NEW t
  PROVE  /\ PromptKey(s) = PromptKey(t) => s = t
         /\ NudgeKey(s) = NudgeKey(t) => s = t
         /\ PromptKey(s) \notin {StopKey(t), SubagentKey(t), StartKey(t), NudgeKey(t)}
         /\ NudgeKey(s) \notin {StopKey(t), SubagentKey(t), StartKey(t), PromptKey(t)}
         /\ StartKey(s) \notin Once /\ NudgeKey(s) \notin Once /\ PromptKey(s) \notin Once
         /\ s \in Sessions =>
              /\ StopKey(s) \in Once /\ SubagentKey(s) \in Once
              /\ StartKey(s) \in Keys /\ NudgeKey(s) \in Keys /\ PromptKey(s) \in Keys
         /\ \A k \in Once : k \in Keys
<1> USE DEF PromptKey, NudgeKey, StopKey, SubagentKey, StartKey, Once, Keys
<1>1. /\ PromptKey(s) = PromptKey(t) => s = t
      /\ NudgeKey(s) = NudgeKey(t) => s = t
  OBVIOUS
<1>2. /\ PromptKey(s) \notin {StopKey(t), SubagentKey(t), StartKey(t), NudgeKey(t)}
      /\ NudgeKey(s) \notin {StopKey(t), SubagentKey(t), StartKey(t), PromptKey(t)}
  OBVIOUS
<1>3. StartKey(s) \notin Once /\ NudgeKey(s) \notin Once /\ PromptKey(s) \notin Once
  OBVIOUS
<1>4. ASSUME s \in Sessions
      PROVE  /\ StopKey(s) \in Once /\ SubagentKey(s) \in Once
             /\ StartKey(s) \in Keys /\ NudgeKey(s) \in Keys /\ PromptKey(s) \in Keys
  BY <1>4
<1>5. ASSUME NEW k \in Once
      PROVE  k \in Keys
  OBVIOUS
<1> HIDE DEF PromptKey, NudgeKey, StopKey, SubagentKey, StartKey, Once, Keys
<1>6. QED
  BY <1>1, <1>2, <1>3, <1>4, <1>5

\* Where a hook may be, and what its variables hold there.
Places == {"idle", "digest", "posted", "remind-stop", "remind-subagent", "first", "prime",
           "lead", "fresh", "count", "set", "humans", "nudge", "print"}

\* The part of the types that is about hooks.
HooksOK ==
  /\ pc \in [Procs -> Places]
  /\ \A p \in Procs :
       /\ pc[p] = "idle" => mem[p] = Nothing
       /\ mem[p].max \in 0..seq /\ mem[p].hwm \in 0..seq
       /\ mem[p].mine \subseteq agents /\ mem[p].lead \in agents \cup {None}
       /\ mem[p].digest \subseteq 1..seq

\* The part that is about marks.
MarksOK ==
  /\ \A k \in DOMAIN reminders : k \in Keys /\ reminders[k] \in Nat
  /\ \A s \in Sessions : GetMark(PromptKey(s)) <= seq

\* The part that is about the histories.
HistoriesOK ==
  /\ told \in [Sessions -> SUBSET (1..seq)]
  /\ elsewhere \in [Sessions -> [Boards -> 0..seq]]
  /\ heard \subseteq Sessions /\ unsure \subseteq Procs

\* The type invariant says of every group of variables what its part says.
LEMMA TypesInParts ==
  TypeOK <=> /\ LogTypeOK /\ agents \subseteq Handles /\ cursor \in [Handles -> [Boards -> 0..seq]]
             /\ MarksOK /\ HooksOK /\ HistoriesOK
BY DEF TypeOK, MarksOK, HooksOK, HistoriesOK, Places

\* A hook's step leaves the posts, the handles and the cursors alone.
LEMMA HooksOnlyReadPosts ==
  ASSUME NEW p \in Procs, Step(p) \/ Die(p) \/ Runs(p)
  PROVE  UNCHANGED <<posts, seq, agents, cursor, job>>
BY DEF Step, Die, Runs, RunHook, StopPosted, StopRemind, Invoke, StartDigest, PromptStep,
   PromptLead, PromptFresh, PromptCount, PromptFails, PromptSet, MarkPrompt, PromptHumans,
   HumansFail, PromptNudge, PrintLine, End, logVars

\* The assignments of the prompt's steps keep the record's type.
LEMMA MemoryUpdates ==
  ASSUME NEW r \in Memory, NEW lead \in Handles \cup {None}, NEW mine \in SUBSET Handles,
         NEW n \in Nat, NEW m \in Nat, NEW digest \in SUBSET Nat, NEW nudge \in BOOLEAN
  PROVE  /\ [r EXCEPT !.lead = lead, !.mine = mine, !.hwm = n] \in Memory
         /\ [r EXCEPT !.max = m, !.hwm = n, !.mine = mine] \in Memory
         /\ [r EXCEPT !.digest = digest, !.lead = lead, !.max = m] \in Memory
         /\ [r EXCEPT !.nudge = nudge] \in Memory
         /\ [r EXCEPT !.lead = lead, !.mine = mine, !.hwm = n, !.max = m] \in Memory
<1>1. [r EXCEPT !.lead = lead, !.mine = mine, !.hwm = n] \in Memory
  BY DEF Memory
<1>2. [r EXCEPT !.max = m, !.hwm = n, !.mine = mine] \in Memory
  BY DEF Memory
<1>3. [r EXCEPT !.digest = digest, !.lead = lead, !.max = m] \in Memory
  BY DEF Memory
<1>4. [r EXCEPT !.nudge = nudge] \in Memory
  BY DEF Memory
<1>5. [r EXCEPT !.lead = lead, !.mine = mine, !.hwm = n, !.max = m] \in Memory
  BY DEF Memory
<1>6. QED
  BY <1>1, <1>2, <1>3, <1>4, <1>5

\* What a step of one hook has to respect.
LEMMA OneHook ==
  ASSUME HooksOK, ShapeOK, seq \in Nat, NEW p \in Procs, NEW m \in Memory, NEW to \in Places,
         pc' = [pc EXCEPT ![p] = to], mem' = [mem EXCEPT ![p] = m],
         UNCHANGED <<seq, agents, job, claims>>,
         to = "idle" => m = Nothing, to # "idle" => m.session \in Sessions /\ m.board \in Boards,
         m.max \in 0..seq, m.hwm \in 0..seq, m.mine \subseteq agents,
         m.lead \in agents \cup {None}, m.digest \subseteq 1..seq
  PROVE  HooksOK' /\ ShapeOK'
BY DEF HooksOK, ShapeOK, Ses, Board

\* A hook that goes on with what it has, or ends.
LEMMA OneHookMoves ==
  ASSUME HooksOK, ShapeOK, seq \in Nat, NEW p \in Procs, pc[p] # "idle",
         UNCHANGED <<seq, agents, job>>, claims' \in [Once -> Nat],
         Exit(p) \/ (UNCHANGED mem /\ \E to \in Places \ {"idle"} : pc' = [pc EXCEPT ![p] = to])
  PROVE  HooksOK' /\ ShapeOK'
<1>1. pc \in [Procs -> Places] /\ mem \in [Procs -> Memory]
  BY DEF HooksOK, ShapeOK
<1>2. CASE Exit(p)
  <2>1. Nothing \in Memory /\ Nothing.max = 0 /\ Nothing.hwm = 0 /\ Nothing.mine = {}
        /\ Nothing.lead = None /\ Nothing.digest = {}
    BY DEF Nothing, Memory
  <2>2. /\ pc' \in [Procs -> Places] /\ mem' \in [Procs -> Memory]
        /\ pc'[p] = "idle" /\ mem'[p] = Nothing
        /\ \A q \in Procs : q # p => pc'[q] = pc[q] /\ mem'[q] = mem[q]
    BY <1>1, <1>2, <2>1 DEF Exit, Places
  <2>3. ASSUME NEW q \in Procs
        PROVE  /\ pc'[q] = "idle" => mem'[q] = Nothing
               /\ pc'[q] # "idle" => mem'[q].session \in Sessions /\ mem'[q].board \in Boards
               /\ mem'[q].max \in 0..seq /\ mem'[q].hwm \in 0..seq
               /\ mem'[q].mine \subseteq agents /\ mem'[q].lead \in agents \cup {None}
               /\ mem'[q].digest \subseteq 1..seq
    <3>1. CASE q = p
      BY <2>1, <2>2, <3>1
    <3>2. CASE q # p
      BY <2>2, <3>2 DEF HooksOK, ShapeOK, Ses, Board
    <3>3. QED
      BY <3>1, <3>2
  <2>4. QED
    BY <2>2, <2>3 DEF HooksOK, ShapeOK, Ses, Board
<1>3. CASE UNCHANGED mem /\ \E to \in Places \ {"idle"} : pc' = [pc EXCEPT ![p] = to]
  <2>1. pc' \in [Procs -> Places] /\ \A q \in Procs : pc'[q] = "idle" <=> pc[q] = "idle"
    BY <1>1, <1>3
  <2>2. QED
    BY <1>3, <2>1 DEF HooksOK, ShapeOK, Ses, Board
<1>4. QED
  BY <1>2, <1>3

\* A hook's variables keep their types.
LEMMA HooksStep ==
  ASSUME TypeOK, ShapeOK, [Next]_vars
  PROVE  HooksOK' /\ ShapeOK'
<1> USE DEF HooksOK, ShapeOK, Ses, Board
<1>1. seq \in Nat /\ LogTypeOK /\ HooksOK /\ cursor \in [Handles -> [Boards -> 0..seq]] /\ agents \subseteq Handles
  BY TypesInParts DEF LogTypeOK
<1>2. Nothing \in Memory /\ Nothing.max = 0 /\ Nothing.hwm = 0 /\ Nothing.mine = {}
      /\ Nothing.lead = None /\ Nothing.digest = {}
  BY DEF Nothing, Memory
<1>3. ASSUME NEW p \in Procs, NEW s \in Sessions, NEW b \in Boards, RunHook(p, s, b)
      PROVE  HooksOK' /\ ShapeOK'
  BY <1>1, <1>2, <1>3 DEF Runs, RunHook, Goto, First, Events, Places, Memory, Nothing, logVars
<1>4. ASSUME NEW p \in Procs, StopPosted(p)
      PROVE  HooksOK' /\ ShapeOK'
  <2>1. /\ pc[p] = "posted" /\ UNCHANGED <<seq, agents, job>> /\ claims' \in [Once -> Nat]
        /\ Exit(p) \/ (UNCHANGED mem /\ pc' = [pc EXCEPT ![p] = "remind-stop"])
    BY <1>4 DEF StopPosted, Goto, logVars, hookVars
  <2>2. "posted" # "idle" /\ "remind-stop" \in Places \ {"idle"}
    BY DEF Places
  <2> HIDE DEF HooksOK, ShapeOK
  <2>3. QED
    BY <1>1, <2>1, <2>2, OneHookMoves
<1>5. ASSUME NEW p \in Procs, StopRemind(p)
      PROVE  HooksOK' /\ ShapeOK'
  <2>1. PICK key \in Once : Create(p, key)
    BY <1>5, KeysDiffer DEF StopRemind
  <2>2. claims' \in [Once -> Nat]
    BY <2>1 DEF Create
  <2>3. /\ pc[p] # "idle" /\ UNCHANGED <<seq, agents, job>>
        /\ Exit(p) \/ (UNCHANGED mem /\ pc' = [pc EXCEPT ![p] = "print"])
    BY <1>5 DEF StopRemind, Create, logVars
  <2>4. "print" \in Places \ {"idle"}
    BY DEF Places
  <2> HIDE DEF HooksOK, ShapeOK
  <2>5. QED
    BY <1>1, <2>2, <2>3, <2>4, OneHookMoves
<1>6. ASSUME NEW p \in Procs, Invoke(p)
      PROVE  HooksOK' /\ ShapeOK'
  BY <1>1, <1>2, <1>6 DEF Invoke, Goto, Places, logVars
<1>7. ASSUME NEW p \in Procs, StartDigest(p)
      PROVE  HooksOK' /\ ShapeOK'
  BY <1>1, <1>2, <1>7 DEF StartDigest, Goto, Places, Memory, logVars, hookVars
<1>8. ASSUME NEW p \in Procs, PromptLead(p)
      PROVE  HooksOK' /\ ShapeOK'
  <2>1. UNCHANGED <<seq, agents, job, claims>> /\ pc[p] = "lead" /\ Ses(p) \in Sessions /\ Board(p) \in Boards /\ mem[p] \in Memory
    BY <1>1, <1>8 DEF PromptLead, Goto, logVars, hookVars
  <2>2. CASE Leads(Ses(p)) = {}
    BY <1>1, <1>2, <1>8, <2>2 DEF PromptLead, Goto, Places, logVars, hookVars
  <2>3. CASE Leads(Ses(p)) # {}
    <3>1. PICK h \in Leads(Ses(p)), hwm \in {GetMark(PromptKey(Ses(p))), 0} :
            mem' = [mem EXCEPT ![p].lead = h, ![p].mine = SessionHandles(Ses(p)), ![p].hwm = hwm]
      BY <1>8, <2>3 DEF PromptLead
    <3> DEFINE mine == SessionHandles(Ses(p))
               m == [mem[p] EXCEPT !.lead = h, !.mine = mine, !.hwm = hwm]
    <3>2. hwm \in 0..seq
      BY <1>1, <2>1, TypesInParts DEF MarksOK, GetMark
    <3>3. h \in agents /\ mine \subseteq agents
      BY DEF Leads, SessionHandles
    <3> HIDE DEF mine
    <3>4. mem' = [mem EXCEPT ![p] = m]
      BY <1>1, <3>1 DEF mine
    <3>5. m \in Memory
      <4>1. hwm \in Nat /\ mine \in SUBSET Handles /\ h \in Handles
        BY <1>1, <3>2, <3>3
      <4>2. 0 \in Nat /\ {} \in SUBSET Nat /\ TRUE \in BOOLEAN
        OBVIOUS
      <4>3. QED
        BY <2>1, <4>1, <4>2, MemoryUpdates
    <3>6. m.session = mem[p].session /\ m.board = mem[p].board /\ m.max = mem[p].max /\ m.digest = mem[p].digest
          /\ m.lead = h /\ m.mine = mine /\ m.hwm = hwm
      BY <2>1 DEF Memory
    <3>7. pc' = [pc EXCEPT ![p] = "fresh"]
      BY <1>8, <2>3 DEF PromptLead, Goto
    <3> HIDE DEF m
    <3>8. QED
      BY <1>1, <2>1, <3>2, <3>3, <3>4, <3>5, <3>6, <3>7, OneHook DEF Places
  <2>4. QED
    BY <2>2, <2>3
<1>9. ASSUME NEW p \in Procs, PromptFresh(p)
      PROVE  HooksOK' /\ ShapeOK'
  <2> DEFINE fresh == NewForeignPosts(Board(p), mem[p].hwm, mem[p].mine)
             m == [mem[p] EXCEPT !.max = Largest(fresh), !.hwm = 0, !.mine = {}]
  <2>1. mem[p] \in Memory /\ Ses(p) \in Sessions /\ Board(p) \in Boards /\ UNCHANGED <<seq, agents, job, claims>>
    BY <1>1, <1>9 DEF PromptFresh, Goto, logVars, hookVars
  <2>2. Largest(fresh) \in 0..seq
    <3>1. mem[p].hwm \in Nat
      BY <2>1 DEF Memory
    <3>2. CASE fresh = {}
      BY <1>1, <3>2 DEF Largest
    <3>3. CASE fresh # {}
      <4>1. Largest(fresh) \in 1..seq
        BY <1>1, <3>1, <3>3, FreshOnes
      <4>2. QED
        BY <1>1, <4>1
    <3>4. QED
      BY <3>2, <3>3
  <2> HIDE DEF fresh
  <2>3. mem' = [mem EXCEPT ![p] = m]
    BY <1>1, <1>9 DEF PromptFresh, fresh
  <2>4. PICK to \in {"humans", "count"} : pc' = [pc EXCEPT ![p] = to]
    BY <1>9 DEF PromptFresh, Goto
  <2>5. m \in Memory
    <3>1. Largest(fresh) \in Nat
      BY <1>1, <2>2
    <3>2. 0 \in Nat /\ {} \in SUBSET Nat /\ {} \in SUBSET Handles /\ TRUE \in BOOLEAN
          /\ None \in Handles \cup {None}
      OBVIOUS
    <3>3. QED
      BY <2>1, <3>1, <3>2, MemoryUpdates
  <2>6. m.session = Ses(p) /\ m.board = Board(p) /\ m.max = Largest(fresh) /\ m.digest = mem[p].digest
        /\ m.lead = mem[p].lead /\ m.mine = {} /\ m.hwm = 0
    BY <2>1 DEF Memory
  <2>7. mem[p].digest \subseteq 1..seq /\ mem[p].lead \in agents \cup {None} /\ 0 \in 0..seq
    BY <1>1
  <2> HIDE DEF m
  <2>8. QED
    BY <1>1, <2>1, <2>2, <2>3, <2>4, <2>5, <2>6, <2>7, OneHook DEF Places
<1>10. ASSUME NEW p \in Procs, PromptCount(p)
       PROVE  HooksOK' /\ ShapeOK'
  <2> DEFINE unread == UnreadFor(Board(p), mem[p].lead)
  <2>1. mem[p] \in Memory /\ Ses(p) \in Sessions /\ Board(p) \in Boards /\ UNCHANGED <<seq, agents, job, claims>>
    BY <1>1, <1>10 DEF PromptCount, Goto, logVars, hookVars
  <2>2. unread \subseteq 1..seq
    BY <1>1 DEF UnreadFor, LiveOn, Live, LogTypeOK
  <2> HIDE DEF unread
  <2>3. PICK n \in 0..seq :
          mem' = [mem EXCEPT ![p].digest = unread, ![p].lead = None, ![p].max = n]
    <3>1. mem' = [mem EXCEPT ![p].digest = unread, ![p].lead = None,
                             ![p].max = IF unread = {} THEN 0 ELSE mem[p].max]
      BY <1>1, <1>10, <2>1 DEF PromptCount, unread, Memory
    <3>2. (IF unread = {} THEN 0 ELSE mem[p].max) \in 0..seq
      BY <1>1
    <3>3. QED
      BY <3>1, <3>2
  <2>4. PICK to \in {"humans", "set"} : pc' = [pc EXCEPT ![p] = to]
    BY <1>10 DEF PromptCount, Goto
  <2> DEFINE m == [mem[p] EXCEPT !.digest = unread, !.lead = None, !.max = n]
  <2>5. mem' = [mem EXCEPT ![p] = m]
    BY <1>1, <2>3
  <2>6. m \in Memory
    <3>1. n \in Nat /\ unread \in SUBSET Nat
      BY <1>1, <2>2
    <3>2. {} \in SUBSET Handles /\ TRUE \in BOOLEAN /\ None \in Handles \cup {None}
      OBVIOUS
    <3>3. QED
      BY <2>1, <3>1, <3>2, MemoryUpdates
  <2>7. m.session = Ses(p) /\ m.board = Board(p) /\ m.max = n /\ m.digest = unread
        /\ m.lead = None /\ m.mine = mem[p].mine /\ m.hwm = mem[p].hwm
    BY <2>1 DEF Memory
  <2>8. mem[p].mine \subseteq agents /\ mem[p].hwm \in 0..seq
    BY <1>1
  <2> HIDE DEF m
  <2>9. QED
    BY <1>1, <2>1, <2>2, <2>4, <2>5, <2>6, <2>7, <2>8, OneHook DEF Places
<1>11. ASSUME NEW p \in Procs, PromptSet(p)
       PROVE  HooksOK' /\ ShapeOK'
  <2> DEFINE m == [mem[p] EXCEPT !.max = 0]
  <2>1. /\ mem[p] \in Memory /\ Ses(p) \in Sessions /\ Board(p) \in Boards
        /\ UNCHANGED <<seq, agents, job, claims>>
    BY <1>11 DEF PromptSet, Goto, logVars
  <2>2. mem' = [mem EXCEPT ![p] = m] /\ pc' = [pc EXCEPT ![p] = "humans"]
    BY <1>11 DEF PromptSet, Goto
  <2>3. m \in Memory
    BY <2>1 DEF Memory
  <2>4. m.session = Ses(p) /\ m.board = Board(p) /\ m.max = 0 /\ m.digest = mem[p].digest
        /\ m.lead = mem[p].lead /\ m.mine = mem[p].mine /\ m.hwm = mem[p].hwm
    BY <2>1 DEF Memory
  <2>5. /\ mem[p].digest \subseteq 1..seq /\ 0 \in 0..seq /\ mem[p].hwm \in 0..seq
        /\ mem[p].mine \subseteq agents /\ mem[p].lead \in agents \cup {None}
    BY <1>1
  <2>6. "humans" \in Places /\ "humans" # "idle"
    BY DEF Places
  <2> HIDE DEF m, HooksOK, ShapeOK
  <2>7. QED
    BY <1>1, <2>1, <2>2, <2>3, <2>4, <2>5, <2>6, OneHook
<1>12. ASSUME NEW p \in Procs, PromptHumans(p)
       PROVE  HooksOK' /\ ShapeOK'
  <2>1. UNCHANGED <<seq, agents, job, claims>> /\ pc[p] = "humans" /\ Ses(p) \in Sessions /\ Board(p) \in Boards
    BY <1>1, <1>12 DEF PromptHumans, Goto, logVars, hookVars
  <2>2. CASE UNCHANGED mem
    BY <1>1, <1>12, <2>1, <2>2 DEF PromptHumans, Goto, Places
  <2>3. CASE mem' = [mem EXCEPT ![p].nudge = TRUE] /\ pc' = [pc EXCEPT ![p] = "nudge"]
    <3> DEFINE m == [mem[p] EXCEPT !.nudge = TRUE]
    <3>1. mem[p] \in Memory /\ mem' = [mem EXCEPT ![p] = m]
      BY <2>3
    <3>2. m \in Memory
      BY <3>1 DEF Memory
    <3>3. m.session = Ses(p) /\ m.board = Board(p) /\ m.max = mem[p].max /\ m.digest = mem[p].digest
          /\ m.lead = mem[p].lead /\ m.mine = mem[p].mine /\ m.hwm = mem[p].hwm
      BY <3>1 DEF Memory
    <3>4. /\ mem[p].digest \subseteq 1..seq /\ mem[p].hwm \in 0..seq /\ mem[p].max \in 0..seq
          /\ mem[p].mine \subseteq agents /\ mem[p].lead \in agents \cup {None}
      BY <1>1
    <3>5. "nudge" \in Places /\ "nudge" # "idle"
      BY DEF Places
    <3> HIDE DEF m, HooksOK, ShapeOK
    <3>6. QED
      BY <1>1, <2>1, <2>3, <3>1, <3>2, <3>3, <3>4, <3>5, OneHook
  <2>4. QED
    BY <1>12, <2>2, <2>3 DEF PromptHumans, Goto
<1>13. ASSUME NEW p \in Procs, PromptNudge(p)
       PROVE  HooksOK' /\ ShapeOK'
  BY <1>1, <1>2, <1>13 DEF PromptNudge, Goto, Places, Memory, logVars
<1>14. ASSUME NEW p \in Procs, End(p)
       PROVE  HooksOK' /\ ShapeOK'
  BY <1>1, <1>2, <1>14 DEF End, Exit, Places, Memory, logVars
<1>15. ASSUME NEW h \in Handles, Register(h) \/ ReadUp(h)
       PROVE  HooksOK' /\ ShapeOK'
  BY <1>1, <1>2, <1>15 DEF Register, ReadUp, logVars, hookVars
<1>16. CASE Write
  <2>1. UNCHANGED <<agents, job, pc, mem, claims>>
    BY <1>16 DEF Write, hookVars
  <2>2. 0..seq \subseteq 0..seq' /\ 1..seq \subseteq 1..seq'
    BY <1>1, <1>16, WriteIsLogged
  <2>3. QED
    BY <1>1, <2>1, <2>2
<1>17. ASSUME NEW s \in Sessions, Slide(s)
       PROVE  HooksOK' /\ ShapeOK'
  BY <1>1, <1>2, <1>17 DEF Slide, logVars
<1>18. ASSUME NEW p \in Procs, PromptFails(p)
       PROVE  HooksOK' /\ ShapeOK'
  <2> DEFINE m == [mem[p] EXCEPT !.lead = None, !.mine = {}, !.hwm = 0, !.max = 0]
  <2>1. /\ mem[p] \in Memory /\ Ses(p) \in Sessions /\ Board(p) \in Boards
        /\ UNCHANGED <<seq, agents, job, claims>>
    BY <1>1, <1>18 DEF PromptFails, Goto, logVars, hookVars
  <2>2. mem' = [mem EXCEPT ![p] = m] /\ pc' = [pc EXCEPT ![p] = "humans"]
    BY <1>1, <1>18 DEF PromptFails, Goto
  <2>3. m \in Memory
    BY <2>1 DEF Memory
  <2>4. m.session = Ses(p) /\ m.board = Board(p) /\ m.max = 0 /\ m.digest = mem[p].digest
        /\ m.lead = None /\ m.mine = {} /\ m.hwm = 0
    BY <2>1 DEF Memory
  <2>5. mem[p].digest \subseteq 1..seq /\ 0 \in 0..seq
    BY <1>1
  <2> HIDE DEF m
  <2>6. QED
    BY <1>1, <2>1, <2>2, <2>3, <2>4, <2>5, OneHook DEF Places
<1>19. ASSUME NEW p \in Procs, HumansFail(p)
       PROVE  HooksOK' /\ ShapeOK'
  <2> DEFINE m == [mem[p] EXCEPT !.nudge = TRUE]
  <2>1. /\ mem[p] \in Memory /\ Ses(p) \in Sessions /\ Board(p) \in Boards
        /\ UNCHANGED <<seq, agents, job, claims>>
    BY <1>1, <1>19 DEF HumansFail, Goto, logVars, hookVars
  <2>2. \E to \in {"nudge", "print"} : pc' = [pc EXCEPT ![p] = to]
    BY <1>19 DEF HumansFail, Goto
  <2>3. CASE UNCHANGED mem
    BY <1>1, <2>1, <2>2, <2>3 DEF Places
  <2>4. CASE mem' = [mem EXCEPT ![p] = m]
    <3>1. m \in Memory
      BY <2>1 DEF Memory
    <3>2. m.session = Ses(p) /\ m.board = Board(p) /\ m.max = mem[p].max /\ m.digest = mem[p].digest
          /\ m.lead = mem[p].lead /\ m.mine = mem[p].mine /\ m.hwm = mem[p].hwm
      BY <2>1 DEF Memory
    <3> HIDE DEF m
    <3>3. QED
      BY <1>1, <2>1, <2>2, <2>4, <3>1, <3>2, OneHook DEF Places
  <2>5. QED
    BY <1>1, <1>19, <2>3, <2>4 DEF HumansFail
<1>20. CASE UNCHANGED vars
  BY <1>1, <1>20 DEF vars, hookVars
<1>21. QED
  BY <1>3, <1>4, <1>5, <1>6, <1>7, <1>8, <1>9, <1>10, <1>11, <1>12, <1>13, <1>14, <1>15, <1>16,
     <1>17, <1>18, <1>19, <1>20 DEF Next, Runs, Step, PromptStep, PrintLine, Die

\* The values of marks are numbers, and the prompt's are ids given out.
LEMMA MarksStep ==
  ASSUME TypeOK, ShapeOK, [Next]_vars
  PROVE  MarksOK'
<1>1. seq \in Nat /\ MarksOK /\ HooksOK
  BY TypesInParts DEF LogTypeOK
<1>2. seq' \in {seq, seq + 1}
  BY WriteIsLogged DEF Next, Step, PromptStep, PrintLine, Die, Runs, RunHook, StopPosted,
     StopRemind, Invoke, StartDigest, PromptLead, PromptFresh, PromptCount, PromptFails,
     HumansFail, PromptSet, MarkPrompt, PromptHumans, PromptNudge, End, Register, ReadUp, Slide,
     vars, logVars
<1>3. ASSUME UNCHANGED reminders
      PROVE  MarksOK'
  BY <1>1, <1>2, <1>3 DEF MarksOK, GetMark
<1>4. ASSUME NEW key \in Keys, NEW v \in Nat, SetMark(key, v),
             \A s \in Sessions : key = PromptKey(s) => v <= seq
      PROVE  MarksOK'
  <2>1. \A k \in DOMAIN reminders' : k \in Keys /\ reminders'[k] \in Nat
    BY <1>1, <1>4 DEF SetMark, MarksOK
  <2>2. ASSUME NEW s \in Sessions
        PROVE  GetMark(PromptKey(s))' <= seq'
    <3> DEFINE k == PromptKey(s)
    <3>1. GetMark(k)' = IF k = key THEN v ELSE GetMark(k)
      BY <1>4, OneMark
    <3>2. k = key => v <= seq
      BY <1>4
    <3>3. GetMark(k) <= seq
      BY <1>1 DEF MarksOK
    <3>4. CASE k = key
      BY <1>1, <1>2, <1>4, <3>1, <3>2, <3>4
    <3>5. CASE k # key
      <4>1. GetMark(k) \in Nat
        BY <1>1 DEF MarksOK, GetMark
      <4>2. QED
        BY <1>1, <1>2, <3>1, <3>3, <3>5, <4>1
    <3>6. QED
      BY <3>4, <3>5
  <2>3. QED
    BY <2>1, <2>2 DEF MarksOK
<1>5. ASSUME NEW p \in Procs, NEW s \in Sessions, s = Ses(p), SetMark(StopKey(s), 0)
                \/ SetMark(SubagentKey(s), 0) \/ SetMark(StartKey(s), 1) \/ SetMark(NudgeKey(s), 1)
                \/ SetMark(PromptKey(s), mem[p].max)
      PROVE  MarksOK'
  BY <1>1, <1>4, <1>5, KeysDiffer DEF HooksOK
<1>6. ASSUME NEW p \in Procs, StopRemind(p) \/ Invoke(p) \/ PromptSet(p) \/ PromptNudge(p)
      PROVE  MarksOK'
  <2>1. Ses(p) \in Sessions
    BY <1>6 DEF StopRemind, Invoke, PromptSet, MarkPrompt, PromptNudge, Goto, ShapeOK
  <2>2. \/ UNCHANGED reminders
        \/ SetMark(StopKey(Ses(p)), 0) \/ SetMark(SubagentKey(Ses(p)), 0)
        \/ SetMark(StartKey(Ses(p)), 1) \/ SetMark(NudgeKey(Ses(p)), 1)
        \/ SetMark(PromptKey(Ses(p)), mem[p].max)
    BY <1>6 DEF StopRemind, Create, Invoke, PromptSet, MarkPrompt, PromptNudge, Exit
  <2>3. QED
    BY <1>3, <1>5, <2>1, <2>2
<1>7. ASSUME NEW s \in Sessions, Slide(s)
      PROVE  MarksOK'
  BY <1>1, <1>4, <1>7, KeysDiffer DEF Slide
<1>8. QED
  BY <1>3, <1>6, <1>7 DEF Next, Step, PromptStep, PrintLine, Die, Runs, RunHook, StopPosted,
     StartDigest, PromptLead, PromptFresh, PromptCount, PromptFails, HumansFail, PromptHumans, End,
     Register, ReadUp, Write, vars, hookVars

\* The histories name posts and sessions.
LEMMA HistoriesStep ==
  ASSUME TypeOK, ShapeOK, [Next]_vars
  PROVE  HistoriesOK'
<1>1. seq \in Nat /\ HooksOK /\ HistoriesOK
  BY TypesInParts DEF LogTypeOK
<1>2. ASSUME UNCHANGED <<told, heard, elsewhere, unsure>>, seq' \in {seq, seq + 1}
      PROVE  HistoriesOK'
  <2>1. 1..seq \subseteq 1..seq' /\ 0..seq \subseteq 0..seq'
    BY <1>1, <1>2
  <2>2. elsewhere' \in [Sessions -> [Boards -> 0..seq']]
    BY <1>1, <1>2, <2>1 DEF HistoriesOK
  <2>3. QED
    BY <1>1, <1>2, <2>1, <2>2 DEF HistoriesOK
<1>3. ASSUME NEW p \in Procs, Runs(p) \/ Invoke(p) \/ PromptLead(p)
      PROVE  HistoriesOK'
  <2>1. unsure' \subseteq Procs /\ UNCHANGED <<seq, told, heard, elsewhere>>
    BY <1>1, <1>3 DEF Runs, RunHook, Invoke, PromptLead, BeginPrompt, Prompting, HistoriesOK,
       logVars, hookVars
  <2>2. QED
    BY <1>1, <2>1 DEF HistoriesOK
<1>4. ASSUME NEW p \in Procs, PromptSet(p)
      PROVE  HistoriesOK'
  <2>1. Ses(p) \in Sessions /\ mem[p].max \in 0..seq /\ UNCHANGED <<seq, told, heard, unsure>>
    BY <1>1, <1>4 DEF PromptSet, Goto, ShapeOK, HooksOK, logVars
  <2>2. elsewhere' \in [Sessions -> [Boards -> 0..seq]]
    BY <1>1, <1>4, <2>1 DEF PromptSet, MarkPrompt, HistoriesOK
  <2>3. QED
    BY <1>1, <2>1, <2>2 DEF HistoriesOK
<1>5. ASSUME NEW p \in Procs, End(p), pc[p] # "idle"
      PROVE  HistoriesOK'
  <2>1. Ses(p) \in Sessions /\ HeldUnread(p) \subseteq 1..seq
    BY <1>1, <1>5 DEF ShapeOK, HooksOK, HeldUnread
  <2>2. QED
    BY <1>1, <1>5, <2>1 DEF HistoriesOK, End, logVars
<1>6. ASSUME NEW s \in Sessions, Slide(s)
      PROVE  HistoriesOK'
  BY <1>1, <1>6 DEF HistoriesOK, Slide, logVars
<1>7. ASSUME Write
      PROVE  HistoriesOK'
  BY <1>1, <1>2, <1>7, WriteIsLogged DEF Write, hookVars
<1>8. QED
  BY <1>2, <1>3, <1>4, <1>5, <1>6, <1>7 DEF Next, Runs, Step, PromptStep, PrintLine, Die,
     StopPosted, StopRemind, StartDigest, PromptFresh, PromptCount, PromptFails, HumansFail,
     PromptHumans, PromptNudge, Register, ReadUp, vars, logVars, hookVars

\* Handles are registered once and for all, and a cursor is an id given out.
LEMMA AgentsStep ==
  ASSUME TypeOK, [Next]_vars
  PROVE  /\ LogTypeOK' /\ agents' \subseteq Handles /\ cursor' \in [Handles -> [Boards -> 0..seq']]
         /\ agents \subseteq agents'
         /\ \A h \in Handles, b \in Boards : cursor[h][b] <= cursor'[h][b]
<1> DEFINE Kept == /\ LogTypeOK' /\ agents' \subseteq Handles
                   /\ cursor' \in [Handles -> [Boards -> 0..seq']]
                   /\ agents \subseteq agents'
                   /\ \A h \in Handles, b \in Boards : cursor[h][b] <= cursor'[h][b]
<1>1. /\ LogTypeOK /\ seq \in Nat /\ agents \subseteq Handles
      /\ cursor \in [Handles -> [Boards -> 0..seq]]
  BY DEF TypeOK, LogTypeOK
<1>2. ASSUME UNCHANGED <<posts, seq, agents, cursor>>
      PROVE  Kept
  BY <1>1, <1>2 DEF LogTypeOK
<1>3. ASSUME NEW h \in Handles, Register(h)
      PROVE  Kept
  BY <1>1, <1>3 DEF Register, logVars, LogTypeOK
<1>4. ASSUME NEW h \in Handles, ReadUp(h)
      PROVE  Kept
  <2>1. PICK b \in Boards, i \in 1..seq :
          i > cursor[h][b] /\ cursor' = [cursor EXCEPT ![h][b] = i]
    BY <1>1, <1>4 DEF ReadUp, UnreadFor, LiveOn, Live, LogTypeOK
  <2>2. UNCHANGED <<posts, seq, agents>>
    BY <1>4 DEF ReadUp, logVars
  <2>3. cursor' \in [Handles -> [Boards -> 0..seq]]
    BY <1>1, <2>1
  <2>4. \A g \in Handles, c \in Boards : cursor[g][c] <= cursor'[g][c]
    BY <1>1, <2>1
  <2>5. QED
    BY <1>1, <2>2, <2>3, <2>4 DEF LogTypeOK
<1>5. ASSUME Write
      PROVE  Kept
  <2>1. LogTypeOK' /\ 0..seq \subseteq 0..seq' /\ UNCHANGED <<agents, cursor>>
    BY <1>1, <1>5, WriteIsLogged DEF Write
  <2>2. cursor' \in [Handles -> [Boards -> 0..seq']]
    BY <1>1, <2>1
  <2>3. QED
    BY <1>1, <2>1, <2>2
<1>6. QED
  BY <1>2, <1>3, <1>4, <1>5, HooksOnlyReadPosts DEF Next, Runs, Slide, vars, logVars

\* Every step keeps the types and the shape of the hooks.
LEMMA TypeStep ==
  ASSUME TypeOK, ShapeOK, [Next]_vars
  PROVE  TypeOK' /\ ShapeOK'
<1>1. LogTypeOK' /\ agents' \subseteq Handles /\ cursor' \in [Handles -> [Boards -> 0..seq']]
  BY AgentsStep
<1>2. MarksOK' /\ HooksOK' /\ HistoriesOK' /\ ShapeOK'
  BY MarksStep, HooksStep, HistoriesStep
<1>3. QED
  BY <1>1, <1>2 DEF TypeOK, MarksOK, HooksOK, HistoriesOK, Places

-----------------------------------------------------------------------------
(***************************************************************************)
(* What fires once                                                         *)
(***************************************************************************)
\* Of the marks that are upserted, none is a row that fires once.
LEMMA UpsertsLeaveOnceAlone ==
  ASSUME ShapeOK, [Next]_vars, ~\E p \in Procs : StopRemind(p)
  PROVE  UNCHANGED claims /\ \A k \in Once : k \in DOMAIN reminders' <=> k \in DOMAIN reminders
<1>1. ASSUME NEW key, NEW v, SetMark(key, v), key \notin Once
      PROVE  \A k \in Once : k \in DOMAIN reminders' <=> k \in DOMAIN reminders
  BY <1>1 DEF SetMark
<1>2. ASSUME NEW p \in Procs, Invoke(p) \/ PromptSet(p) \/ PromptNudge(p)
      PROVE  UNCHANGED claims /\ \A k \in Once : k \in DOMAIN reminders' <=> k \in DOMAIN reminders
  <2>1. UNCHANGED claims
    BY <1>2 DEF Invoke, PromptSet, MarkPrompt, PromptNudge
  <2>2. UNCHANGED reminders \/ SetMark(StartKey(Ses(p)), 1) \/ SetMark(NudgeKey(Ses(p)), 1)
        \/ SetMark(PromptKey(Ses(p)), mem[p].max)
    BY <1>2 DEF Invoke, PromptSet, MarkPrompt, PromptNudge
  <2>3. QED
    BY <1>1, <2>1, <2>2, KeysDiffer
<1>3. ASSUME NEW s \in Sessions, Slide(s)
      PROVE  UNCHANGED claims /\ \A k \in Once : k \in DOMAIN reminders' <=> k \in DOMAIN reminders
  BY <1>1, <1>3, KeysDiffer DEF Slide
<1>4. CASE UNCHANGED <<reminders, claims>>
  BY <1>4
<1>5. QED
  BY <1>2, <1>3, <1>4 DEF Next, Step, PromptStep, PrintLine, Die, Runs, RunHook, StopPosted,
     StartDigest, PromptLead, PromptFresh, PromptCount, PromptFails, HumansFail, PromptHumans, End,
     Register, ReadUp, Write, vars, hookVars

\* A row that fires once is counted as claimed when it is inserted, and only then.
LEMMA FiresOnceStep ==
  ASSUME ShapeOK, FiresOnce, [Next]_vars
  PROVE  FiresOnce'
<1>1. ASSUME NEW p \in Procs, NEW key \in Once, Create(p, key)
      PROVE  FiresOnce'
  <2>1. CASE key \in DOMAIN reminders
    BY <1>1, <2>1 DEF Create, FiresOnce
  <2>2. CASE key \notin DOMAIN reminders
    <3>1. DOMAIN reminders' = DOMAIN reminders \cup {key} /\ claims' = [claims EXCEPT ![key] = @ + 1]
      BY <1>1, <2>2 DEF Create, SetMark
    <3>2. claims[key] = 0 /\ claims \in [Once -> Nat]
      BY <2>2 DEF FiresOnce, ShapeOK
    <3>3. QED
      BY <3>1, <3>2 DEF FiresOnce
  <2>3. QED
    BY <2>1, <2>2
<1>2. ASSUME NEW p \in Procs, StopRemind(p)
      PROVE  FiresOnce'
  <2>1. Ses(p) \in Sessions
    BY <1>2 DEF StopRemind, ShapeOK
  <2>2. StopKey(Ses(p)) \in Once /\ SubagentKey(Ses(p)) \in Once
    BY <2>1, KeysDiffer
  <2>3. QED
    BY <1>1, <1>2, <2>2 DEF StopRemind
<1>3. CASE ~\E p \in Procs : StopRemind(p)
  BY <1>3, UpsertsLeaveOnceAlone DEF FiresOnce
<1>4. QED
  BY <1>2, <1>3

-----------------------------------------------------------------------------
(***************************************************************************)
(* The throttle                                                            *)
(***************************************************************************)
\* A hook other than PromptNudge's, or the clock's, leaves the throttle as it is.
LEMMA ThrottleFrame ==
  ASSUME [Next]_vars, ~\E p \in Procs : PromptNudge(p), ~\E s \in Sessions : Slide(s)
  PROVE  \A s \in Sessions : GetMark(NudgeKey(s))' = GetMark(NudgeKey(s))
<1>1. ASSUME NEW key, NEW v, SetMark(key, v), \A s \in Sessions : NudgeKey(s) # key
      PROVE  \A s \in Sessions : GetMark(NudgeKey(s))' = GetMark(NudgeKey(s))
  BY <1>1, OneMark
<1>2. CASE UNCHANGED reminders
  BY <1>2 DEF GetMark
<1>3. ASSUME NEW p \in Procs, StopRemind(p) \/ Invoke(p) \/ PromptSet(p)
      PROVE  \A s \in Sessions : GetMark(NudgeKey(s))' = GetMark(NudgeKey(s))
  <2>1. \/ UNCHANGED reminders
        \/ SetMark(StopKey(Ses(p)), 0) \/ SetMark(SubagentKey(Ses(p)), 0)
        \/ SetMark(StartKey(Ses(p)), 1) \/ SetMark(PromptKey(Ses(p)), mem[p].max)
    BY <1>3 DEF StopRemind, Create, Invoke, PromptSet, MarkPrompt, Exit
  <2>2. QED
    BY <1>1, <1>2, <2>1, KeysDiffer
<1>4. QED
  BY <1>2, <1>3 DEF Next, Step, PromptStep, PrintLine, Die, Runs, RunHook, StopPosted, StartDigest,
     PromptLead, PromptFresh, PromptCount, PromptFails, HumansFail, PromptHumans, End, Register,
     ReadUp, Write, vars, hookVars

\* A hook keeps what it has to say until its end, which leaves it in the histories.
LEMMA WordsAreKept ==
  ASSUME TypeOK, ShapeOK, [Next]_vars, NEW p \in Procs, ~(End(p) /\ pc[p] # "idle")
  PROVE  /\ pc[p] \in {"humans", "nudge", "print"} => Ses(p)' = Ses(p)
         /\ HeldUnread(p) \subseteq HeldUnread(p)'
         /\ HeldNudge(p) => HeldNudge(p)'
<1> USE DEF HeldUnread, HeldNudge, Ses
<1>1. pc \in [Procs -> Places] /\ mem \in [Procs -> Memory]
  BY TypesInParts DEF HooksOK, ShapeOK
<1>2. CASE pc'[p] = pc[p] /\ mem'[p] = mem[p]
  BY <1>2
<1>3. CASE Runs(p)
  BY <1>3 DEF Runs, RunHook, Goto
<1>4. CASE StopPosted(p) \/ StopRemind(p) \/ Invoke(p) \/ StartDigest(p) \/ PromptLead(p)
           \/ PromptFresh(p) \/ PromptCount(p) \/ PromptFails(p) \/ PromptSet(p)
  BY <1>4 DEF StopPosted, StopRemind, Invoke, StartDigest, PromptLead, PromptFresh, PromptCount,
              PromptFails, PromptSet, MarkPrompt, Goto
<1>5. CASE PromptHumans(p) \/ HumansFail(p)
  <2>1. pc[p] = "humans" /\ pc'[p] \in {"nudge", "print"}
    BY <1>1, <1>5 DEF PromptHumans, HumansFail, Goto
  <2>2. mem'[p].session = mem[p].session /\ mem'[p].digest = mem[p].digest
    BY <1>1, <1>5 DEF PromptHumans, HumansFail, Memory
  <2>3. QED
    BY <2>1, <2>2
<1>6. CASE PromptNudge(p)
  BY <1>1, <1>6 DEF PromptNudge, Goto
<1>7. ASSUME NEW q \in Procs, q # p, Step(q) \/ Die(q) \/ Runs(q)
      PROVE  pc'[p] = pc[p] /\ mem'[p] = mem[p]
  BY <1>1, <1>7 DEF Step, Die, Runs, RunHook, StopPosted, StopRemind, Create, Invoke, StartDigest,
     PromptStep, PromptLead, PromptFresh, PromptCount, PromptFails, HumansFail, PromptSet,
     MarkPrompt, PromptHumans, PromptNudge, PrintLine, End, Exit, Goto
<1>8. CASE UNCHANGED <<pc, mem>>
  BY <1>2, <1>8
<1>9. QED
  BY <1>2, <1>3, <1>4, <1>5, <1>6, <1>7, <1>8 DEF Next, Runs, Step, PromptStep, PrintLine, Die,
     Register, ReadUp, Write, Slide, vars

\* What the histories say they go on saying, until the window of a nudge is over.
LEMMA HistoriesGrow ==
  ASSUME TypeOK, ShapeOK, [Next]_vars
  PROVE  /\ \A s \in Sessions : told[s] \subseteq told'[s]
         /\ \A s \in heard : s \in heard' \/ Slide(s)
         /\ \A p \in Procs : End(p) /\ pc[p] # "idle" =>
              /\ Ses(p) \in Sessions /\ HeldUnread(p) \subseteq told'[Ses(p)]
              /\ HeldNudge(p) => Ses(p) \in heard'
<1>1. told \in [Sessions -> SUBSET (1..seq)]
  BY TypesInParts DEF HistoriesOK
<1>2. ASSUME NEW p \in Procs, End(p), pc[p] # "idle"
      PROVE  /\ \A s \in Sessions : told[s] \subseteq told'[s]
             /\ heard \subseteq heard'
             /\ Ses(p) \in Sessions /\ HeldUnread(p) \subseteq told'[Ses(p)]
             /\ HeldNudge(p) => Ses(p) \in heard'
  <2>1. Ses(p) \in Sessions
    BY <1>2 DEF ShapeOK
  <2>2. QED
    BY <1>1, <1>2, <2>1 DEF End
<1>3. ASSUME NEW s \in Sessions, Slide(s)
      PROVE  UNCHANGED told /\ heard' = heard \ {s}
  BY <1>3 DEF Slide
<1>4. CASE UNCHANGED <<told, heard>>
  BY <1>1, <1>2, <1>4
<1>5. CASE \E p \in Procs : End(p) /\ pc[p] # "idle"
  BY <1>2, <1>5
<1>6. CASE \E s \in Sessions : Slide(s)
  BY <1>2, <1>3, <1>6
<1>7. QED
  BY <1>4, <1>5, <1>6 DEF Next, Step, PromptStep, PrintLine, Die, Runs, RunHook, StopPosted,
     StopRemind, Invoke, StartDigest, PromptLead, PromptFresh, PromptCount, PromptFails,
     HumansFail, PromptSet, MarkPrompt, PromptHumans, PromptNudge, Register, ReadUp, Write, vars,
     hookVars

\* A nudge's row outlives no window without a nudge heard, or held by a hook.
LEMMA ThrottleStep ==
  ASSUME TypeOK, ShapeOK, ThrottleIsEarned, NudgeOK, [Next]_vars
  PROVE  ThrottleIsEarned'
<1>1. ASSUME NEW s \in Sessions, GetMark(NudgeKey(s)) = 1, ~Slide(s)
      PROVE  \/ s \in heard'
             \/ \E p \in Procs : Ses(p)' = s /\ HeldNudge(p)'
  <2>1. CASE s \in heard
    BY <1>1, <2>1, HistoriesGrow
  <2>2. ASSUME NEW p \in Procs, Ses(p) = s, HeldNudge(p)
        PROVE  \/ s \in heard'
               \/ \E q \in Procs : Ses(q)' = s /\ HeldNudge(q)'
    <3>1. CASE End(p) /\ pc[p] # "idle"
      BY <2>2, <3>1, HistoriesGrow
    <3>2. CASE ~(End(p) /\ pc[p] # "idle")
      <4>1. pc[p] = "print"
        BY <2>2 DEF HeldNudge
      <4>2. Ses(p)' = s /\ HeldNudge(p)'
        BY <2>2, <3>2, <4>1, WordsAreKept
      <4>3. QED
        BY <4>2
    <3>3. QED
      BY <3>1, <3>2
  <2>3. QED
    BY <1>1, <2>1, <2>2 DEF ThrottleIsEarned
<1>2. ASSUME NEW p \in Procs, PromptNudge(p), NEW s \in Sessions, GetMark(NudgeKey(s))' = 1
      PROVE  GetMark(NudgeKey(s)) = 1 \/ (Ses(p)' = s /\ HeldNudge(p)')
  <2>1. UNCHANGED reminders \/ SetMark(NudgeKey(Ses(p)), 1)
    BY <1>2 DEF PromptNudge
  <2>2. GetMark(NudgeKey(s)) = 1 \/ s = Ses(p)
    BY <1>2, <2>1, OneMark, KeysDiffer DEF GetMark
  <2>3. Ses(p)' = Ses(p) /\ HeldNudge(p)'
    BY <1>2, TypesInParts DEF PromptNudge, Goto, NudgeOK, HeldNudge, Ses, HooksOK
  <2>4. QED
    BY <2>2, <2>3
<1>3. ASSUME NEW s \in Sessions, GetMark(NudgeKey(s))' = 1
      PROVE  ~Slide(s)
  <2>1. SetMark(NudgeKey(s), 0) => GetMark(NudgeKey(s))' = 0
    BY OneMark
  <2>2. QED
    BY <1>3, <2>1 DEF Slide
<1>4. ASSUME NEW t \in Sessions, Slide(t), NEW s \in Sessions, GetMark(NudgeKey(s))' = 1
      PROVE  GetMark(NudgeKey(s)) = 1
  <2>1. SetMark(NudgeKey(t), 0) /\ NudgeKey(s) # NudgeKey(t)
    BY <1>3, <1>4, KeysDiffer DEF Slide
  <2>2. QED
    BY <1>4, <2>1, OneMark
<1>5. ASSUME NEW s \in Sessions, GetMark(NudgeKey(s))' = 1
      PROVE  \/ s \in heard'
             \/ \E p \in Procs : Ses(p)' = s /\ HeldNudge(p)'
  <2>1. ~Slide(s)
    BY <1>3, <1>5
  <2>2. CASE \E p \in Procs : PromptNudge(p)
    BY <1>1, <1>2, <1>5, <2>1, <2>2
  <2>3. CASE \E t \in Sessions : Slide(t)
    BY <1>1, <1>4, <1>5, <2>1, <2>3
  <2>4. CASE ~(\E p \in Procs : PromptNudge(p)) /\ ~\E t \in Sessions : Slide(t)
    BY <1>1, <1>5, <2>1, <2>4, ThrottleFrame
  <2>5. QED
    BY <2>2, <2>3, <2>4
<1>6. QED
  BY <1>5 DEF ThrottleIsEarned

\* A hook comes to write the nudge's row with the nudge to say.
LEMMA NudgeStep ==
  ASSUME TypeOK, ShapeOK, NudgeOK, [Next]_vars
  PROVE  NudgeOK'
<1>1. pc \in [Procs -> Places] /\ mem \in [Procs -> Memory] /\ job \in [Procs -> Events]
  BY TypesInParts DEF HooksOK, ShapeOK
<1>2. ASSUME NEW p \in Procs, PromptHumans(p) \/ HumansFail(p)
      PROVE  NudgeOK'
  BY <1>1, <1>2 DEF PromptHumans, HumansFail, Goto, NudgeOK, Memory
<1>3. ASSUME NEW p \in Procs, (Step(p) /\ ~PromptHumans(p) /\ ~HumansFail(p)) \/ Die(p) \/ Runs(p)
      PROVE  pc'[p] # "nudge" /\ \A q \in Procs : q # p => pc'[q] = pc[q] /\ mem'[q] = mem[q]
  <2>1. CASE Runs(p)
    BY <1>1, <2>1 DEF Runs, RunHook, Goto, First, Events
  <2>2. CASE StopPosted(p) \/ StopRemind(p) \/ Invoke(p) \/ StartDigest(p) \/ End(p)
    BY <1>1, <2>2 DEF StopPosted, StopRemind, Create, Invoke, StartDigest, End, Exit, Goto
  <2>3. CASE PromptLead(p) \/ PromptFresh(p) \/ PromptCount(p) \/ PromptFails(p) \/ PromptSet(p)
             \/ PromptNudge(p)
    BY <1>1, <2>3 DEF PromptLead, PromptFresh, PromptCount, PromptFails, PromptSet, MarkPrompt,
                      PromptNudge, Goto
  <2>4. QED
    BY <1>3, <2>1, <2>2, <2>3 DEF Step, PromptStep, PrintLine, Die
<1>4. CASE UNCHANGED <<pc, mem>>
  BY <1>4 DEF NudgeOK
<1>5. ASSUME NEW p \in Procs, (Step(p) /\ ~PromptHumans(p) /\ ~HumansFail(p)) \/ Die(p) \/ Runs(p)
      PROVE  NudgeOK'
  BY <1>3, <1>5 DEF NudgeOK
<1>6. QED
  BY <1>2, <1>4, <1>5 DEF Next, Runs, Register, ReadUp, Write, Slide, vars

-----------------------------------------------------------------------------
(***************************************************************************)
(* The prompt's mark                                                       *)
(***************************************************************************)
\* It is written by PromptSet alone.
LEMMA MarkFrame ==
  ASSUME [Next]_vars, NEW s \in Sessions, ~\E p \in Procs : PromptSet(p) /\ Ses(p) = s
  PROVE  GetMark(PromptKey(s))' = GetMark(PromptKey(s))
<1>1. ASSUME NEW key, NEW v, SetMark(key, v), PromptKey(s) # key
      PROVE  GetMark(PromptKey(s))' = GetMark(PromptKey(s))
  BY <1>1, OneMark
<1>2. CASE UNCHANGED reminders
  BY <1>2 DEF GetMark
<1>3. ASSUME NEW p \in Procs, StopRemind(p) \/ Invoke(p) \/ PromptNudge(p) \/ PromptSet(p)
      PROVE  GetMark(PromptKey(s))' = GetMark(PromptKey(s))
  <2>1. \/ UNCHANGED reminders
        \/ SetMark(StopKey(Ses(p)), 0) \/ SetMark(SubagentKey(Ses(p)), 0)
        \/ SetMark(StartKey(Ses(p)), 1) \/ SetMark(NudgeKey(Ses(p)), 1)
        \/ PromptSet(p) /\ SetMark(PromptKey(Ses(p)), mem[p].max)
    BY <1>3 DEF StopRemind, Create, Invoke, PromptNudge, PromptSet, MarkPrompt, Exit
  <2>2. PromptSet(p) => PromptKey(s) # PromptKey(Ses(p))
    BY KeysDiffer
  <2>3. QED
    BY <1>1, <1>2, <2>1, <2>2, KeysDiffer
<1>4. ASSUME NEW t \in Sessions, Slide(t)
      PROVE  GetMark(PromptKey(s))' = GetMark(PromptKey(s))
  BY <1>1, <1>4, KeysDiffer DEF Slide
<1>5. QED
  BY <1>2, <1>3, <1>4 DEF Next, Step, PromptStep, PrintLine, Die, Runs, RunHook, StopPosted,
     StartDigest, PromptLead, PromptFresh, PromptCount, PromptFails, HumansFail, PromptHumans, End,
     Register, ReadUp, Write, vars, hookVars

\* One hook moves at a time.
LEMMA OneMoves ==
  ASSUME TypeOK, ShapeOK, [Next]_vars
  PROVE  \/ UNCHANGED <<pc, mem>>
         \/ \E p \in Procs :
              /\ Step(p) \/ Die(p) \/ Runs(p)
              /\ \A q \in Procs : q # p => pc'[q] = pc[q] /\ mem'[q] = mem[q]
<1>1. pc \in [Procs -> Places] /\ mem \in [Procs -> Memory]
  BY TypesInParts DEF HooksOK, ShapeOK
<1>2. ASSUME NEW p \in Procs, Step(p) \/ Die(p) \/ Runs(p)
      PROVE  \A q \in Procs : q # p => pc'[q] = pc[q] /\ mem'[q] = mem[q]
  BY <1>1, <1>2 DEF Step, Die, Runs, RunHook, StopPosted, StopRemind, Create, Invoke, StartDigest,
     PromptStep, PromptLead, PromptFresh, PromptCount, PromptFails, HumansFail, PromptSet,
     MarkPrompt, PromptHumans, PromptNudge, PrintLine, End, Exit, Goto
<1>3. QED
  BY <1>2 DEF Next, Runs, Register, ReadUp, Write, Slide, vars

\* Whoever begins a prompt while others of its session are under way makes all unsure.
LEMMA EntryIsNoticed ==
  ASSUME TypeOK, ShapeOK, NEW p \in Procs, pc'[p] \in Prompted,
         Step(p) \/ Die(p) \/ Runs(p)
  PROVE  \/ pc[p] \in Prompted /\ Ses(p)' = Ses(p)
         \/ /\ Prompting(Ses(p)') \subseteq unsure'
            /\ Prompting(Ses(p)') # {} => p \in unsure'
<1> USE DEF Prompted, Ses
<1>1. pc \in [Procs -> Places] /\ mem \in [Procs -> Memory] /\ job \in [Procs -> Events]
  BY TypesInParts DEF HooksOK, ShapeOK
<1>2. ASSUME NEW s \in Sessions, BeginPrompt(p, s)
      PROVE  Prompting(s) \subseteq unsure' /\ (Prompting(s) # {} => p \in unsure')
  BY <1>2 DEF BeginPrompt
<1>3. ASSUME NEW s \in Sessions, NEW b \in Boards, RunHook(p, s, b)
      PROVE  BeginPrompt(p, s) /\ Ses(p)' = s
  <2>1. job[p] = "prompt"
    BY <1>1, <1>3 DEF RunHook, Goto, First, Events
  <2>2. mem'[p] = [Nothing EXCEPT !.session = s, !.board = b]
    BY <1>1, <1>3 DEF RunHook
  <2>3. QED
    BY <1>3, <2>1, <2>2 DEF RunHook, Nothing
<1>4. CASE Invoke(p)
  <2>1. Ses(p) \in Sessions /\ Ses(p)' = Ses(p)
    BY <1>4 DEF Invoke, Goto, ShapeOK
  <2>2. BeginPrompt(p, Ses(p))
    BY <1>1, <1>4 DEF Invoke, Goto
  <2>3. QED
    BY <1>2, <2>1, <2>2
<1>5. CASE StopPosted(p) \/ StopRemind(p) \/ StartDigest(p) \/ End(p) \/ PromptSet(p)
           \/ PromptHumans(p) \/ PromptNudge(p) \/ PromptFails(p) \/ HumansFail(p)
  BY <1>1, <1>5 DEF StopPosted, StopRemind, Create, StartDigest, PromptSet, PromptHumans,
     PromptNudge, PromptFails, HumansFail, End, Exit, Goto
<1>6. CASE PromptLead(p)
  <2>1. Leads(Ses(p)) # {}
    BY <1>1, <1>6 DEF PromptLead, Goto
  <2> DEFINE mine == SessionHandles(Ses(p))
  <2>2. PICK h \in Leads(Ses(p)), hwm \in {GetMark(PromptKey(Ses(p))), 0} :
          mem' = [mem EXCEPT ![p].lead = h, ![p].mine = mine, ![p].hwm = hwm]
    BY <1>6, <2>1 DEF PromptLead
  <2> HIDE DEF mine
  <2>3. mem'[p].session = mem[p].session
    BY <1>1, <2>2 DEF Memory
  <2>4. QED
    BY <1>6, <2>3 DEF PromptLead, Goto
<1>7. CASE PromptFresh(p) \/ PromptCount(p)
  BY <1>1, <1>7 DEF PromptFresh, PromptCount, Goto, Memory
<1>8. QED
  BY <1>2, <1>3, <1>4, <1>5, <1>6, <1>7 DEF Runs, Step, PromptStep, PrintLine, Die

\* A prompt that is unsure stays so to its end.
LEMMA UnsureStays ==
  ASSUME TypeOK, ShapeOK, [Next]_vars, NEW p \in unsure, pc'[p] \in Prompted
  PROVE  p \in unsure'
<1>1. pc \in [Procs -> Places]
  BY TypesInParts DEF HooksOK
<1>2. ASSUME NEW q \in Procs, End(q)
      PROVE  p \in unsure'
  BY <1>1, <1>2 DEF End, Exit, Prompted
<1>3. ASSUME NEW q \in Procs, Runs(q) \/ (Step(q) /\ ~PrintLine(q))
      PROVE  p \in unsure'
  BY <1>3 DEF Runs, RunHook, BeginPrompt, Step, PromptStep, StopPosted, StopRemind, Invoke,
     StartDigest, PromptLead, PromptFresh, PromptCount, PromptFails, PromptSet, PromptHumans,
     HumansFail, PromptNudge, hookVars
<1>4. QED
  BY <1>2, <1>3 DEF Next, Runs, PrintLine, Die, Register, ReadUp, Write, Slide, vars, hookVars

\* Two prompts of a session at once are both unsure.
LEMMA RacesAreNoticed ==
  ASSUME TypeOK, ShapeOK, UnracedOK, [Next]_vars, NEW p \in Procs, NEW q \in Procs, p # q,
         Ses(p)' = Ses(q)', pc'[p] \in Prompted, pc'[q] \in Prompted
  PROVE  p \in unsure'
<1>1. CASE pc[p] \in Prompted /\ pc[q] \in Prompted /\ Ses(p)' = Ses(p) /\ Ses(q)' = Ses(q)
  BY <1>1, UnsureStays DEF UnracedOK
<1>2. CASE UNCHANGED <<pc, mem>>
  BY <1>1, <1>2 DEF Ses
<1>3. ASSUME NEW r \in Procs, Step(r) \/ Die(r) \/ Runs(r),
             \A t \in Procs : t # r => pc'[t] = pc[t] /\ mem'[t] = mem[t]
      PROVE  p \in unsure'
  <2>1. \A t \in Procs : t # r => Ses(t)' = Ses(t)
    BY <1>3 DEF Ses
  <2>2. CASE r = p
    <3>1. q \in Prompting(Ses(p)')
      BY <1>3, <2>1, <2>2 DEF Prompting, Prompted
    <3>2. QED
      BY <1>1, <1>3, <2>1, <2>2, <3>1, EntryIsNoticed
  <2>3. CASE r = q
    <3>1. p \in Prompting(Ses(q)')
      BY <1>3, <2>1, <2>3 DEF Prompting, Prompted
    <3>2. QED
      BY <1>1, <1>3, <2>1, <2>3, <3>1, EntryIsNoticed
  <2>4. CASE r # p /\ r # q
    BY <1>1, <1>3, <2>1, <2>4
  <2>5. QED
    BY <2>2, <2>3, <2>4
<1>4. QED
  BY <1>2, <1>3, OneMoves

\* Only unreadLine's queries lead to the mark.
LEMMA OthersStayOut ==
  ASSUME TypeOK, ShapeOK, NEW p \in Procs,
         Step(p) \/ Die(p) \/ Runs(p),
         ~PromptLead(p), ~PromptFresh(p), ~PromptCount(p)
  PROVE  pc'[p] \notin {"fresh", "count", "set"}
<1>1. pc \in [Procs -> Places] /\ job \in [Procs -> Events]
  BY TypesInParts DEF HooksOK, ShapeOK
<1>2. CASE Runs(p)
  BY <1>1, <1>2 DEF Runs, RunHook, Goto, First, Events
<1>3. CASE StopPosted(p) \/ StopRemind(p) \/ Invoke(p) \/ StartDigest(p) \/ End(p)
  BY <1>1, <1>3 DEF StopPosted, StopRemind, Create, Invoke, StartDigest, End, Exit, Goto
<1>4. CASE PromptFails(p) \/ PromptSet(p) \/ PromptHumans(p) \/ HumansFail(p) \/ PromptNudge(p)
  BY <1>1, <1>4 DEF PromptFails, PromptSet, MarkPrompt, PromptHumans, HumansFail, PromptNudge, Goto
<1>5. QED
  BY <1>2, <1>3, <1>4 DEF Step, PromptStep, PrintLine, Die

\* What a prompt that is not unsure has read of the mark is the mark.
LEMMA UnracedStep ==
  ASSUME TypeOK, ShapeOK, UnracedOK, [Next]_vars
  PROVE  UnracedOK'
<1> DEFINE Mark(s) == GetMark(PromptKey(s))
           Right(p) == p \notin unsure =>
                         /\ pc[p] = "fresh" => mem[p].hwm = Mark(Ses(p))
                         /\ pc[p] \in {"count", "set"} => mem[p].max > Mark(Ses(p))
<1>1. pc \in [Procs -> Places] /\ mem \in [Procs -> Memory] /\ LogTypeOK
      /\ \A p \in Procs : pc[p] # "idle" => Ses(p) \in Sessions
  BY TypesInParts DEF HooksOK, ShapeOK
<1>2. \A p \in unsure : pc'[p] \in Prompted => p \in unsure'
  BY UnsureStays
<1>3. ASSUME NEW p \in Procs, pc'[p] = pc[p], mem'[p] = mem[p]
      PROVE  Right(p)'
  <2>1. CASE pc[p] \notin {"fresh", "count", "set"}
    BY <1>3, <2>1
  <2>2. CASE pc[p] \in {"fresh", "count", "set"} /\ \E q \in Procs : PromptSet(q) /\ Ses(q) = Ses(p)
    <3>1. PICK q \in Procs : pc[q] = "set" /\ Ses(q) = Ses(p) /\ pc'[q] = "humans"
      BY <1>1, <2>2 DEF PromptSet, MarkPrompt, Goto
    <3>2. p # q
      BY <1>1, <1>3, <2>2, <3>1
    <3>3. p \in unsure
      BY <2>2, <3>1, <3>2 DEF UnracedOK, Prompted
    <3>4. Ses(p)' = Ses(p)
      BY <1>3 DEF Ses
    <3>5. QED
      BY <1>2, <1>3, <2>2, <3>3 DEF Prompted
  <2>3. CASE pc[p] \in {"fresh", "count", "set"} /\ ~\E q \in Procs : PromptSet(q) /\ Ses(q) = Ses(p)
    <3> DEFINE s == mem[p].session
    <3>1. s \in Sessions
      BY <1>1, <2>3 DEF Ses
    <3>2. \A t \in Sessions : t = s => GetMark(PromptKey(t))' = GetMark(PromptKey(t))
      BY <2>3, MarkFrame DEF Ses
    <3>3. mem'[p].session = s /\ mem'[p].hwm = mem[p].hwm /\ mem'[p].max = mem[p].max
      BY <1>3
    <3>4. Mark(Ses(p))' = Mark(Ses(p))
      BY <3>1, <3>2, <3>3 DEF Ses
    <3>5. QED
      BY <1>2, <1>3, <2>3, <3>4 DEF UnracedOK, Ses, Prompted
  <2>4. QED
    BY <2>1, <2>2, <2>3
<1>4. ASSUME NEW p \in Procs, PromptLead(p)
      PROVE  Right(p)'
  <2>1. CASE Leads(Ses(p)) = {}
    BY <1>1, <1>4, <2>1 DEF PromptLead, Goto
  <2>2. CASE Leads(Ses(p)) # {}
    <3> DEFINE n == Mark(Ses(p))
               mine == SessionHandles(Ses(p))
    <3>1. PICK h \in Leads(Ses(p)), hwm \in {n, 0} :
            /\ mem' = [mem EXCEPT ![p].lead = h, ![p].mine = mine, ![p].hwm = hwm]
            /\ unsure' = IF hwm = n THEN unsure ELSE unsure \cup {p}
      BY <1>4, <2>2 DEF PromptLead
    <3>2. UNCHANGED reminders /\ pc'[p] = "fresh"
      BY <1>1, <1>4, <2>2 DEF PromptLead, Goto
    <3> HIDE DEF n, mine
    <3>3. mem'[p].session = mem[p].session /\ mem'[p].hwm = hwm
      BY <1>1, <3>1 DEF Memory
    <3>4. Ses(p)' = Ses(p)
      BY <3>3 DEF Ses
    <3>5. Mark(Ses(p))' = n
      BY <3>2, <3>4 DEF GetMark, PromptKey, n
    <3>6. QED
      BY <3>1, <3>2, <3>3, <3>5
  <2>3. QED
    BY <2>1, <2>2
<1>5. ASSUME NEW p \in Procs, PromptFresh(p)
      PROVE  Right(p)'
  <2> DEFINE fresh == NewForeignPosts(Board(p), mem[p].hwm, mem[p].mine)
  <2>1. mem[p].hwm \in Nat /\ pc[p] = "fresh" /\ UNCHANGED <<reminders, unsure>>
    BY <1>1, <1>5 DEF PromptFresh, Goto, Memory, hookVars
  <2>2. CASE fresh = {}
    BY <1>1, <1>5, <2>2 DEF PromptFresh, Goto
  <2>3. CASE fresh # {}
    <3>1. Largest(fresh) > mem[p].hwm
      BY <1>1, <2>1, <2>3, FreshOnes
    <3> HIDE DEF fresh
    <3>2. mem' = [mem EXCEPT ![p].max = Largest(fresh), ![p].hwm = 0, ![p].mine = {}]
          /\ pc'[p] = "count"
      BY <1>1, <1>5, <2>3 DEF PromptFresh, Goto, fresh
    <3>3. mem'[p].session = mem[p].session /\ mem'[p].max = Largest(fresh)
      BY <1>1, <3>2 DEF Memory
    <3>4. Ses(p)' = Ses(p)
      BY <3>3 DEF Ses
    <3>5. Mark(Ses(p))' = Mark(Ses(p))
      BY <2>1, <3>4 DEF GetMark, PromptKey
    <3>6. p \notin unsure => mem[p].hwm = Mark(Ses(p))
      BY <2>1 DEF UnracedOK
    <3>7. QED
      BY <2>1, <3>1, <3>2, <3>3, <3>4, <3>5, <3>6
  <2>4. QED
    BY <2>2, <2>3
<1>6. ASSUME NEW p \in Procs, PromptCount(p)
      PROVE  Right(p)'
  <2> DEFINE unread == UnreadFor(Board(p), mem[p].lead)
  <2>1. pc[p] = "count" /\ UNCHANGED <<reminders, unsure>>
    BY <1>6 DEF PromptCount, Goto, hookVars
  <2>2. CASE unread = {}
    BY <1>1, <1>6, <2>2 DEF PromptCount, Goto
  <2>3. CASE unread # {}
    <3>1. mem' = [mem EXCEPT ![p].digest = unread, ![p].lead = None, ![p].max = mem[p].max]
          /\ pc'[p] = "set"
      BY <1>1, <1>6, <2>3 DEF PromptCount, Goto, Memory
    <3> HIDE DEF unread
    <3>2. mem'[p].session = mem[p].session /\ mem'[p].max = mem[p].max
      BY <1>1, <3>1 DEF Memory
    <3>3. Ses(p)' = Ses(p)
      BY <3>2 DEF Ses
    <3>4. Mark(Ses(p))' = Mark(Ses(p))
      BY <2>1, <3>3 DEF GetMark, PromptKey
    <3>5. QED
      BY <2>1, <3>1, <3>2, <3>3, <3>4 DEF UnracedOK
  <2>4. QED
    BY <2>2, <2>3
<1>7. ASSUME NEW p \in Procs,
             Step(p) \/ Die(p) \/ Runs(p),
             ~PromptLead(p), ~PromptFresh(p), ~PromptCount(p)
      PROVE  Right(p)'
  <2>1. pc'[p] \notin {"fresh", "count", "set"}
    BY <1>7, OthersStayOut
  <2>2. QED
    BY <2>1
<1>8. ASSUME NEW p \in Procs
      PROVE  Right(p)'
  <2> HIDE DEF Right
  <2>1. CASE pc'[p] = pc[p] /\ mem'[p] = mem[p]
    BY <1>3, <2>1
  <2>2. CASE Step(p) \/ Die(p) \/ Runs(p)
    BY <1>4, <1>5, <1>6, <1>7, <2>2
  <2>3. QED
    BY <2>1, <2>2, OneMoves
<1>9. QED
  BY <1>8, RacesAreNoticed DEF UnracedOK

-----------------------------------------------------------------------------
(***************************************************************************)
(* What the prompt's mark silences                                         *)
(***************************************************************************)
\* No step makes a post foreign that was there and was not.
LEMMA ForeignShrinks ==
  ASSUME TypeOK, [Next]_vars, NEW s \in Sessions, NEW i \in 1..seq, Foreign(s, i)'
  PROVE  Foreign(s, i) /\ posts'[i].board = posts[i].board
<1>1. LogTypeOK /\ [LogNext]_logVars
  BY WriteIsLogged, HooksOnlyReadPosts, TypesInParts DEF Next, Runs, Register, ReadUp, Slide, vars,
     logVars
<1>2. i \in DOMAIN posts' /\ ~posts'[i].tombed /\ posts'[i].author \notin {h \in agents' : Home[h] = s}
  BY DEF Foreign, Live, SessionHandles
<1>3. i \in DOMAIN posts /\ SameContent(i)
  BY <1>1, <1>2, LogStepKeepsContent DEF LogTypeOK
<1>4. ~posts[i].tombed
  BY <1>1, <1>2, <1>3, TombstonesStay
<1>5. agents \subseteq agents'
  BY AgentsStep
<1>6. QED
  BY <1>2, <1>3, <1>4, <1>5 DEF Foreign, Live, SessionHandles, SameContent

\* A session does not lose a handle it leads.
LEMMA LeadsGrow ==
  ASSUME TypeOK, [Next]_vars, NEW s
  PROVE  Leads(s) \subseteq Leads(s)'
BY AgentsStep DEF Leads, SessionHandles

\* What marks were set from other boards is not forgotten.
LEMMA ElsewhereGrows ==
  ASSUME TypeOK, ShapeOK, [Next]_vars, NEW s \in Sessions, NEW b \in Boards
  PROVE  elsewhere'[s][b] \in Nat /\ elsewhere[s][b] <= elsewhere'[s][b]
<1>1. seq \in Nat /\ HooksOK /\ elsewhere \in [Sessions -> [Boards -> 0..seq]]
  BY TypesInParts DEF LogTypeOK, HistoriesOK
<1>2. elsewhere[s][b] \in Nat
  BY <1>1
<1>3. ASSUME NEW p \in Procs, PromptSet(p)
      PROVE  elsewhere'[s][b] \in Nat /\ elsewhere[s][b] <= elsewhere'[s][b]
  <2>1. mem[p].max \in Nat
    BY <1>1 DEF HooksOK
  <2>2. CASE UNCHANGED elsewhere
    BY <1>2, <2>2
  <2>3. CASE MarkPrompt(p, mem[p].max)
    BY <1>1, <1>2, <2>1, <2>3 DEF MarkPrompt
  <2>4. QED
    BY <1>3, <2>2, <2>3 DEF PromptSet
<1>4. CASE UNCHANGED elsewhere
  BY <1>2, <1>4
<1>5. QED
  BY <1>3, <1>4 DEF Next, Runs, RunHook, Step, PromptStep, StopPosted, StopRemind, Invoke,
     StartDigest, PromptLead, PromptFresh, PromptCount, PromptFails, PromptHumans, HumansFail,
     PromptNudge, PrintLine, Die, End, Register, ReadUp, Write, Slide, vars, hookVars

\* What has been told, is being told or has been read stays so.
LEMMA CoveredStays ==
  ASSUME TypeOK, ShapeOK, [Next]_vars, NEW s \in Sessions, NEW i \in 1..seq, Covered(s, i),
         i \in DOMAIN posts, posts'[i].board = posts[i].board
  PROVE  Covered(s, i)'
<1>1. CASE i \in told[s]
  BY <1>1, HistoriesGrow DEF Covered
<1>2. ASSUME NEW p \in Procs, Ses(p) = s, i \in HeldUnread(p)
      PROVE  Covered(s, i)'
  <2>1. CASE End(p) /\ pc[p] # "idle"
    BY <1>2, <2>1, HistoriesGrow DEF Covered
  <2>2. CASE ~(End(p) /\ pc[p] # "idle")
    <3>1. pc[p] \in {"humans", "nudge", "print"}
      BY <1>2 DEF HeldUnread
    <3>2. Ses(p)' = s /\ i \in HeldUnread(p)'
      BY <1>2, <2>2, <3>1, WordsAreKept
    <3>3. QED
      BY <3>2 DEF Covered
  <2>3. QED
    BY <2>1, <2>2
<1>3. /\ posts[i].board \in Boards /\ seq \in Nat /\ HistoriesOK
      /\ cursor \in [Handles -> [Boards -> 0..seq]]
  BY TypesInParts DEF LogTypeOK, Post
<1>4. ASSUME NEW h \in Leads(s), i <= cursor[h][posts[i].board]
      PROVE  Covered(s, i)'
  <2> DEFINE b == posts[i].board
  <2>1. h \in Handles
    BY TypesInParts DEF Leads, SessionHandles
  <2>2. cursor[h][b] \in Nat /\ cursor'[h][b] \in Nat /\ cursor[h][b] <= cursor'[h][b]
    <3>1. cursor[h][b] \in Nat
      BY <1>3, <2>1
    <3>2. seq' \in Nat /\ cursor' \in [Handles -> [Boards -> 0..seq']]
      BY AgentsStep DEF LogTypeOK
    <3>3. QED
      BY <1>3, <2>1, <3>1, <3>2, AgentsStep
  <2>3. h \in Leads(s)' /\ i <= cursor'[h][b]
    BY <1>4, <2>2, LeadsGrow
  <2>4. QED
    BY <2>3 DEF Covered
<1>5. CASE i <= elsewhere[s][posts[i].board]
  <2>1. elsewhere[s][posts[i].board] \in Nat
    BY <1>3 DEF HistoriesOK
  <2>2. elsewhere'[s][posts[i].board] \in Nat
        /\ elsewhere[s][posts[i].board] <= elsewhere'[s][posts[i].board]
    BY <1>3, ElsewhereGrows
  <2>3. QED
    BY <1>5, <2>1, <2>2 DEF Covered
<1>6. QED
  BY <1>1, <1>2, <1>4, <1>5 DEF Covered

\* A step that moves the mark over a post has told its session of it.
LEMMA SilencedStep ==
  ASSUME TypeOK, ShapeOK, NothingSilenced, DigestOK, [Next]_vars
  PROVE  NothingSilenced'
<1>1. seq \in Nat /\ MarksOK /\ HooksOK
  BY TypesInParts DEF LogTypeOK
<1>2. ASSUME NEW s \in Sessions, NEW i \in 1..GetMark(PromptKey(s)), Foreign(s, i)'
      PROVE  Covered(s, i)'
  <2>1. GetMark(PromptKey(s)) \in 0..seq
    BY <1>1 DEF MarksOK, GetMark
  <2>2. i \in 1..seq
    BY <1>1, <2>1
  <2>3. Foreign(s, i) /\ i \in DOMAIN posts /\ posts'[i].board = posts[i].board
    BY <1>2, <2>2, ForeignShrinks DEF Foreign, Live
  <2>4. Covered(s, i)
    BY <2>3 DEF NothingSilenced, Foreign, Covered
  <2>5. QED
    BY <2>2, <2>3, <2>4, CoveredStays
<1>3. ASSUME NEW p \in Procs, NEW s \in Sessions, PromptSet(p), Ses(p) = s,
             MarkPrompt(p, mem[p].max), NEW i \in 1..mem[p].max, Foreign(s, i)'
      PROVE  Covered(s, i)'
  <2>1. pc[p] = "set" /\ mem[p].max \in 0..seq
    BY <1>1, <1>3 DEF HooksOK, PromptSet, Goto
  <2>2. i \in 1..seq
    BY <1>1, <2>1
  <2>3. /\ Foreign(s, i) /\ i \in DOMAIN posts /\ posts'[i].board = posts[i].board
        /\ posts[i].board \in Boards
    <3>1. Foreign(s, i) /\ i \in DOMAIN posts /\ posts'[i].board = posts[i].board
      BY <1>3, <2>2, ForeignShrinks DEF Foreign, Live
    <3>2. QED
      BY <3>1, TypesInParts DEF LogTypeOK, Post
  <2>4. CASE Covered(s, i)
    BY <2>2, <2>3, <2>4, CoveredStays
  <2>5. CASE i \in mem[p].digest
    <3>1. mem'[p].digest = mem[p].digest /\ mem'[p].session = mem[p].session /\ pc'[p] = "humans"
      BY <1>1, <1>3 DEF PromptSet, Goto, HooksOK, ShapeOK, Memory
    <3>2. Ses(p)' = s /\ i \in HeldUnread(p)'
      BY <1>3, <2>5, <3>1 DEF Ses, HeldUnread
    <3>3. QED
      BY <3>2 DEF Covered
  <2>6. CASE posts[i].board # Board(p)
    <3> DEFINE b == posts[i].board
    <3>1. /\ elsewhere[s][b] \in Nat /\ mem[p].max \in Nat
          /\ elsewhere \in [Sessions -> [Boards -> 0..seq]]
      BY <1>1, <2>1, <2>3, TypesInParts DEF HistoriesOK
    <3>2. i <= elsewhere'[s][b]
      BY <1>3, <2>3, <2>6, <3>1 DEF MarkPrompt
    <3>3. QED
      BY <2>3, <3>2 DEF Covered
  <2>7. QED
    BY <1>3, <2>1, <2>3, <2>4, <2>5, <2>6 DEF DigestOK
<1>4. ASSUME NEW s \in Sessions, NEW i \in 1..GetMark(PromptKey(s))', Foreign(s, i)'
      PROVE  Covered(s, i)'
  <2>1. CASE \E p \in Procs : PromptSet(p) /\ Ses(p) = s
    <3>1. PICK p \in Procs : PromptSet(p) /\ Ses(p) = s
      BY <2>1
    <3>2. UNCHANGED reminders \/ MarkPrompt(p, mem[p].max)
      BY <3>1 DEF PromptSet
    <3>3. CASE UNCHANGED reminders
      <4>1. GetMark(PromptKey(s))' = GetMark(PromptKey(s))
        BY <3>3 DEF GetMark
      <4>2. QED
        BY <1>2, <1>4, <4>1
    <3>4. CASE MarkPrompt(p, mem[p].max)
      <4>1. GetMark(PromptKey(s))' = mem[p].max
        BY <3>1, <3>4, OneMark DEF MarkPrompt
      <4>2. QED
        BY <1>3, <1>4, <3>1, <3>4, <4>1
    <3>5. QED
      BY <3>2, <3>3, <3>4
  <2>2. CASE ~\E p \in Procs : PromptSet(p) /\ Ses(p) = s
    BY <1>2, <1>4, <2>2, MarkFrame
  <2>3. QED
    BY <2>1, <2>2
<1>5. QED
  BY <1>4 DEF NothingSilenced, Foreign, Covered

\* A digest holds what its lead has not read.
LEMMA DigestStep ==
  ASSUME TypeOK, ShapeOK, DigestOK, [Next]_vars
  PROVE  DigestOK'
<1> DEFINE Right(p) ==
             /\ pc[p] \in {"fresh", "count"} => mem[p].lead \in Leads(Ses(p))
             /\ pc[p] = "set" =>
                  \A i \in 1..mem[p].max :
                    Foreign(Ses(p), i) /\ posts[i].board = Board(p) =>
                      Covered(Ses(p), i) \/ i \in mem[p].digest
<1>1. pc \in [Procs -> Places] /\ mem \in [Procs -> Memory] /\ LogTypeOK /\ seq \in Nat
      /\ agents \subseteq Handles /\ cursor \in [Handles -> [Boards -> 0..seq]]
      /\ \A p \in Procs : /\ mem[p].max \in 0..seq
                          /\ pc[p] # "idle" => Ses(p) \in Sessions /\ Board(p) \in Boards
  BY TypesInParts DEF HooksOK, ShapeOK, LogTypeOK
<1>2. ASSUME NEW p \in Procs, pc'[p] = pc[p], mem'[p] = mem[p]
      PROVE  Right(p)'
  <2>1. Ses(p)' = Ses(p)
    BY <1>2 DEF Ses
  <2>2. ASSUME pc[p] \in {"fresh", "count"}
        PROVE  mem'[p].lead \in Leads(Ses(p))'
    <3>1. mem[p].lead \in Leads(Ses(p))
      BY <2>2 DEF DigestOK
    <3>2. PICK s \in Sessions : s = Ses(p)
      BY <1>1, <2>2
    <3>3. mem[p].lead \in Leads(s)'
      BY <3>1, <3>2, LeadsGrow
    <3>4. QED
      BY <1>2, <2>1, <3>2, <3>3 DEF Leads, SessionHandles
  <2>3. ASSUME pc[p] = "set", NEW i \in 1..mem[p].max, Foreign(Ses(p), i)',
               posts'[i].board = Board(p)'
        PROVE  Covered(Ses(p), i)' \/ i \in mem[p].digest
    <3>1. PICK s \in Sessions : s = Ses(p)
      BY <1>1, <2>3
    <3>2. i \in 1..seq
      BY <1>1
    <3>3. Foreign(s, i)'
      BY <2>1, <2>3, <3>1 DEF Foreign, SessionHandles
    <3>4. Foreign(s, i) /\ i \in DOMAIN posts /\ posts'[i].board = posts[i].board
      BY <3>2, <3>3, ForeignShrinks DEF Foreign, Live
    <3>5. Covered(s, i) \/ i \in mem[p].digest
      <4>1. posts[i].board = Board(p)
        BY <1>2, <2>3, <3>4 DEF Board
      <4>2. QED
        BY <2>3, <3>1, <3>4, <4>1 DEF DigestOK
    <3>6. Covered(s, i)' \/ i \in mem[p].digest
      BY <3>2, <3>4, <3>5, CoveredStays
    <3>7. QED
      BY <2>1, <3>1, <3>6 DEF Covered, Leads, SessionHandles
  <2>4. QED
    BY <1>2, <2>2, <2>3 DEF Board
<1>3. ASSUME NEW p \in Procs, PromptLead(p)
      PROVE  Right(p)'
  <2>1. CASE Leads(Ses(p)) = {}
    BY <1>1, <1>3, <2>1 DEF PromptLead, Goto
  <2>2. CASE Leads(Ses(p)) # {}
    <3> DEFINE mine == SessionHandles(Ses(p))
    <3>1. PICK h \in Leads(Ses(p)), n \in {GetMark(PromptKey(Ses(p))), 0} :
            mem' = [mem EXCEPT ![p].lead = h, ![p].mine = mine, ![p].hwm = n]
      BY <1>3, <2>2 DEF PromptLead
    <3>2. pc'[p] = "fresh" /\ UNCHANGED agents
      BY <1>1, <1>3, <2>2 DEF PromptLead, Goto
    <3> HIDE DEF mine
    <3>3. mem'[p].session = mem[p].session /\ mem'[p].lead = h
      BY <1>1, <3>1 DEF Memory
    <3>4. Leads(Ses(p))' = Leads(Ses(p))
      BY <3>2, <3>3 DEF Leads, SessionHandles, Ses
    <3>5. QED
      BY <3>2, <3>3, <3>4
  <2>3. QED
    BY <2>1, <2>2
<1>4. ASSUME NEW p \in Procs, PromptFresh(p)
      PROVE  Right(p)'
  <2> DEFINE n == Largest(NewForeignPosts(Board(p), mem[p].hwm, mem[p].mine))
  <2>1. mem' = [mem EXCEPT ![p].max = n, ![p].hwm = 0, ![p].mine = {}]
    BY <1>4 DEF PromptFresh
  <2>2. pc[p] = "fresh" /\ pc'[p] \in {"count", "humans"} /\ UNCHANGED agents
    BY <1>1, <1>4 DEF PromptFresh, Goto
  <2> HIDE DEF n
  <2>3. mem'[p].session = mem[p].session /\ mem'[p].lead = mem[p].lead
    BY <1>1, <2>1 DEF Memory
  <2>4. Leads(Ses(p))' = Leads(Ses(p)) /\ mem[p].lead \in Leads(Ses(p))
    BY <2>2, <2>3 DEF Leads, SessionHandles, Ses, DigestOK
  <2>5. QED
    BY <2>2, <2>3, <2>4
<1>5. ASSUME NEW p \in Procs, PromptCount(p)
      PROVE  Right(p)'
  <2> DEFINE lead == mem[p].lead
             b == Board(p)
             unread == UnreadFor(b, lead)
  <2>1. pc[p] = "count" /\ UNCHANGED <<posts, agents, cursor>> /\ lead \in Leads(Ses(p))
        /\ b \in Boards
    BY <1>1, <1>5 DEF PromptCount, Goto, logVars, DigestOK
  <2>2. CASE unread = {}
    BY <1>1, <1>5, <2>2 DEF PromptCount, Goto
  <2>3. CASE unread # {}
    <3>1. mem' = [mem EXCEPT ![p].digest = unread, ![p].lead = None, ![p].max = mem[p].max]
          /\ pc'[p] = "set"
      BY <1>1, <1>5, <2>3 DEF PromptCount, Goto, Memory
    <3>2. ASSUME NEW i \in 1..mem[p].max, Foreign(Ses(p), i), posts[i].board = b
          PROVE  i \in unread \/ i <= cursor[lead][b]
      <4>1. lead \in SessionHandles(Ses(p)) /\ i \in DOMAIN posts /\ Live(i)
            /\ posts[i].author \notin SessionHandles(Ses(p))
        BY <2>1, <3>2 DEF Foreign, Leads, Live
      <4>2. cursor[lead][b] \in 0..seq
        BY <1>1, <2>1, <4>1 DEF SessionHandles
      <4>3. QED
        BY <1>1, <3>2, <4>1, <4>2 DEF UnreadFor, LiveOn
    <3> HIDE DEF unread
    <3>3. mem'[p].session = mem[p].session /\ mem'[p].max = mem[p].max /\ mem'[p].digest = unread
          /\ mem'[p].board = b
      BY <1>1, <3>1 DEF Memory, Board
    <3>4. Ses(p)' = Ses(p) /\ Leads(Ses(p))' = Leads(Ses(p))
      BY <2>1, <3>3 DEF Ses, Leads, SessionHandles
    <3>5. ASSUME NEW i \in 1..mem[p].max, Foreign(Ses(p), i)', posts'[i].board = b
          PROVE  Covered(Ses(p), i)' \/ i \in unread
      <4>1. Foreign(Ses(p), i) /\ posts[i].board = b
        BY <2>1, <3>4, <3>5 DEF Foreign, SessionHandles, Live
      <4>2. CASE i <= cursor[lead][b]
        <5>1. lead \in Leads(Ses(p))' /\ i <= cursor'[lead][b]
          BY <2>1, <3>4, <4>2
        <5>2. \E h \in Leads(Ses(p))' : i <= cursor'[h][posts'[i].board]
          BY <3>5, <5>1
        <5>3. QED
          BY <5>2 DEF Covered
      <4>3. QED
        BY <3>2, <4>1, <4>2
    <3>6. QED
      BY <3>1, <3>3, <3>5 DEF Board
  <2>4. QED
    BY <2>2, <2>3
<1>6. ASSUME NEW p \in Procs,
             Step(p) \/ Die(p) \/ Runs(p),
             ~PromptLead(p), ~PromptFresh(p), ~PromptCount(p)
      PROVE  Right(p)'
  <2>1. pc'[p] \notin {"fresh", "count", "set"}
    BY <1>6, OthersStayOut
  <2>2. QED
    BY <2>1
<1>7. ASSUME NEW p \in Procs
      PROVE  Right(p)'
  <2> HIDE DEF Right
  <2>1. CASE pc'[p] = pc[p] /\ mem'[p] = mem[p]
    BY <1>2, <2>1
  <2>2. CASE Step(p) \/ Die(p) \/ Runs(p)
    BY <1>3, <1>4, <1>5, <1>6, <2>2
  <2>3. QED
    BY <2>1, <2>2, OneMoves
<1>8. QED
  BY <1>7 DEF DigestOK

-----------------------------------------------------------------------------
(***************************************************************************)
(* The theorems                                                            *)
(***************************************************************************)
\* The inductive invariant holds in the initial state.
LEMMA IInvInit == Init => IInv
<1> SUFFICES ASSUME Init
             PROVE  IInv
  OBVIOUS
<1> USE DEF Init, LogInit
<1>1. LogTypeOK /\ agents \subseteq Handles /\ cursor \in [Handles -> [Boards -> 0..seq]] /\ seq = 0
  BY LogAssumption DEF LogTypeOK
<1>2. Nothing \in Memory /\ Nothing.max = 0 /\ Nothing.hwm = 0 /\ Nothing.mine = {}
      /\ Nothing.lead = None /\ Nothing.digest = {}
  BY DEF Nothing, Memory
<1>3. \A k : GetMark(k) = 0
  BY DEF GetMark
<1>4. MarksOK /\ HistoriesOK
  BY <1>1, <1>3 DEF MarksOK, HistoriesOK
<1>5. HooksOK /\ ShapeOK
  BY <1>1, <1>2 DEF HooksOK, ShapeOK, Places
<1>6. FiresOnce
  BY DEF FiresOnce
<1>7. ThrottleIsEarned /\ NothingSilenced
  BY <1>3 DEF ThrottleIsEarned, NothingSilenced
<1>8. NudgeOK /\ DigestOK /\ UnracedOK
  BY DEF NudgeOK, DigestOK, UnracedOK, Prompted
<1>9. QED
  BY <1>1, <1>4, <1>5, <1>6, <1>7, <1>8, TypesInParts DEF IInv

\* Every step keeps the inductive invariant.
LEMMA IInvStep == IInv /\ [Next]_vars => IInv'
BY TypeStep, FiresOnceStep, ThrottleStep, NudgeStep, SilencedStep, DigestStep, UnracedStep DEF IInv

\* What the marks say, what the hooks under way have read of them, and what their
\* sessions have been told belong together, for any number of hooks at once.
THEOREM Invariance == Spec => []IInv
BY IInvInit, IInvStep, PTL DEF Spec

\* Every variable keeps its type; a prompt mark is an id that was given out.
THEOREM TypeCorrect == Spec => []TypeOK
<1>1. IInv => TypeOK
  BY DEF IInv
<1>2. QED
  BY <1>1, Invariance, PTL

\* However many Stop hooks of a session run at once, one reminds; and only a reminder
\* makes the row that silences the others.
THEOREM RemindersFireOnce == Spec => []FiresOnce
<1>1. IInv => FiresOnce
  BY DEF IInv
<1>2. QED
  BY <1>1, Invariance, PTL

\* The throttle holds a nudge back only after one was given, or died on its way.
THEOREM ThrottlesAreEarned == Spec => []ThrottleIsEarned
<1>1. IInv => ThrottleIsEarned
  BY DEF IInv
<1>2. QED
  BY <1>1, Invariance, PTL

\* The prompt's mark passes no post that the session could still have to be told of,
\* whichever of its prompts writes it last, but for a mark set from another board.
THEOREM MarksSilenceNothing == Spec => []NothingSilenced
<1>1. IInv => NothingSilenced
  BY DEF IInv
<1>2. QED
  BY <1>1, Invariance, PTL

\* Only prompts that overlap, or that could not read the mark, tell a session twice of
\* the same posts or take the mark back.
THEOREM OnlyOverlapsRepeat == Spec => []OnlyRacesRepeat
<1>1. IInv => OnlyRacesRepeat
  BY DEF IInv, UnracedOK, OnlyRacesRepeat
<1>2. QED
  BY <1>1, Invariance, PTL
=============================================================================
