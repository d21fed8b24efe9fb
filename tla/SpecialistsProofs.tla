-------------------------- MODULE SpecialistsProofs --------------------------
(***************************************************************************)
(* Proofs about Specialists for every set of keys, every bound on rounds   *)
(* and every number of workers of the run.                                 *)
(*                                                                         *)
(* The argument: only specialists of the current worker are in the pool,   *)
(* one for an open task, and the pool is empty outside of a dispatch       *)
(* (Manned); what was saved is what the plan says, in an order that can be *)
(* followed (Laid); so when nothing is ready and nobody is at work, nothing *)
(* is open (NothingOpen), and the synthesis begins then (Closed).          *)
(***************************************************************************)
EXTENDS Specialists, WellFoundedInduction, TLAPS


\* A set of numbers that is not empty has a least one.
LEMMA LeastNumber ==
  ASSUME NEW T, T \subseteq Nat, T # {}
  PROVE  \E x \in T : \A y \in T : x <= y
<1> DEFINE R == {ss \in Nat \X Nat : ss[1] < ss[2]}
<1>1. IsWellFoundedOn(R, Nat)
  BY NatLessThanWellFounded DEF OpToRel
<1>2. PICK x \in T : \A y \in T : ~ (<<y, x>> \in R)
  <2> HIDE DEF R
  <2> QED BY <1>1, WFMin
<1>3. \A y \in T : ~(y < x)
  BY <1>2
<1> QED
  BY <1>3

-----------------------------------------------------------------------------
(* The inductive invariant. *)

Work == [phase : {"model", "tools"}, round : Nat, retried : BOOLEAN]
Task == [status : {"queued", "running"} \cup Finished, attempt : 0..MaxFences, needs : SUBSET Keys, work : Work]
Expert == [task : Versions \X Keys, attempt : Nat, fence : Nat, work : Work, begun : BOOLEAN]
Control == [phase : {"plan", "dispatch", "synthesize", "answer", "review", "revise", "finalize", "done"}, version : {0} \cup Versions,
            handedOff : BOOLEAN, revised : BOOLEAN, reason : {"none", "ready", "limit", "idle"},
            outcome : {"none", "succeeded", "partial"}]
Entry == [needs : SUBSET Keys, reused : BOOLEAN]

AnyPlan == UNION {[named -> Entry] : named \in SUBSET Keys}

ControlShape ==
  /\ control \in Control /\ committed \in Control
  /\ stop \in {"none", "ready", "limit", "idle"} /\ fence \in 1..MaxFences
PlanShape   == plans \in Seq(AnyPlan)
TaskShape   == /\ tasks \in [DOMAIN tasks -> Task] /\ DOMAIN tasks \subseteq Versions \X Keys
               /\ pool \subseteq DOMAIN tasks
ExpertShape == experts \subseteq Expert /\ exhausted \subseteq Keys

SpecialistShapes == ControlShape /\ PlanShape /\ TaskShape /\ ExpertShape

\* The coordinator's way: a plan, its dispatch, one more of both, and the answer.
Course ==
  /\ control.version = committed.version /\ control.handedOff = committed.handedOff
  /\ \/ control = committed
     \/ control.phase = "finalize" /\ committed.phase \in {"plan", "dispatch", "synthesize"}
     \/ control.phase \in {"answer", "done"} /\ committed.phase = "synthesize"
  /\ committed.phase \in {"plan", "dispatch", "synthesize"} => committed.reason = "none"
  /\ committed.phase \in {"plan", "dispatch"} => stop # "ready"
  /\ control.phase = "finalize" /\ committed.phase # "synthesize" => control.reason # "ready" /\ stop # "ready"
  /\ committed.phase # "answer"
  /\ committed.phase = "plan" => committed.version = IF committed.handedOff THEN 1 ELSE 0
  /\ committed.phase \in {"dispatch", "synthesize"} => committed.version >= 1
  /\ ~committed.handedOff => committed.version <= 1
  /\ Len(plans) \in {committed.version, committed.version + 1}

\* A plan can be done in the order of its keys, and all of it has been saved once it is
\* dispatched.
Laid ==
  /\ \A v \in 1..Len(plans) : \A k \in DOMAIN plans[v] : plans[v][k].needs \subseteq {d \in DOMAIN plans[v] : d < k}
  /\ \A t \in DOMAIN tasks : /\ t[1] \in 1..Len(plans) /\ t[2] \in DOMAIN plans[t[1]]
                             /\ tasks[t].needs = plans[t[1]][t[2]].needs
  /\ \A v \in 1..control.version : \A k \in DOMAIN plans[v] : <<v, k>> \in DOMAIN tasks

\* Specialists of the current worker are in its pool, one for a task, which is open.
Manned ==
  /\ pool # {} => control.phase = "dispatch"
  /\ \A e \in experts : e.task \in DOMAIN tasks /\ e.fence \in 1..fence /\ e.attempt \in 1..e.fence
  /\ \A e \in experts : e.fence = fence =>
       /\ e.task \in pool /\ tasks[e.task].status \notin Finished
       /\ tasks[e.task].attempt = IF e.begun THEN e.attempt ELSE e.attempt - 1
  /\ \A d, e \in experts : d.fence = fence /\ e.fence = fence /\ d.task = e.task => d = e
  /\ \A t \in DOMAIN tasks :
       /\ tasks[t].attempt <= fence
       /\ tasks[t].attempt = fence => tasks[t].status \in Finished \/ \E e \in experts : e.task = t /\ e.fence = fence /\ e.begun

\* The answer comes when nothing of the plan is open.
Closed == committed.phase = "synthesize" \/ committed.reason = "ready" => Open = {}

SpecialistsInv == SpecialistShapes /\ Course /\ Laid /\ Manned /\ Closed

-----------------------------------------------------------------------------
(* Every step keeps it. *)

\* What a specialist does once it has begun: it keeps its work, or ends its task.
KeepsWork(e) == \E w \in Work :
  /\ tasks' = [tasks EXCEPT ![e.task].work = w]
  /\ experts' = (experts \ {e}) \cup {[e EXCEPT !.work = w]}
  /\ pool' = pool
EndsTask(e) == \E s \in Finished :
  /\ tasks' = [tasks EXCEPT ![e.task].status = s, ![e.task].work = NewWork]
  /\ experts' = experts \ {e} /\ pool' = pool \ {e.task}
AtTask(e) ==
  /\ e.begun /\ e.fence = fence /\ tasks[e.task].attempt = e.attempt
  /\ KeepsWork(e) \/ EndsTask(e)
  /\ stop' \in {stop, FirstReason("limit")} /\ exhausted' \in {exhausted, exhausted \cup {e.task[2]}}
  /\ UNCHANGED <<control, committed, plans, fence>>

\* What a specialist does with its task, whether it thinks, acts or fails.
LEMMA WorkingStep ==
  ASSUME ExpertShape, NEW e \in experts, ThinkExpert(e) \/ ActExpert(e) \/ FailExpert(e)
  PROVE  AtTask(e)
<1>0. e.work \in Work
  BY DEF ExpertShape, Expert
<1>2. /\ \E w \in Work : w = [e.work EXCEPT !.phase = "tools", !.round = @ + 1]
      /\ \E w \in Work : w = [e.work EXCEPT !.retried = TRUE, !.round = @ + 1]
      /\ \E w \in Work : w = [e.work EXCEPT !.phase = "model"]
      /\ \E w \in Work : w = [e.work EXCEPT !.phase = "model", !.retried = TRUE]
  <2>1. PICK w : w = [e.work EXCEPT !.phase = "tools", !.round = @ + 1]
    OBVIOUS
  <2>2. PICK v : v = [e.work EXCEPT !.retried = TRUE, !.round = @ + 1]
    OBVIOUS
  <2>3. PICK u : u = [e.work EXCEPT !.phase = "model"]
    OBVIOUS
  <2>4. PICK t : t = [e.work EXCEPT !.phase = "model", !.retried = TRUE]
    OBVIOUS
  <2>5. w \in Work
    <3>1. w = [phase |-> "tools", round |-> e.work.round + 1, retried |-> e.work.retried]
      BY <1>0, <2>1 DEF Work
    <3> QED
      BY <1>0, <3>1 DEF Work
  <2>6. v \in Work
    <3>1. v = [phase |-> e.work.phase, round |-> e.work.round + 1, retried |-> TRUE]
      BY <1>0, <2>2 DEF Work
    <3> QED
      BY <1>0, <3>1 DEF Work
  <2>7. u \in Work
    BY <1>0, <2>3 DEF Work
  <2>8. t \in Work
    BY <1>0, <2>4 DEF Work
  <2> QED
    BY <2>1, <2>2, <2>3, <2>4, <2>5, <2>6, <2>7, <2>8
<1>3. \A w \in Work : KeepWork(e, w) => KeepsWork(e) /\ exhausted' = exhausted
  BY DEF KeepsWork, KeepWork
<1>4. \A s \in Finished : e.fence = fence /\ EndTask(e, s) => EndsTask(e) /\ exhausted' = exhausted
  BY DEF EndsTask, EndTask, Leaves
<1>5. e.begun /\ e.fence = fence /\ tasks[e.task].attempt = e.attempt
  BY DEF ThinkExpert, ActExpert, FailExpert, Writes
<1>6. CASE ThinkExpert(e)
  BY <1>2, <1>3, <1>4, <1>5, <1>6 DEF ThinkExpert, AtTask, Finished
<1>7. CASE ActExpert(e)
  <2>1. CASE /\ tasks' = [tasks EXCEPT ![e.task].status = "partial", ![e.task].work = NewWork]
             /\ Leaves(e) /\ exhausted' = exhausted \cup {e.task[2]}
    <3>1. EndsTask(e)
      BY <1>5, <2>1 DEF EndsTask, Leaves, Finished
    <3> QED
      BY <1>5, <1>7, <2>1, <3>1 DEF ActExpert, AtTask
  <2> QED
    BY <1>2, <1>3, <1>4, <1>5, <1>7, <2>1 DEF ActExpert, AtTask, Finished
<1>8. CASE FailExpert(e)
  BY <1>4, <1>5, <1>8 DEF FailExpert, AtTask, Finished
<1> QED
  BY <1>6, <1>7, <1>8

\* The supervisor's turn adds a plan that can be done in the order of its keys.
LEMMA AskedPlan ==
  ASSUME PlanShape, AskSupervisor
  PROVE  /\ PlanShape' /\ Len(plans) \in Nat /\ Len(plans') = Len(plans) + 1
         /\ \A v \in 1..Len(plans) : plans'[v] = plans[v]
         /\ \A k \in DOMAIN plans'[Len(plans')] :
              plans'[Len(plans')][k].needs \subseteq {d \in DOMAIN plans'[Len(plans')] : d < k}
<1>0. PICK named \in SUBSET Keys, reused \in SUBSET Keys : \E needs \in [named -> SUBSET named] :
        Acyclic(needs) /\ plans' = Append(plans, [k \in named |-> [needs |-> needs[k], reused |-> k \in reused]])
  BY DEF AskSupervisor
<1>1. PICK needs \in [named -> SUBSET named] :
        Acyclic(needs) /\ plans' = Append(plans, [k \in named |-> [needs |-> needs[k], reused |-> k \in reused]])
  BY <1>0
<1>9. PICK p : p = [k \in named |-> [needs |-> needs[k], reused |-> k \in reused]]
  OBVIOUS
<1>2. p \in [named -> Entry]
  BY <1>9 DEF Entry
<1>3. p \in AnyPlan
  BY <1>2 DEF AnyPlan
<1>4. DOMAIN p = named /\ \A k \in named : p[k].needs \subseteq {d \in named : d < k}
  BY <1>1, <1>9 DEF Acyclic
<1>5. plans' = Append(plans, p)
  BY <1>1, <1>9
<1>6. /\ plans' \in Seq(AnyPlan) /\ Len(plans) \in Nat /\ Len(plans') = Len(plans) + 1
      /\ plans'[Len(plans')] = p /\ \A v \in 1..Len(plans) : plans'[v] = plans[v]
  BY <1>3, <1>5 DEF PlanShape
<1> QED
  BY <1>4, <1>6 DEF PlanShape

\* A plan is about keys, with an entry for each.
LEMMA PlanFacts ==
  ASSUME PlanShape
  PROVE  Len(plans) \in Nat /\ \A v \in 1..Len(plans) : DOMAIN plans[v] \subseteq Keys /\ plans[v] \in [DOMAIN plans[v] -> Entry]
<1>1. Len(plans) \in Nat /\ \A v \in 1..Len(plans) : plans[v] \in AnyPlan
  BY DEF PlanShape
<1>2. \A p \in AnyPlan : DOMAIN p \subseteq Keys /\ p \in [DOMAIN p -> Entry]
  <2> SUFFICES ASSUME NEW named \in SUBSET Keys, NEW p \in [named -> Entry]
               PROVE  DOMAIN p \subseteq Keys /\ p \in [DOMAIN p -> Entry]
    BY DEF AnyPlan
  <2>1. DOMAIN p = named
    OBVIOUS
  <2> QED
    BY <2>1
<1> QED
  BY <1>1, <1>2

\* Where the coordinator's graph goes.
MovesTo(c, phase, version, handedOff, revised, reason, outcome) ==
  c = [phase |-> phase, version |-> version, handedOff |-> handedOff, revised |-> revised,
       reason |-> reason, outcome |-> outcome]

\* A graph that goes on has its fields where they were, but for what the step changes.
LEMMA PhaseMoves ==
  ASSUME NEW c \in Control, NEW d, NEW p, NEW n, NEW x
  PROVE  /\ d = [c EXCEPT !.phase = p] => MovesTo(d, p, c.version, c.handedOff, c.revised, c.reason, c.outcome)
         /\ d = [c EXCEPT !.phase = p, !.reason = x] => MovesTo(d, p, c.version, c.handedOff, c.revised, x, c.outcome)
         /\ d = [c EXCEPT !.phase = p, !.outcome = x] => MovesTo(d, p, c.version, c.handedOff, c.revised, c.reason, x)
         /\ d = [c EXCEPT !.phase = p, !.revised = x] => MovesTo(d, p, c.version, c.handedOff, x, c.reason, c.outcome)
         /\ d = [c EXCEPT !.phase = p, !.handedOff = x] => MovesTo(d, p, c.version, x, c.revised, c.reason, c.outcome)
         /\ d = [[c EXCEPT !.version = n] EXCEPT !.phase = p] => MovesTo(d, p, n, c.handedOff, c.revised, c.reason, c.outcome)
         /\ d = [[c EXCEPT !.version = n] EXCEPT !.phase = p, !.reason = x]
              => MovesTo(d, p, n, c.handedOff, c.revised, x, c.outcome)
<1> USE DEF Control, MovesTo
<1>1. d = [c EXCEPT !.phase = p] => MovesTo(d, p, c.version, c.handedOff, c.revised, c.reason, c.outcome)
  OBVIOUS
<1>2. d = [c EXCEPT !.phase = p, !.reason = x] => MovesTo(d, p, c.version, c.handedOff, c.revised, x, c.outcome)
  OBVIOUS
<1>3. d = [c EXCEPT !.phase = p, !.outcome = x] => MovesTo(d, p, c.version, c.handedOff, c.revised, c.reason, x)
  OBVIOUS
<1>4. d = [c EXCEPT !.phase = p, !.revised = x] => MovesTo(d, p, c.version, c.handedOff, x, c.reason, c.outcome)
  OBVIOUS
<1>5. d = [c EXCEPT !.phase = p, !.handedOff = x] => MovesTo(d, p, c.version, x, c.revised, c.reason, c.outcome)
  OBVIOUS
<1>6. d = [[c EXCEPT !.version = n] EXCEPT !.phase = p] => MovesTo(d, p, n, c.handedOff, c.revised, c.reason, c.outcome)
  OBVIOUS
<1>7. d = [[c EXCEPT !.version = n] EXCEPT !.phase = p, !.reason = x]
        => MovesTo(d, p, n, c.handedOff, c.revised, x, c.outcome)
  OBVIOUS
<1> QED
  BY <1>1, <1>2, <1>3, <1>4, <1>5, <1>6, <1>7

\* The coordinator's graph after each of its steps.
LEMMA CoordinatorMoves ==
  ASSUME ControlShape
  PROVE
  /\ EndPlan => \/ /\ MovesTo(control', "dispatch", control.version + 1, control.handedOff, control.revised, control.reason, control.outcome)
                   /\ stop' = stop
                \/ /\ MovesTo(control', "finalize", control.version + 1, control.handedOff, control.revised, stop', control.outcome)
                   /\ stop' = FirstReason("idle")
  /\ EndDispatch => \/ MovesTo(control', "synthesize", control.version, control.handedOff, control.revised, control.reason, control.outcome)
                    \/ /\ ~control.handedOff
                       /\ MovesTo(control', "plan", control.version, TRUE, control.revised, control.reason, control.outcome)
  /\ BeginSynthesis => MovesTo(control', "answer", control.version, control.handedOff, control.revised, stop', control.outcome)
  /\ Synthesize => \E p \in {"review", "done"}, o \in {"none", "succeeded", "partial"} :
                     /\ MovesTo(control', p, control.version, control.handedOff, control.revised, control.reason, o)
                     /\ committed' = control' \/ (committed' = committed /\ p = "done")
  /\ ReviewAnswer => \E p \in {"review", "revise", "done"}, r \in BOOLEAN, o \in {"none", "succeeded", "partial"} :
                       MovesTo(control', p, control.version, control.handedOff, r, control.reason, o)
  /\ CoordinatorStops => MovesTo(control', "finalize", control.version, control.handedOff, control.revised, stop', control.outcome)
  /\ Finalize => \E p \in {"review", "done"}, o \in {"none", "succeeded", "partial"} :
                   MovesTo(control', p, control.version, control.handedOff, control.revised, control.reason, o)
<1>0. control \in Control
  BY DEF ControlShape
<1>1. ASSUME EndPlan
      PROVE  \/ control' = [[control EXCEPT !.version = control.version + 1] EXCEPT !.phase = "dispatch"] /\ stop' = stop
             \/ /\ control' = [[control EXCEPT !.version = control.version + 1] EXCEPT !.phase = "finalize", !.reason = stop']
                /\ stop' = FirstReason("idle")
  BY <1>1 DEF EndPlan, Commit
<1>2. EndDispatch => \/ control' = [control EXCEPT !.phase = "synthesize"]
                     \/ ~control.handedOff /\ control' = [control EXCEPT !.phase = "plan", !.handedOff = TRUE]
  BY DEF EndDispatch, Commit
<1>17. BeginSynthesis => control' = [control EXCEPT !.phase = "answer", !.reason = stop']
  BY DEF BeginSynthesis
<1>3. Synthesize => \/ control' = [control EXCEPT !.phase = "review"] /\ committed' = control'
                    \/ control' = [control EXCEPT !.phase = "done", !.outcome = "partial"] /\ committed' = committed
  BY DEF Synthesize, Commit
<1>4. ReviewAnswer => \/ \E o \in {"succeeded", "partial"} : control' = [control EXCEPT !.phase = "done", !.outcome = o]
                      \/ control' = [control EXCEPT !.phase = "revise", !.revised = TRUE]
                      \/ control' = [control EXCEPT !.phase = "review"]
  BY DEF ReviewAnswer, Commit
<1>5. CoordinatorStops => control' = [control EXCEPT !.phase = "finalize", !.reason = stop']
  BY DEF CoordinatorStops
<1>6. Finalize => \/ control' = [control EXCEPT !.phase = "review"]
                  \/ control' = [control EXCEPT !.phase = "done", !.outcome = "partial"]
  BY DEF Finalize, Commit
<1>8. control.revised \in BOOLEAN /\ control.outcome \in {"none", "succeeded", "partial"}
  BY <1>0 DEF Control
<1>11. EndPlan => \/ /\ MovesTo(control', "dispatch", control.version + 1, control.handedOff, control.revised, control.reason, control.outcome)
                     /\ stop' = stop
                  \/ /\ MovesTo(control', "finalize", control.version + 1, control.handedOff, control.revised, stop', control.outcome)
                     /\ stop' = FirstReason("idle")
  BY <1>0, <1>1, PhaseMoves
<1>12. EndDispatch => \/ MovesTo(control', "synthesize", control.version, control.handedOff, control.revised, control.reason, control.outcome)
                      \/ /\ ~control.handedOff
                         /\ MovesTo(control', "plan", control.version, TRUE, control.revised, control.reason, control.outcome)
  BY <1>0, <1>2, PhaseMoves
<1>18. BeginSynthesis => MovesTo(control', "answer", control.version, control.handedOff, control.revised, stop', control.outcome)
  BY <1>0, <1>17, PhaseMoves
<1>13. Synthesize => \E p \in {"review", "done"}, o \in {"none", "succeeded", "partial"} :
                     /\ MovesTo(control', p, control.version, control.handedOff, control.revised, control.reason, o)
                     /\ committed' = control' \/ (committed' = committed /\ p = "done")
  BY <1>0, <1>3, <1>8, PhaseMoves
<1>14. ReviewAnswer => \E p \in {"review", "revise", "done"}, r \in BOOLEAN, o \in {"none", "succeeded", "partial"} :
                       MovesTo(control', p, control.version, control.handedOff, r, control.reason, o)
  <2>1. ASSUME NEW o \in {"succeeded", "partial"}, control' = [control EXCEPT !.phase = "done", !.outcome = o]
        PROVE  MovesTo(control', "done", control.version, control.handedOff, control.revised, control.reason, o)
    BY <1>0, <2>1, PhaseMoves
  <2>2. ASSUME control' = [control EXCEPT !.phase = "revise", !.revised = TRUE]
        PROVE  MovesTo(control', "revise", control.version, control.handedOff, TRUE, control.reason, control.outcome)
    BY <1>0, <2>2, PhaseMoves
  <2>3. ASSUME control' = [control EXCEPT !.phase = "review"]
        PROVE  MovesTo(control', "review", control.version, control.handedOff, control.revised, control.reason, control.outcome)
    BY <1>0, <2>3, PhaseMoves
  <2> QED
    BY <1>4, <1>8, <2>1, <2>2, <2>3
<1>15. CoordinatorStops => MovesTo(control', "finalize", control.version, control.handedOff, control.revised, stop', control.outcome)
  BY <1>0, <1>5, PhaseMoves
<1>16. Finalize => \E p \in {"review", "done"}, o \in {"none", "succeeded", "partial"} :
                   MovesTo(control', p, control.version, control.handedOff, control.revised, control.reason, o)
  BY <1>0, <1>6, <1>8, PhaseMoves
<1> QED
  BY <1>11, <1>12, <1>13, <1>14, <1>15, <1>16, <1>18

\* The same, as to what the invariant speaks of.
Turn(phase, version, handedOff, reason) ==
  /\ control' \in Control /\ control'.phase = phase /\ control'.version = version
  /\ control'.handedOff = handedOff /\ control'.reason = reason

\* Each step of the coordinator, by the four fields.
LEMMA CoordinatorTurns ==
  ASSUME ControlShape, Course
  PROVE
  /\ EndPlan => \/ Turn("dispatch", control.version + 1, control.handedOff, control.reason) /\ stop' = stop
                \/ /\ Turn("finalize", control.version + 1, control.handedOff, stop')
                   /\ stop' = FirstReason("idle")
  /\ EndDispatch => \/ Turn("synthesize", control.version, control.handedOff, control.reason)
                    \/ ~control.handedOff /\ Turn("plan", control.version, TRUE, control.reason)
  /\ BeginSynthesis => Turn("answer", control.version, control.handedOff, stop')
  /\ Synthesize => \E p \in {"review", "done"} :
                     /\ Turn(p, control.version, control.handedOff, control.reason)
                     /\ committed' = control' \/ (committed' = committed /\ p = "done")
  /\ ReviewAnswer => \E p \in {"review", "revise", "done"} :
                       Turn(p, control.version, control.handedOff, control.reason)
  /\ CoordinatorStops => Turn("finalize", control.version, control.handedOff, stop')
  /\ Finalize => \E p \in {"review", "done"} : Turn(p, control.version, control.handedOff, control.reason)
<1>1. /\ control.version \in {0} \cup Versions /\ control.handedOff \in BOOLEAN /\ control.revised \in BOOLEAN
      /\ control.reason \in {"none", "ready", "limit", "idle"}
      /\ control.outcome \in {"none", "succeeded", "partial"}
      /\ stop \in {"none", "ready", "limit", "idle"}
  BY DEF ControlShape, Control
<1>2. FirstReason("idle") \in {"none", "ready", "limit", "idle"}
  BY <1>1 DEF FirstReason
<1>4. ASSUME EndPlan PROVE control.version + 1 \in {0} \cup Versions
  <2>1. control.phase = "plan"
    BY <1>4 DEF EndPlan, TaskGate
  <2>2. control = committed
    BY <2>1 DEF Course
  <2>3. control.version \in {0, 1}
    BY <1>1, <2>1, <2>2 DEF Course
  <2> QED
    BY <2>3 DEF Versions
<1>5. ASSUME EndPlan
      PROVE  \/ Turn("dispatch", control.version + 1, control.handedOff, control.reason) /\ stop' = stop
             \/ /\ Turn("finalize", control.version + 1, control.handedOff, stop')
                /\ stop' = FirstReason("idle")
  <2>1. ASSUME MovesTo(control', "dispatch", control.version + 1, control.handedOff, control.revised, control.reason, control.outcome)
        PROVE  Turn("dispatch", control.version + 1, control.handedOff, control.reason)
    BY <1>1, <2>1, <1>4, <1>5 DEF MovesTo, Turn, Control
  <2>2. ASSUME MovesTo(control', "finalize", control.version + 1, control.handedOff, control.revised, stop', control.outcome), stop' = FirstReason("idle")
        PROVE  Turn("finalize", control.version + 1, control.handedOff, stop')
    BY <1>1, <1>2, <1>4, <1>5, <2>2 DEF MovesTo, Turn, Control
  <2> QED
    BY <1>5, <2>1, <2>2, CoordinatorMoves
<1>6. ASSUME EndDispatch
      PROVE  \/ Turn("synthesize", control.version, control.handedOff, control.reason)
             \/ ~control.handedOff /\ Turn("plan", control.version, TRUE, control.reason)
  <2>1. ASSUME MovesTo(control', "synthesize", control.version, control.handedOff, control.revised, control.reason, control.outcome)
        PROVE  Turn("synthesize", control.version, control.handedOff, control.reason)
    BY <1>1, <2>1 DEF MovesTo, Turn, Control
  <2>2. ASSUME MovesTo(control', "plan", control.version, TRUE, control.revised, control.reason, control.outcome)
        PROVE  Turn("plan", control.version, TRUE, control.reason)
    BY <1>1, <2>2 DEF MovesTo, Turn, Control
  <2> QED
    BY <1>6, <2>1, <2>2, CoordinatorMoves
<1>11. ASSUME BeginSynthesis PROVE Turn("answer", control.version, control.handedOff, stop')
  <2>0. stop' \in {"none", "ready", "limit", "idle"}
    BY <1>1, <1>11 DEF BeginSynthesis, FirstReason
  <2>1. ASSUME MovesTo(control', "answer", control.version, control.handedOff, control.revised, stop', control.outcome)
        PROVE  Turn("answer", control.version, control.handedOff, stop')
    BY <1>1, <2>1, <2>0 DEF MovesTo, Turn, Control
  <2> QED
    BY <1>11, <2>1, CoordinatorMoves
<1>7. ASSUME Synthesize
      PROVE  \E p \in {"review", "done"} :
               /\ Turn(p, control.version, control.handedOff, control.reason)
               /\ committed' = control' \/ (committed' = committed /\ p = "done")
  <2>0. PICK p \in {"review", "done"}, o \in {"none", "succeeded", "partial"} :
          /\ MovesTo(control', p, control.version, control.handedOff, control.revised, control.reason, o)
          /\ committed' = control' \/ (committed' = committed /\ p = "done")
    BY <1>7, CoordinatorMoves
  <2>1. Turn(p, control.version, control.handedOff, control.reason)
    BY <1>1, <2>0 DEF MovesTo, Turn, Control
  <2> QED
    BY <2>0, <2>1
<1>8. ASSUME ReviewAnswer
      PROVE  \E p \in {"review", "revise", "done"} : Turn(p, control.version, control.handedOff, control.reason)
  <2>0. PICK p \in {"review", "revise", "done"}, r \in BOOLEAN, o \in {"none", "succeeded", "partial"} :
          MovesTo(control', p, control.version, control.handedOff, r, control.reason, o)
    BY <1>8, CoordinatorMoves
  <2>1. Turn(p, control.version, control.handedOff, control.reason)
    BY <1>1, <2>0 DEF MovesTo, Turn, Control
  <2> QED
    BY <2>1
<1>9. ASSUME CoordinatorStops PROVE Turn("finalize", control.version, control.handedOff, stop')
  <2>0. stop' \in {"none", "ready", "limit", "idle"}
    BY <1>1, <1>9 DEF CoordinatorStops, FirstReason
  <2>1. ASSUME MovesTo(control', "finalize", control.version, control.handedOff, control.revised, stop', control.outcome)
        PROVE  Turn("finalize", control.version, control.handedOff, stop')
    BY <1>1, <2>1, <2>0 DEF MovesTo, Turn, Control
  <2> QED
    BY <1>9, <2>1, CoordinatorMoves
<1>10. ASSUME Finalize
       PROVE  \E p \in {"review", "done"} : Turn(p, control.version, control.handedOff, control.reason)
  <2>0. PICK p \in {"review", "done"}, o \in {"none", "succeeded", "partial"} :
          MovesTo(control', p, control.version, control.handedOff, control.revised, control.reason, o)
    BY <1>10, CoordinatorMoves
  <2>1. Turn(p, control.version, control.handedOff, control.reason)
    BY <1>1, <2>0 DEF MovesTo, Turn, Control
  <2> QED
    BY <2>1
<1> QED
  BY <1>5, <1>6, <1>7, <1>8, <1>9, <1>10, <1>11

\* When the coordinator moves at all, and what it leaves alone.
LEMMA CoordinatorGuards ==
  /\ EndPlan => /\ control.phase = "plan" /\ (stop = "none" \/ control.reason # "none") /\ Len(plans) > control.version
                /\ UNCHANGED <<plans, tasks, experts, pool, fence, exhausted>>
  /\ EndDispatch => /\ control.phase = "dispatch" /\ (stop = "none" \/ control.reason # "none")
                    /\ pool = {} /\ ReadyTasks = {}
                    /\ UNCHANGED <<plans, tasks, experts, pool, fence, stop, exhausted>>
  /\ BeginSynthesis => /\ control.phase = "synthesize" /\ (stop = "none" \/ control.reason # "none")
                       /\ stop' = FirstReason("ready")
                       /\ UNCHANGED <<committed, plans, tasks, experts, pool, fence, exhausted>>
  /\ Synthesize => control.phase = "answer" /\ UNCHANGED <<plans, tasks, experts, pool, fence, stop, exhausted>>
  /\ ReviewAnswer => /\ control.phase \in {"review", "revise"}
                     /\ UNCHANGED <<plans, tasks, experts, pool, fence, stop, exhausted>>
  /\ CoordinatorStops => /\ control.phase \in {"plan", "dispatch", "synthesize"} /\ pool = {}
                         /\ stop' = FirstReason("limit")
                         /\ UNCHANGED <<committed, plans, tasks, experts, pool, fence, exhausted>>
  /\ Finalize => /\ control.phase = "finalize" /\ stop' = FirstReason(control.reason)
                 /\ UNCHANGED <<plans, experts, pool, fence, exhausted>>
  /\ EndPlan \/ EndDispatch \/ ReviewAnswer \/ Finalize => committed' = control'
<1>1. \A c : Commit(c) => committed' = control'
  BY DEF Commit
<1>2. EndPlan => committed' = control'
  BY <1>1 DEF EndPlan
<1>3. EndDispatch => committed' = control'
  BY <1>1 DEF EndDispatch
<1>5. ReviewAnswer => committed' = control'
  BY <1>1 DEF ReviewAnswer
<1>6. Finalize => committed' = control'
  BY <1>1 DEF Finalize
<1> HIDE <1>1
<1> QED
  BY <1>2, <1>3, <1>5, <1>6 DEF EndPlan, EndDispatch, BeginSynthesis, Synthesize, ReviewAnswer, CoordinatorStops, Finalize, TaskGate

\* The graphs, the reason and the fence keep their types.
LEMMA ControlShapeStep ==
  ASSUME ControlShape, ExpertShape, Course, [SpecialistsNext]_specialistsVars
  PROVE  ControlShape'
<1>0. control.reason \in {"none", "ready", "limit", "idle"}
  BY DEF ControlShape, Control
<1> USE <1>0, SpecialistsAssumption DEF ControlShape
<1>1. CASE AskSupervisor
  BY <1>1 DEF AskSupervisor, TaskGate
<1>2. CASE EndPlan
  BY <1>2, CoordinatorTurns, CoordinatorGuards DEF Turn, FirstReason
<1>3. CASE Dispatch
  BY <1>3 DEF Dispatch, TaskGate, ReadyTasks, Open, PlanTasks
<1>4. CASE EndDispatch
  BY <1>4, CoordinatorTurns, CoordinatorGuards DEF Turn, FirstReason
<1>5. CASE Synthesize
  BY <1>5, CoordinatorTurns, CoordinatorGuards DEF Turn, FirstReason
<1>19. CASE BeginSynthesis
  BY <1>19, CoordinatorTurns, CoordinatorGuards DEF Turn, FirstReason
<1>6. CASE ReviewAnswer
  BY <1>6, CoordinatorTurns, CoordinatorGuards DEF Turn, FirstReason
<1>7. CASE CoordinatorStops
  BY <1>7, CoordinatorTurns, CoordinatorGuards DEF Turn, FirstReason
<1>8. CASE Finalize
  BY <1>8, CoordinatorTurns, CoordinatorGuards DEF Turn, FirstReason
<1>9. CASE LoseLease
  <2>0. fence \in 1..MaxFences
    OBVIOUS
  <2>1. fence' \in 1..MaxFences
    <3> HIDE DEF ControlShape
    <3> QED
      BY <1>9, <2>0, SpecialistsAssumption DEF LoseLease
  <2> QED
    BY <1>9, <2>1 DEF LoseLease
<1>10. ASSUME NEW k \in Keys, SaveTask(k) PROVE ControlShape'
  BY <1>10 DEF SaveTask, TaskGate, Planned, Put, NewWork
<1>11. ASSUME NEW e \in experts, BeginExpert(e) PROVE ControlShape'
  BY <1>11 DEF BeginExpert, Writes
<1>12. ASSUME NEW e \in experts, AtTask(e) PROVE ControlShape'
  BY <1>12 DEF AtTask, FirstReason
<1>13. ASSUME NEW e \in experts, DropExpert(e) PROVE ControlShape'
  BY <1>13 DEF DropExpert, Leaves
<1>14. CASE UNCHANGED specialistsVars
  BY <1>14 DEF specialistsVars
<1> QED
  BY <1>1, <1>2, <1>3, <1>4, <1>5, <1>6, <1>7, <1>8, <1>9, <1>10, <1>11, <1>12, <1>13, <1>14, <1>19, WorkingStep DEF SpecialistsNext

\* The coordinator's graph and the plans it has asked for.
LEMMA CourseStep ==
  ASSUME ControlShape, PlanShape, ExpertShape, Course, [SpecialistsNext]_specialistsVars
  PROVE  Course'
<1>15. Len(plans) \in Nat
  BY PlanFacts
<1>16. /\ control.version \in 0..2 /\ control.handedOff \in BOOLEAN
      /\ stop \in {"none", "ready", "limit", "idle"} /\ control.reason \in {"none", "ready", "limit", "idle"}
      /\ control.phase \in {"plan", "dispatch", "synthesize", "answer", "review", "revise", "finalize", "done"}
  <2>1. control \in Control /\ stop \in {"none", "ready", "limit", "idle"}
    BY DEF ControlShape
  <2>2. control.version \in {0} \cup Versions
    BY <2>1 DEF Control
  <2>3. control.version \in 0..2
    BY <2>2 DEF Versions
  <2> QED
    BY <2>1, <2>3 DEF Control
<1> USE <1>16, <1>15 DEF Course
<1>1. CASE AskSupervisor
  BY <1>1, AskedPlan DEF AskSupervisor, TaskGate
<1>2. CASE EndPlan
  <2>1. /\ control.phase = "plan" /\ control = committed /\ committed' = control' /\ Len(plans) = control.version + 1
        /\ plans' = plans /\ control.reason = "none" /\ stop # "ready"
        /\ control.version = IF control.handedOff THEN 1 ELSE 0
    <3>1. /\ control.phase = "plan" /\ committed' = control' /\ plans' = plans /\ Len(plans) > control.version
      BY <1>2, CoordinatorGuards
    <3>2. control = committed
      BY <3>1
    <3>3. /\ control.reason = "none" /\ stop # "ready" /\ control.version = IF control.handedOff THEN 1 ELSE 0
          /\ Len(plans) \in {control.version, control.version + 1}
      BY <3>1, <3>2
    <3> HIDE DEF Course
    <3>4. Len(plans) = control.version + 1
      BY <3>1, <3>3
    <3> QED
      BY <3>1, <3>2, <3>3, <3>4
  <2>4. control.version + 1 >= 1 /\ (~control.handedOff => control.version + 1 <= 1)
    BY <2>1
  <2>2. CASE Turn("dispatch", control.version + 1, control.handedOff, control.reason) /\ stop' = stop
    BY <2>1, <2>2, <2>4 DEF Turn
  <2>3. CASE Turn("finalize", control.version + 1, control.handedOff, stop') /\ stop' = FirstReason("idle")
    BY <2>1, <2>3, <2>4 DEF Turn, FirstReason
  <2> QED
    BY <1>2, <2>2, <2>3, CoordinatorTurns
<1>3. CASE Dispatch
  BY <1>3 DEF Dispatch, TaskGate, ReadyTasks, Open, PlanTasks
<1>4. CASE EndDispatch
  <2>1. /\ control.phase = "dispatch" /\ control = committed /\ committed' = control'
        /\ plans' = plans /\ control.reason = "none" /\ stop # "ready" /\ stop' = stop
        /\ control.version >= 1 /\ (~control.handedOff => control.version <= 1)
    BY <1>4, CoordinatorGuards
  <2>2. CASE Turn("synthesize", control.version, control.handedOff, control.reason)
    BY <2>1, <2>2 DEF Turn
  <2>3. CASE ~control.handedOff /\ Turn("plan", control.version, TRUE, control.reason)
    BY <2>1, <2>3 DEF Turn
  <2> QED
    BY <1>4, <2>2, <2>3, CoordinatorTurns
<1>5. CASE Synthesize
  BY <1>5, CoordinatorTurns, CoordinatorGuards DEF Turn, FirstReason
<1>19. CASE BeginSynthesis
  BY <1>19, CoordinatorTurns, CoordinatorGuards DEF Turn, FirstReason
<1>6. CASE ReviewAnswer
  BY <1>6, CoordinatorTurns, CoordinatorGuards DEF Turn, FirstReason
<1>7. CASE CoordinatorStops
  BY <1>7, CoordinatorTurns, CoordinatorGuards DEF Turn, FirstReason
<1>8. CASE Finalize
  BY <1>8, CoordinatorTurns, CoordinatorGuards DEF Turn, FirstReason
<1>9. CASE LoseLease
  BY <1>9 DEF LoseLease
<1>10. ASSUME NEW k \in Keys, SaveTask(k) PROVE Course'
  BY <1>10 DEF SaveTask, TaskGate, Planned, Put, NewWork
<1>11. ASSUME NEW e \in experts, BeginExpert(e) PROVE Course'
  BY <1>11 DEF BeginExpert, Writes
<1>12. ASSUME NEW e \in experts, AtTask(e) PROVE Course'
  BY <1>12 DEF AtTask, FirstReason
<1>13. ASSUME NEW e \in experts, DropExpert(e) PROVE Course'
  BY <1>13 DEF DropExpert, Leaves
<1>14. CASE UNCHANGED specialistsVars
  BY <1>14 DEF specialistsVars
<1> QED
  BY <1>1, <1>2, <1>3, <1>4, <1>5, <1>6, <1>7, <1>8, <1>9, <1>10, <1>11, <1>12, <1>13, <1>14, <1>19, WorkingStep DEF SpecialistsNext

\* What a specialist's step does to its task, and to itself.
Becomes(t, status, attempt) ==
  /\ tasks' \in [DOMAIN tasks -> Task] /\ DOMAIN tasks' = DOMAIN tasks
  /\ \A u \in DOMAIN tasks : u # t => tasks'[u] = tasks[u]
  /\ tasks'[t].status = status /\ tasks'[t].attempt = attempt /\ tasks'[t].needs = tasks[t].needs
Replaced(e, begun) ==
  \E f \in Expert : /\ f.task = e.task /\ f.attempt = e.attempt /\ f.fence = e.fence /\ f.begun = begun
                    /\ experts' = (experts \ {e}) \cup {f}

\* claim_task(): the task runs under the attempt of its specialist.
LEMMA BegunTask ==
  ASSUME ControlShape, TaskShape, ExpertShape, Manned, NEW e \in experts, BeginExpert(e)
  PROVE  Becomes(e.task, "running", e.attempt) /\ Replaced(e, TRUE)
<1>1. /\ tasks \in [DOMAIN tasks -> Task] /\ e.task \in DOMAIN tasks /\ e \in Expert
      /\ tasks' = [tasks EXCEPT ![e.task].status = "running", ![e.task].attempt = e.attempt]
  BY DEF TaskShape, Manned, ExpertShape, BeginExpert
<1>2. e.attempt \in 0..MaxFences
  <2>1. e.fence \in 1..fence /\ e.attempt \in 1..e.fence /\ fence \in 1..MaxFences
    BY DEF Manned, ControlShape
  <2> QED
    BY <2>1, SpecialistsAssumption
<1>3. PICK r : r = [tasks[e.task] EXCEPT !.status = "running", !.attempt = e.attempt]
  OBVIOUS
<1>4. r \in Task /\ r.status = "running" /\ r.attempt = e.attempt /\ r.needs = tasks[e.task].needs
  BY <1>1, <1>2, <1>3 DEF Task
<1>5. tasks' = [tasks EXCEPT ![e.task] = r]
  BY <1>1, <1>3
<1>6. Becomes(e.task, "running", e.attempt)
  BY <1>1, <1>4, <1>5 DEF Becomes
<1>7. PICK f : f = [e EXCEPT !.begun = TRUE]
  OBVIOUS
<1>8. f \in Expert /\ f.task = e.task /\ f.attempt = e.attempt /\ f.fence = e.fence /\ f.begun = TRUE
  BY <1>1, <1>7 DEF Expert
<1>9. Replaced(e, TRUE)
  BY <1>7, <1>8 DEF Replaced, BeginExpert
<1> QED
  BY <1>6, <1>9

\* A save of the specialist: its task has the status and attempt it had.
LEMMA KeptTask ==
  ASSUME TaskShape, ExpertShape, Manned, NEW e \in experts, KeepsWork(e)
  PROVE  Becomes(e.task, tasks[e.task].status, tasks[e.task].attempt) /\ Replaced(e, e.begun)
<1>1. PICK w \in Work : /\ tasks' = [tasks EXCEPT ![e.task].work = w]
                        /\ experts' = (experts \ {e}) \cup {[e EXCEPT !.work = w]}
  BY DEF KeepsWork
<1>2. tasks \in [DOMAIN tasks -> Task] /\ e.task \in DOMAIN tasks /\ e \in Expert
  BY DEF TaskShape, Manned, ExpertShape
<1>3. PICK r : r = [tasks[e.task] EXCEPT !.work = w]
  OBVIOUS
<1>4. r \in Task /\ r.status = tasks[e.task].status /\ r.attempt = tasks[e.task].attempt /\ r.needs = tasks[e.task].needs
  BY <1>2, <1>3 DEF Task
<1>5. tasks' = [tasks EXCEPT ![e.task] = r]
  BY <1>1, <1>3
<1>6. Becomes(e.task, tasks[e.task].status, tasks[e.task].attempt)
  BY <1>2, <1>4, <1>5 DEF Becomes
<1>7. PICK f : f = [e EXCEPT !.work = w]
  OBVIOUS
<1>8. f \in Expert /\ f.task = e.task /\ f.attempt = e.attempt /\ f.fence = e.fence /\ f.begun = e.begun
  BY <1>2, <1>7 DEF Expert
<1>9. Replaced(e, e.begun)
  BY <1>1, <1>7, <1>8 DEF Replaced
<1> QED
  BY <1>6, <1>9

\* A specialist that ends its task leaves the pool with it.
LEMMA EndedTask ==
  ASSUME TaskShape, ExpertShape, Manned, NEW e \in experts, EndsTask(e)
  PROVE  /\ \E s \in Finished : Becomes(e.task, s, tasks[e.task].attempt)
         /\ experts' = experts \ {e} /\ pool' = pool \ {e.task}
<1>1. PICK s \in Finished : tasks' = [tasks EXCEPT ![e.task].status = s, ![e.task].work = NewWork]
  BY DEF EndsTask
<1>2. tasks \in [DOMAIN tasks -> Task] /\ e.task \in DOMAIN tasks
  BY DEF TaskShape, Manned
<1>3. PICK r : r = [tasks[e.task] EXCEPT !.status = s, !.work = NewWork]
  OBVIOUS
<1>0. NewWork \in Work
  BY DEF NewWork, Work
<1>4. r \in Task /\ r.status = s /\ r.attempt = tasks[e.task].attempt /\ r.needs = tasks[e.task].needs
  BY <1>0, <1>2, <1>3 DEF Task
<1>5. tasks' = [tasks EXCEPT ![e.task] = r]
  BY <1>1, <1>3
<1>6. Becomes(e.task, s, tasks[e.task].attempt)
  BY <1>2, <1>4, <1>5 DEF Becomes
<1> QED
  BY <1>6 DEF EndsTask

\* Finalize() gives up what is queued.
LEMMA FinalizedTasks ==
  ASSUME TaskShape, Finalize
  PROVE  /\ tasks' \in [DOMAIN tasks -> Task] /\ DOMAIN tasks' = DOMAIN tasks
         /\ \A t \in DOMAIN tasks :
              /\ tasks'[t].attempt = tasks[t].attempt /\ tasks'[t].needs = tasks[t].needs
              /\ tasks[t].status # "queued" => tasks'[t] = tasks[t]
              /\ tasks[t].status = "queued" => tasks'[t].status = "partial"
<1>1. /\ tasks \in [DOMAIN tasks -> Task]
      /\ tasks' = [t \in DOMAIN tasks |-> IF tasks[t].status = "queued" THEN [tasks[t] EXCEPT !.status = "partial"] ELSE tasks[t]]
  BY DEF TaskShape, Finalize
<1>2. ASSUME NEW t \in DOMAIN tasks
      PROVE  /\ tasks'[t] \in Task /\ tasks'[t].attempt = tasks[t].attempt /\ tasks'[t].needs = tasks[t].needs
             /\ tasks[t].status # "queued" => tasks'[t] = tasks[t]
             /\ tasks[t].status = "queued" => tasks'[t].status = "partial"
  <2>1. PICK r : r = [tasks[t] EXCEPT !.status = "partial"]
    OBVIOUS
  <2>2. r \in Task /\ r.status = "partial" /\ r.attempt = tasks[t].attempt /\ r.needs = tasks[t].needs
    BY <1>1, <2>1 DEF Task, Finished
  <2>3. tasks'[t] = IF tasks[t].status = "queued" THEN r ELSE tasks[t]
    BY <1>1, <2>1
  <2> QED
    BY <1>1, <2>2, <2>3
<1>3. DOMAIN tasks' = DOMAIN tasks
  BY <1>1
<1>4. \A t \in DOMAIN tasks : tasks'[t] \in Task
  BY <1>2
<1>5. tasks' \in [DOMAIN tasks -> Task]
  BY <1>1, <1>4
<1> QED
  BY <1>2, <1>3, <1>5

\* A task is saved once.
LEMMA SavedTask ==
  ASSUME ControlShape, PlanShape, TaskShape, NEW k \in Keys, SaveTask(k), control.version + 1 \in Versions
  PROVE  LET t == <<control.version + 1, k>> IN
         /\ t \notin DOMAIN tasks /\ DOMAIN tasks' = DOMAIN tasks \cup {t} /\ tasks' \in [DOMAIN tasks' -> Task]
         /\ \A u \in DOMAIN tasks : tasks'[u] = tasks[u]
         /\ tasks'[t].attempt = 0 /\ tasks'[t].needs = Planned[k].needs
         /\ Len(plans) > control.version /\ k \in DOMAIN Planned
<1> DEFINE t == <<control.version + 1, k>>
<1>1. /\ control.phase = "plan" /\ Len(plans) > control.version /\ k \in DOMAIN Planned /\ t \notin DOMAIN tasks
  BY DEF SaveTask, TaskGate
<1>2. PICK status \in {"queued", "running"} \cup Finished :
        tasks' = Put(tasks, t, [status |-> status, attempt |-> 0, needs |-> Planned[k].needs, work |-> NewWork])
  BY DEF SaveTask, Finished
<1>3. PICK r : r = [status |-> status, attempt |-> 0, needs |-> Planned[k].needs, work |-> NewWork]
  OBVIOUS
<1>4. Planned[k].needs \subseteq Keys
  <2>0. control.version \in {0} \cup Versions
    BY DEF ControlShape, Control
  <2>1. control.version + 1 \in 1..Len(plans)
    BY <1>1, <2>0, PlanFacts DEF Versions
  <2>2. Planned \in [DOMAIN Planned -> Entry]
    BY <2>1, PlanFacts DEF Planned
  <2> QED
    BY <1>1, <2>2 DEF Entry
<1>5. NewWork \in Work
  BY DEF NewWork, Work
<1>6. r \in Task /\ r.attempt = 0 /\ r.needs = Planned[k].needs
  BY <1>3, <1>4, <1>5, SpecialistsAssumption DEF Task
<1> HIDE DEF t
<1>7. tasks' = Put(tasks, t, r)
  BY <1>2, <1>3
<1>8. tasks' = [x \in DOMAIN tasks \cup {t} |-> IF x = t THEN r ELSE tasks[x]]
  BY <1>7 DEF Put
<1>9. tasks \in [DOMAIN tasks -> Task]
  BY DEF TaskShape
<1> QED
  BY <1>1, <1>6, <1>8, <1>9 DEF t

\* The supervisor is asked for two plans at most.
LEMMA NextVersion ==
  ASSUME ControlShape, Course, control.phase = "plan"
  PROVE  control = committed /\ control.version + 1 \in Versions /\ control.reason = "none"
<1>1. control = committed
  BY DEF Course
<1>2. control.version \in {0, 1} /\ control.reason = "none"
  BY <1>1 DEF Course
<1> QED
  BY <1>1, <1>2 DEF Versions

\* The tasks and the pool keep their types.
LEMMA TaskShapeStep ==
  ASSUME ControlShape, PlanShape, TaskShape, ExpertShape, Course, Manned, [SpecialistsNext]_specialistsVars
  PROVE  TaskShape'
<1>1. CASE AskSupervisor
  BY <1>1 DEF AskSupervisor, TaskShape
<1>2. CASE EndPlan
  BY <1>2, CoordinatorGuards DEF TaskShape
<1>3. CASE Dispatch
  BY <1>3 DEF Dispatch, ReadyTasks, Open, PlanTasks, TaskShape
<1>4. CASE EndDispatch
  BY <1>4, CoordinatorGuards DEF TaskShape
<1>5. CASE Synthesize
  BY <1>5, CoordinatorGuards DEF TaskShape
<1>19. CASE BeginSynthesis
  BY <1>19, CoordinatorGuards DEF TaskShape
<1>6. CASE ReviewAnswer
  BY <1>6, CoordinatorGuards DEF TaskShape
<1>7. CASE CoordinatorStops
  BY <1>7, CoordinatorGuards DEF TaskShape
<1>8. CASE Finalize
  BY <1>8, FinalizedTasks, CoordinatorGuards DEF TaskShape
<1>9. CASE LoseLease
  BY <1>9 DEF LoseLease, TaskShape
<1>10. ASSUME NEW k \in Keys, SaveTask(k) PROVE TaskShape'
  <2>1. control.version + 1 \in Versions
    BY <1>10, NextVersion DEF SaveTask, TaskGate
  <2>2. pool' = pool
    BY <1>10 DEF SaveTask
  <2>3. PICK t : t = <<control.version + 1, k>>
    OBVIOUS
  <2>4. t \in Versions \X Keys /\ DOMAIN tasks' = DOMAIN tasks \cup {t} /\ tasks' \in [DOMAIN tasks' -> Task]
    BY <1>10, <2>1, <2>3, SavedTask
  <2> QED
    BY <2>2, <2>4 DEF TaskShape
<1>11. ASSUME NEW e \in experts, BeginExpert(e) PROVE TaskShape'
  <2>1. pool' = pool
    BY <1>11 DEF BeginExpert
  <2> QED
    BY <1>11, <2>1, BegunTask DEF TaskShape, Becomes
<1>12. ASSUME NEW e \in experts, AtTask(e) PROVE TaskShape'
  <2>1. CASE KeepsWork(e)
    BY <2>1, KeptTask DEF KeepsWork, TaskShape, Becomes
  <2>2. CASE EndsTask(e)
    BY <2>2, EndedTask DEF TaskShape, Becomes
  <2> QED
    BY <1>12, <2>1, <2>2 DEF AtTask
<1>13. ASSUME NEW e \in experts, DropExpert(e) PROVE TaskShape'
  BY <1>13 DEF DropExpert, Leaves, TaskShape
<1>14. CASE UNCHANGED specialistsVars
  BY <1>14 DEF specialistsVars, TaskShape
<1> QED
  BY <1>1, <1>2, <1>3, <1>4, <1>5, <1>6, <1>7, <1>8, <1>9, <1>10, <1>11, <1>12, <1>13, <1>14, <1>19, WorkingStep DEF SpecialistsNext

\* The threads and the closed paths keep their types.
LEMMA ExpertShapeStep ==
  ASSUME ControlShape, TaskShape, ExpertShape, Manned, [SpecialistsNext]_specialistsVars
  PROVE  ExpertShape'
<1>1. CASE AskSupervisor
  BY <1>1 DEF AskSupervisor, ExpertShape
<1>2. CASE EndPlan
  BY <1>2, CoordinatorGuards DEF ExpertShape
<1>3. CASE Dispatch
  <2>1. ASSUME NEW t \in ReadyTasks
        PROVE  [task |-> t, attempt |-> tasks[t].attempt + 1, fence |-> fence, work |-> tasks[t].work, begun |-> FALSE] \in Expert
    <3>1. t \in Versions \X Keys /\ tasks[t] \in Task
      BY <2>1 DEF ReadyTasks, Open, PlanTasks, TaskShape
    <3>2. tasks[t].attempt + 1 \in Nat /\ tasks[t].work \in Work
      BY <3>1, SpecialistsAssumption DEF Task
    <3>3. fence \in Nat
      BY SpecialistsAssumption DEF ControlShape
    <3> QED
      BY <3>1, <3>2, <3>3 DEF Expert
  <2> QED
    BY <1>3, <2>1 DEF Dispatch, ExpertShape
<1>4. CASE EndDispatch
  BY <1>4, CoordinatorGuards DEF ExpertShape
<1>5. CASE Synthesize
  BY <1>5, CoordinatorGuards DEF ExpertShape
<1>19. CASE BeginSynthesis
  BY <1>19, CoordinatorGuards DEF ExpertShape
<1>6. CASE ReviewAnswer
  BY <1>6, CoordinatorGuards DEF ExpertShape
<1>7. CASE CoordinatorStops
  BY <1>7, CoordinatorGuards DEF ExpertShape
<1>8. CASE Finalize
  BY <1>8, CoordinatorGuards DEF ExpertShape
<1>9. CASE LoseLease
  BY <1>9 DEF LoseLease, ExpertShape
<1>10. ASSUME NEW k \in Keys, SaveTask(k) PROVE ExpertShape'
  BY <1>10 DEF SaveTask, ExpertShape
<1>11. ASSUME NEW e \in experts, BeginExpert(e) PROVE ExpertShape'
  <2>1. exhausted' = exhausted
    BY <1>11 DEF BeginExpert
  <2> QED
    BY <1>11, <2>1, BegunTask DEF ExpertShape, Replaced
<1>12. ASSUME NEW e \in experts, AtTask(e) PROVE ExpertShape'
  <2>0. e.task[2] \in Keys
    BY DEF ExpertShape, Expert
  <2>3. exhausted' \subseteq Keys
    BY <1>12, <2>0 DEF AtTask, ExpertShape
  <2>1. CASE KeepsWork(e)
    BY <2>1, <2>3, KeptTask DEF ExpertShape, Replaced
  <2>2. CASE EndsTask(e)
    BY <2>2, <2>3 DEF EndsTask, ExpertShape
  <2> QED
    BY <1>12, <2>1, <2>2 DEF AtTask
<1>13. ASSUME NEW e \in experts, DropExpert(e) PROVE ExpertShape'
  BY <1>13 DEF DropExpert, Leaves, ExpertShape
<1>14. CASE UNCHANGED specialistsVars
  BY <1>14 DEF specialistsVars, ExpertShape
<1> QED
  BY <1>1, <1>2, <1>3, <1>4, <1>5, <1>6, <1>7, <1>8, <1>9, <1>10, <1>11, <1>12, <1>13, <1>14, <1>19, WorkingStep DEF SpecialistsNext

\* The plans that have been asked for stand.
LEMMA PlansStand ==
  ASSUME PlanShape, ExpertShape, [SpecialistsNext]_specialistsVars
  PROVE  plans' = plans \/ AskSupervisor
<1>1. CASE AskSupervisor
  BY <1>1
<1>2. CASE EndPlan
  BY <1>2, CoordinatorGuards
<1>3. CASE Dispatch
  BY <1>3 DEF Dispatch
<1>4. CASE EndDispatch
  BY <1>4, CoordinatorGuards
<1>5. CASE Synthesize
  BY <1>5, CoordinatorGuards
<1>19. CASE BeginSynthesis
  BY <1>19, CoordinatorGuards
<1>6. CASE ReviewAnswer
  BY <1>6, CoordinatorGuards
<1>7. CASE CoordinatorStops
  BY <1>7, CoordinatorGuards
<1>8. CASE Finalize
  BY <1>8, CoordinatorGuards
<1>9. CASE LoseLease
  BY <1>9 DEF LoseLease
<1>10. ASSUME NEW k \in Keys, SaveTask(k) PROVE plans' = plans \/ AskSupervisor
  BY <1>10 DEF SaveTask
<1>11. ASSUME NEW e \in experts, BeginExpert(e) PROVE plans' = plans \/ AskSupervisor
  BY <1>11 DEF BeginExpert
<1>12. ASSUME NEW e \in experts, AtTask(e) PROVE plans' = plans \/ AskSupervisor
  BY <1>12 DEF AtTask
<1>13. ASSUME NEW e \in experts, DropExpert(e) PROVE plans' = plans \/ AskSupervisor
  BY <1>13 DEF DropExpert
<1>14. CASE UNCHANGED specialistsVars
  BY <1>14 DEF specialistsVars
<1> QED
  BY <1>1, <1>2, <1>3, <1>4, <1>5, <1>6, <1>7, <1>8, <1>9, <1>10, <1>11, <1>12, <1>13, <1>14, <1>19, WorkingStep DEF SpecialistsNext

\* The plans keep their type.
LEMMA PlanShapeStep ==
  ASSUME PlanShape, ExpertShape, [SpecialistsNext]_specialistsVars
  PROVE  PlanShape'
<1>1. CASE AskSupervisor
  BY <1>1, AskedPlan
<1>2. CASE plans' = plans
  BY <1>2 DEF PlanShape
<1> QED
  BY <1>1, <1>2, PlansStand

\* What has been saved of a task stands, and what it has delivered.
TasksStand ==
  \A t \in DOMAIN tasks : /\ t \in DOMAIN tasks' /\ tasks'[t].needs = tasks[t].needs
                          /\ tasks[t].status \in Finished => tasks'[t] = tasks[t]

\* A specialist of the current worker has an open task, that the coordinator waits for.
LEMMA CrewAtWork ==
  ASSUME Manned, ControlShape, NEW e \in experts, e.fence = fence
  PROVE  /\ e.task \in pool /\ e.task \in DOMAIN tasks /\ tasks[e.task].status \notin Finished
         /\ control.phase = "dispatch" /\ (e.begun => tasks[e.task].attempt = e.attempt)
<1>1. e.task \in pool /\ tasks[e.task].status \notin Finished /\ e.task \in DOMAIN tasks
      /\ tasks[e.task].attempt = IF e.begun THEN e.attempt ELSE e.attempt - 1
  BY DEF Manned
<1>2. pool # {} => control.phase = "dispatch"
  BY DEF Manned
<1> QED
  BY <1>1, <1>2

\* No step takes a task away or changes one that is over; a new one is saved from the plan.
LEMMA TasksFollow ==
  ASSUME ControlShape, PlanShape, TaskShape, ExpertShape, Course, Manned, [SpecialistsNext]_specialistsVars
  PROVE  TasksStand /\ (DOMAIN tasks' = DOMAIN tasks \/ \E k \in Keys : SaveTask(k))
<1>0. ASSUME tasks' = tasks PROVE TasksStand /\ (DOMAIN tasks' = DOMAIN tasks \/ \E k \in Keys : SaveTask(k))
  BY <1>0 DEF TasksStand
<1> HIDE <1>0
<1>1. CASE AskSupervisor
  BY <1>0, <1>1 DEF AskSupervisor
<1>2. CASE EndPlan
  BY <1>0, <1>2, CoordinatorGuards
<1>3. CASE Dispatch
  BY <1>0, <1>3 DEF Dispatch
<1>4. CASE EndDispatch
  BY <1>0, <1>4, CoordinatorGuards
<1>5. CASE Synthesize
  BY <1>0, <1>5, CoordinatorGuards
<1>19. CASE BeginSynthesis
  BY <1>0, <1>19, CoordinatorGuards
<1>6. CASE ReviewAnswer
  BY <1>0, <1>6, CoordinatorGuards
<1>7. CASE CoordinatorStops
  BY <1>0, <1>7, CoordinatorGuards
<1>8. CASE Finalize
  BY <1>8, FinalizedTasks DEF TasksStand, Finished
<1>9. CASE LoseLease
  BY <1>0, <1>9 DEF LoseLease
<1>10. ASSUME NEW k \in Keys, SaveTask(k) PROVE TasksStand /\ (DOMAIN tasks' = DOMAIN tasks \/ \E key \in Keys : SaveTask(key))
  <2>1. control.version + 1 \in Versions
    BY <1>10, NextVersion DEF SaveTask, TaskGate
  <2>2. PICK t : t = <<control.version + 1, k>>
    OBVIOUS
  <2>3. DOMAIN tasks' = DOMAIN tasks \cup {t} /\ \A u \in DOMAIN tasks : tasks'[u] = tasks[u]
    BY <1>10, <2>1, <2>2, SavedTask
  <2> QED
    BY <1>10, <2>3 DEF TasksStand
<1>11. ASSUME NEW e \in experts, BeginExpert(e) PROVE TasksStand /\ (DOMAIN tasks' = DOMAIN tasks \/ \E k \in Keys : SaveTask(k))
  <2>1. e.task \in DOMAIN tasks /\ tasks[e.task].status \notin Finished
    BY <1>11, CrewAtWork DEF BeginExpert, Writes
  <2> QED
    BY <1>11, <2>1, BegunTask DEF Becomes, TasksStand
<1>12. ASSUME NEW e \in experts, AtTask(e) PROVE TasksStand /\ (DOMAIN tasks' = DOMAIN tasks \/ \E k \in Keys : SaveTask(k))
  <2>0. e.task \in DOMAIN tasks /\ tasks[e.task].status \notin Finished
    BY <1>12, CrewAtWork DEF AtTask
  <2>1. CASE KeepsWork(e)
    BY <2>0, <2>1, KeptTask DEF Becomes, TasksStand
  <2>2. CASE EndsTask(e)
    BY <2>0, <2>2, EndedTask DEF Becomes, TasksStand
  <2> QED
    BY <1>12, <2>1, <2>2 DEF AtTask
<1>13. ASSUME NEW e \in experts, DropExpert(e) PROVE TasksStand /\ (DOMAIN tasks' = DOMAIN tasks \/ \E k \in Keys : SaveTask(k))
  BY <1>0, <1>13 DEF DropExpert
<1>14. CASE UNCHANGED specialistsVars
  BY <1>0, <1>14 DEF specialistsVars
<1> QED
  BY <1>1, <1>2, <1>3, <1>4, <1>5, <1>6, <1>7, <1>8, <1>9, <1>10, <1>11, <1>12, <1>13, <1>14, <1>19, WorkingStep DEF SpecialistsNext

\* A version begins with the end of a plan, that of which has then been saved.
LEMMA VersionsFollow ==
  ASSUME ControlShape, PlanShape, ExpertShape, Course, [SpecialistsNext]_specialistsVars
  PROVE  control'.version = control.version \/ (EndPlan /\ control'.version = control.version + 1)
<1>1. CASE AskSupervisor
  BY <1>1 DEF AskSupervisor
<1>2. CASE EndPlan
  BY <1>2, CoordinatorTurns DEF Turn
<1>3. CASE Dispatch
  BY <1>3 DEF Dispatch
<1>4. CASE EndDispatch
  BY <1>4, CoordinatorTurns DEF Turn
<1>5. CASE Synthesize
  BY <1>5, CoordinatorTurns DEF Turn
<1>19. CASE BeginSynthesis
  BY <1>19, CoordinatorTurns DEF Turn
<1>6. CASE ReviewAnswer
  BY <1>6, CoordinatorTurns DEF Turn
<1>7. CASE CoordinatorStops
  BY <1>7, CoordinatorTurns DEF Turn
<1>8. CASE Finalize
  BY <1>8, CoordinatorTurns DEF Turn
<1>9. CASE LoseLease
  BY <1>9 DEF LoseLease, Course
<1>10. ASSUME NEW k \in Keys, SaveTask(k) PROVE control'.version = control.version
  BY <1>10 DEF SaveTask
<1>11. ASSUME NEW e \in experts, BeginExpert(e) PROVE control'.version = control.version
  BY <1>11 DEF BeginExpert
<1>12. ASSUME NEW e \in experts, AtTask(e) PROVE control'.version = control.version
  BY <1>12 DEF AtTask
<1>13. ASSUME NEW e \in experts, DropExpert(e) PROVE control'.version = control.version
  BY <1>13 DEF DropExpert
<1>14. CASE UNCHANGED specialistsVars
  BY <1>14 DEF specialistsVars
<1> QED
  BY <1>1, <1>2, <1>3, <1>4, <1>5, <1>6, <1>7, <1>8, <1>9, <1>10, <1>11, <1>12, <1>13, <1>14, <1>19, WorkingStep DEF SpecialistsNext

\* The plans can be done in the order of their keys, and are saved in full before a dispatch.
LEMMA LaidStep ==
  ASSUME ControlShape, PlanShape, TaskShape, ExpertShape, Course, Manned, Laid, [SpecialistsNext]_specialistsVars
  PROVE  Laid'
<1>1. /\ Len(plans) \in Nat /\ control.version \in {0} \cup Versions /\ control.version <= Len(plans)
  <2>1. Len(plans) \in Nat /\ control.version \in {0} \cup Versions
    BY PlanFacts DEF ControlShape, Control
  <2>2. Len(plans) \in {control.version, control.version + 1}
    BY DEF Course
  <2> QED
    BY <2>1, <2>2 DEF Versions
<1>2. /\ Len(plans') \in Nat /\ Len(plans') >= Len(plans) /\ \A v \in 1..Len(plans) : plans'[v] = plans[v]
      /\ Len(plans') # Len(plans) => AskSupervisor /\ Len(plans') = Len(plans) + 1
  <2>1. CASE AskSupervisor
    <3>1. Len(plans) \in Nat /\ Len(plans') = Len(plans) + 1 /\ \A v \in 1..Len(plans) : plans'[v] = plans[v]
      BY <2>1, AskedPlan
    <3> QED
      BY <2>1, <3>1
  <2>2. CASE plans' = plans
    BY <1>1, <2>2
  <2> QED
    BY <2>1, <2>2, PlansStand
<1>3. \A v \in 1..Len(plans') : \A k \in DOMAIN plans'[v] : plans'[v][k].needs \subseteq {d \in DOMAIN plans'[v] : d < k}
  <2> SUFFICES ASSUME NEW v \in 1..Len(plans'), NEW k \in DOMAIN plans'[v]
               PROVE  plans'[v][k].needs \subseteq {d \in DOMAIN plans'[v] : d < k}
    OBVIOUS
  <2>1. CASE v \in 1..Len(plans)
    BY <1>2, <2>1 DEF Laid
  <2>2. CASE v \notin 1..Len(plans)
    <3>1. AskSupervisor /\ v = Len(plans')
      BY <1>1, <1>2, <2>2
    <3> QED
      BY <3>1, AskedPlan
  <2> QED
    BY <2>1, <2>2
<1>4. \A t \in DOMAIN tasks' : /\ t[1] \in 1..Len(plans') /\ t[2] \in DOMAIN plans'[t[1]]
                               /\ tasks'[t].needs = plans'[t[1]][t[2]].needs
  <2> SUFFICES ASSUME NEW t \in DOMAIN tasks'
               PROVE  t[1] \in 1..Len(plans') /\ t[2] \in DOMAIN plans'[t[1]] /\ tasks'[t].needs = plans'[t[1]][t[2]].needs
    OBVIOUS
  <2>1. CASE t \in DOMAIN tasks
    <3>1. t[1] \in 1..Len(plans) /\ t[2] \in DOMAIN plans[t[1]] /\ tasks[t].needs = plans[t[1]][t[2]].needs
      BY <2>1 DEF Laid
    <3>2. tasks'[t].needs = tasks[t].needs
      BY <2>1, TasksFollow DEF TasksStand
    <3>3. t[1] \in 1..Len(plans') /\ plans'[t[1]] = plans[t[1]]
      BY <1>1, <1>2, <3>1
    <3> QED
      BY <3>1, <3>2, <3>3
  <2>2. CASE t \notin DOMAIN tasks
    <3>1. PICK k \in Keys : SaveTask(k)
      BY <2>2, TasksFollow
    <3>2. control.version + 1 \in Versions
      BY <3>1, NextVersion DEF SaveTask, TaskGate
    <3>3. PICK u : u = <<control.version + 1, k>>
      OBVIOUS
    <3>4. /\ DOMAIN tasks' = DOMAIN tasks \cup {u} /\ tasks'[u].needs = Planned[k].needs
          /\ Len(plans) > control.version /\ k \in DOMAIN Planned
      BY <3>1, <3>2, <3>3, SavedTask
    <3>5. t = u /\ t[1] = control.version + 1 /\ t[2] = k
      BY <2>2, <3>3, <3>4
    <3>6. plans' = plans
      BY <3>1 DEF SaveTask
    <3>7. t[1] \in 1..Len(plans)
      BY <1>1, <3>4, <3>5 DEF Versions
    <3> QED
      BY <3>4, <3>5, <3>6, <3>7 DEF Planned
  <2> QED
    BY <2>1, <2>2
<1>5. \A v \in 1..control'.version : \A k \in DOMAIN plans'[v] : <<v, k>> \in DOMAIN tasks'
  <2> SUFFICES ASSUME NEW v \in 1..control'.version, NEW k \in DOMAIN plans'[v]
               PROVE  <<v, k>> \in DOMAIN tasks'
    OBVIOUS
  <2>1. CASE v \in 1..control.version
    <3>1. plans'[v] = plans[v]
      BY <1>1, <1>2, <2>1 DEF Versions
    <3>2. <<v, k>> \in DOMAIN tasks
      BY <2>1, <3>1 DEF Laid
    <3> QED
      BY <3>2, TasksFollow DEF TasksStand
  <2>2. CASE v \notin 1..control.version
    <3>1. EndPlan /\ v = control.version + 1
      BY <1>1, <2>2, VersionsFollow DEF Versions
    <3>2. {t[2] : t \in {t \in DOMAIN tasks : t[1] = v}} = DOMAIN Planned /\ plans' = plans /\ tasks' = tasks
      BY <3>1 DEF EndPlan
    <3>3. k \in {t[2] : t \in {t \in DOMAIN tasks : t[1] = v}}
      BY <3>1, <3>2 DEF Planned
    <3>4. PICK t \in DOMAIN tasks : t[1] = v /\ t[2] = k
      BY <3>3
    <3>5. t = <<v, k>>
      BY <3>4 DEF TaskShape
    <3> QED
      BY <3>2, <3>5
  <2> QED
    BY <2>1, <2>2
<1> QED
  BY <1>3, <1>4, <1>5 DEF Laid

\* Outside of a dispatch nobody of the current worker is at work.
LEMMA Unmanned ==
  ASSUME Manned, pool = {}
  PROVE  /\ \A e \in experts : e.fence # fence
         /\ \A t \in DOMAIN tasks : tasks[t].attempt <= fence /\ (tasks[t].attempt = fence => tasks[t].status \in Finished)
<1>1. \A e \in experts : e.fence # fence
  BY DEF Manned
<1> QED
  BY <1>1 DEF Manned

\* A step of the coordinator that leaves the tasks and the threads alone.
LEMMA MannedStays ==
  ASSUME Manned, UNCHANGED <<tasks, experts, pool, fence>>, pool # {} => control'.phase = "dispatch"
  PROVE  Manned'
  BY DEF Manned

\* dispatch(): each ready task gets one specialist, in the pool.
LEMMA MannedDispatch ==
  ASSUME ControlShape, TaskShape, ExpertShape, Manned, Dispatch
  PROVE  Manned'
<1>1. /\ control.phase = "dispatch" /\ pool = {} /\ pool' = ReadyTasks
      /\ UNCHANGED <<control, tasks, fence>>
  BY DEF Dispatch, TaskGate
<1>2. /\ \A e \in experts : e.fence # fence /\ e.task \in DOMAIN tasks /\ e.fence \in 1..fence /\ e.attempt \in 1..e.fence
      /\ \A t \in DOMAIN tasks : tasks[t].attempt <= fence /\ (tasks[t].attempt = fence => tasks[t].status \in Finished)
  BY <1>1, Unmanned DEF Manned
<1>3. \A t \in ReadyTasks : t \in DOMAIN tasks /\ tasks[t].status \notin Finished
  BY DEF ReadyTasks, Open, PlanTasks
<1>4. \A t \in DOMAIN tasks : tasks[t].attempt \in Nat
  BY SpecialistsAssumption DEF TaskShape, Task
<1>5. fence \in Nat \ {0}
  BY SpecialistsAssumption DEF ControlShape
<1>6. \A e \in experts' : e \in experts \/
        /\ e.task \in ReadyTasks /\ e.attempt = tasks[e.task].attempt + 1 /\ e.fence = fence /\ e.begun = FALSE
        /\ e = [task |-> e.task, attempt |-> tasks[e.task].attempt + 1, fence |-> fence,
                work |-> tasks[e.task].work, begun |-> FALSE]
  BY DEF Dispatch
<1>7. \A e \in experts : e \in experts'
  BY DEF Dispatch
<1>8. \A e \in experts' : e.task \in DOMAIN tasks /\ e.fence \in 1..fence /\ e.attempt \in 1..e.fence
  <2> SUFFICES ASSUME NEW e \in experts', e \notin experts
               PROVE  e.task \in DOMAIN tasks /\ e.fence \in 1..fence /\ e.attempt \in 1..e.fence
    BY <1>2
  <2>1. /\ e.task \in ReadyTasks /\ e.attempt = tasks[e.task].attempt + 1 /\ e.fence = fence
    BY <1>6
  <2>2. tasks[e.task].attempt <= fence /\ tasks[e.task].attempt # fence /\ tasks[e.task].attempt \in Nat /\ e.task \in DOMAIN tasks
    BY <1>2, <1>3, <1>4, <2>1
  <2> QED
    BY <1>5, <2>1, <2>2
<1>9. \A e \in experts' : e.fence = fence =>
        /\ e.task \in ReadyTasks /\ tasks[e.task].status \notin Finished /\ e.begun = FALSE
        /\ tasks[e.task].attempt = e.attempt - 1
        /\ e = [task |-> e.task, attempt |-> tasks[e.task].attempt + 1, fence |-> fence,
                work |-> tasks[e.task].work, begun |-> FALSE]
  <2> SUFFICES ASSUME NEW e \in experts', e.fence = fence
               PROVE  /\ e.task \in ReadyTasks /\ tasks[e.task].status \notin Finished /\ e.begun = FALSE
                      /\ tasks[e.task].attempt = e.attempt - 1
                      /\ e = [task |-> e.task, attempt |-> tasks[e.task].attempt + 1, fence |-> fence,
                              work |-> tasks[e.task].work, begun |-> FALSE]
    OBVIOUS
  <2>1. e \notin experts
    BY <1>2
  <2>2. /\ e.task \in ReadyTasks /\ e.attempt = tasks[e.task].attempt + 1 /\ e.begun = FALSE
        /\ e = [task |-> e.task, attempt |-> tasks[e.task].attempt + 1, fence |-> fence,
                work |-> tasks[e.task].work, begun |-> FALSE]
    BY <1>6, <2>1
  <2>3. tasks[e.task].attempt \in Nat /\ tasks[e.task].status \notin Finished
    BY <1>3, <1>4, <2>2
  <2> QED
    BY <2>2, <2>3
<1>10. \A d, e \in experts' : d.fence = fence /\ e.fence = fence /\ d.task = e.task => d = e
  <2> SUFFICES ASSUME NEW d \in experts', NEW e \in experts', d.fence = fence, e.fence = fence, d.task = e.task
               PROVE  d = e
    OBVIOUS
  <2>1. d = [task |-> d.task, attempt |-> tasks[d.task].attempt + 1, fence |-> fence, work |-> tasks[d.task].work, begun |-> FALSE]
    BY <1>9
  <2>2. e = [task |-> e.task, attempt |-> tasks[e.task].attempt + 1, fence |-> fence, work |-> tasks[e.task].work, begun |-> FALSE]
    BY <1>9
  <2> QED
    BY <2>1, <2>2
<1>11. \A e \in experts' : e.fence = fence => tasks[e.task].attempt = IF e.begun THEN e.attempt ELSE e.attempt - 1
  BY <1>9
<1> QED
  BY <1>1, <1>2, <1>8, <1>9, <1>10, <1>11 DEF Manned

\* finalize() works when nobody does.
LEMMA MannedFinalize ==
  ASSUME ControlShape, TaskShape, Manned, Finalize
  PROVE  Manned'
<1>1. control.phase = "finalize" /\ UNCHANGED <<experts, pool, fence>>
  BY CoordinatorGuards
<1>2. pool = {}
  BY <1>1 DEF Manned
<1>3. \A e \in experts : e.fence # fence /\ e.task \in DOMAIN tasks /\ e.fence \in 1..fence /\ e.attempt \in 1..e.fence
  BY <1>2, Unmanned DEF Manned
<1>4. /\ DOMAIN tasks' = DOMAIN tasks
      /\ \A t \in DOMAIN tasks : /\ tasks'[t].attempt = tasks[t].attempt
                                 /\ tasks[t].status \in Finished => tasks'[t].status \in Finished
  BY FinalizedTasks DEF Finished
<1>5. \A t \in DOMAIN tasks' : tasks'[t].attempt <= fence /\ (tasks'[t].attempt = fence => tasks'[t].status \in Finished)
  BY <1>2, <1>4, Unmanned
<1> QED
  BY <1>1, <1>2, <1>3, <1>4, <1>5 DEF Manned

\* A new fence leaves the threads of the earlier worker behind, and the pool with them.
LEMMA MannedLoseLease ==
  ASSUME ControlShape, TaskShape, ExpertShape, Manned, LoseLease
  PROVE  Manned'
<1>1. fence' = fence + 1 /\ pool' = {} /\ UNCHANGED <<tasks, experts>>
  BY DEF LoseLease
<1>2. fence \in Nat
  BY SpecialistsAssumption DEF ControlShape
<1>3. \A e \in experts : e.task \in DOMAIN tasks /\ e.fence \in 1..fence /\ e.attempt \in 1..e.fence
  BY DEF Manned
<1>4. \A t \in DOMAIN tasks : tasks[t].attempt <= fence /\ tasks[t].attempt \in Nat
  BY SpecialistsAssumption DEF Manned, TaskShape, Task
<1>5. \A e \in experts : e.fence # fence' /\ e.fence \in 1..fence'
  BY <1>1, <1>2, <1>3
<1>6. \A t \in DOMAIN tasks : tasks[t].attempt <= fence' /\ tasks[t].attempt # fence'
  BY <1>1, <1>2, <1>4
<1> QED
  BY <1>1, <1>3, <1>5, <1>6 DEF Manned

\* A task is saved when nobody works.
LEMMA MannedSaveTask ==
  ASSUME ControlShape, PlanShape, TaskShape, Course, Manned, NEW k \in Keys, SaveTask(k)
  PROVE  Manned'
<1>1. control.phase = "plan" /\ UNCHANGED <<control, experts, pool, fence>>
  BY DEF SaveTask, TaskGate
<1>2. control.version + 1 \in Versions
  BY <1>1, NextVersion
<1>3. PICK t : t = <<control.version + 1, k>>
  OBVIOUS
<1>4. /\ t \notin DOMAIN tasks /\ DOMAIN tasks' = DOMAIN tasks \cup {t}
      /\ \A u \in DOMAIN tasks : tasks'[u] = tasks[u]
      /\ tasks'[t].attempt = 0
  BY <1>2, <1>3, SavedTask
<1>5. fence \in Nat \ {0}
  BY SpecialistsAssumption DEF ControlShape
<1>6. \A e \in experts : e.task \in DOMAIN tasks' /\ tasks'[e.task] = tasks[e.task]
  BY <1>4 DEF Manned
<1>7. tasks'[t].attempt <= fence /\ tasks'[t].attempt # fence
  BY <1>4, <1>5
<1> QED
  BY <1>1, <1>4, <1>6, <1>7 DEF Manned

\* A specialist of the current worker takes a step with its task.
LEMMA MannedAtWork ==
  ASSUME ControlShape, TaskShape, ExpertShape, Manned, NEW e \in experts, e.fence = fence, UNCHANGED <<control, pool, fence>>,
         NEW status, Becomes(e.task, status, e.attempt), status \notin Finished, Replaced(e, TRUE)
  PROVE  Manned'
<1>1. PICK f \in Expert : /\ f.task = e.task /\ f.attempt = e.attempt /\ f.fence = e.fence /\ f.begun = TRUE
                          /\ experts' = (experts \ {e}) \cup {f}
  BY DEF Replaced
<1>2. /\ DOMAIN tasks' = DOMAIN tasks /\ \A u \in DOMAIN tasks : u # e.task => tasks'[u] = tasks[u]
      /\ tasks'[e.task].status \notin Finished /\ tasks'[e.task].attempt = e.attempt
  BY DEF Becomes
<1>3. \A d \in experts \ {e} : d.fence = fence => d.task # e.task
  BY DEF Manned
<1>4. e.task \in pool /\ e.task \in DOMAIN tasks /\ e.fence \in 1..fence /\ e.attempt \in 1..e.fence
  BY DEF Manned
<1>5. fence \in Nat
  BY SpecialistsAssumption DEF ControlShape
<1>6. \A d \in experts' : d.task \in DOMAIN tasks' /\ d.fence \in 1..fence /\ d.attempt \in 1..d.fence
  BY <1>1, <1>2, <1>4 DEF Manned
<1>7. \A d \in experts' : d.fence = fence =>
        /\ d.task \in pool /\ tasks'[d.task].status \notin Finished
        /\ tasks'[d.task].attempt = IF d.begun THEN d.attempt ELSE d.attempt - 1
  <2> SUFFICES ASSUME NEW d \in experts', d.fence = fence
               PROVE  /\ d.task \in pool /\ tasks'[d.task].status \notin Finished
                      /\ tasks'[d.task].attempt = IF d.begun THEN d.attempt ELSE d.attempt - 1
    OBVIOUS
  <2>1. CASE d = f
    BY <1>1, <1>2, <1>4, <2>1
  <2>2. CASE d # f
    <3>1. d \in experts \ {e}
      BY <1>1, <2>2
    <3>2. tasks'[d.task] = tasks[d.task]
      BY <1>2, <1>3, <3>1 DEF Manned
    <3> QED
      BY <3>1, <3>2 DEF Manned
  <2> QED
    BY <2>1, <2>2
<1>8. \A d, c \in experts' : d.fence = fence /\ c.fence = fence /\ d.task = c.task => d = c
  BY <1>1, <1>3 DEF Manned
<1>9. ASSUME NEW t \in DOMAIN tasks'
      PROVE  /\ tasks'[t].attempt <= fence
             /\ tasks'[t].attempt = fence =>
                  tasks'[t].status \in Finished \/ \E d \in experts' : d.task = t /\ d.fence = fence /\ d.begun
  <2>1. CASE t = e.task
    BY <1>1, <1>2, <1>4, <1>5, <2>1
  <2>2. CASE t # e.task
    <3>1. t \in DOMAIN tasks /\ tasks'[t] = tasks[t]
      BY <1>2, <2>2
    <3>2. \A d \in experts : d.task = t => d \in experts'
      BY <1>1, <2>2
    <3> QED
      BY <3>1, <3>2 DEF Manned
  <2> QED
    BY <2>1, <2>2
<1>10. pool' # {} => control'.phase = "dispatch"
  BY DEF Manned
<1> QED
  BY <1>6, <1>7, <1>8, <1>9, <1>10 DEF Manned

\* A task that ends leaves the pool with its specialist.
LEMMA MannedEndsTask ==
  ASSUME ControlShape, TaskShape, ExpertShape, Manned, NEW e \in experts, e.fence = fence, UNCHANGED <<control, fence>>,
         tasks[e.task].attempt = e.attempt, EndsTask(e)
  PROVE  Manned'
<1>1. PICK s \in Finished : Becomes(e.task, s, e.attempt)
  BY EndedTask
<1>2. experts' = experts \ {e} /\ pool' = pool \ {e.task}
  BY EndedTask
<1>3. /\ DOMAIN tasks' = DOMAIN tasks /\ \A u \in DOMAIN tasks : u # e.task => tasks'[u] = tasks[u]
      /\ tasks'[e.task].status \in Finished /\ tasks'[e.task].attempt = e.attempt
  BY <1>1 DEF Becomes
<1>4. \A d \in experts' : d.fence = fence => d.task # e.task
  BY <1>2 DEF Manned
<1>5. e.task \in DOMAIN tasks /\ tasks[e.task].attempt <= fence
  BY DEF Manned
<1>6. \A d \in experts' : d.fence = fence => d.task \in pool' /\ tasks'[d.task] = tasks[d.task]
  BY <1>2, <1>3, <1>4 DEF Manned
<1>7. ASSUME NEW t \in DOMAIN tasks'
      PROVE  /\ tasks'[t].attempt <= fence
             /\ tasks'[t].attempt = fence =>
                  tasks'[t].status \in Finished \/ \E d \in experts' : d.task = t /\ d.fence = fence /\ d.begun
  <2>1. CASE t = e.task
    BY <1>3, <1>5, <2>1
  <2>2. CASE t # e.task
    <3>1. t \in DOMAIN tasks /\ tasks'[t] = tasks[t]
      BY <1>3, <2>2
    <3>2. \A d \in experts : d.task = t => d \in experts'
      BY <1>2, <2>2
    <3> QED
      BY <3>1, <3>2 DEF Manned
  <2> QED
    BY <2>1, <2>2
<1>8. pool' # {} => control'.phase = "dispatch"
  BY <1>2 DEF Manned
<1>9. \A d \in experts' : d \in experts /\ d.task \in DOMAIN tasks'
  BY <1>2, <1>3 DEF Manned
<1> QED
  BY <1>6, <1>7, <1>8, <1>9 DEF Manned

\* A thread that ends quietly was of an earlier worker.
LEMMA MannedDropExpert ==
  ASSUME ControlShape, Manned, NEW e \in experts, DropExpert(e)
  PROVE  Manned'
<1>1. e.fence # fence
  BY CrewAtWork DEF DropExpert, Writes
<1>2. experts' = experts \ {e} /\ UNCHANGED <<control, tasks, pool, fence>>
  BY <1>1 DEF DropExpert, Leaves
<1> QED
  BY <1>1, <1>2 DEF Manned

\* Every step keeps one specialist for an open task of the pool.
LEMMA MannedStep ==
  ASSUME ControlShape, PlanShape, TaskShape, ExpertShape, Course, Manned, [SpecialistsNext]_specialistsVars
  PROVE  Manned'
<1>0. pool # {} => control.phase = "dispatch"
  BY DEF Manned
<1>1. CASE AskSupervisor
  BY <1>0, <1>1, MannedStays DEF AskSupervisor
<1>2. CASE EndPlan
  BY <1>0, <1>2, CoordinatorGuards, MannedStays
<1>3. CASE Dispatch
  BY <1>3, MannedDispatch
<1>4. CASE EndDispatch
  BY <1>0, <1>4, CoordinatorGuards, MannedStays
<1>5. CASE Synthesize
  BY <1>0, <1>5, CoordinatorGuards, MannedStays
<1>19. CASE BeginSynthesis
  BY <1>0, <1>19, CoordinatorGuards, MannedStays
<1>6. CASE ReviewAnswer
  BY <1>0, <1>6, CoordinatorGuards, MannedStays
<1>7. CASE CoordinatorStops
  BY <1>0, <1>7, CoordinatorGuards, MannedStays
<1>8. CASE Finalize
  BY <1>8, MannedFinalize
<1>9. CASE LoseLease
  BY <1>9, MannedLoseLease
<1>10. ASSUME NEW k \in Keys, SaveTask(k) PROVE Manned'
  BY <1>10, MannedSaveTask
<1>11. ASSUME NEW e \in experts, BeginExpert(e) PROVE Manned'
  <2>1. e.fence = fence /\ UNCHANGED <<control, pool, fence>>
    BY <1>11 DEF BeginExpert, Writes
  <2>2. "running" \notin Finished
    BY DEF Finished
  <2> QED
    BY <1>11, <2>1, <2>2, BegunTask, MannedAtWork
<1>12. ASSUME NEW e \in experts, AtTask(e) PROVE Manned'
  <2>0. e.begun /\ e.fence = fence /\ tasks[e.task].attempt = e.attempt /\ UNCHANGED <<control, fence>>
    BY <1>12 DEF AtTask
  <2>1. CASE KeepsWork(e)
    <3>1. pool' = pool
      BY <2>1 DEF KeepsWork
    <3>2. Becomes(e.task, tasks[e.task].status, e.attempt) /\ Replaced(e, e.begun)
      BY <2>0, <2>1, KeptTask
    <3>3. e.begun = TRUE
      BY <2>0 DEF ExpertShape, Expert
    <3>4. Replaced(e, TRUE)
      BY <3>2, <3>3
    <3>5. tasks[e.task].status \notin Finished
      BY <2>0, CrewAtWork
    <3> QED
      BY <2>0, <3>1, <3>2, <3>4, <3>5, MannedAtWork
  <2>2. CASE EndsTask(e)
    BY <2>0, <2>2, MannedEndsTask
  <2> QED
    BY <1>12, <2>1, <2>2 DEF AtTask
<1>13. ASSUME NEW e \in experts, DropExpert(e) PROVE Manned'
  BY <1>13, MannedDropExpert
<1>14. CASE UNCHANGED specialistsVars
  BY <1>0, <1>14, MannedStays DEF specialistsVars
<1> QED
  BY <1>1, <1>2, <1>3, <1>4, <1>5, <1>6, <1>7, <1>8, <1>9, <1>10, <1>11, <1>12, <1>13, <1>14, <1>19, WorkingStep DEF SpecialistsNext

\* When nothing is ready and nobody is at work, nothing is open: of the open tasks one
\* has the least key, and what it needs has smaller keys, so that it would be ready.
LEMMA NothingOpen ==
  ASSUME ControlShape, PlanShape, TaskShape, Course, Laid, ReadyTasks = {}, control.version >= 1
  PROVE  Open = {}
<1> SUFFICES ASSUME Open # {} PROVE FALSE
  OBVIOUS
<1>1. \A t \in Open : t \in DOMAIN tasks /\ t[1] = control.version /\ t[2] \in Keys /\ t = <<t[1], t[2]>> /\ tasks[t].status \notin Finished
  BY DEF Open, PlanTasks, TaskShape
<1> DEFINE least == {t[2] : t \in Open}
<1>2. least \subseteq Nat /\ least # {}
  BY <1>1, SpecialistsAssumption
<1>3. PICK k \in least : \A j \in least : k <= j
  <2> HIDE DEF least
  <2> QED
    BY <1>2, LeastNumber
<1>4. PICK t \in Open : t[2] = k
  BY <1>3
<1>5. /\ t \in DOMAIN tasks /\ t[1] = control.version /\ t[1] \in 1..Len(plans)
      /\ tasks[t].needs = plans[control.version][k].needs /\ k \in DOMAIN plans[control.version]
  BY <1>1, <1>4 DEF Laid
<1>6. \A d \in tasks[t].needs : d \in DOMAIN plans[control.version] /\ d < k
  BY <1>5 DEF Laid
<1>7. \A d \in tasks[t].needs : <<control.version, d>> \in DOMAIN tasks
  <2>1. control.version \in 1..control.version
    BY <1>5
  <2> QED
    BY <1>6, <2>1 DEF Laid
<1>8. \A d \in tasks[t].needs : tasks[<<control.version, d>>].status \in Finished
  <2> SUFFICES ASSUME NEW d \in tasks[t].needs, tasks[<<control.version, d>>].status \notin Finished
               PROVE  FALSE
    OBVIOUS
  <2>1. <<control.version, d>> \in Open
    BY <1>7 DEF Open, PlanTasks
  <2>2. d \in least
    BY <2>1
  <2>3. k <= d /\ d < k /\ d \in Nat /\ k \in Nat
    BY <1>2, <1>3, <1>6, <2>2
  <2> QED
    BY <2>3
<1>9. t \in ReadyTasks
  BY <1>4, <1>8 DEF ReadyTasks, Here
<1> QED
  BY <1>9

\* What is open stays within what was open, unless a task is saved or a version begins.
LEMMA OpenShrinks ==
  ASSUME ControlShape, PlanShape, TaskShape, ExpertShape, Course, Manned, [SpecialistsNext]_specialistsVars,
         control'.version = control.version, DOMAIN tasks' = DOMAIN tasks, Open = {}
  PROVE  Open' = {}
<1>1. \A t \in DOMAIN tasks : tasks[t].status \in Finished => tasks'[t] = tasks[t]
  BY TasksFollow DEF TasksStand
<1> QED
  BY <1>1 DEF Open, PlanTasks

\* The synthesis begins when nothing is open, and opens nothing.
LEMMA ClosedStep ==
  ASSUME ControlShape, PlanShape, TaskShape, ExpertShape, Course, Laid, Manned, Closed, [SpecialistsNext]_specialistsVars
  PROVE  Closed'
<1>0. /\ control.phase \notin {"finalize", "answer", "done"} => control = committed
      /\ control.phase \in {"finalize", "answer"} /\ committed.phase # "synthesize" => control.reason # "ready" /\ stop # "ready"
      /\ committed.phase \in {"plan", "dispatch", "synthesize"} => committed.reason = "none"
      /\ committed.phase \in {"plan", "dispatch"} => stop # "ready"
      /\ committed.phase \in {"dispatch", "synthesize"} => committed.version >= 1
      /\ control.version = committed.version
  BY DEF Course
<1>15. ASSUME committed' = committed, control'.version = control.version, DOMAIN tasks' = DOMAIN tasks
      PROVE  Closed'
  BY <1>15, OpenShrinks DEF Closed
<1>1. CASE AskSupervisor
  BY <1>1, <1>15 DEF AskSupervisor
<1>2. CASE EndPlan
  <2>1. control.phase = "plan" /\ committed' = control'
    BY <1>2, CoordinatorGuards
  <2>2. control'.phase # "synthesize" /\ control'.reason # "ready"
    BY <1>0, <1>2, <2>1, CoordinatorTurns DEF Turn, FirstReason
  <2> QED
    BY <2>1, <2>2 DEF Closed
<1>3. CASE Dispatch
  BY <1>3, <1>15 DEF Dispatch
<1>4. CASE EndDispatch
  <2>1. control.phase = "dispatch" /\ committed' = control' /\ ReadyTasks = {} /\ tasks' = tasks
    BY <1>4, CoordinatorGuards
  <2>2. control'.version = control.version /\ control.version >= 1
    BY <1>0, <1>4, <2>1, CoordinatorTurns DEF Turn
  <2>3. Open' = {}
    BY <2>1, <2>2, NothingOpen, OpenShrinks
  <2> QED
    BY <2>3 DEF Closed
<1>19. CASE BeginSynthesis
  <2>1. committed' = committed /\ tasks' = tasks
    BY <1>19, CoordinatorGuards
  <2>2. control'.version = control.version
    BY <1>19, CoordinatorTurns DEF Turn
  <2> QED
    BY <1>15, <2>1, <2>2
<1>5. CASE Synthesize
  <2>1. control.phase = "answer" /\ tasks' = tasks
    BY <1>5, CoordinatorGuards
  <2>2. control'.version = control.version
    BY <1>5, CoordinatorTurns DEF Turn
  <2>3. Open = {}
    BY <2>1 DEF Course, Closed
  <2> QED
    BY <2>1, <2>2, <2>3, OpenShrinks DEF Closed
<1>6. CASE ReviewAnswer
  <2>1. control.phase \in {"review", "revise"} /\ committed' = control' /\ tasks' = tasks
    BY <1>6, CoordinatorGuards
  <2>2. control'.version = control.version /\ control'.phase # "synthesize" /\ control'.reason = control.reason
    BY <1>6, CoordinatorTurns DEF Turn
  <2>3. control.reason = "ready" => Open = {}
    BY <1>0, <2>1 DEF Closed
  <2> QED
    BY <2>1, <2>2, <2>3, OpenShrinks DEF Closed
<1>7. CASE CoordinatorStops
  <2>1. committed' = committed /\ tasks' = tasks
    BY <1>7, CoordinatorGuards
  <2>2. control'.version = control.version
    BY <1>7, CoordinatorTurns DEF Turn
  <2> QED
    BY <1>15, <2>1, <2>2
<1>8. CASE Finalize
  <2>1. control.phase = "finalize" /\ committed' = control' /\ DOMAIN tasks' = DOMAIN tasks
    BY <1>8, CoordinatorGuards, FinalizedTasks
  <2>2. control'.version = control.version /\ control'.phase # "synthesize" /\ control'.reason = control.reason
    BY <1>8, CoordinatorTurns DEF Turn
  <2>3. control.reason = "ready" => Open = {}
    BY <2>1 DEF Course, Closed
  <2> QED
    BY <2>1, <2>2, <2>3, OpenShrinks DEF Closed
<1>9. CASE LoseLease
  BY <1>0, <1>9, <1>15 DEF LoseLease
<1>10. ASSUME NEW k \in Keys, SaveTask(k) PROVE Closed'
  <2>1. committed' = committed /\ control.phase = "plan"
    BY <1>10 DEF SaveTask, TaskGate
  <2> QED
    BY <1>0, <2>1 DEF Closed
<1>11. ASSUME NEW e \in experts, BeginExpert(e) PROVE Closed'
  <2>1. UNCHANGED <<control, committed>> /\ DOMAIN tasks' = DOMAIN tasks
    BY <1>11, BegunTask DEF BeginExpert, Becomes
  <2> QED
    BY <1>15, <2>1
<1>12. ASSUME NEW e \in experts, AtTask(e) PROVE Closed'
  <2>0. UNCHANGED <<control, committed>>
    BY <1>12 DEF AtTask
  <2>1. CASE KeepsWork(e)
    BY <1>15, <2>0, <2>1, KeptTask DEF Becomes
  <2>2. CASE EndsTask(e)
    BY <1>15, <2>0, <2>2, EndedTask DEF Becomes
  <2> QED
    BY <1>12, <2>1, <2>2 DEF AtTask
<1>13. ASSUME NEW e \in experts, DropExpert(e) PROVE Closed'
  BY <1>13, <1>15 DEF DropExpert
<1>14. CASE UNCHANGED specialistsVars
  BY <1>14, <1>15 DEF specialistsVars
<1> QED
  BY <1>1, <1>2, <1>3, <1>4, <1>5, <1>6, <1>7, <1>8, <1>9, <1>10, <1>11, <1>12, <1>13, <1>14, <1>19, WorkingStep DEF SpecialistsNext

\* The invariant holds of a run that begins.
LEMMA SpecialistsInvInit == SpecialistsInit => SpecialistsInv
<1> SUFFICES ASSUME SpecialistsInit PROVE SpecialistsInv
  OBVIOUS
<1>1. ControlShape
  BY SpecialistsAssumption DEF SpecialistsInit, Begun, ControlShape, Control
<1>2. PlanShape /\ TaskShape /\ ExpertShape
  BY DEF SpecialistsInit, PlanShape, TaskShape, ExpertShape
<1>3. Course
  BY DEF SpecialistsInit, Begun, Course
<1>4. Laid /\ Manned /\ Closed
  BY DEF SpecialistsInit, Begun, Laid, Manned, Closed
<1> QED
  BY <1>1, <1>2, <1>3, <1>4 DEF SpecialistsInv, SpecialistShapes

\* Every step keeps it.
LEMMA SpecialistsInvStep == SpecialistsInv /\ [SpecialistsNext]_specialistsVars => SpecialistsInv'
  BY ControlShapeStep, PlanShapeStep, TaskShapeStep, ExpertShapeStep, CourseStep, LaidStep, MannedStep, ClosedStep
     DEF SpecialistsInv, SpecialistShapes

\* So it holds throughout.
LEMMA SpecialistsInvHolds == SpecialistsSpec => []SpecialistsInv
  BY SpecialistsInvInit, SpecialistsInvStep, PTL DEF SpecialistsSpec

\* The answer of a multi-agent investigation comes after all tasks of its plan: none is
\* open, and no specialist of the current worker is at work on one (dispatch(), synthesize()).
THEOREM AnswerComesLast == SpecialistsSpec => []AnswerAfterTasks
<1>1. ASSUME SpecialistsInv PROVE AnswerAfterTasks
  <2> SUFFICES ASSUME control.reason = "ready"
               PROVE  Open = {} /\ \A e \in experts : e.fence = fence => ~e.begun
    BY DEF AnswerAfterTasks
  <2>1. control.phase # "dispatch" /\ (control = committed \/ committed.phase = "synthesize")
    BY <1>1 DEF SpecialistsInv, Course
  <2>2. Open = {}
    BY <1>1, <2>1 DEF SpecialistsInv, Closed
  <2>3. \A e \in experts : e.fence # fence
    BY <1>1, <2>1, Unmanned DEF SpecialistsInv, Manned
  <2> QED
    BY <2>2, <2>3
<1> QED
  BY <1>1, SpecialistsInvHolds, PTL

\* What a specialist has delivered stands: no late thread of an earlier worker, no later
\* plan and no closeout changes a task that is over (complete_task(), finalize()).
THEOREM DeliveriesStand == SpecialistsSpec => DeliveredStands
<1>1. ASSUME SpecialistsInv, [SpecialistsNext]_specialistsVars
      PROVE  [\A t \in DOMAIN tasks : tasks[t].status \in Finished => tasks'[t] = tasks[t]]_specialistsVars
  BY <1>1, TasksFollow DEF SpecialistsInv, SpecialistShapes, TasksStand
<1> QED
  BY <1>1, SpecialistsInvHolds, PTL DEF SpecialistsSpec, DeliveredStands

\* The state of a multi-agent investigation keeps its types: a thread has a task that was
\* saved, under a fence of the run so far (multi_agent.py).
THEOREM SpecialistsTyped == SpecialistsSpec => []SpecialistsTypes
<1>1. ASSUME SpecialistsInv PROVE SpecialistsTypes
  <2>1. \A t \in DOMAIN tasks : tasks[t].status \in {"queued", "running"} \cup Finished /\ tasks[t].attempt \in 0..MaxFences
    BY <1>1 DEF SpecialistsInv, SpecialistShapes, TaskShape, Task
  <2>2. \A e \in experts : e.task \in DOMAIN tasks /\ e.fence \in 1..fence
    BY <1>1 DEF SpecialistsInv, Manned
  <2> QED
    BY <1>1, <2>1, <2>2 DEF SpecialistsInv, SpecialistShapes, ControlShape, Control, TaskShape, ExpertShape, SpecialistsTypes
<1> QED
  BY <1>1, SpecialistsInvHolds, PTL
=============================================================================
