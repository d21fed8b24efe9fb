------------------------- MODULE InvestigationProofs -------------------------
(***************************************************************************)
(* Proofs about the ways a question is answered (MCInvestigation), for     *)
(* every bound on rounds, crashes, attempts, documents, callers and workers: *)
(* the single investigator (Investigation), quick answers (QuickAnswer), and *)
(* read-only requests that specialists share (ReadonlyReuse); those of the *)
(* specialists themselves are in SpecialistsProofs.                        *)
(*                                                                         *)
(* The arguments.  A phase of the investigator that is over has used up some *)
(* of what is left of rounds, reviews and closeout (Left), and only a review *)
(* ends the graph with a draft (Kept); between two checkpoints the worker is *)
(* where the checkpoint is or at the end (Ahead).  A quick answer that is  *)
(* not limited has behind it whatever its plan asks for up to the place it *)
(* has come to (Whole), and the journal is only ever added to.  An execution *)
(* of a shared request is charged to it by the claim that admits it, and   *)
(* claims stop at two (Charged).                                           *)
(***************************************************************************)
EXTENDS MCInvestigation, SpecialistsProofs, FiniteSetTheorems, SequenceTheorems, TLAPS

-----------------------------------------------------------------------------
(* The single investigator: the invariant (Investigation). *)

\* What it takes at most from a phase to the end, and from a state.
Weight(phase) == CASE phase = "done" -> 0 [] phase \in {"model", "answer"} -> 1 [] phase \in {"revise", "finalize"} -> 3 [] OTHER -> 2
Left(s) == 2 * (MaxRounds - s.round) + 2 * (2 - s.reviews) + (IF s.closing THEN 0 ELSE 2) + Weight(s.phase)

\* A state of the graph, whose drafts are those of earlier steps.
Formed(s) == s \in States /\ s.step + Left(s) <= MaxSteps /\ s.draft <= s.step /\ s.kept <= s.step

\* What is kept has been reviewed, and nothing else ends it.
Kept(s) == /\ s.kept \in reviewed \cup {Composed}
           /\ s.phase \in {"understand", "done"} => s.draft \in reviewed \cup {Composed}

\* A draft that answers an investigation is written when it closes; a success is that of an
\* said that was ready.
Limits(s) == /\ s.reason = "ready" => stopped = "ready"
             /\ s.phase \in {"review", "revise"} /\ ~s.closing => s.action # "investigate"
             /\ s.outcome = "succeeded" => s.phase = "done" /\ (s.action = "investigate" => stopped = "ready")

\* Between checkpoints the worker is where the checkpoint is, or on its way to the end.
Ahead == /\ graph.step = saved.step /\ graph.round = saved.round
         /\ "model" \in DOMAIN turns => saved.round < MaxRounds
Asked == \A suffix \in DOMAIN turns \cap {"first", "second"} : turns[suffix] \in Intents
Closing == \A s \in {graph, saved} :
             (s.phase \in {"finalize", "answer"} => s.closing) /\ (s.phase = "answer" => s.round < MaxRounds)
Journaled == /\ DOMAIN observed \subseteq {"required", "gap", "search", "calls"}
             /\ \A id \in DOMAIN observed : observed[id] \in {"ok", "poor"}
             /\ fell \subseteq unseen /\ unseen \subseteq {"required", "gap"}
Rest == /\ stopped \in {"none", "ready", "limit"} /\ web \in BOOLEAN /\ crashes \in 0..MaxCrashes
        /\ reviewed \subseteq 1..MaxSteps /\ report \in [outcome : Outcomes, draft : 0..MaxSteps]
Reported == report.outcome # "none" =>
              /\ graph.phase = "done" /\ report.draft \in reviewed \cup {Composed}
              /\ report.outcome = "succeeded" => graph.outcome = "succeeded"

InvestigationInv ==
  /\ Formed(graph) /\ Formed(saved) /\ Kept(graph) /\ Kept(saved) /\ Limits(graph) /\ Limits(saved)
  /\ Ahead /\ Asked /\ Closing /\ Journaled /\ Rest /\ Reported

\* The bounds are numbers.
LEMMA Steps == MaxSteps \in Nat /\ MaxRounds \in Nat /\ MaxSteps = 2 * MaxRounds + 9
  BY InvestigationAssumption DEF MaxSteps

\* Weights are small.
LEMMA WeightType == \A p : Weight(p) \in 0..3
  BY DEF Weight

\* What is left is a number.
LEMMA LeftType ==
  ASSUME NEW s \in States
  PROVE  Left(s) \in Nat
<1>1. s.round \in 0..MaxRounds /\ s.reviews \in 0..2
  BY DEF States
<1>2. Weight(s.phase) \in 0..3
  BY WeightType
<1> QED
  BY <1>1, <1>2, InvestigationAssumption DEF Left

\* Fields of a state.
LEMMA StateFields ==
  ASSUME NEW s \in States
  PROVE  /\ s.phase \in {"understand", "model", "answer", "tools", "finalize", "review", "revise", "done"} /\ s.step \in 1..MaxSteps
         /\ s.round \in 0..MaxRounds /\ s.action \in {"none", "investigate", "direct"}
         /\ s.calls \in {"none", "search", "work", "again"} /\ s.closing \in BOOLEAN /\ s.reason \in {"none", "ready", "limit"}
         /\ s.draft \in 0..MaxSteps /\ s.kept \in 0..MaxSteps /\ s.reviews \in 0..2 /\ s.repaired \in BOOLEAN
         /\ s.checked \in BOOLEAN /\ s.empty \in 0..1 /\ s.repeats \in 0..1 /\ s.limited \in BOOLEAN
         /\ s.packet \in BOOLEAN /\ s.outcome \in Outcomes
  BY DEF States

\* The step that a checkpoint ends.
LEMMA NextStep ==
  ASSUME NEW s \in States, NEW d, d = [s EXCEPT !.step = @ + 1], s.step + 1 <= MaxSteps
  PROVE  /\ d \in States /\ d.step = s.step + 1 /\ d.phase = s.phase /\ d.round = s.round /\ d.action = s.action
         /\ d.closing = s.closing /\ d.reason = s.reason /\ d.draft = s.draft /\ d.kept = s.kept
         /\ d.reviews = s.reviews /\ d.outcome = s.outcome
<1>1. s.step + 1 \in 1..MaxSteps
  BY Steps, StateFields
<1> QED
  BY <1>1 DEF States

\* A phase that ends with a checkpoint, and takes the graph nearer to its end (node(), save()).
LEMMA CheckpointTaken ==
  ASSUME InvestigationInv, NEW s \in States, Checkpoint(s), graph.phase # "done", s.step = graph.step,
         Left(s) < Left(graph), s.draft <= s.step, s.kept <= s.step,
         reviewed \subseteq reviewed', reviewed' \subseteq 1..MaxSteps,
         stopped' \in {"none", "ready", "limit"},
         s.kept \in reviewed' \cup {Composed}, s.phase \in {"understand", "done"} => s.draft \in reviewed' \cup {Composed},
         s.reason = "ready" => stopped' = "ready", s.phase = "finalize" => s.closing, s.phase # "answer",
         s.phase \in {"review", "revise"} /\ ~s.closing => s.action # "investigate",
         s.outcome = "succeeded" => s.phase = "done" /\ (s.action = "investigate" => stopped' = "ready")
  PROVE  InvestigationInv'
<1>1. graph' = [s EXCEPT !.step = @ + 1] /\ saved' = graph'
  BY DEF Checkpoint
<1>2. graph \in States /\ graph.step + Left(graph) <= MaxSteps /\ graph.step \in 1..MaxSteps
  BY StateFields DEF InvestigationInv, Formed
<1>3. Left(s) \in Nat /\ Left(graph) \in Nat
  BY <1>2, LeftType
<1>4. s.step + 1 + Left(s) <= MaxSteps /\ s.step + 1 <= MaxSteps
  BY <1>2, <1>3, Steps
<1>5. /\ graph' \in States /\ graph'.step = s.step + 1 /\ graph'.phase = s.phase /\ graph'.round = s.round /\ graph'.action = s.action
      /\ graph'.closing = s.closing /\ graph'.reason = s.reason /\ graph'.draft = s.draft /\ graph'.kept = s.kept
      /\ graph'.reviews = s.reviews /\ graph'.outcome = s.outcome
  BY <1>1, <1>4, NextStep
<1>6. Left(graph') = Left(s)
  BY <1>5 DEF Left
<1>7. Formed(graph)'
  <2>1. s.draft \in Nat /\ s.kept \in Nat /\ s.step \in Nat
    BY StateFields, Steps
  <2>2. graph'.draft <= graph'.step /\ graph'.kept <= graph'.step
    BY <1>5, <2>1
  <2>3. graph'.step + Left(graph') <= MaxSteps
    BY <1>4, <1>5, <1>6
  <2> QED
    BY <1>5, <2>2, <2>3 DEF Formed
<1>8. Kept(graph)' /\ Limits(graph)'
  BY <1>5 DEF Kept, Limits
<1>9. Ahead'
  BY <1>1, <1>5 DEF Checkpoint, Ahead
<1>14. Closing'
  BY <1>1, <1>5 DEF Closing
<1>13. Asked'
  BY DEF Checkpoint, Asked
<1>10. Journaled'
  <2>1. /\ DOMAIN observed \subseteq {"required", "gap", "search", "calls"}
        /\ \A id \in DOMAIN observed : observed[id] \in {"ok", "poor"}
    BY DEF InvestigationInv, Journaled
  <2>2. fell' = {} /\ unseen' = {}
    BY DEF Checkpoint
  <2>3. observed' = [id \in (DOMAIN observed \ {"calls"}) \cup (IF "calls" \in DOMAIN observed /\ graph.calls = "search"
                                                             THEN {"search"} ELSE {}) |->
                      IF id \in DOMAIN observed THEN observed[id] ELSE observed["calls"]]
    BY DEF Checkpoint
  <2>4. \A id \in DOMAIN observed' : id \in {"required", "gap", "search", "calls"} /\ observed'[id] \in {"ok", "poor"}
    BY <2>1, <2>3
  <2> QED
    BY <2>2, <2>4 DEF Journaled
<1>11. Rest' /\ Reported'
  <2>1. report.outcome = "none" /\ report' = report /\ crashes' = crashes /\ web' \in BOOLEAN
    BY DEF InvestigationInv, Reported, Rest, Checkpoint
  <2> QED
    BY <2>1 DEF InvestigationInv, Rest, Reported
<1>12. Formed(saved)' /\ Kept(saved)' /\ Limits(saved)'
  BY <1>1, <1>7, <1>8
<1> QED
  BY <1>7, <1>8, <1>9, <1>10, <1>11, <1>12, <1>13, <1>14 DEF InvestigationInv

\* What the invariant says of the graph before a step.
LEMMA Before ==
  ASSUME InvestigationInv
  PROVE  /\ graph \in States /\ graph.draft <= graph.step /\ graph.kept <= graph.step
         /\ reviewed \subseteq 1..MaxSteps /\ stopped \in {"none", "ready", "limit"}
         /\ graph.kept \in reviewed \cup {Composed} /\ (graph.phase \in {"understand", "done"} => graph.draft \in reviewed \cup {Composed})
         /\ (graph.reason = "ready" => stopped = "ready")
         /\ (graph.phase \in {"review", "revise"} /\ ~graph.closing => graph.action # "investigate")
         /\ (graph.outcome = "succeeded" => graph.phase = "done")
  BY DEF InvestigationInv, Formed, Rest, Kept, Limits

\* What is asked for next.
LEMMA WantedFacts ==
  /\ Wanted.suffix \in {"first", "second"} => Wanted.answers = Intents
  /\ Wanted.suffix = "model" => graph.round < MaxRounds
  /\ graph.phase = "understand" /\ Wanted.suffix \notin {"first", "second"} =>
       Has("first") /\ (Said("first") = "invalid" => Has("second"))
<1>1. CASE graph.phase = "understand" /\ ~Has("first")
  BY <1>1 DEF Wanted, Said, Closeout
<1>2. CASE graph.phase = "understand" /\ Has("first") /\ Said("first") = "invalid" /\ ~Has("second")
  BY <1>2 DEF Wanted, Said, Closeout
<1>3. CASE graph.phase = "model" /\ ~Has("model") /\ graph.round < MaxRounds
  BY <1>3 DEF Wanted
<1>4. CASE /\ ~(graph.phase = "understand" /\ ~Has("first"))
           /\ ~(graph.phase = "understand" /\ Said("first") = "invalid" /\ ~Has("second"))
           /\ ~(graph.phase = "model" /\ ~Has("model") /\ graph.round < MaxRounds)
  BY <1>4 DEF Wanted, Closeout
<1> QED
  BY <1>1, <1>2, <1>3, <1>4

\* understand() keeps the invariant: its outcome is never a success.
LEMMA UnderstandStep ==
  ASSUME InvestigationInv, Understand
  PROVE  InvestigationInv'
<1>1. graph.phase = "understand" /\ UNCHANGED <<stopped, reviewed>> /\ Wanted.suffix \in {"nothing", "readiness", "repair", "recheck"}
  BY DEF Understand, Answered
<1>2. PICK intent : /\ intent = IF Said("first") = "invalid" THEN Said("second") ELSE Said("first")
                    /\ intent # "invalid"
                    /\ Checkpoint(CASE intent = "clarify" -> [graph EXCEPT !.phase = "done", !.outcome = "waiting_input"]
                     [] intent = "undeliverable" -> [graph EXCEPT !.phase = "done", !.outcome = "partial"]
                     [] OTHER -> [graph EXCEPT !.phase = "model", !.action = intent])
  BY DEF Understand
<1>3. intent \in Intents
  BY <1>1, <1>2, WantedFacts DEF InvestigationInv, Asked, Said, Has
<1>4. PICK s : s = CASE intent = "clarify" -> [graph EXCEPT !.phase = "done", !.outcome = "waiting_input"]
                     [] intent = "undeliverable" -> [graph EXCEPT !.phase = "done", !.outcome = "partial"]
                     [] OTHER -> [graph EXCEPT !.phase = "model", !.action = intent]
  OBVIOUS
<1>5. /\ s \in States /\ s.step = graph.step /\ s.round = graph.round /\ s.reviews = graph.reviews /\ s.closing = graph.closing
      /\ s.draft = graph.draft /\ s.kept = graph.kept /\ s.reason = graph.reason /\ s.phase \in {"done", "model"}
      /\ s.outcome # "succeeded"
  <2>1. CASE intent = "clarify"
    <3>1. s = [graph EXCEPT !.phase = "done", !.outcome = "waiting_input"]
      BY <1>4, <2>1
    <3> QED
      BY <1>1, <3>1, Before DEF States, Outcomes
  <2>2. CASE intent = "undeliverable"
    <3>1. s = [graph EXCEPT !.phase = "done", !.outcome = "partial"]
      BY <1>4, <2>2
    <3> QED
      BY <1>1, <3>1, Before DEF States, Outcomes
  <2>3. CASE intent \in {"investigate", "direct"}
    <3>1. s = [graph EXCEPT !.phase = "model", !.action = intent]
      BY <1>4, <2>3
    <3>2. graph.outcome # "succeeded"
      BY <1>1, Before
    <3> QED
      BY <1>1, <2>3, <3>1, <3>2, Before DEF States, Outcomes
  <2> QED
    BY <1>2, <1>3, <2>1, <2>2, <2>3 DEF Intents
<1>6. Left(s) < Left(graph)
  <2>1. Weight(s.phase) \in {0, 1} /\ Weight(graph.phase) = 2
    BY <1>1, <1>5 DEF Weight
  <2>2. graph.round \in 0..MaxRounds /\ graph.reviews \in 0..2
    BY Before, StateFields
  <2> QED
    BY <1>5, <2>1, <2>2, InvestigationAssumption DEF Left
<1>7. Checkpoint(s)
  BY <1>2, <1>4
<1> QED
  BY <1>1, <1>5, <1>6, <1>7, Before, CheckpointTaken

\* What a state has left, by what a step does to it.
LEMMA Shorter ==
  ASSUME NEW s \in States, NEW g \in States, s.closing = g.closing \/ s.closing, s.reviews \in g.reviews..2,
         Weight(s.phase) < Weight(g.phase) + 2 * (s.round - g.round) + 2 * (s.reviews - g.reviews)
  PROVE  Left(s) < Left(g)
<1>1. /\ s.round \in Nat /\ g.round \in Nat /\ g.reviews \in 0..2 /\ s.closing \in BOOLEAN /\ g.closing \in BOOLEAN
      /\ Weight(s.phase) \in 0..3 /\ Weight(g.phase) \in 0..3
  BY StateFields, WeightType, InvestigationAssumption
<1>2. PICK m : m = IF s.closing THEN 0 ELSE 2
  OBVIOUS
<1>3. PICK n : n = IF g.closing THEN 0 ELSE 2
  OBVIOUS
<1>4. m \in {0, 2} /\ n \in {0, 2} /\ m <= n
  BY <1>1, <1>2, <1>3
<1>5. /\ Left(s) = 2 * (MaxRounds - s.round) + 2 * (2 - s.reviews) + m + Weight(s.phase)
      /\ Left(g) = 2 * (MaxRounds - g.round) + 2 * (2 - g.reviews) + n + Weight(g.phase)
  BY <1>2, <1>3 DEF Left
<1>6. s.reviews \in Nat
  BY StateFields
<1>7. PICK a, b, i, j, v, w : /\ a = s.round /\ b = g.round /\ i = s.reviews /\ j = g.reviews
                             /\ v = Weight(s.phase) /\ w = Weight(g.phase)
  OBVIOUS
<1>8. /\ MaxRounds \in Nat /\ a \in Nat /\ b \in Nat /\ i \in Nat /\ j \in Nat /\ v \in Nat /\ w \in Nat
      /\ v < w + 2 * (a - b) + 2 * (i - j)
  BY <1>1, <1>6, <1>7, InvestigationAssumption
<1>9. 2 * (MaxRounds - a) + 2 * (2 - i) + m + v < 2 * (MaxRounds - b) + 2 * (2 - j) + n + w
  BY <1>4, <1>8
<1> QED
  BY <1>5, <1>7, <1>9

\* A worker that changes no journal of its step goes towards the end.
LEMMA WorkerMoves ==
  ASSUME InvestigationInv, Working, graph' \in States, graph'.step = graph.step, graph'.round = graph.round,
         Left(graph') <= Left(graph), graph'.draft <= graph.step, graph'.kept = graph.kept, stopped' \in {"none", "ready", "limit"},
         stopped = "ready" => stopped' = "ready", graph'.phase \in {"finalize", "answer", "done"}, graph'.phase \in {"finalize", "answer"} => graph'.closing,
         graph'.phase = "answer" => graph.round < MaxRounds,
         graph'.reason = "ready" => stopped' = "ready", graph'.phase = "done" => graph'.draft \in reviewed \cup {Composed},
         graph'.outcome # "succeeded", fell' \subseteq fell,
         UNCHANGED <<saved, turns, observed, web, report, crashes, reviewed, unseen>>
  PROVE  InvestigationInv'
<1>1. graph \in States /\ graph.step + Left(graph) <= MaxSteps /\ graph.step \in Nat /\ MaxSteps \in Nat
  BY StateFields, Steps DEF InvestigationInv, Formed
<1>2. Left(graph) \in Nat /\ Left(graph') \in Nat
  BY <1>1, LeftType
<1>3. graph'.step + Left(graph') <= MaxSteps
  BY <1>1, <1>2
<1>4. Formed(graph)' /\ Formed(saved)'
  BY <1>3, Before, Steps DEF InvestigationInv, Formed, Left
<1>5. Kept(graph)' /\ Kept(saved)'
  BY Before DEF InvestigationInv, Kept
<1>6. Limits(graph)' /\ Limits(saved)'
  BY DEF InvestigationInv, Limits
<1>7. Ahead' /\ Asked' /\ Closing'
  BY DEF InvestigationInv, Ahead, Asked, Closing
<1>8. Journaled'
  BY DEF InvestigationInv, Journaled
<1>9. Rest' /\ Reported'
  BY DEF InvestigationInv, Rest, Reported, Working
<1> QED
  BY <1>4, <1>5, <1>6, <1>7, <1>8, <1>9 DEF InvestigationInv

\* A text that is written in a round becomes the draft of this step; one of an
\* investigation has closed it.
LEMMA DraftSaved ==
  ASSUME InvestigationInv, graph.phase \in {"model", "answer"}, graph.round < MaxRounds, Checkpoint(Drafted),
         stopped' = stopped, reviewed' = reviewed, ~graph.closing => graph.action # "investigate"
  PROVE  InvestigationInv'
<1>0. graph \in States
  BY Before
<1>1. /\ graph.round \in 0..MaxRounds /\ graph.step \in 1..MaxSteps /\ graph.step \in 0..MaxSteps /\ graph.reviews \in 0..2
      /\ graph.kept \in 0..MaxSteps /\ graph.outcome # "succeeded" /\ graph.closing \in BOOLEAN
      /\ graph.reason \in {"none", "ready", "limit"}
  BY <1>0, Before, StateFields, Steps
<1>2. graph.round + 1 \in 0..MaxRounds /\ graph.round \in Nat
  BY <1>1, InvestigationAssumption
<1>3. PICK checked : checked = (graph.checked \/ Has("readiness"))
  OBVIOUS
<1>4. checked \in BOOLEAN
  BY <1>3
<1>5. PICK s : s = [graph EXCEPT !.round = @ + 1, !.phase = "review", !.draft = graph.step, !.checked = checked]
  OBVIOUS
<1>6. /\ s \in States /\ s.round = graph.round + 1 /\ s.phase = "review" /\ s.draft = graph.step
      /\ s.step = graph.step /\ s.kept = graph.kept /\ s.reviews = graph.reviews /\ s.closing = graph.closing
      /\ s.reason = graph.reason /\ s.action = graph.action /\ s.outcome = graph.outcome
  BY <1>0, <1>1, <1>2, <1>4, <1>5 DEF States
<1>7. Checkpoint(s)
  <2>1. s = Drafted
    BY <1>3, <1>5 DEF Drafted
  <2> QED
    BY <2>1
<1>8. Left(s) < Left(graph)
  <2>1. Weight(s.phase) = 2 /\ Weight(graph.phase) = 1
    BY <1>6 DEF Weight
  <2>2. s.round - graph.round = 1 /\ s.reviews - graph.reviews = 0 /\ s.reviews \in graph.reviews..2
    BY <1>1, <1>2, <1>6
  <2>3. Weight(s.phase) < Weight(graph.phase) + 2 * (s.round - graph.round) + 2 * (s.reviews - graph.reviews)
    BY <2>1, <2>2
  <2> QED
    BY <1>0, <1>6, <2>2, <2>3, Shorter
<1>9. /\ s.draft <= s.step /\ s.kept <= s.step /\ s.kept \in reviewed' \cup {Composed} /\ s.outcome # "succeeded"
      /\ (s.reason = "ready" => stopped' = "ready") /\ reviewed' \subseteq 1..MaxSteps /\ stopped' \in {"none", "ready", "limit"}
  BY <1>1, <1>6, Before, Steps
<1> QED
  BY <1>6, <1>7, <1>8, <1>9, CheckpointTaken

\* model() keeps it: a text becomes the draft of this step, and closes an investigation.
LEMMA ModelStep ==
  ASSUME InvestigationInv, Model
  PROVE  InvestigationInv'
<1>0. graph \in States
  BY Before
<1>1. graph.phase = "model" /\ Has("model") /\ reviewed' = reviewed
  BY DEF Model, Answered
<1>2. graph.round \in 0..MaxRounds /\ graph.round < MaxRounds /\ graph.step \in 1..MaxSteps /\ graph.reviews \in 0..2 /\ graph.kept \in 0..MaxSteps
      /\ graph.outcome # "succeeded" /\ graph.closing \in BOOLEAN
  BY <1>1, Before, StateFields DEF InvestigationInv, Ahead, Has
<1>3. PICK next : next = [graph EXCEPT !.round = @ + 1]
  OBVIOUS
<1>4. graph.round + 1 \in 0..MaxRounds
  BY <1>2, InvestigationAssumption
<1>5. /\ next \in States /\ next.round = graph.round + 1 /\ next.phase = "model"
      /\ next.step = graph.step /\ next.draft = graph.draft /\ next.kept = graph.kept /\ next.reviews = graph.reviews
      /\ next.closing = graph.closing /\ next.reason = graph.reason /\ next.action = graph.action /\ next.outcome = graph.outcome
  BY <1>1, <1>3, <1>4, Before DEF States
<1>6. Weight("model") = 1 /\ Weight("tools") = 2 /\ Weight("review") = 2
  BY DEF Weight
<1>7. ASSUME NEW s \in States, Checkpoint(s), stopped' = stopped, s.round = next.round, s.phase \in {"model", "tools"},
             s.step = next.step, s.draft = next.draft, s.kept = next.kept, s.reviews = next.reviews, s.closing = next.closing,
             s.reason = next.reason, s.action = next.action, s.outcome = next.outcome
      PROVE  InvestigationInv'
  <2>1. Left(s) < Left(graph)
    <3>1. Weight(s.phase) < Weight(graph.phase) + 2 * (s.round - graph.round) + 2 * (s.reviews - graph.reviews)
      BY <1>1, <1>2, <1>5, <1>6, <1>7
    <3> QED
      BY <1>2, <1>5, <1>7, <3>1, Before, Shorter
  <2> QED
    BY <1>1, <1>2, <1>5, <1>7, <2>1, Before, CheckpointTaken
<1>8. CASE Said("model") \in {"search", "work", "again"} /\ stopped' = stopped /\ Checkpoint([next EXCEPT !.phase = "tools", !.calls = Said("model")])
  <2>1. PICK s : s = [next EXCEPT !.phase = "tools", !.calls = Said("model")]
    OBVIOUS
  <2>2. /\ s \in States /\ s.round = next.round /\ s.phase = "tools"
        /\ s.step = next.step /\ s.draft = next.draft /\ s.kept = next.kept /\ s.reviews = next.reviews /\ s.closing = next.closing
        /\ s.reason = next.reason /\ s.action = next.action /\ s.outcome = next.outcome
    BY <1>5, <1>8, <2>1 DEF States
  <2> QED
    BY <1>7, <1>8, <2>1, <2>2
<1>9. CASE stopped' = stopped /\ Checkpoint([next EXCEPT !.empty = 1])
  <2>1. PICK s : s = [next EXCEPT !.empty = 1]
    OBVIOUS
  <2>2. /\ s \in States /\ s.round = next.round /\ s.phase = "model"
        /\ s.step = next.step /\ s.draft = next.draft /\ s.kept = next.kept /\ s.reviews = next.reviews /\ s.closing = next.closing
        /\ s.reason = next.reason /\ s.action = next.action /\ s.outcome = next.outcome
    BY <1>5, <2>1 DEF States
  <2> QED
    BY <1>7, <1>9, <2>1, <2>2
<1>10. CASE stopped' = stopped /\ Checkpoint([next EXCEPT !.checked = @ \/ Has("readiness"), !.limited = Limited])
  <2>1. PICK s : s = [next EXCEPT !.checked = @ \/ Has("readiness"), !.limited = Limited]
    OBVIOUS
  <2>3. (next.checked \/ Has("readiness")) \in BOOLEAN /\ Limited \in BOOLEAN
    BY DEF Limited
  <2>2. /\ s \in States /\ s.round = next.round /\ s.phase = "model"
        /\ s.step = next.step /\ s.draft = next.draft /\ s.kept = next.kept /\ s.reviews = next.reviews /\ s.closing = next.closing
        /\ s.reason = next.reason /\ s.action = next.action /\ s.outcome = next.outcome
    BY <1>5, <2>1, <2>3 DEF States
  <2> QED
    BY <1>7, <1>10, <2>1, <2>2
<1>11. CASE BeginAnswer
  <2>1. CASE graph.action # "investigate"
    <3>1. Checkpoint(Drafted) /\ stopped' = stopped
      BY <1>11, <2>1 DEF BeginAnswer
    <3> QED
      BY <1>1, <1>2, <2>1, <3>1, Before, DraftSaved
  <2>2. CASE graph.action = "investigate"
    <3>1. /\ graph' = [graph EXCEPT !.phase = "answer", !.closing = TRUE, !.reason = First("ready")]
          /\ stopped' = First("ready") /\ UNCHANGED <<saved, turns, observed, fell, web, report, crashes, unseen>>
      BY <1>11, <2>2 DEF BeginAnswer, ToAnswer
    <3>2. First("ready") \in {"none", "ready", "limit"} /\ (stopped = "ready" => First("ready") = "ready")
      BY Before DEF First
    <3>3. /\ graph' \in States /\ graph'.round = graph.round /\ graph'.phase = "answer" /\ graph'.draft = graph.draft
          /\ graph'.step = graph.step /\ graph'.kept = graph.kept /\ graph'.reviews = graph.reviews /\ graph'.closing
          /\ graph'.reason = First("ready") /\ graph'.outcome = graph.outcome
      BY <1>0, <3>1, <3>2 DEF States
    <3>4. Left(graph') <= Left(graph)
      <4>1. Weight("answer") = 1
        BY DEF Weight
      <4>2. PICK r, v, m : r = graph.round /\ v = graph.reviews /\ m = IF graph.closing THEN 0 ELSE 2
        OBVIOUS
      <4>3. Left(graph') = 2 * (MaxRounds - r) + 2 * (2 - v) + 0 + 1
        BY <3>3, <4>1, <4>2 DEF Left
      <4>4. Left(graph) = 2 * (MaxRounds - r) + 2 * (2 - v) + m + 1
        BY <1>1, <1>6, <4>2 DEF Left
      <4>5. r \in Nat /\ v \in 0..2 /\ MaxRounds \in Nat /\ m \in {0, 2}
        BY <1>2, <4>2, Steps
      <4> QED
        BY <4>3, <4>4, <4>5
    <3>5. Working /\ fell' \subseteq fell /\ graph'.outcome # "succeeded" /\ graph'.draft <= graph.step
      BY <1>1, <1>2, <3>1, <3>3, Before DEF Working
    <3> QED
      BY <1>1, <1>2, <3>1, <3>2, <3>3, <3>4, <3>5, WorkerMoves
  <2> QED
    BY <2>1, <2>2
<1> QED
  BY <1>3, <1>8, <1>9, <1>10, <1>11 DEF Model

\* The end of model() keeps it: the investigation has closed.
LEMMA SaveAnswerStep ==
  ASSUME InvestigationInv, SaveAnswer
  PROVE  InvestigationInv'
<1>1. graph.phase = "answer" /\ Checkpoint(Drafted) /\ stopped' = stopped /\ reviewed' = reviewed
  BY DEF SaveAnswer
<1>2. graph.closing /\ graph.round < MaxRounds
  BY <1>1 DEF InvestigationInv, Closing
<1> QED
  BY <1>1, <1>2, DraftSaved

\* tools() keeps it: it goes back to the model within the rounds.
LEMMA CallToolsStep ==
  ASSUME InvestigationInv, CallTools
  PROVE  InvestigationInv'
<1>0. graph \in States
  BY Before
<1>1. graph.phase = "tools" /\ UNCHANGED <<stopped, reviewed>>
  BY DEF CallTools, Answered
<1>7. PICK repeats : repeats = IF graph.calls = "again" THEN 1 ELSE graph.repeats
  OBVIOUS
<1>8. PICK limited : limited = Limited
  OBVIOUS
<1>2. PICK s : s = [graph EXCEPT !.phase = "model", !.limited = limited, !.calls = "none", !.repeats = repeats]
  OBVIOUS
<1>3. Checkpoint(s)
  BY <1>2, <1>7, <1>8 DEF CallTools
<1>4. limited \in BOOLEAN /\ repeats \in 0..1
  BY <1>0, <1>7, <1>8, StateFields DEF Limited
<1>5. /\ s \in States /\ s.round = graph.round /\ s.phase = "model" /\ s.draft = graph.draft
      /\ s.step = graph.step /\ s.kept = graph.kept /\ s.reviews = graph.reviews /\ s.closing = graph.closing
      /\ s.reason = graph.reason /\ s.action = graph.action /\ s.outcome = graph.outcome
  BY <1>0, <1>2, <1>4 DEF States
<1>6. Left(s) < Left(graph)
  <2>1. Weight(s.phase) = 1 /\ Weight(graph.phase) = 2
    BY <1>1, <1>5 DEF Weight
  <2>2. graph.round \in Nat /\ graph.reviews \in 0..2
    BY <1>0, StateFields, InvestigationAssumption
  <2>3. s.reviews \in graph.reviews..2 /\ s.round - graph.round = 0 /\ s.reviews - graph.reviews = 0
    BY <1>5, <2>2
  <2> QED
    BY <1>0, <1>5, <2>1, <2>3, Shorter
<1> QED
  BY <1>1, <1>3, <1>5, <1>6, Before, CheckpointTaken

\* revise() keeps it: the draft is of this step.
LEMMA ReviseStep ==
  ASSUME InvestigationInv, Revise
  PROVE  InvestigationInv'
<1>0. graph \in States
  BY Before
<1>1. graph.phase = "revise" /\ UNCHANGED <<stopped, reviewed>>
  BY DEF Revise, Answered
<1>2. PICK s : s = [graph EXCEPT !.phase = "review", !.draft = graph.step]
  OBVIOUS
<1>3. Checkpoint(s)
  BY <1>2 DEF Revise
<1>4. graph.step \in 0..MaxSteps /\ graph.round \in 0..MaxRounds /\ graph.reviews \in 0..2
  BY <1>0, StateFields, Steps
<1>5. /\ s \in States /\ s.round = graph.round /\ s.phase = "review" /\ s.draft = graph.step
      /\ s.step = graph.step /\ s.kept = graph.kept /\ s.reviews = graph.reviews /\ s.closing = graph.closing
      /\ s.reason = graph.reason /\ s.action = graph.action /\ s.outcome = graph.outcome
  BY <1>0, <1>2, <1>4 DEF States
<1>6. Left(s) < Left(graph)
  <2>1. Weight(s.phase) = 2 /\ Weight(graph.phase) = 3
    BY <1>1, <1>5 DEF Weight
  <2> QED
    BY <1>4, <1>5, <2>1, Before, Shorter, InvestigationAssumption
<1> QED
  BY <1>1, <1>3, <1>4, <1>5, <1>6, Before, CheckpointTaken

\* final_answer() keeps it: its reason is that of the run, unless another stood.
LEMMA FinalAnswerStep ==
  ASSUME InvestigationInv, FinalAnswer
  PROVE  InvestigationInv'
<1>0. graph \in States
  BY Before
<1>1. graph.phase = "finalize" /\ reviewed' = reviewed /\ stopped' = First(graph.reason)
  BY DEF FinalAnswer, Answered
<1>2. PICK s : s = [graph EXCEPT !.phase = "review", !.draft = graph.step, !.packet = TRUE]
  OBVIOUS
<1>3. Checkpoint(s)
  BY <1>2 DEF FinalAnswer
<1>4. /\ graph.step \in 0..MaxSteps /\ graph.round \in 0..MaxRounds /\ graph.reviews \in 0..2
      /\ graph.reason \in {"none", "ready", "limit"}
  BY <1>0, StateFields, Steps
<1>5. /\ s \in States /\ s.round = graph.round /\ s.phase = "review" /\ s.draft = graph.step
      /\ s.step = graph.step /\ s.kept = graph.kept /\ s.reviews = graph.reviews /\ s.closing = graph.closing
      /\ s.reason = graph.reason /\ s.action = graph.action /\ s.outcome = graph.outcome
  BY <1>0, <1>2, <1>4 DEF States
<1>6. Left(s) < Left(graph)
  <2>1. Weight(s.phase) = 2 /\ Weight(graph.phase) = 3
    BY <1>1, <1>5 DEF Weight
  <2> QED
    BY <1>4, <1>5, <2>1, Before, Shorter, InvestigationAssumption
<1>7. stopped' \in {"none", "ready", "limit"} /\ (graph.reason = "ready" => stopped' = "ready")
  BY <1>1, <1>4, Before DEF First
<1>8. graph.closing
  BY <1>1 DEF InvestigationInv, Closing
<1>9. /\ graph.phase # "done" /\ s.draft <= s.step /\ s.kept <= s.step /\ reviewed' \subseteq 1..MaxSteps
      /\ s.kept \in reviewed' \cup {Composed} /\ s.outcome # "succeeded" /\ (s.reason = "ready" => stopped' = "ready")
  BY <1>1, <1>4, <1>5, <1>7, Before
<1> QED
  BY <1>1, <1>3, <1>5, <1>6, <1>7, <1>8, <1>9, CheckpointTaken

\* review() keeps it: what ends here is a draft it has kept, or a text of the server.
LEMMA ReviewStep ==
  ASSUME InvestigationInv, Review
  PROVE  InvestigationInv'
<1>0. graph \in States
  BY Before
<1>1. graph.phase = "review" /\ stopped' = stopped
  BY DEF Review, Answered
<1>2. /\ graph.step \in 1..MaxSteps /\ graph.step \in Nat /\ graph.round \in Nat /\ graph.reviews \in 0..2
      /\ graph.draft \in 0..MaxSteps /\ graph.draft \in Nat /\ MaxSteps \in Nat
  BY <1>0, StateFields, Steps
<1>3. Weight("review") = 2 /\ Weight("model") = 1 /\ Weight("revise") = 3 /\ Weight("done") = 0
  BY DEF Weight
<1>4. CASE fell # {}
  <2>1. PICK limited : limited = Limited
    OBVIOUS
  <2>2. PICK s : s = [graph EXCEPT !.phase = "model", !.limited = limited]
    OBVIOUS
  <2>3. Checkpoint(s) /\ reviewed' = reviewed
    BY <1>4, <2>1, <2>2 DEF Review
  <2>4. limited \in BOOLEAN
    BY <2>1 DEF Limited
  <2>5. /\ s \in States /\ s.round = graph.round /\ s.phase = "model" /\ s.draft = graph.draft
        /\ s.step = graph.step /\ s.kept = graph.kept /\ s.reviews = graph.reviews /\ s.closing = graph.closing
        /\ s.reason = graph.reason /\ s.action = graph.action /\ s.outcome = graph.outcome
    BY <1>0, <2>2, <2>4 DEF States
  <2>6. s.reviews \in graph.reviews..2 /\ s.round - graph.round = 0 /\ s.reviews - graph.reviews = 0
    BY <1>2, <2>5
  <2>7. Left(s) < Left(graph)
    BY <1>0, <1>1, <1>3, <2>5, <2>6, Shorter
  <2> QED
    BY <1>1, <2>3, <2>5, <2>7, Before, CheckpointTaken
<1>5. CASE fell = {}
  <2> DEFINE verdict == Said("review")
  <2>1. PICK reviews : reviews = IF graph.reviews = 2 THEN 2 ELSE graph.reviews + 1
    OBVIOUS
  <2>2. reviews \in 0..2 /\ reviews \in graph.reviews..2 /\ (reviews < 2 => reviews - graph.reviews = 1)
    BY <1>2, <2>1
  <2>3. PICK kept : kept = Retained
    OBVIOUS
  <2>4. /\ kept \in {graph.draft, Composed} /\ kept \in 0..MaxSteps /\ kept <= graph.step
        /\ (verdict \in Approved => kept = graph.draft)
    BY <1>2, <2>3, Before DEF Retained, Composed
  <2>5. PICK judged : judged = [graph EXCEPT !.kept = kept, !.reviews = reviews]
    OBVIOUS
  <2>6. /\ judged \in States /\ judged.round = graph.round /\ judged.phase = "review" /\ judged.draft = graph.draft
        /\ judged.step = graph.step /\ judged.kept = kept /\ judged.reviews = reviews /\ judged.closing = graph.closing
        /\ judged.reason = graph.reason /\ judged.action = graph.action /\ judged.outcome = graph.outcome
    BY <1>0, <1>1, <2>2, <2>4, <2>5 DEF States
  <2>7. PICK outcome : outcome = IF verdict = "approved" /\ ~graph.limited /\ ~graph.closing THEN "succeeded" ELSE "partial"
    OBVIOUS
  <2>8. PICK draft : draft = IF verdict \in Approved THEN graph.draft ELSE Salvage(Retained)
    OBVIOUS
  <2>9. PICK s : s = IF verdict \in Retrieving /\ ~graph.closing /\ ~graph.repaired
                     THEN [judged EXCEPT !.phase = "model", !.repaired = TRUE, !.action = "investigate"]
                     ELSE IF verdict \notin Approved \ {"style"} /\ judged.reviews < 2 THEN [judged EXCEPT !.phase = "revise"]
                     ELSE [judged EXCEPT !.phase = "done", !.draft = draft, !.outcome = outcome]
    OBVIOUS
  <2>10. Checkpoint(s) /\ reviewed' = reviewed \cup ({Retained} \ {Composed})
    <3>1. judged = [graph EXCEPT !.kept = Retained, !.reviews = IF @ = 2 THEN 2 ELSE @ + 1]
      BY <2>1, <2>3, <2>5
    <3>2. [judged EXCEPT !.phase = "done", !.draft = draft, !.outcome = outcome]
            = [judged EXCEPT !.phase = "done", !.draft = IF verdict \in Approved THEN @ ELSE Salvage(Retained),
                 !.outcome = IF verdict = "approved" /\ ~graph.limited /\ ~graph.closing THEN "succeeded" ELSE "partial"]
      BY <2>6, <2>7, <2>8
    <3> QED
      BY <1>5, <2>9, <3>1, <3>2 DEF Review
  <2>11. kept = draft /\ draft \in 0..MaxSteps
    BY <2>3, <2>4, <2>8 DEF Salvage
  <2>12. /\ kept \in reviewed' \cup {Composed} /\ reviewed \subseteq reviewed' /\ reviewed' \subseteq 1..MaxSteps
    BY <1>2, <2>3, <2>4, <2>10, Before DEF Composed
  <2>13. outcome \in {"succeeded", "partial"} /\ (outcome = "succeeded" => graph.action # "investigate")
    BY <1>1, <2>7, Before
  <2>14. /\ s \in States /\ s.round = graph.round /\ s.kept = kept /\ s.reviews = reviews
         /\ s.step = graph.step /\ s.closing = graph.closing /\ s.reason = graph.reason
         /\ \/ s.phase = "model" /\ s.draft = graph.draft /\ s.outcome = graph.outcome
            \/ s.phase = "revise" /\ s.draft = graph.draft /\ s.outcome = graph.outcome /\ s.action = graph.action /\ reviews < 2
            \/ s.phase = "done" /\ s.draft = draft /\ s.outcome = outcome /\ s.action = graph.action
    <3>1. CASE s = [judged EXCEPT !.phase = "model", !.repaired = TRUE, !.action = "investigate"]
      BY <2>6, <3>1 DEF States
    <3>2. CASE s = [judged EXCEPT !.phase = "revise"] /\ judged.reviews < 2
      BY <2>6, <3>2 DEF States
    <3>3. CASE s = [judged EXCEPT !.phase = "done", !.draft = draft, !.outcome = outcome]
      <4>1. outcome \in Outcomes
        BY <2>13 DEF Outcomes
      <4> QED
        BY <2>6, <2>11, <3>3, <4>1 DEF States
    <3> QED
      BY <2>9, <3>1, <3>2, <3>3
  <2>15. Left(s) < Left(graph)
    <3>1. s.round - graph.round = 0 /\ s.reviews \in graph.reviews..2 /\ s.reviews - graph.reviews \in Nat
          /\ (s.phase = "revise" => s.reviews - graph.reviews = 1)
      BY <1>2, <2>2, <2>14
    <3>2. Weight(s.phase) < Weight(graph.phase) + 2 * (s.round - graph.round) + 2 * (s.reviews - graph.reviews)
      BY <1>1, <1>3, <2>14, <3>1
    <3> QED
      BY <1>0, <2>14, <3>1, <3>2, Shorter
  <2>16. /\ graph.phase # "done" /\ s.draft <= s.step /\ s.kept <= s.step /\ s.phase # "review" /\ s.phase # "understand" /\ s.phase # "finalize"
         /\ (s.reason = "ready" => stopped' = "ready") /\ (s.phase = "done" => s.draft \in reviewed' \cup {Composed})
         /\ s.kept \in reviewed' \cup {Composed} /\ stopped' \in {"none", "ready", "limit"}
    BY <1>1, <2>4, <2>11, <2>12, <2>14, Before
  <2>17. /\ (s.phase = "revise" /\ ~s.closing => s.action # "investigate")
         /\ (s.outcome = "succeeded" => s.phase = "done" /\ s.action # "investigate")
    BY <1>1, <2>13, <2>14, Before
  <2> QED
    BY <2>10, <2>12, <2>14, <2>15, <2>16, <2>17, CheckpointTaken
<1> QED
  BY <1>4, <1>5

\* review_answer() keeps it: what ends here it has judged, and a success was ready.
LEMMA CloseoutStep ==
  ASSUME InvestigationInv, CloseoutReview
  PROVE  InvestigationInv'
<1>0. graph \in States
  BY Before
<1>1. graph.phase = "review" /\ stopped' = stopped
  BY DEF CloseoutReview, Answered
<1>2. /\ graph.step \in 1..MaxSteps /\ graph.step \in Nat /\ graph.round \in Nat /\ graph.reviews \in 0..2
      /\ graph.draft \in 0..MaxSteps /\ graph.draft \in Nat /\ MaxSteps \in Nat
  BY <1>0, StateFields, Steps
<1>3. Weight("review") = 2 /\ Weight("done") = 0
  BY DEF Weight
<1>4. PICK draft, outcome :
        /\ draft \in {Composed, graph.step, graph.draft} /\ outcome \in {"succeeded", "partial"}
        /\ (outcome = "succeeded" => Ready) /\ reviewed' = reviewed \cup ({draft} \ {Composed})
        /\ Checkpoint([graph EXCEPT !.phase = "done", !.draft = draft, !.outcome = outcome])
  BY DEF CloseoutReview
<1>5. draft \in 0..MaxSteps /\ draft <= graph.step /\ outcome \in Outcomes
  BY <1>2, <1>4, Before DEF Composed, Outcomes
<1>6. PICK s : s = [graph EXCEPT !.phase = "done", !.draft = draft, !.outcome = outcome]
  OBVIOUS
<1>7. /\ s \in States /\ s.round = graph.round /\ s.phase = "done" /\ s.draft = draft
      /\ s.step = graph.step /\ s.kept = graph.kept /\ s.reviews = graph.reviews /\ s.closing = graph.closing
      /\ s.reason = graph.reason /\ s.action = graph.action /\ s.outcome = outcome
  BY <1>0, <1>5, <1>6 DEF States
<1>8. s.reviews \in graph.reviews..2 /\ s.round - graph.round = 0 /\ s.reviews - graph.reviews = 0
  BY <1>2, <1>7
<1>9. Left(s) < Left(graph)
  BY <1>0, <1>1, <1>3, <1>7, <1>8, Shorter
<1>10. /\ reviewed \subseteq reviewed' /\ reviewed' \subseteq 1..MaxSteps /\ draft \in reviewed' \cup {Composed}
  BY <1>2, <1>4, <1>5, Before DEF Composed
<1>11. outcome = "succeeded" => stopped = "ready"
  BY <1>4, Before DEF Ready
<1> QED
  BY <1>1, <1>4, <1>5, <1>6, <1>7, <1>9, <1>10, <1>11, Before, CheckpointTaken

\* A limit keeps it: it costs no more than a closeout that has not begun.
LEMMA LimitStep ==
  ASSUME InvestigationInv, Limit
  PROVE  InvestigationInv'
<1>1. /\ graph \in States /\ graph.phase # "done" /\ ~graph.closing /\ graph.round \in Nat /\ graph.reviews \in 0..2
      /\ graph.draft \in Nat /\ graph.step \in Nat
  BY Before, StateFields, Steps DEF Limit, Working
<1>2. stopped' \in {stopped, First("limit")} /\ UNCHANGED <<saved, turns, observed, web, report, crashes, reviewed, unseen>> /\ fell' = {}
  BY DEF Limit, Refusals
<1>3. stopped' \in {"none", "ready", "limit"} /\ (stopped = "ready" => stopped' = "ready")
  BY <1>2, Before DEF First
<1>4. PICK reason : reason = IF stopped' = "none" \/ Exhausted THEN "limit" ELSE stopped'
  OBVIOUS
<1>5. reason \in {"none", "ready", "limit"} /\ (reason = "ready" => stopped' = "ready")
  BY <1>3, <1>4
<1>6. graph' = [graph EXCEPT !.phase = "finalize", !.closing = TRUE, !.reason = reason]
  BY <1>4 DEF Limit
<1>7. /\ graph' \in States /\ graph'.round = graph.round /\ graph'.phase = "finalize" /\ graph'.draft = graph.draft
      /\ graph'.step = graph.step /\ graph'.kept = graph.kept /\ graph'.reviews = graph.reviews /\ graph'.closing
      /\ graph'.reason = reason /\ graph'.outcome = graph.outcome
  BY <1>1, <1>5, <1>6 DEF States
<1>8. Left(graph') <= Left(graph)
  <2>1. Weight("finalize") = 3 /\ Weight(graph.phase) \in 1..3
    BY <1>1, StateFields DEF Weight
  <2>2. PICK w, r, v : w = Weight(graph.phase) /\ r = graph.round /\ v = graph.reviews
    OBVIOUS
  <2>3. Left(graph') = 2 * (MaxRounds - r) + 2 * (2 - v) + 0 + 3
    BY <1>7, <2>1, <2>2 DEF Left
  <2>4. Left(graph) = 2 * (MaxRounds - r) + 2 * (2 - v) + 2 + w
    BY <1>1, <2>2 DEF Left
  <2>5. r \in Nat /\ v \in 0..2 /\ w \in 1..3 /\ MaxRounds \in Nat
    BY <1>1, <2>1, <2>2, Steps
  <2> QED
    BY <2>3, <2>4, <2>5
<1>9. fell' \subseteq fell /\ Working /\ graph'.outcome # "succeeded" /\ graph'.draft <= graph.step
  BY <1>1, <1>2, <1>7, Before DEF Working
<1> QED
  BY <1>2, <1>3, <1>5, <1>7, <1>8, <1>9, WorkerMoves

\* Giving up keeps it: what is salvaged has been kept by a reviewer.
LEMMA GiveUpStep ==
  ASSUME InvestigationInv, GiveUp
  PROVE  InvestigationInv'
<1>1. /\ graph \in States /\ graph.phase # "done" /\ graph.round \in Nat /\ graph.reviews \in 0..2
      /\ graph.kept \in 0..MaxSteps /\ graph.step \in Nat /\ MaxSteps \in Nat /\ graph.closing \in BOOLEAN
  BY Before, StateFields, Steps DEF GiveUp, Working
<1>2. stopped' \in {stopped, First("limit")} /\ UNCHANGED <<saved, turns, observed, fell, web, report, crashes, reviewed, unseen>>
  BY DEF GiveUp, Refusals
<1>3. stopped' \in {"none", "ready", "limit"} /\ (stopped = "ready" => stopped' = "ready")
  BY <1>2, Before DEF First
<1>6. graph' = [graph EXCEPT !.phase = "done", !.outcome = "partial", !.draft = graph.kept]
  BY DEF GiveUp, Salvage
<1>7. /\ graph' \in States /\ graph'.round = graph.round /\ graph'.phase = "done" /\ graph'.draft = graph.kept
      /\ graph'.step = graph.step /\ graph'.kept = graph.kept /\ graph'.reviews = graph.reviews /\ graph'.closing = graph.closing
      /\ graph'.reason = graph.reason /\ graph'.outcome = "partial"
  BY <1>1, <1>6 DEF States, Outcomes
<1>8. Left(graph') <= Left(graph)
  <2>1. Weight("done") = 0 /\ Weight(graph.phase) \in 1..3
    BY <1>1, StateFields DEF Weight
  <2>2. PICK w, r, v, m : w = Weight(graph.phase) /\ r = graph.round /\ v = graph.reviews /\ m = IF graph.closing THEN 0 ELSE 2
    OBVIOUS
  <2>3. Left(graph') = 2 * (MaxRounds - r) + 2 * (2 - v) + m + 0
    BY <1>7, <2>1, <2>2 DEF Left
  <2>4. Left(graph) = 2 * (MaxRounds - r) + 2 * (2 - v) + m + w
    BY <1>1, <2>2 DEF Left
  <2>5. r \in Nat /\ v \in 0..2 /\ w \in 1..3 /\ MaxRounds \in Nat /\ m \in {0, 2}
    BY <1>1, <2>1, <2>2, Steps
  <2> QED
    BY <2>3, <2>4, <2>5
<1>9. fell' \subseteq fell /\ Working /\ graph'.outcome # "succeeded" /\ graph'.draft <= graph.step
      /\ graph'.draft \in reviewed \cup {Composed} /\ (graph'.reason = "ready" => stopped' = "ready")
  BY <1>1, <1>2, <1>3, <1>7, Before DEF Working
<1> QED
  BY <1>2, <1>3, <1>7, <1>8, <1>9, WorkerMoves

\* What a call for the model is answered with enters the journal of the step.
LEMMA AskStep ==
  ASSUME InvestigationInv, AskInvestigator
  PROVE  InvestigationInv'
<1>1. PICK suffix, said : suffix = Wanted.suffix /\ said \in Wanted.answers /\ turns' = Put(turns, suffix, said)
  BY DEF AskInvestigator
<1>2. DOMAIN turns' = DOMAIN turns \cup {suffix} /\ \A x \in DOMAIN turns' : turns'[x] = IF x = suffix THEN said ELSE turns[x]
  BY <1>1 DEF Put
<1>3. UNCHANGED <<graph, saved, observed, fell, stopped, web, report, crashes, reviewed, unseen>>
  BY DEF AskInvestigator
<1>4. Ahead'
  BY <1>1, <1>2, <1>3, WantedFacts DEF InvestigationInv, Ahead
<1>5. Asked'
  BY <1>1, <1>2, WantedFacts DEF InvestigationInv, Asked
<1>6. (Formed(graph) /\ Formed(saved) /\ Kept(graph) /\ Kept(saved) /\ Limits(graph) /\ Limits(saved))'
  BY <1>3 DEF InvestigationInv, Formed, Left, Kept, Limits
<1>7. (Closing /\ Journaled /\ Rest /\ Reported)'
  BY <1>3 DEF InvestigationInv, Closing, Journaled, Rest, Reported
<1> QED
  BY <1>4, <1>5, <1>6, <1>7 DEF InvestigationInv

\* An observation enters the journal of the run.
LEMMA ExecuteStep ==
  ASSUME InvestigationInv, Execute
  PROVE  InvestigationInv'
<1>1. PICK id, status : id = Pending /\ status \in {"ok", "poor"} /\ observed' = Put(observed, id, status)
  BY DEF Execute
<1>2. DOMAIN observed' = DOMAIN observed \cup {id} /\ \A x \in DOMAIN observed' : observed'[x] = IF x = id THEN status ELSE observed[x]
  BY <1>1 DEF Put
<1>3. UNCHANGED <<graph, saved, turns, stopped, web, report, crashes, reviewed>>
  BY DEF Execute
<1>4. id \in {"required", "gap", "calls"}
  BY <1>1 DEF Execute, Pending
<1>5. fell' = fell \cup ({id} \ {"calls"}) /\ unseen' = unseen \cup fell'
  BY <1>1 DEF Execute
<1>6. Journaled'
  BY <1>1, <1>2, <1>4, <1>5 DEF InvestigationInv, Journaled
<1>7. (Formed(graph) /\ Formed(saved) /\ Kept(graph) /\ Kept(saved) /\ Limits(graph) /\ Limits(saved))'
  BY <1>3 DEF InvestigationInv, Formed, Left, Kept, Limits
<1>8. (Ahead /\ Asked /\ Closing /\ Rest /\ Reported)'
  BY <1>3 DEF InvestigationInv, Ahead, Asked, Closing, Rest, Reported
<1> QED
  BY <1>6, <1>7, <1>8 DEF InvestigationInv

\* finish() keeps it: the report is of the graph that is done.
LEMMA PublishStep ==
  ASSUME InvestigationInv, Publish
  PROVE  InvestigationInv'
<1>1. UNCHANGED <<graph, saved, turns, observed, fell, stopped, web, crashes, reviewed, unseen>> /\ graph.phase = "done"
  BY DEF Publish
<1>2. PICK outcome : outcome \in {"partial", graph.outcome} /\ report' = [draft |-> graph.draft, outcome |-> outcome]
  BY DEF Publish
<1>3. graph.draft \in 0..MaxSteps /\ outcome \in Outcomes /\ graph.draft \in reviewed \cup {Composed}
  BY <1>1, <1>2, Before, StateFields DEF Outcomes
<1>4. Rest' /\ Reported'
  BY <1>1, <1>2, <1>3 DEF InvestigationInv, Rest, Reported
<1>7. (Formed(graph) /\ Formed(saved) /\ Kept(graph) /\ Kept(saved) /\ Limits(graph) /\ Limits(saved))'
  BY <1>1 DEF InvestigationInv, Formed, Left, Kept, Limits
<1>8. (Ahead /\ Asked /\ Closing /\ Journaled)'
  BY <1>1 DEF InvestigationInv, Ahead, Asked, Closing, Journaled
<1> QED
  BY <1>4, <1>7, <1>8 DEF InvestigationInv

\* A successor begins where the checkpoint is.
LEMMA CrashStep ==
  ASSUME InvestigationInv, CrashWorker
  PROVE  InvestigationInv'
<1>1. /\ graph' = saved /\ fell' = {} /\ web' \in {web, FALSE} /\ crashes' = crashes + 1 /\ crashes < MaxCrashes
      /\ report.outcome = "none" /\ UNCHANGED <<saved, turns, observed, stopped, report, reviewed, unseen>>
  BY DEF CrashWorker
<1>2. Rest' /\ Reported'
  <2>1. Rest
    BY DEF InvestigationInv
  <2>2. crashes' \in 0..MaxCrashes
    <3>1. crashes \in 0..MaxCrashes
      BY <2>1 DEF Rest
    <3> QED
      BY <1>1, <3>1, InvestigationAssumption
  <2>3. web' \in BOOLEAN
    BY <1>1, <2>1 DEF Rest
  <2>4. Rest'
    BY <1>1, <2>1, <2>2, <2>3 DEF Rest
  <2> QED
    BY <1>1, <2>4 DEF Reported
<1>3. (Formed(graph) /\ Formed(saved) /\ Kept(graph) /\ Kept(saved) /\ Limits(graph) /\ Limits(saved))'
  BY <1>1 DEF InvestigationInv, Formed, Left, Kept, Limits
<1>4. (Ahead /\ Asked /\ Closing /\ Journaled)'
  BY <1>1 DEF InvestigationInv, Ahead, Asked, Closing, Journaled
<1> QED
  BY <1>2, <1>3, <1>4 DEF InvestigationInv

\* The invariant holds of a run that begins.
LEMMA InvestigationStart == InvestigationInit => InvestigationInv
<1> SUFFICES ASSUME InvestigationInit PROVE InvestigationInv
  OBVIOUS
<1>1. graph = Fresh /\ saved = Fresh
  BY DEF InvestigationInit
<1>2. 1 \in 1..MaxSteps /\ 0 \in 0..MaxRounds /\ 0 \in 0..MaxSteps /\ MaxRounds \in Nat
  BY Steps
<1>3. /\ Fresh \in States /\ Fresh.phase = "understand" /\ Fresh.step = 1 /\ Fresh.round = 0 /\ Fresh.closing = FALSE
      /\ Fresh.draft = 0 /\ Fresh.kept = 0 /\ Fresh.reviews = 0 /\ Fresh.reason = "none" /\ Fresh.outcome = "none"
  BY <1>2 DEF Fresh, States, Composed, Outcomes
<1>4. Left(Fresh) = 2 * MaxRounds + 8
  <2>1. Weight("understand") = 2
    BY DEF Weight
  <2> QED
    BY <1>2, <1>3, <2>1 DEF Left
<1>5. Formed(graph) /\ Formed(saved)
  BY <1>1, <1>2, <1>3, <1>4, Steps DEF Formed
<1>6. Kept(graph) /\ Kept(saved) /\ Limits(graph) /\ Limits(saved) /\ Closing
  BY <1>1, <1>3 DEF Kept, Limits, Composed, Closing
<1>7. Ahead /\ Asked /\ Journaled
  BY <1>1 DEF InvestigationInit, Ahead, Asked, Journaled
<1>8. Rest /\ Reported
  BY <1>2, InvestigationAssumption DEF InvestigationInit, Rest, Reported, Outcomes, Composed
<1> QED
  BY <1>5, <1>6, <1>7, <1>8 DEF InvestigationInv

\* It holds throughout.
LEMMA InvestigationHolds == InvestigationSpec => []InvestigationInv
<1>1. InvestigationInv /\ [InvestigationNext]_investigationVars => InvestigationInv'
  <2> SUFFICES ASSUME InvestigationInv, [InvestigationNext]_investigationVars PROVE InvestigationInv'
    OBVIOUS
  <2>1. CASE UNCHANGED investigationVars
    <3>1. (Formed(graph) /\ Formed(saved) /\ Kept(graph) /\ Kept(saved) /\ Limits(graph) /\ Limits(saved))'
      BY <2>1 DEF investigationVars, InvestigationInv, Formed, Left, Kept, Limits
    <3>2. (Ahead /\ Asked /\ Closing /\ Journaled /\ Rest /\ Reported)'
      BY <2>1 DEF investigationVars, InvestigationInv, Ahead, Asked, Closing, Journaled, Rest, Reported
    <3> QED
      BY <3>1, <3>2 DEF InvestigationInv
  <2>2. CASE Worker
    BY <2>2, AskStep, ExecuteStep, UnderstandStep, ModelStep, CallToolsStep, ReviewStep, ReviseStep, SaveAnswerStep, FinalAnswerStep, CloseoutStep,
       LimitStep, GiveUpStep, PublishStep DEF Worker
  <2>3. CASE CrashWorker
    BY <2>3, CrashStep
  <2> QED
    BY <2>1, <2>2, <2>3 DEF InvestigationNext
<1> QED
  BY <1>1, InvestigationStart, PTL DEF InvestigationSpec

\* The state of an investigation keeps its types: in particular its graph takes at most
\* two steps for a round and nine more, however it is crashed and repeated (investigator.py).
THEOREM InvestigationTyped == InvestigationSpec => []InvestigationTypes
<1>1. InvestigationInv => InvestigationTypes
  BY DEF InvestigationInv, InvestigationTypes, Formed, Journaled, Rest
<1> QED
  BY <1>1, InvestigationHolds, PTL

\* Whichever limit, failure or crash ends an investigation, what is published is a text of
\* the server or one of which a reviewer has verified what is published (review(),
\* review_answer(), salvage() and finish()).
THEOREM ReviewedIsPublished == InvestigationSpec => []PublishedWasReviewed
<1>1. InvestigationInv => PublishedWasReviewed
  BY DEF InvestigationInv, PublishedWasReviewed, Reported
<1> QED
  BY <1>1, InvestigationHolds, PTL

\* A full success of an investigation was closed because its answer was ready: a limit that
\* was met before a crash still counts after it (request_closeout(), begin_answer()).
THEOREM LimitsRemembered == InvestigationSpec => []SuccessWithinLimits
<1>1. InvestigationInv => SuccessWithinLimits
  BY DEF InvestigationInv, SuccessWithinLimits, Reported, Limits
<1> QED
  BY <1>1, InvestigationHolds, PTL

-----------------------------------------------------------------------------
(* Quick answers: the invariant (QuickAnswer). *)

\* What a worker knows.
Plans == [search : BOOLEAN, urls : Seq(1..2), local : {"nothing", "business", "knowledge"}]
Executions ==
  [step : {"lost", "understand", "search", "pages", "local", "bind", "answer", "finish"}, plan : Plans, seen : 1..MaxSources,
   urls : Seq(1..2), page : 1..3, calling : BOOLEAN, limited : BOOLEAN, cut : BOOLEAN]

WorkerSound == /\ quick \in Executions /\ Len(quick.urls) <= 2
               /\ quick.step \in {"understand", "search"} => quick.page = 1 /\ quick.urls \in {<<>>, <<1>>}
RunSound ==
  /\ onWeb \in BOOLEAN /\ webOn \in BOOLEAN /\ (webOn => onWeb) /\ given \in {<<>>, <<1>>}
  /\ clock \in {"open", "reserve", "out"} /\ sources \in 1..MaxSources
  /\ \A v \in DOMAIN understood : v \in 1..MaxSources /\ understood[v] \in QuickIntents
  /\ attempt \in 0..MaxQuickAttempts /\ answer \in {"none", "succeeded", "partial", "failed"}
JournalSound == \A i \in DOMAIN journal : i \in {Name(step) : step \in ToolSteps} /\ journal[i] \in Observed
JobsSound == DOMAIN jobs \subseteq {Name(step) : step \in ToolSteps}

\* What is called for is due, and not answered yet.
CallSound == quick.calling => Due.of # "nothing" /\ Due \notin DOMAIN journal

\* What an unlimited execution has behind it.
Went(name) == name \in DOMAIN journal /\ journal[name].status # "failed"
PageName(p) == Name(IF p = 1 THEN "page:0" ELSE "page:1")
SearchWent == quick.step \in {"pages", "local", "bind", "answer", "finish"} /\ quick.plan.search =>
                Went(Name("search")) /\ journal[Name("search")].found # <<>>
PagesWent == quick.step \in {"pages", "local", "bind", "answer", "finish"} =>
               \A p \in DOMAIN quick.urls : (quick.step = "pages" => p < quick.page) => Went(PageName(p))
LocalWent == quick.step \in {"bind", "answer", "finish"} /\ quick.plan.local # "nothing" =>
               Name(quick.plan.local) \in DOMAIN journal /\ journal[Name(quick.plan.local)].status = "succeeded"
Grounded == quick.step \in {"answer", "finish"} /\ understood[quick.seen] # "direct" => Evidence
Whole == onWeb /\ ~quick.limited /\ ~quick.cut => SearchWent /\ PagesWent /\ LocalWent /\ Grounded

Over == /\ answer = "succeeded" => quick.step = "finish" /\ ~quick.limited /\ ~quick.cut
        /\ quick.cut => quick.step = "finish"

QuickInv == WorkerSound /\ RunSound /\ JournalSound /\ JobsSound /\ CallSound /\ Whole /\ Over

\* The bounds are numbers.
LEMMA QuickConstants == MaxQuickAttempts \in Nat /\ MaxSources \in Nat /\ 1 \in 1..MaxSources
  BY QuickAssumption

\* What is due, by the place the worker has come to.
LEMMA DueFacts ==
  /\ quick.step = "search" /\ quick.plan.search => Due = Name("search") /\ Due.of = "search"
  /\ quick.step = "search" /\ ~quick.plan.search => Due.of = "nothing"
  /\ quick.step = "pages" /\ quick.page <= Len(quick.urls) => Due = PageName(quick.page) /\ Due.of \in PageSteps
  /\ quick.step = "pages" /\ ~(quick.page <= Len(quick.urls)) => Due.of = "nothing"
  /\ quick.step = "local" /\ quick.plan.local # "nothing" => Due = Name(quick.plan.local) /\ Due.of = quick.plan.local
  /\ quick.step = "local" /\ quick.plan.local = "nothing" => Due.of = "nothing"
  /\ quick.step \notin {"search", "pages", "local"} => Due.of = "nothing"
  BY DEF Due, Name, PageName, PageSteps

\* It is one of the steps, of the two kinds of local lookup the planned one.
LEMMA DueNamed ==
  ASSUME QuickInv, Due.of # "nothing"
  PROVE  Due \in {Name(step) : step \in ToolSteps}
<1>1. quick.plan.local \in {"nothing"} \cup Lookups
  BY DEF QuickInv, WorkerSound, Executions, Plans, Lookups
<1>2. Due \in {Name("search"), Name("page:0"), Name("page:1"), Name("nothing"), Name(quick.plan.local)}
  BY DEF Due
<1>3. {"search", "page:0", "page:1"} \cup Lookups \subseteq ToolSteps
  BY DEF ToolSteps, PageSteps
<1>4. CASE quick.step = "local"
  BY <1>1, <1>3, <1>4, DueFacts
<1>5. CASE quick.step # "local"
  <2>1. Due \in {Name("search"), Name("page:0"), Name("page:1"), Name("nothing")}
    BY <1>5 DEF Due
  <2>2. Name("nothing").of = "nothing"
    BY DEF Name
  <2> QED
    BY <1>3, <2>1, <2>2
<1> QED
  BY <1>4, <1>5

\* Fields of an execution.
LEMMA Execution ==
  ASSUME NEW q \in Executions
  PROVE  /\ q.step \in {"lost", "understand", "search", "pages", "local", "bind", "answer", "finish"}
         /\ q.plan \in Plans /\ q.seen \in 1..MaxSources /\ q.urls \in Seq(1..2) /\ q.page \in 1..3 /\ q.calling \in BOOLEAN
         /\ q.limited \in BOOLEAN /\ q.cut \in BOOLEAN
  BY DEF Executions

\* At most two pages are read (list(dict.fromkeys(urls))[:2]).
LEMMA DistinctUrls ==
  ASSUME NEW urls \in Seq(1..2)
  PROVE  Distinct(urls) \in Seq(1..2) /\ Len(Distinct(urls)) <= 2
<1>1. CASE Len(urls) < 2
  BY <1>1 DEF Distinct
<1>2. CASE Len(urls) >= 2 /\ urls[1] # urls[2]
  <2>1. Distinct(urls) = SubSeq(urls, 1, 2)
    BY <1>2 DEF Distinct
  <2>2. SubSeq(urls, 1, 2) \in Seq(1..2) /\ Len(SubSeq(urls, 1, 2)) = 2
    BY <1>2, SubSeqProperties
  <2> QED
    BY <2>1, <2>2
<1>3. CASE Len(urls) >= 2 /\ urls[1] = urls[2]
  <2>1. Distinct(urls) = <<urls[1]>> /\ urls[1] \in 1..2
    BY <1>3, ElementOfSeq DEF Distinct
  <2> QED
    BY <2>1
<1> QED
  BY <1>1, <1>2, <1>3

\* What a search finds are urls.
LEMMA FoundType == \A o \in Observed : o.found \in Seq(1..2)
<1>1. <<>> \in Seq(1..2) /\ <<1>> \in Seq(1..2) /\ <<2, 1>> \in Seq(1..2)
  OBVIOUS
<1> QED
  BY <1>1 DEF Observed

\* What has been read stays read.
LEMMA JournalStays ==
  ASSUME DOMAIN journal \subseteq DOMAIN journal', \A i \in DOMAIN journal : journal'[i] = journal[i]
  PROVE  /\ \A name : Went(name) => Went(name)'
         /\ Evidence => Evidence'
  BY DEF Went, Evidence

\* The worker goes on with an observation, of this attempt or an earlier one.
LEMMA WorkerGoes ==
  ASSUME QuickInv, Due.of # "nothing", NEW o \in Observed, Take0(o), Due \in DOMAIN journal', journal'[Due] = o,
         DOMAIN journal' \subseteq DOMAIN journal \cup {Due}, DOMAIN journal \subseteq DOMAIN journal',
         \A i \in DOMAIN journal : journal'[i] = journal[i], Answering, UNCHANGED <<world, understood, jobs, attempt, answer>>
  PROVE  QuickInv'
<1>1. /\ quick \in Executions /\ Len(quick.urls) <= 2 /\ quick.step \in {"search", "pages", "local"}
      /\ quick.limited \in BOOLEAN /\ quick.urls \in Seq(1..2)
  BY DueFacts, Execution DEF QuickInv, WorkerSound
<1>2. PICK limited : limited = (quick.limited \/ Missing(o))
  OBVIOUS
<1>3. limited \in BOOLEAN /\ (~limited => ~quick.limited /\ ~Missing(o))
  BY <1>1, <1>2 DEF Missing
<1>4. PICK told : told = [quick EXCEPT !.limited = limited, !.calling = FALSE]
  OBVIOUS
<1>5. /\ told \in Executions /\ told.step = quick.step /\ told.plan = quick.plan /\ told.seen = quick.seen /\ told.urls = quick.urls
      /\ told.page = quick.page /\ ~told.calling /\ told.limited = limited /\ told.cut = quick.cut
  BY <1>1, <1>3, <1>4 DEF Executions
<1>6. JournalSound'
  BY DueNamed DEF QuickInv, JournalSound
<1>7. RunSound' /\ JobsSound'
  BY DEF QuickInv, RunSound, JobsSound, world
<1>8. quick' = CASE quick.step = "search" -> [told EXCEPT !.step = "pages", !.urls = Distinct(quick.urls \o o.found)]
                 [] quick.step = "pages"  -> [told EXCEPT !.page = quick.page + 1]
                 [] quick.step = "local"  -> [told EXCEPT !.step = "bind"]
  BY <1>2, <1>4, <1>5 DEF Take0
<1>9. answer' # "succeeded" /\ onWeb' = onWeb
  BY DEF Answering, world
<1>10. CASE quick.step = "search"
  <2>1. PICK urls : urls = Distinct(quick.urls \o o.found)
    OBVIOUS
  <2>2. urls \in Seq(1..2) /\ Len(urls) <= 2
    <3>1. quick.urls \o o.found \in Seq(1..2)
      BY <1>1, FoundType
    <3> QED
      BY <2>1, <3>1, DistinctUrls
  <2>3. quick' = [told EXCEPT !.step = "pages", !.urls = urls]
    BY <1>8, <1>10, <2>1
  <2>4. /\ quick' \in Executions /\ quick'.step = "pages" /\ quick'.plan = quick.plan /\ quick'.seen = quick.seen /\ quick'.urls = urls
        /\ quick'.page = quick.page /\ ~quick'.calling /\ quick'.limited = limited /\ quick'.cut = quick.cut
    BY <1>5, <2>2, <2>3 DEF Executions
  <2>5. quick.page = 1
    BY <1>10 DEF QuickInv, WorkerSound
  <2>6. WorkerSound' /\ CallSound' /\ Over'
    BY <1>9, <1>10, <2>2, <2>4 DEF QuickInv, WorkerSound, CallSound, Over
  <2>7. Whole'
    <3> SUFFICES ASSUME onWeb, ~limited, ~quick.cut PROVE (SearchWent /\ PagesWent /\ LocalWent /\ Grounded)'
      BY <1>9, <2>4 DEF Whole
    <3>1. o.status # "failed" /\ o.found # <<>>
      BY <1>3, <1>10 DEF Missing
    <3>2. SearchWent'
      BY <1>10, <2>4, <3>1, DueFacts DEF SearchWent, Went
    <3>3. PagesWent'
      <4>1. \A p \in DOMAIN urls : ~(p < 1)
        BY <2>2
      <4> QED
        BY <2>4, <2>5, <4>1 DEF PagesWent
    <3> QED
      BY <2>4, <3>2, <3>3 DEF LocalWent, Grounded
  <2> QED
    BY <1>6, <1>7, <2>6, <2>7 DEF QuickInv
<1>11. CASE quick.step = "pages"
  <2>1. quick.page <= Len(quick.urls) /\ quick.page \in 1..3 /\ Len(quick.urls) \in Nat
    BY <1>1, <1>11, DueFacts, Execution
  <2>2. PICK page : page = quick.page + 1
    OBVIOUS
  <2>3. page \in 1..3
    BY <1>1, <2>1, <2>2
  <2>4. quick' = [told EXCEPT !.page = page]
    BY <1>8, <1>11, <2>2
  <2>5. /\ quick' \in Executions /\ quick'.step = "pages" /\ quick'.plan = quick.plan /\ quick'.seen = quick.seen /\ quick'.urls = quick.urls
        /\ quick'.page = page /\ ~quick'.calling /\ quick'.limited = limited /\ quick'.cut = quick.cut
    BY <1>5, <1>11, <2>3, <2>4 DEF Executions
  <2>6. WorkerSound' /\ CallSound' /\ Over'
    BY <1>1, <1>9, <2>5 DEF QuickInv, WorkerSound, CallSound, Over
  <2>7. Whole'
    <3> SUFFICES ASSUME onWeb, ~limited, ~quick.cut PROVE (SearchWent /\ PagesWent /\ LocalWent /\ Grounded)'
      BY <1>9, <2>5 DEF Whole
    <3>1. SearchWent /\ PagesWent /\ o.status # "failed"
      BY <1>3 DEF QuickInv, Whole, Missing
    <3>2. SearchWent'
      BY <1>11, <2>5, <3>1, JournalStays DEF SearchWent, Went
    <3>3. PagesWent'
      <4> SUFFICES ASSUME NEW p \in DOMAIN quick.urls, p < page PROVE Went(PageName(p))'
        BY <2>5 DEF PagesWent
      <4>1. CASE p < quick.page
        BY <1>11, <3>1, <4>1, JournalStays DEF PagesWent
      <4>2. CASE p = quick.page
        BY <1>11, <2>1, <3>1, <4>2, DueFacts DEF Went
      <4>3. p \in Nat
        BY <1>1
      <4> QED
        BY <2>1, <2>2, <4>1, <4>2, <4>3
    <3> QED
      BY <2>5, <3>2, <3>3 DEF LocalWent, Grounded
  <2> QED
    BY <1>6, <1>7, <2>6, <2>7 DEF QuickInv
<1>12. CASE quick.step = "local"
  <2>4. quick' = [told EXCEPT !.step = "bind"]
    BY <1>8, <1>12
  <2>5. /\ quick' \in Executions /\ quick'.step = "bind" /\ quick'.plan = quick.plan /\ quick'.seen = quick.seen /\ quick'.urls = quick.urls
        /\ ~quick'.calling /\ quick'.limited = limited /\ quick'.cut = quick.cut
    BY <1>5, <2>4 DEF Executions
  <2>6. WorkerSound' /\ CallSound' /\ Over'
    BY <1>1, <1>9, <2>5 DEF QuickInv, WorkerSound, CallSound, Over
  <2>7. Whole'
    <3> SUFFICES ASSUME onWeb, ~limited, ~quick.cut PROVE (SearchWent /\ PagesWent /\ LocalWent /\ Grounded)'
      BY <1>9, <2>5 DEF Whole
    <3>1. SearchWent /\ PagesWent /\ o.status = "succeeded"
      BY <1>3, <1>12 DEF QuickInv, Whole, Missing
    <3>2. SearchWent'
      BY <1>12, <2>5, <3>1, JournalStays DEF SearchWent, Went
    <3>3. PagesWent'
      BY <1>12, <2>5, <3>1, JournalStays DEF PagesWent
    <3>4. LocalWent'
      BY <1>12, <2>5, <3>1, DueFacts DEF LocalWent
    <3> QED
      BY <2>5, <3>2, <3>3, <3>4 DEF Grounded
  <2> QED
    BY <1>6, <1>7, <2>6, <2>7 DEF QuickInv
<1> QED
  BY <1>1, <1>10, <1>11, <1>12

\* A worker that leaves the journal and the jobs as they are.
LEMMA ExecutionMoves ==
  ASSUME QuickInv, UNCHANGED <<world, understood, jobs, journal>>, WorkerSound', CallSound', Whole', Over',
         attempt' \in 0..MaxQuickAttempts, answer' \in {"none", "succeeded", "partial", "failed"}
  PROVE  QuickInv'
<1>1. RunSound' /\ JournalSound' /\ JobsSound'
  BY DEF QuickInv, RunSound, JournalSound, JobsSound, world
<1> QED
  BY <1>1 DEF QuickInv

\* An execution that begins, or is lost.
LEMMA Begins ==
  ASSUME QuickInv, UNCHANGED <<world, understood, jobs, journal>>, quick' \in {Begun0, [Begun0 EXCEPT !.step = "lost"]},
         attempt' \in 0..MaxQuickAttempts, answer' \in {"none", "partial", "failed"}
  PROVE  QuickInv'
<1>1. <<>> \in Seq(1..2) /\ Len(<<>>) = 0 /\ 1 \in 1..MaxSources
  BY QuickConstants
<1>2. Planless \in Plans
  BY <1>1 DEF Planless, Plans
<1>3. /\ quick' \in Executions /\ quick'.step \in {"understand", "lost"} /\ quick'.urls = <<>> /\ quick'.page = 1 /\ ~quick'.calling /\ ~quick'.cut
  <2>1. PICK plan, urls : plan = Planless /\ urls = <<>> /\ plan \in Plans /\ urls \in Seq(1..2)
    BY <1>1, <1>2
  <2>2. Begun0 = [step |-> "understand", plan |-> plan, seen |-> 1, urls |-> urls, page |-> 1,
                  calling |-> FALSE, limited |-> FALSE, cut |-> FALSE]
    BY <2>1 DEF Begun0
  <2>3. /\ Begun0 \in Executions /\ Begun0.step = "understand" /\ Begun0.urls = <<>> /\ Begun0.page = 1
        /\ Begun0.calling = FALSE /\ Begun0.cut = FALSE
    BY <1>1, <2>1, <2>2 DEF Executions
  <2>4. PICK begun : begun = Begun0
    OBVIOUS
  <2>5. quick' \in {begun, [begun EXCEPT !.step = "lost"]}
    BY <2>4
  <2> QED
    BY <2>3, <2>4, <2>5 DEF Executions
<1>4. WorkerSound' /\ CallSound' /\ Over'
  BY <1>1, <1>3 DEF WorkerSound, CallSound, Over
<1>5. Whole'
  BY <1>3 DEF Whole, SearchWent, PagesWent, LocalWent, Grounded
<1> QED
  BY <1>4, <1>5, ExecutionMoves

\* An attempt begins, or the run is given up.
LEMMA TakeStep == QuickInv /\ TakeQuick => QuickInv'
<1> SUFFICES ASSUME QuickInv, TakeQuick PROVE QuickInv'
  OBVIOUS
<1>1. answer = "none" /\ UNCHANGED <<world, understood, jobs, journal>> /\ attempt \in 0..MaxQuickAttempts
  BY DEF TakeQuick, QuickInv, RunSound
<1>2. CASE attempt < MaxQuickAttempts
  <2>1. quick' = Begun0 /\ attempt' = attempt + 1 /\ answer' = answer
    BY <1>2 DEF TakeQuick
  <2>2. attempt' \in 0..MaxQuickAttempts
    BY <1>1, <1>2, <2>1, QuickConstants
  <2> QED
    BY <1>1, <2>1, <2>2, Begins
<1>3. CASE ~(attempt < MaxQuickAttempts)
  <2>1. answer' = "failed" /\ attempt' = attempt /\ quick' = quick /\ quick.step = "lost"
    BY <1>3 DEF TakeQuick
  <2>2. (WorkerSound /\ CallSound /\ Whole /\ Over)'
    BY <1>1, <2>1 DEF QuickInv, world, WorkerSound, CallSound, Due, Name, Whole, SearchWent, PagesWent, LocalWent, Grounded, Over
  <2> QED
    BY <1>1, <2>1, <2>2, ExecutionMoves
<1> QED
  BY <1>2, <1>3

\* A worker is lost.
LEMMA LostStep == QuickInv /\ (CrashQuick \/ FailQuick) => QuickInv'
<1> SUFFICES ASSUME QuickInv, CrashQuick \/ FailQuick PROVE QuickInv'
  OBVIOUS
<1>1. /\ UNCHANGED <<world, understood, jobs, journal, attempt>> /\ quick' = [Begun0 EXCEPT !.step = "lost"]
      /\ answer' \in {"none", "failed"}
  BY DEF CrashQuick, FailQuick, Answering
<1>2. attempt' \in 0..MaxQuickAttempts
  BY <1>1 DEF QuickInv, RunSound
<1> QED
  BY <1>1, <1>2, Begins

\* A cut answer claims nothing.
LEMMA CutStep == QuickInv /\ CutShort => QuickInv'
<1> SUFFICES ASSUME QuickInv, CutShort PROVE QuickInv'
  OBVIOUS
<1>1. /\ UNCHANGED <<world, understood, jobs, journal, attempt, answer>>
      /\ quick' = [quick EXCEPT !.cut = TRUE, !.calling = FALSE, !.step = "finish"] /\ answer = "none"
  BY DEF CutShort, Answering
<1>2. quick \in Executions
  BY DEF QuickInv, WorkerSound
<1>3. quick' \in Executions /\ quick'.step = "finish" /\ quick'.cut /\ ~quick'.calling /\ quick'.urls = quick.urls
  BY <1>1, <1>2 DEF Executions
<1>4. (WorkerSound /\ CallSound /\ Whole /\ Over)'
  BY <1>1, <1>3 DEF QuickInv, WorkerSound, CallSound, Whole, Over
<1> QED
  BY <1>1, <1>4, ExecutionMoves DEF QuickInv, RunSound

\* web_plan() gives a plan.
LEMMA PlanType ==
  ASSUME QuickInv, NEW intent \in QuickIntents
  PROVE  Plan(intent) \in Plans /\ Plan(intent).urls \in {<<>>, <<1>>}
<1>1. given \in {<<>>, <<1>>} /\ onWeb \in BOOLEAN
  BY DEF QuickInv, RunSound
<1>2. <<>> \in Seq(1..2) /\ <<1>> \in Seq(1..2)
  OBVIOUS
<1>3. PICK search, urls, local :
        /\ search = (onWeb /\ intent = "public")
        /\ urls = IF onWeb /\ intent \in {"public", "url"} THEN given ELSE <<>>
        /\ local = CASE intent = "direct" -> "nothing"
                     [] intent = "business" -> "business"
                     [] intent = "url" /\ onWeb -> "nothing"
                     [] OTHER -> "knowledge"
  OBVIOUS
<1>4. search \in BOOLEAN /\ urls \in {<<>>, <<1>>} /\ local \in {"nothing", "business", "knowledge"}
  BY <1>1, <1>3
<1>5. Plan(intent) = [search |-> search, urls |-> urls, local |-> local]
  BY <1>3 DEF Plan
<1>6. urls \in Seq(1..2)
  BY <1>2, <1>4
<1>7. Plan(intent) \in Plans
  BY <1>4, <1>5, <1>6 DEF Plans
<1> QED
  BY <1>4, <1>5, <1>7

\* understand(): what is planned has been neither sought nor read yet.
LEMMA UnderstandQuickStep == QuickInv /\ UnderstandQuick => QuickInv'
<1> SUFFICES ASSUME QuickInv, UnderstandQuick PROVE QuickInv'
  OBVIOUS
<1>1. UNCHANGED <<world, jobs, journal, attempt, answer>> /\ quick.step = "understand" /\ answer = "none"
  BY DEF UnderstandQuick, Answering
<1>2. PICK intent \in (IF Remembered THEN {understood[sources]} ELSE IF given = <<>> THEN QuickIntents \ {"url"} ELSE QuickIntents) :
        /\ understood' = Put(understood, sources, intent)
        /\ quick' = [quick EXCEPT !.seen = sources, !.plan = Plan(intent), !.urls = Plan(intent).urls,
                                  !.step = IF onWeb THEN "search" ELSE "local"]
  BY DEF UnderstandQuick
<1>3. intent \in QuickIntents
  <2>1. CASE Remembered
    BY <1>2, <2>1 DEF Remembered, QuickInv, RunSound
  <2>2. CASE ~Remembered
    BY <1>2, <2>2
  <2> QED
    BY <2>1, <2>2
<1>4. PICK plan, urls, step : plan = Plan(intent) /\ urls = plan.urls /\ step = IF onWeb THEN "search" ELSE "local"
  OBVIOUS
<1>5. plan \in Plans /\ urls \in {<<>>, <<1>>} /\ step \in {"search", "local"} /\ (step = "local" => ~onWeb)
  BY <1>3, <1>4, PlanType
<1>6. quick \in Executions /\ sources \in 1..MaxSources /\ quick.page = 1 /\ urls \in Seq(1..2) /\ Len(urls) <= 2
  <2>1. <<>> \in Seq(1..2) /\ <<1>> \in Seq(1..2) /\ Len(<<>>) <= 2 /\ Len(<<1>>) <= 2
    OBVIOUS
  <2> QED
    BY <1>1, <1>5, <2>1 DEF QuickInv, WorkerSound, RunSound
<1>7. quick' = [quick EXCEPT !.seen = sources, !.plan = plan, !.urls = urls, !.step = step]
  BY <1>2, <1>4
<1>8. /\ quick' \in Executions /\ quick'.step = step /\ quick'.urls = urls /\ quick'.page = 1 /\ quick'.calling = quick.calling
      /\ quick'.cut = quick.cut
  BY <1>5, <1>6, <1>7 DEF Executions
<1>9. ~quick.calling
  BY <1>1, DueFacts DEF QuickInv, CallSound
<1>10. (WorkerSound /\ CallSound /\ Over)'
  BY <1>1, <1>5, <1>6, <1>8, <1>9 DEF QuickInv, WorkerSound, CallSound, Over
<1>11. Whole'
  BY <1>1, <1>5, <1>8 DEF world, Whole, SearchWent, PagesWent, LocalWent, Grounded
<1>12. RunSound'
  <2>1. \A v \in DOMAIN understood' : v \in 1..MaxSources /\ understood'[v] \in QuickIntents
    BY <1>2, <1>3, <1>6 DEF QuickInv, RunSound, Put
  <2> QED
    BY <1>1, <2>1 DEF QuickInv, RunSound, world
<1>13. JournalSound' /\ JobsSound'
  BY <1>1 DEF QuickInv, JournalSound, JobsSound
<1> QED
  BY <1>10, <1>11, <1>12, <1>13 DEF QuickInv

\* An observation of an earlier attempt stands for this one (execute()).
LEMMA ReplayStep == QuickInv /\ ReplayTool => QuickInv'
<1> SUFFICES ASSUME QuickInv, ReplayTool PROVE QuickInv'
  OBVIOUS
<1>1. PICK i \in DOMAIN journal : Calls(i) /\ Take0(journal[i])
  BY DEF ReplayTool
<1>2. i = Due /\ Due.of # "nothing" /\ Answering
  BY <1>1 DEF Calls
<1>3. journal[i] \in Observed /\ UNCHANGED <<world, understood, jobs, journal, attempt, answer>>
  BY DEF QuickInv, JournalSound, ReplayTool
<1> QED
  BY <1>1, <1>2, <1>3, WorkerGoes

\* A job has the name of its place.
LEMMA SubmitStep == QuickInv /\ SubmitTool => QuickInv'
<1> SUFFICES ASSUME QuickInv, SubmitTool PROVE QuickInv'
  OBVIOUS
<1>1. /\ quick' = [quick EXCEPT !.calling = TRUE] /\ UNCHANGED <<world, understood, journal, attempt, answer>>
      /\ answer = "none" /\ Due.of # "nothing" /\ Due \notin DOMAIN journal
      /\ jobs' \in {jobs, Put(jobs, Due, Argument)}
  BY DEF SubmitTool, Calls, Answering
<1>2. quick \in Executions
  BY DEF QuickInv, WorkerSound
<1>3. /\ quick' \in Executions /\ quick'.step = quick.step /\ quick'.plan = quick.plan /\ quick'.seen = quick.seen /\ quick'.urls = quick.urls
      /\ quick'.page = quick.page /\ quick'.limited = quick.limited /\ quick'.cut = quick.cut
  BY <1>1, <1>2 DEF Executions
<1>4. Due' = Due
  BY <1>3 DEF Due, Name
<1>5. (WorkerSound /\ CallSound /\ Over)'
  BY <1>1, <1>3, <1>4 DEF QuickInv, WorkerSound, CallSound, Over
<1>6. Whole'
  BY <1>1, <1>3 DEF QuickInv, Whole, SearchWent, PagesWent, LocalWent, Grounded, Went, Evidence, world
<1>7. JobsSound'
  BY <1>1, DueNamed DEF QuickInv, JobsSound, Put
<1>8. RunSound' /\ JournalSound'
  BY <1>1 DEF QuickInv, RunSound, JournalSound, world
<1> QED
  BY <1>5, <1>6, <1>7, <1>8 DEF QuickInv

\* What a tool may answer is an observation.
LEMMA ResultType == \A i, o : o \in Results(i) => o \in Observed
<1> SUFFICES ASSUME NEW i, NEW o \in Results(i) PROVE o \in Observed
  OBVIOUS
<1>1. Failed \in Observed
  BY DEF Failed, Observed
<1>2. CASE o # Failed
  <2>1. PICK found : found = CASE i.of = "search" -> {<<>>, <<1>>, <<2, 1>>}
                               [] i.of \in PageSteps -> {<<>>}
                               [] OTHER -> IF Argument = 0 THEN {<<>>, <<1>>} ELSE {<<1>>}
    OBVIOUS
  <2>2. PICK status : status = IF Argument = 0 THEN {"succeeded"} ELSE {"succeeded", "partial"}
    OBVIOUS
  <2>3. o \in [status : status, found : found]
    BY <1>2, <2>1, <2>2 DEF Results
  <2>4. found \subseteq {<<>>, <<1>>, <<2, 1>>} /\ status \subseteq {"succeeded", "partial"}
    BY <2>1, <2>2 DEF PageSteps
  <2> QED
    BY <2>3, <2>4 DEF Observed
<1> QED
  BY <1>1, <1>2

\* A tool answers, for the first time under its name.
LEMMA ObserveStep == QuickInv /\ ObserveTool => QuickInv'
<1> SUFFICES ASSUME QuickInv, ObserveTool PROVE QuickInv'
  OBVIOUS
<1>1. PICK o \in Results(Due) : journal' = Put(journal, Due, o) /\ Take0(o)
  BY DEF ObserveTool, Journal
<1>2. Answering /\ Due.of # "nothing" /\ Due \notin DOMAIN journal /\ UNCHANGED <<world, understood, jobs, attempt, answer>>
  BY DEF ObserveTool, QuickInv, CallSound
<1>3. o \in Observed
  BY <1>1, ResultType
<1>4. /\ Due \in DOMAIN journal' /\ journal'[Due] = o /\ DOMAIN journal' \subseteq DOMAIN journal \cup {Due}
      /\ DOMAIN journal \subseteq DOMAIN journal' /\ \A i \in DOMAIN journal : journal'[i] = journal[i]
  BY <1>1, <1>2 DEF Put
<1> QED
  BY <1>1, <1>2, <1>3, <1>4, WorkerGoes

\* The short pipeline claims nothing of the web.
LEMMA AloneStep == QuickInv /\ (ObserveAlone \/ BindAlone) => QuickInv'
<1> SUFFICES ASSUME QuickInv, ObserveAlone \/ BindAlone PROVE QuickInv'
  OBVIOUS
<1>1. /\ UNCHANGED <<world, understood, jobs, journal, attempt, answer>> /\ ~onWeb /\ answer = "none"
      /\ \/ \E limited \in BOOLEAN : quick' = [quick EXCEPT !.calling = FALSE, !.step = "bind", !.limited = limited]
         \/ quick' = [quick EXCEPT !.step = "answer"] /\ quick.step = "bind"
  BY DEF ObserveAlone, BindAlone, Answering
<1>2. quick \in Executions /\ (quick.step = "bind" => ~quick.calling)
  BY DueFacts DEF QuickInv, WorkerSound, CallSound
<1>5. ~quick.cut
  BY DueFacts DEF QuickInv, Over, CallSound, ObserveAlone, BindAlone
<1>3. /\ quick' \in Executions /\ quick'.urls = quick.urls /\ ~quick'.calling /\ quick'.step \in {"bind", "answer"} /\ quick'.cut = quick.cut
  BY <1>1, <1>2 DEF Executions
<1>4. (WorkerSound /\ CallSound /\ Whole /\ Over)'
  BY <1>1, <1>3, <1>5 DEF QuickInv, WorkerSound, CallSound, Whole, Over, world
<1> QED
  BY <1>1, <1>4, ExecutionMoves DEF QuickInv, RunSound

\* Nothing was due, or the web was turned off and the answer is limited.
LEMMA PassStep == QuickInv /\ PassOver => QuickInv'
<1> SUFFICES ASSUME QuickInv, PassOver PROVE QuickInv'
  OBVIOUS
<1>1. /\ UNCHANGED <<world, understood, jobs, journal, attempt, answer>> /\ answer = "none" /\ quick.step \in {"search", "pages", "local"}
  BY DEF PassOver, Answering
<1>2. quick \in Executions /\ Len(quick.urls) <= 2 /\ quick.urls \in Seq(1..2) /\ quick.page \in 1..3
  BY Execution DEF QuickInv, WorkerSound
<1>3. CASE quick' = [quick EXCEPT !.step = "local", !.limited = TRUE] /\ ~quick.calling
  <2>1. quick' \in Executions /\ quick'.step = "local" /\ quick'.limited /\ ~quick'.calling /\ quick'.urls = quick.urls /\ quick'.cut = quick.cut
    BY <1>2, <1>3 DEF Executions
  <2>2. (WorkerSound /\ CallSound /\ Whole /\ Over)'
    BY <1>1, <1>2, <2>1 DEF QuickInv, WorkerSound, CallSound, Whole, Over
  <2> QED
    BY <1>1, <2>2, ExecutionMoves DEF QuickInv, RunSound
<1>4. ASSUME Due.of = "nothing", NEW step \in {"pages", "local", "bind"}, quick' = [quick EXCEPT !.step = step],
             \/ step = "pages" /\ quick.step = "search"
             \/ step = "local" /\ quick.step = "pages"
             \/ step = "bind" /\ quick.step = "local"
      PROVE  QuickInv'
  <2>1. /\ quick' \in Executions /\ quick'.step = step /\ quick'.plan = quick.plan /\ quick'.seen = quick.seen /\ quick'.urls = quick.urls
        /\ quick'.page = quick.page /\ quick'.calling = quick.calling /\ quick'.limited = quick.limited /\ quick'.cut = quick.cut
    BY <1>2, <1>4 DEF Executions
  <2>2. ~quick.calling
    BY <1>4 DEF QuickInv, CallSound
  <2>3. (WorkerSound /\ CallSound /\ Over)'
    BY <1>1, <1>2, <1>4, <2>1, <2>2 DEF QuickInv, WorkerSound, CallSound, Over
  <2>4. Whole'
    <3> SUFFICES ASSUME onWeb, ~quick.limited, ~quick.cut PROVE (SearchWent /\ PagesWent /\ LocalWent /\ Grounded)'
      BY <1>1, <2>1 DEF Whole, world
    <3>1. SearchWent /\ PagesWent /\ LocalWent /\ Grounded
      BY DEF QuickInv, Whole
    <3>2. SearchWent'
      BY <1>1, <1>4, <2>1, <3>1, DueFacts DEF SearchWent, Went
    <3>3. PagesWent'
      <4> SUFFICES ASSUME NEW p \in DOMAIN quick.urls, step = "pages" => p < quick.page PROVE Went(PageName(p))
        BY <1>1, <2>1 DEF PagesWent, Went, PageName, Name
      <4>1. p \in Nat /\ 1 <= p /\ p <= Len(quick.urls) /\ Len(quick.urls) \in Nat
        BY <1>2
      <4>2. CASE step = "pages"
        BY <1>4, <4>1, <4>2 DEF QuickInv, WorkerSound
      <4>3. CASE step = "local"
        <5>1. quick.step = "pages" /\ ~(quick.page <= Len(quick.urls)) /\ quick.page \in Nat
          BY <1>2, <1>4, <4>3, DueFacts DEF PageSteps
        <5>2. p < quick.page
          BY <4>1, <5>1
        <5> QED
          BY <3>1, <5>1, <5>2 DEF PagesWent
      <4>4. CASE step = "bind"
        BY <1>4, <3>1, <4>4 DEF PagesWent
      <4> QED
        BY <4>2, <4>3, <4>4
    <3>4. LocalWent'
      BY <1>1, <1>4, <2>1, DueFacts DEF LocalWent
    <3>5. Grounded'
      BY <1>4, <2>1 DEF Grounded
    <3> QED
      BY <3>2, <3>3, <3>4, <3>5
  <2> QED
    BY <1>1, <2>3, <2>4, ExecutionMoves DEF QuickInv, RunSound
<1>5. PICK step : step = CASE quick.step = "search" -> "pages" [] quick.step = "pages" -> "local" [] quick.step = "local" -> "bind"
  OBVIOUS
<1>6. /\ step \in {"pages", "local", "bind"}
      /\ \/ step = "pages" /\ quick.step = "search"
         \/ step = "local" /\ quick.step = "pages"
         \/ step = "bind" /\ quick.step = "local"
  BY <1>1, <1>5
<1>7. \/ Due.of = "nothing" /\ quick' = [quick EXCEPT !.step = step]
      \/ ~quick.calling /\ quick' = [quick EXCEPT !.step = "local", !.limited = TRUE]
  BY <1>2, <1>5 DEF PassOver
<1> QED
  BY <1>3, <1>4, <1>6, <1>7

\* Gathering that ends early limits the answer.
LEMMA EndStep == QuickInv /\ EndGathering => QuickInv'
<1> SUFFICES ASSUME QuickInv, EndGathering PROVE QuickInv'
  OBVIOUS
<1>1. /\ UNCHANGED <<world, understood, jobs, journal, attempt, answer>> /\ answer = "none" /\ ~quick.calling
      /\ quick' = [quick EXCEPT !.limited = TRUE, !.step = "bind"]
  BY DEF EndGathering, Calls, Answering
<1>2. quick \in Executions
  BY DEF QuickInv, WorkerSound
<1>3. quick' \in Executions /\ quick'.step = "bind" /\ quick'.limited /\ ~quick'.calling /\ quick'.urls = quick.urls /\ quick'.cut = quick.cut
  BY <1>1, <1>2 DEF Executions
<1>5. ~quick.cut
  BY DueFacts DEF QuickInv, Over, EndGathering, Calls
<1>4. (WorkerSound /\ CallSound /\ Whole /\ Over)'
  BY <1>1, <1>3, <1>5 DEF QuickInv, WorkerSound, CallSound, Whole, Over
<1> QED
  BY <1>1, <1>4, ExecutionMoves DEF QuickInv, RunSound

\* bind_evidence(): an answer that is not limited has evidence.
LEMMA BindStep == QuickInv /\ BindEvidence => QuickInv'
<1> SUFFICES ASSUME QuickInv, BindEvidence PROVE QuickInv'
  OBVIOUS
<1>1. /\ UNCHANGED <<world, understood, jobs, journal, attempt, answer>> /\ answer = "none" /\ quick.step = "bind"
  BY DEF BindEvidence, Answering
<1>2. PICK limited : limited = (quick.limited \/ (understood[quick.seen] # "direct" /\ ~Evidence))
  OBVIOUS
<1>3. quick \in Executions /\ limited \in BOOLEAN
  BY <1>2 DEF QuickInv, WorkerSound
<1>4. quick' = [quick EXCEPT !.step = "answer", !.limited = limited]
  BY <1>2 DEF BindEvidence
<1>5. /\ quick' \in Executions /\ quick'.step = "answer" /\ quick'.plan = quick.plan /\ quick'.seen = quick.seen /\ quick'.urls = quick.urls
      /\ quick'.calling = quick.calling /\ quick'.limited = limited /\ quick'.cut = quick.cut
  BY <1>3, <1>4 DEF Executions
<1>6. (WorkerSound /\ CallSound /\ Over)'
  BY <1>1, <1>5, DueFacts DEF QuickInv, WorkerSound, CallSound, Over
<1>7. Whole'
  BY <1>1, <1>2, <1>5 DEF QuickInv, Whole, SearchWent, PagesWent, LocalWent, Grounded, Went, Evidence, world
<1> QED
  BY <1>1, <1>6, <1>7, ExecutionMoves DEF QuickInv, RunSound

\* The answer is written.
LEMMA StreamStep == QuickInv /\ Stream => QuickInv'
<1> SUFFICES ASSUME QuickInv, Stream PROVE QuickInv'
  OBVIOUS
<1>1. /\ UNCHANGED <<world, understood, jobs, journal, attempt, answer>> /\ answer = "none" /\ quick.step = "answer"
  BY DEF Stream, Answering
<1>2. PICK unknown \in BOOLEAN : quick' = [quick EXCEPT !.step = "finish", !.cut = unknown]
  BY DEF Stream
<1>3. quick \in Executions
  BY DEF QuickInv, WorkerSound
<1>4. /\ quick' \in Executions /\ quick'.step = "finish" /\ quick'.plan = quick.plan /\ quick'.seen = quick.seen /\ quick'.urls = quick.urls
      /\ quick'.calling = quick.calling /\ quick'.limited = quick.limited /\ quick'.cut = unknown
  BY <1>2, <1>3 DEF Executions
<1>6. (WorkerSound /\ CallSound /\ Over)'
  BY <1>1, <1>4, DueFacts DEF QuickInv, WorkerSound, CallSound, Over
<1>7. Whole'
  <2> SUFFICES ASSUME onWeb, ~quick.limited PROVE (SearchWent /\ PagesWent /\ LocalWent /\ Grounded)'
    BY <1>1, <1>4 DEF Whole, world
  <2>1. ~quick.cut
    BY <1>1 DEF QuickInv, Over
  <2> QED
    BY <1>1, <1>4, <2>1 DEF QuickInv, Whole, SearchWent, PagesWent, LocalWent, Grounded, Went, Evidence
<1> QED
  BY <1>1, <1>6, <1>7, ExecutionMoves DEF QuickInv, RunSound

\* finish(): a success is neither limited nor cut.
LEMMA FinishQuickStep == QuickInv /\ FinishQuick => QuickInv'
<1> SUFFICES ASSUME QuickInv, FinishQuick PROVE QuickInv'
  OBVIOUS
<1>1. /\ UNCHANGED <<world, quick, understood, jobs, journal, attempt>> /\ quick.step = "finish"
      /\ answer' = IF quick.cut \/ quick.limited THEN "partial" ELSE "succeeded"
  BY DEF FinishQuick, Verdict
<1>2. (WorkerSound /\ CallSound /\ Over)'
  BY <1>1 DEF QuickInv, WorkerSound, CallSound, Over, Due, Name
<1>3. Whole'
  BY <1>1 DEF QuickInv, world, Whole, SearchWent, PagesWent, LocalWent, Grounded, Went, Evidence
<1> QED
  BY <1>1, <1>2, <1>3, ExecutionMoves DEF QuickInv, RunSound

\* Time, documents and the switch of the web leave the execution alone.
LEMMA WorldStep == QuickInv /\ QuickWorld => QuickInv'
<1> SUFFICES ASSUME QuickInv, QuickWorld PROVE QuickInv'
  OBVIOUS
<1>1. UNCHANGED <<onWeb, given, quick, understood, jobs, journal, attempt, answer>>
  BY DEF QuickWorld
<1>2. /\ webOn' \in BOOLEAN /\ (webOn' => onWeb) /\ clock' \in {"open", "reserve", "out"} /\ sources' \in 1..MaxSources
  <2>1. /\ onWeb \in BOOLEAN /\ webOn \in BOOLEAN /\ (webOn => onWeb) /\ clock \in {"open", "reserve", "out"} /\ sources \in 1..MaxSources
    BY DEF QuickInv, RunSound
  <2>2. /\ webOn' \in BOOLEAN /\ (webOn' => onWeb) /\ clock' \in {"open", "reserve", "out"}
    <3>1. webOn' = FALSE \/ webOn' = webOn
      BY DEF QuickWorld
    <3>2. webOn' \in BOOLEAN /\ (webOn' => onWeb)
      <4>1. CASE webOn' = FALSE
        BY <4>1
      <4>2. CASE webOn' = webOn
        <5>1. webOn' \in BOOLEAN
          BY <2>1, <4>2
        <5>2. webOn' => onWeb
          BY <2>1, <4>2, Zenon
        <5> QED
          BY <5>1, <5>2
      <4> QED
        BY <3>1, <4>1, <4>2
    <3>3. clock' = clock \/ clock' = (IF clock = "open" THEN "reserve" ELSE "out")
      BY DEF QuickWorld
    <3>4. clock' \in {"open", "reserve", "out"}
      BY <2>1, <3>3
    <3> QED
      BY <3>2, <3>4
  <2>3. sources' = sources \/ (sources < MaxSources /\ sources' = sources + 1)
    BY DEF QuickWorld
  <2>4. sources' \in 1..MaxSources
    BY <2>1, <2>3, QuickConstants
  <2> QED
    BY <2>2, <2>4
<1>3. RunSound' /\ JournalSound' /\ JobsSound'
  BY <1>1, <1>2 DEF QuickInv, RunSound, JournalSound, JobsSound
<1>4. (WorkerSound /\ CallSound /\ Over)'
  BY <1>1 DEF QuickInv, WorkerSound, CallSound, Over, Due, Name
<1>5. Whole'
  BY <1>1 DEF QuickInv, Whole, SearchWent, PagesWent, LocalWent, Grounded, Went, Evidence
<1> QED
  BY <1>3, <1>4, <1>5 DEF QuickInv

\* The invariant holds of a run that has no worker yet.
LEMMA QuickStart == QuickInit => QuickInv
<1> SUFFICES ASSUME QuickInit PROVE QuickInv
  OBVIOUS
<1>1. PICK plan, urls : plan = Planless /\ urls = <<>> /\ plan \in Plans /\ urls \in Seq(1..2) /\ Len(urls) = 0
  <2>1. <<>> \in Seq(1..2) /\ Len(<<>>) = 0
    OBVIOUS
  <2>2. Planless \in Plans
    BY <2>1 DEF Planless, Plans
  <2> QED
    BY <2>1, <2>2
<1>2. Begun0 = [step |-> "understand", plan |-> plan, seen |-> 1, urls |-> urls, page |-> 1,
                calling |-> FALSE, limited |-> FALSE, cut |-> FALSE]
  BY <1>1 DEF Begun0
<1>3. Begun0 \in Executions /\ Begun0.urls = urls /\ Begun0.page = 1 /\ Begun0.calling = FALSE /\ Begun0.cut = FALSE
  BY <1>1, <1>2, QuickConstants DEF Executions
<1>4. PICK begun : begun = Begun0
  OBVIOUS
<1>5. quick = [begun EXCEPT !.step = "lost"]
  BY <1>4 DEF QuickInit
<1>6. quick \in Executions /\ quick.step = "lost" /\ quick.urls = urls /\ ~quick.calling /\ ~quick.cut
  BY <1>3, <1>4, <1>5 DEF Executions
<1>7. answer = "none"
  BY DEF QuickInit
<1>8. WorkerSound /\ CallSound /\ Over /\ Whole
  BY <1>1, <1>6, <1>7 DEF WorkerSound, CallSound, Over, Whole, SearchWent, PagesWent, LocalWent, Grounded
<1>9. RunSound /\ JournalSound /\ JobsSound
  BY QuickConstants DEF QuickInit, RunSound, JournalSound, JobsSound
<1> QED
  BY <1>8, <1>9 DEF QuickInv

\* It holds throughout.
LEMMA QuickHolds == QuickSpec => []QuickInv
<1>1. QuickInv /\ [QuickNext]_quickVars => QuickInv'
  <2> SUFFICES ASSUME QuickInv, [QuickNext]_quickVars PROVE QuickInv'
    OBVIOUS
  <2>1. CASE UNCHANGED quickVars
    <3>1. (WorkerSound /\ CallSound /\ Whole /\ Over)'
      BY <2>1 DEF quickVars, QuickInv, WorkerSound, CallSound, Due, Name, Whole, SearchWent, PagesWent, LocalWent, Grounded, Went,
                  Evidence, Over
    <3> QED
      BY <2>1, <3>1, ExecutionMoves DEF quickVars, world, QuickInv, RunSound
  <2>2. CASE QuickNext
    BY <2>2, TakeStep, LostStep, CutStep, UnderstandQuickStep, ReplayStep, SubmitStep, ObserveStep, AloneStep, PassStep, EndStep,
       BindStep, StreamStep, FinishQuickStep, WorldStep DEF QuickNext
  <2> QED
    BY <2>1, <2>2
<1> QED
  BY <1>1, QuickStart, PTL DEF QuickSpec

\* A step of the pipeline has one name.
LEMMA NamesAreNames == \A step \in ToolSteps : Name(step) \in Names /\ Name(step).of = step
<1>1. 0 \in 0..MaxQuickAttempts
  BY QuickConstants
<1> QED
  BY <1>1 DEF Name, Names

\* The state of a quick answer keeps its types.
THEOREM QuickTyped == QuickSpec => []QuickTypes
<1>1. QuickInv => QuickTypes
  <2> SUFFICES ASSUME QuickInv PROVE QuickTypes
    OBVIOUS
  <2>1. /\ quick.step \in {"lost", "understand", "search", "pages", "local", "bind", "answer", "finish"}
        /\ quick.seen \in 1..MaxSources /\ quick.page \in 1..3 /\ quick.calling \in BOOLEAN
    BY Execution DEF QuickInv, WorkerSound
  <2>2. DOMAIN jobs \subseteq Names /\ \A i \in DOMAIN journal : i \in Names /\ journal[i] \in Observed
    BY NamesAreNames DEF QuickInv, JobsSound, JournalSound
  <2> QED
    BY <2>1, <2>2 DEF QuickInv, RunSound, QuickTypes
<1> QED
  BY <1>1, QuickHolds, PTL

\* A web answer that is called a success had everything its plan asks for, whatever an
\* earlier attempt left behind and whenever the web was turned off (web(), gather(),
\* bind_evidence() and finish() of quick_web.py).
THEOREM WholeIsWhole == QuickSpec => []SuccessIsWhole
<1>1. QuickInv => SuccessIsWhole
  <2> SUFFICES ASSUME QuickInv, answer = "succeeded", onWeb
      PROVE  /\ quick.plan.search => journal[Name("search")].status # "failed" /\ journal[Name("search")].found # <<>>
             /\ \A p \in DOMAIN quick.urls : journal[Name(IF p = 1 THEN "page:0" ELSE "page:1")].status # "failed"
             /\ quick.plan.local # "nothing" => journal[Name(quick.plan.local)].status = "succeeded"
             /\ understood[quick.seen] # "direct" => Evidence
    BY DEF SuccessIsWhole
  <2>1. quick.step = "finish" /\ SearchWent /\ PagesWent /\ LocalWent /\ Grounded
    BY DEF QuickInv, Over, Whole
  <2> QED
    BY <2>1 DEF SearchWent, PagesWent, LocalWent, Grounded, Went, PageName
<1> QED
  BY <1>1, QuickHolds, PTL

\* All attempts of a run together ask for one search, two pages, one retrieval and one
\* business query at most, whatever each of them plans: a tool call has the name of its
\* step, not of the attempt (tool(), reserve_tool()).
THEOREM AskedOnceAlways == QuickSpec => []AskedOnce
<1>1. QuickInv => AskedOnce
  <2> SUFFICES ASSUME QuickInv, NEW kind \in ToolSteps
      PROVE  Cardinality({i \in DOMAIN jobs : i.of = kind}) <= 1
    BY DEF AskedOnce
  <2> DEFINE names == {i \in DOMAIN jobs : i.of = kind}
  <2>1. names \subseteq {Name(kind)}
    BY NamesAreNames DEF QuickInv, JobsSound
  <2>2. IsFiniteSet({Name(kind)}) /\ Cardinality({Name(kind)}) = 1
    BY FS_Singleton
  <2> QED
    BY <2>1, <2>2, FS_Subset
<1> QED
  BY <1>1, QuickHolds, PTL

-----------------------------------------------------------------------------
(* Shared requests: the invariant (ReadonlyReuse). *)

\* Callers that hold a claim and have not called the tool yet.
Executing(s) == {c \in Callers : caller[c].step = "execute" /\ caller[c].scope = s}

\* A caller that is under way was authorized for a scope, and reuses what somebody asked.
Scoped ==
  \A c \in Callers : caller[c].step # "idle" =>
    /\ caller[c].scope \in 1..MaxScopes
    /\ caller[c].step = "reuse" => requests[caller[c].scope].owner \in Callers

Charged ==
  \A s \in 1..MaxScopes :
    /\ IsFiniteSet(Executing(s))
    /\ asked[s] + Cardinality(Executing(s)) <= requests[s].attempts

ReuseInv == ReuseTypes /\ Scoped /\ Charged

-----------------------------------------------------------------------------
(* Shared requests: types. *)

\* They hold at the beginning.
LEMMA InitTypes == ReuseInit => ReuseTypes /\ Scoped
<1> USE ReuseAssumption DEF ReuseInit
<1>1. ASSUME ReuseInit PROVE ReuseTypes
  BY <1>1 DEF ReuseTypes, Unasked, Resting, Kinds
<1>2. ASSUME ReuseInit PROVE Scoped
  BY <1>2 DEF Scoped, Resting
<1> QED BY <1>1, <1>2

Row   == [owner : Callers \cup {Nobody}, lease : 0..MaxLeases, live : BOOLEAN, attempts : 0..2]
Place == [step : {"idle", "claim", "execute", "settle", "reuse", "alone"}, scope : 0..MaxScopes, lease : 0..MaxLeases]

\* A caller goes somewhere else, and nothing that Scoped is about is taken from it.
LEMMA CallerMoves ==
  ASSUME ReuseTypes, Scoped, NEW c \in Callers, NEW place \in Place, caller' = [caller EXCEPT ![c] = place],
         place.step # "idle" => place.scope \in 1..MaxScopes,
         \A s \in 1..MaxScopes : requests[s].owner \in Callers => requests'[s].owner \in Callers,
         place.step = "reuse" => requests'[place.scope].owner \in Callers
  PROVE  caller' \in [Callers -> Place] /\ Scoped'
<1> USE DEF ReuseTypes, Scoped
<1>1. caller \in [Callers -> Place]
  BY DEF Place
<1>2. caller' \in [Callers -> Place]
  BY <1>1
<1>3. \A d \in Callers : caller'[d] = IF d = c THEN place ELSE caller[d]
  BY <1>1
<1> QED BY <1>2, <1>3

\* Going on with the same request is one way to go.
LEMMA CallerGoes ==
  ASSUME ReuseTypes, NEW c \in Callers, NEW step \in {"claim", "execute", "settle", "reuse", "alone"}, Goes(c, step)
  PROVE  \E place \in Place : /\ caller' = [caller EXCEPT ![c] = place]
                              /\ place.step = step /\ place.scope = caller[c].scope
<1>1. caller[c] \in Place
  BY DEF ReuseTypes, Place
<1>2. [caller[c] EXCEPT !.step = step] \in Place
  BY <1>1 DEF Place
<1>3. WITNESS [caller[c] EXCEPT !.step = step] \in Place
<1> QED BY <1>1 DEF Goes, Place

\* A caller that is done is at rest.
LEMMA RestingPlace == Resting \in Place /\ Resting.step = "idle"
  BY ReuseAssumption DEF Resting, Place

\* Every step keeps the types, and the scopes of the callers.
LEMMA StepTypes ==
  ASSUME ReuseTypes, Scoped, [ReuseNext]_reuseVars
  PROVE  ReuseTypes' /\ Scoped'
<1> USE ReuseAssumption
<1>0. requests \in [1..MaxScopes -> Row] /\ caller \in [Callers -> Place] /\ results \in [Callers -> Kinds]
      /\ scope \in 1..MaxScopes /\ lease \in 1..MaxLeases /\ asked \in [1..MaxScopes -> Nat]
  BY DEF ReuseTypes, Row, Place
<1>00. ASSUME requests' \in [1..MaxScopes -> Row], caller' \in [Callers -> Place], results' \in [Callers -> Kinds],
              scope' \in 1..MaxScopes, lease' \in 1..MaxLeases, asked' \in [1..MaxScopes -> Nat]
       PROVE  ReuseTypes'
  BY <1>00 DEF ReuseTypes, Row, Place
<1>1. CASE ReadTime
  <2>1. caller' \in [Callers -> Place] /\ results' \in [Callers -> Kinds] /\ asked' \in [1..MaxScopes -> Nat] /\ UNCHANGED caller
    BY <1>0, <1>1 DEF ReadTime
  <2>2. scope' \in 1..MaxScopes /\ lease' \in 1..MaxLeases
    BY <1>0, <1>1 DEF ReadTime
  <2>3. requests' \in [1..MaxScopes -> Row] /\ \A s \in 1..MaxScopes : requests'[s].owner = requests[s].owner
    <3>1. CASE UNCHANGED requests
      BY <1>0, <3>1
    <3>2. ASSUME NEW s \in 1..MaxScopes, requests' = [requests EXCEPT ![s].live = FALSE]
          PROVE  requests' \in [1..MaxScopes -> Row] /\ \A t \in 1..MaxScopes : requests'[t].owner = requests[t].owner
      <4>1. [requests[s] EXCEPT !.live = FALSE] \in Row /\ [requests[s] EXCEPT !.live = FALSE].owner = requests[s].owner
        BY <1>0 DEF Row
      <4> QED BY <1>0, <3>2, <4>1
    <3> QED BY <1>1, <3>1, <3>2 DEF ReadTime
  <2>4. Scoped'
    BY <1>0, <2>1, <2>3 DEF Scoped
  <2> QED BY <1>00, <2>1, <2>2, <2>3, <2>4
<1>2. ASSUME NEW c \in Callers, BeginRead(c) PROVE ReuseTypes' /\ Scoped'
  <2>1. [step |-> "claim", scope |-> scope, lease |-> lease] \in Place
    BY <1>0 DEF Place
  <2>2. caller' \in [Callers -> Place] /\ Scoped'
    BY <1>2, <1>0, <2>1, CallerMoves DEF BeginRead
  <2> QED BY <1>0, <1>00, <1>2, <2>2 DEF BeginRead
<1>3. ASSUME NEW c \in Callers, ClaimRequest(c) PROVE ReuseTypes' /\ Scoped'
  <2> DEFINE s == caller[c].scope
             taken == [owner |-> c, lease |-> lease, live |-> TRUE, attempts |-> requests[s].attempts + 1]
  <2>0. s \in 1..MaxScopes /\ UNCHANGED <<scope, lease, asked>>
    BY <1>3 DEF ClaimRequest, Scoped
  <2>1. CASE Settled(requests[s]) /\ Goes(c, "reuse") /\ UNCHANGED <<requests, results>>
    <3>1. requests[s].owner \in Callers
      BY <1>0, <2>0, <2>1 DEF Settled, Row
    <3>2. caller' \in [Callers -> Place] /\ Scoped'
      BY <2>0, <2>1, <3>1, CallerMoves, CallerGoes
    <3> QED BY <1>0, <1>00, <2>0, <2>1, <3>2
  <2>2. CASE results' = [results EXCEPT ![c] = "refused"] /\ caller' = [caller EXCEPT ![c] = Resting] /\ UNCHANGED requests
    <3>1. caller' \in [Callers -> Place] /\ Scoped'
      BY <2>2, RestingPlace, CallerMoves
    <3> QED BY <1>0, <1>00, <2>0, <2>2, <3>1 DEF Kinds
  <2>3. CASE ~Spent(requests[s]) /\ requests' = [requests EXCEPT ![s] = taken] /\ Goes(c, "execute") /\ UNCHANGED results
    <3>0. requests[s].attempts + 1 \in 0..2
      <4>1. requests[s].attempts \in 0..2
        BY <1>0, <2>0 DEF Row
      <4>2. ~(requests[s].attempts >= 2)
        BY <2>3 DEF Spent
      <4> QED BY <4>1, <4>2
    <3>1. taken \in Row /\ taken.owner = c
      BY <1>0, <3>0 DEF Row
    <3> HIDE DEF taken
    <3>2. requests' \in [1..MaxScopes -> Row] /\ \A t \in 1..MaxScopes : requests'[t].owner \in {c, requests[t].owner}
      BY <1>0, <2>0, <2>3, <3>1
    <3>3. caller' \in [Callers -> Place] /\ Scoped'
      BY <2>0, <2>3, <3>2, CallerMoves, CallerGoes
    <3> QED BY <1>0, <1>00, <2>0, <2>3, <3>2, <3>3
  <2> QED BY <1>3, <2>1, <2>2, <2>3 DEF ClaimRequest
<1>4. ASSUME NEW c \in Callers, ExecuteRead(c) PROVE ReuseTypes' /\ Scoped'
  <2>0. caller[c].scope \in 1..MaxScopes /\ Goes(c, "settle") /\ UNCHANGED requests
    BY <1>4 DEF ExecuteRead, Scoped
  <2>1. caller' \in [Callers -> Place] /\ Scoped'
    <3>1. PICK place \in Place : caller' = [caller EXCEPT ![c] = place] /\ place.step = "settle" /\ place.scope = caller[c].scope
      BY <2>0, CallerGoes
    <3> QED BY <2>0, <3>1, CallerMoves
  <2>2. UNCHANGED <<requests, results, scope, lease>>
    BY <1>4 DEF ExecuteRead
  <2>3. asked' \in [1..MaxScopes -> Nat]
    <3>1. PICK s \in 1..MaxScopes : asked' = [asked EXCEPT ![s] = asked[s] + 1]
      BY <1>4, <2>0 DEF ExecuteRead
    <3> QED BY <1>0, <3>1
  <2> QED BY <1>0, <1>00, <2>1, <2>2, <2>3
<1>5. ASSUME NEW c \in Callers, SettleRead(c) PROVE ReuseTypes' /\ Scoped'
  <2>1. caller' \in [Callers -> Place] /\ Scoped'
    BY <1>5, CallerMoves, RestingPlace DEF SettleRead
  <2> QED BY <1>0, <1>00, <1>5, <2>1 DEF SettleRead, Kinds
<1>6. ASSUME NEW c \in Callers, Reuse(c) PROVE ReuseTypes' /\ Scoped'
  <2>1. UNCHANGED <<requests, scope, lease, asked>>
    BY <1>6 DEF Reuse
  <2>2. CASE Goes(c, "alone") /\ UNCHANGED results
    <3>1. caller' \in [Callers -> Place] /\ Scoped'
      BY <1>6, <2>1, <2>2, CallerMoves, CallerGoes DEF Reuse, Scoped
    <3> QED BY <1>0, <1>00, <2>1, <2>2, <3>1
  <2>3. CASE scope = caller[c].scope /\ caller' = [caller EXCEPT ![c] = Resting]
             /\ results' = [results EXCEPT ![c] = results[requests[scope].owner]]
    <3>1. results[requests[scope].owner] \in Kinds
      BY <1>0, <1>6, <2>3 DEF Reuse, Scoped
    <3>2. caller' \in [Callers -> Place] /\ Scoped'
      BY <1>0, <2>1, <2>3, CallerMoves, RestingPlace
    <3> QED BY <1>0, <1>00, <2>1, <2>3, <3>1, <3>2
  <2> QED BY <1>6, <2>2, <2>3 DEF Reuse
<1>7. ASSUME NEW c \in Callers, StopRead(c) PROVE ReuseTypes' /\ Scoped'
  <2>1. caller' \in [Callers -> Place] /\ Scoped'
    BY <1>7, CallerMoves, RestingPlace DEF StopRead
  <2> QED BY <1>0, <1>00, <1>7, <2>1 DEF StopRead
<1>8. CASE UNCHANGED reuseVars
  BY <1>8 DEF reuseVars, ReuseTypes, Scoped
<1> QED BY <1>1, <1>2, <1>3, <1>4, <1>5, <1>6, <1>7, <1>8 DEF ReuseNext

-----------------------------------------------------------------------------
(* Executions are charged to attempts. *)

\* Executing(s) is what it was when no caller begins or ends an execution of s.
LEMMA SameExecuting ==
  ASSUME Charged, \A s \in 1..MaxScopes : Executing(s)' = Executing(s) /\ asked'[s] = asked[s]
                                          /\ requests'[s].attempts = requests[s].attempts
  PROVE  Charged'
BY DEF Charged

\* An execution that comes to nothing is not charged back.
LEMMA FewerExecuting ==
  ASSUME ReuseTypes, Charged, NEW c \in Callers, UNCHANGED <<requests, asked>>,
         \A s \in 1..MaxScopes : Executing(s)' \in {Executing(s), Executing(s) \ {c}}
  PROVE  Charged'
<1> SUFFICES ASSUME NEW s \in 1..MaxScopes
             PROVE  IsFiniteSet(Executing(s)') /\ asked[s] + Cardinality(Executing(s)') <= requests[s].attempts
  BY DEF Charged
<1>1. IsFiniteSet(Executing(s)) /\ asked[s] + Cardinality(Executing(s)) <= requests[s].attempts
  BY DEF Charged
<1>2. IsFiniteSet(Executing(s) \ {c}) /\ Cardinality(Executing(s)) \in Nat
      /\ Cardinality(Executing(s) \ {c}) \in {Cardinality(Executing(s)), Cardinality(Executing(s)) - 1}
  <2> DEFINE E == Executing(s)
  <2>1. IsFiniteSet(E)
    BY <1>1
  <2> HIDE DEF E
  <2>2. IsFiniteSet(E \ {c}) /\ Cardinality(E \ {c}) = IF c \in E THEN Cardinality(E) - 1 ELSE Cardinality(E)
    BY <2>1, FS_RemoveElement
  <2>3. Cardinality(E) \in Nat
    BY <2>1, FS_CardinalityType
  <2>4. IsFiniteSet(E \ {c}) /\ Cardinality(E) \in Nat /\ Cardinality(E \ {c}) \in {Cardinality(E), Cardinality(E) - 1}
    BY <2>2, <2>3
  <2> QED BY <2>4 DEF E
<1>3. asked[s] \in Nat /\ requests[s].attempts \in Nat
  BY DEF ReuseTypes
<1>4. CASE Executing(s)' = Executing(s)
  BY <1>1, <1>4
<1>5. CASE Executing(s)' = Executing(s) \ {c}
  BY <1>1, <1>2, <1>3, <1>5
<1> QED BY <1>4, <1>5

\* Every step keeps the count of executions.
LEMMA StepCharged ==
  ASSUME ReuseTypes, Scoped, Charged, [ReuseNext]_reuseVars
  PROVE  Charged'
<1> USE ReuseAssumption
<1>0. requests \in [1..MaxScopes -> Row] /\ caller \in [Callers -> Place] /\ asked \in [1..MaxScopes -> Nat]
  BY DEF ReuseTypes, Row, Place
<1>1. CASE ReadTime
  <2>1. UNCHANGED <<caller, asked>> /\ \A s \in 1..MaxScopes : requests'[s].attempts = requests[s].attempts
    <3>1. ASSUME NEW t \in 1..MaxScopes, requests' = [requests EXCEPT ![t].live = FALSE], NEW s \in 1..MaxScopes
          PROVE  requests'[s].attempts = requests[s].attempts
      <4>1. [requests[t] EXCEPT !.live = FALSE].attempts = requests[t].attempts
        BY <1>0 DEF Row
      <4> QED BY <1>0, <3>1, <4>1
    <3> QED BY <1>1, <3>1 DEF ReadTime
  <2>2. \A s \in 1..MaxScopes : Executing(s)' = Executing(s)
    BY <2>1 DEF Executing
  <2> QED BY <2>1, <2>2, SameExecuting
<1>2. ASSUME NEW c \in Callers, BeginRead(c) PROVE Charged'
  <2>1. \A s \in 1..MaxScopes : Executing(s)' = Executing(s)
    BY <1>0, <1>2 DEF BeginRead, Executing
  <2> QED BY <1>2, <2>1, SameExecuting DEF BeginRead
<1>3. ASSUME NEW c \in Callers, ClaimRequest(c) PROVE Charged'
  <2>00. PICK s \in 1..MaxScopes : s = caller[c].scope
    BY <1>3 DEF ClaimRequest, Scoped
  <2> DEFINE taken == [owner |-> c, lease |-> lease, live |-> TRUE, attempts |-> requests[s].attempts + 1]
  <2>0. s = caller[c].scope /\ caller[c].step = "claim" /\ UNCHANGED asked
    BY <1>3, <2>00 DEF ClaimRequest
  <2>1. CASE Goes(c, "reuse") /\ UNCHANGED requests
    <3>1. \A t \in 1..MaxScopes : Executing(t)' = Executing(t)
      BY <1>0, <2>0, <2>1 DEF Goes, Executing
    <3> QED BY <2>0, <2>1, <3>1, SameExecuting
  <2>2. CASE caller' = [caller EXCEPT ![c] = Resting] /\ UNCHANGED requests
    <3>1. \A t \in 1..MaxScopes : Executing(t)' = Executing(t)
      BY <1>0, <2>0, <2>2 DEF Resting, Executing
    <3> QED BY <2>0, <2>2, <3>1, SameExecuting
  <2>3. CASE requests' = [requests EXCEPT ![s] = taken] /\ Goes(c, "execute")
    <3>1. Executing(s)' = Executing(s) \cup {c} /\ c \notin Executing(s)
      BY <1>0, <2>0, <2>3 DEF Goes, Executing
    <3>2. \A t \in (1..MaxScopes) \ {s} : Executing(t)' = Executing(t)
      BY <1>0, <2>0, <2>3 DEF Goes, Executing
    <3>3. requests'[s].attempts = requests[s].attempts + 1 /\ \A t \in (1..MaxScopes) \ {s} : requests'[t] = requests[t]
      BY <1>0, <2>0, <2>3
    <3>4. IsFiniteSet(Executing(s)) /\ asked[s] + Cardinality(Executing(s)) <= requests[s].attempts
      BY <2>0 DEF Charged
    <3>5. IsFiniteSet(Executing(s)') /\ Cardinality(Executing(s)') = Cardinality(Executing(s)) + 1
      BY <3>1, <3>4, FS_AddElement
    <3>6. asked[s] \in Nat /\ requests[s].attempts \in Nat /\ Cardinality(Executing(s)) \in Nat
      <4>1. asked[s] \in Nat /\ requests[s].attempts \in Nat
        <5>1. requests[s] \in Row /\ asked[s] \in Nat
          BY <1>0
        <5>2. requests[s].attempts \in 0..2
          BY <5>1 DEF Row
        <5> QED BY <5>1, <5>2
      <4>2. Cardinality(Executing(s)) \in Nat
        BY <3>4, FS_CardinalityType
      <4> QED BY <4>1, <4>2
    <3>7. IsFiniteSet(Executing(s)') /\ asked'[s] + Cardinality(Executing(s)') <= requests'[s].attempts
      BY <2>0, <3>3, <3>4, <3>5, <3>6
    <3>8. ASSUME NEW t \in (1..MaxScopes) \ {s}
          PROVE  IsFiniteSet(Executing(t)') /\ asked'[t] + Cardinality(Executing(t)') <= requests'[t].attempts
      BY <2>0, <3>2, <3>3 DEF Charged
    <3> QED BY <3>7, <3>8 DEF Charged
  <2> QED BY <1>3, <2>00, <2>1, <2>2, <2>3 DEF ClaimRequest
<1>4. ASSUME NEW c \in Callers, ExecuteRead(c) PROVE Charged'
  <2>00. PICK s \in 1..MaxScopes : s = caller[c].scope
    BY <1>4 DEF ExecuteRead, Scoped
  <2>0. s = caller[c].scope /\ caller[c].step = "execute" /\ UNCHANGED requests /\ Goes(c, "settle")
        /\ asked' = [asked EXCEPT ![s] = @ + 1]
    BY <1>4, <2>00 DEF ExecuteRead
  <2>1. Executing(s)' = Executing(s) \ {c} /\ c \in Executing(s)
    BY <1>0, <2>0 DEF Goes, Executing
  <2>2. \A t \in (1..MaxScopes) \ {s} : Executing(t)' = Executing(t)
    BY <1>0, <2>0 DEF Goes, Executing
  <2>3. asked'[s] = asked[s] + 1 /\ \A t \in (1..MaxScopes) \ {s} : asked'[t] = asked[t]
    BY <1>0, <2>0
  <2>4. IsFiniteSet(Executing(s)) /\ asked[s] + Cardinality(Executing(s)) <= requests[s].attempts
    BY <2>0 DEF Charged
  <2>5. IsFiniteSet(Executing(s)') /\ Cardinality(Executing(s)') = Cardinality(Executing(s)) - 1
    BY <2>1, <2>4, FS_RemoveElement
  <2>6. asked[s] \in Nat /\ requests[s].attempts \in Nat /\ Cardinality(Executing(s)) \in Nat
    <3>1. asked[s] \in Nat /\ requests[s].attempts \in Nat
      <4>1. requests[s] \in Row /\ asked[s] \in Nat
        BY <1>0
      <4>2. requests[s].attempts \in 0..2
        BY <4>1 DEF Row
      <4> QED BY <4>1, <4>2
    <3>2. Cardinality(Executing(s)) \in Nat
      BY <2>4, FS_CardinalityType
    <3> QED BY <3>1, <3>2
  <2>7. IsFiniteSet(Executing(s)') /\ asked'[s] + Cardinality(Executing(s)') <= requests'[s].attempts
    BY <2>0, <2>3, <2>4, <2>5, <2>6
  <2>8. ASSUME NEW t \in (1..MaxScopes) \ {s}
        PROVE  IsFiniteSet(Executing(t)') /\ asked'[t] + Cardinality(Executing(t)') <= requests'[t].attempts
    BY <2>0, <2>2, <2>3 DEF Charged
  <2> QED BY <2>7, <2>8 DEF Charged
<1>5. ASSUME NEW c \in Callers, SettleRead(c) PROVE Charged'
  <2>1. UNCHANGED <<requests, asked>> /\ \A s \in 1..MaxScopes : Executing(s)' = Executing(s)
    BY <1>0, <1>5 DEF SettleRead, Resting, Executing
  <2> QED BY <2>1, SameExecuting
<1>6. ASSUME NEW c \in Callers, Reuse(c) PROVE Charged'
  <2>1. UNCHANGED <<requests, asked>> /\ caller[c].step = "reuse"
    BY <1>6 DEF Reuse
  <2>2. CASE Goes(c, "alone")
    <3>1. \A s \in 1..MaxScopes : Executing(s)' = Executing(s)
      BY <1>0, <2>1, <2>2 DEF Goes, Executing
    <3> QED BY <2>1, <3>1, SameExecuting
  <2>3. CASE caller' = [caller EXCEPT ![c] = Resting]
    <3>1. \A s \in 1..MaxScopes : Executing(s)' = Executing(s)
      BY <1>0, <2>1, <2>3 DEF Resting, Executing
    <3> QED BY <2>1, <3>1, SameExecuting
  <2> QED BY <1>6, <2>2, <2>3 DEF Reuse
<1>7. ASSUME NEW c \in Callers, StopRead(c) PROVE Charged'
  <2>1. UNCHANGED <<requests, asked>> /\ \A s \in 1..MaxScopes : Executing(s)' \in {Executing(s), Executing(s) \ {c}}
    BY <1>0, <1>7 DEF StopRead, Resting, Executing
  <2> QED BY <2>1, FewerExecuting
<1>8. CASE UNCHANGED reuseVars
  <2>1. \A s \in 1..MaxScopes : Executing(s)' = Executing(s)
    BY <1>8 DEF Executing, reuseVars
  <2> QED BY <1>8, <2>1, SameExecuting DEF reuseVars
<1> QED BY <1>1, <1>2, <1>3, <1>4, <1>5, <1>6, <1>7, <1>8 DEF ReuseNext

-----------------------------------------------------------------------------
(* What follows. *)

\* It is right at the beginning.
LEMMA InitCharged == ReuseInit => Charged
<1> SUFFICES ASSUME ReuseInit, NEW s \in 1..MaxScopes
             PROVE  IsFiniteSet(Executing(s)) /\ asked[s] + Cardinality(Executing(s)) <= requests[s].attempts
  BY DEF Charged
<1>1. Executing(s) = {}
  BY DEF ReuseInit, Resting, Executing
<1>2. asked[s] = 0 /\ requests[s].attempts = 0
  BY DEF ReuseInit, Unasked
<1> QED BY <1>1, <1>2, FS_EmptySet

\* The invariant always holds.
LEMMA ReuseInvariant == ReuseSpec => []ReuseInv
<1>1. ReuseInit => ReuseInv
  BY InitTypes, InitCharged DEF ReuseInv
<1>2. ReuseInv /\ [ReuseNext]_reuseVars => ReuseInv'
  BY StepTypes, StepCharged DEF ReuseInv
<1> QED BY <1>1, <1>2, PTL DEF ReuseSpec

\* However many callers make the request, and however often its worker is replaced, it
\* is made twice at most for what its callers are authorized for (readonly_reuse.py:60-92).
THEOREM MadeTwiceAtMost == ReuseSpec => []AskedTwiceAtMost
<1>1. ReuseInv => AskedTwiceAtMost
  <2> SUFFICES ASSUME ReuseInv, NEW s \in 1..MaxScopes PROVE asked[s] <= 2
    BY DEF AskedTwiceAtMost
  <2>1. asked[s] \in Nat /\ requests[s].attempts \in 0..2
    BY DEF ReuseInv, ReuseTypes
  <2>2. Cardinality(Executing(s)) \in Nat /\ asked[s] + Cardinality(Executing(s)) <= requests[s].attempts
    BY FS_CardinalityType DEF ReuseInv, Charged
  <2> QED BY <2>1, <2>2
<1> QED BY <1>1, ReuseInvariant, PTL

\* A request that has a good answer keeps the owner whose observation it is in: nobody
\* makes it again, however late a caller is (readonly_reuse.py:60-92).
THEOREM AnswersStay == ReuseSpec => AnsweredOnce
<1> DEFINE Stays == \A s \in 1..MaxScopes :
             (requests[s].owner # Nobody /\ results[requests[s].owner] = "good") => requests'[s].owner = requests[s].owner
<1>1. ASSUME ReuseInv, [ReuseNext]_reuseVars PROVE Stays
  <2>0. requests \in [1..MaxScopes -> Row]
    BY <1>1 DEF ReuseInv, ReuseTypes, Row
  <2>1. CASE UNCHANGED requests
    BY <2>1
  <2>2. CASE ReadTime
    BY <2>0, <2>2 DEF ReadTime, Row
  <2>3. ASSUME NEW c \in Callers, ClaimRequest(c), requests' # requests PROVE Stays
    <3> DEFINE t == caller[c].scope
    <3>1. ~Settled(requests[t]) /\ \A s \in (1..MaxScopes) \ {t} : requests'[s] = requests[s]
      BY <2>0, <2>3 DEF ClaimRequest
    <3>2. ~(requests[t].owner # Nobody /\ results[requests[t].owner] = "good")
      BY <3>1 DEF Settled
    <3> QED BY <3>1, <3>2
  <2> QED BY <1>1, <2>1, <2>2, <2>3 DEF ReuseNext, reuseVars, BeginRead, ExecuteRead, SettleRead, Reuse, StopRead
<1> QED BY <1>1, ReuseInvariant, PTL DEF ReuseSpec, AnsweredOnce

-----------------------------------------------------------------------------
(* All ways of answering together (MCInvestigation). *)

\* A step of the sum is a step of one part, and leaves the others alone.
LEMMA SumParts == SumSpec => InvestigationSpec /\ SpecialistsSpec /\ ReuseSpec /\ QuickSpec
<1>1. SumInit => InvestigationInit /\ SpecialistsInit /\ ReuseInit /\ QuickInit
  BY DEF SumInit
<1>2. ASSUME [SumNext]_sumVars
      PROVE  /\ [InvestigationNext]_investigationVars /\ [SpecialistsNext]_specialistsVars
             /\ [ReuseNext]_reuseVars /\ [QuickNext]_quickVars
  <2>1. CASE UNCHANGED sumVars
    BY <2>1 DEF sumVars
  <2>2. CASE InvestigationNext /\ UNCHANGED <<specialistsVars, reuseVars, quickVars>>
    BY <2>2
  <2>3. CASE SpecialistsNext /\ UNCHANGED <<investigationVars, reuseVars, quickVars>>
    BY <2>3
  <2>4. CASE ReuseNext /\ UNCHANGED <<investigationVars, specialistsVars, quickVars>>
    BY <2>4
  <2>5. CASE QuickNext /\ UNCHANGED <<investigationVars, specialistsVars, reuseVars>>
    BY <2>5
  <2> QED
    BY <1>2, <2>1, <2>2, <2>3, <2>4, <2>5 DEF SumNext
<1> QED
  BY <1>1, <1>2, PTL DEF SumSpec, InvestigationSpec, SpecialistsSpec, ReuseSpec, QuickSpec

\* Whichever way a question is answered: what is published was reviewed in the form it has,
\* a success was closed because its answer was ready, a quick success read all it planned
\* to and asked for each once (closeout.py, investigator.py, quick_web.py).
THEOREM AnswersAreSound == SumSpec => []AnswersSound
<1>1. SpecialistsSpec => []SpecialistsTypes
  BY SpecialistsTyped
<1>2. ReuseSpec => []ReuseTypes
  <2>1. ReuseInv => ReuseTypes
    BY DEF ReuseInv
  <2> QED
    BY <2>1, ReuseInvariant, PTL
<1>3. ASSUME InvestigationTypes, SpecialistsTypes, ReuseTypes, QuickTypes,
             PublishedWasReviewed, SuccessWithinLimits, SuccessIsWhole, AskedOnce
      PROVE  AnswersSound
  BY <1>3 DEF AnswersSound, SumTypes
<1> QED
  BY <1>1, <1>2, <1>3, SumParts, InvestigationTyped, ReviewedIsPublished, LimitsRemembered, QuickTyped, WholeIsWhole, AskedOnceAlways, PTL
=============================================================================
