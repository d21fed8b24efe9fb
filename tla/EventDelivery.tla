---------------------------- MODULE EventDelivery ----------------------------
(***************************************************************************)
(* What the transport between two services promises, whatever Redis does.  *)
(* An event written to a producer's outbox is in transit until the         *)
(* consumer has either applied it or parked it in quarantine; a parked     *)
(* event can still be applied; an applied one is applied exactly once.     *)
(***************************************************************************)
EXTENDS Naturals

CONSTANT Events

VARIABLES
  progress,  \* how far the consuming service has got with each event
  effects    \* how often the event's handler has committed

vars == <<progress, effects>>

Init ==
  /\ progress = [e \in Events |-> "unpublished"]
  /\ effects  = [e \in Events |-> 0]

Publish(e) ==
  /\ progress[e] = "unpublished"
  /\ progress' = [progress EXCEPT ![e] = "transit"]
  /\ UNCHANGED effects

Apply(e) ==
  /\ progress[e] \in {"transit", "parked"}
  /\ progress' = [progress EXCEPT ![e] = "applied"]
  /\ effects' = [effects EXCEPT ![e] = @ + 1]

Park(e) ==
  /\ progress[e] = "transit"
  /\ progress' = [progress EXCEPT ![e] = "parked"]
  /\ UNCHANGED effects

Next == \E e \in Events : Publish(e) \/ Apply(e) \/ Park(e)

Spec == Init /\ [][Next]_vars

=============================================================================
