------------------------ MODULE RunCancellationProofs ------------------------
(***************************************************************************)
(* Proofs about the runs of the agent (RunLifecycle) and their cancelling  *)
(* across gateway, agent and business service (RunCancellation), for every *)
(* set of runs, workers, ticks and executors and every bound on attempts.  *)
(*                                                                         *)
(* The argument for the runs: two busy workers never hold the same fence   *)
(* of a run (Fenced), so the worker that acknowledges a cancellation is    *)
(* the only one that could still be executing it (Stopped); every          *)
(* announcement has a number above all earlier ones (Numbered), so the     *)
(* last one is the last word (Told).                                       *)
(*                                                                         *)
(* The composition keeps to the specifications of the runs and of the tool *)
(* jobs, so what is shown of those here and in ToolJobsProofs holds of it; *)
(* SystemInv adds what relates the three services.                         *)
(***************************************************************************)
EXTENDS RunCancellation, TLAPS

JobProofs == INSTANCE ToolJobsProofs WITH Jobs <- Runs

-----------------------------------------------------------------------------
(* The agent's runs (RunLifecycle): the inductive invariant. *)

\* Numbers on the events of a run: none twice, none above the run's sequence.
Numbered ==
  \A r \in Runs :
    /\ \A e \in events[r] : e[1] <= sequence[r]
    /\ \A e, f \in events[r] : e[1] = f[1] => e = f

\* The last status announced is the run's.
Told ==
  \A r \in Runs :
    status[r] # "absent" => LastWord(r, IF status[r] = "running" THEN "queued" ELSE status[r])

\* A busy worker holds a fence its run has issued, and no other worker holds the same.
Fenced ==
  /\ \A w \in Workers :
       IF pc[w] = "idle" THEN token[w] = 0 ELSE token[w] \in 1..attempt[task[w]]
  /\ \A v, w \in Workers :
       v # w /\ pc[v] # "idle" /\ pc[w] # "idle" /\ task[v] = task[w] => token[v] # token[w]

\* Nobody who holds the run's current fence is still executing it.
Quiet(r) ==
  \A w \in Workers : pc[w] \in {"working", "raised"} /\ task[w] = r => token[w] # attempt[r]

\* What has been acknowledged has stopped, and only that is called cancelled.
Stopped ==
  /\ \A r \in Runs :
       /\ status[r] \in {"absent", "queued"} => attempt[r] = 0
       /\ status[r] = "waiting_input" => Quiet(r)
       /\ acknowledged[r] => Quiet(r) /\ status[r] \in Ended \cup {"cancelling"}
       /\ status[r] = "cancelled" => acknowledged[r]
  /\ \A t \in Ticks : verdict[t] = "cancelled" => acknowledged[subject[t]]

LifecycleInv == TypeOK /\ Numbered /\ Told /\ Fenced /\ Stopped

-----------------------------------------------------------------------------
(* The agent's runs: types. *)

\* Every step keeps the types of the runs' rows.
LEMMA RowTypeStep ==
  ASSUME TypeOK, [Next]_vars
  PROVE  RowTypes'
<1> USE BoundsAssumption DEF TypeOK, RowTypes, ProcessTypes, Statuses, Ended, Outcomes, vars, rowVars, workerVars, tickVars
<1>1. ASSUME NEW r \in Runs, Accept(r) PROVE RowTypes'
  BY <1>1 DEF Accept, Announce
<1>2. ASSUME NEW r \in Runs, Expire(r) PROVE RowTypes'
  BY <1>2 DEF Expire, Announce
<1>3. ASSUME SetDrain PROVE RowTypes'
  BY <1>3 DEF SetDrain
<1>4. ASSUME NEW r \in Runs, LeaseExpires(r) PROVE RowTypes'
  BY <1>4 DEF LeaseExpires
<1>5. ASSUME NEW w \in Workers, NEW r \in Runs, Claim(w, r) PROVE RowTypes'
  BY <1>5 DEF Claim
<1>6. ASSUME NEW w \in Workers, Update(w) PROVE RowTypes'
  BY <1>6 DEF Update, Current
<1>7. ASSUME NEW w \in Workers, Finish(w) PROVE RowTypes'
  BY <1>7 DEF Finish, Current, Announce, EndWork, Outcomes
<1>8. ASSUME NEW w \in Workers, Raise(w) PROVE RowTypes'
  BY <1>8 DEF Raise
<1>9. ASSUME NEW w \in Workers, Acknowledge(w) PROVE RowTypes'
  BY <1>9 DEF Acknowledge
<1>10. ASSUME NEW w \in Workers, Failed(w) PROVE RowTypes'
  BY <1>10 DEF Failed, Current, Announce, EndWork
<1>11. ASSUME NEW w \in Workers, WorkerDies(w) PROVE RowTypes'
  BY <1>11 DEF WorkerDies, EndWork
<1>12. ASSUME NEW r \in Runs, RequestCancel(r) PROVE RowTypes'
  BY <1>12 DEF RequestCancel, Announce
<1>13. ASSUME NEW r \in Runs, PatienceEnds(r) PROVE RowTypes'
  BY <1>13 DEF PatienceEnds
<1>14. ASSUME NEW t \in Ticks, NEW r \in Runs, NEW toolsStopped \in BOOLEAN, Examine(t, r, toolsStopped) PROVE RowTypes'
  BY <1>14 DEF Examine
<1>15. ASSUME NEW t \in Ticks, Conclude(t) PROVE RowTypes'
  BY <1>15 DEF Conclude, Announce
<1>16. ASSUME NEW t \in Ticks, TickDies(t) PROVE RowTypes'
  BY <1>16 DEF TickDies
<1>17. CASE UNCHANGED vars
  BY <1>17
<1> QED
  BY <1>1, <1>2, <1>3, <1>4, <1>5, <1>6, <1>7, <1>8, <1>9, <1>10, <1>11, <1>12, <1>13, <1>14, <1>15, <1>16, <1>17 DEF Next

\* Every step keeps the types of the workers and the ticks.
LEMMA ProcessTypeStep ==
  ASSUME TypeOK, [Next]_vars
  PROVE  ProcessTypes'
<1> USE BoundsAssumption DEF TypeOK, RowTypes, ProcessTypes, Statuses, Ended, Outcomes, vars, rowVars, workerVars, tickVars
<1>1. ASSUME NEW r \in Runs, Accept(r) PROVE ProcessTypes'
  BY <1>1 DEF Accept, Announce
<1>2. ASSUME NEW r \in Runs, Expire(r) PROVE ProcessTypes'
  BY <1>2 DEF Expire, Announce
<1>3. ASSUME SetDrain PROVE ProcessTypes'
  BY <1>3 DEF SetDrain
<1>4. ASSUME NEW r \in Runs, LeaseExpires(r) PROVE ProcessTypes'
  BY <1>4 DEF LeaseExpires
<1>5. ASSUME NEW w \in Workers, NEW r \in Runs, Claim(w, r) PROVE ProcessTypes'
  BY <1>5 DEF Claim
<1>6. ASSUME NEW w \in Workers, Update(w) PROVE ProcessTypes'
  BY <1>6 DEF Update, Current
<1>7. ASSUME NEW w \in Workers, Finish(w) PROVE ProcessTypes'
  BY <1>7 DEF Finish, Current, Announce, EndWork, Outcomes
<1>8. ASSUME NEW w \in Workers, Raise(w) PROVE ProcessTypes'
  BY <1>8 DEF Raise
<1>9. ASSUME NEW w \in Workers, Acknowledge(w) PROVE ProcessTypes'
  BY <1>9 DEF Acknowledge
<1>10. ASSUME NEW w \in Workers, Failed(w) PROVE ProcessTypes'
  BY <1>10 DEF Failed, Current, Announce, EndWork
<1>11. ASSUME NEW w \in Workers, WorkerDies(w) PROVE ProcessTypes'
  BY <1>11 DEF WorkerDies, EndWork
<1>12. ASSUME NEW r \in Runs, RequestCancel(r) PROVE ProcessTypes'
  BY <1>12 DEF RequestCancel, Announce
<1>13. ASSUME NEW r \in Runs, PatienceEnds(r) PROVE ProcessTypes'
  BY <1>13 DEF PatienceEnds
<1>14. ASSUME NEW t \in Ticks, NEW r \in Runs, NEW toolsStopped \in BOOLEAN, Examine(t, r, toolsStopped) PROVE ProcessTypes'
  BY <1>14 DEF Examine
<1>15. ASSUME NEW t \in Ticks, Conclude(t) PROVE ProcessTypes'
  BY <1>15 DEF Conclude, Announce
<1>16. ASSUME NEW t \in Ticks, TickDies(t) PROVE ProcessTypes'
  BY <1>16 DEF TickDies
<1>17. CASE UNCHANGED vars
  BY <1>17
<1> QED
  BY <1>1, <1>2, <1>3, <1>4, <1>5, <1>6, <1>7, <1>8, <1>9, <1>10, <1>11, <1>12, <1>13, <1>14, <1>15, <1>16, <1>17 DEF Next

\* The fences of two busy workers of a run differ, because a claim draws a new one.
LEMMA FencedStep ==
  ASSUME TypeOK, Fenced, [Next]_vars
  PROVE  Fenced'
<1> USE BoundsAssumption DEF TypeOK, RowTypes, ProcessTypes, Statuses, Ended, Outcomes, Fenced, vars, rowVars, workerVars, tickVars
<1>1. ASSUME NEW r \in Runs, Accept(r) PROVE Fenced'
  BY <1>1 DEF Accept, Announce
<1>2. ASSUME NEW r \in Runs, Expire(r) PROVE Fenced'
  BY <1>2 DEF Expire, Announce
<1>3. ASSUME SetDrain PROVE Fenced'
  BY <1>3 DEF SetDrain
<1>4. ASSUME NEW r \in Runs, LeaseExpires(r) PROVE Fenced'
  BY <1>4 DEF LeaseExpires
<1>5. ASSUME NEW w \in Workers, NEW r \in Runs, Claim(w, r) PROVE Fenced'
  BY <1>5 DEF Claim
<1>6. ASSUME NEW w \in Workers, Update(w) PROVE Fenced'
  BY <1>6 DEF Update, Current
<1>7. ASSUME NEW w \in Workers, Finish(w) PROVE Fenced'
  BY <1>7 DEF Finish, Current, Announce, EndWork, Outcomes
<1>8. ASSUME NEW w \in Workers, Raise(w) PROVE Fenced'
  BY <1>8 DEF Raise
<1>9. ASSUME NEW w \in Workers, Acknowledge(w) PROVE Fenced'
  BY <1>9 DEF Acknowledge
<1>10. ASSUME NEW w \in Workers, Failed(w) PROVE Fenced'
  BY <1>10 DEF Failed, Current, Announce, EndWork
<1>11. ASSUME NEW w \in Workers, WorkerDies(w) PROVE Fenced'
  BY <1>11 DEF WorkerDies, EndWork
<1>12. ASSUME NEW r \in Runs, RequestCancel(r) PROVE Fenced'
  BY <1>12 DEF RequestCancel, Announce
<1>13. ASSUME NEW r \in Runs, PatienceEnds(r) PROVE Fenced'
  BY <1>13 DEF PatienceEnds
<1>14. ASSUME NEW t \in Ticks, NEW r \in Runs, NEW toolsStopped \in BOOLEAN, Examine(t, r, toolsStopped) PROVE Fenced'
  BY <1>14 DEF Examine
<1>15. ASSUME NEW t \in Ticks, Conclude(t) PROVE Fenced'
  BY <1>15 DEF Conclude, Announce
<1>16. ASSUME NEW t \in Ticks, TickDies(t) PROVE Fenced'
  BY <1>16 DEF TickDies
<1>17. CASE UNCHANGED vars
  BY <1>17
<1> QED
  BY <1>1, <1>2, <1>3, <1>4, <1>5, <1>6, <1>7, <1>8, <1>9, <1>10, <1>11, <1>12, <1>13, <1>14, <1>15, <1>16, <1>17 DEF Next

\* A step leaves a run's events alone, or adds one under the next number and keeps
\* its status, or adds one that announces its new status.
GrowsTo(r, s) ==
  /\ sequence'[r] = sequence[r] + 1
  /\ events'[r] = events[r] \cup {<<sequence[r] + 1, s>>}

\* How the row of a run changes.
RowStep(r) ==
  \/ UNCHANGED <<sequence[r], events[r]>> /\ status'[r] = status[r]
  \/ UNCHANGED <<sequence[r], events[r]>> /\ status[r] \in {"queued", "running"} /\ status'[r] = "running"
  \/ GrowsTo(r, "progress") /\ status'[r] = status[r]
  \/ \E s \in Statuses \ {"absent", "running"} : GrowsTo(r, s) /\ status'[r] = s

\* Every step of the system changes a run's row in one of these ways.
LEMMA RowSteps ==
  ASSUME TypeOK, [Next]_vars, NEW q \in Runs
  PROVE  RowStep(q)
<1> USE BoundsAssumption DEF TypeOK, RowTypes, ProcessTypes, Statuses, Ended, Outcomes, RowStep, GrowsTo, vars, rowVars, workerVars, tickVars
<1>1. ASSUME NEW r \in Runs, Accept(r) PROVE RowStep(q)
  BY <1>1 DEF Accept, Announce
<1>2. ASSUME NEW r \in Runs, Expire(r) PROVE RowStep(q)
  BY <1>2 DEF Expire, Announce
<1>3. ASSUME SetDrain PROVE RowStep(q)
  BY <1>3 DEF SetDrain
<1>4. ASSUME NEW r \in Runs, LeaseExpires(r) PROVE RowStep(q)
  BY <1>4 DEF LeaseExpires
<1>5. ASSUME NEW w \in Workers, NEW r \in Runs, Claim(w, r) PROVE RowStep(q)
  BY <1>5 DEF Claim
<1>6. ASSUME NEW w \in Workers, Update(w) PROVE RowStep(q)
  BY <1>6 DEF Update, Current
<1>7. ASSUME NEW w \in Workers, Finish(w) PROVE RowStep(q)
  BY <1>7 DEF Finish, Current, Announce, EndWork, Outcomes
<1>8. ASSUME NEW w \in Workers, Raise(w) PROVE RowStep(q)
  BY <1>8 DEF Raise
<1>9. ASSUME NEW w \in Workers, Acknowledge(w) PROVE RowStep(q)
  BY <1>9 DEF Acknowledge
<1>10. ASSUME NEW w \in Workers, Failed(w) PROVE RowStep(q)
  BY <1>10 DEF Failed, Current, Announce, EndWork
<1>11. ASSUME NEW w \in Workers, WorkerDies(w) PROVE RowStep(q)
  BY <1>11 DEF WorkerDies, EndWork
<1>12. ASSUME NEW r \in Runs, RequestCancel(r) PROVE RowStep(q)
  BY <1>12 DEF RequestCancel, Announce
<1>13. ASSUME NEW r \in Runs, PatienceEnds(r) PROVE RowStep(q)
  BY <1>13 DEF PatienceEnds
<1>14. ASSUME NEW t \in Ticks, NEW r \in Runs, NEW toolsStopped \in BOOLEAN, Examine(t, r, toolsStopped) PROVE RowStep(q)
  BY <1>14 DEF Examine
<1>15. ASSUME NEW t \in Ticks, Conclude(t) PROVE RowStep(q)
  BY <1>15 DEF Conclude, Announce
<1>16. ASSUME NEW t \in Ticks, TickDies(t) PROVE RowStep(q)
  BY <1>16 DEF TickDies
<1>17. CASE UNCHANGED vars
  BY <1>17
<1> QED
  BY <1>1, <1>2, <1>3, <1>4, <1>5, <1>6, <1>7, <1>8, <1>9, <1>10, <1>11, <1>12, <1>13, <1>14, <1>15, <1>16, <1>17 DEF Next


\* Numbers stay below the sequence and differ.
LEMMA NumberedStep ==
  ASSUME TypeOK, Numbered, [Next]_vars
  PROVE  Numbered'
<1> SUFFICES ASSUME NEW q \in Runs
             PROVE  /\ \A e \in events'[q] : e[1] <= sequence'[q]
                    /\ \A e, f \in events'[q] : e[1] = f[1] => e = f
  BY DEF Numbered
<1>1. sequence[q] \in Nat /\ \A e \in events[q] : e[1] \in Nat
  BY DEF TypeOK, RowTypes
<1>2. /\ \A e \in events[q] : e[1] <= sequence[q]
      /\ \A e, f \in events[q] : e[1] = f[1] => e = f
  BY DEF Numbered
<1>3. ASSUME NEW s, GrowsTo(q, s)
      PROVE  /\ \A e \in events'[q] : e[1] <= sequence'[q]
             /\ \A e, f \in events'[q] : e[1] = f[1] => e = f
  BY <1>1, <1>2, <1>3 DEF GrowsTo
<1>4. CASE UNCHANGED <<sequence[q], events[q]>>
  BY <1>2, <1>4
<1> QED
  BY <1>3, <1>4, RowSteps DEF RowStep

\* The last status announced stays the run's.
LEMMA ToldStep ==
  ASSUME TypeOK, Numbered, Told, [Next]_vars
  PROVE  Told'
<1> SUFFICES ASSUME NEW q \in Runs, status'[q] # "absent"
             PROVE  LastWord(q, IF status[q] = "running" THEN "queued" ELSE status[q])'
  BY DEF Told
<1>1. sequence[q] \in Nat /\ status[q] \in Statuses /\ \A e \in events[q] : e[1] \in Nat /\ e[1] <= sequence[q]
  BY DEF TypeOK, RowTypes, Numbered
<1>2. status[q] # "absent" => LastWord(q, IF status[q] = "running" THEN "queued" ELSE status[q])
  BY DEF Told
<1>3. CASE UNCHANGED <<sequence[q], events[q]>> /\ status'[q] = status[q]
  BY <1>2, <1>3 DEF LastWord
<1>4. CASE UNCHANGED <<sequence[q], events[q]>> /\ status[q] \in {"queued", "running"} /\ status'[q] = "running"
  <2>1. LastWord(q, "queued")
    BY <1>2, <1>4
  <2> QED
    BY <2>1, <1>4 DEF LastWord
<1>5. CASE GrowsTo(q, "progress") /\ status'[q] = status[q]
  <2> DEFINE s == IF status[q] = "running" THEN "queued" ELSE status[q]
  <2>1. PICK e \in events[q] : e[2] = s /\ \A f \in events[q] : f[2] # "progress" => f[1] <= e[1]
    BY <1>2, <1>5 DEF LastWord
  <2>2. e \in events'[q] /\ \A f \in events'[q] : f[2] # "progress" => f[1] <= e[1]
    BY <2>1, <1>5 DEF GrowsTo
  <2> QED
    BY <2>1, <2>2, <1>5 DEF LastWord
<1>6. ASSUME NEW s \in Statuses \ {"absent", "running"}, GrowsTo(q, s), status'[q] = s
      PROVE  LastWord(q, IF status[q] = "running" THEN "queued" ELSE status[q])'
  <2> DEFINE e == <<sequence[q] + 1, s>>
  <2>1. e \in events'[q] /\ e[2] = s /\ \A f \in events'[q] : f[1] <= e[1]
    BY <1>1, <1>6 DEF GrowsTo
  <2> QED
    BY <2>1, <1>6 DEF LastWord
<1> QED
  BY <1>3, <1>4, <1>5, <1>6, RowSteps DEF RowStep

\* What is acknowledged has stopped: only the owner of the current fence, or the
\* absence of one, acknowledges, and a run being cancelled is not claimed again.
LEMMA StoppedStep ==
  ASSUME TypeOK, Fenced, Stopped, [Next]_vars
  PROVE  Stopped'
<1> USE BoundsAssumption DEF TypeOK, RowTypes, ProcessTypes, Statuses, Ended, Outcomes, Fenced, Stopped, Quiet, vars, rowVars, workerVars, tickVars
<1>1. ASSUME NEW r \in Runs, Accept(r) PROVE Stopped'
  BY <1>1 DEF Accept, Announce
<1>2. ASSUME NEW r \in Runs, Expire(r) PROVE Stopped'
  BY <1>2 DEF Expire, Announce
<1>3. ASSUME SetDrain PROVE Stopped'
  BY <1>3 DEF SetDrain
<1>4. ASSUME NEW r \in Runs, LeaseExpires(r) PROVE Stopped'
  BY <1>4 DEF LeaseExpires
<1>5. ASSUME NEW w \in Workers, NEW r \in Runs, Claim(w, r) PROVE Stopped'
  BY <1>5 DEF Claim
<1>6. ASSUME NEW w \in Workers, Update(w) PROVE Stopped'
  BY <1>6 DEF Update, Current
<1>7. ASSUME NEW w \in Workers, Finish(w) PROVE Stopped'
  BY <1>7 DEF Finish, Current, Announce, EndWork, Outcomes
<1>8. ASSUME NEW w \in Workers, Raise(w) PROVE Stopped'
  BY <1>8 DEF Raise
<1>9. ASSUME NEW w \in Workers, Acknowledge(w) PROVE Stopped'
  BY <1>9 DEF Acknowledge
<1>10. ASSUME NEW w \in Workers, Failed(w) PROVE Stopped'
  BY <1>10 DEF Failed, Current, Announce, EndWork
<1>11. ASSUME NEW w \in Workers, WorkerDies(w) PROVE Stopped'
  BY <1>11 DEF WorkerDies, EndWork
<1>12. ASSUME NEW r \in Runs, RequestCancel(r) PROVE Stopped'
  BY <1>12 DEF RequestCancel, Announce
<1>13. ASSUME NEW r \in Runs, PatienceEnds(r) PROVE Stopped'
  BY <1>13 DEF PatienceEnds
<1>14. ASSUME NEW t \in Ticks, NEW r \in Runs, NEW toolsStopped \in BOOLEAN, Examine(t, r, toolsStopped) PROVE Stopped'
  BY <1>14 DEF Examine
<1>15. ASSUME NEW t \in Ticks, Conclude(t) PROVE Stopped'
  BY <1>15 DEF Conclude, Announce
<1>16. ASSUME NEW t \in Ticks, TickDies(t) PROVE Stopped'
  BY <1>16 DEF TickDies
<1>17. CASE UNCHANGED vars
  BY <1>17
<1> QED
  BY <1>1, <1>2, <1>3, <1>4, <1>5, <1>6, <1>7, <1>8, <1>9, <1>10, <1>11, <1>12, <1>13, <1>14, <1>15, <1>16, <1>17 DEF Next

\* The invariant holds at the beginning ...
LEMMA InvInit == Init => LifecycleInv
<1> SUFFICES ASSUME Init PROVE LifecycleInv
  OBVIOUS
<1> USE BoundsAssumption DEF Init
<1>1. TypeOK
  <2>1. events \in [Runs -> SUBSET (Nat \X (Statuses \cup {"progress"}))]
    OBVIOUS
  <2>2. draining \in BOOLEAN
    BY Zenon
  <2>3. RowTypes
    BY <2>1, <2>2 DEF RowTypes, Statuses, Ended
  <2>4. ProcessTypes
    BY DEF ProcessTypes
  <2> QED
    BY <2>3, <2>4 DEF TypeOK
<1>2. Numbered /\ Told
  BY DEF Numbered, Told
<1>3. Fenced
  BY DEF Fenced
<1>4. Stopped
  BY DEF Stopped, Quiet, Ended
<1> QED
  BY <1>1, <1>2, <1>3, <1>4 DEF LifecycleInv

\* ... is kept by every step ...
LEMMA InvStep == LifecycleInv /\ [Next]_vars => LifecycleInv'
BY RowTypeStep, ProcessTypeStep, FencedStep, NumberedStep, ToldStep, StoppedStep DEF LifecycleInv, TypeOK

\* ... and so always holds.
LEMMA InvHolds == Spec => []LifecycleInv
BY InvInit, InvStep, PTL DEF Spec

-----------------------------------------------------------------------------
(* The agent's runs: the theorems. *)

\* The rows of the runs and the memory of workers and ticks keep their types; in
\* particular no run is attempted more often than the bound allows (runs.py claim).
THEOREM LifecycleTypes == Spec => []TypeOK
<1>1. LifecycleInv => TypeOK
  BY DEF LifecycleInv
<1> QED
  BY <1>1, InvHolds, PTL

\* Events are numbered without gaps for a duplicate to hide in, and the last status
\* announced is the run's (runs.py:203-229, 495-532, control.py:53-66).
THEOREM EventsTell == Spec => []EventsTellStatus
<1>1. LifecycleInv => EventsTellStatus
  BY DEF LifecycleInv, Numbered, Told, EventsTellStatus
<1> QED
  BY <1>1, InvHolds, PTL

\* "cancelled" is only said of a run whose owner has left execution, whatever
\* leases lapse and workers race or die (control.py:72-75, runs.py:533-536).
THEOREM CancelledOwnerStopped == Spec => []OwnerStopped
<1>1. LifecycleInv => OwnerStopped
  BY DEF LifecycleInv, Stopped, Quiet, OwnerStopped, TypeOK, ProcessTypes
<1> QED
  BY <1>1, InvHolds, PTL

\* Ended runs stay as they ended, and cancelled runs are not revived.
LEMMA NoWayBackStep ==
  ASSUME TypeOK, [Next]_vars, NEW q \in Runs
  PROVE  /\ status[q] \in Ended => status'[q] = status[q]
         /\ status[q] = "cancelling" => status'[q] \in {"cancelling", "cancelled", "failed"}
         /\ status'[q] = "queued" => status[q] \in {"absent", "queued"}
<1> DEFINE Kept == /\ status[q] \in Ended => status'[q] = status[q]
                   /\ status[q] = "cancelling" => status'[q] \in {"cancelling", "cancelled", "failed"}
                   /\ status'[q] = "queued" => status[q] \in {"absent", "queued"}
<1> USE DEF TypeOK, RowTypes, ProcessTypes, Statuses, Ended, Outcomes, vars, rowVars, workerVars, tickVars
<1>1. ASSUME NEW r \in Runs, Accept(r) PROVE Kept
  BY <1>1 DEF Accept, Announce
<1>2. ASSUME NEW r \in Runs, Expire(r) PROVE Kept
  BY <1>2 DEF Expire, Announce
<1>3. ASSUME SetDrain PROVE Kept
  BY <1>3 DEF SetDrain
<1>4. ASSUME NEW r \in Runs, LeaseExpires(r) PROVE Kept
  BY <1>4 DEF LeaseExpires
<1>5. ASSUME NEW w \in Workers, NEW r \in Runs, Claim(w, r) PROVE Kept
  BY <1>5 DEF Claim
<1>6. ASSUME NEW w \in Workers, Update(w) PROVE Kept
  BY <1>6 DEF Update, Current
<1>7. ASSUME NEW w \in Workers, Finish(w) PROVE Kept
  BY <1>7 DEF Finish, Current, Announce, EndWork, Outcomes
<1>8. ASSUME NEW w \in Workers, Raise(w) PROVE Kept
  BY <1>8 DEF Raise
<1>9. ASSUME NEW w \in Workers, Acknowledge(w) PROVE Kept
  BY <1>9 DEF Acknowledge
<1>10. ASSUME NEW w \in Workers, Failed(w) PROVE Kept
  BY <1>10 DEF Failed, Current, Announce, EndWork
<1>11. ASSUME NEW w \in Workers, WorkerDies(w) PROVE Kept
  BY <1>11 DEF WorkerDies, EndWork
<1>12. ASSUME NEW r \in Runs, RequestCancel(r) PROVE Kept
  BY <1>12 DEF RequestCancel, Announce
<1>13. ASSUME NEW r \in Runs, PatienceEnds(r) PROVE Kept
  BY <1>13 DEF PatienceEnds
<1>14. ASSUME NEW t \in Ticks, NEW r \in Runs, NEW toolsStopped \in BOOLEAN, Examine(t, r, toolsStopped) PROVE Kept
  BY <1>14 DEF Examine
<1>15. ASSUME NEW t \in Ticks, Conclude(t) PROVE Kept
  BY <1>15 DEF Conclude, Announce
<1>16. ASSUME NEW t \in Ticks, TickDies(t) PROVE Kept
  BY <1>16 DEF TickDies
<1>17. CASE UNCHANGED vars
  BY <1>17
<1> QED
  BY <1>1, <1>2, <1>3, <1>4, <1>5, <1>6, <1>7, <1>8, <1>9, <1>10, <1>11, <1>12, <1>13, <1>14, <1>15, <1>16, <1>17 DEF Next

\* Nothing is announced of a run that has ended, and its status stays.
LEMMA EndedSilent ==
  ASSUME TypeOK, [Next]_vars, NEW q \in Runs, status[q] \in Ended
  PROVE  events'[q] = events[q] /\ status'[q] = status[q]
<1> DEFINE Silent == events'[q] = events[q] /\ status'[q] = status[q]
<1> USE DEF TypeOK, RowTypes, ProcessTypes, Statuses, Ended, Outcomes, vars, rowVars, workerVars, tickVars
<1>1. ASSUME NEW r \in Runs, Accept(r) PROVE Silent
  BY <1>1 DEF Accept, Announce
<1>2. ASSUME NEW r \in Runs, Expire(r) PROVE Silent
  BY <1>2 DEF Expire, Announce
<1>3. ASSUME SetDrain PROVE Silent
  BY <1>3 DEF SetDrain
<1>4. ASSUME NEW r \in Runs, LeaseExpires(r) PROVE Silent
  BY <1>4 DEF LeaseExpires
<1>5. ASSUME NEW w \in Workers, NEW r \in Runs, Claim(w, r) PROVE Silent
  BY <1>5 DEF Claim
<1>6. ASSUME NEW w \in Workers, Update(w) PROVE Silent
  BY <1>6 DEF Update, Current
<1>7. ASSUME NEW w \in Workers, Finish(w) PROVE Silent
  BY <1>7 DEF Finish, Current, Announce, EndWork, Outcomes
<1>8. ASSUME NEW w \in Workers, Raise(w) PROVE Silent
  BY <1>8 DEF Raise
<1>9. ASSUME NEW w \in Workers, Acknowledge(w) PROVE Silent
  BY <1>9 DEF Acknowledge
<1>10. ASSUME NEW w \in Workers, Failed(w) PROVE Silent
  BY <1>10 DEF Failed, Current, Announce, EndWork
<1>11. ASSUME NEW w \in Workers, WorkerDies(w) PROVE Silent
  BY <1>11 DEF WorkerDies, EndWork
<1>12. ASSUME NEW r \in Runs, RequestCancel(r) PROVE Silent
  BY <1>12 DEF RequestCancel, Announce
<1>13. ASSUME NEW r \in Runs, PatienceEnds(r) PROVE Silent
  BY <1>13 DEF PatienceEnds
<1>14. ASSUME NEW t \in Ticks, NEW r \in Runs, NEW toolsStopped \in BOOLEAN, Examine(t, r, toolsStopped) PROVE Silent
  BY <1>14 DEF Examine
<1>15. ASSUME NEW t \in Ticks, Conclude(t) PROVE Silent
  BY <1>15 DEF Conclude, Announce
<1>16. ASSUME NEW t \in Ticks, TickDies(t) PROVE Silent
  BY <1>16 DEF TickDies
<1>17. CASE UNCHANGED vars
  BY <1>17
<1> QED
  BY <1>1, <1>2, <1>3, <1>4, <1>5, <1>6, <1>7, <1>8, <1>9, <1>10, <1>11, <1>12, <1>13, <1>14, <1>15, <1>16, <1>17 DEF Next

\* An ended run keeps its end, and a run being cancelled can only become cancelled
\* or failed, however late a report, a failure or a claim comes (runs.py:497-503,
\* control.py:150-151).
THEOREM EndsAreFinal == Spec => NoWayBack
<1>1. TypeOK /\ [Next]_vars =>
        [\A r \in Runs :
           /\ status[r] \in Ended => status'[r] = status[r]
           /\ status[r] = "cancelling" => status'[r] \in {"cancelling", "cancelled", "failed"}
           /\ status'[r] = "queued" => status[r] \in {"absent", "queued"}]_vars
  BY NoWayBackStep
<1> QED
  BY <1>1, LifecycleTypes, PTL DEF Spec, NoWayBack

-----------------------------------------------------------------------------
(* The composition keeps to its parts. *)

\* Every step of the system is a step of the agent's runs, or leaves them alone.
LEMMA SystemStep ==
  ASSUME [SystemNext]_systemVars
  PROVE  [Next]_vars
<1> USE DEF Alone
<1>1. CASE UNCHANGED systemVars
  BY <1>1 DEF systemVars
<1>2. ASSUME NEW r \in Runs,
             \/ UserCancels(r) \/ ForwardCancel(r) \/ Project(r) \/ Deliver(r)
             \/ AskTool(r) \/ WaitExpires(r) \/ Time(r)
             \/ Alone(Accept(r)) \/ Alone(Expire(r))
             \/ (Tools!StopSandbox(r) \/ Tools!Exhaust(r)) /\ UNCHANGED <<vars, gatewayVars, callVars>>
      PROVE  [Next]_vars
  BY <1>2 DEF UserCancels, ForwardCancel, Project, Deliver, AskTool, WaitExpires, Time, Next
<1>3. ASSUME NEW r \in Runs, NEW w \in Workers, Alone(Claim(w, r)) PROVE [Next]_vars
  BY <1>3 DEF Next
<1>4. ASSUME NEW r \in Runs, NEW t \in Ticks, Reconcile(t, r) PROVE [Next]_vars
  BY <1>4 DEF Reconcile, Next
<1>5. ASSUME NEW w \in Workers, WorkerStep(w) PROVE [Next]_vars
  <2>1. Update(w) \/ Finish(w) \/ Raise(w) \/ Acknowledge(w) \/ Failed(w) \/ UNCHANGED vars
    BY <1>5 DEF WorkerStep, NoteTool, SendTool, Submitted, ToolReturns, ClearTool, GiveUp
  <2> QED
    BY <2>1 DEF Next
<1>6. ASSUME NEW t \in Ticks, Alone(Conclude(t)) PROVE [Next]_vars
  BY <1>6 DEF Next
<1>7. ASSUME NEW x \in Executors, ExecutorStep(x) PROVE [Next]_vars
  BY <1>7 DEF ExecutorStep
<1>8. CASE Faults
  BY <1>8 DEF Faults, Lose, Next
<1>9. CASE Operators
  BY <1>9 DEF Operators, Next
<1> QED
  BY <1>1, <1>2, <1>3, <1>4, <1>5, <1>6, <1>7, <1>8, <1>9 DEF SystemNext

\* The agent's part of the composition is the life of a run as RunLifecycle has it:
\* nothing that gateway, tool calls and business service do touches a run's row in
\* another way.
THEOREM SystemKeepsLifecycle == SystemSpec => Spec
<1>1. SystemInit => Init
  BY DEF SystemInit
<1> QED
  BY <1>1, SystemStep, PTL DEF SystemSpec, Spec

\* Under cancellations, lost requests and dying processes of three services, a run's
\* events still tell its status (runs.py:203-229, 495-532, control.py:53-66).
THEOREM SystemEventsTell == SystemSpec => []EventsTellStatus
BY SystemKeepsLifecycle, EventsTell, PTL

\* ... a cancelled run's owner has stopped (control.py:72-75) ...
THEOREM SystemOwnerStopped == SystemSpec => []OwnerStopped
BY SystemKeepsLifecycle, CancelledOwnerStopped, PTL

\* ... and an ended run stays ended (control.py:150-151, runs.py:497-503).
THEOREM SystemEndsAreFinal == SystemSpec => NoWayBack
BY SystemKeepsLifecycle, EndsAreFinal, PTL

\* Every step of the system is a step of the tool jobs, or leaves them alone.
LEMMA SystemToolStep ==
  ASSUME TypeOK, [SystemNext]_systemVars
  PROVE  [Tools!Next]_toolVars
<1> USE DEF Alone
<1>1. CASE UNCHANGED systemVars
  BY <1>1 DEF systemVars
<1>2. ASSUME NEW r \in Runs,
             \/ UserCancels(r) \/ ForwardCancel(r) \/ Project(r) \/ Deliver(r)
             \/ AskTool(r) \/ WaitExpires(r) \/ Time(r)
             \/ Alone(Accept(r)) \/ Alone(Expire(r))
             \/ (Tools!StopSandbox(r) \/ Tools!Exhaust(r)) /\ UNCHANGED <<vars, gatewayVars, callVars>>
      PROVE  [Tools!Next]_toolVars
  BY <1>2 DEF UserCancels, ForwardCancel, Project, Deliver, AskTool, WaitExpires, Time, Tools!Next
<1>3. ASSUME NEW r \in Runs, NEW w \in Workers, Alone(Claim(w, r)) PROVE [Tools!Next]_toolVars
  BY <1>3
<1>4. ASSUME NEW r \in Runs, NEW t \in Ticks, Reconcile(t, r) PROVE [Tools!Next]_toolVars
  BY <1>4 DEF Reconcile, ToolStopped, TryCancel, Tools!Next
<1>5. ASSUME NEW w \in Workers, WorkerStep(w) PROVE [Tools!Next]_toolVars
  <2>1. Tools!CancelJob(task[w]) \/ UNCHANGED toolVars
    BY <1>5 DEF WorkerStep, NoteTool, SendTool, Submitted, ToolReturns, ClearTool, GiveUp,
                Quietly, TryCancel
  <2> QED
    BY <2>1 DEF Tools!Next, TypeOK, ProcessTypes
<1>6. ASSUME NEW t \in Ticks, Alone(Conclude(t)) PROVE [Tools!Next]_toolVars
  BY <1>6
<1>7. ASSUME NEW x \in Executors, ExecutorStep(x) PROVE [Tools!Next]_toolVars
  BY <1>7 DEF ExecutorStep, Tools!Next
<1>8. CASE Faults
  BY <1>8 DEF Faults, Lose, Quietly, Tools!Next
<1>9. CASE Operators
  BY <1>9 DEF Operators, Tools!Next
<1> QED
  BY <1>1, <1>2, <1>3, <1>4, <1>5, <1>6, <1>7, <1>8, <1>9 DEF SystemNext

\* The business service's part of the composition is ToolJobs: the calls the agent
\* makes of it are calls ToolJobs allows anyone to make.
THEOREM SystemKeepsJobs == SystemSpec => Tools!Spec
<1>1. SystemInit => Tools!Init
  BY DEF SystemInit
<1>2. TypeOK /\ [SystemNext]_systemVars => [Tools!Next]_(Tools!vars)
  <2>1. UNCHANGED toolVars => UNCHANGED Tools!vars
    BY DEF toolVars, Tools!vars, Tools!jobVars, Tools!executorVars, Tools!historyVars
  <2> QED
    BY <2>1, SystemToolStep
<1>3. SystemSpec => []TypeOK
  BY SystemKeepsLifecycle, LifecycleTypes, PTL
<1> QED
  BY <1>1, <1>2, <1>3, PTL DEF SystemSpec, Tools!Spec

-----------------------------------------------------------------------------
(* What relates the three services: the inductive invariant. *)

\* The agent never announces that a run is absent or running, and announces
\* nothing after the end of a run.
Spoken ==
  \A r \in Runs : \A e \in events[r] :
    /\ e[2] \notin {"absent", "running"}
    /\ e[2] \in Ended =>
         /\ status[r] = e[2]
         /\ \A f \in events[r] : f[2] # "progress" => f[1] <= e[1]

\* An end the gateway knows is the run's, and has been announced last.
Heard ==
  \A r \in Runs : known[r] \in Ended =>
    /\ status[r] = known[r]
    /\ \A f \in events[r] : f[2] # "progress" => f[1] <= projected[r]

\* A run that is being cancelled while its row names a tool call has been cancelled by
\* its user, and once a tick has found its tool stopped, or has said so, it is.
Over ==
  /\ \A r \in Runs : active[r] =>
       /\ status[r] \notin {"absent", "queued", "waiting_input"}
       /\ status[r] \in {"cancelling", "cancelled"} => intent[r]
       /\ status[r] = "cancelled" /\ r \in Tracked => ~Tools!Executing(r)
  /\ \A t \in Ticks :
       LET r == subject[t] IN
       verdict[t] = "cancelled" /\ status[r] = "cancelling" /\ active[r] /\ r \in Tracked => ~Tools!Executing(r)

Between ==
  /\ intent \in [Runs -> BOOLEAN]
  /\ known \in [Runs -> (Statuses \ {"absent", "running"}) \cup {"dispatching"}]
  /\ projected \in [Runs -> Nat]
  /\ active \in [Runs -> BOOLEAN]
  /\ call \in [Workers -> {"none", "noted", "sent", "waiting", "settling"}]
  /\ post \in [Runs -> BOOLEAN]

SystemInv ==
  /\ LifecycleInv /\ JobProofs!JobsInv
  /\ Between /\ Spoken /\ Heard
  /\ Punctual => Over

-----------------------------------------------------------------------------
(* Every step keeps it. *)

\* The jobs of the composition are those ToolJobsProofs is about.
LEMMA SystemJobs == SystemSpec => []JobProofs!JobsInv
<1>1. Tools!Init => JobProofs!Init
  BY DEF Tools!Init, JobProofs!Init
<1>2. [Tools!Next]_(Tools!vars) => [JobProofs!Next]_(JobProofs!vars)
  BY DEF Tools!Next, JobProofs!Next, Tools!SetJobDrain, JobProofs!SetJobDrain, Tools!Submit,
       JobProofs!Submit, Tools!CancelJob, JobProofs!CancelJob, Tools!StopSandbox,
       JobProofs!StopSandbox, Tools!Exhaust, JobProofs!Exhaust, Tools!JobLeaseExpires,
       JobProofs!JobLeaseExpires, Tools!Sweep, JobProofs!Sweep, Tools!Lost,
       JobProofs!Lost, Tools!Retriable, JobProofs!Retriable, Tools!ClaimJob,
       JobProofs!ClaimJob, Tools!Authorize, JobProofs!Authorize, Tools!Expire,
       JobProofs!Expire, Tools!Leave, JobProofs!Leave, Tools!Complete, JobProofs!Complete,
       Tools!ExecutorDies, JobProofs!ExecutorDies, Tools!EndTick, JobProofs!EndTick,
       Tools!MustStop, JobProofs!MustStop, Tools!vars, JobProofs!vars, Tools!jobVars,
       JobProofs!jobVars, Tools!executorVars, JobProofs!executorVars, Tools!historyVars,
       JobProofs!historyVars, Tools!Settled, JobProofs!Settled
<1>3. Tools!Spec => JobProofs!Spec
  BY <1>1, <1>2, PTL DEF Tools!Spec, JobProofs!Spec
<1>4. JobProofs!Spec => []JobProofs!JobsInv
  BY JobProofs!JobsInvHolds, SystemAssumption DEF JobProofs!JobsAssumption
<1> QED
  BY <1>3, <1>4, SystemKeepsJobs, PTL

\* What the gateway knows, and what a worker waits for, keeps its type.
LEMMA BetweenStep ==
  ASSUME TypeOK, Spoken, Between, [SystemNext]_systemVars
  PROVE  Between'
<1> USE DEF TypeOK, RowTypes, ProcessTypes, Between, Alone, gatewayVars, callVars
<1>1. CASE UNCHANGED systemVars
  BY <1>1 DEF systemVars
<1>2. ASSUME NEW r \in Runs, UserCancels(r) \/ ForwardCancel(r) \/ Deliver(r) \/ AskTool(r) \/ WaitExpires(r) \/ Time(r)
      PROVE  Between'
  BY <1>2 DEF UserCancels, ForwardCancel, Deliver, AskTool, WaitExpires, Time
<1>3. ASSUME NEW r \in Runs, Project(r) PROVE Between'
  <2>1. PICK e \in events[r] :
          /\ projected' = [projected EXCEPT ![r] = e[1]]
          /\ known' = [known EXCEPT ![r] = IF e[2] = "progress" THEN @ ELSE e[2]]
    BY <1>3 DEF Project
  <2>2. e[1] \in Nat /\ e[2] \in (Statuses \ {"absent", "running"}) \cup {"progress"}
    BY DEF Spoken
  <2> QED
    BY <1>3, <2>1, <2>2 DEF Project
<1>4. ASSUME NEW r \in Runs,
             \/ Alone(Accept(r)) \/ Alone(Expire(r))
             \/ (Tools!StopSandbox(r) \/ Tools!Exhaust(r)) /\ UNCHANGED <<vars, gatewayVars, callVars>>
             \/ \E w \in Workers : Alone(Claim(w, r))
             \/ \E t \in Ticks : Reconcile(t, r)
      PROVE  Between'
  BY <1>4 DEF Reconcile
<1>5. ASSUME NEW w \in Workers, WorkerStep(w) PROVE Between'
  BY <1>5 DEF WorkerStep, NoteTool, SendTool, Submitted, ToolReturns, ClearTool, GiveUp, Quietly
<1>6. ASSUME NEW t \in Ticks, Alone(Conclude(t)) PROVE Between'
  BY <1>6
<1>7. ASSUME NEW x \in Executors, ExecutorStep(x) PROVE Between'
  BY <1>7 DEF ExecutorStep
<1>8. CASE Faults
  BY <1>8 DEF Faults, Lose, Quietly
<1>9. CASE Operators
  BY <1>9 DEF Operators
<1> QED
  BY <1>1, <1>2, <1>3, <1>4, <1>5, <1>6, <1>7, <1>8, <1>9 DEF SystemNext

\* Announcements have numbers above the earlier ones, and none follows an end.
LEMMA SpokenStep ==
  ASSUME TypeOK, Numbered, Spoken, [Next]_vars
  PROVE  Spoken'
<1> SUFFICES ASSUME NEW q \in Runs, NEW e \in events'[q]
             PROVE  /\ e[2] \notin {"absent", "running"}
                    /\ e[2] \in Ended =>
                         /\ status'[q] = e[2]
                         /\ \A f \in events'[q] : f[2] # "progress" => f[1] <= e[1]
  BY DEF Spoken
<1>1. sequence[q] \in Nat /\ status[q] \in Statuses /\ \A f \in events[q] : f[1] \in Nat /\ f[1] <= sequence[q]
  BY DEF TypeOK, RowTypes, Numbered
<1>2. CASE status[q] \in Ended
  <2>1. events'[q] = events[q] /\ status'[q] = status[q]
    BY <1>2, EndedSilent
  <2> QED
    BY <2>1 DEF Spoken
<1>3. CASE status[q] \notin Ended
  <2>1. \A f \in events[q] : f[2] \notin Ended \cup {"absent", "running"}
    BY <1>3 DEF Spoken
  <2>2. ASSUME NEW s \in (Statuses \ {"absent", "running"}) \cup {"progress"}, GrowsTo(q, s),
               s = "progress" \/ status'[q] = s
        PROVE  /\ e[2] \notin {"absent", "running"}
               /\ e[2] \in Ended =>
                    /\ status'[q] = e[2]
                    /\ \A f \in events'[q] : f[2] # "progress" => f[1] <= e[1]
    <3>1. e \in events[q] \/ e = <<sequence[q] + 1, s>>
      BY <2>2 DEF GrowsTo
    <3>2. CASE e \in events[q]
      BY <2>1, <3>2
    <3>3. CASE e = <<sequence[q] + 1, s>>
      <4>1. \A f \in events'[q] : f[1] <= sequence[q] + 1
        BY <1>1, <2>2 DEF GrowsTo
      <4> QED
        BY <2>2, <3>3, <4>1 DEF Ended, Statuses
    <3> QED
      BY <3>1, <3>2, <3>3
  <2>3. CASE UNCHANGED events[q]
    BY <2>1, <2>3
  <2> QED
    BY <2>2, <2>3, RowSteps DEF RowStep
<1> QED
  BY <1>2, <1>3

\* The gateway learns an end from the announcement of the end.
LEMMA HeardStep ==
  ASSUME TypeOK, Spoken, Between, Heard, [SystemNext]_systemVars
  PROVE  /\ Heard'
         /\ \A r \in Runs : known[r] \in Ended => known'[r] = known[r]
<1> SUFFICES ASSUME NEW q \in Runs
             PROVE  /\ known'[q] \in Ended =>
                         /\ status'[q] = known'[q]
                         /\ \A f \in events'[q] : f[2] # "progress" => f[1] <= projected'[q]
                    /\ known[q] \in Ended => known'[q] = known[q]
  BY DEF Heard
<1>1. [Next]_vars
  BY SystemStep
<1>2. CASE UNCHANGED <<known[q], projected[q]>>
  BY <1>1, <1>2, EndedSilent DEF Heard
<1>3. CASE Project(q)
  <2>1. PICK e \in events[q] :
          /\ projected[q] < e[1]
          /\ projected' = [projected EXCEPT ![q] = e[1]]
          /\ known' = [known EXCEPT ![q] = IF e[2] = "progress" THEN @ ELSE e[2]]
    BY <1>3 DEF Project
  <2>2. UNCHANGED <<status, events>>
    BY <1>3 DEF Project, vars, rowVars
  <2>3. projected[q] \in Nat /\ projected'[q] = e[1] /\ known'[q] = IF e[2] = "progress" THEN known[q] ELSE e[2]
    BY <2>1 DEF Between
  <2>4. \A f \in events[q] : f[1] \in Nat
    BY DEF TypeOK, RowTypes
  <2>5. CASE e[2] = "progress"
    BY <2>1, <2>2, <2>3, <2>4, <2>5 DEF Heard
  <2>6. CASE e[2] # "progress"
    <3>1. known[q] \notin Ended
      BY <2>1, <2>3, <2>4, <2>6 DEF Heard
    <3> QED
      BY <2>2, <2>3, <2>6, <3>1 DEF Spoken
  <2> QED
    BY <2>5, <2>6
<1>4. UNCHANGED <<known[q], projected[q]>> \/ Project(q)
  <2> USE DEF Alone, gatewayVars
  <2>1. CASE UNCHANGED systemVars
    BY <2>1 DEF systemVars
  <2>2. ASSUME NEW r \in Runs, Project(r) PROVE UNCHANGED <<known[q], projected[q]>> \/ Project(q)
    BY <2>2 DEF Project, Between
  <2>3. CASE SystemNext /\ ~ \E r \in Runs : Project(r)
    BY <2>3 DEF SystemNext, UserCancels, ForwardCancel, Deliver, AskTool, WaitExpires, Time, Reconcile,
                WorkerStep, NoteTool, SendTool, Submitted, ToolReturns, ClearTool, GiveUp, Quietly,
                ExecutorStep, Faults, Lose, Operators
  <2> QED
    BY <2>1, <2>2, <2>3
<1> QED
  BY <1>2, <1>3, <1>4

\* An executor of a job that has not been claimed, or has settled, is not executing it.
LEMMA SettledIsQuiet ==
  ASSUME JobProofs!JobsInv, Punctual, NEW r \in Runs, jobStatus[r] \notin {"running", "cancelling"}
  PROVE  ~Tools!Executing(r)
BY DEF JobProofs!JobsInv, JobProofs!Leased, Tools!Executing

\* Nobody begins to execute a run's tool once the run's user has cancelled it.
LEMMA ExecutingStep ==
  ASSUME Tools!TypeOK, [SystemNext]_systemVars, NEW q \in Runs, Tools!Executing(q)'
  PROVE  Tools!Executing(q) \/ (~intent[q] /\ UNCHANGED <<vars, gatewayVars, callVars>>)
<1> USE DEF Tools!Executing, Tools!TypeOK, Tools!ExecutorTypes, Tools!EndTick, Tools!executorVars, toolVars, Alone
<1>1. CASE UNCHANGED systemVars
  BY <1>1 DEF systemVars
<1>2. ASSUME NEW r \in Runs,
             \/ UserCancels(r) \/ ForwardCancel(r) \/ Project(r) \/ Deliver(r)
             \/ AskTool(r) \/ WaitExpires(r) \/ Time(r)
             \/ Alone(Accept(r)) \/ Alone(Expire(r))
             \/ (Tools!StopSandbox(r) \/ Tools!Exhaust(r)) /\ UNCHANGED <<vars, gatewayVars, callVars>>
      PROVE  Tools!Executing(q)
  BY <1>2 DEF UserCancels, ForwardCancel, Project, Deliver, AskTool, WaitExpires, Time,
              Tools!Submit, Tools!CancelJob, Tools!JobLeaseExpires, Tools!StopSandbox, Tools!Exhaust
<1>3. ASSUME NEW r \in Runs, (\E w \in Workers : Alone(Claim(w, r))) \/ (\E t \in Ticks : Reconcile(t, r))
      PROVE  Tools!Executing(q)
  BY <1>3 DEF Reconcile, ToolStopped, TryCancel, Tools!CancelJob
<1>4. ASSUME NEW w \in Workers, WorkerStep(w) PROVE Tools!Executing(q)
  <2>1. Tools!CancelJob(task[w]) \/ UNCHANGED toolVars
    BY <1>4 DEF WorkerStep, NoteTool, SendTool, Submitted, ToolReturns, ClearTool, GiveUp,
                Quietly, TryCancel
  <2> QED
    BY <2>1 DEF Tools!CancelJob
<1>5. ASSUME NEW t \in Ticks, Alone(Conclude(t)) PROVE Tools!Executing(q)
  BY <1>5
<1>6. ASSUME NEW x \in Executors, ExecutorStep(x)
      PROVE  Tools!Executing(q) \/ (~intent[q] /\ UNCHANGED <<vars, gatewayVars, callVars>>)
  <2>1. CASE ~intent[job[x]] /\ Tools!Authorize(x, TRUE)
    BY <1>6, <2>1 DEF ExecutorStep, Tools!Authorize
  <2>2. CASE \/ \E r \in Runs : Tools!Sweep(x, r) \/ Tools!ClaimJob(x, r)
             \/ Tools!Authorize(x, FALSE) \/ Tools!Expire(x) \/ Tools!Leave(x) \/ Tools!Complete(x)
    BY <2>2 DEF Tools!Sweep, Tools!ClaimJob, Tools!Authorize, Tools!Expire, Tools!Leave, Tools!Complete
  <2> QED
    BY <1>6, <2>1, <2>2 DEF ExecutorStep
<1>7. CASE Faults
  BY <1>7 DEF Faults, Lose, Quietly, Tools!ExecutorDies
<1>8. CASE Operators
  BY <1>8 DEF Operators, Tools!SetJobDrain
<1> QED
  BY <1>1, <1>2, <1>3, <1>4, <1>5, <1>6, <1>7, <1>8 DEF SystemNext

\* What is found stopped stays so.
LEMMA OverStep ==
  ASSUME LifecycleInv, JobProofs!JobsInv, Between, Punctual, Over, [SystemNext]_systemVars
  PROVE  Over'
<1>0. Tools!TypeOK
  BY DEF JobProofs!JobsInv, JobProofs!TypeOK, JobProofs!JobTypes, JobProofs!ExecutorTypes,
         JobProofs!JobStatuses, JobProofs!Settled, Tools!TypeOK, Tools!JobTypes, Tools!ExecutorTypes,
         Tools!JobStatuses, Tools!Settled
<1> DEFINE Calm(r) == Tools!Executing(r)' => Tools!Executing(r) \/ (~intent[r] /\ UNCHANGED <<vars, gatewayVars, callVars>>)
<1>a. \A r \in Runs : Calm(r)
  BY <1>0, ExecutingStep
<1> HIDE DEF Calm
<1>b. TypeOK /\ \A t \in Ticks : verdict[t] = "cancelled" => status[subject[t]] \in Ended \cup {"cancelling"}
  BY DEF LifecycleInv, Stopped, TypeOK, ProcessTypes
<1> USE <1>a, <1>b DEF Calm, Over, TypeOK, RowTypes, ProcessTypes, Between, Alone, Ended, vars, rowVars,
                 workerVars, tickVars, gatewayVars, callVars
<1>1. CASE UNCHANGED systemVars
  BY <1>1 DEF systemVars
<1>2. ASSUME NEW r \in Runs, UserCancels(r) \/ Project(r) \/ Deliver(r) \/ AskTool(r) PROVE Over'
  BY <1>2 DEF UserCancels, Project, Deliver, AskTool
<1>3. ASSUME NEW r \in Runs, ForwardCancel(r) \/ WaitExpires(r) PROVE Over'
  BY <1>3 DEF ForwardCancel, WaitExpires, RequestCancel, Announce
<1>4. ASSUME NEW r \in Runs, Time(r) PROVE Over'
  BY <1>4 DEF Time, LeaseExpires, PatienceEnds
<1>5. ASSUME NEW r \in Runs, Alone(Accept(r)) PROVE Over'
  BY <1>5 DEF Accept, Announce
<1>6. ASSUME NEW r \in Runs, Alone(Expire(r)) PROVE Over'
  BY <1>6 DEF Expire, Announce
<1>7. ASSUME NEW r \in Runs, (Tools!StopSandbox(r) \/ Tools!Exhaust(r)) /\ UNCHANGED <<vars, gatewayVars, callVars>> PROVE Over'
  BY <1>7
<1>8. ASSUME NEW r \in Runs, NEW w \in Workers, Alone(Claim(w, r)) PROVE Over'
  BY <1>8 DEF Claim
<1>9. ASSUME NEW r \in Runs, NEW t \in Ticks, Reconcile(t, r) PROVE Over'
  BY <1>9, SettledIsQuiet DEF Reconcile, Examine, ToolStopped, Tools!Settled
<1>10. ASSUME NEW w \in Workers, WorkerStep(w) PROVE Over'
  <2>1. CASE NoteTool(w)
    BY <2>1 DEF NoteTool, Update, Current
  <2>2. CASE ClearTool(w)
    BY <2>2 DEF ClearTool, Update, Current
  <2>3. CASE SendTool(w) \/ Submitted(w) \/ ToolReturns(w)
    BY <2>3 DEF SendTool, Submitted, ToolReturns
  <2>4. CASE GiveUp(w)
    BY <2>4 DEF GiveUp, Raise
  <2>5. CASE ((call[w] = "none" /\ Update(w)) \/ Raise(w) \/ Acknowledge(w)) /\ Quietly(w)
    BY <2>5 DEF Update, Raise, Acknowledge, Quietly
  <2>6. CASE Failed(w) /\ Quietly(w)
    BY <2>6 DEF Failed, Current, Announce, Quietly
  <2>7. CASE /\ Finish(w) /\ active' = [active EXCEPT ![task[w]] = FALSE]
             /\ UNCHANGED <<toolVars, gatewayVars, call, post>>
    BY <2>7 DEF Finish, Current, Announce, Outcomes
  <2> QED
    BY <1>10, <2>1, <2>2, <2>3, <2>4, <2>5, <2>6, <2>7 DEF WorkerStep
<1>11. ASSUME NEW t \in Ticks, Alone(Conclude(t)) PROVE Over'
  BY <1>11 DEF Conclude, Announce
<1>12. ASSUME NEW x \in Executors, ExecutorStep(x) PROVE Over'
  BY <1>12 DEF ExecutorStep
<1>13. CASE Faults
  BY <1>13 DEF Faults, Lose, Quietly, WorkerDies, TickDies
<1>14. CASE Operators
  BY <1>14 DEF Operators, SetDrain
<1> QED
  BY <1>1, <1>2, <1>3, <1>4, <1>5, <1>6, <1>7, <1>8, <1>9, <1>10, <1>11, <1>12, <1>13, <1>14 DEF SystemNext

-----------------------------------------------------------------------------
(* The invariant and the theorems. *)

\* The system begins with its invariant ...
LEMMA SystemInvInit == SystemInit => Between /\ Spoken /\ Heard /\ Over
<1> SUFFICES ASSUME SystemInit PROVE Between /\ Spoken /\ Heard /\ Over
  OBVIOUS
<1> USE DEF SystemInit, Init
<1>1. Between
  BY DEF Between, Statuses, Ended
<1>2. Spoken /\ Heard
  BY DEF Spoken, Heard, Ended
<1>3. Over
  BY DEF Over
<1> QED
  BY <1>1, <1>2, <1>3

\* ... which always holds.
LEMMA SystemInvHolds == SystemSpec => []SystemInv
<1> DEFINE Own == Between /\ Spoken /\ Heard /\ (Punctual => Over)
<1>1. SystemInit => Own
  BY SystemInvInit
<1>2. LifecycleInv /\ JobProofs!JobsInv /\ Own /\ [SystemNext]_systemVars => Own'
  BY SystemStep, BetweenStep, SpokenStep, HeardStep, OverStep DEF LifecycleInv
<1>3. SystemSpec => []LifecycleInv
  BY SystemKeepsLifecycle, InvHolds, PTL
<1>4. SystemSpec => []Own
  BY <1>1, <1>2, <1>3, SystemJobs, PTL DEF SystemSpec
<1>5. LifecycleInv /\ JobProofs!JobsInv /\ Own => SystemInv
  BY DEF SystemInv
<1> QED
  BY <1>3, <1>4, <1>5, SystemJobs, PTL

\* The types of the composed system (conversations.py, control.py, tools.py rows).
THEOREM SystemTypesHold == SystemSpec => []SystemTypeOK
<1>1. SystemInv => SystemTypeOK
  BY DEF SystemInv, LifecycleInv, Between, SystemTypeOK, JobProofs!JobsInv, JobProofs!TypeOK,
         JobProofs!JobTypes, JobProofs!ExecutorTypes, JobProofs!JobStatuses, JobProofs!Settled,
         Tools!TypeOK, Tools!JobTypes, Tools!ExecutorTypes, Tools!JobStatuses, Tools!Settled
<1> QED
  BY <1>1, SystemInvHolds, PTL

\* If executions end before their leases and the reconciling tick asks after every
\* tool, a run is only reported cancelled when the tool call its row names is not
\* being executed, nor ever will be (control.py:90-147, client.py:48-53,
\* access.py:207).
THEOREM CancelledRunsStopped ==
  ASSUME Punctual, Runs \subseteq Tracked
  PROVE  SystemSpec => []CancelledMeansStopped
<1>1. SystemInv => CancelledMeansStopped
  BY DEF SystemInv, Over, CancelledMeansStopped
<1> QED
  BY <1>1, SystemInvHolds, PTL

\* ... and "cancelled" is also the last word on the tool call itself: its last attempt is
\* known to have ended, or, of a tool that may be executed again, some attempt is
\* (tools.py:392-405, 592-615).
THEOREM CancelledIsTheEnd ==
  ASSUME Punctual, Runs \subseteq Tracked
  PROVE  SystemSpec => []CancelledIsOver
<1>1. SystemInv => CancelledIsOver
  BY DEF SystemInv, Over, CancelledMeansStopped, JobProofs!JobsInv, JobProofs!Confirmed,
         JobProofs!Confirmable, CancelledIsConfirmed, Tools!CancelledIsConfirmed, CancelledIsOver
<1> QED
  BY <1>1, SystemInvHolds, PTL

\* The gateway learns of a run's end only when the agent's row has come to it, and
\* never unlearns it, whatever order the events arrive in (worker.py:32-41).
THEOREM GatewayLearnsTheEnd == SystemSpec => GatewayAgrees
<1>1. SystemInv /\ SystemInv' /\ [SystemNext]_systemVars =>
        [\A r \in Runs :
           /\ known[r] \in Ended => known'[r] = known[r]
           /\ known'[r] \in Ended => known'[r] = status'[r]]_systemVars
  <2> SUFFICES ASSUME SystemInv, SystemInv', [SystemNext]_systemVars, NEW r \in Runs
               PROVE  /\ known[r] \in Ended => known'[r] = known[r]
                      /\ known'[r] \in Ended => known'[r] = status'[r]
    OBVIOUS
  <2>1. \A q \in Runs : known[q] \in Ended => known'[q] = known[q]
    BY HeardStep DEF SystemInv, LifecycleInv
  <2>2. Heard'
    BY DEF SystemInv
  <2> QED
    BY <2>1, <2>2 DEF Heard
<1> QED
  BY <1>1, SystemInvHolds, PTL DEF SystemSpec, GatewayAgrees

=============================================================================
