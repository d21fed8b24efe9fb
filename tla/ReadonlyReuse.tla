----------------------------- MODULE ReadonlyReuse -----------------------------
(***************************************************************************)
(* Specialists of one run that make the same read-only request at the same *)
(* time (semibrain_agent/readonly_reuse.py).  The first claims it in the   *)
(* database for 90 seconds, the others wait and reuse its observation.  A  *)
(* request is identified by what its caller is authorized to see, so there *)
(* is one for each scope.                                                  *)
(***************************************************************************)
EXTENDS Naturals

CONSTANTS
  Callers,   \* logical calls that make the request
  MaxScopes, \* bound on changes of what is authorized
  MaxLeases  \* bound on workers of the run

Nobody  == "nobody"

ASSUME ReuseAssumption == MaxScopes \in Nat \ {0} /\ MaxLeases \in Nat \ {0} /\ Nobody \notin Callers

Unasked == [owner |-> Nobody, lease |-> 0, live |-> FALSE, attempts |-> 0]
Kinds   == {"none", "good", "transient", "refused"}   \* status and retryable()
Resting == [step |-> "idle", scope |-> 0, lease |-> 0]

VARIABLES
  requests,  \* readonly_requests by scope
  results,   \* the callers' observations
  caller,    \* where each is in execute(), the scope it was authorized for, the run's fence
  scope,     \* what is authorized now
  lease,     \* the fence of the run
  asked      \* history: executions under a claim, by scope

reuseVars == <<requests, results, caller, scope, lease, asked>>

ReuseTypes ==
  /\ requests \in [1..MaxScopes -> [owner : Callers \cup {Nobody}, lease : 0..MaxLeases, live : BOOLEAN, attempts : 0..2]]
  /\ results \in [Callers -> Kinds]
  /\ caller \in [Callers -> [step : {"idle", "claim", "execute", "settle", "reuse", "alone"}, scope : 0..MaxScopes, lease : 0..MaxLeases]]
  /\ scope \in 1..MaxScopes /\ lease \in 1..MaxLeases
  /\ asked \in [1..MaxScopes -> Nat]

ReuseInit ==
  /\ requests = [s \in 1..MaxScopes |-> Unasked] /\ results = [c \in Callers |-> "none"]
  /\ caller = [c \in Callers |-> Resting]
  /\ scope = 1 /\ lease = 1 /\ asked = [s \in 1..MaxScopes |-> 0]

Goes(c, step) == caller' = [caller EXCEPT ![c].step = step]

\* authorize(), then the lookup of the caller's own observation, which ends the call.
BeginRead(c) ==
  /\ caller[c].step = "idle" /\ results[c] = "none"
  /\ caller' = [caller EXCEPT ![c] = [step |-> "claim", scope |-> scope, lease |-> lease]]
  /\ UNCHANGED <<requests, results, scope, lease, asked>>

\* Mutant of Settled: an answer is not looked for, only that nobody is working.
SettledNever(r) == FALSE

\* The owner's observation is there and is not worth another attempt.
Settled(r) == r.owner # Nobody /\ (results[r.owner] \in {"good", "refused"} \/ (results[r.owner] = "transient" /\ r.attempts >= 2))

\* The owner is at work as far as the claim tells.
Held(r) == r.owner # Nobody /\ results[r.owner] = "none" /\ r.live /\ r.lease = lease

\* Mutant of Spent: attempts of earlier workers are not counted.
SpentHere(r) == r.attempts >= 2 /\ r.lease = lease

Spent(r) == r.attempts >= 2

\* claim(), in a transaction that writes the run under its fence; a stale worker stops.
\* A caller that finds the request held tries again (and gives up after 75 seconds).
ClaimRequest(c) ==
  /\ caller[c].step = "claim" /\ caller[c].lease = lease
  /\ LET s == caller[c].scope  r == requests[s] IN
       \/ Settled(r) /\ Goes(c, "reuse") /\ UNCHANGED <<requests, results>>
       \/ /\ ~Settled(r) /\ (Spent(r) \/ Held(r))
          /\ results' = [results EXCEPT ![c] = "refused"] /\ caller' = [caller EXCEPT ![c] = Resting]
          /\ UNCHANGED requests
       \/ /\ ~Settled(r) /\ ~Held(r) /\ ~Spent(r)
          /\ requests' = [requests EXCEPT ![s] = [owner |-> c, lease |-> lease, live |-> TRUE, attempts |-> r.attempts + 1]]
          /\ Goes(c, "execute") /\ UNCHANGED results
  /\ UNCHANGED <<scope, lease, asked>>

\* execute_actual(): the tool is called, and the observation journaled once under the
\* fence of the run.
ExecuteRead(c) ==
  /\ caller[c].step = "execute"
  /\ asked' = [asked EXCEPT ![caller[c].scope] = @ + 1]
  /\ Goes(c, "settle") /\ UNCHANGED <<requests, results, scope, lease>>

SettleRead(c) ==
  /\ caller[c].step \in {"settle", "alone"} /\ caller[c].lease = lease
  /\ \E kind \in Kinds \ {"none"} : results' = [results EXCEPT ![c] = kind]
  /\ caller' = [caller EXCEPT ![c] = Resting]
  /\ UNCHANGED <<requests, scope, lease, asked>>

\* What is authorized is looked up again: if it has changed, the caller asks by itself.
Reuse(c) ==
  /\ caller[c].step = "reuse" /\ caller[c].lease = lease
  /\ IF scope # caller[c].scope THEN Goes(c, "alone") /\ UNCHANGED results
     ELSE /\ results' = [results EXCEPT ![c] = results[requests[scope].owner]]
          /\ caller' = [caller EXCEPT ![c] = Resting]
  /\ UNCHANGED <<requests, scope, lease, asked>>

\* The worker dies, or another has the run: its callers stop at their next write and
\* are begun again.
StopRead(c) ==
  /\ caller[c].step # "idle" /\ caller[c].lease # lease
  /\ caller' = [caller EXCEPT ![c] = Resting]
  /\ UNCHANGED <<requests, results, scope, lease, asked>>

ReadTime ==
  /\ \/ lease < MaxLeases /\ lease' = lease + 1 /\ UNCHANGED <<requests, scope>>
     \/ scope < MaxScopes /\ scope' = scope + 1 /\ UNCHANGED <<requests, lease>>
     \/ \E s \in 1..MaxScopes : requests[s].live /\ requests' = [requests EXCEPT ![s].live = FALSE] /\ UNCHANGED <<scope, lease>>
  /\ UNCHANGED <<results, caller, asked>>

ReuseNext == ReadTime \/ \E c \in Callers : BeginRead(c) \/ ClaimRequest(c) \/ ExecuteRead(c) \/ SettleRead(c) \/ Reuse(c) \/ StopRead(c)

ReuseSpec == ReuseInit /\ [][ReuseNext]_reuseVars

-----------------------------------------------------------------------------
(* Properties. *)

\* However many specialists make the request, and however often the worker dies while
\* it is under way, it is made twice at most (readonly_reuse.py:60-92).
AskedTwiceAtMost == \A s \in 1..MaxScopes : asked[s] <= 2

\* A request that has an answer is not made again: its row stays with the observation
\* the answer is in, also when callers whose claim has run out are late.
AnsweredOnce ==
  [][\A s \in 1..MaxScopes : (requests[s].owner # Nobody /\ results[requests[s].owner] = "good")
                               => requests'[s].owner = requests[s].owner]_reuseVars
=============================================================================
