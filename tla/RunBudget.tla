----------------------------- MODULE RunBudget -----------------------------
(***************************************************************************)
(* The budget of one agent run: its threads reserve model calls and tools  *)
(* before they make them and settle them with what the provider reports;   *)
(* a takeover, a cancellation or the first reason to close out may come    *)
(* between any two of these steps (semibrain_agent/harness.py, and         *)
(* close_pending_usage in control.py).                                     *)
(*                                                                         *)
(* As in RunLifecycle the attempt number stands for the fence.  The limits *)
(* are frozen by the first attempt and never change.                       *)
(***************************************************************************)
EXTENDS Integers, FiniteSets

CONSTANTS
  Threads,      \* worker threads, of whatever attempt
  Tools,        \* logical ids of tool calls, the same in every attempt
  Searches,     \* those counted against limits.searches
  ToolTokens,   \* tokens reserved for each tool; 0 when it uses no model
  Amounts,      \* what a model call may be estimated at
  Usages,       \* what a provider may report
  Capped,       \* FALSE: limits.tokens is None
  TokenLimit, FinalReserve, Rounds, ToolLimit, SearchLimit,   \* limits
  MaxAttempts   \* claims of a run; 3 in the code

ASSUME LimitsAssumption ==
  /\ Capped \in BOOLEAN
  /\ TokenLimit \in Nat /\ FinalReserve \in 0..TokenLimit
  /\ Rounds \in Nat /\ ToolLimit \in Nat /\ SearchLimit \in Nat /\ MaxAttempts \in Nat

ASSUME AmountsAssumption ==
  /\ Amounts \subseteq Nat /\ Usages \subseteq Nat
  /\ Searches \subseteq Tools /\ IsFiniteSet(Tools)
  /\ ToolTokens \in [Tools -> Nat]

Calls == 1..(Rounds + 2)   \* model calls, in the order of their admission

VARIABLES
  phase,         \* runs.status, as far as it matters here
  attempt,       \* runs.attempt, and the fence of that attempt
  live,          \* runs.lease_until is in the future
  closeout,      \* runs.closeout_reason
  reserved,      \* budget.reserved_tokens
  settled,       \* budget.settled_tokens
  unreconciled,  \* budget.unreconciled_calls
  calls,         \* budget.model_calls
  tools,         \* budget.tools
  searches,      \* budget.searches
  callStatus,    \* model_calls.status
  callFence,     \* model_calls.fence
  callCharge,    \* model_calls.reserved_tokens; once settled, its usage
  finals,        \* the calls admitted for the final report
  toolStatus,    \* tool_calls: is usage_settled set, and with what
  toolCharge,    \* tool_calls.reserved_tokens; once settled, its usage
  pc,            \* where each thread is
  fenceOf,       \* the fence of its harness, 0 when it has none
  held,          \* the model call it makes, 0 when it makes none
  using,         \* the tool call it makes, if it makes one
  excess         \* history: tokens reported above what was reserved for them

runVars     == <<phase, attempt, live, closeout>>
counterVars == <<reserved, settled, unreconciled, calls, tools, searches, excess>>
callVars    == <<callStatus, callFence, callCharge, finals>>
toolVars    == <<toolStatus, toolCharge>>
threadVars  == <<pc, fenceOf, held, using>>
vars == <<runVars, counterVars, callVars, toolVars, threadVars>>

RunTypes ==
  /\ phase \in {"queued", "running", "waiting", "ended", "cancelling", "closed"}
  /\ attempt \in 0..MaxAttempts
  /\ live \in BOOLEAN
  /\ closeout \in {"none", "exhausted", "other"}

CounterTypes ==
  /\ reserved \in Int /\ settled \in Nat /\ unreconciled \in Nat /\ excess \in Nat
  /\ calls \in 0..(Rounds + 2)
  /\ tools \in 0..ToolLimit
  /\ searches \in 0..SearchLimit

RecordTypes ==
  /\ callStatus \in [Calls -> {"none", "reserved", "unknown", "settled"}]
  /\ callFence \in [Calls -> 0..MaxAttempts]
  /\ callCharge \in [Calls -> Nat]
  /\ finals \subseteq Calls
  /\ toolStatus \in [Tools -> {"none", "reserved", "unknown", "settled"}]
  /\ toolCharge \in [Tools -> Nat]

ThreadTypes ==
  /\ pc \in [Threads -> {"idle", "opening", "free", "gated", "final", "closing", "calling", "tooling"}]
  /\ fenceOf \in [Threads -> 0..MaxAttempts]
  /\ held \in [Threads -> 0..(Rounds + 2)]
  /\ using \in [Threads -> SUBSET Tools]

TypeOK == RunTypes /\ CounterTypes /\ RecordTypes /\ ThreadTypes

Init ==
  /\ phase = "queued" /\ attempt = 0 /\ live = FALSE /\ closeout = "none"
  /\ reserved = 0 /\ settled = 0 /\ unreconciled = 0 /\ excess = 0
  /\ calls = 0 /\ tools = 0 /\ searches = 0
  /\ callStatus = [i \in Calls |-> "none"]
  /\ callFence = [i \in Calls |-> 0]
  /\ callCharge = [i \in Calls |-> 0]
  /\ finals = {}
  /\ toolStatus = [k \in Tools |-> "none"]
  /\ toolCharge = [k \in Tools |-> 0]
  /\ pc = [t \in Threads |-> "idle"]
  /\ fenceOf = [t \in Threads |-> 0]
  /\ held = [t \in Threads |-> 0]
  /\ using = [t \in Threads |-> {}]

-----------------------------------------------------------------------------
(* The run, as the budget sees it (RunLifecycle has the details). *)

\* A work tick claims the run and is about to initialize its harness.
Claim(t) ==
  /\ pc[t] = "idle"
  /\ phase = "queued" \/ (phase = "running" /\ ~live)
  /\ attempt < MaxAttempts
  /\ phase' = "running" /\ attempt' = attempt + 1 /\ live' = TRUE
  /\ pc' = [pc EXCEPT ![t] = "opening"]
  /\ fenceOf' = [fenceOf EXCEPT ![t] = attempt + 1]
  /\ UNCHANGED <<closeout, counterVars, callVars, toolVars, held, using>>

LeaseExpires ==
  /\ phase = "running" /\ live
  /\ live' = FALSE
  /\ UNCHANGED <<phase, attempt, closeout, counterVars, callVars, toolVars, threadVars>>

\* request_cancel().
Cancel ==
  /\ phase \in {"queued", "running", "waiting"}
  /\ phase' = "cancelling"
  /\ UNCHANGED <<attempt, live, closeout, counterVars, callVars, toolVars, threadVars>>

\* expire_exhausted().
Expire ==
  /\ phase = "running" /\ ~live /\ attempt >= MaxAttempts
  /\ phase' = "ended"
  /\ UNCHANGED <<attempt, live, closeout, counterVars, callVars, toolVars, threadVars>>

\* A harness's predicate(): the filter of all it reads and writes.
Current(t) == phase = "running" /\ fenceOf[t] = attempt /\ live

\* The thread returns, raises, or dies with its process.
Gone(t) ==
  /\ pc' = [pc EXCEPT ![t] = "idle"]
  /\ fenceOf' = [fenceOf EXCEPT ![t] = 0]
  /\ held' = [held EXCEPT ![t] = 0]
  /\ using' = [using EXCEPT ![t] = {}]

Leave(t) ==
  /\ pc[t] # "idle"
  /\ Gone(t)
  /\ UNCHANGED <<runVars, counterVars, callVars, toolVars>>

\* The report, a failure, or a question to the user.
Finish(t) ==
  /\ pc[t] = "free" /\ Current(t)
  /\ phase' \in {"ended", "waiting"}
  /\ Gone(t)
  /\ UNCHANGED <<attempt, live, closeout, counterVars, callVars, toolVars>>

\* Mutant of OpenTools: a tool whose usage is known to be unknown counts again.
OpenToolsAgain == {k \in Tools : toolStatus[k] \in {"reserved", "unknown"} /\ ToolTokens[k] > 0}

\* Model calls and tools whose usage has not been settled.
Outstanding == {i \in Calls : callStatus[i] = "reserved"}
OpenTools   == {k \in Tools : toolStatus[k] = "reserved" /\ ToolTokens[k] > 0}

\* close_pending_usage(), in the transaction that ends a cancellation.
Conclude ==
  /\ phase = "cancelling"
  /\ phase' = "closed"
  /\ callStatus' = [i \in Calls |-> IF i \in Outstanding THEN "unknown" ELSE callStatus[i]]
  /\ toolStatus' = [k \in Tools |-> IF k \in OpenTools THEN "unknown" ELSE toolStatus[k]]
  /\ unreconciled' = unreconciled + Cardinality(Outstanding) + Cardinality(OpenTools)
  /\ UNCHANGED <<attempt, live, closeout, reserved, settled, calls, tools, searches, excess,
                 callFence, callCharge, finals, toolCharge, threadVars>>

-----------------------------------------------------------------------------
(* A harness. *)

\* Calls that some other attempt has left behind.
Lost(t) == {i \in Outstanding : callFence[i] # fenceOf[t]}

\* Mutant of Initialize: the calls of lost attempts are left as they are.
InitializeOnly(t) ==
  /\ pc[t] = "opening" /\ Current(t)
  /\ pc' = [pc EXCEPT ![t] = "free"]
  /\ UNCHANGED <<runVars, counterVars, callVars, toolVars, fenceOf, held, using>>

\* initialize(): the counters are set once per run, calls of lost attempts lose
\* their chance to be settled; with a lost lease everything is undone.
Initialize(t) ==
  /\ pc[t] = "opening" /\ Current(t)
  /\ callStatus' = [i \in Calls |-> IF i \in Lost(t) THEN "unknown" ELSE callStatus[i]]
  /\ unreconciled' = unreconciled + Cardinality(Lost(t))
  /\ pc' = [pc EXCEPT ![t] = "free"]
  /\ UNCHANGED <<runVars, reserved, settled, calls, tools, searches, excess, callFence, callCharge,
                 finals, toolVars, fenceOf, held, using>>

\* A specialist's thread joins with the harness of a thread that has opened it.
Join(t, u) ==
  /\ pc[t] = "idle" /\ pc[u] \notin {"idle", "opening"}
  /\ pc' = [pc EXCEPT ![t] = "free"]
  /\ fenceOf' = [fenceOf EXCEPT ![t] = fenceOf[u]]
  /\ UNCHANGED <<runVars, counterVars, callVars, toolVars, held, using>>

\* token_limit(): what investigation leaves to the final report.
Ceiling(final) == TokenLimit - (IF final THEN 0 ELSE FinalReserve)

\* check(), and for anything but the final report investigation_gate().
Gate(t, final) ==
  /\ pc[t] = "free" /\ Current(t)
  /\ ~final => closeout = "none" /\ (Capped => reserved + settled < Ceiling(FALSE))
  /\ pc' = [pc EXCEPT ![t] = IF final THEN "final" ELSE "gated"]
  /\ UNCHANGED <<runVars, counterVars, callVars, toolVars, fenceOf, held, using>>

\* The gate finds time or tokens gone, or the runner has its answer: request_closeout().
StopInvestigation(t) ==
  /\ pc[t] = "free" /\ Current(t)
  /\ \E reason \in {"exhausted", "other"} : closeout' = IF closeout = "none" THEN reason ELSE closeout
  /\ UNCHANGED <<phase, attempt, live, counterVars, callVars, toolVars, threadVars>>

\* Mutant of Affordable: what is admitted now is not counted.
AffordableBefore(amount, final) == Capped => reserved + settled < Ceiling(final)

\* The token part of an admission's filter.
Affordable(amount, final) == Capped => reserved + settled + amount <= Ceiling(final)

\* Mutant of MayCall: one call too many.
MayCallOneMore(amount, final) ==
  /\ final \/ closeout = "none"
  /\ calls <= Rounds + (IF final THEN 2 ELSE 0)
  /\ Affordable(amount, final)

\* The filter of model_reserve(): it is evaluated again when the counters are written.
MayCall(amount, final) ==
  /\ final \/ closeout = "none"
  /\ calls < Rounds + (IF final THEN 2 ELSE 0)
  /\ Affordable(amount, final)

AdmitCall(t, amount, final) ==
  /\ pc[t] = (IF final THEN "final" ELSE "gated") /\ Current(t)
  /\ MayCall(amount, final)
  /\ reserved' = reserved + amount
  /\ calls' = calls + 1
  /\ callStatus' = [callStatus EXCEPT ![calls + 1] = "reserved"]
  /\ callFence' = [callFence EXCEPT ![calls + 1] = fenceOf[t]]
  /\ callCharge' = [callCharge EXCEPT ![calls + 1] = amount]
  /\ finals' = IF final THEN finals \cup {calls + 1} ELSE finals
  /\ pc' = [pc EXCEPT ![t] = "calling"]
  /\ held' = [held EXCEPT ![t] = calls + 1]
  /\ UNCHANGED <<runVars, settled, unreconciled, tools, searches, excess, toolVars, fenceOf, using>>

\* Refused: an investigation call goes on to request_closeout().
RefuseCall(t, amount, final) ==
  /\ pc[t] = (IF final THEN "final" ELSE "gated") /\ Current(t)
  /\ ~MayCall(amount, final)
  /\ pc' = [pc EXCEPT ![t] = IF final THEN "free" ELSE "closing"]
  /\ UNCHANGED <<runVars, counterVars, callVars, toolVars, fenceOf, held, using>>

\* request_closeout() after a refusal: the first reason stays.
RequestCloseout(t) ==
  /\ pc[t] = "closing" /\ Current(t)
  /\ closeout' = IF closeout = "none" THEN "exhausted" ELSE closeout
  /\ pc' = [pc EXCEPT ![t] = "free"]
  /\ UNCHANGED <<phase, attempt, live, counterVars, callVars, toolVars, fenceOf, held, using>>

\* The call has been settled and the thread goes on.
Done(t) ==
  /\ pc' = [pc EXCEPT ![t] = "free"]
  /\ held' = [held EXCEPT ![t] = 0]
  /\ using' = [using EXCEPT ![t] = {}]
  /\ UNCHANGED fenceOf

Excess(usage, charge) == IF usage > charge THEN usage - charge ELSE 0

\* settle(): the call's own fence, and only while it is still reserved (as the call
\* of a thread that is still current always is).
Mine(t) == held[t] \in Calls /\ callStatus[held[t]] = "reserved" /\ callFence[held[t]] = fenceOf[t]

\* The provider's usage replaces the reservation ...
SettleCall(t, usage) ==
  /\ pc[t] = "calling" /\ Current(t) /\ Mine(t)
  /\ callStatus' = [callStatus EXCEPT ![held[t]] = "settled"]
  /\ callCharge' = [callCharge EXCEPT ![held[t]] = usage]
  /\ reserved' = reserved - callCharge[held[t]]
  /\ settled' = settled + usage
  /\ excess' = excess + Excess(usage, callCharge[held[t]])
  /\ Done(t)
  /\ UNCHANGED <<runVars, unreconciled, calls, tools, searches, callFence, finals, toolVars>>

\* ... or nothing is known of it, and the reservation stays charged.
MissCall(t) ==
  /\ pc[t] = "calling" /\ Current(t) /\ Mine(t)
  /\ callStatus' = [callStatus EXCEPT ![held[t]] = "unknown"]
  /\ unreconciled' = unreconciled + 1
  /\ Done(t)
  /\ UNCHANGED <<runVars, reserved, settled, calls, tools, searches, excess, callFence, callCharge,
                 finals, toolVars>>

-----------------------------------------------------------------------------
(* Tools.  A successor finds the row of a logical call its predecessor admitted. *)

\* Mutant of MayUse: the gate's look at closeout_reason is taken to be enough.
MayUseAfterGate(k) ==
  /\ tools < ToolLimit
  /\ k \in Searches => searches < SearchLimit
  /\ ToolTokens[k] > 0 => Affordable(ToolTokens[k], FALSE)

\* The filter of reserve_tool().
MayUse(k) ==
  /\ closeout = "none"
  /\ tools < ToolLimit
  /\ k \in Searches => searches < SearchLimit
  /\ ToolTokens[k] > 0 => Affordable(ToolTokens[k], FALSE)

\* Only tools that use a model somewhere else report a usage to settle.
Use(t, k) ==
  /\ pc' = [pc EXCEPT ![t] = IF ToolTokens[k] > 0 THEN "tooling" ELSE "free"]
  /\ using' = [using EXCEPT ![t] = IF ToolTokens[k] > 0 THEN {k} ELSE {}]
  /\ UNCHANGED <<fenceOf, held>>

AdmitTool(t, k) ==
  /\ pc[t] = "gated" /\ Current(t)
  /\ toolStatus[k] = "none" /\ MayUse(k)
  /\ reserved' = reserved + ToolTokens[k]
  /\ tools' = tools + 1
  /\ searches' = IF k \in Searches THEN searches + 1 ELSE searches
  /\ toolStatus' = [toolStatus EXCEPT ![k] = "reserved"]
  /\ toolCharge' = [toolCharge EXCEPT ![k] = ToolTokens[k]]
  /\ Use(t, k)
  /\ UNCHANGED <<runVars, settled, unreconciled, calls, excess, callVars>>

\* An admitted call is repeated without asking whether the thread is still current.
RepeatTool(t, k) ==
  /\ pc[t] = "gated" /\ toolStatus[k] # "none"
  /\ Use(t, k)
  /\ UNCHANGED <<runVars, counterVars, callVars, toolVars>>

RefuseTool(t, k) ==
  /\ pc[t] = "gated" /\ toolStatus[k] = "none"
  /\ ~(Current(t) /\ MayUse(k))
  /\ pc' = [pc EXCEPT ![t] = "closing"]
  /\ UNCHANGED <<runVars, counterVars, callVars, toolVars, fenceOf, held, using>>

\* Mutant of SettleTool: it does not ask whether the usage has been settled.
SettleToolAgain(t, k, usage) ==
  /\ pc[t] = "tooling" /\ k \in using[t] /\ Current(t)
  /\ toolStatus' = [toolStatus EXCEPT ![k] = "settled"]
  /\ toolCharge' = [toolCharge EXCEPT ![k] = usage]
  /\ reserved' = reserved - toolCharge[k]
  /\ settled' = settled + usage
  /\ excess' = excess + Excess(usage, toolCharge[k])
  /\ Done(t)
  /\ UNCHANGED <<runVars, unreconciled, calls, tools, searches, callVars>>

\* settle_external_tool(): once per logical call, by whichever attempt comes first.
SettleTool(t, k, usage) ==
  /\ pc[t] = "tooling" /\ k \in using[t] /\ Current(t) /\ toolStatus[k] = "reserved"
  /\ toolStatus' = [toolStatus EXCEPT ![k] = "settled"]
  /\ toolCharge' = [toolCharge EXCEPT ![k] = usage]
  /\ reserved' = reserved - toolCharge[k]
  /\ settled' = settled + usage
  /\ excess' = excess + Excess(usage, toolCharge[k])
  /\ Done(t)
  /\ UNCHANGED <<runVars, unreconciled, calls, tools, searches, callVars>>

MissTool(t, k) ==
  /\ pc[t] = "tooling" /\ k \in using[t] /\ Current(t) /\ toolStatus[k] = "reserved"
  /\ toolStatus' = [toolStatus EXCEPT ![k] = "unknown"]
  /\ unreconciled' = unreconciled + 1
  /\ Done(t)
  /\ UNCHANGED <<runVars, reserved, settled, calls, tools, searches, excess, callVars, toolCharge>>

\* It has been settled already, by this attempt or an earlier one.
SettledBefore(t, k) ==
  /\ pc[t] = "tooling" /\ k \in using[t] /\ Current(t) /\ toolStatus[k] # "reserved"
  /\ Done(t)
  /\ UNCHANGED <<runVars, counterVars, callVars, toolVars>>

-----------------------------------------------------------------------------
ThreadStep(t) ==
  \/ Claim(t) \/ Leave(t) \/ Finish(t) \/ Initialize(t)
  \/ \E u \in Threads : Join(t, u)
  \/ \E final \in BOOLEAN :
       \/ Gate(t, final)
       \/ \E amount \in Amounts : AdmitCall(t, amount, final) \/ RefuseCall(t, amount, final)
  \/ StopInvestigation(t) \/ RequestCloseout(t)
  \/ \E usage \in Usages : SettleCall(t, usage)
  \/ MissCall(t)
  \/ \E k \in Tools :
       \/ AdmitTool(t, k) \/ RepeatTool(t, k) \/ RefuseTool(t, k)
       \/ \E usage \in Usages : SettleTool(t, k, usage)
       \/ MissTool(t, k) \/ SettledBefore(t, k)

Next == LeaseExpires \/ Cancel \/ Expire \/ Conclude \/ \E t \in Threads : ThreadStep(t)

Spec == Init /\ [][Next]_vars

-----------------------------------------------------------------------------
(* Properties. *)

\* The tokens, one by one, that the rows with a status in s are charged with.
Tokens(status, charge, s) == UNION {{r} \X (1..charge[r]) : r \in {i \in DOMAIN status : status[i] \in s}}
Charged(s) == Cardinality(Tokens(callStatus, callCharge, s)) + Cardinality(Tokens(toolStatus, toolCharge, s))

\* The run's counters are the sums over its calls: whatever is reserved or of unknown
\* usage stays charged at its reservation, whatever is settled at its usage; no
\* settlement, takeover or repetition charges a call twice or forgets it
\* (harness.py:88-103, 247-255, 322-332).
Accounting ==
  /\ reserved = Charged({"reserved", "unknown"})
  /\ settled = Charged({"settled"})

\* However many threads and attempts reserve at the same time, the tokens reserved and
\* settled exceed the limit by no more than what providers used beyond their
\* reservations; and before the final report they leave its reserve alone
\* (harness.py:150-163, 281-290).
NeverOverspent ==
  Capped =>
    /\ reserved + settled <= TokenLimit + excess
    /\ finals = {} => reserved + settled <= TokenLimit - FinalReserve + excess

Unknown == Cardinality({i \in Calls : callStatus[i] = "unknown"})
         + Cardinality({k \in Tools : toolStatus[k] = "unknown"})

\* unreconciled_calls counts every call of unknown usage once, also those of crashed
\* attempts and of confirmed stops (harness.py:88-103, control.py:78-92).
UnknownCounted == unreconciled = Unknown

\* Nothing stays open that nobody can settle: once an attempt has its harness, no
\* call of an earlier one is reserved, and after a cancellation none is
\* (harness.py:87-103, control.py:78-92).
NothingLeftOpen ==
  /\ \A t \in Threads : pc[t] \notin {"idle", "opening"} /\ fenceOf[t] = attempt =>
       \A i \in Outstanding : callFence[i] = attempt
  /\ phase = "closed" => Outstanding = {} /\ OpenTools = {}

\* After the first reason to close out nothing of the investigation is admitted any
\* more, by threads that had passed the gate before it or by a later attempt, and the
\* reason stays (harness.py:145-149, 190-198, 277).
ClosedOut ==
  [][closeout # "none" =>
       /\ closeout' = closeout
       /\ tools' = tools
       /\ calls' # calls => calls' \in finals']_vars

=============================================================================
