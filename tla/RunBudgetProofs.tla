-------------------------- MODULE RunBudgetProofs --------------------------
(***************************************************************************)
(* Proofs about RunBudget for every set of threads and tools, every bound  *)
(* on attempts, rounds and tools, and every estimate and usage.            *)
(*                                                                         *)
(* The argument: an admission is filtered in the transaction that charges  *)
(* it, and a settlement adds to the charge no more than what the excess    *)
(* records (NeverOverspent).  A call is marked unknown in the transaction  *)
(* that counts it, and an admission opens a row that was not there before  *)
(* (Fresh), so the count is exact; tokens are counted one by one, so a row *)
(* that changes changes the sums by its own charge (RowChanges).  Only the *)
(* current attempt reserves, and fences are not issued before their        *)
(* attempt (Fenced), so what a harness finds of its predecessors when it   *)
(* opens is all there will ever be.                                        *)
(***************************************************************************)
EXTENDS MCRunBudget, FiniteSetTheorems, TLAPS

-----------------------------------------------------------------------------
(* The inductive invariant. *)

\* Calls are admitted in the order of their numbers.
Fresh == \A i \in Calls : i > calls => callStatus[i] = "none"

\* No fence is ahead of the run's attempt.
Fenced ==
  /\ \A t \in Threads : fenceOf[t] <= attempt
  /\ phase = "queued" => attempt = 0

BudgetInv == TypeOK /\ Fresh /\ Fenced /\ NeverOverspent /\ UnknownCounted /\ NothingLeftOpen /\ Accounting

-----------------------------------------------------------------------------
(* Types. *)

\* Calls and tools are finitely many, and so are the parts of them that are counted.
LEMMA FiniteParts ==
  /\ IsFiniteSet({i \in Calls : callStatus[i] = "unknown"})
  /\ IsFiniteSet({k \in Tools : toolStatus[k] = "unknown"})
  /\ IsFiniteSet(Outstanding) /\ IsFiniteSet(OpenTools)
  /\ \A t \in Threads : IsFiniteSet(Lost(t))
<1>1. IsFiniteSet(Calls) /\ IsFiniteSet(Tools)
  BY LimitsAssumption, AmountsAssumption, FS_Interval DEF Calls
<1> QED
  BY <1>1, FS_Subset DEF Outstanding, OpenTools, Lost

\* Two parts of a whole that have nothing in common are counted by counting each.
LEMMA CountBoth ==
  ASSUME NEW S, NEW T, IsFiniteSet(S), IsFiniteSet(T), S \cap T = {}
  PROVE  Cardinality(S \cup T) = Cardinality(S) + Cardinality(T)
<1>1. Cardinality(S) \in Nat /\ Cardinality(T) \in Nat /\ Cardinality({}) = 0
  BY FS_CardinalityType, FS_EmptySet
<1>2. Cardinality(S \cup T) = Cardinality(S) + Cardinality(T) - Cardinality(S \cap T)
  BY FS_Union
<1>3. Cardinality(S \cap T) = 0
  BY <1>1
<1> QED
  BY <1>1, <1>2, <1>3

\* Every step keeps the types of the run's row.
LEMMA RunTypeStep ==
  ASSUME TypeOK, [Next]_vars
  PROVE  RunTypes'
<1> USE LimitsAssumption, AmountsAssumption DEF TypeOK, RunTypes, CounterTypes, RecordTypes,
       ThreadTypes, Calls, vars, runVars,
       counterVars, callVars, toolVars, threadVars
<1>1. ASSUME LeaseExpires PROVE RunTypes'
  BY <1>1 DEF LeaseExpires
<1>2. ASSUME Cancel PROVE RunTypes'
  BY <1>2 DEF Cancel
<1>3. ASSUME Expire PROVE RunTypes'
  BY <1>3 DEF Expire
<1>4. ASSUME Conclude PROVE RunTypes'
  BY <1>4 DEF Conclude
<1>5. ASSUME NEW t \in Threads, Claim(t) PROVE RunTypes'
  BY <1>5 DEF Claim
<1>6. ASSUME NEW t \in Threads, Leave(t) PROVE RunTypes'
  BY <1>6 DEF Leave, Gone
<1>7. ASSUME NEW t \in Threads, Finish(t) PROVE RunTypes'
  BY <1>7 DEF Finish, Gone
<1>8. ASSUME NEW t \in Threads, Initialize(t) PROVE RunTypes'
  BY <1>8 DEF Initialize
<1>9. ASSUME NEW t \in Threads, NEW u \in Threads, Join(t, u) PROVE RunTypes'
  BY <1>9 DEF Join
<1>10. ASSUME NEW t \in Threads, NEW final \in BOOLEAN, Gate(t, final) PROVE RunTypes'
  BY <1>10 DEF Gate
<1>11. ASSUME NEW t \in Threads, NEW final \in BOOLEAN, NEW amount \in Amounts, AdmitCall(t, amount,
       final) PROVE RunTypes'
  BY <1>11 DEF AdmitCall, MayCall
<1>12. ASSUME NEW t \in Threads, NEW final \in BOOLEAN, NEW amount \in Amounts, RefuseCall(t, amount,
       final) PROVE RunTypes'
  BY <1>12 DEF RefuseCall
<1>13. ASSUME NEW t \in Threads, StopInvestigation(t) PROVE RunTypes'
  BY <1>13 DEF StopInvestigation
<1>14. ASSUME NEW t \in Threads, RequestCloseout(t) PROVE RunTypes'
  BY <1>14 DEF RequestCloseout
<1>15. ASSUME NEW t \in Threads, NEW usage \in Usages, SettleCall(t, usage) PROVE RunTypes'
  BY <1>15 DEF SettleCall, Done, Mine
<1>16. ASSUME NEW t \in Threads, MissCall(t) PROVE RunTypes'
  BY <1>16 DEF MissCall, Done, Mine
<1>17. ASSUME NEW t \in Threads, NEW k \in Tools, AdmitTool(t, k) PROVE RunTypes'
  BY <1>17 DEF AdmitTool, Use
<1>18. ASSUME NEW t \in Threads, NEW k \in Tools, RepeatTool(t, k) PROVE RunTypes'
  BY <1>18 DEF RepeatTool, Use
<1>19. ASSUME NEW t \in Threads, NEW k \in Tools, RefuseTool(t, k) PROVE RunTypes'
  BY <1>19 DEF RefuseTool
<1>20. ASSUME NEW t \in Threads, NEW k \in Tools, NEW usage \in Usages, SettleTool(t, k,
       usage) PROVE RunTypes'
  BY <1>20 DEF SettleTool, Done
<1>21. ASSUME NEW t \in Threads, NEW k \in Tools, MissTool(t, k) PROVE RunTypes'
  BY <1>21 DEF MissTool, Done
<1>22. ASSUME NEW t \in Threads, NEW k \in Tools, SettledBefore(t, k) PROVE RunTypes'
  BY <1>22 DEF SettledBefore, Done
<1>23. CASE UNCHANGED vars
  BY <1>23
<1> QED
  BY <1>1, <1>2, <1>3, <1>4, <1>5, <1>6, <1>7, <1>8, <1>9, <1>10, <1>11, <1>12, <1>13, <1>14, <1>15,
       <1>16, <1>17, <1>18, <1>19, <1>20, <1>21, <1>22, <1>23 DEF Next, ThreadStep

\* Every step keeps the types, and with them the limits, of the counters.
LEMMA CounterTypeStep ==
  ASSUME TypeOK, [Next]_vars
  PROVE  CounterTypes'
<1> USE LimitsAssumption, AmountsAssumption DEF TypeOK, RunTypes, CounterTypes, RecordTypes,
       ThreadTypes, Calls, vars, runVars,
       counterVars, callVars, toolVars, threadVars
<1>1. ASSUME LeaseExpires PROVE CounterTypes'
  BY <1>1 DEF LeaseExpires
<1>2. ASSUME Cancel PROVE CounterTypes'
  BY <1>2 DEF Cancel
<1>3. ASSUME Expire PROVE CounterTypes'
  BY <1>3 DEF Expire
<1>4. ASSUME Conclude PROVE CounterTypes'
  <2>1. Cardinality(Outstanding) \in Nat /\ Cardinality(OpenTools) \in Nat
    BY FiniteParts, FS_CardinalityType
  <2> QED
    BY <1>4, <2>1 DEF Conclude
<1>5. ASSUME NEW t \in Threads, Claim(t) PROVE CounterTypes'
  BY <1>5 DEF Claim
<1>6. ASSUME NEW t \in Threads, Leave(t) PROVE CounterTypes'
  BY <1>6 DEF Leave, Gone
<1>7. ASSUME NEW t \in Threads, Finish(t) PROVE CounterTypes'
  BY <1>7 DEF Finish, Gone
<1>8. ASSUME NEW t \in Threads, Initialize(t) PROVE CounterTypes'
  <2>1. Cardinality(Lost(t)) \in Nat
    BY FiniteParts, FS_CardinalityType
  <2> QED
    BY <1>8, <2>1 DEF Initialize
<1>9. ASSUME NEW t \in Threads, NEW u \in Threads, Join(t, u) PROVE CounterTypes'
  BY <1>9 DEF Join
<1>10. ASSUME NEW t \in Threads, NEW final \in BOOLEAN, Gate(t, final) PROVE CounterTypes'
  BY <1>10 DEF Gate
<1>11. ASSUME NEW t \in Threads, NEW final \in BOOLEAN, NEW amount \in Amounts, AdmitCall(t, amount,
       final) PROVE CounterTypes'
  BY <1>11 DEF AdmitCall, MayCall
<1>12. ASSUME NEW t \in Threads, NEW final \in BOOLEAN, NEW amount \in Amounts, RefuseCall(t, amount,
       final) PROVE CounterTypes'
  BY <1>12 DEF RefuseCall
<1>13. ASSUME NEW t \in Threads, StopInvestigation(t) PROVE CounterTypes'
  BY <1>13 DEF StopInvestigation
<1>14. ASSUME NEW t \in Threads, RequestCloseout(t) PROVE CounterTypes'
  BY <1>14 DEF RequestCloseout
<1>15. ASSUME NEW t \in Threads, NEW usage \in Usages, SettleCall(t, usage) PROVE CounterTypes'
  BY <1>15, SMTT(30) DEF SettleCall, Done, Mine, Excess
<1>16. ASSUME NEW t \in Threads, MissCall(t) PROVE CounterTypes'
  BY <1>16 DEF MissCall, Done, Mine
<1>17. ASSUME NEW t \in Threads, NEW k \in Tools, AdmitTool(t, k) PROVE CounterTypes'
  BY <1>17 DEF AdmitTool, Use, MayUse
<1>18. ASSUME NEW t \in Threads, NEW k \in Tools, RepeatTool(t, k) PROVE CounterTypes'
  BY <1>18 DEF RepeatTool, Use
<1>19. ASSUME NEW t \in Threads, NEW k \in Tools, RefuseTool(t, k) PROVE CounterTypes'
  BY <1>19 DEF RefuseTool
<1>20. ASSUME NEW t \in Threads, NEW k \in Tools, NEW usage \in Usages, SettleTool(t, k,
       usage) PROVE CounterTypes'
  BY <1>20, SMTT(30) DEF SettleTool, Done, Excess
<1>21. ASSUME NEW t \in Threads, NEW k \in Tools, MissTool(t, k) PROVE CounterTypes'
  BY <1>21 DEF MissTool, Done
<1>22. ASSUME NEW t \in Threads, NEW k \in Tools, SettledBefore(t, k) PROVE CounterTypes'
  BY <1>22 DEF SettledBefore, Done
<1>23. CASE UNCHANGED vars
  BY <1>23
<1> QED
  BY <1>1, <1>2, <1>3, <1>4, <1>5, <1>6, <1>7, <1>8, <1>9, <1>10, <1>11, <1>12, <1>13, <1>14, <1>15,
       <1>16, <1>17, <1>18, <1>19, <1>20, <1>21, <1>22, <1>23 DEF Next, ThreadStep

\* Every step keeps the types of the records of calls and tools.
LEMMA RecordTypeStep ==
  ASSUME TypeOK, [Next]_vars
  PROVE  RecordTypes'
<1> USE LimitsAssumption, AmountsAssumption DEF TypeOK, RunTypes, CounterTypes, RecordTypes,
       ThreadTypes, Calls, vars, runVars,
       counterVars, callVars, toolVars, threadVars
<1>1. ASSUME LeaseExpires PROVE RecordTypes'
  BY <1>1 DEF LeaseExpires
<1>2. ASSUME Cancel PROVE RecordTypes'
  BY <1>2 DEF Cancel
<1>3. ASSUME Expire PROVE RecordTypes'
  BY <1>3 DEF Expire
<1>4. ASSUME Conclude PROVE RecordTypes'
  BY <1>4 DEF Conclude
<1>5. ASSUME NEW t \in Threads, Claim(t) PROVE RecordTypes'
  BY <1>5 DEF Claim
<1>6. ASSUME NEW t \in Threads, Leave(t) PROVE RecordTypes'
  BY <1>6 DEF Leave, Gone
<1>7. ASSUME NEW t \in Threads, Finish(t) PROVE RecordTypes'
  BY <1>7 DEF Finish, Gone
<1>8. ASSUME NEW t \in Threads, Initialize(t) PROVE RecordTypes'
  BY <1>8 DEF Initialize
<1>9. ASSUME NEW t \in Threads, NEW u \in Threads, Join(t, u) PROVE RecordTypes'
  BY <1>9 DEF Join
<1>10. ASSUME NEW t \in Threads, NEW final \in BOOLEAN, Gate(t, final) PROVE RecordTypes'
  BY <1>10 DEF Gate
<1>11. ASSUME NEW t \in Threads, NEW final \in BOOLEAN, NEW amount \in Amounts, AdmitCall(t, amount,
       final) PROVE RecordTypes'
  BY <1>11 DEF AdmitCall, MayCall
<1>12. ASSUME NEW t \in Threads, NEW final \in BOOLEAN, NEW amount \in Amounts, RefuseCall(t, amount,
       final) PROVE RecordTypes'
  BY <1>12 DEF RefuseCall
<1>13. ASSUME NEW t \in Threads, StopInvestigation(t) PROVE RecordTypes'
  BY <1>13 DEF StopInvestigation
<1>14. ASSUME NEW t \in Threads, RequestCloseout(t) PROVE RecordTypes'
  BY <1>14 DEF RequestCloseout
<1>15. ASSUME NEW t \in Threads, NEW usage \in Usages, SettleCall(t, usage) PROVE RecordTypes'
  BY <1>15 DEF SettleCall, Done, Mine
<1>16. ASSUME NEW t \in Threads, MissCall(t) PROVE RecordTypes'
  BY <1>16 DEF MissCall, Done, Mine
<1>17. ASSUME NEW t \in Threads, NEW k \in Tools, AdmitTool(t, k) PROVE RecordTypes'
  BY <1>17 DEF AdmitTool, Use
<1>18. ASSUME NEW t \in Threads, NEW k \in Tools, RepeatTool(t, k) PROVE RecordTypes'
  BY <1>18 DEF RepeatTool, Use
<1>19. ASSUME NEW t \in Threads, NEW k \in Tools, RefuseTool(t, k) PROVE RecordTypes'
  BY <1>19 DEF RefuseTool
<1>20. ASSUME NEW t \in Threads, NEW k \in Tools, NEW usage \in Usages, SettleTool(t, k,
       usage) PROVE RecordTypes'
  BY <1>20 DEF SettleTool, Done
<1>21. ASSUME NEW t \in Threads, NEW k \in Tools, MissTool(t, k) PROVE RecordTypes'
  BY <1>21 DEF MissTool, Done
<1>22. ASSUME NEW t \in Threads, NEW k \in Tools, SettledBefore(t, k) PROVE RecordTypes'
  BY <1>22 DEF SettledBefore, Done
<1>23. CASE UNCHANGED vars
  BY <1>23
<1> QED
  BY <1>1, <1>2, <1>3, <1>4, <1>5, <1>6, <1>7, <1>8, <1>9, <1>10, <1>11, <1>12, <1>13, <1>14, <1>15,
       <1>16, <1>17, <1>18, <1>19, <1>20, <1>21, <1>22, <1>23 DEF Next, ThreadStep

\* Every step keeps the types of the threads.
LEMMA ThreadTypeStep ==
  ASSUME TypeOK, [Next]_vars
  PROVE  ThreadTypes'
<1> USE LimitsAssumption, AmountsAssumption DEF TypeOK, RunTypes, CounterTypes, RecordTypes,
       ThreadTypes, Calls, vars, runVars,
       counterVars, callVars, toolVars, threadVars
<1>1. ASSUME LeaseExpires PROVE ThreadTypes'
  BY <1>1 DEF LeaseExpires
<1>2. ASSUME Cancel PROVE ThreadTypes'
  BY <1>2 DEF Cancel
<1>3. ASSUME Expire PROVE ThreadTypes'
  BY <1>3 DEF Expire
<1>4. ASSUME Conclude PROVE ThreadTypes'
  BY <1>4 DEF Conclude
<1>5. ASSUME NEW t \in Threads, Claim(t) PROVE ThreadTypes'
  BY <1>5 DEF Claim
<1>6. ASSUME NEW t \in Threads, Leave(t) PROVE ThreadTypes'
  BY <1>6 DEF Leave, Gone
<1>7. ASSUME NEW t \in Threads, Finish(t) PROVE ThreadTypes'
  BY <1>7 DEF Finish, Gone
<1>8. ASSUME NEW t \in Threads, Initialize(t) PROVE ThreadTypes'
  BY <1>8 DEF Initialize
<1>9. ASSUME NEW t \in Threads, NEW u \in Threads, Join(t, u) PROVE ThreadTypes'
  BY <1>9 DEF Join
<1>10. ASSUME NEW t \in Threads, NEW final \in BOOLEAN, Gate(t, final) PROVE ThreadTypes'
  BY <1>10 DEF Gate
<1>11. ASSUME NEW t \in Threads, NEW final \in BOOLEAN, NEW amount \in Amounts, AdmitCall(t, amount,
       final) PROVE ThreadTypes'
  BY <1>11 DEF AdmitCall, MayCall
<1>12. ASSUME NEW t \in Threads, NEW final \in BOOLEAN, NEW amount \in Amounts, RefuseCall(t, amount,
       final) PROVE ThreadTypes'
  BY <1>12 DEF RefuseCall
<1>13. ASSUME NEW t \in Threads, StopInvestigation(t) PROVE ThreadTypes'
  BY <1>13 DEF StopInvestigation
<1>14. ASSUME NEW t \in Threads, RequestCloseout(t) PROVE ThreadTypes'
  BY <1>14 DEF RequestCloseout
<1>15. ASSUME NEW t \in Threads, NEW usage \in Usages, SettleCall(t, usage) PROVE ThreadTypes'
  BY <1>15 DEF SettleCall, Done, Mine
<1>16. ASSUME NEW t \in Threads, MissCall(t) PROVE ThreadTypes'
  BY <1>16 DEF MissCall, Done, Mine
<1>17. ASSUME NEW t \in Threads, NEW k \in Tools, AdmitTool(t, k) PROVE ThreadTypes'
  BY <1>17 DEF AdmitTool, Use
<1>18. ASSUME NEW t \in Threads, NEW k \in Tools, RepeatTool(t, k) PROVE ThreadTypes'
  BY <1>18 DEF RepeatTool, Use
<1>19. ASSUME NEW t \in Threads, NEW k \in Tools, RefuseTool(t, k) PROVE ThreadTypes'
  BY <1>19 DEF RefuseTool
<1>20. ASSUME NEW t \in Threads, NEW k \in Tools, NEW usage \in Usages, SettleTool(t, k,
       usage) PROVE ThreadTypes'
  BY <1>20 DEF SettleTool, Done
<1>21. ASSUME NEW t \in Threads, NEW k \in Tools, MissTool(t, k) PROVE ThreadTypes'
  BY <1>21 DEF MissTool, Done
<1>22. ASSUME NEW t \in Threads, NEW k \in Tools, SettledBefore(t, k) PROVE ThreadTypes'
  BY <1>22 DEF SettledBefore, Done
<1>23. CASE UNCHANGED vars
  BY <1>23
<1> QED
  BY <1>1, <1>2, <1>3, <1>4, <1>5, <1>6, <1>7, <1>8, <1>9, <1>10, <1>11, <1>12, <1>13, <1>14, <1>15,
       <1>16, <1>17, <1>18, <1>19, <1>20, <1>21, <1>22, <1>23 DEF Next, ThreadStep

-----------------------------------------------------------------------------
(* Every step keeps the rest of the invariant. *)

\* An admission takes the next number.
LEMMA FreshStep ==
  ASSUME TypeOK, Fresh, [Next]_vars
  PROVE  Fresh'
<1> USE LimitsAssumption, AmountsAssumption DEF TypeOK, RunTypes, CounterTypes, RecordTypes,
       ThreadTypes, Calls, vars, runVars,
       counterVars, callVars, toolVars, threadVars, Fresh
<1>1. ASSUME LeaseExpires PROVE Fresh'
  BY <1>1 DEF LeaseExpires
<1>2. ASSUME Cancel PROVE Fresh'
  BY <1>2 DEF Cancel
<1>3. ASSUME Expire PROVE Fresh'
  BY <1>3 DEF Expire
<1>4. ASSUME Conclude PROVE Fresh'
  BY <1>4 DEF Conclude, Outstanding
<1>5. ASSUME NEW t \in Threads, Claim(t) PROVE Fresh'
  BY <1>5 DEF Claim
<1>6. ASSUME NEW t \in Threads, Leave(t) PROVE Fresh'
  BY <1>6 DEF Leave, Gone
<1>7. ASSUME NEW t \in Threads, Finish(t) PROVE Fresh'
  BY <1>7 DEF Finish, Gone
<1>8. ASSUME NEW t \in Threads, Initialize(t) PROVE Fresh'
  BY <1>8 DEF Initialize, Lost, Outstanding
<1>9. ASSUME NEW t \in Threads, NEW u \in Threads, Join(t, u) PROVE Fresh'
  BY <1>9 DEF Join
<1>10. ASSUME NEW t \in Threads, NEW final \in BOOLEAN, Gate(t, final) PROVE Fresh'
  BY <1>10 DEF Gate
<1>11. ASSUME NEW t \in Threads, NEW final \in BOOLEAN, NEW amount \in Amounts, AdmitCall(t, amount,
       final) PROVE Fresh'
  BY <1>11 DEF AdmitCall, MayCall
<1>12. ASSUME NEW t \in Threads, NEW final \in BOOLEAN, NEW amount \in Amounts, RefuseCall(t, amount,
       final) PROVE Fresh'
  BY <1>12 DEF RefuseCall
<1>13. ASSUME NEW t \in Threads, StopInvestigation(t) PROVE Fresh'
  BY <1>13 DEF StopInvestigation
<1>14. ASSUME NEW t \in Threads, RequestCloseout(t) PROVE Fresh'
  BY <1>14 DEF RequestCloseout
<1>15. ASSUME NEW t \in Threads, NEW usage \in Usages, SettleCall(t, usage) PROVE Fresh'
  BY <1>15 DEF SettleCall, Done, Mine
<1>16. ASSUME NEW t \in Threads, MissCall(t) PROVE Fresh'
  BY <1>16 DEF MissCall, Done, Mine
<1>17. ASSUME NEW t \in Threads, NEW k \in Tools, AdmitTool(t, k) PROVE Fresh'
  BY <1>17 DEF AdmitTool, Use
<1>18. ASSUME NEW t \in Threads, NEW k \in Tools, RepeatTool(t, k) PROVE Fresh'
  BY <1>18 DEF RepeatTool, Use
<1>19. ASSUME NEW t \in Threads, NEW k \in Tools, RefuseTool(t, k) PROVE Fresh'
  BY <1>19 DEF RefuseTool
<1>20. ASSUME NEW t \in Threads, NEW k \in Tools, NEW usage \in Usages, SettleTool(t, k,
       usage) PROVE Fresh'
  BY <1>20 DEF SettleTool, Done
<1>21. ASSUME NEW t \in Threads, NEW k \in Tools, MissTool(t, k) PROVE Fresh'
  BY <1>21 DEF MissTool, Done
<1>22. ASSUME NEW t \in Threads, NEW k \in Tools, SettledBefore(t, k) PROVE Fresh'
  BY <1>22 DEF SettledBefore, Done
<1>23. CASE UNCHANGED vars
  BY <1>23
<1> QED
  BY <1>1, <1>2, <1>3, <1>4, <1>5, <1>6, <1>7, <1>8, <1>9, <1>10, <1>11, <1>12, <1>13, <1>14, <1>15,
       <1>16, <1>17, <1>18, <1>19, <1>20, <1>21, <1>22, <1>23 DEF Next, ThreadStep

\* A claim issues the fence of the attempt it starts.
LEMMA FencedStep ==
  ASSUME TypeOK, Fenced, [Next]_vars
  PROVE  Fenced'
<1> USE LimitsAssumption, AmountsAssumption DEF TypeOK, RunTypes, CounterTypes, RecordTypes,
       ThreadTypes, Calls, vars, runVars,
       counterVars, callVars, toolVars, threadVars, Fenced
<1>1. ASSUME LeaseExpires PROVE Fenced'
  BY <1>1 DEF LeaseExpires
<1>2. ASSUME Cancel PROVE Fenced'
  BY <1>2 DEF Cancel
<1>3. ASSUME Expire PROVE Fenced'
  BY <1>3 DEF Expire
<1>4. ASSUME Conclude PROVE Fenced'
  BY <1>4 DEF Conclude
<1>5. ASSUME NEW t \in Threads, Claim(t) PROVE Fenced'
  BY <1>5 DEF Claim
<1>6. ASSUME NEW t \in Threads, Leave(t) PROVE Fenced'
  BY <1>6 DEF Leave, Gone
<1>7. ASSUME NEW t \in Threads, Finish(t) PROVE Fenced'
  BY <1>7 DEF Finish, Gone
<1>8. ASSUME NEW t \in Threads, Initialize(t) PROVE Fenced'
  BY <1>8 DEF Initialize
<1>9. ASSUME NEW t \in Threads, NEW u \in Threads, Join(t, u) PROVE Fenced'
  BY <1>9 DEF Join
<1>10. ASSUME NEW t \in Threads, NEW final \in BOOLEAN, Gate(t, final) PROVE Fenced'
  BY <1>10 DEF Gate
<1>11. ASSUME NEW t \in Threads, NEW final \in BOOLEAN, NEW amount \in Amounts, AdmitCall(t, amount,
       final) PROVE Fenced'
  BY <1>11 DEF AdmitCall, MayCall
<1>12. ASSUME NEW t \in Threads, NEW final \in BOOLEAN, NEW amount \in Amounts, RefuseCall(t, amount,
       final) PROVE Fenced'
  BY <1>12 DEF RefuseCall
<1>13. ASSUME NEW t \in Threads, StopInvestigation(t) PROVE Fenced'
  BY <1>13 DEF StopInvestigation
<1>14. ASSUME NEW t \in Threads, RequestCloseout(t) PROVE Fenced'
  BY <1>14 DEF RequestCloseout
<1>15. ASSUME NEW t \in Threads, NEW usage \in Usages, SettleCall(t, usage) PROVE Fenced'
  BY <1>15 DEF SettleCall, Done, Mine
<1>16. ASSUME NEW t \in Threads, MissCall(t) PROVE Fenced'
  BY <1>16 DEF MissCall, Done, Mine
<1>17. ASSUME NEW t \in Threads, NEW k \in Tools, AdmitTool(t, k) PROVE Fenced'
  BY <1>17 DEF AdmitTool, Use
<1>18. ASSUME NEW t \in Threads, NEW k \in Tools, RepeatTool(t, k) PROVE Fenced'
  BY <1>18 DEF RepeatTool, Use
<1>19. ASSUME NEW t \in Threads, NEW k \in Tools, RefuseTool(t, k) PROVE Fenced'
  BY <1>19 DEF RefuseTool
<1>20. ASSUME NEW t \in Threads, NEW k \in Tools, NEW usage \in Usages, SettleTool(t, k,
       usage) PROVE Fenced'
  BY <1>20 DEF SettleTool, Done
<1>21. ASSUME NEW t \in Threads, NEW k \in Tools, MissTool(t, k) PROVE Fenced'
  BY <1>21 DEF MissTool, Done
<1>22. ASSUME NEW t \in Threads, NEW k \in Tools, SettledBefore(t, k) PROVE Fenced'
  BY <1>22 DEF SettledBefore, Done
<1>23. CASE UNCHANGED vars
  BY <1>23
<1> QED
  BY <1>1, <1>2, <1>3, <1>4, <1>5, <1>6, <1>7, <1>8, <1>9, <1>10, <1>11, <1>12, <1>13, <1>14, <1>15,
       <1>16, <1>17, <1>18, <1>19, <1>20, <1>21, <1>22, <1>23 DEF Next, ThreadStep

\* Settling replaces a charge by a usage that the excess makes up for.
LEMMA SpentBySettling ==
  ASSUME reserved \in Int, settled \in Nat, excess \in Nat, NeverOverspent,
         NEW c \in Nat, NEW usage \in Nat,
         reserved' = reserved - c, settled' = settled + usage,
         excess' = excess + Excess(usage, c), finals' = finals
  PROVE  NeverOverspent'
<1>1. Excess(usage, c) \in Nat /\ usage - c <= Excess(usage, c)
  BY DEF Excess
<1>2. reserved' + settled' = reserved + settled + (usage - c)
  OBVIOUS
<1>3. CASE Capped
  <2>1. reserved' + settled' <= TokenLimit + excess'
    BY <1>1, <1>2, <1>3, LimitsAssumption DEF NeverOverspent
  <2>2. finals' = {} => reserved' + settled' <= TokenLimit - FinalReserve + excess'
    BY <1>1, <1>2, <1>3, LimitsAssumption DEF NeverOverspent
  <2> QED
    BY <2>1, <2>2 DEF NeverOverspent
<1>4. CASE ~Capped
  BY <1>4 DEF NeverOverspent
<1> QED
  BY <1>3, <1>4

\* An investigation's admission leaves the report's reserve alone.
LEMMA SpentByAdmitting ==
  ASSUME reserved \in Int, settled \in Nat, excess \in Nat, NeverOverspent,
         NEW c \in Nat, reserved' = reserved + c, UNCHANGED <<settled, excess, finals>>,
         Capped /\ c > 0 => reserved + settled + c <= TokenLimit - FinalReserve
  PROVE  NeverOverspent'
<1>1. CASE Capped /\ c > 0
  BY <1>1, LimitsAssumption DEF NeverOverspent
<1>2. CASE c = 0
  <2>1. reserved' = reserved
    BY <1>2
  <2> QED
    BY <2>1 DEF NeverOverspent
<1>3. CASE ~Capped
  BY <1>3 DEF NeverOverspent
<1> QED
  BY <1>1, <1>2, <1>3

\* The filter and the charge are one transaction.
LEMMA SpentStep ==
  ASSUME TypeOK, NeverOverspent, [Next]_vars
  PROVE  NeverOverspent'
<1> USE LimitsAssumption, AmountsAssumption DEF TypeOK, RunTypes, CounterTypes, RecordTypes,
       ThreadTypes, Calls, vars, runVars,
       counterVars, callVars, toolVars, threadVars, NeverOverspent
<1>1. ASSUME LeaseExpires PROVE NeverOverspent'
  BY <1>1 DEF LeaseExpires
<1>2. ASSUME Cancel PROVE NeverOverspent'
  BY <1>2 DEF Cancel
<1>3. ASSUME Expire PROVE NeverOverspent'
  BY <1>3 DEF Expire
<1>4. ASSUME Conclude PROVE NeverOverspent'
  BY <1>4 DEF Conclude
<1>5. ASSUME NEW t \in Threads, Claim(t) PROVE NeverOverspent'
  BY <1>5 DEF Claim
<1>6. ASSUME NEW t \in Threads, Leave(t) PROVE NeverOverspent'
  BY <1>6 DEF Leave, Gone
<1>7. ASSUME NEW t \in Threads, Finish(t) PROVE NeverOverspent'
  BY <1>7 DEF Finish, Gone
<1>8. ASSUME NEW t \in Threads, Initialize(t) PROVE NeverOverspent'
  BY <1>8 DEF Initialize
<1>9. ASSUME NEW t \in Threads, NEW u \in Threads, Join(t, u) PROVE NeverOverspent'
  BY <1>9 DEF Join
<1>10. ASSUME NEW t \in Threads, NEW final \in BOOLEAN, Gate(t, final) PROVE NeverOverspent'
  BY <1>10 DEF Gate
<1>11. ASSUME NEW t \in Threads, NEW final \in BOOLEAN, NEW amount \in Amounts, AdmitCall(t, amount,
       final) PROVE NeverOverspent'
  BY <1>11 DEF AdmitCall, MayCall, Affordable, Ceiling
<1>12. ASSUME NEW t \in Threads, NEW final \in BOOLEAN, NEW amount \in Amounts, RefuseCall(t, amount,
       final) PROVE NeverOverspent'
  BY <1>12 DEF RefuseCall
<1>13. ASSUME NEW t \in Threads, StopInvestigation(t) PROVE NeverOverspent'
  BY <1>13 DEF StopInvestigation
<1>14. ASSUME NEW t \in Threads, RequestCloseout(t) PROVE NeverOverspent'
  BY <1>14 DEF RequestCloseout
<1>15. ASSUME NEW t \in Threads, NEW usage \in Usages, SettleCall(t, usage) PROVE NeverOverspent'
  <2>1. callCharge[held[t]] \in Nat /\ usage \in Nat
    BY <1>15 DEF SettleCall, Mine
  <2>2. /\ reserved' = reserved - callCharge[held[t]] /\ settled' = settled + usage /\ finals' = finals
        /\ excess' = excess + Excess(usage, callCharge[held[t]])
    BY <1>15 DEF SettleCall
  <2>3. reserved \in Int /\ settled \in Nat /\ excess \in Nat
    OBVIOUS
  <2> QED
    BY ONLY <2>1, <2>2, <2>3, NeverOverspent, SpentBySettling
<1>16. ASSUME NEW t \in Threads, MissCall(t) PROVE NeverOverspent'
  BY <1>16 DEF MissCall, Done, Mine
<1>17. ASSUME NEW t \in Threads, NEW k \in Tools, AdmitTool(t, k) PROVE NeverOverspent'
  <2>1. ToolTokens[k] \in Nat /\ reserved \in Int /\ settled \in Nat /\ excess \in Nat
    OBVIOUS
  <2>2. reserved' = reserved + ToolTokens[k] /\ UNCHANGED <<settled, excess, finals>>
    BY <1>17 DEF AdmitTool
  <2>3. Capped /\ ToolTokens[k] > 0 => reserved + settled + ToolTokens[k] <= TokenLimit - FinalReserve
    BY <1>17 DEF AdmitTool, MayUse, Affordable, Ceiling
  <2> QED
    BY ONLY <2>1, <2>2, <2>3, NeverOverspent, SpentByAdmitting
<1>18. ASSUME NEW t \in Threads, NEW k \in Tools, RepeatTool(t, k) PROVE NeverOverspent'
  BY <1>18 DEF RepeatTool, Use
<1>19. ASSUME NEW t \in Threads, NEW k \in Tools, RefuseTool(t, k) PROVE NeverOverspent'
  BY <1>19 DEF RefuseTool
<1>20. ASSUME NEW t \in Threads, NEW k \in Tools, NEW usage \in Usages, SettleTool(t, k,
       usage) PROVE NeverOverspent'
  <2>1. toolCharge[k] \in Nat /\ usage \in Nat
    BY <1>20 DEF SettleTool
  <2>2. /\ reserved' = reserved - toolCharge[k] /\ settled' = settled + usage /\ finals' = finals
        /\ excess' = excess + Excess(usage, toolCharge[k])
    BY <1>20 DEF SettleTool
  <2>3. reserved \in Int /\ settled \in Nat /\ excess \in Nat
    OBVIOUS
  <2> QED
    BY ONLY <2>1, <2>2, <2>3, NeverOverspent, SpentBySettling
<1>21. ASSUME NEW t \in Threads, NEW k \in Tools, MissTool(t, k) PROVE NeverOverspent'
  BY <1>21 DEF MissTool, Done
<1>22. ASSUME NEW t \in Threads, NEW k \in Tools, SettledBefore(t, k) PROVE NeverOverspent'
  BY <1>22 DEF SettledBefore, Done
<1>23. CASE UNCHANGED vars
  BY <1>23
<1> QED
  BY <1>1, <1>2, <1>3, <1>4, <1>5, <1>6, <1>7, <1>8, <1>9, <1>10, <1>11, <1>12, <1>13, <1>14, <1>15,
       <1>16, <1>17, <1>18, <1>19, <1>20, <1>21, <1>22, <1>23 DEF Next, ThreadStep

\* A step that neither marks a call nor counts one.
LEMMA CountSame ==
  ASSUME UnknownCounted, UNCHANGED <<unreconciled, callStatus, toolStatus>>
  PROVE  UnknownCounted'
  BY DEF UnknownCounted, Unknown

\* What a step marks unknown it counts.
LEMMA CountedStep ==
  ASSUME TypeOK, Fresh, UnknownCounted, [Next]_vars
  PROVE  UnknownCounted'
<1> USE LimitsAssumption, AmountsAssumption DEF TypeOK, RunTypes, CounterTypes, RecordTypes,
       ThreadTypes, Calls, vars, runVars,
       counterVars, callVars, toolVars, threadVars
<1> DEFINE U == {i \in Calls : callStatus[i] = "unknown"}
<1> DEFINE V == {k \in Tools : toolStatus[k] = "unknown"}
<1>a. unreconciled = Cardinality(U) + Cardinality(V)
  BY DEF UnknownCounted, Unknown
<1>b. unreconciled' = Cardinality(U') + Cardinality(V') => UnknownCounted'
  BY DEF UnknownCounted, Unknown
<1>1. ASSUME LeaseExpires PROVE UnknownCounted'
  BY <1>1, CountSame DEF LeaseExpires
<1>2. ASSUME Cancel PROVE UnknownCounted'
  BY <1>2, CountSame DEF Cancel
<1>3. ASSUME Expire PROVE UnknownCounted'
  BY <1>3, CountSame DEF Expire
<1>4. ASSUME Conclude PROVE UnknownCounted'
  <2>1. U' = U \cup Outstanding /\ V' = V \cup OpenTools
    BY <1>4 DEF Conclude, Outstanding, OpenTools
  <2>2. U \cap Outstanding = {} /\ V \cap OpenTools = {}
    BY DEF Outstanding, OpenTools
  <2>3. /\ Cardinality(U') = Cardinality(U) + Cardinality(Outstanding)
        /\ Cardinality(V') = Cardinality(V) + Cardinality(OpenTools)
    BY <2>1, <2>2, FiniteParts, CountBoth
  <2>4. /\ Cardinality(U) \in Nat /\ Cardinality(V) \in Nat
        /\ Cardinality(Outstanding) \in Nat /\ Cardinality(OpenTools) \in Nat
    BY FiniteParts, FS_CardinalityType
  <2>5. unreconciled' = unreconciled + Cardinality(Outstanding) + Cardinality(OpenTools)
    BY <1>4 DEF Conclude
  <2>6. unreconciled \in Nat
    OBVIOUS
  <2> HIDE DEF U, V
  <2> QED
    BY ONLY <1>a, <1>b, <2>3, <2>4, <2>5, <2>6
<1>5. ASSUME NEW t \in Threads, Claim(t) PROVE UnknownCounted'
  BY <1>5, CountSame DEF Claim
<1>6. ASSUME NEW t \in Threads, Leave(t) PROVE UnknownCounted'
  BY <1>6, CountSame DEF Leave, Gone
<1>7. ASSUME NEW t \in Threads, Finish(t) PROVE UnknownCounted'
  BY <1>7, CountSame DEF Finish, Gone
<1>8. ASSUME NEW t \in Threads, Initialize(t) PROVE UnknownCounted'
  <2>1. U' = U \cup Lost(t) /\ V' = V
    BY <1>8 DEF Initialize, Lost, Outstanding
  <2>2. U \cap Lost(t) = {}
    BY DEF Lost, Outstanding
  <2>3. IsFiniteSet(Lost(t))
    BY FiniteParts
  <2>4. Cardinality(U') = Cardinality(U) + Cardinality(Lost(t))
    BY <2>1, <2>2, <2>3, FiniteParts, CountBoth
  <2>5. Cardinality(U) \in Nat /\ Cardinality(V) \in Nat /\ Cardinality(Lost(t)) \in Nat
    BY <2>3, FiniteParts, FS_CardinalityType
  <2>6. unreconciled' = unreconciled + Cardinality(Lost(t))
    BY <1>8 DEF Initialize
  <2> HIDE DEF U, V
  <2> QED
    BY <1>a, <1>b, <2>1, <2>4, <2>5, <2>6
<1>9. ASSUME NEW t \in Threads, NEW u \in Threads, Join(t, u) PROVE UnknownCounted'
  BY <1>9, CountSame DEF Join
<1>10. ASSUME NEW t \in Threads, NEW final \in BOOLEAN, Gate(t, final) PROVE UnknownCounted'
  BY <1>10, CountSame DEF Gate
<1>11. ASSUME NEW t \in Threads, NEW final \in BOOLEAN, NEW amount \in Amounts, AdmitCall(t, amount,
       final) PROVE UnknownCounted'
  <2>1. callStatus[calls + 1] = "none"
    BY <1>11 DEF AdmitCall, MayCall, Fresh
  <2>2. U' = U /\ V' = V /\ unreconciled' = unreconciled
    BY <1>11, <2>1 DEF AdmitCall
  <2> HIDE DEF U, V
  <2> QED
    BY <1>a, <1>b, <2>2
<1>12. ASSUME NEW t \in Threads, NEW final \in BOOLEAN, NEW amount \in Amounts, RefuseCall(t, amount,
       final) PROVE UnknownCounted'
  BY <1>12, CountSame DEF RefuseCall
<1>13. ASSUME NEW t \in Threads, StopInvestigation(t) PROVE UnknownCounted'
  BY <1>13, CountSame DEF StopInvestigation
<1>14. ASSUME NEW t \in Threads, RequestCloseout(t) PROVE UnknownCounted'
  BY <1>14, CountSame DEF RequestCloseout
<1>15. ASSUME NEW t \in Threads, NEW usage \in Usages, SettleCall(t, usage) PROVE UnknownCounted'
  <2>1. U' = U /\ V' = V /\ unreconciled' = unreconciled
    BY <1>15 DEF SettleCall, Mine
  <2> HIDE DEF U, V
  <2> QED
    BY <1>a, <1>b, <2>1
<1>16. ASSUME NEW t \in Threads, MissCall(t) PROVE UnknownCounted'
  <2>1. U' = U \cup {held[t]} /\ V' = V /\ held[t] \notin U /\ unreconciled' = unreconciled + 1
    BY <1>16 DEF MissCall, Mine
  <2>2. Cardinality(U') = Cardinality(U) + 1
    BY <2>1, FiniteParts, FS_AddElement
  <2>3. Cardinality(U) \in Nat /\ Cardinality(V) \in Nat
    BY FiniteParts, FS_CardinalityType
  <2> HIDE DEF U, V
  <2> QED
    BY <1>a, <1>b, <2>1, <2>2, <2>3
<1>17. ASSUME NEW t \in Threads, NEW k \in Tools, AdmitTool(t, k) PROVE UnknownCounted'
  <2>1. U' = U /\ V' = V /\ unreconciled' = unreconciled
    BY <1>17 DEF AdmitTool
  <2> HIDE DEF U, V
  <2> QED
    BY <1>a, <1>b, <2>1
<1>18. ASSUME NEW t \in Threads, NEW k \in Tools, RepeatTool(t, k) PROVE UnknownCounted'
  BY <1>18, CountSame DEF RepeatTool, Use
<1>19. ASSUME NEW t \in Threads, NEW k \in Tools, RefuseTool(t, k) PROVE UnknownCounted'
  BY <1>19, CountSame DEF RefuseTool
<1>20. ASSUME NEW t \in Threads, NEW k \in Tools, NEW usage \in Usages, SettleTool(t, k,
       usage) PROVE UnknownCounted'
  <2>1. U' = U /\ V' = V /\ unreconciled' = unreconciled
    BY <1>20 DEF SettleTool
  <2> HIDE DEF U, V
  <2> QED
    BY <1>a, <1>b, <2>1
<1>21. ASSUME NEW t \in Threads, NEW k \in Tools, MissTool(t, k) PROVE UnknownCounted'
  <2>1. V' = V \cup {k} /\ U' = U /\ k \notin V /\ unreconciled' = unreconciled + 1
    BY <1>21 DEF MissTool
  <2>2. Cardinality(V') = Cardinality(V) + 1
    BY <2>1, FiniteParts, FS_AddElement
  <2>3. Cardinality(V) \in Nat /\ Cardinality(U) \in Nat
    BY FiniteParts, FS_CardinalityType
  <2> HIDE DEF U, V
  <2> QED
    BY <1>a, <1>b, <2>1, <2>2, <2>3
<1>22. ASSUME NEW t \in Threads, NEW k \in Tools, SettledBefore(t, k) PROVE UnknownCounted'
  BY <1>22, CountSame DEF SettledBefore, Done
<1>23. CASE UNCHANGED vars
  BY <1>23, CountSame
<1> QED
  BY <1>1, <1>2, <1>3, <1>4, <1>5, <1>6, <1>7, <1>8, <1>9, <1>10, <1>11, <1>12, <1>13, <1>14, <1>15,
       <1>16, <1>17, <1>18, <1>19, <1>20, <1>21, <1>22, <1>23 DEF Next, ThreadStep

\* Only the current attempt reserves; what it finds of others it closes.
LEMMA LeftOpenStep ==
  ASSUME TypeOK, Fenced, Fresh, NothingLeftOpen, [Next]_vars
  PROVE  NothingLeftOpen'
<1> USE LimitsAssumption, AmountsAssumption DEF TypeOK, RunTypes, CounterTypes, RecordTypes,
       ThreadTypes, Calls, vars, runVars,
       counterVars, callVars, toolVars, threadVars, Fenced, Fresh, NothingLeftOpen, Outstanding,
       OpenTools
<1>1. ASSUME LeaseExpires PROVE NothingLeftOpen'
  BY <1>1 DEF LeaseExpires
<1>2. ASSUME Cancel PROVE NothingLeftOpen'
  BY <1>2 DEF Cancel
<1>3. ASSUME Expire PROVE NothingLeftOpen'
  BY <1>3 DEF Expire
<1>4. ASSUME Conclude PROVE NothingLeftOpen'
  BY <1>4 DEF Conclude
<1>5. ASSUME NEW t \in Threads, Claim(t) PROVE NothingLeftOpen'
  BY <1>5 DEF Claim
<1>6. ASSUME NEW t \in Threads, Leave(t) PROVE NothingLeftOpen'
  BY <1>6 DEF Leave, Gone
<1>7. ASSUME NEW t \in Threads, Finish(t) PROVE NothingLeftOpen'
  BY <1>7 DEF Finish, Gone, Current
<1>8. ASSUME NEW t \in Threads, Initialize(t) PROVE NothingLeftOpen'
  BY <1>8 DEF Initialize, Current, Lost
<1>9. ASSUME NEW t \in Threads, NEW u \in Threads, Join(t, u) PROVE NothingLeftOpen'
  BY <1>9 DEF Join
<1>10. ASSUME NEW t \in Threads, NEW final \in BOOLEAN, Gate(t, final) PROVE NothingLeftOpen'
  BY <1>10 DEF Gate, Current
<1>11. ASSUME NEW t \in Threads, NEW final \in BOOLEAN, NEW amount \in Amounts, AdmitCall(t, amount,
       final) PROVE NothingLeftOpen'
  BY <1>11 DEF AdmitCall, MayCall, Current
<1>12. ASSUME NEW t \in Threads, NEW final \in BOOLEAN, NEW amount \in Amounts, RefuseCall(t, amount,
       final) PROVE NothingLeftOpen'
  BY <1>12 DEF RefuseCall, Current
<1>13. ASSUME NEW t \in Threads, StopInvestigation(t) PROVE NothingLeftOpen'
  BY <1>13 DEF StopInvestigation, Current
<1>14. ASSUME NEW t \in Threads, RequestCloseout(t) PROVE NothingLeftOpen'
  BY <1>14 DEF RequestCloseout, Current
<1>15. ASSUME NEW t \in Threads, NEW usage \in Usages, SettleCall(t, usage) PROVE NothingLeftOpen'
  BY <1>15 DEF SettleCall, Done, Mine, Current
<1>16. ASSUME NEW t \in Threads, MissCall(t) PROVE NothingLeftOpen'
  BY <1>16 DEF MissCall, Done, Mine, Current
<1>17. ASSUME NEW t \in Threads, NEW k \in Tools, AdmitTool(t, k) PROVE NothingLeftOpen'
  BY <1>17 DEF AdmitTool, Use, Current
<1>18. ASSUME NEW t \in Threads, NEW k \in Tools, RepeatTool(t, k) PROVE NothingLeftOpen'
  BY <1>18 DEF RepeatTool, Use
<1>19. ASSUME NEW t \in Threads, NEW k \in Tools, RefuseTool(t, k) PROVE NothingLeftOpen'
  BY <1>19 DEF RefuseTool
<1>20. ASSUME NEW t \in Threads, NEW k \in Tools, NEW usage \in Usages, SettleTool(t, k,
       usage) PROVE NothingLeftOpen'
  BY <1>20 DEF SettleTool, Done, Current
<1>21. ASSUME NEW t \in Threads, NEW k \in Tools, MissTool(t, k) PROVE NothingLeftOpen'
  BY <1>21 DEF MissTool, Done, Current
<1>22. ASSUME NEW t \in Threads, NEW k \in Tools, SettledBefore(t, k) PROVE NothingLeftOpen'
  BY <1>22 DEF SettledBefore, Done, Current
<1>23. CASE UNCHANGED vars
  <2>1. Outstanding' = Outstanding /\ OpenTools' = OpenTools
    BY <1>23
  <2>2. UNCHANGED <<phase, attempt, callFence, pc, fenceOf>>
    BY <1>23
  <2> HIDE DEF Outstanding, OpenTools
  <2> QED
    BY <2>1, <2>2
<1> QED
  BY <1>1, <1>2, <1>3, <1>4, <1>5, <1>6, <1>7, <1>8, <1>9, <1>10, <1>11, <1>12, <1>13, <1>14, <1>15,
       <1>16, <1>17, <1>18, <1>19, <1>20, <1>21, <1>22, <1>23 DEF Next, ThreadStep

-----------------------------------------------------------------------------
(* Sums: what rows are charged with is counted token by token. *)

\* Finitely many rows have finitely many tokens ...
LEMMA TokensFinite ==
  ASSUME NEW Rows, IsFiniteSet(Rows), NEW charge \in [Rows -> Nat]
  PROVE  IsFiniteSet(UNION {{r} \X (1..charge[r]) : r \in Rows})
<1> DEFINE Of(r) == {r} \X (1..charge[r])
<1> DEFINE Parts == {Of(r) : r \in Rows}
<1> DEFINE f == [r \in Rows |-> Of(r)]
<1>1. f \in Surjection(Rows, Parts)
  BY DEF Surjection
<1>2. IsFiniteSet(Parts)
  <2> HIDE DEF Parts, f
  <2> QED BY <1>1, FS_Surjection
<1>3. \A r \in Rows : IsFiniteSet(Of(r))
  <2> SUFFICES ASSUME NEW r \in Rows PROVE IsFiniteSet(Of(r))
    OBVIOUS
  <2>1. charge[r] \in Int /\ 1 \in Int
    OBVIOUS
  <2>2. IsFiniteSet(1..charge[r]) /\ IsFiniteSet({r})
    BY <2>1, FS_Interval, FS_Singleton
  <2> QED BY <2>2, FS_Product
<1>4. \A p \in Parts : IsFiniteSet(p)
  BY <1>3
<1>5. IsFiniteSet(UNION Parts)
  <2> HIDE DEF Parts
  <2> QED BY <1>2, <1>4, FS_UNION
<1> QED BY <1>5

\* ... so that they can be counted.
LEMMA TokensNumber ==
  ASSUME NEW Rows, IsFiniteSet(Rows), NEW status, DOMAIN status = Rows, NEW charge \in [Rows -> Nat], NEW s
  PROVE  Cardinality(Tokens(status, charge, s)) \in Nat
<1>1. IsFiniteSet(UNION {{r} \X (1..charge[r]) : r \in Rows})
  BY TokensFinite
<1>2. Tokens(status, charge, s) \subseteq UNION {{r} \X (1..charge[r]) : r \in Rows}
  BY DEF Tokens
<1>3. IsFiniteSet(Tokens(status, charge, s))
  BY <1>1, <1>2, FS_Subset
<1> QED BY <1>3, FS_CardinalityType

\* A row adds its charge to what the others are charged with.
LEMMA RowCounts ==
  ASSUME NEW Rows, IsFiniteSet(Rows), NEW status, DOMAIN status = Rows, NEW charge \in [Rows -> Nat],
         NEW k \in Rows, NEW s
  PROVE  LET rest == UNION {{r} \X (1..charge[r]) : r \in {i \in Rows \ {k} : status[i] \in s}}
         IN  /\ Cardinality(rest) \in Nat
             /\ Cardinality(Tokens(status, charge, s)) = Cardinality(rest) + (IF status[k] \in s THEN charge[k] ELSE 0)
<1> DEFINE Others == {i \in Rows \ {k} : status[i] \in s}
<1> DEFINE rest == UNION {{r} \X (1..charge[r]) : r \in Others}
<1> DEFINE own == {k} \X (1..charge[k])
<1>1. IsFiniteSet(rest) /\ Cardinality(rest) \in Nat
  <2>1. IsFiniteSet(Others)
    BY FS_Subset
  <2>2. [r \in Others |-> charge[r]] \in [Others -> Nat]
    OBVIOUS
  <2>3. PICK c \in [Others -> Nat] : \A r \in Others : c[r] = charge[r]
    BY <2>2
  <2>4. IsFiniteSet(UNION {{r} \X (1..c[r]) : r \in Others})
    <3> HIDE DEF Others
    <3> QED BY <2>1, TokensFinite
  <2>5. UNION {{r} \X (1..c[r]) : r \in Others} = rest
    BY <2>3
  <2>6. IsFiniteSet(rest)
    BY <2>4, <2>5
  <2> HIDE DEF rest
  <2> QED BY <2>6, FS_CardinalityType
<1>2. IsFiniteSet(own) /\ Cardinality(own) = charge[k]
  <2>1. charge[k] \in Nat /\ charge[k] \in Int /\ 1 \in Int
    OBVIOUS
  <2>2. IsFiniteSet(1..charge[k]) /\ Cardinality(1..charge[k]) = charge[k]
    BY <2>1, FS_Interval
  <2>3. IsFiniteSet({k}) /\ Cardinality({k}) = 1
    BY FS_Singleton
  <2>4. IsFiniteSet(own) /\ Cardinality(own) = Cardinality({k}) * Cardinality(1..charge[k])
    BY <2>2, <2>3, FS_Product
  <2> HIDE DEF own
  <2> QED BY <2>1, <2>2, <2>3, <2>4
<1>3. own \cap rest = {}
  OBVIOUS
<1>4. ASSUME status[k] \in s
      PROVE  Cardinality(Tokens(status, charge, s)) = Cardinality(rest) + charge[k]
  <2>1. Tokens(status, charge, s) = rest \cup own
    <3>1. {i \in DOMAIN status : status[i] \in s} = Others \cup {k}
      BY <1>4
    <3> HIDE DEF Others
    <3> QED BY <3>1 DEF Tokens
  <2> HIDE DEF rest, own
  <2>2. Cardinality(rest \cup own) = Cardinality(rest) + Cardinality(own) - Cardinality(rest \cap own)
    BY <1>1, <1>2, FS_Union
  <2>3. Cardinality(rest \cap own) = 0
    <3>1. rest \cap own = {}
      BY <1>3
    <3> QED BY <3>1, FS_EmptySet
  <2>4. charge[k] \in Nat
    OBVIOUS
  <2> QED BY <1>1, <1>2, <2>1, <2>2, <2>3, <2>4
<1>5. ASSUME status[k] \notin s
      PROVE  Cardinality(Tokens(status, charge, s)) = Cardinality(rest)
  <2>1. {i \in DOMAIN status : status[i] \in s} = Others
    BY <1>5
  <2>2. Tokens(status, charge, s) = rest
    <3> HIDE DEF Others
    <3> QED BY <2>1 DEF Tokens
  <2> HIDE DEF rest
  <2> QED BY <2>2
<1>6. charge[k] \in Nat
  OBVIOUS
<1> HIDE DEF rest
<1>7. /\ Cardinality(rest) \in Nat
      /\ Cardinality(Tokens(status, charge, s)) = Cardinality(rest) + (IF status[k] \in s THEN charge[k] ELSE 0)
  BY <1>1, <1>4, <1>5, <1>6
<1> QED BY <1>7 DEF rest

\* One row that changes changes the sum by what it was and is charged with.
LEMMA RowChanges ==
  ASSUME NEW Rows, IsFiniteSet(Rows), NEW status, DOMAIN status = Rows, NEW charge \in [Rows -> Nat], NEW k \in Rows,
         NEW after, DOMAIN after = Rows, \A r \in Rows \ {k} : after[r] = status[r],
         NEW charged \in [Rows -> Nat], \A r \in Rows \ {k} : charged[r] = charge[r], NEW s
  PROVE  /\ Cardinality(Tokens(status, charge, s)) \in Nat /\ Cardinality(Tokens(after, charged, s)) \in Nat
         /\ Cardinality(Tokens(after, charged, s)) =
              Cardinality(Tokens(status, charge, s)) - (IF status[k] \in s THEN charge[k] ELSE 0)
                                                     + (IF after[k] \in s THEN charged[k] ELSE 0)
<1> DEFINE Rest(c, st) == UNION {{r} \X (1..c[r]) : r \in {i \in Rows \ {k} : st[i] \in s}}
<1>1. Rest(charged, after) = Rest(charge, status)
  <2>1. {i \in Rows \ {k} : after[i] \in s} = {i \in Rows \ {k} : status[i] \in s}
    OBVIOUS
  <2>2. \A r \in {i \in Rows \ {k} : status[i] \in s} : {r} \X (1..charged[r]) = {r} \X (1..charge[r])
    OBVIOUS
  <2> QED BY <2>1, <2>2
<1>2. /\ Cardinality(Rest(charge, status)) \in Nat
      /\ Cardinality(Tokens(status, charge, s)) = Cardinality(Rest(charge, status)) + (IF status[k] \in s THEN charge[k] ELSE 0)
  BY RowCounts
<1>3. Cardinality(Tokens(after, charged, s)) = Cardinality(Rest(charged, after)) + (IF after[k] \in s THEN charged[k] ELSE 0)
  BY RowCounts
<1>4. charge[k] \in Nat /\ charged[k] \in Nat
  OBVIOUS
<1> HIDE DEF Rest
<1> QED BY <1>1, <1>2, <1>3, <1>4

\* ... and no row changes a sum that keeps it and its charge.
LEMMA SumStays ==
  ASSUME NEW status, NEW after, NEW charge, NEW s, DOMAIN after = DOMAIN status,
         \A r \in DOMAIN status : after[r] \in s <=> status[r] \in s
  PROVE  Tokens(after, charge, s) = Tokens(status, charge, s)
<1>1. {i \in DOMAIN after : after[i] \in s} = {i \in DOMAIN status : status[i] \in s}
  OBVIOUS
<1> QED BY <1>1 DEF Tokens

Waiting == {"reserved", "unknown"}
Closed == {"settled"}

\* The accounting, with the two kinds of sums named.
LEMMA AccountingIs ==
  Accounting <=>
    /\ reserved = Cardinality(Tokens(callStatus, callCharge, Waiting)) + Cardinality(Tokens(toolStatus, toolCharge, Waiting))
    /\ settled = Cardinality(Tokens(callStatus, callCharge, Closed)) + Cardinality(Tokens(toolStatus, toolCharge, Closed))
BY DEF Accounting, Charged, Waiting, Closed

\* The rows, with nothing known of their states but who they are.
Rowed == /\ callStatus \in [Calls -> {"none", "reserved", "unknown", "settled"}] /\ callCharge \in [Calls -> Nat]
         /\ toolStatus \in [Tools -> {"none", "reserved", "unknown", "settled"}] /\ toolCharge \in [Tools -> Nat]
         /\ reserved \in Int /\ settled \in Nat

\* Calls and tools are finitely many.
LEMMA RowsFinite == IsFiniteSet(Calls) /\ IsFiniteSet(Tools)
BY LimitsAssumption, AmountsAssumption, FS_Interval DEF Calls

\* A step that leaves all that is charged.
LEMMA SumsSame ==
  ASSUME Accounting, UNCHANGED <<reserved, settled, callStatus, callCharge, toolStatus, toolCharge>>
  PROVE  Accounting'
BY DEF Accounting, Charged

\* Rows that are marked as unknown stay charged.
LEMMA SumsMarked ==
  ASSUME Accounting, Rowed, UNCHANGED <<reserved, settled, callCharge, toolCharge>>,
         DOMAIN callStatus' = Calls, DOMAIN toolStatus' = Tools,
         \A i \in Calls : callStatus'[i] = callStatus[i] \/ (callStatus[i] = "reserved" /\ callStatus'[i] = "unknown"),
         \A k \in Tools : toolStatus'[k] = toolStatus[k] \/ (toolStatus[k] = "reserved" /\ toolStatus'[k] = "unknown")
  PROVE  Accounting'
<1>1. DOMAIN callStatus = Calls /\ DOMAIN toolStatus = Tools
  BY DEF Rowed
<1>2. /\ \A i \in Calls : callStatus'[i] \in Waiting <=> callStatus[i] \in Waiting
      /\ \A i \in Calls : callStatus'[i] \in Closed <=> callStatus[i] \in Closed
      /\ \A k \in Tools : toolStatus'[k] \in Waiting <=> toolStatus[k] \in Waiting
      /\ \A k \in Tools : toolStatus'[k] \in Closed <=> toolStatus[k] \in Closed
  BY DEF Waiting, Closed
<1>3. /\ Tokens(callStatus', callCharge, Waiting) = Tokens(callStatus, callCharge, Waiting)
      /\ Tokens(callStatus', callCharge, Closed) = Tokens(callStatus, callCharge, Closed)
      /\ Tokens(toolStatus', toolCharge, Waiting) = Tokens(toolStatus, toolCharge, Waiting)
      /\ Tokens(toolStatus', toolCharge, Closed) = Tokens(toolStatus, toolCharge, Closed)
  BY <1>1, <1>2, SumStays
<1> QED BY <1>3 DEF Accounting, Charged, Waiting, Closed

\* One call changes, or one tool.
LEMMA CallCharged ==
  ASSUME Accounting, Rowed, NEW i \in Calls, NEW state, NEW amount \in Nat,
         callStatus' = [callStatus EXCEPT ![i] = state], callCharge' = [callCharge EXCEPT ![i] = amount],
         UNCHANGED <<toolStatus, toolCharge>>,
         reserved' = reserved - (IF callStatus[i] \in Waiting THEN callCharge[i] ELSE 0) + (IF state \in Waiting THEN amount ELSE 0),
         settled' = settled - (IF callStatus[i] \in Closed THEN callCharge[i] ELSE 0) + (IF state \in Closed THEN amount ELSE 0)
  PROVE  Accounting'
<1>1. DOMAIN callStatus = Calls /\ callCharge \in [Calls -> Nat] /\ callCharge[i] \in Nat
  BY DEF Rowed
<1>0. /\ DOMAIN callStatus = Calls /\ callCharge \in [Calls -> Nat] /\ i \in Calls /\ amount \in Nat
      /\ callStatus' = [callStatus EXCEPT ![i] = state] /\ callCharge' = [callCharge EXCEPT ![i] = amount]
  BY <1>1
<1> DEFINE Sum(s) == Cardinality(Tokens(callStatus, callCharge, s))
<1> DEFINE New(s) == Cardinality(Tokens(callStatus', callCharge', s))
<1> DEFINE Other(s) == Cardinality(Tokens(toolStatus, toolCharge, s))
<1>b. \A s : /\ Sum(s) \in Nat /\ New(s) \in Nat
             /\ New(s) = Sum(s) - (IF callStatus[i] \in s THEN callCharge[i] ELSE 0) + (IF state \in s THEN amount ELSE 0)
  <2>1. PICK status, charge, after, charged :
          status = callStatus /\ charge = callCharge /\ after = callStatus' /\ charged = callCharge'
    OBVIOUS
  <2>2. /\ DOMAIN status = Calls /\ charge \in [Calls -> Nat] /\ i \in Calls /\ DOMAIN after = Calls /\ charged \in [Calls -> Nat]
        /\ (\A r \in Calls \ {i} : after[r] = status[r]) /\ (\A r \in Calls \ {i} : charged[r] = charge[r])
        /\ after[i] = state /\ charged[i] = amount
    BY <1>0, <2>1
  <2>3. ASSUME NEW s
        PROVE  /\ Cardinality(Tokens(status, charge, s)) \in Nat /\ Cardinality(Tokens(after, charged, s)) \in Nat
               /\ Cardinality(Tokens(after, charged, s)) =
                    Cardinality(Tokens(status, charge, s)) - (IF status[i] \in s THEN charge[i] ELSE 0) + (IF state \in s THEN amount ELSE 0)
    <3>1. /\ Cardinality(Tokens(status, charge, s)) \in Nat /\ Cardinality(Tokens(after, charged, s)) \in Nat
          /\ Cardinality(Tokens(after, charged, s)) =
               Cardinality(Tokens(status, charge, s)) - (IF status[i] \in s THEN charge[i] ELSE 0)
                                                      + (IF after[i] \in s THEN charged[i] ELSE 0)
      BY ONLY <2>2, RowsFinite, RowChanges
    <3> QED BY <2>2, <3>1
  <2> QED BY <2>1, <2>3
<1>2. /\ Sum(Waiting) \in Nat /\ New(Waiting) \in Nat
      /\ New(Waiting) = Sum(Waiting) - (IF callStatus[i] \in Waiting THEN callCharge[i] ELSE 0) + (IF state \in Waiting THEN amount ELSE 0)
  BY <1>b
<1>3. /\ Sum(Closed) \in Nat /\ New(Closed) \in Nat
      /\ New(Closed) = Sum(Closed) - (IF callStatus[i] \in Closed THEN callCharge[i] ELSE 0) + (IF state \in Closed THEN amount ELSE 0)
  BY <1>b
<1>a. Other(Waiting) \in Nat /\ Other(Closed) \in Nat
  BY RowsFinite, TokensNumber DEF Rowed
<1>4. reserved = Sum(Waiting) + Other(Waiting) /\ settled = Sum(Closed) + Other(Closed)
  BY <1>2, <1>3, <1>a, AccountingIs
<1>5. Cardinality(Tokens(toolStatus', toolCharge', Waiting)) = Other(Waiting) /\ Cardinality(Tokens(toolStatus', toolCharge', Closed)) = Other(Closed)
  OBVIOUS
<1>6. reserved \in Int /\ settled \in Int
  BY DEF Rowed
<1>7. reserved' = New(Waiting) + Other(Waiting) /\ settled' = New(Closed) + Other(Closed)
  <2> HIDE DEF Sum, New, Other
  <2> QED BY <1>1, <1>2, <1>3, <1>4, <1>6, <1>a
<1>8. Accounting' <=> /\ reserved' = New(Waiting) + Cardinality(Tokens(toolStatus', toolCharge', Waiting))
                      /\ settled' = New(Closed) + Cardinality(Tokens(toolStatus', toolCharge', Closed))
  BY DEF Accounting, Charged, Waiting, Closed
<1> HIDE DEF New, Other
<1> QED BY <1>2, <1>3, <1>5, <1>7, <1>8, <1>a

\* The same of a tool.
LEMMA ToolCharged ==
  ASSUME Accounting, Rowed, NEW i \in Tools, NEW state, NEW amount \in Nat,
         toolStatus' = [toolStatus EXCEPT ![i] = state], toolCharge' = [toolCharge EXCEPT ![i] = amount],
         UNCHANGED <<callStatus, callCharge>>,
         reserved' = reserved - (IF toolStatus[i] \in Waiting THEN toolCharge[i] ELSE 0) + (IF state \in Waiting THEN amount ELSE 0),
         settled' = settled - (IF toolStatus[i] \in Closed THEN toolCharge[i] ELSE 0) + (IF state \in Closed THEN amount ELSE 0)
  PROVE  Accounting'
<1>1. DOMAIN toolStatus = Tools /\ toolCharge \in [Tools -> Nat] /\ toolCharge[i] \in Nat
  BY DEF Rowed
<1>0. /\ DOMAIN toolStatus = Tools /\ toolCharge \in [Tools -> Nat] /\ i \in Tools /\ amount \in Nat
      /\ toolStatus' = [toolStatus EXCEPT ![i] = state] /\ toolCharge' = [toolCharge EXCEPT ![i] = amount]
  BY <1>1
<1> DEFINE Sum(s) == Cardinality(Tokens(toolStatus, toolCharge, s))
<1> DEFINE New(s) == Cardinality(Tokens(toolStatus', toolCharge', s))
<1> DEFINE Other(s) == Cardinality(Tokens(callStatus, callCharge, s))
<1>b. \A s : /\ Sum(s) \in Nat /\ New(s) \in Nat
             /\ New(s) = Sum(s) - (IF toolStatus[i] \in s THEN toolCharge[i] ELSE 0) + (IF state \in s THEN amount ELSE 0)
  <2>1. PICK status, charge, after, charged :
          status = toolStatus /\ charge = toolCharge /\ after = toolStatus' /\ charged = toolCharge'
    OBVIOUS
  <2>2. /\ DOMAIN status = Tools /\ charge \in [Tools -> Nat] /\ i \in Tools /\ DOMAIN after = Tools /\ charged \in [Tools -> Nat]
        /\ (\A r \in Tools \ {i} : after[r] = status[r]) /\ (\A r \in Tools \ {i} : charged[r] = charge[r])
        /\ after[i] = state /\ charged[i] = amount
    BY <1>0, <2>1
  <2>3. ASSUME NEW s
        PROVE  /\ Cardinality(Tokens(status, charge, s)) \in Nat /\ Cardinality(Tokens(after, charged, s)) \in Nat
               /\ Cardinality(Tokens(after, charged, s)) =
                    Cardinality(Tokens(status, charge, s)) - (IF status[i] \in s THEN charge[i] ELSE 0) + (IF state \in s THEN amount ELSE 0)
    <3>1. /\ Cardinality(Tokens(status, charge, s)) \in Nat /\ Cardinality(Tokens(after, charged, s)) \in Nat
          /\ Cardinality(Tokens(after, charged, s)) =
               Cardinality(Tokens(status, charge, s)) - (IF status[i] \in s THEN charge[i] ELSE 0)
                                                      + (IF after[i] \in s THEN charged[i] ELSE 0)
      BY ONLY <2>2, RowsFinite, RowChanges
    <3> QED BY <2>2, <3>1
  <2> QED BY <2>1, <2>3
<1>2. /\ Sum(Waiting) \in Nat /\ New(Waiting) \in Nat
      /\ New(Waiting) = Sum(Waiting) - (IF toolStatus[i] \in Waiting THEN toolCharge[i] ELSE 0) + (IF state \in Waiting THEN amount ELSE 0)
  BY <1>b
<1>3. /\ Sum(Closed) \in Nat /\ New(Closed) \in Nat
      /\ New(Closed) = Sum(Closed) - (IF toolStatus[i] \in Closed THEN toolCharge[i] ELSE 0) + (IF state \in Closed THEN amount ELSE 0)
  BY <1>b
<1>a. Other(Waiting) \in Nat /\ Other(Closed) \in Nat
  BY RowsFinite, TokensNumber DEF Rowed
<1>4. reserved = Sum(Waiting) + Other(Waiting) /\ settled = Sum(Closed) + Other(Closed)
  BY <1>2, <1>3, <1>a, AccountingIs
<1>5. Cardinality(Tokens(callStatus', callCharge', Waiting)) = Other(Waiting) /\ Cardinality(Tokens(callStatus', callCharge', Closed)) = Other(Closed)
  OBVIOUS
<1>6. reserved \in Int /\ settled \in Int
  BY DEF Rowed
<1>7. reserved' = New(Waiting) + Other(Waiting) /\ settled' = New(Closed) + Other(Closed)
  <2> HIDE DEF Sum, New, Other
  <2> QED BY <1>1, <1>2, <1>3, <1>4, <1>6, <1>a
<1>8. Accounting' <=> /\ reserved' = Cardinality(Tokens(callStatus', callCharge', Waiting)) + New(Waiting)
                      /\ settled' = Cardinality(Tokens(callStatus', callCharge', Closed)) + New(Closed)
  BY DEF Accounting, Charged, Waiting, Closed
<1> HIDE DEF New, Other
<1> QED BY <1>2, <1>3, <1>5, <1>7, <1>8, <1>a

\* What a step charges it counts.
LEMMA AccountingStep ==
  ASSUME TypeOK, Fresh, Accounting, [Next]_vars
  PROVE  Accounting'
<1>0. Rowed
  BY DEF Rowed, TypeOK, CounterTypes, RecordTypes
<1> USE DEF runVars, counterVars, callVars, toolVars, threadVars
<1>1. ASSUME LeaseExpires \/ Cancel \/ Expire PROVE Accounting'
  BY <1>1, SumsSame DEF LeaseExpires, Cancel, Expire
<1>4. ASSUME Conclude PROVE Accounting'
  <2>1. /\ UNCHANGED <<reserved, settled, callCharge, toolCharge>> /\ DOMAIN callStatus' = Calls /\ DOMAIN toolStatus' = Tools
        /\ \A i \in Calls : callStatus'[i] = callStatus[i] \/ (callStatus[i] = "reserved" /\ callStatus'[i] = "unknown")
        /\ \A k \in Tools : toolStatus'[k] = toolStatus[k] \/ (toolStatus[k] = "reserved" /\ toolStatus'[k] = "unknown")
    BY <1>4 DEF Conclude, Outstanding, OpenTools
  <2> QED BY <1>0, <2>1, SumsMarked
<1>5. ASSUME NEW t \in Threads, Claim(t) \/ Leave(t) \/ Finish(t) PROVE Accounting'
  BY <1>5, SumsSame DEF Claim, Leave, Finish
<1>8. ASSUME NEW t \in Threads, Initialize(t) PROVE Accounting'
  <2>1. /\ UNCHANGED <<reserved, settled, callCharge, toolCharge>> /\ DOMAIN callStatus' = Calls /\ toolStatus' = toolStatus
        /\ \A i \in Calls : callStatus'[i] = callStatus[i] \/ (callStatus[i] = "reserved" /\ callStatus'[i] = "unknown")
    BY <1>8 DEF Initialize, Lost, Outstanding
  <2>2. DOMAIN toolStatus' = Tools
    BY <1>0, <2>1 DEF Rowed
  <2> QED BY <1>0, <2>1, <2>2, SumsMarked
<1>9. ASSUME NEW t \in Threads, NEW u \in Threads, Join(t, u) PROVE Accounting'
  BY <1>9, SumsSame DEF Join
<1>10. ASSUME NEW t \in Threads, NEW final \in BOOLEAN, NEW amount \in Amounts, Gate(t, final) \/ RefuseCall(t, amount, final)
       PROVE  Accounting'
  BY <1>10, SumsSame DEF Gate, RefuseCall
<1>a. ASSUME NEW t \in Threads, NEW final \in BOOLEAN, Gate(t, final) PROVE Accounting'
  BY <1>a, SumsSame DEF Gate
<1>11. ASSUME NEW t \in Threads, NEW final \in BOOLEAN, NEW amount \in Amounts, AdmitCall(t, amount, final) PROVE Accounting'
  <2>1. PICK i : i = calls + 1
    OBVIOUS
  <2>2. i \in Calls /\ callStatus[i] = "none" /\ amount \in Nat
    BY <1>11, <2>1, LimitsAssumption, AmountsAssumption DEF AdmitCall, MayCall, Fresh, TypeOK, CounterTypes, Calls
  <2>3. /\ callStatus' = [callStatus EXCEPT ![i] = "reserved"] /\ callCharge' = [callCharge EXCEPT ![i] = amount]
        /\ UNCHANGED <<toolStatus, toolCharge, settled>> /\ reserved' = reserved + amount
    BY <1>11, <2>1 DEF AdmitCall
  <2>4. /\ reserved' = reserved - (IF callStatus[i] \in Waiting THEN callCharge[i] ELSE 0) + (IF "reserved" \in Waiting THEN amount ELSE 0)
        /\ settled' = settled - (IF callStatus[i] \in Closed THEN callCharge[i] ELSE 0) + (IF "reserved" \in Closed THEN amount ELSE 0)
    BY <1>0, <2>2, <2>3 DEF Waiting, Closed, Rowed
  <2> QED BY <1>0, <2>2, <2>3, <2>4, CallCharged
<1>13. ASSUME NEW t \in Threads, StopInvestigation(t) \/ RequestCloseout(t) PROVE Accounting'
  BY <1>13, SumsSame DEF StopInvestigation, RequestCloseout
<1>15. ASSUME NEW t \in Threads, NEW usage \in Usages, SettleCall(t, usage) PROVE Accounting'
  <2>1. PICK i : i = held[t]
    OBVIOUS
  <2>2. i \in Calls /\ callStatus[i] = "reserved" /\ usage \in Nat /\ callCharge[i] \in Nat
    BY <1>0, <1>15, <2>1, AmountsAssumption DEF SettleCall, Mine, Rowed
  <2>3. /\ callStatus' = [callStatus EXCEPT ![i] = "settled"] /\ callCharge' = [callCharge EXCEPT ![i] = usage]
        /\ UNCHANGED <<toolStatus, toolCharge>> /\ reserved' = reserved - callCharge[i] /\ settled' = settled + usage
    BY <1>15, <2>1 DEF SettleCall
  <2>4. /\ reserved' = reserved - (IF callStatus[i] \in Waiting THEN callCharge[i] ELSE 0) + (IF "settled" \in Waiting THEN usage ELSE 0)
        /\ settled' = settled - (IF callStatus[i] \in Closed THEN callCharge[i] ELSE 0) + (IF "settled" \in Closed THEN usage ELSE 0)
    BY <1>0, <2>2, <2>3 DEF Waiting, Closed, Rowed
  <2> QED BY <1>0, <2>2, <2>3, <2>4, CallCharged
<1>16. ASSUME NEW t \in Threads, MissCall(t) PROVE Accounting'
  <2>1. /\ UNCHANGED <<reserved, settled, callCharge, toolCharge>> /\ DOMAIN callStatus' = Calls /\ toolStatus' = toolStatus
        /\ \A i \in Calls : callStatus'[i] = callStatus[i] \/ (callStatus[i] = "reserved" /\ callStatus'[i] = "unknown")
    BY <1>0, <1>16 DEF MissCall, Mine, Rowed
  <2>2. DOMAIN toolStatus' = Tools
    BY <1>0, <2>1 DEF Rowed
  <2> QED BY <1>0, <2>1, <2>2, SumsMarked
<1>17. ASSUME NEW t \in Threads, NEW k \in Tools, AdmitTool(t, k) PROVE Accounting'
  <2>1. PICK amount : amount = ToolTokens[k]
    OBVIOUS
  <2>2. toolStatus[k] = "none" /\ amount \in Nat
    BY <1>17, <2>1, AmountsAssumption DEF AdmitTool
  <2>3. /\ toolStatus' = [toolStatus EXCEPT ![k] = "reserved"] /\ toolCharge' = [toolCharge EXCEPT ![k] = amount]
        /\ UNCHANGED <<callStatus, callCharge, settled>> /\ reserved' = reserved + amount
    BY <1>17, <2>1 DEF AdmitTool
  <2>4. /\ reserved' = reserved - (IF toolStatus[k] \in Waiting THEN toolCharge[k] ELSE 0) + (IF "reserved" \in Waiting THEN amount ELSE 0)
        /\ settled' = settled - (IF toolStatus[k] \in Closed THEN toolCharge[k] ELSE 0) + (IF "reserved" \in Closed THEN amount ELSE 0)
    BY <1>0, <2>2, <2>3 DEF Waiting, Closed, Rowed
  <2> QED BY <1>0, <2>2, <2>3, <2>4, ToolCharged
<1>18. ASSUME NEW t \in Threads, NEW k \in Tools, RepeatTool(t, k) \/ RefuseTool(t, k) \/ SettledBefore(t, k) PROVE Accounting'
  BY <1>18, SumsSame DEF RepeatTool, RefuseTool, SettledBefore
<1>20. ASSUME NEW t \in Threads, NEW k \in Tools, NEW usage \in Usages, SettleTool(t, k, usage) PROVE Accounting'
  <2>2. toolStatus[k] = "reserved" /\ usage \in Nat /\ toolCharge[k] \in Nat
    BY <1>0, <1>20, AmountsAssumption DEF SettleTool, Rowed
  <2>3. /\ toolStatus' = [toolStatus EXCEPT ![k] = "settled"] /\ toolCharge' = [toolCharge EXCEPT ![k] = usage]
        /\ UNCHANGED <<callStatus, callCharge>> /\ reserved' = reserved - toolCharge[k] /\ settled' = settled + usage
    BY <1>20 DEF SettleTool
  <2>4. /\ reserved' = reserved - (IF toolStatus[k] \in Waiting THEN toolCharge[k] ELSE 0) + (IF "settled" \in Waiting THEN usage ELSE 0)
        /\ settled' = settled - (IF toolStatus[k] \in Closed THEN toolCharge[k] ELSE 0) + (IF "settled" \in Closed THEN usage ELSE 0)
    BY <1>0, <2>2, <2>3 DEF Waiting, Closed, Rowed
  <2> QED BY <1>0, <2>2, <2>3, <2>4, ToolCharged
<1>21. ASSUME NEW t \in Threads, NEW k \in Tools, MissTool(t, k) PROVE Accounting'
  <2>1. /\ UNCHANGED <<reserved, settled, callCharge, toolCharge>> /\ DOMAIN toolStatus' = Tools /\ callStatus' = callStatus
        /\ \A i \in Tools : toolStatus'[i] = toolStatus[i] \/ (toolStatus[i] = "reserved" /\ toolStatus'[i] = "unknown")
    BY <1>0, <1>21 DEF MissTool, Rowed
  <2>2. DOMAIN callStatus' = Calls
    BY <1>0, <2>1 DEF Rowed
  <2> QED BY <1>0, <2>1, <2>2, SumsMarked
<1>23. CASE UNCHANGED vars
  BY <1>23, SumsSame DEF vars
<1> QED
  BY <1>1, <1>4, <1>5, <1>8, <1>9, <1>10, <1>a, <1>11, <1>13, <1>15, <1>16, <1>17, <1>18, <1>20, <1>21, <1>23
     DEF Next, ThreadStep

\* Nothing is charged at the beginning.
LEMMA AccountingInit == Init => Accounting
<1> SUFFICES ASSUME Init PROVE Accounting
  OBVIOUS
<1>1. /\ {i \in DOMAIN callStatus : callStatus[i] \in {"reserved", "unknown"}} = {} /\ {i \in DOMAIN callStatus : callStatus[i] \in {"settled"}} = {}
      /\ {i \in DOMAIN toolStatus : toolStatus[i] \in {"reserved", "unknown"}} = {} /\ {i \in DOMAIN toolStatus : toolStatus[i] \in {"settled"}} = {}
  BY DEF Init
<1>2. /\ Tokens(callStatus, callCharge, {"reserved", "unknown"}) = {} /\ Tokens(callStatus, callCharge, {"settled"}) = {}
      /\ Tokens(toolStatus, toolCharge, {"reserved", "unknown"}) = {} /\ Tokens(toolStatus, toolCharge, {"settled"}) = {}
  BY <1>1 DEF Tokens
<1>3. Cardinality({}) = 0
  BY FS_EmptySet
<1> QED BY <1>2, <1>3 DEF Init, Accounting, Charged

-----------------------------------------------------------------------------
(* The theorems. *)

\* The initial states satisfy the invariant.
LEMMA BudgetInit == Init => BudgetInv
<1> SUFFICES ASSUME Init PROVE BudgetInv
  OBVIOUS
<1> USE LimitsAssumption, AmountsAssumption DEF Init, Calls
<1>1. TypeOK
  <2>1. RunTypes
    <3>1. live \in BOOLEAN /\ phase = "queued" /\ closeout = "none"
      OBVIOUS
    <3>2. attempt \in 0..MaxAttempts
      OBVIOUS
    <3> QED
      BY <3>1, <3>2 DEF RunTypes
  <2>4. CounterTypes
    BY DEF CounterTypes
  <2>2. RecordTypes
    BY DEF RecordTypes
  <2>3. ThreadTypes
    BY DEF ThreadTypes
  <2> QED
    BY <2>1, <2>2, <2>3, <2>4 DEF TypeOK
<1>2. Fresh /\ Fenced
  BY DEF Fresh, Fenced
<1>3. NeverOverspent
  BY DEF NeverOverspent
<1>4. UnknownCounted
  <2>1. {i \in Calls : callStatus[i] = "unknown"} = {} /\ {k \in Tools : toolStatus[k] = "unknown"} = {}
    OBVIOUS
  <2>2. /\ Cardinality({i \in Calls : callStatus[i] = "unknown"}) = 0
        /\ Cardinality({k \in Tools : toolStatus[k] = "unknown"}) = 0
    BY <2>1, FS_EmptySet
  <2>3. unreconciled = 0
    OBVIOUS
  <2> QED
    BY <2>2, <2>3 DEF UnknownCounted, Unknown
<1>5. NothingLeftOpen
  BY DEF NothingLeftOpen, Outstanding, OpenTools
<1> QED
  BY <1>1, <1>2, <1>3, <1>4, <1>5, AccountingInit DEF BudgetInv

\* The invariant is inductive.
LEMMA BudgetStep == BudgetInv /\ [Next]_vars => BudgetInv'
<1> SUFFICES ASSUME BudgetInv, [Next]_vars PROVE BudgetInv'
  OBVIOUS
<1>1. TypeOK /\ Fresh /\ Fenced /\ NeverOverspent /\ UnknownCounted /\ NothingLeftOpen /\ Accounting
  BY DEF BudgetInv
<1>2. TypeOK'
  BY <1>1, RunTypeStep, CounterTypeStep, RecordTypeStep, ThreadTypeStep DEF TypeOK
<1>3. Fresh' /\ Fenced' /\ NeverOverspent'
  BY <1>1, FreshStep, FencedStep, SpentStep
<1>4. UnknownCounted' /\ NothingLeftOpen' /\ Accounting'
  BY <1>1, CountedStep, LeftOpenStep, AccountingStep
<1> QED
  BY <1>2, <1>3, <1>4 DEF BudgetInv

\* BudgetInv holds of every behaviour.
LEMMA BudgetAlways == Spec => []BudgetInv
  BY BudgetInit, BudgetStep, PTL DEF Spec

\* The counters stay within the limits on rounds, tools and searches, whoever reserves
\* (harness.py:130-150, 274-280).
THEOREM BudgetTypes == Spec => []TypeOK
<1>1. BudgetInv => TypeOK
  BY DEF BudgetInv
<1> QED
  BY <1>1, BudgetAlways, PTL

\* The counters of the run are what its calls and tools say: what is reserved or of unknown
\* usage stays charged at its reservation, what is settled at its usage, whoever repeats,
\* takes over or settles late (harness.py:88-103, 247-255, 322-332).
THEOREM CountersAreTold == Spec => []CountersTell
<1>1. BudgetInv => CountersTell
  BY DEF BudgetInv, CountersTell
<1> QED
  BY <1>1, BudgetAlways, PTL

\* Threads and attempts together keep the token limit and the report's reserve, except
\* for what providers use beyond their reservations (harness.py:150-163, 281-290).
THEOREM BudgetKept == Spec => []NeverOverspent
<1>1. BudgetInv => NeverOverspent
  BY DEF BudgetInv
<1> QED
  BY <1>1, BudgetAlways, PTL

\* Every call of unknown usage is counted once (harness.py:88-103, control.py:78-92).
THEOREM UnknownsCounted == Spec => []UnknownCounted
<1>1. BudgetInv => UnknownCounted
  BY DEF BudgetInv
<1> QED
  BY <1>1, BudgetAlways, PTL

\* Nothing stays reserved that nobody can settle (harness.py:87-103, control.py:78-92).
THEOREM LeftNothingOpen == Spec => []NothingLeftOpen
<1>1. BudgetInv => NothingLeftOpen
  BY DEF BudgetInv
<1> QED
  BY <1>1, BudgetAlways, PTL

\* The filter of an admission asks for the closeout in the transaction that admits.
LEMMA ClosedStep ==
  ASSUME TypeOK, closeout # "none", [Next]_vars
  PROVE  /\ closeout' = closeout
         /\ tools' = tools
         /\ calls' # calls => calls' \in finals'
<1> DEFINE Kept == /\ closeout' = closeout
                   /\ tools' = tools
                   /\ calls' # calls => calls' \in finals'
<1> USE LimitsAssumption, AmountsAssumption DEF TypeOK, RunTypes, CounterTypes, RecordTypes,
       ThreadTypes, Calls, vars, runVars,
       counterVars, callVars, toolVars, threadVars
<1>1. ASSUME LeaseExpires PROVE Kept
  BY <1>1 DEF LeaseExpires
<1>2. ASSUME Cancel PROVE Kept
  BY <1>2 DEF Cancel
<1>3. ASSUME Expire PROVE Kept
  BY <1>3 DEF Expire
<1>4. ASSUME Conclude PROVE Kept
  BY <1>4 DEF Conclude
<1>5. ASSUME NEW t \in Threads, Claim(t) PROVE Kept
  BY <1>5 DEF Claim
<1>6. ASSUME NEW t \in Threads, Leave(t) PROVE Kept
  BY <1>6 DEF Leave, Gone
<1>7. ASSUME NEW t \in Threads, Finish(t) PROVE Kept
  BY <1>7 DEF Finish, Gone
<1>8. ASSUME NEW t \in Threads, Initialize(t) PROVE Kept
  BY <1>8 DEF Initialize
<1>9. ASSUME NEW t \in Threads, NEW u \in Threads, Join(t, u) PROVE Kept
  BY <1>9 DEF Join
<1>10. ASSUME NEW t \in Threads, NEW final \in BOOLEAN, Gate(t, final) PROVE Kept
  BY <1>10 DEF Gate
<1>11. ASSUME NEW t \in Threads, NEW final \in BOOLEAN, NEW amount \in Amounts, AdmitCall(t, amount,
       final) PROVE Kept
  BY <1>11 DEF AdmitCall, MayCall
<1>12. ASSUME NEW t \in Threads, NEW final \in BOOLEAN, NEW amount \in Amounts, RefuseCall(t, amount,
       final) PROVE Kept
  BY <1>12 DEF RefuseCall
<1>13. ASSUME NEW t \in Threads, StopInvestigation(t) PROVE Kept
  BY <1>13 DEF StopInvestigation
<1>14. ASSUME NEW t \in Threads, RequestCloseout(t) PROVE Kept
  BY <1>14 DEF RequestCloseout
<1>15. ASSUME NEW t \in Threads, NEW usage \in Usages, SettleCall(t, usage) PROVE Kept
  BY <1>15 DEF SettleCall, Done, Mine
<1>16. ASSUME NEW t \in Threads, MissCall(t) PROVE Kept
  BY <1>16 DEF MissCall, Done, Mine
<1>17. ASSUME NEW t \in Threads, NEW k \in Tools, AdmitTool(t, k) PROVE Kept
  BY <1>17 DEF AdmitTool, Use, MayUse
<1>18. ASSUME NEW t \in Threads, NEW k \in Tools, RepeatTool(t, k) PROVE Kept
  BY <1>18 DEF RepeatTool, Use
<1>19. ASSUME NEW t \in Threads, NEW k \in Tools, RefuseTool(t, k) PROVE Kept
  BY <1>19 DEF RefuseTool
<1>20. ASSUME NEW t \in Threads, NEW k \in Tools, NEW usage \in Usages, SettleTool(t, k,
       usage) PROVE Kept
  BY <1>20 DEF SettleTool, Done
<1>21. ASSUME NEW t \in Threads, NEW k \in Tools, MissTool(t, k) PROVE Kept
  BY <1>21 DEF MissTool, Done
<1>22. ASSUME NEW t \in Threads, NEW k \in Tools, SettledBefore(t, k) PROVE Kept
  BY <1>22 DEF SettledBefore, Done
<1>23. CASE UNCHANGED vars
  BY <1>23
<1> QED
  BY <1>1, <1>2, <1>3, <1>4, <1>5, <1>6, <1>7, <1>8, <1>9, <1>10, <1>11, <1>12, <1>13, <1>14, <1>15,
       <1>16, <1>17, <1>18, <1>19, <1>20, <1>21, <1>22, <1>23 DEF Next, ThreadStep

\* After the first reason to close out the investigation gets nothing more
\* (harness.py:145-149, 190-198, 277).
THEOREM StaysClosedOut == Spec => ClosedOut
<1>1. TypeOK /\ [Next]_vars =>
        [closeout # "none" =>
           /\ closeout' = closeout
           /\ tools' = tools
           /\ calls' # calls => calls' \in finals']_vars
  BY ClosedStep
<1> QED
  BY <1>1, BudgetTypes, PTL DEF Spec, ClosedOut

=============================================================================
