---------------------------- MODULE MCInvestigation ----------------------------
(***************************************************************************)
(* The ways a question is answered, as a disjoint sum: a behaviour is one  *)
(* of a single investigator, of a coordinator with specialists, of readers *)
(* that share a request, or of a quick answer.  The parts have no state in *)
(* common.                                                                 *)
(***************************************************************************)
EXTENDS Investigation, Specialists, ReadonlyReuse, QuickAnswer

VARIABLE part

sumVars == <<part, investigationVars, specialistsVars, reuseVars, quickVars>>

SumInit ==
  /\ part \in {"single", "multi", "reuse", "quick"}
  /\ InvestigationInit /\ (part # "single" => ~web)
  /\ SpecialistsInit /\ ReuseInit
  /\ QuickInit /\ (part # "quick" => ~onWeb)

SumNext ==
  /\ \/ part = "single" /\ InvestigationNext /\ UNCHANGED <<specialistsVars, reuseVars, quickVars>>
     \/ part = "multi" /\ SpecialistsNext /\ UNCHANGED <<investigationVars, reuseVars, quickVars>>
     \/ part = "reuse" /\ ReuseNext /\ UNCHANGED <<investigationVars, specialistsVars, quickVars>>
     \/ part = "quick" /\ QuickNext /\ UNCHANGED <<investigationVars, specialistsVars, reuseVars>>
  /\ UNCHANGED part

SumSpec == SumInit /\ [][SumNext]_sumVars /\ InvestigationFairness

\* The types of all parts.
SumTypes == InvestigationTypes /\ SpecialistsTypes /\ ReuseTypes /\ QuickTypes

\* What a single investigator publishes was reviewed in the form it has, and is
\* called a success only within the limits of the run (closeout.py, harness.py); a
\* quick answer is one only with all it planned to read, asked for once (quick_web.py).
AnswersSound == SumTypes /\ PublishedWasReviewed /\ SuccessWithinLimits /\ SuccessIsWhole /\ AskedOnce

\* InvestigationPublishes, of the behaviours that are a single investigator's.
SinglePublishes == part = "single" => InvestigationPublishes
=============================================================================
