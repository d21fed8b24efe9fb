------------------------------- MODULE MCGateway -------------------------------
(***************************************************************************)
(* The gateway's own workflows as a disjoint sum: a behaviour is one of    *)
(* submissions, of titles, of files made from an answer, of logins, or of  *)
(* delegated authority.  The parts have no state in common.                *)
(***************************************************************************)
EXTENDS ConversationIntake, ConversationTitles, AnswerExport, Sessions, Delegations, TLC

VARIABLE part

sumVars == <<part, intakeVars, titlesVars, exportVars, sessionVars, delegationVars>>

SumInit ==
  /\ part \in {"intake", "titles", "exports", "sessions", "delegations"}
  /\ IntakeInit /\ ExportInit
  /\ TitlesInit /\ (part # "titles" => title.source = "placeholder")
  /\ SessionsInit /\ (part # "sessions" => account.word = CHOOSE w \in Words : TRUE)
  /\ DelegationsInit /\ (part # "delegations" => gateway.web /\ gateway.multi /\ "web" \in task.ops)

SumNext ==
  /\ \/ part = "intake" /\ IntakeNext /\ UNCHANGED <<titlesVars, exportVars, sessionVars, delegationVars>>
     \/ part = "titles" /\ TitlesNext /\ UNCHANGED <<intakeVars, exportVars, sessionVars, delegationVars>>
     \/ part = "exports" /\ ExportNext /\ UNCHANGED <<intakeVars, titlesVars, sessionVars, delegationVars>>
     \/ part = "sessions" /\ SessionsNext /\ UNCHANGED <<intakeVars, titlesVars, exportVars, delegationVars>>
     \/ part = "delegations" /\ DelegationsNext /\ UNCHANGED <<intakeVars, titlesVars, exportVars, sessionVars>>
  /\ UNCHANGED part

SumSpec == SumInit /\ [][SumNext]_sumVars

\* The types of all parts.
SumTypes == IntakeTypes /\ TitlesTypes /\ ExportTypes /\ SessionTypes /\ DelegationTypes

\* Submissions that race or repeat each other leave at most one run in progress, and
\* a repetition gets the run of the first request (conversations.py).
IntakeSound == SumTypes /\ OneActiveRun /\ RepeatedFindsItsRun

\* However deliveries and executors overlap, one file is made from an answer by
\* itself, and what can be downloaded is there (exports.py, report_exports.py).
ExportsSound == OneAutomaticExport /\ DownloadKept

\* A session that is accepted was opened with the current password, by a challenge
\* that was used once (auth.py, langfuse_sso.py).
SessionsSound == AdmittedByPassword /\ OneAttempt

\* What a person decided, or a delivery ended as, is not undone by what was under
\* way: a chosen title, a delivered file, a replaced password.
DecisionsStand == ChosenTitleStands /\ DeliveryFinal /\ ReplacedWasKnown

\* The configuration takes the same two values for the actors of all parts, and two
\* others for the keys of requests and for the renderers.
Alike == Permutations(Submitters) \cup Permutations(Requests)
=============================================================================
