---------------------------- MODULE Investigation ----------------------------
(***************************************************************************)
(* The single investigator (semibrain_agent/investigator.py) with its      *)
(* review and closeout (closeout.py, web_readiness.py), its journals of    *)
(* model turns and tool observations (executor.py) and its checkpoints     *)
(* (checkpoints.py), through crashes of its worker.                        *)
(*                                                                         *)
(* After a crash a phase of the graph is executed again from the last      *)
(* checkpoint; what its journals hold is not asked or executed again.      *)
(* Turns are keyed by step and steps never repeat, so `turns` holds those  *)
(* of the current step alone.  A draft is named by the step that wrote it; *)
(* Composed is any text the server makes from registered evidence.  Who    *)
(* may write is the subject of RunLifecycle, what may be spent that of     *)
(* RunBudget: here a limit may be met at any call.                         *)
(***************************************************************************)
EXTENDS Naturals, Journals

CONSTANTS
  MaxRounds,   \* the 12 rounds of model()
  MaxCrashes   \* bound on crashes of the worker

ASSUME InvestigationAssumption == MaxRounds \in Nat /\ MaxCrashes \in Nat

\* An investigation has no more steps: two for a round, and those of its reviews and its end.
MaxSteps == 2 * MaxRounds + 9

Composed == 0
Fresh == [phase |-> "understand", step |-> 1, round |-> 0, action |-> "none", calls |-> "none",
          closing |-> FALSE, reason |-> "none", draft |-> Composed, kept |-> Composed, reviews |-> 0,
          repaired |-> FALSE, checked |-> FALSE, empty |-> 0, repeats |-> 0, limited |-> FALSE,
          packet |-> FALSE, outcome |-> "none"]

VARIABLES
  graph,      \* the state of the graph in the worker
  saved,      \* the state in the committed checkpoint
  turns,      \* model_turns of the current step: suffix -> answer
  observed,   \* observations: "required", "gap", "search", or "calls" of the current step -> status
  fell,       \* searches the investigator has made by itself in this execution of the phase
  stopped,    \* runs.closeout_reason
  web,        \* web_allowed, for a question about public sources
  report,     \* what is published
  crashes,
  reviewed,   \* history: the drafts of which a reviewer has kept something
  unseen      \* history: searches of `fell` that were made in this step, before a crash too

investigationVars == <<graph, saved, turns, observed, fell, stopped, web, report, crashes, reviewed, unseen>>

Outcomes == {"none", "succeeded", "partial", "waiting_input"}
States ==
  [phase : {"understand", "model", "answer", "tools", "finalize", "review", "revise", "done"}, step : 1..MaxSteps,
   round : 0..MaxRounds, action : {"none", "investigate", "direct"}, calls : {"none", "search", "work", "again"},
   closing : BOOLEAN, reason : {"none", "ready", "limit"}, draft : 0..MaxSteps, kept : 0..MaxSteps, reviews : 0..2,
   repaired : BOOLEAN, checked : BOOLEAN, empty : 0..1, repeats : 0..1, limited : BOOLEAN,
   packet : BOOLEAN, outcome : Outcomes]

InvestigationTypes ==
  /\ graph \in States /\ saved \in States
  /\ DOMAIN observed \subseteq {"required", "gap", "search", "calls"}
  /\ \A id \in DOMAIN observed : observed[id] \in {"ok", "poor"}
  /\ stopped \in {"none", "ready", "limit"} /\ web \in BOOLEAN
  /\ fell \subseteq unseen /\ unseen \subseteq {"required", "gap"}
  /\ report \in [outcome : Outcomes, draft : 0..MaxSteps]
  /\ crashes \in 0..MaxCrashes /\ reviewed \subseteq 1..MaxSteps

InvestigationInit ==
  /\ graph = Fresh /\ saved = Fresh /\ turns = <<>> /\ observed = <<>> /\ fell = {} /\ unseen = {}
  /\ stopped = "none" /\ web \in BOOLEAN /\ crashes = 0 /\ reviewed = {}
  /\ report = [outcome |-> "none", draft |-> Composed]

Has(s)  == s \in DOMAIN turns
Said(s) == IF Has(s) THEN turns[s] ELSE "nothing"
Searched == "required" \in DOMAIN observed \/ "gap" \in DOMAIN observed \/ "search" \in DOMAIN observed
              \/ ("calls" \in DOMAIN observed /\ graph.calls = "search")
SearchRequired == web /\ graph.action = "investigate"

-----------------------------------------------------------------------------
(* What the current phase still asks of the model or of a tool. *)

\* Closing with a packet of evidence, or with an answer that is ready.
Closeout == graph.phase = "review" /\ graph.closing /\ (graph.packet \/ graph.reason = "ready")
Ready    == graph.reason = "ready"

\* The one repair of a closeout, when a limit is not the reason to close.
Repairing == Ready /\ Said("review") \in {"invalid", "gaps", "issues", "empty"}

\* supplement_web_evidence() is about to look for a gap; a small budget, a failed call
\* or an invalid answer end it quietly.
Supplement == Said("model") = "text" /\ SearchRequired /\ Searched /\ "required" \notin fell /\ ~graph.checked

Intents  == {"invalid", "clarify", "investigate", "direct", "undeliverable"}
Verdicts == {"good", "gaps", "issues", "empty", "invalid"}

\* Those of review(): what it approves of, with goals that are missing or a style to mend,
\* and what needs retrieval; "located" and "lacking" name the parts that can be kept.
Approved   == {"approved", "incomplete", "wanting", "style"}
Retrieving == {"wanting", "lacking", "retrieve"}

\* The suffix of the next model call and its possible answers.  inspect() is one call
\* here: that it may have a malformed verdict repaired, or its goals looked at again,
\* only changes which verdict it ends with.
Wanted ==
  CASE graph.phase = "understand" /\ ~Has("first") -> [suffix |-> "first", answers |-> Intents]
    [] graph.phase = "understand" /\ Said("first") = "invalid" /\ ~Has("second") ->
         [suffix |-> "second", answers |-> Intents]
    [] graph.phase = "model" /\ ~Has("model") /\ graph.round < MaxRounds ->
         [suffix |-> "model", answers |-> {"work", "again", "text", "empty"} \cup (IF web THEN {"search"} ELSE {})]
    [] graph.phase = "model" /\ Supplement /\ ~Has("readiness") ->
         [suffix |-> "readiness", answers |-> {"gap", "enough"}]
    [] Closeout /\ ~Has("review") -> [suffix |-> "review", answers |-> Verdicts]
    [] Closeout /\ Repairing /\ ~Has("repair") -> [suffix |-> "repair", answers |-> {"text"}]
    [] Closeout /\ Repairing /\ Has("repair") /\ ~Has("recheck") -> [suffix |-> "recheck", answers |-> Verdicts]
    [] graph.phase = "review" /\ ~Closeout /\ fell = {} /\ ~Has("review") ->
         [suffix |-> "review", answers |-> Approved \cup Retrieving \cup {"issues", "located"}]
    [] graph.phase \in {"revise", "finalize"} /\ ~Has("text") -> [suffix |-> "text", answers |-> {"text"}]
    [] OTHER -> [suffix |-> "nothing", answers |-> {}]

\* The places where ensure_web_search() is called.
Fallback ==
  /\ SearchRequired /\ ~Searched /\ ~graph.closing
  /\ \/ graph.phase = "model" /\ Said("model") = "text"
     \/ graph.phase = "tools" /\ graph.calls # "search"
     \/ graph.phase = "review"

\* The next tool call, by its logical id.
Pending ==
  CASE Fallback -> "required"
    [] graph.phase = "model" /\ Said("readiness") = "gap" /\ "gap" \notin DOMAIN observed -> "gap"
    [] graph.phase = "tools" /\ graph.calls # "again" /\ "calls" \notin DOMAIN observed -> "calls"
    [] OTHER -> "nothing"

-----------------------------------------------------------------------------
(* The worker. *)

Working == graph.phase # "done"

\* A call passes the gate; a gap is looked for past one, even if the answer is journaled.
Calling == Pending # "nothing" \/ Wanted.suffix # "nothing" \/ (graph.phase = "model" /\ Supplement)

\* investigation_gate(), which calls for the final answer do not pass through.
Admitted == graph.closing \/ stopped = "none" \/ graph.phase \in {"review", "revise"}

\* model_call_once(): the answer is in the journal before anything is made of it.
AskInvestigator ==
  /\ Working /\ Pending = "nothing" /\ Admitted
  /\ \E answer \in Wanted.answers : turns' = Put(turns, Wanted.suffix, answer)
  /\ UNCHANGED <<graph, saved, observed, fell, stopped, web, report, crashes, reviewed, unseen>>

\* _execute(): the observation is journaled once and stands.  (A fallback search that
\* no query can be made for is left out: then nothing is required.)
Execute ==
  /\ Working /\ Pending # "nothing" /\ stopped = "none"
  /\ \E status \in {"ok", "poor"} : observed' = Put(observed, Pending, status)
  /\ fell' = fell \cup ({Pending} \ {"calls"}) /\ unseen' = unseen \cup fell'
  /\ UNCHANGED <<graph, saved, turns, stopped, web, report, crashes, reviewed>>

\* node() and Checkpoints.save(): a step is over.  That web access has been turned off
\* is noticed at the beginning of the next.
Checkpoint(s) ==
  /\ graph' = [s EXCEPT !.step = @ + 1] /\ saved' = graph'
  /\ turns' = <<>> /\ fell' = {} /\ unseen' = {}
  /\ observed' = [id \in (DOMAIN observed \ {"calls"}) \cup (IF "calls" \in DOMAIN observed /\ graph.calls = "search"
                                                             THEN {"search"} ELSE {}) |->
                    IF id \in DOMAIN observed THEN observed[id] ELSE observed["calls"]]
  /\ web' \in {web, FALSE}
  /\ UNCHANGED <<report, crashes>>

\* The phase has what it asked for; an optional question may be passed over.
Answered(phase) ==
  /\ graph.phase = phase /\ Pending = "nothing"
  /\ Wanted.suffix \in {"nothing", "readiness", "repair", "recheck"}

\* understand(): a request for files nobody can make ends here too.
Understand ==
  /\ Answered("understand")
  /\ LET intent == IF Said("first") = "invalid" THEN Said("second") ELSE Said("first") IN
       /\ intent # "invalid"
       /\ Checkpoint(CASE intent = "clarify" -> [graph EXCEPT !.phase = "done", !.outcome = "waiting_input"]
                       [] intent = "undeliverable" -> [graph EXCEPT !.phase = "done", !.outcome = "partial"]
                       [] OTHER -> [graph EXCEPT !.phase = "model", !.action = intent])
  /\ UNCHANGED <<stopped, reviewed>>

\* has_limitations: a limited result of this step, unless it was journaled before a
\* crash by a search of the investigator's own.
Limited == graph.limited \/ \E id \in {"calls", "required"} \cap DOMAIN observed :
                              observed[id] = "poor" /\ (id = "required" => id \in fell)

\* request_closeout(): the first reason stands.
First(reason) == IF stopped = "none" THEN reason ELSE stopped

Drafted == [graph EXCEPT !.round = @ + 1, !.phase = "review", !.draft = graph.step, !.checked = @ \/ Has("readiness")]

\* The closeout is asked for, and no checkpoint tells of it yet.
ToAnswer(reason) ==
  /\ stopped' = First("ready")
  /\ graph' = [graph EXCEPT !.phase = "answer", !.closing = TRUE, !.reason = reason]
  /\ UNCHANGED <<saved, turns, observed, fell, web, report, crashes, unseen>>

\* Mutant of BeginAnswer: it goes on as if its reason were the one that stands.
BeginAnswerAnyway ==
  IF graph.action # "investigate" THEN Checkpoint(Drafted) /\ UNCHANGED stopped ELSE ToAnswer("ready")

\* begin_answer(): nothing more is looked for.
BeginAnswer ==
  IF graph.action # "investigate" THEN Checkpoint(Drafted) /\ UNCHANGED stopped ELSE ToAnswer(First("ready"))

\* The end of model() after it: the text is a draft.
SaveAnswer ==
  /\ graph.phase = "answer" /\ Checkpoint(Drafted)
  /\ UNCHANGED <<stopped, reviewed>>

\* A text is not taken for an answer right after a search the investigator has made
\* by itself.  (A gap search that failed is found again after a crash.)
ThinksAgain == fell # {} \/ (Said("readiness") = "gap" /\ observed["gap"] = "poor")

Model ==
  /\ Answered("model") /\ Has("model")
  /\ LET next == [graph EXCEPT !.round = @ + 1] IN
       CASE Said("model") \in {"search", "work", "again"} ->
              Checkpoint([next EXCEPT !.phase = "tools", !.calls = Said("model")]) /\ UNCHANGED stopped
         [] Said("model") = "empty" ->
              graph.empty = 0 /\ Checkpoint([next EXCEPT !.empty = 1]) /\ UNCHANGED stopped
         [] OTHER ->
              IF ThinksAgain
              THEN Checkpoint([next EXCEPT !.checked = @ \/ Has("readiness"), !.limited = Limited]) /\ UNCHANGED stopped
              ELSE BeginAnswer
  /\ UNCHANGED reviewed

\* tools(): two repetitions of calls that were made are one too many.
CallTools ==
  /\ Answered("tools") /\ ~(graph.calls = "again" /\ graph.repeats = 1)
  /\ Checkpoint([graph EXCEPT !.phase = "model", !.limited = Limited, !.calls = "none",
                              !.repeats = IF graph.calls = "again" THEN 1 ELSE @])
  /\ UNCHANGED <<stopped, reviewed>>

\* retain_reviewed() keeps the draft, or the parts a reviewer has located; what was
\* kept of an earlier draft is dropped.
Retained == IF Said("review") \in Approved \cup {"located", "lacking"} THEN graph.draft ELSE Composed

\* What salvages an investigation: what a reviewer has kept, or a text of the server.
\* Mutant of Salvage: the draft there is.
SalvageDraft(kept) == IF kept = Composed THEN graph.draft ELSE kept
Salvage(kept) == kept

\* review() of a draft that is not the last one yet.
Review ==
  /\ Answered("review") /\ ~Closeout
  /\ IF fell # {} THEN Checkpoint([graph EXCEPT !.phase = "model", !.limited = Limited]) /\ UNCHANGED reviewed
     ELSE LET verdict == Said("review")
              judged  == [graph EXCEPT !.kept = Retained, !.reviews = IF @ = 2 THEN 2 ELSE @ + 1]
          IN /\ reviewed' = reviewed \cup ({Retained} \ {Composed})
             /\ Checkpoint(
                  IF verdict \in Retrieving /\ ~graph.closing /\ ~graph.repaired
                  THEN [judged EXCEPT !.phase = "model", !.repaired = TRUE, !.action = "investigate"]
                  ELSE IF verdict \notin Approved \ {"style"} /\ judged.reviews < 2 THEN [judged EXCEPT !.phase = "revise"]
                  ELSE [judged EXCEPT !.phase = "done", !.draft = IF verdict \in Approved THEN @ ELSE Salvage(Retained),
                          !.outcome = IF verdict = "approved" /\ ~graph.limited /\ ~graph.closing THEN "succeeded" ELSE "partial"])
  /\ UNCHANGED stopped

\* revise() writes the draft of the next review.
Revise ==
  /\ Answered("revise")
  /\ Checkpoint([graph EXCEPT !.phase = "review", !.draft = graph.step])
  /\ UNCHANGED <<stopped, reviewed>>

\* final_answer(): from a packet of the evidence there is; without any there is no draft.
FinalAnswer ==
  /\ Answered("finalize") /\ stopped' = First(graph.reason)
  /\ Checkpoint([graph EXCEPT !.phase = "review", !.draft = graph.step, !.packet = TRUE])
  /\ UNCHANGED reviewed

\* score(): a body, then fewer missing goals, then fewer issues; within one verdict these
\* still may differ.
Score == [good |-> 4, issues |-> 3, gaps |-> 2, empty |-> 1, invalid |-> 0, nothing |-> 0]
Better(second, first) == {Score[second] > Score[first], second # "nothing" /\ Score[second] >= Score[first]}

\* review_answer(): a repair replaces the draft unless it is worse; the call for it
\* may fail.  Only what a reviewer has verified of the better one is published.
CloseoutReview ==
  /\ Closeout /\ Answered("review")
  /\ \E better \in Better(Said("recheck"), Said("review")) :
       LET best  == IF better THEN Said("recheck") ELSE Said("review")
           draft == IF best = "empty" THEN Composed ELSE IF better THEN graph.step ELSE graph.draft
       IN /\ best # "invalid"
          /\ reviewed' = reviewed \cup ({draft} \ {Composed})
          /\ Checkpoint([graph EXCEPT !.phase = "done", !.draft = draft,
                                      !.outcome = IF Ready /\ best = "good" THEN "succeeded" ELSE "partial"])
  /\ UNCHANGED stopped

-----------------------------------------------------------------------------
(* What execute() does with exceptions, and the end. *)

\* Mutant of Exhausted: an empty answer is asked for again, and is in the journal.
ExhaustedByRounds ==
  \/ graph.phase = "model" /\ graph.round = MaxRounds
  \/ graph.phase = "tools" /\ graph.calls = "again" /\ graph.repeats = 1

\* The limits of the investigator itself.
Exhausted ==
  \/ graph.phase = "model" /\ graph.round = MaxRounds
  \/ graph.phase = "model" /\ Said("model") = "empty" /\ graph.empty = 1
  \/ graph.phase = "tools" /\ graph.calls = "again" /\ graph.repeats = 1

Unusable ==
  \/ graph.phase = "understand" /\ Said("second") = "invalid"
  \/ Closeout /\ Said("review") = "invalid" /\ Said("recheck") \in {"nothing", "invalid"}

\* Calls for a final answer that are refused do not ask for a closeout themselves.
Refusals == IF Exhausted \/ graph.phase \in {"review", "revise"} THEN {stopped} ELSE {First("limit")}

\* A limit, while there is evidence an answer can be made of: the closeout begins in
\* the same step, and no checkpoint tells of it.
Limit ==
  /\ Working /\ ~graph.closing /\ (Exhausted \/ Calling)
  /\ stopped' \in Refusals
  /\ graph' = [graph EXCEPT !.phase = "finalize", !.closing = TRUE,
                            !.reason = IF stopped' = "none" \/ Exhausted THEN "limit" ELSE stopped']
  /\ fell' = {}
  /\ UNCHANGED <<saved, turns, observed, web, report, crashes, reviewed, unseen>>

\* Everything else: no evidence, no time, no model, or something kept already.
GiveUp ==
  /\ Working /\ (Exhausted \/ Calling \/ Unusable)
  /\ stopped' \in {stopped} \cup IF graph.closing THEN {} ELSE Refusals
  /\ graph' = [graph EXCEPT !.phase = "done", !.outcome = "partial", !.draft = Salvage(graph.kept)]
  /\ UNCHANGED <<saved, turns, observed, fell, web, report, crashes, reviewed, unseen>>

\* finish(), in one transaction.  Files that were asked for may be missing.
Publish ==
  /\ graph.phase = "done" /\ report.outcome = "none"
  /\ \E missing \in BOOLEAN :
       report' = [draft |-> graph.draft,
                  outcome |-> IF missing \/ (SearchRequired /\ ~Searched) THEN "partial" ELSE graph.outcome]
  /\ UNCHANGED <<graph, saved, turns, observed, fell, stopped, web, crashes, reviewed, unseen>>

\* The worker dies; the next one restores the checkpoint and begins the phase again.
CrashWorker ==
  /\ report.outcome = "none" /\ crashes < MaxCrashes
  /\ crashes' = crashes + 1 /\ graph' = saved /\ fell' = {} /\ web' \in {web, FALSE}
  /\ UNCHANGED <<saved, turns, observed, stopped, report, reviewed, unseen>>

Worker == \/ AskInvestigator \/ Execute \/ Understand \/ Model \/ SaveAnswer \/ CallTools \/ Review \/ Revise \/ FinalAnswer \/ CloseoutReview
          \/ Limit \/ GiveUp \/ Publish

InvestigationNext == Worker \/ CrashWorker

InvestigationSpec == InvestigationInit /\ [][InvestigationNext]_investigationVars

\* The worker goes on with a run it has leased, and another does when it dies.
InvestigationFairness == WF_investigationVars(Worker)

-----------------------------------------------------------------------------
(* Properties. *)

\* Whichever limit, failure or crash ends an investigation, what is published is a
\* text of the server's or one of which a reviewer has verified what is published.
PublishedWasReviewed ==
  report.outcome \in {"succeeded", "partial"} => report.draft \in reviewed \cup {Composed}

\* An investigation that is reported as a full success was closed because its answer was
\* ready: a limit that was met before is not forgotten when the worker that met it dies
\* and its successor, which has the answer in its journal, meets none.
SuccessWithinLimits ==
  report.outcome = "succeeded" /\ graph.action = "investigate" => stopped = "ready"

\* An investigation comes to its report: rounds, retrievals, repairs, revisions and
\* repeated phases are bounded.
InvestigationPublishes == <>(report.outcome # "none")

\* "Give the model the real observation so it can fetch sources before review"
\* (investigator.py:695): no text goes to review that was written before the search
\* the investigator had to add in the same step.
AnswerSawSearch == [][graph.phase \in {"model", "answer"} /\ graph'.phase = "review" => unseen = {}]_investigationVars
=============================================================================
