----------------------------- MODULE QuickAnswer -----------------------------
(***************************************************************************)
(* Quick answers: the fixed pipeline of semibrain_agent/quick_web.py, when *)
(* the question may use the web, and the shorter one in execute_one() of   *)
(* runs.py.  The question is understood, at most a search, two pages and a *)
(* local lookup are made, and the answer is written from what they gave.   *)
(*                                                                         *)
(* A worker that crashes is replaced by one that begins again.  Its model  *)
(* turns are journaled by what they were asked (quick_requests.py), its    *)
(* tools by their step in the pipeline (executor.py), their jobs in the    *)
(* business service by the same name.  Who may write is the subject of     *)
(* RunLifecycle.  Queries are told apart by the documents understood from. *)
(***************************************************************************)
EXTENDS Naturals, Sequences, FiniteSets, Journals

CONSTANTS
  MaxQuickAttempts, \* the attempts execute_one() admits
  MaxSources        \* bound on changes of the documents a question is understood from

ASSUME QuickAssumption == MaxQuickAttempts \in Nat /\ MaxSources \in Nat \ {0}

QuickIntents == {"direct", "business", "provided", "public", "url"}
Planless == [search |-> FALSE, urls |-> <<>>, local |-> "nothing"]
Begun0   == [step |-> "understand", plan |-> Planless, seen |-> 1, urls |-> <<>>, page |-> 1,
             calling |-> FALSE, limited |-> FALSE, cut |-> FALSE]

VARIABLES
  quick,      \* the worker's execution; step "lost" when there is none
  onWeb,      \* allow_web of the question: which of the pipelines it takes
  given,      \* explicit_urls() of the question
  webOn,      \* web_allowed()
  clock,      \* "open", then the reserve for the answer, then past the deadline
  sources,    \* the documents the question may be understood from, by version
  understood, \* model_turns of the understanding: version -> intent
  jobs,       \* tool_calls, and the job each is for: name -> argument
  journal,    \* observations: name -> status, and what was found
  attempt,    \* runs.attempt
  answer      \* runs.status, once over

quickVars == <<quick, onWeb, given, webOn, clock, sources, understood, jobs, journal, attempt, answer>>
world     == <<onWeb, given, webOn, clock, sources>>

PageSteps == {"page:0", "page:1"}
Lookups   == {"knowledge", "business"}
ToolSteps == {"search"} \cup PageSteps \cup Lookups
Names     == [of : ToolSteps, by : 0..MaxQuickAttempts]
Observed  == [status : {"succeeded", "partial", "failed"}, found : {<<>>, <<1>>, <<2, 1>>}]
Failed    == [status |-> "failed", found |-> <<>>]

QuickTypes ==
  /\ quick.step \in {"lost", "understand", "search", "pages", "local", "bind", "answer", "finish"}
  /\ quick.seen \in 1..MaxSources /\ quick.page \in 1..3 /\ quick.calling \in BOOLEAN
  /\ onWeb \in BOOLEAN /\ webOn \in BOOLEAN /\ (webOn => onWeb) /\ given \in {<<>>, <<1>>}
  /\ clock \in {"open", "reserve", "out"} /\ sources \in 1..MaxSources
  /\ \A v \in DOMAIN understood : v \in 1..MaxSources /\ understood[v] \in QuickIntents
  /\ DOMAIN jobs \subseteq Names
  /\ \A i \in DOMAIN journal : i \in Names /\ journal[i] \in Observed
  /\ attempt \in 0..MaxQuickAttempts /\ answer \in {"none", "succeeded", "partial", "failed"}

QuickInit ==
  /\ quick = [Begun0 EXCEPT !.step = "lost"] /\ onWeb \in BOOLEAN /\ webOn = onWeb
  /\ given \in {<<>>, <<1>>} /\ (~onWeb => given = <<>>)
  /\ clock = "open" /\ sources = 1 /\ understood = <<>> /\ jobs = <<>> /\ journal = <<>>
  /\ attempt = 0 /\ answer = "none"

Answering == answer = "none" /\ quick.step # "lost"

\* execute_one() takes the run, or expire_exhausted() gives it up.
TakeQuick ==
  /\ answer = "none" /\ quick.step = "lost"
  /\ IF attempt < MaxQuickAttempts
     THEN attempt' = attempt + 1 /\ quick' = Begun0 /\ UNCHANGED answer
     ELSE answer' = "failed" /\ UNCHANGED <<attempt, quick>>
  /\ UNCHANGED <<world, understood, jobs, journal>>

CrashQuick ==
  /\ Answering /\ quick' = [Begun0 EXCEPT !.step = "lost"]
  /\ UNCHANGED <<world, understood, jobs, journal, attempt, answer>>

\* An error that is not a limit or the model's, or any error of the short pipeline.
FailQuick ==
  /\ Answering /\ answer' = "failed" /\ quick' = [Begun0 EXCEPT !.step = "lost"]
  /\ UNCHANGED <<world, understood, jobs, journal, attempt>>

\* A limit or the model's failure outside gather(): what there is becomes a partial answer.
CutShort ==
  /\ Answering /\ onWeb /\ quick.step # "finish"
  /\ clock = "out" \/ quick.step \in {"understand", "answer"}
  /\ quick' = [quick EXCEPT !.cut = TRUE, !.calling = FALSE, !.step = "finish"]
  /\ UNCHANGED <<world, understood, jobs, journal, attempt, answer>>

\* web_plan(), and the local lookup that gather() adds.
Plan(intent) ==
  [search |-> onWeb /\ intent = "public",
   urls   |-> IF onWeb /\ intent \in {"public", "url"} THEN given ELSE <<>>,
   local  |-> CASE intent = "direct" -> "nothing"
                [] intent = "business" -> "business"
                [] intent = "url" /\ onWeb -> "nothing"
                [] OTHER -> "knowledge"]

\* request(): a model turn of the run that was asked the same.
Remembered == sources \in DOMAIN understood

\* understand(): asked once while the documents are the same.
UnderstandQuick ==
  /\ Answering /\ quick.step = "understand" /\ clock # "out"
  /\ clock = "open" \/ Remembered
  /\ \E intent \in IF Remembered THEN {understood[sources]}
                  ELSE IF given = <<>> THEN QuickIntents \ {"url"} ELSE QuickIntents :
       /\ understood' = Put(understood, sources, intent)
       /\ quick' = [quick EXCEPT !.seen = sources, !.plan = Plan(intent), !.urls = Plan(intent).urls,
                                 !.step = IF onWeb THEN "search" ELSE "local"]
  /\ UNCHANGED <<world, jobs, journal, attempt, answer>>

\* Mutant of Name: a new one for each attempt, as uid() would give.
NameOfAttempt(step) == [of |-> step, by |-> attempt]

\* uuid5(run:quick:step): a step has the same name in every attempt.  The two kinds of
\* local lookup are two steps.
Name(step) == [of |-> step, by |-> 0]

\* What the pipeline asks for next.
Due ==
  CASE quick.step = "search" /\ quick.plan.search -> Name("search")
    [] quick.step = "pages" /\ quick.page <= Len(quick.urls) -> Name(IF quick.page = 1 THEN "page:0" ELSE "page:1")
    [] quick.step = "local" /\ quick.plan.local # "nothing" -> Name(quick.plan.local)
    [] OTHER -> Name("nothing")

\* Its argument: a page's url, or what was understood; 0 for the retrieval, which has no job.
Argument ==
  CASE quick.step = "pages" -> quick.urls[quick.page]
    [] quick.step = "local" /\ quick.plan.local = "knowledge" -> 0
    [] OTHER -> quick.seen

\* A tool is called for what is due, if it needs no web or web_enabled() says there is.
Calls(i) == Answering /\ i = Due /\ i.of # "nothing" /\ ~quick.calling /\ (quick.step = "local" \/ webOn) /\ (onWeb => clock # "out")

\* Mutant of Missing: a search that found nothing is not told to the answer.
MissingLocally(o) == quick.step # "search" /\ o.status = "failed"

\* What web() and gather() append to `limitations`.
Missing(o) ==
  \/ o.status = "failed"
  \/ quick.step = "search" /\ o.found = <<>>
  \/ quick.step = "local" /\ o.status # "succeeded"

\* list(dict.fromkeys(urls))[:2], of urls that end in what was found
Distinct(urls) == IF Len(urls) < 2 THEN urls ELSE IF urls[1] # urls[2] THEN SubSeq(urls, 1, 2) ELSE <<urls[1]>>

\* web() and gather() go on with an observation.
Take0(o) ==
  LET told == [quick EXCEPT !.limited = @ \/ Missing(o), !.calling = FALSE]
  IN quick' = CASE quick.step = "search" -> [told EXCEPT !.step = "pages", !.urls = Distinct(@ \o o.found)]
                [] quick.step = "pages"  -> [told EXCEPT !.page = @ + 1]
                [] quick.step = "local"  -> [told EXCEPT !.step = "bind"]

Journal(i, o) == journal' = Put(journal, i, o) /\ Take0(o)

\* execute(): an observation of the run stands, whatever is asked for now.  A page is never
\* found under another step's name: given urls come first and one search stands for all.
ReplayTool ==
  /\ \E i \in DOMAIN journal : Calls(i) /\ Take0(journal[i])
  /\ UNCHANGED <<world, understood, jobs, journal, attempt, answer>>

\* reserve_tool() and the job of client.tool(), which stay when the worker is lost.  There
\* are five steps and QUICK_LIMITS admits six tools, so there is always one left.
SubmitTool ==
  /\ onWeb => clock = "open"
  /\ \E i \in {Due} \ DOMAIN journal :
       /\ Calls(i)
       /\ jobs' = IF i \in DOMAIN jobs THEN jobs ELSE Put(jobs, i, Argument)
  /\ quick' = [quick EXCEPT !.calling = TRUE]
  /\ UNCHANGED <<world, understood, journal, attempt, answer>>

\* What a tool may answer: a job of another request under the name is refused, only a
\* search finds urls, and a business query that returns has evidence.
Results(i) ==
  IF jobs[i] # Argument THEN {Failed}
  ELSE {Failed} \cup [status : IF Argument = 0 THEN {"succeeded"} ELSE {"succeeded", "partial"},
                      found : CASE i.of = "search" -> {<<>>, <<1>>, <<2, 1>>}
                                [] i.of \in PageSteps -> {<<>>}
                                [] OTHER -> IF Argument = 0 THEN {<<>>, <<1>>} ELSE {<<1>>}]

ObserveTool ==
  /\ Answering /\ onWeb /\ quick.calling /\ clock # "out"
  /\ \E o \in Results(Due) : Journal(Due, o)
  /\ UNCHANGED <<world, understood, jobs, attempt, answer>>

\* The short pipeline journals nothing: a failing lookup ends the run, a partial one limits it.
ObserveAlone ==
  /\ Answering /\ ~onWeb /\ quick.calling
  /\ \E o \in Results(Due) \ {Failed} :
       quick' = [quick EXCEPT !.calling = FALSE, !.step = "bind", !.limited = o.status = "partial"]
  /\ UNCHANGED <<world, understood, jobs, journal, attempt, answer>>

\* web() and gather() where nothing is due, and where the web has been turned off.
PassOver ==
  /\ Answering /\ quick.step \in {"search", "pages", "local"} /\ (onWeb => clock # "out")
  /\ \/ /\ Due.of = "nothing"
        /\ quick' = [quick EXCEPT !.step = CASE @ = "search" -> "pages" [] @ = "pages" -> "local" [] @ = "local" -> "bind"]
     \/ /\ quick.step # "local" /\ Due.of # "nothing" /\ ~webOn /\ ~quick.calling
        /\ quick' = [quick EXCEPT !.step = "local", !.limited = TRUE]
  /\ UNCHANGED <<world, understood, jobs, journal, attempt, answer>>

\* tool(): nothing new is begun in the last 45 seconds.
EndGathering ==
  /\ onWeb /\ clock = "reserve" /\ Calls(Due) /\ Due \notin DOMAIN journal
  /\ quick' = [quick EXCEPT !.limited = TRUE, !.step = "bind"]
  /\ UNCHANGED <<world, understood, jobs, journal, attempt, answer>>

\* Evidence of the run, of every attempt.
Evidence == \E i \in DOMAIN journal : journal[i].status # "failed" /\ (i.of \in PageSteps \/ (i.of \in Lookups /\ journal[i].found # <<>>))

\* bind_evidence(): new facts without any evidence limit the answer.
BindEvidence ==
  /\ Answering /\ onWeb /\ quick.step = "bind" /\ clock # "out"
  /\ quick' = [quick EXCEPT !.step = "answer", !.limited = @ \/ (understood[quick.seen] # "direct" /\ ~Evidence)]
  /\ UNCHANGED <<world, understood, jobs, journal, attempt, answer>>

\* The short pipeline answers from what it retrieved, if it was anything or not.
BindAlone ==
  /\ Answering /\ ~onWeb /\ quick.step = "bind"
  /\ quick' = [quick EXCEPT !.step = "answer"]
  /\ UNCHANGED <<world, understood, jobs, journal, attempt, answer>>

\* The answer is streamed; citing what is not there cuts it.
Stream ==
  /\ Answering /\ quick.step = "answer" /\ clock # "out"
  /\ \E unknown \in BOOLEAN : quick' = [quick EXCEPT !.step = "finish", !.cut = unknown]
  /\ UNCHANGED <<world, understood, jobs, journal, attempt, answer>>

Verdict == IF quick.cut \/ quick.limited THEN "partial" ELSE "succeeded"

FinishQuick ==
  /\ Answering /\ quick.step = "finish" /\ answer' = Verdict
  /\ UNCHANGED <<world, quick, understood, jobs, journal, attempt>>

\* disable_web(), time, and a document that becomes active.
QuickWorld ==
  /\ answer = "none"
  /\ \/ webOn' = FALSE /\ UNCHANGED <<clock, sources>>
     \/ clock' = (IF clock = "open" THEN "reserve" ELSE "out") /\ UNCHANGED <<webOn, sources>>
     \/ sources < MaxSources /\ sources' = sources + 1 /\ UNCHANGED <<webOn, clock>>
  /\ UNCHANGED <<onWeb, given, quick, understood, jobs, journal, attempt, answer>>

QuickNext ==
  \/ TakeQuick \/ CrashQuick \/ FailQuick \/ CutShort \/ UnderstandQuick
  \/ ReplayTool \/ SubmitTool \/ ObserveTool \/ ObserveAlone \/ PassOver \/ EndGathering
  \/ BindEvidence \/ BindAlone \/ Stream \/ FinishQuick \/ QuickWorld

QuickSpec == QuickInit /\ [][QuickNext]_quickVars

\* A web answer that is called a success had everything its own plan asks for: the search
\* and what it found, each page, and the lookup of the kind it plans, whatever an earlier
\* attempt with another plan left behind and whenever the web was turned off (web(),
\* gather(), finish()).
SuccessIsWhole ==
  answer = "succeeded" /\ onWeb =>
    /\ quick.plan.search => journal[Name("search")].status # "failed" /\ journal[Name("search")].found # <<>>
    /\ \A p \in DOMAIN quick.urls : journal[Name(IF p = 1 THEN "page:0" ELSE "page:1")].status # "failed"
    /\ quick.plan.local # "nothing" => journal[Name(quick.plan.local)].status = "succeeded"
    /\ understood[quick.seen] # "direct" => Evidence

\* All attempts of a run together ask for one search, two pages, one retrieval and one
\* business query at most, with whatever plans, and the limits admit one more (tool(),
\* reserve_tool(), submit()).
AskedOnce == \A step \in ToolSteps : Cardinality({i \in DOMAIN jobs : i.of = step}) <= 1
=============================================================================
