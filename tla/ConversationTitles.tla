------------------------- MODULE ConversationTitles -------------------------
(***************************************************************************)
(* The title of a conversation (semibrain_conversation/titles.py): a       *)
(* placeholder, then the first words of the first question, then what a    *)
(* model proposes, unless the user has renamed the conversation.  A model  *)
(* is asked at most once for a job.  Jobs are numbered in the order of     *)
(* their creation; the index that removes them after a week is left out.   *)
(***************************************************************************)
EXTENDS Naturals, Sequences

CONSTANTS
  Drafters,   \* ticks in process_one at the same time
  Commands,   \* request_ids of renamings and suggestions
  MaxJobs     \* bound on jobs

ASSUME TitlesAssumption == MaxJobs \in Nat

VARIABLES
  begun,     \* the conversation has a message
  title,     \* the conversation's title_revision, title_source, title_status, title_job_id
  jobs,      \* conversation_title_jobs: mode, base_revision, status, deadline passed
  done,      \* keys in conversation_title_commands
  trusted,   \* the owner is enabled, with the auth_version of the jobs
  stage,     \* each drafter: where it is in process_one
  draft,     \* ... the job it has claimed, 0 when it has none
  asked      \* history: how often a model was asked for each job

titlesVars == <<begun, title, jobs, done, trusted, stage, draft, asked>>

Jobs == DOMAIN jobs

TitlesTypes ==
  /\ title \in [revision : Nat, source : {"placeholder", "fallback", "auto", "manual"},
                status : {"idle", "pending", "ready", "failed"}, job : 0..MaxJobs]
  /\ jobs \in Seq([mode : {"auto", "suggestion"}, base : Nat, overdue : BOOLEAN,
                   status : {"queued", "running", "ready", "failed", "superseded"}])
  /\ Len(jobs) <= MaxJobs
  /\ done \subseteq Commands /\ trusted \in BOOLEAN /\ begun \in BOOLEAN
  /\ stage \in [Drafters -> {"idle", "claimed", "call", "ready", "failed", "superseded"}]
  /\ draft \in [Drafters -> 0..MaxJobs]
  /\ asked \in [1..MaxJobs -> Nat]

\* create() gives a placeholder, or the title its form names.
TitlesInit ==
  /\ title \in [revision : {0}, source : {"placeholder", "manual"}, status : {"idle"}, job : {0}]
  /\ begun = FALSE /\ jobs = <<>> /\ done = {} /\ trusted = TRUE
  /\ stage = [d \in Drafters |-> "idle"] /\ draft = [d \in Drafters |-> 0]
  /\ asked = [j \in 1..MaxJobs |-> 0]

Job(mode, base) == [mode |-> mode, base |-> base, status |-> "queued", overdue |-> FALSE]

\* queue_first(), in the transaction that accepts the first message.
QueueFirst ==
  /\ ~begun /\ MaxJobs > 0
  /\ begun' = TRUE
  /\ IF title.source # "placeholder" THEN UNCHANGED <<title, jobs>>
     ELSE /\ title' = [revision |-> title.revision + 1, source |-> "fallback", status |-> "pending", job |-> 1]
          /\ jobs' = <<Job("auto", title.revision + 1)>>
  /\ UNCHANGED <<done, trusted, stage, draft, asked>>

\* rename(), filtered by the revision the user saw, which is the current one or the
\* command changes nothing; so does a repetition, which gets the result of the first.
Rename(c) ==
  /\ c \notin done
  /\ title' = [title EXCEPT !.revision = @ + 1, !.source = "manual", !.status = "idle"]
  /\ done' = done \cup {c}
  /\ UNCHANGED <<begun, jobs, trusted, stage, draft, asked>>

\* suggest(): the user asks for a proposal, which is shown and never applied.
Suggest(c) ==
  /\ c \notin done /\ begun /\ Len(jobs) < MaxJobs
  /\ jobs' = Append(jobs, Job("suggestion", title.revision))
  /\ done' = done \cup {c}
  /\ UNCHANGED <<begun, title, trusted, stage, draft, asked>>

\* Mutant of Claimable: a job whose attempt is overdue is taken up again.
ClaimableAgain(j) == jobs[j].status = "queued" \/ (jobs[j].status = "running" /\ jobs[j].overdue)

Claimable(j) == jobs[j].status = "queued"

\* The oldest queued job; its attempt has 45 seconds.
ClaimJob(d, j) ==
  /\ stage[d] = "idle" /\ Claimable(j) /\ \A i \in 1..(j - 1) : ~Claimable(i)
  /\ jobs' = [jobs EXCEPT ![j].status = "running"]
  /\ stage' = [stage EXCEPT ![d] = "claimed"]
  /\ draft' = [draft EXCEPT ![d] = j]
  /\ UNCHANGED <<begun, title, done, trusted, asked>>

\* Before the call: the owner, then the conversation, each read on its own.
CheckJob(d) ==
  /\ stage[d] = "claimed"
  /\ stage' = [stage EXCEPT ![d] = IF ~trusted THEN "failed"
                                   ELSE IF title.revision # jobs[draft[d]].base THEN "superseded" ELSE "call"]
  /\ UNCHANGED <<begun, title, jobs, done, trusted, draft, asked>>

\* The model answers, or not; the owner is looked up again.
AskModel(d) ==
  /\ stage[d] = "call"
  /\ asked' = [asked EXCEPT ![draft[d]] = @ + 1]
  /\ \E s \in {"failed"} \cup (IF trusted THEN {"ready"} ELSE {}) : stage' = [stage EXCEPT ![d] = s]
  /\ UNCHANGED <<begun, title, jobs, done, trusted, draft>>

\* Mutant of Untouched: the job alone tells whether the title may be replaced.
UntouchedByJob(j) == title.job = j

\* The title is still the one the job was queued for.
Untouched(j) == title.job = j /\ title.revision = jobs[j].base /\ title.source = "fallback"

\* Mutant of Settle: a failed job leaves the title pending.
SettleQuietly(j, s) ==
  /\ jobs' = [jobs EXCEPT ![j].status = s]
  /\ title' = IF jobs[j].mode # "auto" \/ ~Untouched(j) \/ s # "ready" THEN title
              ELSE [title EXCEPT !.revision = @ + 1, !.source = "auto", !.status = "ready"]

\* finish(): the end of a running job, and what it means for the title.
Settle(j, s) ==
  /\ jobs' = [jobs EXCEPT ![j].status = s]
  /\ title' = IF jobs[j].mode # "auto" \/ ~Untouched(j) THEN title
              ELSE IF s = "ready" THEN [title EXCEPT !.revision = @ + 1, !.source = "auto", !.status = "ready"]
              ELSE [title EXCEPT !.revision = @ + 1, !.status = "failed"]

\* The drafter ends its job, unless somebody else has.
FinishJob(d) ==
  /\ stage[d] \in {"ready", "failed", "superseded"}
  /\ IF jobs[draft[d]].status = "running" THEN Settle(draft[d], stage[d]) ELSE UNCHANGED <<jobs, title>>
  /\ stage' = [stage EXCEPT ![d] = "idle"] /\ draft' = [draft EXCEPT ![d] = 0]
  /\ UNCHANGED <<begun, done, trusted, asked>>

\* A tick that has just begun ends a job whose attempt is overdue, whether its
\* drafter is dead or slow.
ReapJob(d, j) ==
  /\ stage[d] = "idle" /\ jobs[j].status = "running" /\ jobs[j].overdue
  /\ Settle(j, "failed")
  /\ UNCHANGED <<begun, done, trusted, stage, draft, asked>>

Overdue(j) ==
  /\ jobs[j].status = "running" /\ ~jobs[j].overdue
  /\ jobs' = [jobs EXCEPT ![j].overdue = TRUE]
  /\ UNCHANGED <<begun, title, done, trusted, stage, draft, asked>>

DrafterDies(d) ==
  /\ stage[d] # "idle"
  /\ stage' = [stage EXCEPT ![d] = "idle"] /\ draft' = [draft EXCEPT ![d] = 0]
  /\ UNCHANGED <<begun, title, jobs, done, trusted, asked>>

\* A change of password, or an administrator, ends the owner's authorization.
RevokeOwner ==
  /\ trusted /\ trusted' = FALSE
  /\ UNCHANGED <<begun, title, jobs, done, stage, draft, asked>>

TitlesNext ==
  \/ QueueFirst \/ RevokeOwner
  \/ \E c \in Commands : Rename(c) \/ Suggest(c)
  \/ \E d \in Drafters : \/ CheckJob(d) \/ AskModel(d) \/ FinishJob(d) \/ DrafterDies(d)
                         \/ \E j \in Jobs : ClaimJob(d, j) \/ ReapJob(d, j)
  \/ \E j \in Jobs : Overdue(j)

TitlesSpec == TitlesInit /\ [][TitlesNext]_titlesVars

-----------------------------------------------------------------------------
(* Properties. *)

\* However late a model answers, a title the user has chosen is replaced by nothing
\* but another of the user's.
ChosenTitleStands ==
  [][title.source = "manual" /\ title' # title => title'.source = "manual" /\ done' # done]_titlesVars

\* A model is asked at most once for a job, through crashes and overdue attempts, and
\* a title never waits for a job that has ended.
TitleJobsSettle ==
  /\ \A j \in Jobs : asked[j] <= 1
  /\ title.status = "pending" => jobs[title.job].status \in {"queued", "running"}

=============================================================================
