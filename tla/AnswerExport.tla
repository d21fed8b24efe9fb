---------------------------- MODULE AnswerExport ----------------------------
(***************************************************************************)
(* Files made from a finished answer.  Ticks of the gateway have one       *)
(* Markdown file made by themselves (semibrain_conversation/exports.py);   *)
(* the user asks for others; the business service queues, renders, stores  *)
(* and sweeps (semibrain_business/report_exports.py).                      *)
(* An asset is named by the job and the attempt that stores it.            *)
(***************************************************************************)
EXTENDS Naturals, Sequences

CONSTANTS
  Couriers,   \* gateway ticks in process_automatic at the same time
  Renderers,  \* business ticks in process_one at the same time
  Sweepers,   \* business ticks in sweep
  Own,        \* request_ids of the user's exports
  MaxFences,  \* bound on claims by couriers
  MaxExports  \* bound on export jobs

ASSUME ExportAssumption == MaxFences \in Nat /\ MaxExports \in Nat

Automatic == "automatic"   \* uuid5 of run, report and format
Keys == Own \cup {Automatic}
Over == {"succeeded", "failed"}
Attempts == 1..2
Assets == (1..MaxExports) \X Attempts
None == <<0, 0>>

VARIABLES
  delivery,  \* gateway_runs.answer_export
  leased,    \* its lease has not run out
  overtime,  \* its deadline_at has passed
  courier,   \* each courier: step, fence, the export_id it read, what it was told
  exports,   \* report_exports, by the order of their creation
  files,     \* assets: "absent", "intent" (a row), "stored" (row and object), "kept"
  aged,      \* assets created more than ten minutes ago
  renderer,  \* each renderer: step, job, attempt
  sweeper    \* each sweeper: step, and the asset or job it has decided to remove

gatewayVars == <<delivery, leased, overtime, courier>>
exportVars  == <<gatewayVars, exports, files, aged, renderer, sweeper>>
ExportJobs == DOMAIN exports

Results == {"queued", "running", "succeeded", "failed"}

ExportTypes ==
  /\ delivery \in [status : {"pending", "running"} \cup Over, fence : 0..MaxFences,
                   job : 0..MaxExports, failures : 0..3]
  /\ leased \in BOOLEAN /\ overtime \in BOOLEAN
  /\ courier \in [Couriers -> [step : {"idle", "ask", "told"}, fence : 0..MaxFences, job : 0..MaxExports,
                               failures : 0..2, late : BOOLEAN, answer : Results \cup {"none", "error"}]]
  /\ exports \in Seq([key : Keys, status : Results, attempt : 0..2, leased : BOOLEAN,
                      asset : Assets \cup {None}, expired : BOOLEAN, purged : BOOLEAN])
  /\ files \in [Assets -> {"absent", "intent", "stored", "kept"}]
  /\ aged \subseteq Assets
  /\ renderer \in [Renderers -> [step : {"idle", "render", "store", "commit", "undo", "keep"},
                                 job : 0..MaxExports, attempt : 0..2]]
  /\ sweeper \in [Sweepers -> [step : {"idle", "asset", "job"}, asset : Assets \cup {None}, job : 0..MaxExports]]

RestingCourier == [step |-> "idle", fence |-> 0, job |-> 0, failures |-> 0, late |-> FALSE, answer |-> "none"]
RestingRenderer == [step |-> "idle", job |-> 0, attempt |-> 0]
RestingSweeper == [step |-> "idle", asset |-> None, job |-> 0]

\* project() leaves an answer_export that is pending.
ExportInit ==
  /\ delivery = [status |-> "pending", fence |-> 0, job |-> 0, failures |-> 0]
  /\ leased = FALSE /\ overtime = FALSE
  /\ courier = [c \in Couriers |-> RestingCourier]
  /\ exports = <<>> /\ files = [a \in Assets |-> "absent"] /\ aged = {}
  /\ renderer = [r \in Renderers |-> RestingRenderer]
  /\ sweeper = [s \in Sweepers |-> RestingSweeper]

-----------------------------------------------------------------------------
(* The gateway. *)

ClaimDelivery(c) ==
  /\ courier[c].step = "idle" /\ delivery.status \notin Over /\ ~leased /\ delivery.fence < MaxFences
  /\ delivery' = [delivery EXCEPT !.fence = @ + 1]
  /\ leased' = TRUE
  /\ courier' = [courier EXCEPT ![c] = [step |-> "ask", fence |-> delivery.fence + 1, job |-> delivery.job,
                   failures |-> delivery.failures, late |-> overtime, answer |-> "none"]]
  /\ UNCHANGED <<overtime, exports, files, aged, renderer, sweeper>>

Keyed(k) == {j \in ExportJobs : exports[j].key = k}

\* Mutant of Enter: each call makes a job of its own.
EnterAnew(k) ==
  /\ Len(exports) < MaxExports
  /\ exports' = Append(exports, [key |-> k, status |-> "queued", attempt |-> 0, leased |-> FALSE,
                                 asset |-> None, expired |-> FALSE, purged |-> FALSE])

\* create() of the business service: a key that has its job gets it again.
Enter(k) ==
  \/ Keyed(k) # {} /\ UNCHANGED exports
  \/ /\ Keyed(k) = {} /\ Len(exports) < MaxExports
     /\ exports' = Append(exports, [key |-> k, status |-> "queued", attempt |-> 0, leased |-> FALSE,
                                    asset |-> None, expired |-> FALSE, purged |-> FALSE])

\* The user's own exports.
RequestExport(k) ==
  /\ Enter(k)
  /\ UNCHANGED <<gatewayVars, files, aged, renderer, sweeper>>

\* The job that a request is about: the one the courier knows, or that of the automatic key.
Asked(job, jobs) == IF job # 0 THEN job ELSE CHOOSE j \in DOMAIN jobs : jobs[j].key = Automatic

\* The request of a courier: a new job, or the state of the one it knows.  The answer
\* may be lost although the request has been handled.
CallBusiness(c) ==
  /\ courier[c].step = "ask" /\ ~courier[c].late
  /\ IF courier[c].job = 0 THEN Enter(Automatic) ELSE UNCHANGED exports
  /\ \E answer \in {"error", exports'[Asked(courier[c].job, exports')].status} :
       courier' = [courier EXCEPT ![c].step = "told", ![c].answer = answer,
                                  ![c].job = IF answer = "error" THEN @ ELSE Asked(courier[c].job, exports')]
  /\ UNCHANGED <<delivery, leased, overtime, files, aged, renderer, sweeper>>

\* The deadline has passed, or the business service cannot be reached or refuses.
CallFails(c) ==
  /\ courier[c].step = "ask"
  /\ courier' = [courier EXCEPT ![c].step = "told", ![c].answer = "error"]
  /\ UNCHANGED <<delivery, leased, overtime, exports, files, aged, renderer, sweeper>>

\* Mutant of Holds: any courier may write what it was told.
HoldsAny(c) == TRUE

\* Do not overwrite a newer claim: its fence, and a lease that has not run out.
Holds(c) == delivery.fence = courier[c].fence /\ leased

\* The write at the end of process_automatic(): three failures in a row, a passed
\* deadline or a refusal for good end the delivery.
RecordDelivery(c) ==
  /\ courier[c].step = "told"
  /\ LET me == courier[c] IN
       IF ~Holds(c) THEN UNCHANGED <<delivery, leased>>
       ELSE /\ leased' = FALSE
            /\ IF me.answer = "error"
               THEN \E s \in {"failed"} \cup (IF me.late \/ me.failures = 2 THEN {} ELSE {delivery.status}) :
                      delivery' = [delivery EXCEPT !.failures = me.failures + 1, !.status = s]
               ELSE delivery' = [delivery EXCEPT !.failures = 0, !.job = me.job,
                                   !.status = IF me.answer \in Over THEN me.answer ELSE "running"]
  /\ courier' = [courier EXCEPT ![c] = RestingCourier]
  /\ UNCHANGED <<overtime, exports, files, aged, renderer, sweeper>>

CourierDies(c) ==
  /\ courier[c].step # "idle"
  /\ courier' = [courier EXCEPT ![c] = RestingCourier]
  /\ UNCHANGED <<delivery, leased, overtime, exports, files, aged, renderer, sweeper>>

DeliveryLapses ==
  /\ \/ leased /\ leased' = FALSE /\ UNCHANGED overtime
     \/ ~overtime /\ overtime' = TRUE /\ UNCHANGED leased
  /\ UNCHANGED <<delivery, courier, exports, files, aged, renderer, sweeper>>

-----------------------------------------------------------------------------
(* The business service. *)

Lapsed(j) == exports[j].status = "running" /\ ~exports[j].leased

\* The first statement of process_one(): two attempts are enough.
GiveUpExport(j) ==
  /\ Lapsed(j) /\ exports[j].attempt >= 2
  /\ exports' = [exports EXCEPT ![j].status = "failed"]
  /\ UNCHANGED <<gatewayVars, files, aged, renderer, sweeper>>

\* Mutant of Another: a lapsed attempt is always followed by another.
AnotherAlways(j) == TRUE

Another(j) == exports[j].attempt < 2

ClaimExport(r, j) ==
  /\ renderer[r].step = "idle" /\ Another(j) /\ ~exports[j].expired
  /\ exports[j].status = "queued" \/ Lapsed(j)
  /\ exports' = [exports EXCEPT ![j].status = "running", ![j].leased = TRUE, ![j].attempt = @ + 1]
  /\ renderer' = [renderer EXCEPT ![r] = [step |-> "render", job |-> j, attempt |-> exports[j].attempt + 1]]
  /\ UNCHANGED <<gatewayVars, files, aged, sweeper>>

Mine(r) == <<renderer[r].job, renderer[r].attempt>>

\* Mutant of Current: the status of the job is all that is looked at.
CurrentByStatus(r) == exports[renderer[r].job].status = "running"

Current(r) ==
  LET j == renderer[r].job IN
    exports[j].status = "running" /\ exports[j].attempt = renderer[r].attempt

\* source(), rendering and source() again, then the row of store_asset(), which is
\* written before the object.  source() refuses an export that has expired.
Render(r) ==
  /\ renderer[r].step = "render" /\ ~exports[renderer[r].job].expired
  /\ files' = [files EXCEPT ![Mine(r)] = "intent"]
  /\ renderer' = [renderer EXCEPT ![r].step = "store"]
  /\ UNCHANGED <<gatewayVars, exports, aged, sweeper>>

\* put_object().  The row may have been swept meanwhile; then the object alone is
\* stored, which is not tracked here.
Store(r) ==
  /\ renderer[r].step = "store"
  /\ files' = [files EXCEPT ![Mine(r)] = IF @ = "intent" THEN "stored" ELSE @]
  /\ renderer' = [renderer EXCEPT ![r].step = "commit"]
  /\ UNCHANGED <<gatewayVars, exports, aged, sweeper>>

\* source() once more, and the update that publishes the file.
CommitExport(r) ==
  /\ renderer[r].step = "commit"
  /\ LET j == renderer[r].job IN
       IF Current(r) /\ exports[j].leased /\ ~exports[j].expired
       THEN /\ exports' = [exports EXCEPT ![j].status = "succeeded", ![j].asset = Mine(r)]
            /\ renderer' = [renderer EXCEPT ![r].step = "keep"]
       ELSE /\ UNCHANGED exports
            /\ renderer' = [renderer EXCEPT ![r].step = "undo"]
  /\ UNCHANGED <<gatewayVars, files, aged, sweeper>>

\* An exception: the job fails if it is still this attempt's.  (Before the last check
\* the filter compares the lease with the time of the claim, so it does not
\* matter whether it has run out.)  What has been stored is removed.
ExportFails(r) ==
  /\ renderer[r].step \in {"render", "store", "commit", "undo"}
  /\ LET j == renderer[r].job IN
       exports' = IF Current(r) /\ (renderer[r].step = "undo" => exports[j].leased)
                  THEN [exports EXCEPT ![j].status = "failed"] ELSE exports
  /\ files' = IF renderer[r].step \in {"commit", "undo"} THEN [files EXCEPT ![Mine(r)] = "absent"] ELSE files
  /\ renderer' = [renderer EXCEPT ![r] = RestingRenderer]
  /\ UNCHANGED <<gatewayVars, aged, sweeper>>

Keep(r) ==
  /\ renderer[r].step = "keep"
  /\ files' = [files EXCEPT ![Mine(r)] = IF @ = "absent" THEN @ ELSE "kept"]
  /\ renderer' = [renderer EXCEPT ![r] = RestingRenderer]
  /\ UNCHANGED <<gatewayVars, exports, aged, sweeper>>

RendererDies(r) ==
  /\ renderer[r].step # "idle"
  /\ renderer' = [renderer EXCEPT ![r] = RestingRenderer]
  /\ UNCHANGED <<gatewayVars, exports, files, aged, sweeper>>

\* Time: leases of 150 seconds, which are not renewed, so an asset is ten minutes old
\* only when the lease under which it was stored has run out; the 30 days of an export.
ExportTime ==
  /\ \/ \E j \in ExportJobs : exports[j].leased /\ exports' = [exports EXCEPT ![j].leased = FALSE] /\ UNCHANGED aged
     \/ \E j \in ExportJobs : ~exports[j].expired /\ exports' = [exports EXCEPT ![j].expired = TRUE] /\ UNCHANGED aged
     \/ \E a \in Assets : /\ a \notin aged /\ files[a] # "absent"
                          /\ exports[a[1]].attempt = a[2] => ~exports[a[1]].leased
                          /\ aged' = aged \cup {a} /\ UNCHANGED exports
  /\ UNCHANGED <<gatewayVars, files, renderer, sweeper>>

\* Mutant of Abandoned: the sweep goes by the age of a file alone.
AbandonedByAge(a) == TRUE

\* What sweep() takes for abandoned: neither the winner of a job that has not expired
\* nor a file of a job that is being worked on.
Abandoned(a) ==
  LET e == exports[a[1]] IN
    ~(e.asset = a /\ ~e.expired) /\ ~(e.status = "running" /\ e.leased)

\* sweep() reads the job of an old, uncommitted asset ...
SweepLook(s, a) ==
  /\ sweeper[s].step = "idle" /\ a \in aged /\ files[a] \in {"intent", "stored"}
  /\ IF exports[a[1]].asset = a /\ ~exports[a[1]].expired /\ ~Abandoned(a)
     THEN files' = [files EXCEPT ![a] = "kept"] /\ UNCHANGED sweeper
     ELSE /\ Abandoned(a) /\ UNCHANGED files
          /\ sweeper' = [sweeper EXCEPT ![s] = [step |-> "asset", asset |-> a, job |-> 0]]
  /\ UNCHANGED <<gatewayVars, exports, aged, renderer>>

\* ... and then removes the object and the row.
SweepAsset(s) ==
  /\ sweeper[s].step = "asset"
  /\ files' = [files EXCEPT ![sweeper[s].asset] = "absent"]
  /\ sweeper' = [sweeper EXCEPT ![s] = RestingSweeper]
  /\ UNCHANGED <<gatewayVars, exports, aged, renderer>>

\* The second half of sweep(): the files of an expired job, then its mark.
SweepExpired(s, j) ==
  /\ sweeper[s].step = "idle" /\ exports[j].expired /\ ~exports[j].purged
  /\ files' = [a \in Assets |-> IF a[1] = j THEN "absent" ELSE files[a]]
  /\ sweeper' = [sweeper EXCEPT ![s] = [step |-> "job", asset |-> None, job |-> j]]
  /\ UNCHANGED <<gatewayVars, exports, aged, renderer>>

SweepMark(s) ==
  /\ sweeper[s].step = "job"
  /\ exports' = [exports EXCEPT ![sweeper[s].job].purged = TRUE]
  /\ sweeper' = [sweeper EXCEPT ![s] = RestingSweeper]
  /\ UNCHANGED <<gatewayVars, files, aged, renderer>>

Sweep(s) == \/ SweepAsset(s) \/ SweepMark(s)
            \/ \E a \in Assets : SweepLook(s, a)
            \/ \E j \in ExportJobs : SweepExpired(s, j)

ExportNext ==
  \/ \E c \in Couriers : ClaimDelivery(c) \/ CallBusiness(c) \/ CallFails(c) \/ RecordDelivery(c) \/ CourierDies(c)
  \/ DeliveryLapses \/ ExportTime
  \/ \E k \in Own : RequestExport(k)
  \/ \E r \in Renderers : \/ Render(r) \/ Store(r) \/ CommitExport(r) \/ ExportFails(r) \/ Keep(r) \/ RendererDies(r)
                          \/ \E j \in ExportJobs : ClaimExport(r, j)
  \/ \E j \in ExportJobs : GiveUpExport(j)
  \/ \E s \in Sweepers : Sweep(s)

ExportSpec == ExportInit /\ [][ExportNext]_exportVars

-----------------------------------------------------------------------------
(* Properties. *)

\* However often couriers repeat themselves, the answer has one automatic export; a
\* delivery that has succeeded is that of an export that has, and stays so.
OneAutomaticExport ==
  /\ \A i, j \in ExportJobs : exports[i].key = exports[j].key => i = j
  /\ delivery.status = "succeeded" => exports[delivery.job].status = "succeeded"
DeliveryFinal == [][delivery.status \in Over => delivery' = delivery]_exportVars

\* Whatever renderers that have lost their lease and sweeps remove, the file that a
\* successful export names is there until it expires.
DownloadKept ==
  \A j \in ExportJobs : exports[j].status = "succeeded" /\ ~exports[j].expired => files[exports[j].asset] \in {"stored", "kept"}

=============================================================================
