--------------------------- MODULE EventTransport ---------------------------
(***************************************************************************)
(* One channel between two services: a producer's outbox collection, the   *)
(* Redis stream its relay writes, and the consumer's cursor, inbox and     *)
(* quarantine (semibrain_common/runtime.py and event_governance.py).       *)
(*                                                                         *)
(* Mongo transactions are single actions; every Redis call and every gap   *)
(* between two transactions is a point where other processes can run.      *)
(* Events are numbered by their created_at.  A stream entry's id is a      *)
(* number; `last` is the id Redis gave out last.                           *)
(***************************************************************************)
EXTENDS Naturals, FiniteSets

CONSTANTS
  Events,            \* the events the producer may write, ordered by created_at
  Relays,            \* ticks of the producing service that run relay()
  Consumers,         \* ticks of the consuming service
  NoConsumer,        \* the cursor's fence when it is unset
  RelayLimit,        \* relay(limit=50)
  BatchLimit,        \* consume(limit=30)
  OldSchema,         \* events the consumer's first release cannot validate
  Rejectable,        \* events whose handler may raise ValueError
  Crashing,          \* events whose handler always raises something else
  QuiescedRecovery,  \* TRUE: recovery is run with the producer's ticks stopped
  PunctualTicks,     \* TRUE: a running tick never outlives its 30s lease
  MaxRedrives,       \* redrives allowed per quarantined event: 2
  MaxId,             \* bound: ids Redis hands out
  MaxIncidents       \* bound: crashes, Redis losses and operator recoveries

FirstCeiling == 3    \* event_failures.ceiling before any redrive

ASSUME EventsAssumption   == Events \subseteq Nat /\ IsFiniteSet(Events)
ASSUME ConsumerAssumption == NoConsumer \notin Consumers
ASSUME LimitsAssumption   == /\ RelayLimit \in Nat \ {0}
                             /\ BatchLimit \in Nat \ {0}
                             /\ MaxRedrives \in Nat
                             /\ MaxId \in Nat
                             /\ MaxIncidents \in Nat
ASSUME KindsAssumption    == /\ OldSchema \subseteq Events
                             /\ Rejectable \subseteq Events
                             /\ Crashing \subseteq Events
                             /\ QuiescedRecovery \in BOOLEAN
                             /\ PunctualTicks \in BOOLEAN

VARIABLES
  \* the producer's database and its relays
  outbox,      \* delivery_state of each event
  rows,        \* what a relay's find() returned and it has not finished with
  sent,        \* the relay has XADDed its oldest row but not marked it yet
  \* Redis
  stream,      \* id -> event, for the entries Redis still has
  base,        \* the id just below the first entry Redis still has
  last,        \* the last id handed out
  \* the consumer's database
  cursor,      \* cursors.value
  fence,       \* cursors.fence
  leased,      \* cursors.lease_until is in the future
  inbox,       \* events recorded as received
  quarantine,  \* quarantine.state
  redrives,    \* quarantine.redrives
  attempts,    \* event_failures.attempts
  ceiling,     \* event_failures.ceiling, 0 when there is no such row
  supported,   \* events the deployed release can validate
  \* the consumer's ticks
  pc,          \* where each tick is
  batch,       \* id -> event: what its XREAD returned
  next,        \* the id of the entry it works on
  retry,       \* requeued events its find() returned and it has not finished with
  \* history: what the properties speak of
  effects,     \* how often the handler's writes have been committed
  rearmed,     \* the producer has been recovered since Redis was last lost
  rewound,     \* the consumer has been recovered since Redis was last lost
  incidents    \* how much of MaxIncidents is spent

producerVars == <<outbox, rows, sent>>
redisVars    == <<stream, base, last>>
cursorVars   == <<cursor, fence, leased>>
recordVars   == <<inbox, quarantine, redrives, attempts, ceiling, effects>>
tickVars     == <<pc, batch, next, retry>>
historyVars  == <<rearmed, rewound, incidents>>
vars == <<producerVars, redisVars, cursorVars, recordVars, supported, tickVars, historyVars>>

Empty == [i \in {} |-> 0]

Pending == {e \in Events : outbox[e] = "pending"}

\* e is the row worked on next among the rows S: rows come sorted by created_at.
Oldest(e, S) == e \in S /\ \A f \in S : e <= f

\* The consumer has a durable record of the event: it can be forgotten by Redis.
Handled(e) == e \in inbox \/ quarantine[e] \in {"pending", "requeued"}

InStream(e) == \E i \in DOMAIN stream : stream[i] = e

ProducerTypes ==
  /\ outbox \in [Events -> {"unpublished", "pending", "sent"}]
  /\ rows \in [Relays -> SUBSET Events]
  /\ sent \in [Relays -> BOOLEAN]

StreamTypes ==
  /\ base \in Nat /\ last \in Nat /\ base <= last
  /\ stream \in [(base + 1)..last -> Events]

CursorTypes ==
  /\ cursor \in Nat
  /\ fence \in Consumers \cup {NoConsumer}
  /\ leased \in BOOLEAN

RecordTypes ==
  /\ inbox \subseteq Events
  /\ quarantine \in [Events -> {"absent", "pending", "requeued", "resolved"}]
  /\ redrives \in [Events -> 0..MaxRedrives]
  /\ attempts \in [Events -> Nat]
  /\ ceiling \in [Events -> Nat]
  /\ effects \in [Events -> Nat]
  /\ supported \subseteq Events

TickTypes ==
  /\ pc \in [Consumers -> {"idle", "redriving", "refusing", "locked", "applying", "rejecting"}]
  /\ DOMAIN batch = Consumers
  /\ \A c \in Consumers : \A i \in DOMAIN batch[c] : i \in Nat /\ batch[c][i] \in Events
  /\ next \in [Consumers -> Nat]
  /\ retry \in [Consumers -> SUBSET Events]
  /\ \A c \in Consumers : pc[c] = "rejecting" => next[c] \in DOMAIN batch[c]

HistoryTypes == rearmed \in BOOLEAN /\ rewound \in BOOLEAN /\ incidents \in Nat

TypeOK ==
  ProducerTypes /\ StreamTypes /\ CursorTypes /\ RecordTypes /\ TickTypes /\ HistoryTypes

Init ==
  /\ outbox = [e \in Events |-> "unpublished"]
  /\ rows = [r \in Relays |-> {}]
  /\ sent = [r \in Relays |-> FALSE]
  /\ stream = Empty /\ base = 0 /\ last = 0
  /\ cursor = 0 /\ fence = NoConsumer /\ leased = FALSE
  /\ inbox = {}
  /\ quarantine = [e \in Events |-> "absent"]
  /\ redrives = [e \in Events |-> 0]
  /\ attempts = [e \in Events |-> 0]
  /\ ceiling = [e \in Events |-> 0]
  /\ supported = Events \ OldSchema
  /\ pc = [c \in Consumers |-> "idle"]
  /\ batch = [c \in Consumers |-> Empty]
  /\ next = [c \in Consumers |-> 0]
  /\ retry = [c \in Consumers |-> {}]
  /\ effects = [e \in Events |-> 0]
  /\ rearmed = TRUE /\ rewound = TRUE
  /\ incidents = 0

-----------------------------------------------------------------------------
(* The producing service. *)

\* publish(): the row joins the transaction that changes the domain state.
Publish(e) ==
  /\ outbox[e] = "unpublished"
  /\ outbox' = [outbox EXCEPT ![e] = "pending"]
  /\ UNCHANGED <<rows, sent, redisVars, cursorVars, recordVars, supported, tickVars, historyVars>>

\* relay(): find the oldest pending rows.
RelayFind(r) ==
  /\ rows[r] = {} /\ Pending # {}
  /\ rows' = [rows EXCEPT ![r] =
       {e \in Pending : Cardinality({f \in Pending : f < e}) < RelayLimit}]
  /\ UNCHANGED <<outbox, sent, redisVars, cursorVars, recordVars, supported, tickVars, historyVars>>

\* XADD, whatever another relay has done with the row in the meantime.
RelaySend(r) ==
  /\ ~sent[r] /\ last < MaxId
  /\ \E e \in Events :
       /\ Oldest(e, rows[r])
       /\ stream' = [i \in DOMAIN stream \cup {last + 1} |-> IF i = last + 1 THEN e ELSE stream[i]]
  /\ last' = last + 1
  /\ sent' = [sent EXCEPT ![r] = TRUE]
  /\ UNCHANGED <<outbox, rows, base, cursorVars, recordVars, supported, tickVars, historyVars>>

\* update_one({_id}) to "sent", whatever the row's state has become.
RelayMark(r) ==
  /\ sent[r]
  /\ \E e \in Events :
       /\ Oldest(e, rows[r])
       /\ outbox' = [outbox EXCEPT ![e] = "sent"]
       /\ rows' = [rows EXCEPT ![r] = @ \ {e}]
  /\ sent' = [sent EXCEPT ![r] = FALSE]
  /\ UNCHANGED <<redisVars, cursorVars, recordVars, supported, tickVars, historyVars>>

-----------------------------------------------------------------------------
(* A tick of the consuming service: consume_redrives(), then consume(). *)

\* Mutant: the quarantine row is updated without upsert.
RecordExisting(e, state) ==
  quarantine' = [quarantine EXCEPT ![e] = IF @ = "absent" THEN "absent" ELSE state]

Record(e, state) == quarantine' = [quarantine EXCEPT ![e] = state]

\* update_one without upsert: an event that was never quarantined stays so.
Resolve(e) ==
  Record(e, IF quarantine[e] = "absent" THEN "absent" ELSE "resolved")

\* Mutant: the handler commits without the inbox insert.
ReceiveUnrecorded(e) ==
  /\ effects' = [effects EXCEPT ![e] = @ + 1]
  /\ UNCHANGED inbox

\* The handler and the inbox insert commit together.
Receive(e) ==
  /\ inbox' = inbox \cup {e}
  /\ effects' = [effects EXCEPT ![e] = @ + 1]

StartTick(c) ==
  /\ pc[c] = "idle"
  /\ pc' = [pc EXCEPT ![c] = "redriving"]
  /\ retry' = [retry EXCEPT ![c] = {e \in Events : quarantine[e] = "requeued"}]
  /\ UNCHANGED <<producerVars, redisVars, cursorVars, recordVars, supported, batch, next, historyVars>>

\* The transaction of consume_redrives, on a row another tick may have settled.
RedriveCommit(c, e) ==
  /\ pc[c] = "redriving" /\ Oldest(e, retry[c])
  /\ \/ /\ quarantine[e] # "requeued"
        /\ UNCHANGED recordVars
     \/ /\ quarantine[e] = "requeued" /\ e \in inbox
        /\ Record(e, "resolved")
        /\ UNCHANGED <<inbox, redrives, attempts, ceiling, effects>>
     \/ /\ quarantine[e] = "requeued" /\ e \notin inbox /\ e \notin Crashing
        /\ Record(e, "resolved")
        /\ Receive(e)
        /\ UNCHANGED <<redrives, attempts, ceiling>>
  /\ retry' = [retry EXCEPT ![c] = @ \ {e}]
  /\ UNCHANGED <<producerVars, redisVars, cursorVars, supported, pc, batch, next, historyVars>>

\* The handler raises ValueError and the transaction aborts.
RedriveRefused(c, e) ==
  /\ pc[c] = "redriving" /\ Oldest(e, retry[c])
  /\ quarantine[e] = "requeued" /\ e \in Rejectable \ (inbox \cup Crashing)
  /\ pc' = [pc EXCEPT ![c] = "refusing"]
  /\ UNCHANGED <<producerVars, redisVars, cursorVars, inbox, quarantine, redrives, attempts,
                 ceiling, effects, supported, batch, next, retry, historyVars>>

\* reject(): back to pending, if the row is (still, or again) requeued.
RedriveReject(c, e) ==
  /\ pc[c] = "refusing" /\ Oldest(e, retry[c])
  /\ \/ /\ quarantine[e] = "requeued"
        /\ Record(e, "pending")
        /\ attempts' = [attempts EXCEPT ![e] = @ + 1]
     \/ /\ quarantine[e] # "requeued"
        /\ UNCHANGED <<quarantine, attempts>>
  /\ pc' = [pc EXCEPT ![c] = "redriving"]
  /\ retry' = [retry EXCEPT ![c] = @ \ {e}]
  /\ UNCHANGED <<producerVars, redisVars, cursorVars, inbox, redrives, ceiling, effects,
                 supported, batch, next, historyVars>>

\* Any other exception ends the tick before consume().
RedriveCrash(c, e) ==
  /\ pc[c] = "redriving" /\ Oldest(e, retry[c])
  /\ quarantine[e] = "requeued" /\ e \in Crashing \ inbox
  /\ pc' = [pc EXCEPT ![c] = "idle"]
  /\ retry' = [retry EXCEPT ![c] = {}]
  /\ UNCHANGED <<producerVars, redisVars, cursorVars, recordVars, supported, batch, next, historyVars>>

\* consume(): take the cursor's lease under a fresh fence ...
Acquire(c) ==
  /\ pc[c] = "redriving" /\ retry[c] = {} /\ ~leased
  /\ fence' = c /\ leased' = TRUE
  /\ pc' = [pc EXCEPT ![c] = "locked"]
  /\ UNCHANGED <<producerVars, redisVars, cursor, recordVars, supported, batch, next, retry, historyVars>>

\* ... or leave it to the tick that has it.
Yield(c) ==
  /\ pc[c] = "redriving" /\ retry[c] = {} /\ leased
  /\ pc' = [pc EXCEPT ![c] = "idle"]
  /\ UNCHANGED <<producerVars, redisVars, cursorVars, recordVars, supported, batch, next, retry, historyVars>>

\* XREAD from the cursor.  A tick that has lost its lease since Acquire may read
\* from another tick's cursor here; it cannot commit what it reads.
Read(c) ==
  LET first == IF cursor < base THEN base + 1 ELSE cursor + 1
      ids   == {i \in DOMAIN stream : first <= i /\ i < first + BatchLimit} IN
  /\ pc[c] = "locked"
  /\ batch' = [batch EXCEPT ![c] = [i \in ids |-> stream[i]]]
  /\ next' = [next EXCEPT ![c] = first]
  /\ pc' = [pc EXCEPT ![c] = "applying"]
  /\ UNCHANGED <<producerVars, redisVars, cursorVars, recordVars, supported, retry, historyVars>>

\* Mutant: the check for a live lease forgets whose it is.
HoldsAny(c) == c \in Consumers /\ leased

Holds(c) == fence = c /\ leased

\* The `finally` of consume(): unset the lease, if it is still this tick's.
Release(c) ==
  /\ fence' = IF fence = c THEN NoConsumer ELSE fence
  /\ leased' = IF fence = c THEN FALSE ELSE leased
  /\ pc' = [pc EXCEPT ![c] = "idle"]
  /\ batch' = [batch EXCEPT ![c] = Empty]
  /\ next' = [next EXCEPT ![c] = 0]

\* One entry's transaction: cursor, handler, inbox and quarantine commit together.
Commit(c) ==
  LET e == batch[c][next[c]] IN
  /\ pc[c] = "applying" /\ next[c] \in DOMAIN batch[c]
  /\ Holds(c)
  /\ \/ /\ e \in inbox
        /\ Resolve(e)
        /\ UNCHANGED <<inbox, effects>>
     \/ /\ e \notin inbox \cup supported
        /\ Record(e, "pending")
        /\ UNCHANGED <<inbox, effects>>
     \/ /\ e \in supported \ (inbox \cup Crashing)
        /\ Receive(e)
        /\ Resolve(e)
  /\ cursor' = next[c]
  /\ next' = [next EXCEPT ![c] = @ + 1]
  /\ UNCHANGED <<producerVars, redisVars, fence, leased, redrives, attempts, ceiling,
                 supported, pc, batch, retry, historyVars>>

\* The handler raises ValueError and the transaction aborts.
Refused(c) ==
  LET e == batch[c][next[c]] IN
  /\ pc[c] = "applying" /\ next[c] \in DOMAIN batch[c]
  /\ Holds(c)
  /\ e \in (supported \cap Rejectable) \ (inbox \cup Crashing)
  /\ pc' = [pc EXCEPT ![c] = "rejecting"]
  /\ UNCHANGED <<producerVars, redisVars, cursorVars, inbox, quarantine, redrives, attempts,
                 ceiling, effects, supported, batch, next, retry, historyVars>>

\* Mutant: the attempt is counted in the transaction that aborts.
RejectUncounted(c) ==
  /\ pc[c] = "rejecting" /\ Holds(c) /\ Release(c)
  /\ UNCHANGED <<producerVars, redisVars, cursor, recordVars, supported, retry, historyVars>>

\* rejected(): count the attempt; below the ceiling the batch stops there,
\* at the ceiling the event is parked and the cursor moves past it.
Reject(c) ==
  LET e     == batch[c][next[c]]
      limit == IF ceiling[e] = 0 THEN FirstCeiling ELSE ceiling[e] IN
  /\ pc[c] = "rejecting"
  /\ Holds(c)
  /\ attempts' = [attempts EXCEPT ![e] = @ + 1]
  /\ ceiling' = [ceiling EXCEPT ![e] = limit]
  /\ \/ /\ attempts[e] + 1 < limit
        /\ Release(c)
        /\ UNCHANGED <<cursor, quarantine>>
     \/ /\ attempts[e] + 1 >= limit
        /\ Record(e, "pending")
        /\ cursor' = next[c]
        /\ next' = [next EXCEPT ![c] = @ + 1]
        /\ pc' = [pc EXCEPT ![c] = "applying"]
        /\ UNCHANGED <<fence, leased, batch>>
  /\ UNCHANGED <<producerVars, redisVars, inbox, redrives, effects, supported, retry, historyVars>>

\* The batch is done, the lease is gone (STALE_CONSUMER), or the handler raises
\* something that is not a ValueError: consume() ends.
Finish(c) ==
  /\ \/ pc[c] = "applying" /\ next[c] \notin DOMAIN batch[c]
     \/ pc[c] = "applying" /\ next[c] \in DOMAIN batch[c] /\ ~Holds(c)
     \/ pc[c] = "rejecting" /\ ~Holds(c)
     \/ pc[c] = "applying" /\ next[c] \in DOMAIN batch[c]
        /\ batch[c][next[c]] \in (supported \cap Crashing) \ inbox
  /\ Release(c)
  /\ UNCHANGED <<producerVars, redisVars, cursor, recordVars, supported, retry, historyVars>>

-----------------------------------------------------------------------------
(* Operators: redrive(), recover_transport(), a release. *)

\* Mutant: an event can be redriven any number of times.
RedriveUnlimited(e) ==
  /\ quarantine[e] = "pending" /\ e \in supported
  /\ Record(e, "requeued")
  /\ redrives' = [redrives EXCEPT ![e] = @ + 1]
  /\ ceiling' = [ceiling EXCEPT ![e] = FirstCeiling * (redrives[e] + 2)]
  /\ UNCHANGED <<producerVars, redisVars, cursorVars, inbox, attempts, effects, supported,
                 tickVars, historyVars>>

Redrive(e) ==
  /\ quarantine[e] = "pending" /\ redrives[e] < MaxRedrives /\ e \in supported
  /\ Record(e, "requeued")
  /\ redrives' = [redrives EXCEPT ![e] = @ + 1]
  /\ ceiling' = [ceiling EXCEPT ![e] = FirstCeiling * (redrives[e] + 2)]
  /\ UNCHANGED <<producerVars, redisVars, cursorVars, inbox, attempts, effects, supported,
                 tickVars, historyVars>>

Spend == incidents < MaxIncidents /\ incidents' = incidents + 1

\* Mutant: a recovery leaves rows alone that were sent before.
RecoverUnsent ==
  /\ Spend
  /\ QuiescedRecovery => \A r \in Relays : rows[r] = {}
  /\ rearmed' = TRUE
  /\ UNCHANGED <<producerVars, redisVars, cursorVars, recordVars, supported, tickVars, rewound>>

\* recover_transport in the producing service: every row is pending again.
RecoverProducer ==
  /\ Spend
  /\ QuiescedRecovery => \A r \in Relays : rows[r] = {}
  /\ outbox' = [e \in Events |-> IF outbox[e] = "unpublished" THEN "unpublished" ELSE "pending"]
  /\ rearmed' = TRUE
  /\ UNCHANGED <<rows, sent, redisVars, cursorVars, recordVars, supported, tickVars, rewound>>

\* recover_transport in the consuming service: cursor at 0-0, old fence invalid.
RecoverConsumer ==
  /\ Spend
  /\ cursor' = 0 /\ fence' = NoConsumer /\ leased' = FALSE
  /\ rewound' = TRUE
  /\ UNCHANGED <<producerVars, redisVars, recordVars, supported, tickVars, rearmed>>

Upgrade(e) ==
  /\ e \notin supported
  /\ supported' = supported \cup {e}
  /\ UNCHANGED <<producerVars, redisVars, cursorVars, recordVars, tickVars, historyVars>>

-----------------------------------------------------------------------------
(* What goes wrong around the services. *)

LeaseExpires ==
  /\ leased
  /\ PunctualTicks => pc[fence] \notin {"locked", "applying", "rejecting"}
  /\ leased' = FALSE
  /\ UNCHANGED <<producerVars, redisVars, cursor, fence, recordVars, supported, tickVars, historyVars>>

\* The stream is gone.  Ids follow Redis's clock: they continue above the old
\* ones, or start below them when the replacement's clock is behind.
RedisLoss ==
  /\ Spend
  /\ last' \in {0, last} /\ base' = last' /\ stream' = Empty
  /\ rearmed' = FALSE /\ rewound' = FALSE
  /\ UNCHANGED <<producerVars, cursorVars, recordVars, supported, tickVars>>

RelayCrash(r) ==
  /\ Spend
  /\ rows[r] # {}
  /\ rows' = [rows EXCEPT ![r] = {}]
  /\ sent' = [sent EXCEPT ![r] = FALSE]
  /\ UNCHANGED <<outbox, redisVars, cursorVars, recordVars, supported, tickVars, rearmed, rewound>>

\* The process dies without its `finally`: the lease stays until it expires.
ConsumerCrash(c) ==
  /\ Spend
  /\ pc[c] # "idle"
  /\ pc' = [pc EXCEPT ![c] = "idle"]
  /\ batch' = [batch EXCEPT ![c] = Empty]
  /\ next' = [next EXCEPT ![c] = 0]
  /\ retry' = [retry EXCEPT ![c] = {}]
  /\ UNCHANGED <<producerVars, redisVars, cursorVars, recordVars, supported, rearmed, rewound>>

-----------------------------------------------------------------------------
RelayStep(r) == RelayFind(r) \/ RelaySend(r) \/ RelayMark(r)

ConsumerStep(c) ==
  \/ StartTick(c)
  \/ \E e \in Events :
       RedriveCommit(c, e) \/ RedriveRefused(c, e) \/ RedriveReject(c, e) \/ RedriveCrash(c, e)
  \/ Acquire(c) \/ Yield(c) \/ Read(c) \/ Commit(c) \/ Refused(c) \/ Reject(c) \/ Finish(c)

Environment ==
  \/ \E e \in Events : Publish(e) \/ Redrive(e) \/ Upgrade(e)
  \/ RecoverProducer \/ RecoverConsumer
  \/ LeaseExpires \/ RedisLoss
  \/ \E r \in Relays : RelayCrash(r)
  \/ \E c \in Consumers : ConsumerCrash(c)

Next ==
  \/ \E r \in Relays : RelayStep(r)
  \/ \E c \in Consumers : ConsumerStep(c)
  \/ Environment

Spec == Init /\ [][Next]_vars

\* Celery beat starts a tick every two seconds and a lease runs out by itself.
\* Nothing obliges an operator, a release or a producer to act.
Fairness ==
  /\ \A r \in Relays : WF_vars(RelayStep(r))
  /\ \A c \in Consumers : WF_vars(ConsumerStep(c))
  /\ WF_vars(LeaseExpires)

FairSpec == Spec /\ Fairness

-----------------------------------------------------------------------------
(* Why it works: what every reachable state satisfies besides the types. *)

\* Nothing beyond the outbox knows of an event before it is published.
Provenance ==
  \A e \in Events : outbox[e] = "unpublished" =>
    /\ e \notin inbox /\ quarantine[e] = "absent"
    /\ \A r \in Relays : e \notin rows[r]
    /\ \A i \in DOMAIN stream : stream[i] # e
    /\ \A c \in Consumers : \A i \in DOMAIN batch[c] : batch[c][i] # e

\* A relay between XADD and update has put its row in the stream Redis has now,
\* or the producer still has to be recovered
\* (when recovery waits for the relays).
RelayInv ==
  \A r \in Relays : sent[r] =>
    /\ rows[r] # {}
    /\ QuiescedRecovery /\ rearmed => \A e \in rows[r] : Oldest(e, rows[r]) => InStream(e)

Working(c) == pc[c] \in {"applying", "rejecting"}

\* The tick the fence names stands just above the cursor, with no entry between
\* the two, and what it read is still what the stream says.
HolderInv ==
  /\ rewound => cursor <= last
  /\ \A c \in Consumers : fence = c /\ Working(c) =>
       /\ cursor < next[c]
       /\ rewound =>
            /\ next[c] <= last + 1
            /\ \A i \in DOMAIN stream : cursor < i => next[c] <= i
            /\ \A i \in DOMAIN batch[c] : next[c] <= i => i \in DOMAIN stream /\ stream[i] = batch[c][i]

-----------------------------------------------------------------------------
(* Properties. *)

\* Duplicated entries, replays, redrives and overlapping ticks never run an
\* event's handler to commit twice, and the inbox is exactly the set of events
\* whose handler committed (runtime.py:241-243, event_governance.py:86-88).
AppliedAtMostOnce ==
  \A e \in Events : effects[e] = IF e \in inbox THEN 1 ELSE 0

\* Unless Redis lost entries and the cursor has not been reset since, the cursor
\* never stands past an entry that has neither been applied nor quarantined:
\* a stale or overlapping tick cannot make the consumer skip one (runtime.py:212-218).
NoSilentSkip ==
  rewound => \A i \in DOMAIN stream : i <= cursor => Handled(stream[i])

\* Unless Redis lost entries and the outbox has not been replayed since, every
\* published event has a way to the consumer: a pending outbox row, a stream
\* entry, or a record on the consumer's side (runtime.py:122-134).
NeverOrphaned ==
  rearmed => \A e \in Events :
    outbox[e] # "unpublished" => outbox[e] = "pending" \/ InStream(e) \/ Handled(e)

\* The cursor only moves forward, whichever tick moves it, except when an operator
\* resets it: a tick that lost its lease cannot write an older position over a
\* newer one (runtime.py:212-218, 273-274).
CursorNeverRegresses == [][cursor' < cursor => cursor' = 0 /\ fence' = NoConsumer]_vars

\* Every published event is eventually applied or quarantined, however many of its
\* predecessors are refused (runtime.py:254), as long as Redis losses are recovered.
EventuallyHandled ==
  \A e \in Events :
    outbox[e] # "unpublished" ~> Handled(e) \/ ~rearmed \/ ~rewound

\* The inductive invariant of the safety proofs.
TransportInv ==
  /\ TypeOK /\ Provenance /\ RelayInv /\ HolderInv
  /\ AppliedAtMostOnce /\ NoSilentSkip
  /\ QuiescedRecovery => NeverOrphaned

\* How far the consumer has got with an event, as EventDelivery sees it.
Progress(e) ==
  IF e \in inbox THEN "applied"
  ELSE IF Handled(e) THEN "parked"
  ELSE IF outbox[e] # "unpublished" THEN "transit"
  ELSE "unpublished"

Delivery == INSTANCE EventDelivery WITH progress <- [e \in Events |-> Progress(e)], effects <- effects

\* The transport implements the abstract delivery: an event goes from transit to
\* applied or parked and from parked to applied, one event per step, and nothing
\* Redis, a crash, a replay or an operator does takes it back (runtime.py:200-277,
\* event_governance.py:45-111).
DeliverySpec == Delivery!Spec

=============================================================================
