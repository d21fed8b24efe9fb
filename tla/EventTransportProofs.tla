------------------------ MODULE EventTransportProofs ------------------------
(***************************************************************************)
(* Proofs about EventTransport for every set of events, relays and         *)
(* consumers, every batch size and every number of crashes, losses and     *)
(* recoveries.                                                             *)
(*                                                                         *)
(* The argument: whoever the fence names stands just above the cursor and  *)
(* has read what the stream still says there (HolderInv), so the entry it  *)
(* commits is the next one; a record once made is never dropped            *)
(* (HandledStep); what a relay marks as sent is in the stream (RelayInv).  *)
(***************************************************************************)
EXTENDS EventTransport, TLAPS

-----------------------------------------------------------------------------
(* Types. *)

\* Every step keeps the types of the outbox and the relays.
LEMMA ProducerTypeStep ==
  ASSUME TypeOK, [Next]_vars
  PROVE  ProducerTypes'
<1> USE EventsAssumption, ConsumerAssumption, LimitsAssumption DEF TypeOK, ProducerTypes, StreamTypes, CursorTypes,
                        RecordTypes, TickTypes, HistoryTypes,
        vars, producerVars, redisVars, cursorVars, recordVars, tickVars, historyVars,
        Pending
<1>1. ASSUME NEW e \in Events, Publish(e) PROVE ProducerTypes'
  BY <1>1 DEF Publish
<1>2. ASSUME NEW r \in Relays, RelayFind(r) PROVE ProducerTypes'
  BY <1>2 DEF RelayFind
<1>3. ASSUME NEW r \in Relays, RelaySend(r) PROVE ProducerTypes'
  BY <1>3 DEF RelaySend, Oldest
<1>4. ASSUME NEW r \in Relays, RelayMark(r) PROVE ProducerTypes'
  BY <1>4 DEF RelayMark, Oldest
<1>5. ASSUME NEW c \in Consumers, StartTick(c) PROVE ProducerTypes'
  BY <1>5 DEF StartTick
<1>6. ASSUME NEW c \in Consumers, NEW e \in Events, RedriveCommit(c, e) PROVE ProducerTypes'
  BY <1>6 DEF RedriveCommit, Record, Receive, Oldest
<1>7. ASSUME NEW c \in Consumers, NEW e \in Events, RedriveRefused(c, e) PROVE ProducerTypes'
  BY <1>7 DEF RedriveRefused, Oldest
<1>8. ASSUME NEW c \in Consumers, NEW e \in Events, RedriveReject(c, e) PROVE ProducerTypes'
  BY <1>8 DEF RedriveReject, Record, Oldest
<1>9. ASSUME NEW c \in Consumers, NEW e \in Events, RedriveCrash(c, e) PROVE ProducerTypes'
  BY <1>9 DEF RedriveCrash, Oldest
<1>10. ASSUME NEW c \in Consumers, Acquire(c) PROVE ProducerTypes'
  BY <1>10 DEF Acquire
<1>11. ASSUME NEW c \in Consumers, Yield(c) PROVE ProducerTypes'
  BY <1>11 DEF Yield
<1>12. ASSUME NEW c \in Consumers, Read(c) PROVE ProducerTypes'
  BY <1>12 DEF Read
<1>13. ASSUME NEW c \in Consumers, Commit(c) PROVE ProducerTypes'
  BY <1>13 DEF Commit, Holds, Record, Resolve, Receive
<1>14. ASSUME NEW c \in Consumers, Refused(c) PROVE ProducerTypes'
  BY <1>14 DEF Refused, Holds
<1>15. ASSUME NEW c \in Consumers, Reject(c) PROVE ProducerTypes'
  BY <1>15 DEF Reject, Holds, Record, Release
<1>16. ASSUME NEW c \in Consumers, Finish(c) PROVE ProducerTypes'
  BY <1>16 DEF Finish, Holds, Release
<1>17. ASSUME NEW e \in Events, Redrive(e) PROVE ProducerTypes'
  BY <1>17 DEF Redrive, Record
<1>18. ASSUME RecoverProducer PROVE ProducerTypes'
  BY <1>18 DEF RecoverProducer, Spend
<1>19. ASSUME RecoverConsumer PROVE ProducerTypes'
  BY <1>19 DEF RecoverConsumer, Spend
<1>20. ASSUME NEW e \in Events, Upgrade(e) PROVE ProducerTypes'
  BY <1>20 DEF Upgrade
<1>21. ASSUME LeaseExpires PROVE ProducerTypes'
  BY <1>21 DEF LeaseExpires
<1>22. ASSUME RedisLoss PROVE ProducerTypes'
  BY <1>22 DEF RedisLoss, Spend
<1>23. ASSUME NEW r \in Relays, RelayCrash(r) PROVE ProducerTypes'
  BY <1>23 DEF RelayCrash, Spend
<1>24. ASSUME NEW c \in Consumers, ConsumerCrash(c) PROVE ProducerTypes'
  BY <1>24 DEF ConsumerCrash, Spend
<1>25. CASE UNCHANGED vars
  BY <1>25
<1> QED
  BY <1>1, <1>2, <1>3, <1>4, <1>5, <1>6, <1>7, <1>8, <1>9, <1>10, <1>11, <1>12, <1>13, <1>14, <1>15, <1>16, <1>17, <1>18, <1>19, <1>20, <1>21, <1>22, <1>23, <1>24, <1>25 DEF Next, RelayStep, ConsumerStep, Environment

\* Every step keeps the types of the stream, whose ids are contiguous above base.
LEMMA StreamTypeStep ==
  ASSUME TypeOK, [Next]_vars
  PROVE  StreamTypes'
<1> USE EventsAssumption, ConsumerAssumption, LimitsAssumption DEF TypeOK, ProducerTypes, StreamTypes, CursorTypes,
                        RecordTypes, TickTypes, HistoryTypes,
        vars, producerVars, redisVars, cursorVars, recordVars, tickVars, historyVars
<1>1. ASSUME NEW e \in Events, Publish(e) PROVE StreamTypes'
  BY <1>1 DEF Publish
<1>2. ASSUME NEW r \in Relays, RelayFind(r) PROVE StreamTypes'
  BY <1>2 DEF RelayFind
<1>3. ASSUME NEW r \in Relays, RelaySend(r) PROVE StreamTypes'
  BY <1>3 DEF RelaySend, Oldest
<1>4. ASSUME NEW r \in Relays, RelayMark(r) PROVE StreamTypes'
  BY <1>4 DEF RelayMark, Oldest
<1>5. ASSUME NEW c \in Consumers, StartTick(c) PROVE StreamTypes'
  BY <1>5 DEF StartTick
<1>6. ASSUME NEW c \in Consumers, NEW e \in Events, RedriveCommit(c, e) PROVE StreamTypes'
  BY <1>6 DEF RedriveCommit, Record, Receive, Oldest
<1>7. ASSUME NEW c \in Consumers, NEW e \in Events, RedriveRefused(c, e) PROVE StreamTypes'
  BY <1>7 DEF RedriveRefused, Oldest
<1>8. ASSUME NEW c \in Consumers, NEW e \in Events, RedriveReject(c, e) PROVE StreamTypes'
  BY <1>8 DEF RedriveReject, Record, Oldest
<1>9. ASSUME NEW c \in Consumers, NEW e \in Events, RedriveCrash(c, e) PROVE StreamTypes'
  BY <1>9 DEF RedriveCrash, Oldest
<1>10. ASSUME NEW c \in Consumers, Acquire(c) PROVE StreamTypes'
  BY <1>10 DEF Acquire
<1>11. ASSUME NEW c \in Consumers, Yield(c) PROVE StreamTypes'
  BY <1>11 DEF Yield
<1>12. ASSUME NEW c \in Consumers, Read(c) PROVE StreamTypes'
  BY <1>12 DEF Read
<1>13. ASSUME NEW c \in Consumers, Commit(c) PROVE StreamTypes'
  BY <1>13 DEF Commit, Holds, Record, Resolve, Receive
<1>14. ASSUME NEW c \in Consumers, Refused(c) PROVE StreamTypes'
  BY <1>14 DEF Refused, Holds
<1>15. ASSUME NEW c \in Consumers, Reject(c) PROVE StreamTypes'
  BY <1>15 DEF Reject, Holds, Record, Release
<1>16. ASSUME NEW c \in Consumers, Finish(c) PROVE StreamTypes'
  BY <1>16 DEF Finish, Holds, Release
<1>17. ASSUME NEW e \in Events, Redrive(e) PROVE StreamTypes'
  BY <1>17 DEF Redrive, Record
<1>18. ASSUME RecoverProducer PROVE StreamTypes'
  BY <1>18 DEF RecoverProducer, Spend
<1>19. ASSUME RecoverConsumer PROVE StreamTypes'
  BY <1>19 DEF RecoverConsumer, Spend
<1>20. ASSUME NEW e \in Events, Upgrade(e) PROVE StreamTypes'
  BY <1>20 DEF Upgrade
<1>21. ASSUME LeaseExpires PROVE StreamTypes'
  BY <1>21 DEF LeaseExpires
<1>22. ASSUME RedisLoss PROVE StreamTypes'
  <2>1. last' \in Nat /\ base' = last' /\ stream' = Empty
    BY <1>22 DEF RedisLoss
  <2>2. \A n \in Nat : (n + 1)..n = {}
    OBVIOUS
  <2>3. Empty \in [{} -> Events]
    BY Zenon DEF Empty
  <2>4. (base' + 1)..last' = {}
    BY <2>1, <2>2, Zenon
  <2>6. base' \in Nat /\ base' <= last'
    BY <2>1
  <2>5. stream' \in [(base' + 1)..last' -> Events]
    BY <2>1, <2>3, <2>4
  <2> QED
    BY <2>1, <2>5, <2>6
<1>23. ASSUME NEW r \in Relays, RelayCrash(r) PROVE StreamTypes'
  BY <1>23 DEF RelayCrash, Spend
<1>24. ASSUME NEW c \in Consumers, ConsumerCrash(c) PROVE StreamTypes'
  BY <1>24 DEF ConsumerCrash, Spend
<1>25. CASE UNCHANGED vars
  BY <1>25
<1> QED
  BY <1>1, <1>2, <1>3, <1>4, <1>5, <1>6, <1>7, <1>8, <1>9, <1>10, <1>11, <1>12, <1>13, <1>14, <1>15, <1>16, <1>17, <1>18, <1>19, <1>20, <1>21, <1>22, <1>23, <1>24, <1>25 DEF Next, RelayStep, ConsumerStep, Environment

\* Every step keeps the types of the cursor and its lease.
LEMMA CursorTypeStep ==
  ASSUME TypeOK, [Next]_vars
  PROVE  CursorTypes'
<1> USE EventsAssumption, ConsumerAssumption, LimitsAssumption DEF TypeOK, ProducerTypes, StreamTypes, CursorTypes,
                        RecordTypes, TickTypes, HistoryTypes,
        vars, producerVars, redisVars, cursorVars, recordVars, tickVars, historyVars
<1>1. ASSUME NEW e \in Events, Publish(e) PROVE CursorTypes'
  BY <1>1 DEF Publish
<1>2. ASSUME NEW r \in Relays, RelayFind(r) PROVE CursorTypes'
  BY <1>2 DEF RelayFind
<1>3. ASSUME NEW r \in Relays, RelaySend(r) PROVE CursorTypes'
  BY <1>3 DEF RelaySend, Oldest
<1>4. ASSUME NEW r \in Relays, RelayMark(r) PROVE CursorTypes'
  BY <1>4 DEF RelayMark, Oldest
<1>5. ASSUME NEW c \in Consumers, StartTick(c) PROVE CursorTypes'
  BY <1>5 DEF StartTick
<1>6. ASSUME NEW c \in Consumers, NEW e \in Events, RedriveCommit(c, e) PROVE CursorTypes'
  BY <1>6 DEF RedriveCommit, Record, Receive, Oldest
<1>7. ASSUME NEW c \in Consumers, NEW e \in Events, RedriveRefused(c, e) PROVE CursorTypes'
  BY <1>7 DEF RedriveRefused, Oldest
<1>8. ASSUME NEW c \in Consumers, NEW e \in Events, RedriveReject(c, e) PROVE CursorTypes'
  BY <1>8 DEF RedriveReject, Record, Oldest
<1>9. ASSUME NEW c \in Consumers, NEW e \in Events, RedriveCrash(c, e) PROVE CursorTypes'
  BY <1>9 DEF RedriveCrash, Oldest
<1>10. ASSUME NEW c \in Consumers, Acquire(c) PROVE CursorTypes'
  BY <1>10 DEF Acquire
<1>11. ASSUME NEW c \in Consumers, Yield(c) PROVE CursorTypes'
  BY <1>11 DEF Yield
<1>12. ASSUME NEW c \in Consumers, Read(c) PROVE CursorTypes'
  BY <1>12 DEF Read
<1>13. ASSUME NEW c \in Consumers, Commit(c) PROVE CursorTypes'
  BY <1>13 DEF Commit, Holds, Record, Resolve, Receive
<1>14. ASSUME NEW c \in Consumers, Refused(c) PROVE CursorTypes'
  BY <1>14 DEF Refused, Holds
<1>15. ASSUME NEW c \in Consumers, Reject(c) PROVE CursorTypes'
  <2>1. cursor' \in {cursor, next[c]} /\ fence' \in {fence, NoConsumer} /\ leased' \in {leased, FALSE}
    BY <1>15 DEF Reject, Release
  <2>2. next[c] \in Nat
    OBVIOUS
  <2> QED
    BY <2>1, <2>2
<1>16. ASSUME NEW c \in Consumers, Finish(c) PROVE CursorTypes'
  BY <1>16 DEF Finish, Holds, Release
<1>17. ASSUME NEW e \in Events, Redrive(e) PROVE CursorTypes'
  BY <1>17 DEF Redrive, Record
<1>18. ASSUME RecoverProducer PROVE CursorTypes'
  BY <1>18 DEF RecoverProducer, Spend
<1>19. ASSUME RecoverConsumer PROVE CursorTypes'
  BY <1>19 DEF RecoverConsumer, Spend
<1>20. ASSUME NEW e \in Events, Upgrade(e) PROVE CursorTypes'
  BY <1>20 DEF Upgrade
<1>21. ASSUME LeaseExpires PROVE CursorTypes'
  BY <1>21 DEF LeaseExpires
<1>22. ASSUME RedisLoss PROVE CursorTypes'
  BY <1>22 DEF RedisLoss, Spend
<1>23. ASSUME NEW r \in Relays, RelayCrash(r) PROVE CursorTypes'
  BY <1>23 DEF RelayCrash, Spend
<1>24. ASSUME NEW c \in Consumers, ConsumerCrash(c) PROVE CursorTypes'
  BY <1>24 DEF ConsumerCrash, Spend
<1>25. CASE UNCHANGED vars
  BY <1>25
<1> QED
  BY <1>1, <1>2, <1>3, <1>4, <1>5, <1>6, <1>7, <1>8, <1>9, <1>10, <1>11, <1>12, <1>13, <1>14, <1>15, <1>16, <1>17, <1>18, <1>19, <1>20, <1>21, <1>22, <1>23, <1>24, <1>25 DEF Next, RelayStep, ConsumerStep, Environment

\* Every step keeps the types of the inbox, the quarantine and the failure counters.
LEMMA RecordTypeStep ==
  ASSUME TypeOK, [Next]_vars
  PROVE  RecordTypes'
<1> USE EventsAssumption, ConsumerAssumption, LimitsAssumption DEF TypeOK, ProducerTypes, StreamTypes, CursorTypes,
                        RecordTypes, TickTypes, HistoryTypes,
        vars, producerVars, redisVars, cursorVars, recordVars, tickVars, historyVars,
        FirstCeiling
<1>1. ASSUME NEW e \in Events, Publish(e) PROVE RecordTypes'
  BY <1>1 DEF Publish
<1>2. ASSUME NEW r \in Relays, RelayFind(r) PROVE RecordTypes'
  BY <1>2 DEF RelayFind
<1>3. ASSUME NEW r \in Relays, RelaySend(r) PROVE RecordTypes'
  BY <1>3 DEF RelaySend, Oldest
<1>4. ASSUME NEW r \in Relays, RelayMark(r) PROVE RecordTypes'
  BY <1>4 DEF RelayMark, Oldest
<1>5. ASSUME NEW c \in Consumers, StartTick(c) PROVE RecordTypes'
  BY <1>5 DEF StartTick
<1>6. ASSUME NEW c \in Consumers, NEW e \in Events, RedriveCommit(c, e) PROVE RecordTypes'
  <2>1. quarantine' \in {quarantine, [quarantine EXCEPT ![e] = "resolved"]}
    BY <1>6 DEF RedriveCommit, Record
  <2>2. /\ inbox' \in {inbox, inbox \cup {e}}
        /\ effects' \in {effects, [effects EXCEPT ![e] = @ + 1]}
        /\ UNCHANGED <<redrives, attempts, ceiling, supported>>
    BY <1>6 DEF RedriveCommit, Receive
  <2>3. effects' \in [Events -> Nat]
    BY <2>2
  <2>4. quarantine' \in [Events -> {"absent", "pending", "requeued", "resolved"}]
    BY <2>1
  <2> QED
    BY <2>2, <2>3, <2>4
<1>7. ASSUME NEW c \in Consumers, NEW e \in Events, RedriveRefused(c, e) PROVE RecordTypes'
  BY <1>7 DEF RedriveRefused, Oldest
<1>8. ASSUME NEW c \in Consumers, NEW e \in Events, RedriveReject(c, e) PROVE RecordTypes'
  <2>1. quarantine' \in {quarantine, [quarantine EXCEPT ![e] = "pending"]}
    BY <1>8 DEF RedriveReject, Record
  <2>2. /\ attempts' \in {attempts, [attempts EXCEPT ![e] = @ + 1]}
        /\ UNCHANGED <<inbox, redrives, ceiling, effects, supported>>
    BY <1>8 DEF RedriveReject
  <2>3. attempts' \in [Events -> Nat]
    BY <2>2
  <2>4. quarantine' \in [Events -> {"absent", "pending", "requeued", "resolved"}]
    BY <2>1
  <2> QED
    BY <2>2, <2>3, <2>4
<1>9. ASSUME NEW c \in Consumers, NEW e \in Events, RedriveCrash(c, e) PROVE RecordTypes'
  BY <1>9 DEF RedriveCrash, Oldest
<1>10. ASSUME NEW c \in Consumers, Acquire(c) PROVE RecordTypes'
  BY <1>10 DEF Acquire
<1>11. ASSUME NEW c \in Consumers, Yield(c) PROVE RecordTypes'
  BY <1>11 DEF Yield
<1>12. ASSUME NEW c \in Consumers, Read(c) PROVE RecordTypes'
  BY <1>12 DEF Read
<1>13. ASSUME NEW c \in Consumers, Commit(c) PROVE RecordTypes'
  <2> DEFINE e == batch[c][next[c]]
  <2>1. e \in Events
    BY <1>13 DEF Commit
  <2>2. quarantine' \in {quarantine, [quarantine EXCEPT ![e] = "pending"],
                         [quarantine EXCEPT ![e] = "resolved"], [quarantine EXCEPT ![e] = "absent"]}
    BY <1>13 DEF Commit, Record, Resolve
  <2>3. /\ inbox' \in {inbox, inbox \cup {e}}
        /\ effects' \in {effects, [effects EXCEPT ![e] = @ + 1]}
        /\ UNCHANGED <<redrives, attempts, ceiling, supported>>
    BY <1>13 DEF Commit, Receive
  <2> HIDE DEF e
  <2>4. effects' \in [Events -> Nat]
    BY <2>1, <2>3
  <2>5. quarantine' \in [Events -> {"absent", "pending", "requeued", "resolved"}]
    BY <2>1, <2>2
  <2> QED
    BY <2>1, <2>3, <2>4, <2>5
<1>14. ASSUME NEW c \in Consumers, Refused(c) PROVE RecordTypes'
  BY <1>14 DEF Refused, Holds
<1>15. ASSUME NEW c \in Consumers, Reject(c) PROVE RecordTypes'
  <2> DEFINE e == batch[c][next[c]]
  <2>1. e \in Events
    BY <1>15 DEF Reject
  <2>2. /\ quarantine' \in {quarantine, [quarantine EXCEPT ![e] = "pending"]}
        /\ UNCHANGED <<inbox, redrives, effects, supported>>
    BY <1>15 DEF Reject, Record
  <2>3. /\ attempts' = [attempts EXCEPT ![e] = @ + 1]
        /\ ceiling' = [ceiling EXCEPT ![e] = IF ceiling[e] = 0 THEN FirstCeiling ELSE ceiling[e]]
    BY <1>15 DEF Reject
  <2> HIDE DEF e
  <2>4. attempts' \in [Events -> Nat] /\ ceiling' \in [Events -> Nat]
    BY <2>1, <2>3
  <2>5. quarantine' \in [Events -> {"absent", "pending", "requeued", "resolved"}]
    BY <2>1, <2>2
  <2> QED
    BY <2>2, <2>4, <2>5
<1>16. ASSUME NEW c \in Consumers, Finish(c) PROVE RecordTypes'
  BY <1>16 DEF Finish, Holds, Release
<1>17. ASSUME NEW e \in Events, Redrive(e) PROVE RecordTypes'
  <2>1. quarantine' = [quarantine EXCEPT ![e] = "requeued"]
    BY <1>17 DEF Redrive, Record
  <2>2. redrives[e] + 1 \in 0..MaxRedrives /\ FirstCeiling * (redrives[e] + 2) \in Nat
    BY <1>17, SMTT(30) DEF Redrive
  <2>4. redrives' \in [Events -> 0..MaxRedrives] /\ ceiling' \in [Events -> Nat]
    BY <1>17, <2>2, Zenon DEF Redrive
  <2>3. UNCHANGED <<inbox, attempts, effects, supported>>
    BY <1>17 DEF Redrive
  <2> QED
    BY <2>1, <2>3, <2>4
<1>18. ASSUME RecoverProducer PROVE RecordTypes'
  BY <1>18 DEF RecoverProducer, Spend
<1>19. ASSUME RecoverConsumer PROVE RecordTypes'
  BY <1>19 DEF RecoverConsumer, Spend
<1>20. ASSUME NEW e \in Events, Upgrade(e) PROVE RecordTypes'
  BY <1>20 DEF Upgrade
<1>21. ASSUME LeaseExpires PROVE RecordTypes'
  BY <1>21 DEF LeaseExpires
<1>22. ASSUME RedisLoss PROVE RecordTypes'
  BY <1>22 DEF RedisLoss, Spend
<1>23. ASSUME NEW r \in Relays, RelayCrash(r) PROVE RecordTypes'
  BY <1>23 DEF RelayCrash, Spend
<1>24. ASSUME NEW c \in Consumers, ConsumerCrash(c) PROVE RecordTypes'
  BY <1>24 DEF ConsumerCrash, Spend
<1>25. CASE UNCHANGED vars
  BY <1>25
<1> QED
  BY <1>1, <1>2, <1>3, <1>4, <1>5, <1>6, <1>7, <1>8, <1>9, <1>10, <1>11, <1>12, <1>13, <1>14, <1>15, <1>16, <1>17, <1>18, <1>19, <1>20, <1>21, <1>22, <1>23, <1>24, <1>25 DEF Next, RelayStep, ConsumerStep, Environment

\* Every step keeps the types of the consumer's ticks.
LEMMA TickTypeStep ==
  ASSUME TypeOK, [Next]_vars
  PROVE  TickTypes'
<1> USE EventsAssumption, ConsumerAssumption, LimitsAssumption DEF TypeOK, ProducerTypes, StreamTypes, CursorTypes,
                        RecordTypes, TickTypes, HistoryTypes,
        vars, producerVars, redisVars, cursorVars, recordVars, tickVars, historyVars,
        Empty
<1>1. ASSUME NEW e \in Events, Publish(e) PROVE TickTypes'
  BY <1>1 DEF Publish
<1>2. ASSUME NEW r \in Relays, RelayFind(r) PROVE TickTypes'
  BY <1>2 DEF RelayFind
<1>3. ASSUME NEW r \in Relays, RelaySend(r) PROVE TickTypes'
  BY <1>3 DEF RelaySend, Oldest
<1>4. ASSUME NEW r \in Relays, RelayMark(r) PROVE TickTypes'
  BY <1>4 DEF RelayMark, Oldest
<1>5. ASSUME NEW c \in Consumers, StartTick(c) PROVE TickTypes'
  BY <1>5 DEF StartTick
<1>6. ASSUME NEW c \in Consumers, NEW e \in Events, RedriveCommit(c, e) PROVE TickTypes'
  BY <1>6 DEF RedriveCommit, Record, Receive, Oldest
<1>7. ASSUME NEW c \in Consumers, NEW e \in Events, RedriveRefused(c, e) PROVE TickTypes'
  BY <1>7 DEF RedriveRefused, Oldest
<1>8. ASSUME NEW c \in Consumers, NEW e \in Events, RedriveReject(c, e) PROVE TickTypes'
  BY <1>8 DEF RedriveReject, Record, Oldest
<1>9. ASSUME NEW c \in Consumers, NEW e \in Events, RedriveCrash(c, e) PROVE TickTypes'
  BY <1>9 DEF RedriveCrash, Oldest
<1>10. ASSUME NEW c \in Consumers, Acquire(c) PROVE TickTypes'
  BY <1>10 DEF Acquire
<1>11. ASSUME NEW c \in Consumers, Yield(c) PROVE TickTypes'
  BY <1>11 DEF Yield
<1>12. ASSUME NEW c \in Consumers, Read(c) PROVE TickTypes'
  BY <1>12 DEF Read
<1>13. ASSUME NEW c \in Consumers, Commit(c) PROVE TickTypes'
  BY <1>13 DEF Commit, Holds, Record, Resolve, Receive
<1>14. ASSUME NEW c \in Consumers, Refused(c) PROVE TickTypes'
  BY <1>14 DEF Refused, Holds
<1>15. ASSUME NEW c \in Consumers, Reject(c) PROVE TickTypes'
  <2> retry' = retry
    BY <1>15 DEF Reject
  <2>1. CASE Release(c)
    BY <2>1 DEF Release
  <2>2. CASE /\ next' = [next EXCEPT ![c] = @ + 1]
             /\ pc' = [pc EXCEPT ![c] = "applying"]
             /\ batch' = batch
    BY <2>2
  <2> QED
    BY <1>15, <2>1, <2>2 DEF Reject
<1>16. ASSUME NEW c \in Consumers, Finish(c) PROVE TickTypes'
  BY <1>16 DEF Finish, Holds, Release
<1>17. ASSUME NEW e \in Events, Redrive(e) PROVE TickTypes'
  BY <1>17 DEF Redrive, Record
<1>18. ASSUME RecoverProducer PROVE TickTypes'
  BY <1>18 DEF RecoverProducer, Spend
<1>19. ASSUME RecoverConsumer PROVE TickTypes'
  BY <1>19 DEF RecoverConsumer, Spend
<1>20. ASSUME NEW e \in Events, Upgrade(e) PROVE TickTypes'
  BY <1>20 DEF Upgrade
<1>21. ASSUME LeaseExpires PROVE TickTypes'
  BY <1>21 DEF LeaseExpires
<1>22. ASSUME RedisLoss PROVE TickTypes'
  BY <1>22 DEF RedisLoss, Spend
<1>23. ASSUME NEW r \in Relays, RelayCrash(r) PROVE TickTypes'
  BY <1>23 DEF RelayCrash, Spend
<1>24. ASSUME NEW c \in Consumers, ConsumerCrash(c) PROVE TickTypes'
  BY <1>24 DEF ConsumerCrash, Spend
<1>25. CASE UNCHANGED vars
  BY <1>25
<1> QED
  BY <1>1, <1>2, <1>3, <1>4, <1>5, <1>6, <1>7, <1>8, <1>9, <1>10, <1>11, <1>12, <1>13, <1>14, <1>15, <1>16, <1>17, <1>18, <1>19, <1>20, <1>21, <1>22, <1>23, <1>24, <1>25 DEF Next, RelayStep, ConsumerStep, Environment

\* Every step keeps the types of the history variables.
LEMMA HistoryTypeStep ==
  ASSUME TypeOK, [Next]_vars
  PROVE  HistoryTypes'
<1> USE EventsAssumption, ConsumerAssumption, LimitsAssumption DEF TypeOK, ProducerTypes, StreamTypes, CursorTypes,
                        RecordTypes, TickTypes, HistoryTypes,
        vars, producerVars, redisVars, cursorVars, recordVars, tickVars, historyVars
<1>1. ASSUME NEW e \in Events, Publish(e) PROVE HistoryTypes'
  BY <1>1 DEF Publish
<1>2. ASSUME NEW r \in Relays, RelayFind(r) PROVE HistoryTypes'
  BY <1>2 DEF RelayFind
<1>3. ASSUME NEW r \in Relays, RelaySend(r) PROVE HistoryTypes'
  BY <1>3 DEF RelaySend, Oldest
<1>4. ASSUME NEW r \in Relays, RelayMark(r) PROVE HistoryTypes'
  BY <1>4 DEF RelayMark, Oldest
<1>5. ASSUME NEW c \in Consumers, StartTick(c) PROVE HistoryTypes'
  BY <1>5 DEF StartTick
<1>6. ASSUME NEW c \in Consumers, NEW e \in Events, RedriveCommit(c, e) PROVE HistoryTypes'
  BY <1>6 DEF RedriveCommit, Record, Receive, Oldest
<1>7. ASSUME NEW c \in Consumers, NEW e \in Events, RedriveRefused(c, e) PROVE HistoryTypes'
  BY <1>7 DEF RedriveRefused, Oldest
<1>8. ASSUME NEW c \in Consumers, NEW e \in Events, RedriveReject(c, e) PROVE HistoryTypes'
  BY <1>8 DEF RedriveReject, Record, Oldest
<1>9. ASSUME NEW c \in Consumers, NEW e \in Events, RedriveCrash(c, e) PROVE HistoryTypes'
  BY <1>9 DEF RedriveCrash, Oldest
<1>10. ASSUME NEW c \in Consumers, Acquire(c) PROVE HistoryTypes'
  BY <1>10 DEF Acquire
<1>11. ASSUME NEW c \in Consumers, Yield(c) PROVE HistoryTypes'
  BY <1>11 DEF Yield
<1>12. ASSUME NEW c \in Consumers, Read(c) PROVE HistoryTypes'
  BY <1>12 DEF Read
<1>13. ASSUME NEW c \in Consumers, Commit(c) PROVE HistoryTypes'
  BY <1>13 DEF Commit, Holds, Record, Resolve, Receive
<1>14. ASSUME NEW c \in Consumers, Refused(c) PROVE HistoryTypes'
  BY <1>14 DEF Refused, Holds
<1>15. ASSUME NEW c \in Consumers, Reject(c) PROVE HistoryTypes'
  BY <1>15 DEF Reject, Holds, Record, Release
<1>16. ASSUME NEW c \in Consumers, Finish(c) PROVE HistoryTypes'
  BY <1>16 DEF Finish, Holds, Release
<1>17. ASSUME NEW e \in Events, Redrive(e) PROVE HistoryTypes'
  BY <1>17 DEF Redrive, Record
<1>18. ASSUME RecoverProducer PROVE HistoryTypes'
  BY <1>18 DEF RecoverProducer, Spend
<1>19. ASSUME RecoverConsumer PROVE HistoryTypes'
  BY <1>19 DEF RecoverConsumer, Spend
<1>20. ASSUME NEW e \in Events, Upgrade(e) PROVE HistoryTypes'
  BY <1>20 DEF Upgrade
<1>21. ASSUME LeaseExpires PROVE HistoryTypes'
  BY <1>21 DEF LeaseExpires
<1>22. ASSUME RedisLoss PROVE HistoryTypes'
  <2>1. rearmed' = FALSE /\ rewound' = FALSE /\ incidents' = incidents + 1
    BY <1>22 DEF RedisLoss, Spend
  <2>2. incidents' \in Nat
    BY <2>1
  <2>3. rearmed' \in BOOLEAN /\ rewound' \in BOOLEAN
    BY <2>1, Zenon
  <2> QED
    BY <2>2, <2>3, Zenon
<1>23. ASSUME NEW r \in Relays, RelayCrash(r) PROVE HistoryTypes'
  BY <1>23 DEF RelayCrash, Spend
<1>24. ASSUME NEW c \in Consumers, ConsumerCrash(c) PROVE HistoryTypes'
  BY <1>24 DEF ConsumerCrash, Spend
<1>25. CASE UNCHANGED vars
  BY <1>25
<1> QED
  BY <1>1, <1>2, <1>3, <1>4, <1>5, <1>6, <1>7, <1>8, <1>9, <1>10, <1>11, <1>12, <1>13, <1>14, <1>15, <1>16, <1>17, <1>18, <1>19, <1>20, <1>21, <1>22, <1>23, <1>24, <1>25 DEF Next, RelayStep, ConsumerStep, Environment

\* Every step keeps the types.
LEMMA TypeStep ==
  ASSUME TypeOK, [Next]_vars
  PROVE  TypeOK'
BY ProducerTypeStep, StreamTypeStep, CursorTypeStep, RecordTypeStep, TickTypeStep, HistoryTypeStep DEF TypeOK

\* They hold at the beginning.
LEMMA TypeInit == Init => TypeOK
<1> SUFFICES ASSUME Init PROVE TypeOK
  OBVIOUS
<1>0. 0 \in 0..MaxRedrives
  BY LimitsAssumption
<1>1. ProducerTypes /\ RecordTypes /\ TickTypes
  BY <1>0, KindsAssumption DEF Init, ProducerTypes, RecordTypes, TickTypes, Empty
<1>2. StreamTypes
  <2>1. (base + 1)..last = {}
    BY DEF Init
  <2>2. Empty \in [{} -> Events]
    BY Zenon DEF Empty
  <2> QED
    BY <2>1, <2>2 DEF Init, StreamTypes
<1>3. CursorTypes /\ HistoryTypes
  BY DEF Init, CursorTypes, HistoryTypes
<1> QED
  BY <1>1, <1>2, <1>3 DEF TypeOK

\* In every reachable state each variable has its type: the store, the stream
\* and the ticks' local state stay well formed through crashes and losses.
THEOREM TypeCorrect == Spec => []TypeOK
<1>1. TypeOK /\ [Next]_vars => TypeOK'
  BY TypeStep
<1> QED
  BY TypeInit, <1>1, PTL DEF Spec

-----------------------------------------------------------------------------
(* The inductive invariants, one lemma for each. *)

\* A consumer-side record of an event is never dropped.
LEMMA HandledStep ==
  ASSUME TypeOK, TypeOK', NEW ev \in Events, Handled(ev), [Next]_vars
  PROVE  Handled(ev)'
<1> USE EventsAssumption, ConsumerAssumption, LimitsAssumption DEF TypeOK, ProducerTypes, StreamTypes, CursorTypes,
                        RecordTypes, TickTypes, HistoryTypes,
        vars, producerVars, redisVars, cursorVars, recordVars, tickVars, historyVars, Handled
<1>1. ASSUME NEW e \in Events, Publish(e) PROVE Handled(ev)'
  BY <1>1 DEF Publish
<1>2. ASSUME NEW r \in Relays, RelayFind(r) PROVE Handled(ev)'
  BY <1>2 DEF RelayFind
<1>3. ASSUME NEW r \in Relays, RelaySend(r) PROVE Handled(ev)'
  BY <1>3 DEF RelaySend, Oldest
<1>4. ASSUME NEW r \in Relays, RelayMark(r) PROVE Handled(ev)'
  BY <1>4 DEF RelayMark, Oldest
<1>5. ASSUME NEW c \in Consumers, StartTick(c) PROVE Handled(ev)'
  BY <1>5 DEF StartTick
<1>6. ASSUME NEW c \in Consumers, NEW e \in Events, RedriveCommit(c, e) PROVE Handled(ev)'
  BY <1>6, SMTT(30) DEF RedriveCommit, Record, Receive, Oldest
<1>7. ASSUME NEW c \in Consumers, NEW e \in Events, RedriveRefused(c, e) PROVE Handled(ev)'
  BY <1>7 DEF RedriveRefused, Oldest
<1>8. ASSUME NEW c \in Consumers, NEW e \in Events, RedriveReject(c, e) PROVE Handled(ev)'
  BY <1>8 DEF RedriveReject, Record, Oldest
<1>9. ASSUME NEW c \in Consumers, NEW e \in Events, RedriveCrash(c, e) PROVE Handled(ev)'
  BY <1>9 DEF RedriveCrash, Oldest
<1>10. ASSUME NEW c \in Consumers, Acquire(c) PROVE Handled(ev)'
  BY <1>10 DEF Acquire
<1>11. ASSUME NEW c \in Consumers, Yield(c) PROVE Handled(ev)'
  BY <1>11 DEF Yield
<1>12. ASSUME NEW c \in Consumers, Read(c) PROVE Handled(ev)'
  BY <1>12 DEF Read
<1>13. ASSUME NEW c \in Consumers, Commit(c) PROVE Handled(ev)'
  BY <1>13 DEF Commit, Holds, Record, Resolve, Receive
<1>14. ASSUME NEW c \in Consumers, Refused(c) PROVE Handled(ev)'
  BY <1>14 DEF Refused, Holds
<1>15. ASSUME NEW c \in Consumers, Reject(c) PROVE Handled(ev)'
  <2>1. inbox' = inbox
    BY <1>15 DEF Reject
  <2>2. quarantine' = quarantine \/ quarantine' = [quarantine EXCEPT ![batch[c][next[c]]] = "pending"]
    BY <1>15 DEF Reject, Record
  <2> QED
    BY <2>1, <2>2, ZenonT(60)
<1>16. ASSUME NEW c \in Consumers, Finish(c) PROVE Handled(ev)'
  BY <1>16 DEF Finish, Holds, Release
<1>17. ASSUME NEW e \in Events, Redrive(e) PROVE Handled(ev)'
  BY <1>17 DEF Redrive, Record
<1>18. ASSUME RecoverProducer PROVE Handled(ev)'
  BY <1>18 DEF RecoverProducer, Spend
<1>19. ASSUME RecoverConsumer PROVE Handled(ev)'
  BY <1>19 DEF RecoverConsumer, Spend
<1>20. ASSUME NEW e \in Events, Upgrade(e) PROVE Handled(ev)'
  BY <1>20 DEF Upgrade
<1>21. ASSUME LeaseExpires PROVE Handled(ev)'
  BY <1>21 DEF LeaseExpires
<1>22. ASSUME RedisLoss PROVE Handled(ev)'
  BY <1>22 DEF RedisLoss, Spend
<1>23. ASSUME NEW r \in Relays, RelayCrash(r) PROVE Handled(ev)'
  BY <1>23 DEF RelayCrash, Spend
<1>24. ASSUME NEW c \in Consumers, ConsumerCrash(c) PROVE Handled(ev)'
  BY <1>24 DEF ConsumerCrash, Spend
<1>25. CASE UNCHANGED vars
  BY <1>25
<1> QED
  BY <1>1, <1>2, <1>3, <1>4, <1>5, <1>6, <1>7, <1>8, <1>9, <1>10, <1>11, <1>12, <1>13, <1>14, <1>15, <1>16, <1>17, <1>18, <1>19, <1>20, <1>21, <1>22, <1>23, <1>24, <1>25 DEF Next, RelayStep, ConsumerStep, Environment

\* Handlers commit only together with the first inbox record of their event.
LEMMA AtMostOnceStep ==
  ASSUME TypeOK, TypeOK', AppliedAtMostOnce, [Next]_vars
  PROVE  AppliedAtMostOnce'
<1> USE EventsAssumption, ConsumerAssumption, LimitsAssumption DEF TypeOK, ProducerTypes, StreamTypes, CursorTypes,
                        RecordTypes, TickTypes, HistoryTypes,
        vars, producerVars, redisVars, cursorVars, recordVars, tickVars, historyVars,
        AppliedAtMostOnce
<1>1. ASSUME NEW e \in Events, Publish(e) PROVE AppliedAtMostOnce'
  BY <1>1 DEF Publish
<1>2. ASSUME NEW r \in Relays, RelayFind(r) PROVE AppliedAtMostOnce'
  BY <1>2 DEF RelayFind
<1>3. ASSUME NEW r \in Relays, RelaySend(r) PROVE AppliedAtMostOnce'
  BY <1>3 DEF RelaySend, Oldest
<1>4. ASSUME NEW r \in Relays, RelayMark(r) PROVE AppliedAtMostOnce'
  BY <1>4 DEF RelayMark, Oldest
<1>5. ASSUME NEW c \in Consumers, StartTick(c) PROVE AppliedAtMostOnce'
  BY <1>5 DEF StartTick
<1>6. ASSUME NEW c \in Consumers, NEW e \in Events, RedriveCommit(c, e) PROVE AppliedAtMostOnce'
  <2>1. CASE UNCHANGED <<inbox, effects>>
    BY <2>1
  <2>2. CASE e \notin inbox /\ Receive(e)
    <3>1. \A f \in Events : effects'[f] = IF f = e THEN effects[f] + 1 ELSE effects[f]
      BY <2>2 DEF Receive
    <3>2. \A f \in Events : f \in inbox' <=> f \in inbox \/ f = e
      BY <2>2 DEF Receive
    <3>3. effects[e] = 0
      BY <2>2
    <3>4. ASSUME NEW f \in Events PROVE effects'[f] = IF f \in inbox' THEN 1 ELSE 0
      <4>1. CASE f = e
        BY <3>1, <3>2, <3>3, <4>1
      <4>2. CASE f # e
        BY <3>1, <3>2, <4>2
      <4> QED
        BY <4>1, <4>2
    <3> QED
      BY <3>4
  <2> QED
    BY <1>6, <2>1, <2>2 DEF RedriveCommit
<1>7. ASSUME NEW c \in Consumers, NEW e \in Events, RedriveRefused(c, e) PROVE AppliedAtMostOnce'
  BY <1>7 DEF RedriveRefused, Oldest
<1>8. ASSUME NEW c \in Consumers, NEW e \in Events, RedriveReject(c, e) PROVE AppliedAtMostOnce'
  BY <1>8 DEF RedriveReject, Record, Oldest
<1>9. ASSUME NEW c \in Consumers, NEW e \in Events, RedriveCrash(c, e) PROVE AppliedAtMostOnce'
  BY <1>9 DEF RedriveCrash, Oldest
<1>10. ASSUME NEW c \in Consumers, Acquire(c) PROVE AppliedAtMostOnce'
  BY <1>10 DEF Acquire
<1>11. ASSUME NEW c \in Consumers, Yield(c) PROVE AppliedAtMostOnce'
  BY <1>11 DEF Yield
<1>12. ASSUME NEW c \in Consumers, Read(c) PROVE AppliedAtMostOnce'
  BY <1>12 DEF Read
<1>13. ASSUME NEW c \in Consumers, Commit(c) PROVE AppliedAtMostOnce'
  BY <1>13 DEF Commit, Holds, Record, Resolve, Receive
<1>14. ASSUME NEW c \in Consumers, Refused(c) PROVE AppliedAtMostOnce'
  BY <1>14 DEF Refused, Holds
<1>15. ASSUME NEW c \in Consumers, Reject(c) PROVE AppliedAtMostOnce'
  BY <1>15 DEF Reject, Holds, Record, Release
<1>16. ASSUME NEW c \in Consumers, Finish(c) PROVE AppliedAtMostOnce'
  BY <1>16 DEF Finish, Holds, Release
<1>17. ASSUME NEW e \in Events, Redrive(e) PROVE AppliedAtMostOnce'
  BY <1>17 DEF Redrive, Record
<1>18. ASSUME RecoverProducer PROVE AppliedAtMostOnce'
  BY <1>18 DEF RecoverProducer, Spend
<1>19. ASSUME RecoverConsumer PROVE AppliedAtMostOnce'
  BY <1>19 DEF RecoverConsumer, Spend
<1>20. ASSUME NEW e \in Events, Upgrade(e) PROVE AppliedAtMostOnce'
  BY <1>20 DEF Upgrade
<1>21. ASSUME LeaseExpires PROVE AppliedAtMostOnce'
  BY <1>21 DEF LeaseExpires
<1>22. ASSUME RedisLoss PROVE AppliedAtMostOnce'
  BY <1>22 DEF RedisLoss, Spend
<1>23. ASSUME NEW r \in Relays, RelayCrash(r) PROVE AppliedAtMostOnce'
  BY <1>23 DEF RelayCrash, Spend
<1>24. ASSUME NEW c \in Consumers, ConsumerCrash(c) PROVE AppliedAtMostOnce'
  BY <1>24 DEF ConsumerCrash, Spend
<1>25. CASE UNCHANGED vars
  BY <1>25
<1> QED
  BY <1>1, <1>2, <1>3, <1>4, <1>5, <1>6, <1>7, <1>8, <1>9, <1>10, <1>11, <1>12, <1>13, <1>14, <1>15, <1>16, <1>17, <1>18, <1>19, <1>20, <1>21, <1>22, <1>23, <1>24, <1>25 DEF Next, RelayStep, ConsumerStep, Environment

\* A step that leaves every place an event can be alone.
LEMMA ProvenanceFrame ==
  ASSUME Provenance, UNCHANGED <<outbox, rows, inbox, quarantine, stream, batch>>
  PROVE  Provenance'
<1>1. outbox' = outbox /\ rows' = rows /\ inbox' = inbox
  OBVIOUS
<1>2. quarantine' = quarantine /\ stream' = stream /\ batch' = batch
  OBVIOUS
<1> QED
  BY <1>1, <1>2 DEF Provenance

\* Only published events travel.
LEMMA ProvenanceStep ==
  ASSUME TypeOK, TypeOK', Provenance, [Next]_vars
  PROVE  Provenance'
<1> USE EventsAssumption, ConsumerAssumption, LimitsAssumption DEF TypeOK, ProducerTypes, StreamTypes, CursorTypes,
                        RecordTypes, TickTypes, HistoryTypes,
        vars, producerVars, redisVars, cursorVars, recordVars, tickVars, historyVars,
        Provenance, Pending, Empty
<1>1. ASSUME NEW e \in Events, Publish(e) PROVE Provenance'
  BY <1>1 DEF Publish
<1>2. ASSUME NEW r \in Relays, RelayFind(r) PROVE Provenance'
  <2>1. UNCHANGED <<outbox, inbox, quarantine, stream, batch>>
    BY <1>2 DEF RelayFind
  <2>2. ASSUME NEW e \in Events, outbox[e] = "unpublished", NEW q \in Relays
        PROVE  e \notin rows'[q]
    <3>1. rows'[q] = rows[q] \/ rows'[q] \subseteq Pending
      BY <1>2 DEF RelayFind
    <3>2. e \notin rows[q] /\ e \notin Pending
      BY <2>2
    <3> QED
      BY <3>1, <3>2
  <2> QED
    BY <2>1, <2>2
<1>3. ASSUME NEW r \in Relays, RelaySend(r) PROVE Provenance'
  <2>1. PICK e \in Events :
          /\ Oldest(e, rows[r])
          /\ stream' = [i \in DOMAIN stream \cup {last + 1} |-> IF i = last + 1 THEN e ELSE stream[i]]
    BY <1>3 DEF RelaySend
  <2>5. e \in rows[r]
    BY <2>1 DEF Oldest
  <2>2. outbox[e] # "unpublished"
    BY <2>5
  <2>3. UNCHANGED <<outbox, rows, inbox, quarantine, batch>>
    BY <1>3 DEF RelaySend
  <2>4. \A i \in DOMAIN stream' : stream'[i] = e \/ (i \in DOMAIN stream /\ stream'[i] = stream[i])
    BY <2>1
  <2> QED
    BY <2>2, <2>3, <2>4, ZenonT(60)
<1>4. ASSUME NEW r \in Relays, RelayMark(r) PROVE Provenance'
  <2>1. PICK e \in Events :
          /\ Oldest(e, rows[r])
          /\ outbox' = [outbox EXCEPT ![e] = "sent"]
          /\ rows' = [rows EXCEPT ![r] = @ \ {e}]
    BY <1>4 DEF RelayMark
  <2>2. UNCHANGED <<stream, inbox, quarantine, batch>>
    BY <1>4 DEF RelayMark
  <2>3. \A f \in Events : outbox'[f] = "unpublished" => outbox[f] = "unpublished"
    BY <2>1
  <2>4. \A q \in Relays : rows'[q] \subseteq rows[q]
    BY <2>1
  <2> QED
    BY <2>2, <2>3, <2>4
<1>5. ASSUME NEW c \in Consumers, StartTick(c) PROVE Provenance'
  <2>1. UNCHANGED <<outbox, rows, inbox, quarantine, stream, batch>>
    BY ONLY <1>5 DEF StartTick, producerVars, redisVars, cursorVars, recordVars, historyVars
  <2> QED
    BY ONLY <2>1, Provenance, ProvenanceFrame
<1>6. ASSUME NEW c \in Consumers, NEW e \in Events, RedriveCommit(c, e) PROVE Provenance'
  <2>1. UNCHANGED <<outbox, rows, stream, batch>>
    BY <1>6 DEF RedriveCommit
  <2>2. \/ UNCHANGED <<inbox, quarantine>>
        \/ /\ quarantine[e] = "requeued" /\ inbox' \subseteq inbox \cup {e}
           /\ quarantine' = [quarantine EXCEPT ![e] = "resolved"]
    BY ONLY <1>6 DEF RedriveCommit, Record, Receive, recordVars
  <2> QED
    BY <2>1, <2>2, ZenonT(60)
<1>7. ASSUME NEW c \in Consumers, NEW e \in Events, RedriveRefused(c, e) PROVE Provenance'
  BY <1>7 DEF RedriveRefused, Oldest
<1>8. ASSUME NEW c \in Consumers, NEW e \in Events, RedriveReject(c, e) PROVE Provenance'
  BY <1>8 DEF RedriveReject, Record, Oldest
<1>9. ASSUME NEW c \in Consumers, NEW e \in Events, RedriveCrash(c, e) PROVE Provenance'
  BY <1>9 DEF RedriveCrash, Oldest
<1>10. ASSUME NEW c \in Consumers, Acquire(c) PROVE Provenance'
  <2>1. UNCHANGED <<outbox, rows, inbox, quarantine, stream, batch>>
    BY ONLY <1>10 DEF Acquire, producerVars, redisVars, cursorVars, recordVars, historyVars
  <2> QED
    BY ONLY <2>1, Provenance, ProvenanceFrame
<1>11. ASSUME NEW c \in Consumers, Yield(c) PROVE Provenance'
  <2>1. UNCHANGED <<outbox, rows, inbox, quarantine, stream, batch>>
    BY ONLY <1>11 DEF Yield, producerVars, redisVars, cursorVars, recordVars, historyVars
  <2> QED
    BY ONLY <2>1, Provenance, ProvenanceFrame
<1>12. ASSUME NEW c \in Consumers, Read(c) PROVE Provenance'
  BY <1>12 DEF Read
<1>13. ASSUME NEW c \in Consumers, Commit(c) PROVE Provenance'
  BY <1>13 DEF Commit, Holds, Record, Resolve, Receive
<1>14. ASSUME NEW c \in Consumers, Refused(c) PROVE Provenance'
  BY <1>14 DEF Refused, Holds
<1>15. ASSUME NEW c \in Consumers, Reject(c) PROVE Provenance'
  <2> DEFINE e == batch[c][next[c]]
  <2>1. UNCHANGED <<outbox, rows, stream, inbox>> /\ e \in Events /\ outbox[e] # "unpublished"
    BY <1>15 DEF Reject
  <2>2. quarantine' \in {quarantine, [quarantine EXCEPT ![e] = "pending"]}
    BY <1>15 DEF Reject, Record
  <2>3. batch' \in {batch, [batch EXCEPT ![c] = Empty]}
    BY <1>15 DEF Reject, Release
  <2> HIDE DEF e
  <2>4. \A f \in Events : outbox[f] = "unpublished" => quarantine'[f] = "absent"
    <3>1. \A f \in Events \ {e} : quarantine'[f] = quarantine[f]
      BY <2>2, SMTT(30)
    <3> QED
      BY <2>1, <3>1
  <2>5. \A d \in Consumers : \A i \in DOMAIN batch'[d] :
          i \in DOMAIN batch[d] /\ batch'[d][i] = batch[d][i]
    <3>1. CASE batch' = batch
      BY <3>1
    <3>2. CASE batch' = [batch EXCEPT ![c] = Empty]
      BY <3>2
    <3> QED
      BY <2>3, <3>1, <3>2
  <2> SUFFICES ASSUME NEW f \in Events, outbox'[f] = "unpublished"
               PROVE  /\ f \notin inbox' /\ quarantine'[f] = "absent"
                      /\ \A r \in Relays : f \notin rows'[r]
                      /\ \A i \in DOMAIN stream' : stream'[i] # f
                      /\ \A d \in Consumers : \A i \in DOMAIN batch'[d] : batch'[d][i] # f
    OBVIOUS
  <2>6. outbox[f] = "unpublished"
    BY <2>1
  <2>7. ASSUME NEW d \in Consumers, NEW i \in DOMAIN batch'[d] PROVE batch'[d][i] # f
    BY <2>5, <2>6
  <2>8. f \notin inbox' /\ quarantine'[f] = "absent" /\ \A i \in DOMAIN stream' : stream'[i] # f
    BY <2>1, <2>4, <2>6
  <2>9. \A r \in Relays : f \notin rows'[r]
    BY <2>1, <2>6
  <2> QED
    BY <2>7, <2>8, <2>9
<1>16. ASSUME NEW c \in Consumers, Finish(c) PROVE Provenance'
  BY <1>16 DEF Finish, Holds, Release
<1>17. ASSUME NEW e \in Events, Redrive(e) PROVE Provenance'
  <2>1. UNCHANGED <<outbox, rows, inbox, stream, batch>>
    BY ONLY <1>17 DEF Redrive, producerVars, redisVars, tickVars
  <2>2. quarantine[e] = "pending" /\ quarantine' = [quarantine EXCEPT ![e] = "requeued"]
    BY ONLY <1>17 DEF Redrive, Record
  <2>3. \A f \in Events : quarantine[f] = "absent" => quarantine'[f] = "absent"
    BY <2>2
  <2> QED
    BY <2>1, <2>3, ZenonT(60)
<1>18. ASSUME RecoverProducer PROVE Provenance'
  BY <1>18 DEF RecoverProducer, Spend
<1>19. ASSUME RecoverConsumer PROVE Provenance'
  BY <1>19 DEF RecoverConsumer, Spend
<1>20. ASSUME NEW e \in Events, Upgrade(e) PROVE Provenance'
  BY <1>20 DEF Upgrade
<1>21. ASSUME LeaseExpires PROVE Provenance'
  BY <1>21 DEF LeaseExpires
<1>22. ASSUME RedisLoss PROVE Provenance'
  BY <1>22 DEF RedisLoss, Spend
<1>23. ASSUME NEW r \in Relays, RelayCrash(r) PROVE Provenance'
  BY <1>23 DEF RelayCrash, Spend
<1>24. ASSUME NEW c \in Consumers, ConsumerCrash(c) PROVE Provenance'
  BY <1>24 DEF ConsumerCrash, Spend
<1>25. CASE UNCHANGED vars
  BY <1>25
<1> QED
  BY <1>1, <1>2, <1>3, <1>4, <1>5, <1>6, <1>7, <1>8, <1>9, <1>10, <1>11, <1>12, <1>13, <1>14, <1>15, <1>16, <1>17, <1>18, <1>19, <1>20, <1>21, <1>22, <1>23, <1>24, <1>25 DEF Next, RelayStep, ConsumerStep, Environment

\* What a relay is about to mark is in the stream.
LEMMA RelayInvStep ==
  ASSUME TypeOK, TypeOK', RelayInv, [Next]_vars
  PROVE  RelayInv'
<1> USE EventsAssumption, ConsumerAssumption, LimitsAssumption DEF TypeOK, ProducerTypes, StreamTypes, CursorTypes,
                        RecordTypes, TickTypes, HistoryTypes,
        vars, producerVars, redisVars, cursorVars, recordVars, tickVars, historyVars,
        RelayInv, InStream, Oldest
<1>1. ASSUME NEW e \in Events, Publish(e) PROVE RelayInv'
  BY <1>1 DEF Publish
<1>2. ASSUME NEW r \in Relays, RelayFind(r) PROVE RelayInv'
  BY <1>2 DEF RelayFind
<1>3. ASSUME NEW r \in Relays, RelaySend(r) PROVE RelayInv'
  <2>1. PICK e \in Events :
          /\ Oldest(e, rows[r])
          /\ stream' = [i \in DOMAIN stream \cup {last + 1} |-> IF i = last + 1 THEN e ELSE stream[i]]
    BY <1>3 DEF RelaySend
  <2>2. sent' = [sent EXCEPT ![r] = TRUE] /\ UNCHANGED <<rows, rearmed>>
    BY <1>3 DEF RelaySend
  <2>3. InStream(e)'
    <3>1. last + 1 \in DOMAIN stream' /\ stream'[last + 1] = e
      BY <2>1
    <3> QED
      BY <3>1
  <2>5. \A f : InStream(f) => InStream(f)'
    <3>1. \A i \in DOMAIN stream : i \in DOMAIN stream' /\ stream'[i] = stream[i]
      BY <2>1
    <3> QED
      BY <3>1
  <2>4. rows[r] # {} /\ \A f \in rows[r] : Oldest(f, rows[r]) => f = e
    <3>1. e \in rows[r] /\ \A f \in rows[r] : e <= f
      BY <2>1
    <3>2. ASSUME NEW f \in rows[r], Oldest(f, rows[r]) PROVE f = e
      <4>1. f \in Nat /\ e \in Nat
        OBVIOUS
      <4>2. f <= e /\ e <= f
        BY <3>1, <3>2
      <4> QED
        BY <4>1, <4>2
    <3> QED
      BY <3>1, <3>2, Zenon
  <2> QED
    BY <2>2, <2>3, <2>4, <2>5, ZenonT(60)
<1>4. ASSUME NEW r \in Relays, RelayMark(r) PROVE RelayInv'
  <2>1. sent' = [sent EXCEPT ![r] = FALSE] /\ UNCHANGED <<stream, rearmed>>
    BY <1>4 DEF RelayMark
  <2>2. \A q \in Relays : q # r => rows'[q] = rows[q]
    BY <1>4 DEF RelayMark
  <2> QED
    BY <2>1, <2>2
<1>5. ASSUME NEW c \in Consumers, StartTick(c) PROVE RelayInv'
  BY <1>5 DEF StartTick
<1>6. ASSUME NEW c \in Consumers, NEW e \in Events, RedriveCommit(c, e) PROVE RelayInv'
  BY <1>6 DEF RedriveCommit, Record, Receive, Oldest
<1>7. ASSUME NEW c \in Consumers, NEW e \in Events, RedriveRefused(c, e) PROVE RelayInv'
  BY <1>7 DEF RedriveRefused, Oldest
<1>8. ASSUME NEW c \in Consumers, NEW e \in Events, RedriveReject(c, e) PROVE RelayInv'
  BY <1>8 DEF RedriveReject, Record, Oldest
<1>9. ASSUME NEW c \in Consumers, NEW e \in Events, RedriveCrash(c, e) PROVE RelayInv'
  BY <1>9 DEF RedriveCrash, Oldest
<1>10. ASSUME NEW c \in Consumers, Acquire(c) PROVE RelayInv'
  BY <1>10 DEF Acquire
<1>11. ASSUME NEW c \in Consumers, Yield(c) PROVE RelayInv'
  BY <1>11 DEF Yield
<1>12. ASSUME NEW c \in Consumers, Read(c) PROVE RelayInv'
  BY <1>12 DEF Read
<1>13. ASSUME NEW c \in Consumers, Commit(c) PROVE RelayInv'
  BY <1>13, ZenonT(60) DEF Commit, Holds, Record, Resolve, Receive
<1>14. ASSUME NEW c \in Consumers, Refused(c) PROVE RelayInv'
  BY <1>14 DEF Refused, Holds
<1>15. ASSUME NEW c \in Consumers, Reject(c) PROVE RelayInv'
  BY <1>15 DEF Reject, Holds, Record, Release
<1>16. ASSUME NEW c \in Consumers, Finish(c) PROVE RelayInv'
  BY <1>16 DEF Finish, Holds, Release
<1>17. ASSUME NEW e \in Events, Redrive(e) PROVE RelayInv'
  BY <1>17 DEF Redrive, Record
<1>18. ASSUME RecoverProducer PROVE RelayInv'
  BY <1>18 DEF RecoverProducer, Spend
<1>19. ASSUME RecoverConsumer PROVE RelayInv'
  BY <1>19 DEF RecoverConsumer, Spend
<1>20. ASSUME NEW e \in Events, Upgrade(e) PROVE RelayInv'
  BY <1>20 DEF Upgrade
<1>21. ASSUME LeaseExpires PROVE RelayInv'
  BY <1>21 DEF LeaseExpires
<1>22. ASSUME RedisLoss PROVE RelayInv'
  BY <1>22 DEF RedisLoss, Spend
<1>23. ASSUME NEW r \in Relays, RelayCrash(r) PROVE RelayInv'
  BY <1>23 DEF RelayCrash, Spend
<1>24. ASSUME NEW c \in Consumers, ConsumerCrash(c) PROVE RelayInv'
  BY <1>24 DEF ConsumerCrash, Spend
<1>25. CASE UNCHANGED vars
  BY <1>25
<1> QED
  BY <1>1, <1>2, <1>3, <1>4, <1>5, <1>6, <1>7, <1>8, <1>9, <1>10, <1>11, <1>12, <1>13, <1>14, <1>15, <1>16, <1>17, <1>18, <1>19, <1>20, <1>21, <1>22, <1>23, <1>24, <1>25 DEF Next, RelayStep, ConsumerStep, Environment

\* The fence's owner stands just above the cursor, whoever else still runs.
LEMMA HolderInvStep ==
  ASSUME TypeOK, TypeOK', HolderInv, [Next]_vars
  PROVE  HolderInv'
<1> USE EventsAssumption, ConsumerAssumption, LimitsAssumption DEF TypeOK, ProducerTypes, StreamTypes, CursorTypes,
                        RecordTypes, TickTypes, HistoryTypes,
        vars, producerVars, redisVars, cursorVars, recordVars, tickVars, historyVars,
        HolderInv, Working, Empty
<1>1. ASSUME NEW e \in Events, Publish(e) PROVE HolderInv'
  BY <1>1 DEF Publish
<1>2. ASSUME NEW r \in Relays, RelayFind(r) PROVE HolderInv'
  BY <1>2 DEF RelayFind
<1>3. ASSUME NEW r \in Relays, RelaySend(r) PROVE HolderInv'
  BY <1>3 DEF RelaySend, Oldest
<1>4. ASSUME NEW r \in Relays, RelayMark(r) PROVE HolderInv'
  BY <1>4 DEF RelayMark, Oldest
<1>5. ASSUME NEW c \in Consumers, StartTick(c) PROVE HolderInv'
  BY <1>5 DEF StartTick
<1>6. ASSUME NEW c \in Consumers, NEW e \in Events, RedriveCommit(c, e) PROVE HolderInv'
  BY <1>6 DEF RedriveCommit, Record, Receive, Oldest
<1>7. ASSUME NEW c \in Consumers, NEW e \in Events, RedriveRefused(c, e) PROVE HolderInv'
  BY <1>7 DEF RedriveRefused, Oldest
<1>8. ASSUME NEW c \in Consumers, NEW e \in Events, RedriveReject(c, e) PROVE HolderInv'
  BY <1>8 DEF RedriveReject, Record, Oldest
<1>9. ASSUME NEW c \in Consumers, NEW e \in Events, RedriveCrash(c, e) PROVE HolderInv'
  BY <1>9 DEF RedriveCrash, Oldest
<1>10. ASSUME NEW c \in Consumers, Acquire(c) PROVE HolderInv'
  BY <1>10 DEF Acquire
<1>11. ASSUME NEW c \in Consumers, Yield(c) PROVE HolderInv'
  BY <1>11 DEF Yield
<1>12. ASSUME NEW c \in Consumers, Read(c) PROVE HolderInv'
  BY <1>12 DEF Read
<1>13. ASSUME NEW c \in Consumers, Commit(c) PROVE HolderInv'
  BY <1>13 DEF Commit, Holds, Record, Resolve, Receive
<1>14. ASSUME NEW c \in Consumers, Refused(c) PROVE HolderInv'
  BY <1>14 DEF Refused, Holds
<1>15. ASSUME NEW c \in Consumers, Reject(c) PROVE HolderInv'
  <2>1. UNCHANGED <<stream, last, rewound>>
    BY <1>15 DEF Reject
  <2>2. CASE Release(c) /\ UNCHANGED cursor
    BY <2>1, <2>2 DEF Release
  <2>3. CASE /\ cursor' = next[c]
             /\ next' = [next EXCEPT ![c] = @ + 1]
             /\ pc' = [pc EXCEPT ![c] = "applying"]
             /\ UNCHANGED <<fence, leased, batch>>
    <3>1. fence = c /\ pc[c] = "rejecting" /\ next[c] \in DOMAIN batch[c] /\ next[c] \in Nat
      BY <1>15 DEF Reject, Holds
    <3>2. rewound => cursor' <= last
      BY <2>3, <3>1
    <3> QED
      BY <2>1, <2>3, <3>1, <3>2
  <2> QED
    BY <1>15, <2>2, <2>3 DEF Reject
<1>16. ASSUME NEW c \in Consumers, Finish(c) PROVE HolderInv'
  BY <1>16 DEF Finish, Holds, Release
<1>17. ASSUME NEW e \in Events, Redrive(e) PROVE HolderInv'
  BY <1>17 DEF Redrive, Record
<1>18. ASSUME RecoverProducer PROVE HolderInv'
  BY <1>18 DEF RecoverProducer, Spend
<1>19. ASSUME RecoverConsumer PROVE HolderInv'
  BY <1>19 DEF RecoverConsumer, Spend
<1>20. ASSUME NEW e \in Events, Upgrade(e) PROVE HolderInv'
  BY <1>20 DEF Upgrade
<1>21. ASSUME LeaseExpires PROVE HolderInv'
  BY <1>21 DEF LeaseExpires
<1>22. ASSUME RedisLoss PROVE HolderInv'
  BY <1>22 DEF RedisLoss, Spend
<1>23. ASSUME NEW r \in Relays, RelayCrash(r) PROVE HolderInv'
  BY <1>23 DEF RelayCrash, Spend
<1>24. ASSUME NEW c \in Consumers, ConsumerCrash(c) PROVE HolderInv'
  BY <1>24 DEF ConsumerCrash, Spend
<1>25. CASE UNCHANGED vars
  BY <1>25
<1> QED
  BY <1>1, <1>2, <1>3, <1>4, <1>5, <1>6, <1>7, <1>8, <1>9, <1>10, <1>11, <1>12, <1>13, <1>14, <1>15, <1>16, <1>17, <1>18, <1>19, <1>20, <1>21, <1>22, <1>23, <1>24, <1>25 DEF Next, RelayStep, ConsumerStep, Environment

\* A step that leaves cursor and stream alone cannot skip an entry ...
LEMMA SkipFrame ==
  ASSUME TypeOK, NoSilentSkip, \A ev \in Events : Handled(ev) => Handled(ev)',
         UNCHANGED <<stream, cursor, rewound>>
  PROVE  NoSilentSkip'
<1>1. ASSUME NEW i \in DOMAIN stream, i <= cursor, rewound, NEW f \in Events, f = stream[i]
      PROVE  Handled(f)'
  BY <1>1 DEF NoSilentSkip
<1>2. \A i \in DOMAIN stream : stream[i] \in Events
  BY DEF TypeOK, StreamTypes
<1> QED
  BY <1>1, <1>2 DEF NoSilentSkip

\* ... and the owner's step moves the cursor by exactly the entry it has settled.
LEMMA AdvanceCursor ==
  ASSUME TypeOK, HolderInv, NoSilentSkip, \A ev \in Events : Handled(ev) => Handled(ev)',
         NEW c \in Consumers, Holds(c), Working(c), next[c] \in DOMAIN batch[c],
         NEW e \in Events, e = batch[c][next[c]], Handled(e)',
         cursor' = next[c], UNCHANGED <<stream, rewound>>
  PROVE  NoSilentSkip'
<1>1. ASSUME NEW i \in DOMAIN stream, i <= next[c], rewound, NEW f \in Events, f = stream[i]
      PROVE  Handled(f)'
  <2>1. stream[i] \in Events /\ i \in Nat /\ cursor \in Nat /\ next[c] \in Nat
    BY DEF TypeOK, StreamTypes, CursorTypes, TickTypes
  <2>2. /\ \A j \in DOMAIN stream : cursor < j => next[c] <= j
        /\ stream[next[c]] = e
    BY <1>1, <2>1 DEF HolderInv, Holds
  <2>3. CASE i <= cursor
    BY <1>1, <2>1, <2>3 DEF NoSilentSkip
  <2>4. CASE i = next[c]
    BY <1>1, <2>2, <2>4
  <2> QED
    BY <1>1, <2>1, <2>2, <2>3, <2>4
<1>2. \A i \in DOMAIN stream : stream[i] \in Events
  BY DEF TypeOK, StreamTypes
<1> QED
  BY <1>1, <1>2 DEF NoSilentSkip

\* No step passes an event over in silence: a tick advances the cursor past the one entry it
\* has recorded, and a reset to zero passes nothing.
LEMMA NoSilentSkipStep ==
  ASSUME TypeOK, TypeOK', HolderInv, NoSilentSkip,
         \A ev \in Events : Handled(ev) => Handled(ev)', [Next]_vars
  PROVE  NoSilentSkip'
<1> USE EventsAssumption, ConsumerAssumption, LimitsAssumption DEF TypeOK, ProducerTypes, StreamTypes, CursorTypes,
                        RecordTypes, TickTypes, HistoryTypes,
        vars, producerVars, redisVars, cursorVars, recordVars, tickVars, historyVars,
        HolderInv, Working, NoSilentSkip, Empty
<1>1. ASSUME NEW e \in Events, Publish(e) PROVE NoSilentSkip'
  BY <1>1, SkipFrame DEF Publish
<1>2. ASSUME NEW r \in Relays, RelayFind(r) PROVE NoSilentSkip'
  BY <1>2, SkipFrame DEF RelayFind
<1>3. ASSUME NEW r \in Relays, RelaySend(r) PROVE NoSilentSkip'
  <2>1. PICK e \in Events :
          stream' = [i \in DOMAIN stream \cup {last + 1} |-> IF i = last + 1 THEN e ELSE stream[i]]
    BY <1>3 DEF RelaySend
  <2>2. UNCHANGED <<cursor, rewound>>
    BY <1>3 DEF RelaySend
  <2>3. ASSUME NEW i \in DOMAIN stream', i <= cursor, rewound
        PROVE  i \in DOMAIN stream /\ stream'[i] = stream[i]
    BY <2>1, <2>3, SMTT(30)
  <2>4. ASSUME NEW i \in DOMAIN stream', i <= cursor, rewound,
               NEW f \in Events, f = stream'[i]
        PROVE  Handled(f)'
    BY <2>3, <2>4
  <2>5. \A i \in DOMAIN stream' : stream'[i] \in Events
    OBVIOUS
  <2> QED
    BY <2>2, <2>4, <2>5
<1>4. ASSUME NEW r \in Relays, RelayMark(r) PROVE NoSilentSkip'
  BY <1>4, SkipFrame DEF RelayMark
<1>5. ASSUME NEW c \in Consumers, StartTick(c) PROVE NoSilentSkip'
  BY <1>5, SkipFrame DEF StartTick
<1>6. ASSUME NEW c \in Consumers, NEW e \in Events, RedriveCommit(c, e) PROVE NoSilentSkip'
  BY <1>6, SkipFrame DEF RedriveCommit
<1>7. ASSUME NEW c \in Consumers, NEW e \in Events, RedriveRefused(c, e) PROVE NoSilentSkip'
  BY <1>7, SkipFrame DEF RedriveRefused
<1>8. ASSUME NEW c \in Consumers, NEW e \in Events, RedriveReject(c, e) PROVE NoSilentSkip'
  BY <1>8, SkipFrame DEF RedriveReject
<1>9. ASSUME NEW c \in Consumers, NEW e \in Events, RedriveCrash(c, e) PROVE NoSilentSkip'
  BY <1>9, SkipFrame DEF RedriveCrash
<1>10. ASSUME NEW c \in Consumers, Acquire(c) PROVE NoSilentSkip'
  BY <1>10, SkipFrame DEF Acquire
<1>11. ASSUME NEW c \in Consumers, Yield(c) PROVE NoSilentSkip'
  BY <1>11, SkipFrame DEF Yield
<1>12. ASSUME NEW c \in Consumers, Read(c) PROVE NoSilentSkip'
  BY <1>12, SkipFrame DEF Read
<1>13. ASSUME NEW c \in Consumers, Commit(c) PROVE NoSilentSkip'
  <2> PICK e \in Events : e = batch[c][next[c]]
    BY <1>13 DEF Commit
  <2>1. Holds(c) /\ Working(c) /\ next[c] \in DOMAIN batch[c] /\ cursor' = next[c]
    BY <1>13 DEF Commit
  <2>2. UNCHANGED <<stream, rewound>>
    BY <1>13 DEF Commit
  <2>3. Handled(e)'
    BY <1>13 DEF Commit, Record, Resolve, Receive, Handled
  <2> QED
    BY <2>1, <2>2, <2>3, AdvanceCursor
<1>14. ASSUME NEW c \in Consumers, Refused(c) PROVE NoSilentSkip'
  BY <1>14, SkipFrame DEF Refused
<1>15. ASSUME NEW c \in Consumers, Reject(c) PROVE NoSilentSkip'
  <2> PICK e \in Events : e = batch[c][next[c]]
    BY <1>15 DEF Reject
  <2>1. UNCHANGED <<stream, rewound>>
    BY <1>15 DEF Reject
  <2>2. CASE cursor' = cursor
    BY <2>1, <2>2, SkipFrame
  <2>3. CASE cursor' = next[c] /\ Record(e, "pending")
    <3>1. Holds(c) /\ Working(c) /\ next[c] \in DOMAIN batch[c] /\ e \in Events
      BY <1>15 DEF Reject
    <3>2. Handled(e)'
      BY <2>3, <3>1 DEF Record, Handled
    <3> QED
      BY <2>1, <2>3, <3>1, <3>2, AdvanceCursor
  <2> QED
    BY <1>15, <2>2, <2>3 DEF Reject
<1>16. ASSUME NEW c \in Consumers, Finish(c) PROVE NoSilentSkip'
  BY <1>16, SkipFrame DEF Finish
<1>17. ASSUME NEW e \in Events, Redrive(e) PROVE NoSilentSkip'
  BY <1>17, SkipFrame DEF Redrive
<1>18. ASSUME RecoverProducer PROVE NoSilentSkip'
  BY <1>18, SkipFrame DEF RecoverProducer
<1>19. ASSUME RecoverConsumer PROVE NoSilentSkip'
  BY <1>19 DEF RecoverConsumer, Spend
<1>20. ASSUME NEW e \in Events, Upgrade(e) PROVE NoSilentSkip'
  BY <1>20, SkipFrame DEF Upgrade
<1>21. ASSUME LeaseExpires PROVE NoSilentSkip'
  BY <1>21, SkipFrame DEF LeaseExpires
<1>22. ASSUME RedisLoss PROVE NoSilentSkip'
  BY <1>22 DEF RedisLoss, Spend
<1>23. ASSUME NEW r \in Relays, RelayCrash(r) PROVE NoSilentSkip'
  BY <1>23, SkipFrame DEF RelayCrash
<1>24. ASSUME NEW c \in Consumers, ConsumerCrash(c) PROVE NoSilentSkip'
  BY <1>24, SkipFrame DEF ConsumerCrash
<1>25. CASE UNCHANGED vars
  BY <1>25
<1> QED
  BY <1>1, <1>2, <1>3, <1>4, <1>5, <1>6, <1>7, <1>8, <1>9, <1>10, <1>11, <1>12, <1>13, <1>14, <1>15, <1>16, <1>17, <1>18, <1>19, <1>20, <1>21, <1>22, <1>23, <1>24, <1>25 DEF Next, RelayStep, ConsumerStep, Environment

\* With recovery run on idle relays, a published event always has a way on.
LEMMA NeverOrphanedStep ==
  ASSUME TypeOK, TypeOK', RelayInv, QuiescedRecovery, NeverOrphaned,
         \A ev \in Events : Handled(ev) => Handled(ev)', [Next]_vars
  PROVE  NeverOrphaned'
<1> USE EventsAssumption, ConsumerAssumption, LimitsAssumption DEF TypeOK, ProducerTypes, StreamTypes, CursorTypes,
                        RecordTypes, TickTypes, HistoryTypes,
        vars, producerVars, redisVars, cursorVars, recordVars, tickVars, historyVars,
        RelayInv, NeverOrphaned, InStream, Pending
<1>1. ASSUME NEW e \in Events, Publish(e) PROVE NeverOrphaned'
  BY <1>1 DEF Publish
<1>2. ASSUME NEW r \in Relays, RelayFind(r) PROVE NeverOrphaned'
  BY <1>2 DEF RelayFind
<1>3. ASSUME NEW r \in Relays, RelaySend(r) PROVE NeverOrphaned'
  <2>1. PICK e \in Events :
          stream' = [i \in DOMAIN stream \cup {last + 1} |-> IF i = last + 1 THEN e ELSE stream[i]]
    BY <1>3 DEF RelaySend
  <2>2. UNCHANGED <<outbox, rearmed>>
    BY <1>3 DEF RelaySend
  <2>3. \A i \in DOMAIN stream : i \in DOMAIN stream' /\ stream'[i] = stream[i]
    BY <2>1
  <2>4. \A f \in Events : InStream(f) => InStream(f)'
    BY <2>3
  <2> HIDE DEF InStream
  <2> QED
    BY <2>2, <2>4
<1>4. ASSUME NEW r \in Relays, RelayMark(r) PROVE NeverOrphaned'
  <2>1. PICK e \in Events :
          Oldest(e, rows[r]) /\ outbox' = [outbox EXCEPT ![e] = "sent"]
    BY <1>4 DEF RelayMark
  <2>2. UNCHANGED <<stream, rearmed>> /\ sent[r]
    BY <1>4 DEF RelayMark
  <2>3. e \in rows[r]
    BY <2>1 DEF Oldest
  <2>4. rearmed => InStream(e)
    BY <2>1, <2>2, <2>3 DEF Oldest
  <2>5. \A f \in Events : f # e => outbox'[f] = outbox[f]
    BY <2>1
  <2>6. \A f \in Events : InStream(f) => InStream(f)'
    BY <2>2
  <2> HIDE DEF InStream
  <2> QED
    BY <2>2, <2>4, <2>5, <2>6
<1>5. ASSUME NEW c \in Consumers, StartTick(c) PROVE NeverOrphaned'
  BY <1>5 DEF StartTick
<1>6. ASSUME NEW c \in Consumers, NEW e \in Events, RedriveCommit(c, e) PROVE NeverOrphaned'
  BY <1>6 DEF RedriveCommit, Record, Receive, Oldest
<1>7. ASSUME NEW c \in Consumers, NEW e \in Events, RedriveRefused(c, e) PROVE NeverOrphaned'
  BY <1>7 DEF RedriveRefused, Oldest
<1>8. ASSUME NEW c \in Consumers, NEW e \in Events, RedriveReject(c, e) PROVE NeverOrphaned'
  BY <1>8 DEF RedriveReject, Record, Oldest
<1>9. ASSUME NEW c \in Consumers, NEW e \in Events, RedriveCrash(c, e) PROVE NeverOrphaned'
  BY <1>9 DEF RedriveCrash, Oldest
<1>10. ASSUME NEW c \in Consumers, Acquire(c) PROVE NeverOrphaned'
  BY <1>10 DEF Acquire
<1>11. ASSUME NEW c \in Consumers, Yield(c) PROVE NeverOrphaned'
  BY <1>11 DEF Yield
<1>12. ASSUME NEW c \in Consumers, Read(c) PROVE NeverOrphaned'
  BY <1>12 DEF Read
<1>13. ASSUME NEW c \in Consumers, Commit(c) PROVE NeverOrphaned'
  BY <1>13 DEF Commit, Holds, Record, Resolve, Receive
<1>14. ASSUME NEW c \in Consumers, Refused(c) PROVE NeverOrphaned'
  BY <1>14 DEF Refused, Holds
<1>15. ASSUME NEW c \in Consumers, Reject(c) PROVE NeverOrphaned'
  BY <1>15 DEF Reject, Holds, Record, Release
<1>16. ASSUME NEW c \in Consumers, Finish(c) PROVE NeverOrphaned'
  BY <1>16 DEF Finish, Holds, Release
<1>17. ASSUME NEW e \in Events, Redrive(e) PROVE NeverOrphaned'
  BY <1>17 DEF Redrive, Record
<1>18. ASSUME RecoverProducer PROVE NeverOrphaned'
  BY <1>18 DEF RecoverProducer, Spend
<1>19. ASSUME RecoverConsumer PROVE NeverOrphaned'
  BY <1>19 DEF RecoverConsumer, Spend
<1>20. ASSUME NEW e \in Events, Upgrade(e) PROVE NeverOrphaned'
  BY <1>20 DEF Upgrade
<1>21. ASSUME LeaseExpires PROVE NeverOrphaned'
  BY <1>21 DEF LeaseExpires
<1>22. ASSUME RedisLoss PROVE NeverOrphaned'
  BY <1>22 DEF RedisLoss, Spend
<1>23. ASSUME NEW r \in Relays, RelayCrash(r) PROVE NeverOrphaned'
  BY <1>23 DEF RelayCrash, Spend
<1>24. ASSUME NEW c \in Consumers, ConsumerCrash(c) PROVE NeverOrphaned'
  BY <1>24 DEF ConsumerCrash, Spend
<1>25. CASE UNCHANGED vars
  BY <1>25
<1> QED
  BY <1>1, <1>2, <1>3, <1>4, <1>5, <1>6, <1>7, <1>8, <1>9, <1>10, <1>11, <1>12, <1>13, <1>14, <1>15, <1>16, <1>17, <1>18, <1>19, <1>20, <1>21, <1>22, <1>23, <1>24, <1>25 DEF Next, RelayStep, ConsumerStep, Environment

\* The invariant holds at the beginning ...
LEMMA InvInit == Init => TransportInv
<1> SUFFICES ASSUME Init PROVE TransportInv
  OBVIOUS
<1>1. TypeOK
  BY TypeInit
<1>2. Provenance /\ RelayInv
  BY DEF Init, Provenance, RelayInv, Empty
<1>3. HolderInv
  BY DEF Init, HolderInv, Working
<1>4. AppliedAtMostOnce /\ NoSilentSkip /\ NeverOrphaned
  BY DEF Init, AppliedAtMostOnce, NoSilentSkip, NeverOrphaned, Empty
<1> QED
  BY <1>1, <1>2, <1>3, <1>4 DEF TransportInv

\* ... is kept by every step ...
LEMMA InvStep ==
  ASSUME TransportInv, [Next]_vars
  PROVE  TransportInv'
<1>1. TypeOK /\ TypeOK'
  BY TypeStep DEF TransportInv
<1>2. Provenance' /\ RelayInv' /\ HolderInv' /\ AppliedAtMostOnce'
  BY <1>1, ProvenanceStep, RelayInvStep, HolderInvStep, AtMostOnceStep DEF TransportInv
<1>3. \A ev \in Events : Handled(ev) => Handled(ev)'
  BY <1>1, HandledStep
<1>4. NoSilentSkip'
  BY <1>1, <1>3, NoSilentSkipStep DEF TransportInv
<1>5. QuiescedRecovery => NeverOrphaned'
  BY <1>1, <1>3, NeverOrphanedStep DEF TransportInv
<1> QED
  BY <1>1, <1>2, <1>4, <1>5 DEF TransportInv

\* ... and so always holds.
LEMMA InvHolds == Spec => []TransportInv
<1>1. TransportInv /\ [Next]_vars => TransportInv'
  BY InvStep
<1> QED
  BY InvInit, <1>1, PTL DEF Spec

-----------------------------------------------------------------------------
(* What the transport guarantees. *)

\* A handler's effects are committed at most once per event, through every
\* duplicate, replay, redrive and stale tick (runtime.py:241-243).
THEOREM AtMostOnce == Spec => []AppliedAtMostOnce
<1>1. TransportInv => AppliedAtMostOnce
  BY DEF TransportInv
<1> QED
  BY InvHolds, <1>1, PTL

\* The cursor never passes an entry without a durable record of it
\* (runtime.py:212-274).
THEOREM NothingSkipped == Spec => []NoSilentSkip
<1>1. TransportInv => NoSilentSkip
  BY DEF TransportInv
<1> QED
  BY InvHolds, <1>1, PTL

\* When recovery is run with the relays stopped (docs/development.md:145), no
\* published event is ever left without a way to the consumer.
THEOREM NothingOrphaned == ASSUME QuiescedRecovery PROVE Spec => []NeverOrphaned
<1>1. TransportInv => NeverOrphaned
  BY DEF TransportInv
<1> QED
  BY InvHolds, <1>1, PTL

\* No tick writes an older cursor over a newer one; only an operator resets it.
THEOREM CursorMonotone == Spec => CursorNeverRegresses
<1>1. TransportInv /\ [Next]_vars => [cursor' < cursor => cursor' = 0 /\ fence' = NoConsumer]_vars
  <2> SUFFICES ASSUME TransportInv, [Next]_vars, cursor' < cursor
               PROVE  cursor' = 0 /\ fence' = NoConsumer
    OBVIOUS
  <2>1. cursor \in Nat /\ cursor' # cursor
    BY DEF TransportInv, TypeOK, CursorTypes
  <2>2. ASSUME NEW c \in Consumers, Commit(c) \/ Reject(c) PROVE FALSE
    <3>1. fence = c /\ Working(c) /\ cursor' \in {cursor, next[c]}
      BY <2>2 DEF Commit, Reject, Holds, Working
    <3>2. cursor < next[c] /\ next[c] \in Nat
      BY <3>1 DEF TransportInv, TypeOK, TickTypes, HolderInv
    <3> QED
      BY <2>1, <3>1, <3>2
  <2>3. CASE RecoverConsumer
    BY <2>3 DEF RecoverConsumer
  <2> QED
    BY <2>1, <2>2, <2>3, ZenonT(60) DEF Next, RelayStep, ConsumerStep, Environment, Publish, RelayFind, RelaySend,
       RelayMark, StartTick, RedriveCommit, RedriveRefused, RedriveReject, RedriveCrash, Acquire, Yield,
       Read, Refused, Finish, Redrive, RecoverProducer, Upgrade, LeaseExpires, RedisLoss, RelayCrash,
       ConsumerCrash, vars, producerVars, redisVars, cursorVars, recordVars, tickVars, historyVars
<1> QED
  BY InvHolds, <1>1, PTL DEF CursorNeverRegresses, Spec

-----------------------------------------------------------------------------
(* Refinement: every step moves one event as EventDelivery allows, or none. *)

Same(f) == Progress(f)' = Progress(f)

ProgressStep ==
  \/ (\A f \in Events : Same(f)) /\ UNCHANGED effects
  \/ \E e \in Events :
       /\ \A f \in Events \ {e} : Same(f)
       /\ \/ Progress(e) = "unpublished" /\ Progress(e)' = "transit" /\ UNCHANGED effects
          \/ Progress(e) = "transit" /\ Progress(e)' = "parked" /\ UNCHANGED effects
          \/ /\ Progress(e) \in {"transit", "parked"} /\ Progress(e)' = "applied"
             /\ effects' = [effects EXCEPT ![e] = @ + 1]

\* An event that is applied for the first time goes on as EventDelivery says ...
LEMMA ReceiveStep ==
  ASSUME TypeOK, NEW e \in Events, e \notin inbox, outbox[e] # "unpublished", Receive(e),
         UNCHANGED outbox, NEW q, quarantine' = [quarantine EXCEPT ![e] = q]
  PROVE  ProgressStep
<1>1. \A f \in Events \ {e} : Same(f)
  BY DEF Receive, Same, Progress, Handled, TypeOK, RecordTypes
<1>2. Progress(e) \in {"transit", "parked"} /\ Progress(e)' = "applied"
  BY DEF Receive, Progress
<1> QED
  BY <1>1, <1>2 DEF ProgressStep, Receive

\* ... one that has been applied before may only lose its place in the quarantine ...
LEMMA AppliedStep ==
  ASSUME TypeOK, NEW e \in Events, e \in inbox, UNCHANGED <<outbox, inbox, effects>>,
         NEW q, quarantine' = [quarantine EXCEPT ![e] = q]
  PROVE  ProgressStep
<1>1. ASSUME NEW f \in Events PROVE Same(f)
  <2>1. CASE f = e
    BY <2>1 DEF Same, Progress
  <2>2. CASE f # e
    <3>1. quarantine'[f] = quarantine[f]
      BY <2>2 DEF TypeOK, RecordTypes
    <3> QED
      BY <3>1 DEF Same, Progress, Handled
  <2> QED
    BY <2>1, <2>2
<1> QED
  BY <1>1 DEF ProgressStep

\* ... and one that is refused is parked.
LEMMA ParkStep ==
  ASSUME TypeOK, NEW e \in Events, e \notin inbox, outbox[e] # "unpublished", Record(e, "pending"),
         UNCHANGED <<outbox, inbox, effects>>
  PROVE  ProgressStep
<1>1. \A f \in Events \ {e} : Same(f)
  BY DEF Record, Same, Progress, Handled, TypeOK, RecordTypes
<1>2. Progress(e)' = "parked"
  BY DEF Record, Progress, Handled, TypeOK, RecordTypes
<1>3. Progress(e) \in {"transit", "parked"}
  BY DEF Progress
<1>4. CASE Progress(e) = "parked"
  BY <1>1, <1>2, <1>4 DEF ProgressStep, Same
<1>5. CASE Progress(e) = "transit"
  BY <1>1, <1>2, <1>5 DEF ProgressStep
<1> QED
  BY <1>3, <1>4, <1>5

\* Progress of one event is a step of the abstract specification, and no progress a stutter.
LEMMA RefinementStep ==
  ASSUME ProgressStep
  PROVE  [Delivery!Next]_(Delivery!vars)
<1> DEFINE P == [e \in Events |-> Progress(e)]
<1>1. CASE (\A f \in Events : Same(f)) /\ UNCHANGED effects
  <2>1. P' = P
    BY <1>1 DEF Same
  <2> QED
    BY <1>1, <2>1 DEF Delivery!vars
<1>2. ASSUME NEW e \in Events, \A f \in Events \ {e} : Same(f),
             NEW s, Progress(e)' = s
      PROVE  P' = [P EXCEPT ![e] = s] /\ P[e] = Progress(e)
  BY <1>2 DEF Same
<1>3. ASSUME NEW e \in Events, \A f \in Events \ {e} : Same(f),
             Progress(e) = "unpublished", Progress(e)' = "transit", UNCHANGED effects
      PROVE  Delivery!Publish(e)
  BY <1>2, <1>3 DEF Delivery!Publish
<1>4. ASSUME NEW e \in Events, \A f \in Events \ {e} : Same(f),
             Progress(e) = "transit", Progress(e)' = "parked", UNCHANGED effects
      PROVE  Delivery!Park(e)
  BY <1>2, <1>4 DEF Delivery!Park
<1>5. ASSUME NEW e \in Events, \A f \in Events \ {e} : Same(f),
             Progress(e) \in {"transit", "parked"}, Progress(e)' = "applied",
             effects' = [effects EXCEPT ![e] = @ + 1]
      PROVE  Delivery!Apply(e)
  BY <1>2, <1>5 DEF Delivery!Apply
<1> QED
  BY <1>1, <1>3, <1>4, <1>5 DEF ProgressStep, Delivery!Next

\* Every step of the transport is such progress.
LEMMA ProgressStepOK ==
  ASSUME TypeOK, TypeOK', Provenance, [Next]_vars
  PROVE  ProgressStep
<1> USE EventsAssumption, ConsumerAssumption, LimitsAssumption DEF TypeOK, ProducerTypes, StreamTypes, CursorTypes,
                        RecordTypes, TickTypes, HistoryTypes,
        vars, producerVars, redisVars, cursorVars, recordVars, tickVars, historyVars,
        Progress, Handled, Provenance, Same, ProgressStep, Pending
<1>1. ASSUME NEW e \in Events, Publish(e) PROVE ProgressStep
  <2>1. UNCHANGED <<inbox, quarantine, effects>> /\ outbox[e] = "unpublished"
    BY <1>1 DEF Publish
  <2>2. outbox'[e] = "pending" /\ \A f \in Events \ {e} : outbox'[f] = outbox[f]
    BY <1>1 DEF Publish
  <2>3. \A f \in Events \ {e} : Same(f)
    BY <2>1, <2>2
  <2>4. Progress(e) = "unpublished" /\ Progress(e)' = "transit"
    BY <2>1, <2>2
  <2> HIDE DEF Same, Progress
  <2> QED
    BY <2>1, <2>3, <2>4
<1>2. ASSUME NEW r \in Relays, RelayFind(r) PROVE ProgressStep
  BY <1>2 DEF RelayFind
<1>3. ASSUME NEW r \in Relays, RelaySend(r) PROVE ProgressStep
  BY <1>3 DEF RelaySend, Oldest
<1>4. ASSUME NEW r \in Relays, RelayMark(r) PROVE ProgressStep
  BY <1>4 DEF RelayMark, Oldest
<1>5. ASSUME NEW c \in Consumers, StartTick(c) PROVE ProgressStep
  BY <1>5 DEF StartTick
<1>6. ASSUME NEW c \in Consumers, NEW e \in Events, RedriveCommit(c, e) PROVE ProgressStep
  <2>1. CASE UNCHANGED recordVars
    BY <1>6, <2>1 DEF RedriveCommit
  <2>2. CASE /\ e \in inbox /\ Record(e, "resolved") /\ UNCHANGED <<inbox, effects>>
    BY <1>6, <2>2, AppliedStep DEF RedriveCommit, Record
  <2>3. CASE quarantine[e] = "requeued" /\ e \notin inbox /\ Record(e, "resolved") /\ Receive(e)
    <3>1. UNCHANGED outbox /\ outbox[e] # "unpublished"
      BY <1>6, <2>3 DEF RedriveCommit
    <3> QED
      BY <2>3, <3>1, ReceiveStep DEF Record
  <2> QED
    BY <1>6, <2>1, <2>2, <2>3 DEF RedriveCommit
<1>7. ASSUME NEW c \in Consumers, NEW e \in Events, RedriveRefused(c, e) PROVE ProgressStep
  BY <1>7 DEF RedriveRefused, Oldest
<1>8. ASSUME NEW c \in Consumers, NEW e \in Events, RedriveReject(c, e) PROVE ProgressStep
  BY <1>8 DEF RedriveReject, Record, Oldest
<1>9. ASSUME NEW c \in Consumers, NEW e \in Events, RedriveCrash(c, e) PROVE ProgressStep
  BY <1>9 DEF RedriveCrash, Oldest
<1>10. ASSUME NEW c \in Consumers, Acquire(c) PROVE ProgressStep
  BY <1>10 DEF Acquire
<1>11. ASSUME NEW c \in Consumers, Yield(c) PROVE ProgressStep
  BY <1>11 DEF Yield
<1>12. ASSUME NEW c \in Consumers, Read(c) PROVE ProgressStep
  BY <1>12 DEF Read
<1>13. ASSUME NEW c \in Consumers, Commit(c) PROVE ProgressStep
  <2> PICK e \in Events : e = batch[c][next[c]]
    BY <1>13 DEF Commit
  <2>1. UNCHANGED outbox /\ outbox[e] # "unpublished"
    BY <1>13 DEF Commit
  <2>2. CASE e \in inbox /\ Resolve(e) /\ UNCHANGED <<inbox, effects>>
    BY <2>1, <2>2, AppliedStep, SMTT(30) DEF Resolve, Record
  <2>3. CASE e \notin inbox /\ Record(e, "pending") /\ UNCHANGED <<inbox, effects>>
    BY <2>1, <2>3, ParkStep
  <2>4. CASE e \notin inbox /\ Receive(e) /\ Resolve(e)
    BY <2>1, <2>4, ReceiveStep DEF Resolve, Record
  <2>5. \/ e \in inbox /\ Resolve(e) /\ UNCHANGED <<inbox, effects>>
        \/ e \notin inbox /\ Record(e, "pending") /\ UNCHANGED <<inbox, effects>>
        \/ e \notin inbox /\ Receive(e) /\ Resolve(e)
    BY <1>13 DEF Commit
  <2> QED
    BY <2>2, <2>3, <2>4, <2>5
<1>14. ASSUME NEW c \in Consumers, Refused(c) PROVE ProgressStep
  BY <1>14 DEF Refused, Holds
<1>15. ASSUME NEW c \in Consumers, Reject(c) PROVE ProgressStep
  <2> PICK e \in Events : e = batch[c][next[c]]
    BY <1>15 DEF Reject
  <2>1. UNCHANGED <<outbox, inbox, effects>> /\ outbox[e] # "unpublished"
    BY <1>15 DEF Reject
  <2>2. CASE quarantine' = quarantine
    BY <2>1, <2>2
  <2>3. CASE Record(e, "pending") /\ e \in inbox
    BY <2>1, <2>3, AppliedStep DEF Record
  <2>4. CASE Record(e, "pending") /\ e \notin inbox
    BY <2>1, <2>4, ParkStep
  <2> QED
    BY <1>15, <2>2, <2>3, <2>4 DEF Reject
<1>16. ASSUME NEW c \in Consumers, Finish(c) PROVE ProgressStep
  BY <1>16 DEF Finish, Holds, Release
<1>17. ASSUME NEW e \in Events, Redrive(e) PROVE ProgressStep
  BY <1>17 DEF Redrive, Record
<1>18. ASSUME RecoverProducer PROVE ProgressStep
  BY <1>18 DEF RecoverProducer, Spend
<1>19. ASSUME RecoverConsumer PROVE ProgressStep
  BY <1>19 DEF RecoverConsumer, Spend
<1>20. ASSUME NEW e \in Events, Upgrade(e) PROVE ProgressStep
  BY <1>20 DEF Upgrade
<1>21. ASSUME LeaseExpires PROVE ProgressStep
  BY <1>21 DEF LeaseExpires
<1>22. ASSUME RedisLoss PROVE ProgressStep
  BY <1>22 DEF RedisLoss, Spend
<1>23. ASSUME NEW r \in Relays, RelayCrash(r) PROVE ProgressStep
  BY <1>23 DEF RelayCrash, Spend
<1>24. ASSUME NEW c \in Consumers, ConsumerCrash(c) PROVE ProgressStep
  BY <1>24 DEF ConsumerCrash, Spend
<1>25. CASE UNCHANGED vars
  BY <1>25
<1> QED
  BY <1>1, <1>2, <1>3, <1>4, <1>5, <1>6, <1>7, <1>8, <1>9, <1>10, <1>11, <1>12, <1>13, <1>14, <1>15, <1>16, <1>17, <1>18, <1>19, <1>20, <1>21, <1>22, <1>23, <1>24, <1>25 DEF Next, RelayStep, ConsumerStep, Environment

\* The transport implements the delivery EventDelivery promises: whatever happens
\* to Redis and to the ticks, an event is applied once, or parked and then applied once.
THEOREM TransportRefinesDelivery == Spec => DeliverySpec
<1>1. Init => Delivery!Init
  <2> SUFFICES ASSUME Init PROVE Delivery!Init
    OBVIOUS
  <2>1. \A e \in Events : Progress(e) = "unpublished"
    BY DEF Init, Progress, Handled
  <2> QED
    BY <2>1 DEF Init, Delivery!Init
<1>2. TransportInv /\ [Next]_vars => [Delivery!Next]_(Delivery!vars)
  <2> SUFFICES ASSUME TransportInv, [Next]_vars PROVE [Delivery!Next]_(Delivery!vars)
    OBVIOUS
  <2>1. TypeOK /\ TypeOK' /\ Provenance
    BY TypeStep DEF TransportInv
  <2> QED
    BY <2>1, ProgressStepOK, RefinementStep
<1> QED
  BY InvHolds, <1>1, <1>2, PTL DEF Spec, DeliverySpec, Delivery!Spec

=============================================================================
