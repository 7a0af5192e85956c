--------------------------- MODULE NostrBusProofs ---------------------------
(***************************************************************************)
(* Proofs about NostrBus for every set of relays and wraps and every value *)
(* of the time constants: the types, and that no message is skipped.       *)
(***************************************************************************)
EXTENDS NostrBus, TLAPS

USE BusAssumption, NoneAssumption DEF BusAssumption, NoneAssumption

-----------------------------------------------------------------------------
\* The helpers of the claimed-id tracker return memories of the same shape.
LEMMA SinceNat == ASSUME NEW c \in Nat PROVE Since(c) \in Nat /\ Since(c) =< c
BY DEF Since

LEMMA PruneType ==
    ASSUME NEW memory \in Memory, NEW c
    PROVE  /\ Prune(memory, c) \in Memory
           /\ \A m \in Rumors : Prune(memory, c)[m] # None => memory[m] # None
BY DEF Prune, Memory, Remembered

LEMMA RetainType ==
    ASSUME NEW memory \in Memory, NEW m \in Rumors, NEW at \in Nat, now \in Nat
    PROVE  /\ Retain(memory, m, at) \in Memory
           /\ \A n \in Rumors : Retain(memory, m, at)[n] # None => memory[n] # None \/ n = m
<1>1. [processedAt |-> now,
       latestEventCreatedAt |-> IF memory[m] = None THEN at
                                ELSE Larger(memory[m].latestEventCreatedAt, at)] \in Entry
    BY DEF Memory, Entry, Larger
<1>2. QED BY <1>1 DEF Retain, Memory

LEMMA SeededType ==
    ASSUME NEW file \in StateFile, now \in Nat
    PROVE  /\ Seeded(file) \in Memory
           /\ \A m \in Rumors : Seeded(file)[m] # None =>
                file.processedRumorIds[m] # None \/ m \in RecentRumorIds(file.recentEventIds)
<1>1. file.processedRumorIds \in Memory
    BY DEF StateFile
<1>2. CASE file.processedRumorIds # NothingRetained
    BY <1>1, <1>2, PruneType DEF Seeded
<1>3. CASE file.processedRumorIds = NothingRetained
    BY <1>3 DEF Seeded, Memory, Entry
<1>4. QED BY <1>2, <1>3

LEMMA CurrentStateType ==
    ASSUME TypeOK
    PROVE  CurrentState \in StateFile
BY PruneType DEF TypeOK, CurrentState, StateFile

-----------------------------------------------------------------------------
THEOREM InitTypeOK == Init => TypeOK
<1> SUFFICES ASSUME Init PROVE TypeOK
    OBVIOUS
<1>1. NotSubscribed \in Feed
    BY DEF NotSubscribed, Feed
<1>2. NothingRetained \in Memory
    BY DEF NothingRetained, Memory
<1>3. QED BY <1>1, <1>2 DEF Init, TypeOK, Unsubscribed, NoOperations

\* What a step of the barrier leaves in the checkpoint is a time.
LEMMA TryAdvanceType ==
    ASSUME TypeOK, NEW recorded \in BOOLEAN, TryAdvance(recorded),
           relayCatchUp' \in [Relays -> CatchUp \cup {None}]
    PROVE  caughtUpAt' \in Nat /\ pendingWrite' \in BOOLEAN
<1>1. pendingWrite' \in BOOLEAN
    BY DEF TypeOK, TryAdvance
<1>2. CASE CanAdvance'
    <2>1. PICK r \in Relays : caughtUpAt' = Larger(caughtUpAt, relayCatchUp[r].candidate')
        BY <1>2 DEF TryAdvance
    <2>2. relayCatchUp'[r] \in CatchUp
        BY <1>2 DEF CanAdvance, NothingToRetry, Certified
    <2>3. QED BY <1>1, <2>1, <2>2 DEF TypeOK, Larger, CatchUp
<1>3. CASE ~CanAdvance'
    BY <1>1, <1>3 DEF TypeOK, TryAdvance
<1>4. QED BY <1>2, <1>3

LEMMA MarkProcessedType ==
    ASSUME TypeOK, NEW w \in Wraps, MarkProcessed(w)
    PROVE  /\ seen' \subseteq Wraps
           /\ retained' \in Memory
           /\ recentEventIds' \subseteq Wraps
           /\ retryableEventIds' \subseteq Wraps
           /\ settled' \subseteq Rumors
<1>1. RumorOf[w] \in Rumors /\ created[w] \in Nat /\ now \in Nat
    BY DEF TypeOK
<1>2. Prune(retained, caughtUpAt) \in Memory
    BY PruneType DEF TypeOK
<1>3. Retain(Prune(retained, caughtUpAt), RumorOf[w], created[w]) \in Memory
    BY <1>1, <1>2, RetainType
<1>4. retained' \in Memory
    BY <1>3, PruneType DEF MarkProcessed
<1>5. QED BY <1>1, <1>4 DEF TypeOK, MarkProcessed

\* While the bus runs every relay has a catch-up record.
CatchUpKnown == phase = "running" => \A r \in Relays : relayCatchUp[r] # None

\* A feed that got its EOSE is still a feed.
LEMMA EosedFeed == ASSUME NEW f \in Feed PROVE [f EXCEPT !.eosed = TRUE] \in Feed
BY Zenon DEF Feed

LEMMA ForgetType == TypeOK /\ Forget /\ disk' \in StateFile \cup {None} /\ lateWrites' \subseteq Snapshot => TypeOK'
<1>1. NotSubscribed \in Feed
    BY DEF NotSubscribed, Feed
<1>2. NothingRetained \in Memory
    BY DEF NothingRetained, Memory
<1> SUFFICES ASSUME TypeOK, Forget, disk' \in StateFile \cup {None}, lateWrites' \subseteq Snapshot
             PROVE  TypeOK'
    OBVIOUS
<1>3. UNCHANGED <<now, created, storedAt, lives, joined, overlooked, settled>>
    BY DEF Forget, envVars, historyVars
<1>4. QED BY <1>1, <1>2, <1>3 DEF TypeOK, Forget, Unsubscribed, NoOperations

\* A close that is taken for EOSE completes the record and may raise the checkpoint.
LEMMA ClosedType ==
    ASSUME TypeOK, CatchUpKnown, NEW r \in Relays, ClosedBeforeEose(r)
    PROVE  TypeOK' /\ CatchUpKnown'
<1>1. \A q \in Relays : relayCatchUp[q] \in CatchUp
    BY DEF ClosedBeforeEose, CatchUpKnown, TypeOK
<1>2. PICK b \in BOOLEAN : relayCatchUp' = [relayCatchUp EXCEPT ![r].eose = b]
    <2>1. relayCatchUp[r].eose \in BOOLEAN
        BY <1>1 DEF CatchUp
    <2>2. (relayCatchUp[r].eose \/ relayCatchUp[r].generation = relayHealth[r].generation) \in BOOLEAN
        BY <2>1
    <2>3. QED BY <2>2 DEF ClosedBeforeEose
<1>3. \A q \in Relays : relayCatchUp'[q] \in CatchUp
    BY <1>1, <1>2 DEF TypeOK, CatchUp
<1>4. \A q \in Relays : relayCatchUp'[q] # None
    BY <1>3, NoneAssumption
<1>5. /\ feed' \in [Relays -> Feed]
      /\ relayHealth' \in [Relays -> [state : {"stopped", "connecting", "healthy", "degraded"},
                                       generation : Nat]]
    BY DEF ClosedBeforeEose, TypeOK, Feed, NotSubscribed
<1>6. caughtUpAt' \in Nat
    <2>1. caughtUpAt \in Nat /\ \A p \in Relays : relayCatchUp[p].candidate \in Nat
        BY <1>1 DEF TypeOK, CatchUp
    <2>2. QED BY <2>1 DEF ClosedBeforeEose, Larger
<1>7. overlooked' \subseteq Wraps
    <2>1. feed[r].backlog \subseteq Wraps
        BY DEF TypeOK, Feed
    <2>2. QED BY <2>1 DEF ClosedBeforeEose, TypeOK
<1>8. pendingWrite' \in BOOLEAN
    BY DEF ClosedBeforeEose
<1>9. UNCHANGED <<now, created, storedAt, phase, seen, retained, recentEventIds, operations,
                  settled, retryableEventIds, retiredCatchUpPending, disk, lateWrites,
                  lives, joined>>
    BY DEF ClosedBeforeEose, envVars, inboxVars, fileVars
<1>10. relayCatchUp' \in [Relays -> CatchUp \cup {None}]
    BY <1>2, <1>3 DEF TypeOK
<1>11. QED BY <1>4, <1>5, <1>6, <1>7, <1>8, <1>9, <1>10 DEF TypeOK, CatchUpKnown

\* Every outcome of an arrival keeps the types.
LEMMA ArrivalType ==
    ASSUME TypeOK, CatchUpKnown, NEW w \in Wraps, NEW r \in Relays, Arrival(w, r)
    PROVE  TypeOK' /\ CatchUpKnown'
<1>1. /\ UNCHANGED <<now, created, storedAt, phase, retiredCatchUpPending, disk,
                     lateWrites, lives, joined, overlooked>>
      /\ feed' \in [Relays -> Feed]
      /\ relayHealth' \in [Relays -> [state : {"stopped", "connecting", "healthy", "degraded"},
                                       generation : Nat]]
    <2>1. Arrives(w, r)
        BY DEF Arrival, Duplicate, RejectStale, Postpone, RejectJunk, AlreadyProcessed,
               RumorBusy, SkipOwn, LimitSender, Accept
    <2>2. [feed[r] EXCEPT !.backlog = @ \ {w}] \in Feed
        BY DEF TypeOK, Feed
    <2>3. [relayHealth[r] EXCEPT !.state = "healthy"]
              \in [state : {"stopped", "connecting", "healthy", "degraded"}, generation : Nat]
        BY DEF TypeOK
    <2>4. QED BY <2>1, <2>2, <2>3 DEF Arrives, TypeOK, envVars, fileVars, historyVars
<1>2. RumorOf[w] \in Rumors /\ created[w] \in Nat /\ now \in Nat
    BY DEF TypeOK
<1>3. Prune(retained, caughtUpAt) \in Memory
    BY PruneType DEF TypeOK
<1>4. Retain(Prune(retained, caughtUpAt), RumorOf[w], created[w]) \in Memory
    BY <1>2, <1>3, RetainType
<1>5. /\ seen' \subseteq Wraps
      /\ retained' \in Memory
      /\ recentEventIds' \subseteq Wraps
      /\ retryableEventIds' \subseteq Wraps
      /\ settled' \subseteq Rumors
    <2>1. CASE Duplicate(w, r) \/ RejectStale(w, r) \/ Postpone(w, r) \/ RejectJunk(w, r)
        BY <2>1 DEF TypeOK, Duplicate, RejectStale, Postpone, RejectJunk
    <2>2. CASE AlreadyProcessed(w, r) \/ RumorBusy(w, r) \/ LimitSender(w, r) \/ Accept(w, r)
        BY <1>3, <1>4, <2>2 DEF TypeOK, AlreadyProcessed, RumorBusy, LimitSender, Accept
    <2>3. CASE SkipOwn(w, r)
        BY <2>3, MarkProcessedType DEF SkipOwn
    <2>4. QED BY <2>1, <2>2, <2>3 DEF Arrival
<1>6. /\ operations' \in [Wraps -> {"idle", "authorizing", "handling"}]
      /\ relayCatchUp' \in [Relays -> CatchUp \cup {None}]
      /\ \E recorded \in BOOLEAN : TryAdvance(recorded)
    <2>1. CASE Accept(w, r)
        <3>1. operations' \in [Wraps -> {"idle", "authorizing", "handling"}]
            BY <2>1 DEF Accept, TypeOK
        <3>2. relayCatchUp[r] \in CatchUp
            BY <2>1 DEF Accept, Arrives, CatchUpKnown, TypeOK
        <3>3. relayCatchUp' \in [Relays -> CatchUp \cup {None}]
            BY <2>1, <3>2 DEF Accept, TypeOK, CatchUp
        <3>4. QED BY <2>1, <3>1, <3>3 DEF Accept
    <2>2. CASE ~Accept(w, r)
        BY <2>2 DEF Arrival, Duplicate, RejectStale, Postpone, RejectJunk, AlreadyProcessed,
               RumorBusy, SkipOwn, LimitSender, HandledAtOnce, TypeOK
    <2>3. QED BY <2>1, <2>2
<1>7. caughtUpAt' \in Nat /\ pendingWrite' \in BOOLEAN
    BY <1>6, TryAdvanceType
<1>8. TypeOK'
    BY <1>1, <1>5, <1>6, <1>7 DEF TypeOK
<1>9. CatchUpKnown'
    <2>1. CASE Accept(w, r)
        <3>1. \A q \in Relays : phase = "running" => relayCatchUp[q] \in CatchUp
            BY DEF CatchUpKnown, TypeOK
        <3>2. \A q \in Relays : phase = "running" => relayCatchUp'[q] \in CatchUp
            BY <2>1, <3>1 DEF Accept, TypeOK, CatchUp
        <3>3. QED BY <1>1, <3>2 DEF CatchUpKnown
    <2>2. CASE ~Accept(w, r)
        BY <1>1, <2>2 DEF Arrival, Duplicate, RejectStale, Postpone, RejectJunk,
               AlreadyProcessed, RumorBusy, SkipOwn, LimitSender, HandledAtOnce, CatchUpKnown
    <2>3. QED BY <2>1, <2>2
<1>10. QED BY <1>8, <1>9

\* The operation of w leaves the barrier: records lose w and nothing else.
LEMMA LeavesBarrierType ==
    ASSUME TypeOK, CatchUpKnown, NEW w \in Wraps, LeavesBarrier(w)
    PROVE  /\ relayCatchUp' \in [Relays -> CatchUp \cup {None}]
           /\ operations' \in [Wraps -> {"idle", "authorizing", "handling"}]
           /\ retiredCatchUpPending' \subseteq Wraps
           /\ UNCHANGED <<now, created, storedAt, relayHealth, feed, phase, disk,
                          lateWrites, lives, joined, overlooked>>
           /\ CatchUpKnown'
           /\ \A r \in Relays :
                /\ relayCatchUp[r] = None => relayCatchUp'[r] = None
                /\ relayCatchUp[r] # None =>
                     /\ relayCatchUp'[r] # None
                     /\ relayCatchUp'[r].generation = relayCatchUp[r].generation
                     /\ relayCatchUp'[r].candidate = relayCatchUp[r].candidate
                     /\ relayCatchUp'[r].eose = relayCatchUp[r].eose
                     /\ relayCatchUp'[r].pending = relayCatchUp[r].pending \ {w}
<1>1. UNCHANGED <<now, created, storedAt, relayHealth, feed, phase, disk,
                  lateWrites, lives, joined, overlooked>>
    BY DEF LeavesBarrier, envVars, fileVars, historyVars
<1>2. ASSUME NEW r \in Relays, relayCatchUp[r] # None
      PROVE  /\ relayCatchUp'[r] \in CatchUp
             /\ relayCatchUp'[r].generation = relayCatchUp[r].generation
             /\ relayCatchUp'[r].candidate = relayCatchUp[r].candidate
             /\ relayCatchUp'[r].eose = relayCatchUp[r].eose
             /\ relayCatchUp'[r].pending = relayCatchUp[r].pending \ {w}
    <2>1. relayCatchUp[r] \in CatchUp
        BY <1>2 DEF TypeOK
    <2>2. relayCatchUp'[r] = [relayCatchUp[r] EXCEPT !.pending = @ \ {w}]
        BY <1>2 DEF LeavesBarrier
    <2>3. QED BY <2>1, <2>2 DEF CatchUp
<1>3. \A r \in Relays : relayCatchUp[r] = None => relayCatchUp'[r] = None
    BY DEF LeavesBarrier
<1>4. relayCatchUp' \in [Relays -> CatchUp \cup {None}]
    <2>1. DOMAIN relayCatchUp' = Relays /\ relayCatchUp' = [r \in Relays |-> relayCatchUp'[r]]
        BY DEF LeavesBarrier
    <2>2. \A r \in Relays : relayCatchUp'[r] \in CatchUp \cup {None}
        BY <1>2, <1>3
    <2>3. QED BY <2>1, <2>2
<1>5. CatchUpKnown'
    BY <1>1, <1>2 DEF CatchUpKnown
<1>6. operations' \in [Wraps -> {"idle", "authorizing", "handling"}]
    BY DEF LeavesBarrier, TypeOK
<1>7. retiredCatchUpPending' \subseteq Wraps
    BY DEF LeavesBarrier, TypeOK
<1>8. QED BY <1>1, <1>2, <1>3, <1>4, <1>5, <1>6, <1>7

\* Only the clock moves the clock.
LEMMA TimeStep ==
    ASSUME [Next]_vars
    PROVE  now' = now \/ now' = now + 1
<1> USE DEF envVars, fileVars, historyVars
<1>1. ASSUME NEW w \in Wraps, NEW r \in Relays, Arrival(w, r) PROVE now' = now
    BY <1>1 DEF Arrival, Arrives, Duplicate, RejectStale, Postpone, RejectJunk,
           AlreadyProcessed, RumorBusy, SkipOwn, LimitSender, Accept
<1>2. ASSUME NEW w \in Wraps, Authorized(w) \/ Processed(w) \/ Failed(w) PROVE now' = now
    BY <1>2 DEF Authorized, Processed, Failed, LeavesBarrier
<1>3. ASSUME NEW r \in Relays,
             \/ Eose(r) \/ EoseTimeout(r) \/ ClosedBeforeEose(r)
             \/ SubscriptionEnds(r) \/ Reconnect(r)
      PROVE  now' = now
    BY <1>3 DEF Eose, EoseTimeout, ClosedBeforeEose, SubscriptionEnds, Reconnect
<1>4. CASE Start \/ Subscribe \/ Persist \/ Close \/ FinishClose \/ LateWrite \/ Crash
    BY <1>4 DEF Start, Subscribe, Persist, Close, FinishClose, LateWrite, Crash, Forget
<1>5. CASE Tick \/ UNCHANGED vars \/ \E w \in Wraps : Publish(w)
    BY <1>5 DEF Tick, vars, Publish
<1>6. QED BY <1>1, <1>2, <1>3, <1>4, <1>5 DEF Next

LEMMA TypeStep == TypeOK /\ CatchUpKnown /\ now >= BACKDATE /\ [Next]_vars => TypeOK' /\ CatchUpKnown'
<1> SUFFICES ASSUME TypeOK, CatchUpKnown, now >= BACKDATE, [Next]_vars
             PROVE  TypeOK' /\ CatchUpKnown'
    OBVIOUS
<1> USE DEF envVars, inboxVars, barrierVars, relayVars, fileVars, historyVars
<1>1. ASSUME Tick PROVE TypeOK' /\ CatchUpKnown'
    BY <1>1 DEF Tick, TypeOK, CatchUpKnown
<1>2. ASSUME NEW w \in Wraps, Publish(w) PROVE TypeOK' /\ CatchUpKnown'
    <2>1. created' \in [Wraps -> Nat]
        BY <1>2 DEF Publish, TypeOK
    <2>2. storedAt' \in [Wraps -> SUBSET Relays]
        BY <1>2 DEF Publish, TypeOK
    <2>3. QED BY <1>2, <2>1, <2>2 DEF Publish, TypeOK, CatchUpKnown
<1>3. ASSUME NEW w \in Wraps, Authorized(w) PROVE TypeOK' /\ CatchUpKnown'
    BY <1>3 DEF Authorized, TypeOK, CatchUpKnown
<1>4. ASSUME NEW w \in Wraps, Processed(w) PROVE TypeOK' /\ CatchUpKnown'
    BY <1>4, MarkProcessedType, LeavesBarrierType, TryAdvanceType DEF Processed, TypeOK
<1>5. ASSUME NEW w \in Wraps, Failed(w) PROVE TypeOK' /\ CatchUpKnown'
    BY <1>5, LeavesBarrierType, TryAdvanceType DEF Failed, TypeOK
<1>6. ASSUME NEW w \in Wraps, NEW r \in Relays, Arrival(w, r) PROVE TypeOK' /\ CatchUpKnown'
    BY <1>6, ArrivalType
<1>7. ASSUME NEW r \in Relays, Eose(r) PROVE TypeOK' /\ CatchUpKnown'
    <2>1. relayCatchUp[r] \in CatchUp
        BY <1>7 DEF Eose, CatchUpKnown, TypeOK
    <2>2. relayCatchUp' \in [Relays -> CatchUp \cup {None}]
        BY <1>7, <2>1 DEF Eose, TypeOK, CatchUp
    <2>3. \A q \in Relays : relayCatchUp'[q] # None
        BY <1>7, <2>1 DEF Eose, CatchUpKnown, TypeOK, CatchUp
    <2>4. feed' \in [Relays -> Feed]
        <3>1. [feed[r] EXCEPT !.eosed = TRUE] \in Feed
            BY EosedFeed DEF TypeOK
        <3>2. QED BY <1>7, <3>1 DEF Eose, TypeOK
    <2>5. relayHealth' \in [Relays -> [state : {"stopped", "connecting", "healthy", "degraded"},
                                       generation : Nat]]
        BY <1>7 DEF Eose, TypeOK
    <2>6. caughtUpAt' \in Nat /\ pendingWrite' \in BOOLEAN
        BY <1>7, <2>2, TryAdvanceType DEF Eose
    <2>7. QED BY <1>7, <2>2, <2>3, <2>4, <2>5, <2>6 DEF Eose, TypeOK, CatchUpKnown
<1>8. ASSUME NEW r \in Relays, EoseTimeout(r) PROVE TypeOK' /\ CatchUpKnown'
    <2>1. feed' \in [Relays -> Feed]
        <3>1. [feed[r] EXCEPT !.eosed = TRUE] \in Feed
            BY EosedFeed DEF TypeOK
        <3>2. QED BY <1>8, <3>1 DEF EoseTimeout, TypeOK
    <2>2. QED BY <1>8, <2>1 DEF EoseTimeout, TypeOK, CatchUpKnown
<1>9. ASSUME NEW r \in Relays, SubscriptionEnds(r) PROVE TypeOK' /\ CatchUpKnown'
    <2>1. feed' \in [Relays -> Feed]
        BY <1>9 DEF SubscriptionEnds, TypeOK, Feed, NotSubscribed
    <2>2. relayHealth' \in [Relays -> [state : {"stopped", "connecting", "healthy", "degraded"},
                                       generation : Nat]]
        BY <1>9 DEF SubscriptionEnds, TypeOK
    <2>3. QED BY <1>9, <2>1, <2>2 DEF SubscriptionEnds, TypeOK, CatchUpKnown
<1>10. ASSUME NEW r \in Relays, Reconnect(r) PROVE TypeOK' /\ CatchUpKnown'
    <2>1. NewFeed(r) \in Feed /\ NewCatchUp(relayHealth[r].generation + 1) \in CatchUp
        BY DEF TypeOK, NewFeed, NewCatchUp, Feed, CatchUp
    <2>2. relayCatchUp[r] \in CatchUp
        BY <1>10 DEF Reconnect, CatchUpKnown, TypeOK
    <2>3. relayCatchUp' \in [Relays -> CatchUp \cup {None}] /\ CatchUpKnown'
        BY <1>10, <2>1 DEF Reconnect, CatchUpKnown, TypeOK
    <2>4. feed' \in [Relays -> Feed]
        BY <1>10, <2>1 DEF Reconnect, TypeOK
    <2>5. retiredCatchUpPending' \subseteq Wraps
        BY <1>10, <2>2 DEF Reconnect, TypeOK, CatchUp
    <2>6. relayHealth' \in [Relays -> [state : {"stopped", "connecting", "healthy", "degraded"},
                                       generation : Nat]]
        BY <1>10 DEF Reconnect, TypeOK
    <2>7. QED BY <1>10, <2>3, <2>4, <2>5, <2>6 DEF Reconnect, TypeOK
<1>11. ASSUME Start PROVE TypeOK' /\ CatchUpKnown'
    <2>1. CASE disk = None
        <3>1. NothingRetained \in Memory
            BY DEF NothingRetained, Memory
        <3>2. disk' \in StateFile
            BY <1>11, <2>1, <3>1 DEF Start, StateFile, TypeOK
        <3>3. QED BY <1>11, <2>1, <3>2 DEF Start, TypeOK, CatchUpKnown
    <2>2. CASE disk # None
        <3>1. disk \in StateFile
            BY <2>2 DEF TypeOK
        <3>2. Seeded(disk) \in Memory
            BY <3>1, SeededType DEF TypeOK
        <3>3. disk' \in StateFile
            BY <1>11, <2>2, <3>1, <3>2 DEF Start, StateFile
        <3>4. disk.caughtUpAt \in Nat /\ disk.recentEventIds \subseteq Wraps
            BY <3>1 DEF StateFile
        <3>5. QED BY <1>11, <2>2, <3>2, <3>3, <3>4 DEF Start, TypeOK, CatchUpKnown
    <2>3. QED BY <2>1, <2>2
<1>12. ASSUME Subscribe PROVE TypeOK' /\ CatchUpKnown'
    <2>1. \A r \in Relays : NewFeed(r) \in Feed
        BY DEF TypeOK, NewFeed, Feed
    <2>2. NewCatchUp(1) \in CatchUp
        BY DEF TypeOK, NewCatchUp, CatchUp
    <2>3. QED BY <1>12, <2>1, <2>2 DEF Subscribe, TypeOK, CatchUpKnown
<1>13. ASSUME Persist PROVE TypeOK' /\ CatchUpKnown'
    <2>1. retained' \in Memory /\ disk' \in StateFile
        BY <1>13, PruneType, CurrentStateType DEF Persist, TypeOK
    <2>2. QED BY <1>13, <2>1 DEF Persist, TypeOK, CatchUpKnown
<1>14. ASSUME Close PROVE TypeOK' /\ CatchUpKnown'
    <2>1. NotSubscribed \in Feed
        BY DEF NotSubscribed, Feed
    <2>2. relayHealth' \in [Relays -> [state : {"stopped", "connecting", "healthy", "degraded"},
                                       generation : Nat]]
        BY <1>14 DEF Close, TypeOK
    <2>3. QED BY <1>14, <2>1, <2>2 DEF Close, TypeOK, CatchUpKnown
<1>15. ASSUME FinishClose PROVE TypeOK' /\ CatchUpKnown'
    <2>1. disk' \in StateFile
        BY <1>15, CurrentStateType DEF FinishClose
    <2>2. [caughtUpAt |-> caughtUpAt, recentEventIds |-> recentEventIds] \in Snapshot
        BY DEF TypeOK, Snapshot
    <2>3. lateWrites' \subseteq Snapshot
        BY <1>15, <2>2 DEF FinishClose, TypeOK
    <2>4. CatchUpKnown'
        BY <1>15 DEF FinishClose, Forget, CatchUpKnown
    <2>5. QED BY <1>15, <2>1, <2>3, <2>4, ForgetType DEF FinishClose
<1>16. ASSUME LateWrite PROVE TypeOK' /\ CatchUpKnown'
    <2>1. NothingRetained \in Memory
        BY DEF NothingRetained, Memory
    <2>2. disk' \in StateFile
        BY <1>16, <2>1 DEF LateWrite, StateFile, TypeOK, Snapshot
    <2>3. QED BY <1>16, <2>2 DEF LateWrite, TypeOK, CatchUpKnown
<1>17. ASSUME Crash PROVE TypeOK' /\ CatchUpKnown'
    <2>1. disk' \in StateFile \cup {None} /\ lateWrites' \subseteq Snapshot
        BY <1>17 DEF Crash, TypeOK
    <2>2. CatchUpKnown'
        BY <1>17 DEF Crash, Forget, CatchUpKnown
    <2>3. QED BY <1>17, <2>1, <2>2, ForgetType DEF Crash
<1>18. CASE UNCHANGED vars
    BY <1>18 DEF vars, TypeOK, CatchUpKnown
<1>19. ASSUME NEW r \in Relays, ClosedBeforeEose(r) PROVE TypeOK' /\ CatchUpKnown'
    BY <1>19, ClosedType
<1>20. QED
    BY <1>1, <1>2, <1>3, <1>4, <1>5, <1>6, <1>7, <1>8, <1>9, <1>10, <1>11, <1>12,
       <1>13, <1>14, <1>15, <1>16, <1>17, <1>18, <1>19 DEF Next

TypeInv == TypeOK /\ CatchUpKnown /\ now >= BACKDATE

\* Every reachable state has the types TypeOK states.
THEOREM TypeCorrect == Spec => []TypeOK
<1>1. Init => TypeInv
    BY InitTypeOK DEF Init, TypeInv, CatchUpKnown
<1>2. TypeInv /\ [Next]_vars => TypeInv'
    BY TypeStep, TimeStep DEF TypeInv, TypeOK
<1>3. TypeInv => TypeOK
    BY DEF TypeInv
<1>4. QED BY <1>1, <1>2, <1>3, PTL DEF Spec
=============================================================================
