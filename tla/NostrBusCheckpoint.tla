------------------------- MODULE NostrBusCheckpoint -------------------------
(***************************************************************************)
(* The checkpoint of NostrBus never moves past a message that is still     *)
(* owed.  CheckpointInv is inductive; each of its parts is proved to       *)
(* survive every step in a lemma of its own, from a summary of what        *)
(* arrivals and finished handlers change.  Then what else holds of the     *)
(* bus: one handler per message, no missed advance, the relays' contract,  *)
(* no repeated dispatch.                                                   *)
(***************************************************************************)
EXTENDS NostrBusProofs

USE BusAssumption, NoneAssumption DEF BusAssumption, NoneAssumption

\* What an update of one field leaves alone.
LEMMA EosedFields ==
    ASSUME NEW f \in Feed
    PROVE  /\ [f EXCEPT !.eosed = TRUE].open = f.open
           /\ [f EXCEPT !.eosed = TRUE].backlog = f.backlog
BY Zenon DEF Feed

LEMMA BacklogFields ==
    ASSUME NEW f \in Feed, NEW S
    PROVE  /\ [f EXCEPT !.backlog = S].open = f.open
           /\ [f EXCEPT !.backlog = S].backlog = S
BY Zenon DEF Feed

LEMMA PendingFields ==
    ASSUME NEW c \in CatchUp, NEW S \in SUBSET Wraps
    PROVE  /\ [c EXCEPT !.pending = S] \in CatchUp
           /\ [c EXCEPT !.pending = S].generation = c.generation
           /\ [c EXCEPT !.pending = S].candidate = c.candidate
           /\ [c EXCEPT !.pending = S].eose = c.eose
           /\ [c EXCEPT !.pending = S].pending = S
BY DEF CatchUp

LEMMA EoseFields ==
    ASSUME NEW c \in CatchUp, NEW b \in BOOLEAN
    PROVE  /\ [c EXCEPT !.eose = b] \in CatchUp
           /\ [c EXCEPT !.eose = b].generation = c.generation
           /\ [c EXCEPT !.eose = b].candidate = c.candidate
           /\ [c EXCEPT !.eose = b].eose = b
           /\ [c EXCEPT !.eose = b].pending = c.pending
BY DEF CatchUp

LEMMA NewCatchUpFields ==
    ASSUME TypeOK, NEW g \in Nat
    PROVE  /\ NewCatchUp(g) \in CatchUp
           /\ NewCatchUp(g) # None
<1>1. now \in Nat
    BY DEF TypeOK
<1>2. NewCatchUp(g) \in CatchUp
    BY <1>1 DEF NewCatchUp, CatchUp
<1>3. QED BY <1>2

LEMMA SinceMonotone ==
    ASSUME NEW a \in Nat, NEW b \in Nat, a =< b
    PROVE  Since(a) =< Since(b) /\ Since(a) \in Nat /\ Since(b) \in Nat
BY DEF Since

LEMMA InvTypes == CheckpointInv => TypeInv
BY DEF CheckpointInv, TypeInv, CatchUpKnown, RelayInv, ClockInv

-----------------------------------------------------------------------------
\* The environment and the history in one step: what is published keeps its time
\* and its relays, nothing that was settled is owed again, and a wrap is published
\* with everything else standing still.
HistoryKept ==
    /\ \A w \in Wraps : Published(w) => Published(w)' /\ created'[w] = created[w]
    /\ settled \subseteq settled' /\ overlooked \subseteq overlooked'
    /\ joined =< joined'
    /\ (joined' = joined \/ (joined' = now /\ phase = "down"))

Environment == storedAt' = storedAt /\ created' = created

LEMMA HistoryStep ==
    ASSUME CheckpointInv, [Next]_vars
    PROVE  /\ HistoryKept
           /\ Environment \/ \E w \in Wraps : Publish(w)
<1> USE DEF envVars, inboxVars, barrierVars, relayVars, fileVars, historyVars, HistoryKept,
            Environment, Published
<1>1. joined \in Nat /\ now \in Nat /\ joined =< now
    BY DEF CheckpointInv, TypeOK, ClockInv
<1>2. ASSUME NEW w \in Wraps, NEW r \in Relays, Arrival(w, r)
      PROVE  Environment /\ joined' = joined /\ settled \subseteq settled' /\ overlooked \subseteq overlooked'
    BY <1>2 DEF Arrival, Arrives, Duplicate, RejectStale, Postpone, RejectJunk,
           AlreadyProcessed, RumorBusy, SkipOwn, LimitSender, Accept, MarkProcessed
<1>3. ASSUME NEW w \in Wraps, Authorized(w) \/ Processed(w) \/ Failed(w)
      PROVE  Environment /\ joined' = joined /\ settled \subseteq settled' /\ overlooked \subseteq overlooked'
    BY <1>3 DEF Authorized, Processed, Failed, LeavesBarrier, MarkProcessed
<1>4. ASSUME NEW r \in Relays,
             \/ Eose(r) \/ EoseTimeout(r) \/ ClosedBeforeEose(r)
             \/ SubscriptionEnds(r) \/ Reconnect(r)
      PROVE  Environment /\ joined' = joined /\ settled \subseteq settled' /\ overlooked \subseteq overlooked'
    BY <1>4 DEF Eose, EoseTimeout, ClosedBeforeEose, SubscriptionEnds, Reconnect
<1>5. ASSUME Tick \/ Subscribe \/ Persist \/ Close \/ FinishClose \/ LateWrite \/ Crash
             \/ UNCHANGED vars
      PROVE  Environment /\ joined' = joined /\ settled \subseteq settled' /\ overlooked \subseteq overlooked'
    BY <1>5 DEF Tick, Subscribe, Persist, Close, FinishClose, LateWrite, Crash, Forget, vars
<1>6. ASSUME Start
      PROVE  /\ Environment /\ settled \subseteq settled' /\ overlooked \subseteq overlooked'
             /\ joined =< joined'
             /\ joined' = joined \/ (joined' = now /\ phase = "down")
    BY <1>1, <1>6 DEF Start
<1>7. ASSUME NEW w \in Wraps, Publish(w)
      PROVE  HistoryKept
    <2>1. \A v \in Wraps : storedAt[v] # {} => v # w
        BY <1>7 DEF Publish
    <2>2. QED BY <1>1, <1>7, <2>1 DEF Publish, CheckpointInv, TypeOK
<1>8. QED BY <1>1, <1>2, <1>3, <1>4, <1>5, <1>6, <1>7 DEF Next

\* A published wrap that is owed after a step was owed before it.
LEMMA OwedStep ==
    ASSUME CheckpointInv, [Next]_vars
    PROVE  \A w \in Wraps : Published(w) /\ Owed(w)' => Owed(w)
<1>1. HistoryKept
    BY HistoryStep
<1>2. joined \in Nat /\ joined' \in Nat /\ \A w \in Wraps : created[w] \in Nat
    BY TypeStep, InvTypes DEF TypeInv, TypeOK
<1>3. Since(joined) =< Since(joined') /\ Since(joined) \in Nat /\ Since(joined') \in Nat
    BY <1>1, <1>2, SinceMonotone DEF HistoryKept
<1>4. QED BY <1>1, <1>2, <1>3 DEF HistoryKept, Owed, Unhandled, Published

\* A checkpoint of the past that was safe stays safe: what is published now is too
\* recent to lie behind it.
LEMMA SafeStep ==
    ASSUME CheckpointInv, [Next]_vars
    PROVE  \A c \in Nat : c =< now /\ SafeFrom(c) =>
              \A w \in Wraps : Owed(w)' => created'[w] >= Since(c)
<1> SUFFICES ASSUME NEW c \in Nat, c =< now, SafeFrom(c), NEW w \in Wraps, Owed(w)'
             PROVE  created'[w] >= Since(c)
    OBVIOUS
<1>1. CASE Published(w)
    <2>1. Owed(w) /\ created'[w] = created[w]
        BY <1>1, OwedStep, HistoryStep DEF HistoryKept
    <2>2. QED BY <2>1 DEF SafeFrom
<1>2. CASE ~Published(w)
    <2>1. PICK v \in Wraps : Publish(v)
        BY <1>2, HistoryStep DEF Owed, Unhandled, Published, Environment
    <2>2. v = w
        BY <1>2, <2>1 DEF Publish, Owed, Unhandled, Published, CheckpointInv, TypeOK
    <2>3. now \in Nat /\ now >= BACKDATE
        BY DEF CheckpointInv, TypeOK, ClockInv
    <2>4. created'[w] \in Int /\ created'[w] >= now - BACKDATE
        BY <2>1, <2>2, <2>3 DEF Publish, CheckpointInv, TypeOK
    <2>5. QED BY <2>3, <2>4 DEF Since
<1>3. QED BY <1>1, <1>2

-----------------------------------------------------------------------------
(***************************************************************************)
(* What an arrival or a finished handler of w may change of the inbox: w   *)
(* itself ends up settled or pursued, nothing else that was pursued is     *)
(* dropped before it is settled, and only what is settled is remembered.   *)
(***************************************************************************)
InboxEffect(w) ==
    /\ Owed(w)' => Pursued(RumorOf[w])'
    /\ \A v \in Wraps \ Junk : InHand(v) => InHand(v)' \/ RumorOf[v] \in settled'
    /\ \A v \in Wraps : InHand(v)' =>
          InHand(v) \/ (/\ v = w /\ Published(w)
                       /\ created[w] >= Since(joined) /\ created[w] >= Since(caughtUpAt))
    /\ \A v \in seen' : v \in seen \/ (v = w /\ ~Owed(w)' /\ Published(w))
    /\ \A v \in recentEventIds' : v \in recentEventIds \/ (v = w /\ IsSettled(w)')
    /\ \A m \in Rumors : retained'[m] # None => retained[m] # None \/ m \in settled'

LEMMA MarkProcessedEffect ==
    ASSUME CheckpointInv, NEW w \in Wraps, MarkProcessed(w), Published(w)'
    PROVE  /\ ~Owed(w)'
           /\ \A v \in seen' : v \in seen \/ v = w
           /\ \A v \in recentEventIds' : v \in recentEventIds \/ (v = w /\ IsSettled(w)')
           /\ \A m \in Rumors : retained'[m] # None => retained[m] # None \/ m \in settled'
           /\ \A v \in retryableEventIds \ retryableEventIds' : RumorOf[v] \in settled'
           /\ retryableEventIds' \subseteq retryableEventIds
<1>1. RumorOf[w] \in settled'
    BY DEF MarkProcessed
<1>2. RumorOf[w] \in Rumors /\ created[w] \in Nat /\ now \in Nat
    BY DEF CheckpointInv, TypeOK
<1>3. /\ Prune(retained, caughtUpAt) \in Memory
      /\ \A m \in Rumors : Prune(retained, caughtUpAt)[m] # None => retained[m] # None
    BY PruneType DEF CheckpointInv, TypeOK
<1> DEFINE kept == Retain(Prune(retained, caughtUpAt), RumorOf[w], created[w])
<1>4. /\ kept \in Memory
      /\ \A m \in Rumors : kept[m] # None =>
            Prune(retained, caughtUpAt)[m] # None \/ m = RumorOf[w]
    BY <1>2, <1>3, RetainType
<1>5. \A m \in Rumors : retained'[m] # None => kept[m] # None
    <2>1. retained' = Prune(kept, caughtUpAt)
        BY DEF MarkProcessed
    <2> HIDE DEF kept
    <2>2. QED BY <1>4, <2>1, PruneType
<1>6. QED BY <1>1, <1>3, <1>4, <1>5 DEF MarkProcessed, Owed, Unhandled, IsSettled

\* An arrival: w leaves the feed of r for good, whatever becomes of it.
LEMMA ArrivalEffect ==
    ASSUME CheckpointInv, NEW w \in Wraps, NEW r \in Relays, Arrival(w, r)
    PROVE  /\ Arrives(w, r)
           /\ InboxEffect(w)
           /\ \E recorded \in BOOLEAN : TryAdvance(recorded)
           /\ \/ UNCHANGED <<operations, relayCatchUp>>
              \/ Accept(w, r)
<1>1. Arrives(w, r)
    BY DEF Arrival, Duplicate, RejectStale, Postpone, RejectJunk, AlreadyProcessed,
           RumorBusy, SkipOwn, LimitSender, Accept
<1>2. /\ r \in storedAt[w] /\ feed[r].open /\ phase = "running"
      /\ UNCHANGED <<now, created, storedAt, joined, overlooked, phase>>
    BY <1>1 DEF Arrives, envVars, historyVars
<1>3. Published(w) /\ Published(w)'
    BY <1>2 DEF Published
<1>4. /\ RumorOf[w] \in Rumors /\ created[w] \in Nat /\ now \in Nat /\ caughtUpAt \in Nat
      /\ joined \in Nat /\ joined =< caughtUpAt
    BY <1>2 DEF CheckpointInv, TypeOK, ClockInv
<1>5. created[w] >= Since(caughtUpAt) => created[w] >= Since(joined)
    BY <1>4, SinceMonotone
<1>6. \A m \in Rumors : Prune(retained, caughtUpAt)[m] # None => retained[m] # None
    BY PruneType DEF CheckpointInv, TypeOK
<1>7. Prune(retained, caughtUpAt) \in Memory
    BY PruneType DEF CheckpointInv, TypeOK
<1>8. CASE Duplicate(w, r)
    <2>1. UNCHANGED <<seen, retained, recentEventIds, retryableEventIds, settled, operations,
                      relayCatchUp>> /\ TryAdvance(FALSE)
        BY <1>8 DEF Duplicate, HandledAtOnce
    <2>2. Owed(w)' = Owed(w)
        BY <1>2, <2>1 DEF Owed, Unhandled
    <2>3. Owed(w) => Pursued(RumorOf[w])
        BY <1>8 DEF Duplicate, CheckpointInv, MemoryInv, OperationInv, Pursued, InHand, Owed, Unhandled
    <2>4. QED BY <1>1, <2>1, <2>2, <2>3 DEF InboxEffect, Pursued, InHand
<1>9. CASE RejectStale(w, r)
    <2>1. /\ UNCHANGED <<retained, recentEventIds, settled, operations, relayCatchUp>>
          /\ TryAdvance(FALSE)
          /\ seen' = seen \cup {w} /\ retryableEventIds' = retryableEventIds \ {w}
          /\ created[w] < Since(caughtUpAt) /\ operations[w] = "idle"
        BY <1>9 DEF RejectStale, HandledAtOnce, IsStale, Unclaimed
    <2>2. ~Owed(w)
        BY <1>4, <2>1, SinceNat DEF CheckpointInv, SnapshotInv, SafeFrom
    <2>3. ~Owed(w)'
        BY <1>2, <2>1, <2>2 DEF Owed, Unhandled
    <2>4. w \notin retryableEventIds
        BY <1>4, <2>1, SinceNat DEF CheckpointInv, OperationInv, InHand
    <2>5. QED BY <1>1, <1>3, <2>1, <2>3, <2>4 DEF InboxEffect, InHand
<1>10. CASE Postpone(w, r) \/ LimitSender(w, r)
    <2>1. /\ UNCHANGED <<seen, recentEventIds, settled, operations, relayCatchUp>>
          /\ TryAdvance(FALSE)
          /\ retained' \in {retained, Prune(retained, caughtUpAt)}
          /\ retryableEventIds' = retryableEventIds \cup {w}
          /\ ~IsStale(w)
        BY <1>10 DEF Postpone, LimitSender, Claims, Readable, HandledAtOnce
    <2>2. InHand(w)' /\ \A v \in Wraps : InHand(v)' => InHand(v) \/ v = w
        BY <2>1 DEF InHand
    <2>3. created[w] >= Since(joined) /\ created[w] >= Since(caughtUpAt)
        BY <1>4, <1>5, <2>1, SinceNat DEF IsStale
    <2>4. QED BY <1>1, <1>3, <1>6, <2>1, <2>2, <2>3 DEF InboxEffect, InHand, Pursued, Owed, Unhandled
<1>11. CASE RejectJunk(w, r)
    <2>1. /\ UNCHANGED <<retained, settled, operations, relayCatchUp>>
          /\ \E recorded \in BOOLEAN : TryAdvance(recorded)
          /\ seen' = seen \cup {w} /\ retryableEventIds' = retryableEventIds \ {w}
          /\ recentEventIds' \in {recentEventIds, recentEventIds \cup {w}}
          /\ w \in Junk
        BY <1>11 DEF RejectJunk, HandledAtOnce
    <2>2. QED BY <1>1, <1>3, <2>1 DEF InboxEffect, InHand, IsSettled, Owed, Unhandled
<1>12. CASE AlreadyProcessed(w, r)
    <2>1. /\ UNCHANGED <<settled, operations, relayCatchUp>>
          /\ TryAdvance(TRUE)
          /\ seen' = seen \cup {w} /\ retryableEventIds' = retryableEventIds \ {w}
          /\ recentEventIds' = recentEventIds \cup {w}
          /\ retained' = Retain(Prune(retained, caughtUpAt), RumorOf[w], created[w])
        BY <1>12 DEF AlreadyProcessed, HandledAtOnce
    <2>2. RumorOf[w] \in settled'
        BY <1>4, <1>6, <1>12, <2>1 DEF AlreadyProcessed, Knows, CheckpointInv, MemoryInv
    <2>3. \A m \in Rumors : retained'[m] # None => retained[m] # None \/ m = RumorOf[w]
        BY <1>4, <1>6, <1>7, <2>1, RetainType
    <2>4. QED BY <1>1, <1>3, <2>1, <2>2, <2>3 DEF InboxEffect, InHand, IsSettled, Owed, Unhandled
<1>13. CASE RumorBusy(w, r)
    <2>1. /\ UNCHANGED <<seen, recentEventIds, retryableEventIds, settled, operations, relayCatchUp>>
          /\ TryAdvance(FALSE)
          /\ retained' = Prune(retained, caughtUpAt)
          /\ RumorInFlight(RumorOf[w])
        BY <1>13 DEF RumorBusy, HandledAtOnce
    <2>2. Pursued(RumorOf[w])'
        BY <2>1 DEF RumorInFlight, Pursued, InHand, CheckpointInv, OperationInv
    <2>3. QED BY <1>1, <1>6, <2>1, <2>2 DEF InboxEffect, InHand
<1>14. CASE SkipOwn(w, r)
    <2>1. /\ UNCHANGED <<operations, relayCatchUp>>
          /\ TryAdvance(TRUE)
          /\ MarkProcessed(w)
        BY <1>14 DEF SkipOwn, HandledAtOnce
    <2>2. QED BY <1>1, <1>3, <2>1, MarkProcessedEffect DEF InboxEffect, InHand
<1>15. CASE Accept(w, r)
    <2>1. /\ UNCHANGED <<seen, recentEventIds, retryableEventIds, settled>>
          /\ TryAdvance(FALSE)
          /\ retained' = Prune(retained, caughtUpAt)
          /\ operations' = [operations EXCEPT ![w] = "authorizing"]
          /\ w \notin Junk /\ ~IsStale(w)
        BY <1>15 DEF Accept, Claims, Readable
    <2>2. /\ \A v \in Wraps : InHand(v)' => InHand(v) \/ v = w
          /\ \A v \in Wraps : InHand(v) => InHand(v)'
          /\ InHand(w)'
        BY <2>1 DEF InHand, CheckpointInv, TypeOK
    <2>3. created[w] >= Since(joined) /\ created[w] >= Since(caughtUpAt)
        BY <1>4, <1>5, <2>1, SinceNat DEF IsStale
    <2>4. QED BY <1>1, <1>3, <1>6, <1>15, <2>1, <2>2, <2>3 DEF InboxEffect, Pursued, Owed, Unhandled
<1>16. QED
    BY <1>8, <1>9, <1>10, <1>11, <1>12, <1>13, <1>14, <1>15 DEF Arrival

\* A handler ends, one way or the other.
LEMMA OutcomeEffect ==
    ASSUME CheckpointInv, NEW w \in Wraps, Processed(w) \/ Failed(w)
    PROVE  /\ InboxEffect(w)
           /\ LeavesBarrier(w)
           /\ \E recorded \in BOOLEAN : TryAdvance(recorded)
<1>1. LeavesBarrier(w) /\ operations[w] # "idle" /\ \E recorded \in BOOLEAN : TryAdvance(recorded)
    BY DEF Processed, Failed
<1>2. /\ operations' = [operations EXCEPT ![w] = "idle"]
      /\ UNCHANGED <<created, storedAt, joined>>
    BY <1>1 DEF LeavesBarrier, envVars, historyVars
<1>3. Published(w) /\ created[w] >= Since(joined) /\ w \notin Junk /\ Published(w)'
    BY <1>1, <1>2 DEF CheckpointInv, OperationInv, InHand, Published
<1>4. \A v \in Wraps : v # w => operations'[v] = operations[v]
    BY <1>2 DEF CheckpointInv, TypeOK
<1>5. CASE Processed(w)
    <2>1. MarkProcessed(w) /\ RumorOf[w] \in settled'
        BY <1>5 DEF Processed, MarkProcessed
    <2>2. \A v \in Wraps : InHand(v)' => InHand(v)
        BY <1>1, <1>4, <2>1 DEF InHand, MarkProcessed
    <2>3. \A v \in Wraps : InHand(v) => InHand(v)' \/ RumorOf[v] \in settled'
        BY <1>1, <1>4, <2>1 DEF InHand, MarkProcessed
    <2>4. QED BY <1>1, <1>3, <2>1, <2>2, <2>3, MarkProcessedEffect DEF InboxEffect
<1>6. CASE Failed(w)
    <2>1. /\ retryableEventIds' = retryableEventIds \cup {w}
          /\ UNCHANGED <<seen, retained, recentEventIds, settled>>
        BY <1>6 DEF Failed
    <2>2. InHand(w)' /\ InHand(w) /\ \A v \in Wraps : v # w => InHand(v)' = InHand(v)
        BY <1>1, <1>4, <2>1 DEF InHand
    <2>3. QED BY <1>1, <1>3, <2>1, <2>2 DEF InboxEffect, Pursued, Owed, Unhandled
<1>7. QED BY <1>5, <1>6

-----------------------------------------------------------------------------
\* Checkpoints and candidates stay times of the past.
LEMMA AdvanceClock ==
    ASSUME CheckpointInv, TypeOK', NEW recorded \in BOOLEAN, TryAdvance(recorded),
           \A r \in Relays : relayCatchUp'[r] # None => relayCatchUp'[r].candidate =< now,
           phase' = phase
    PROVE  caughtUpAt' =< now /\ caughtUpAt' >= caughtUpAt
<1>1. caughtUpAt \in Nat /\ caughtUpAt' \in Nat /\ caughtUpAt =< now /\ now \in Nat
    BY DEF CheckpointInv, TypeOK, ClockInv
<1>2. CASE CanAdvance'
    <2>1. PICK r \in Relays : caughtUpAt' = Larger(caughtUpAt, relayCatchUp[r].candidate')
        BY <1>2 DEF TryAdvance
    <2>2. relayCatchUp'[r] # None /\ relayCatchUp'[r] \in CatchUp
        BY <1>2 DEF CanAdvance, NothingToRetry, Certified, TypeOK
    <2>3. relayCatchUp'[r].candidate \in Nat /\ relayCatchUp'[r].candidate =< now
        BY <2>2 DEF CatchUp
    <2>4. QED BY <1>1, <2>1, <2>3 DEF Larger
<1>3. CASE ~CanAdvance'
    BY <1>1, <1>3 DEF TryAdvance
<1>4. QED BY <1>2, <1>3

\* An EOSE, or a close taken for it, completes the catch-up record of the current
\* generation.
LEMMA EoseEffect ==
    ASSUME TypeOK, NEW r \in Relays, relayCatchUp[r] # None,
           Eose(r) \/ ClosedBeforeEose(r)
    PROVE  /\ relayCatchUp'[r] \in CatchUp /\ relayCatchUp'[r] # None
           /\ relayCatchUp'[r].generation = relayCatchUp[r].generation
           /\ relayCatchUp'[r].candidate = relayCatchUp[r].candidate
           /\ relayCatchUp'[r].pending = relayCatchUp[r].pending
           /\ \A q \in Relays : q # r => relayCatchUp'[q] = relayCatchUp[q]
<1>1. relayCatchUp[r] \in CatchUp
    BY DEF TypeOK
<1>2. PICK b \in BOOLEAN : relayCatchUp' = [relayCatchUp EXCEPT ![r].eose = b]
    <2>1. relayCatchUp[r].eose \in BOOLEAN
        BY <1>1 DEF CatchUp
    <2>2. (relayCatchUp[r].eose \/ relayCatchUp[r].generation = relayHealth[r].generation) \in BOOLEAN
        BY <2>1
    <2>3. QED BY <2>2 DEF Eose, ClosedBeforeEose
<1>3. relayCatchUp'[r] = [relayCatchUp[r] EXCEPT !.eose = b]
    BY <1>2 DEF TypeOK
<1>4. \A q \in Relays : q # r => relayCatchUp'[q] = relayCatchUp[q]
    BY <1>2 DEF TypeOK
<1>5. QED BY <1>1, <1>3, <1>4, EoseFields

\* What a close taken for EOSE makes of the checkpoint: the least candidate, if the
\* other relays are certified and nothing is to be retried.
LEMMA CloseAdvance ==
    ASSUME CheckpointInv, TypeOK', NEW r \in Relays, ClosedBeforeEose(r)
    PROVE  /\ caughtUpAt' =< now /\ caughtUpAt' >= caughtUpAt
           /\ \/ caughtUpAt' = caughtUpAt
              \/ /\ CloseCertifies(r)
                 /\ \E p \in Relays :
                       /\ \A q \in Relays : relayCatchUp[p].candidate =< relayCatchUp[q].candidate
                       /\ caughtUpAt' = Larger(caughtUpAt, relayCatchUp[p].candidate)
<1>1. caughtUpAt \in Nat /\ caughtUpAt' \in Nat /\ caughtUpAt =< now /\ now \in Nat
    BY DEF CheckpointInv, TypeOK, ClockInv
<1>2. \A q \in Relays : relayCatchUp[q] \in CatchUp /\ relayCatchUp[q].candidate =< now
    BY DEF ClosedBeforeEose, CheckpointInv, RelayInv, TypeOK, ClockInv
<1>3. CASE CloseCertifies(r)
    <2>1. PICK p \in Relays :
             /\ \A q \in Relays : relayCatchUp[p].candidate =< relayCatchUp[q].candidate
             /\ caughtUpAt' = Larger(caughtUpAt, relayCatchUp[p].candidate)
        BY <1>3 DEF ClosedBeforeEose
    <2>2. relayCatchUp[p].candidate \in Nat /\ relayCatchUp[p].candidate =< now
        BY <1>2 DEF CatchUp
    <2>3. caughtUpAt' =< now /\ caughtUpAt' >= caughtUpAt
        BY <1>1, <2>1, <2>2 DEF Larger
    <2>4. QED BY <1>3, <2>1, <2>3
<1>4. CASE ~CloseCertifies(r)
    BY <1>1, <1>4 DEF ClosedBeforeEose
<1>5. QED BY <1>3, <1>4

LEMMA ClockStep == CheckpointInv /\ TypeOK' /\ [Next]_vars => ClockInv'
<1> SUFFICES ASSUME CheckpointInv, TypeOK', [Next]_vars
             PROVE  ClockInv'
    OBVIOUS
<1> USE DEF envVars, inboxVars, barrierVars, relayVars, fileVars, historyVars
<1>1. TypeOK /\ ClockInv /\ RelayInv
    BY DEF CheckpointInv
<1>2. /\ now \in Nat /\ joined \in Nat /\ caughtUpAt \in Nat /\ caughtUpAt' \in Nat
      /\ \A r \in Relays : relayCatchUp[r] # None => relayCatchUp[r].candidate \in Nat
      /\ disk # None => disk.caughtUpAt \in Nat
      /\ \A s \in lateWrites : s.caughtUpAt \in Nat
    BY <1>1 DEF TypeOK, CatchUp, StateFile, Snapshot
<1>3. ASSUME NEW w \in Wraps, NEW r \in Relays, Arrival(w, r)
      PROVE  ClockInv'
    <2>1. UNCHANGED <<now, joined, phase, disk, lateWrites>>
        BY <1>3, ArrivalEffect DEF Arrives
    <2>2. \A q \in Relays : relayCatchUp'[q] # None => relayCatchUp'[q].candidate =< now
        <3>1. CASE UNCHANGED <<operations, relayCatchUp>>
            BY <1>1, <3>1 DEF ClockInv
        <3>2. CASE Accept(w, r)
            <4>1. relayCatchUp[r] # None /\ relayCatchUp[r] \in CatchUp
                BY <1>1, <3>2 DEF Accept, Arrives, RelayInv, TypeOK
            <4>2. relayCatchUp'[r].candidate = relayCatchUp[r].candidate
                BY <1>1, <3>2, <4>1 DEF Accept, TypeOK, CatchUp
            <4>3. \A q \in Relays : q # r => relayCatchUp'[q] = relayCatchUp[q]
                BY <1>1, <3>2 DEF Accept, TypeOK
            <4>4. QED BY <1>1, <4>1, <4>2, <4>3 DEF ClockInv
        <3>3. QED BY <1>3, <3>1, <3>2, ArrivalEffect
    <2>3. caughtUpAt' =< now /\ caughtUpAt' >= caughtUpAt
        BY <1>3, <2>1, <2>2, ArrivalEffect, AdvanceClock
    <2>4. QED BY <1>1, <1>2, <2>1, <2>2, <2>3 DEF ClockInv
<1>4. ASSUME NEW w \in Wraps, Processed(w) \/ Failed(w)
      PROVE  ClockInv'
    <2>1. UNCHANGED <<now, joined, phase, disk, lateWrites>>
        BY <1>4, OutcomeEffect DEF LeavesBarrier
    <2>2. \A q \in Relays : relayCatchUp'[q] # None => relayCatchUp'[q].candidate =< now
        BY <1>1, <1>4, InvTypes, OutcomeEffect, LeavesBarrierType DEF ClockInv, TypeInv
    <2>3. caughtUpAt' =< now /\ caughtUpAt' >= caughtUpAt
        BY <1>4, <2>1, <2>2, OutcomeEffect, AdvanceClock
    <2>4. QED BY <1>1, <1>2, <2>1, <2>2, <2>3 DEF ClockInv
<1>5. ASSUME NEW r \in Relays, Eose(r)
      PROVE  ClockInv'
    <2>1. UNCHANGED <<now, joined, phase, disk, lateWrites>>
        BY <1>5 DEF Eose
    <2>2. relayCatchUp[r] \in CatchUp
        BY <1>1, <1>5 DEF Eose, RelayInv, TypeOK
    <2>3. \A q \in Relays : relayCatchUp'[q] # None => relayCatchUp'[q].candidate =< now
        <3>1. relayCatchUp'[r].candidate = relayCatchUp[r].candidate
            BY <1>1, <1>5, <2>2 DEF Eose, TypeOK, CatchUp
        <3>2. \A q \in Relays : q # r => relayCatchUp'[q] = relayCatchUp[q]
            BY <1>1, <1>5 DEF Eose, TypeOK
        <3>3. QED BY <1>1, <2>2, <3>1, <3>2 DEF ClockInv
    <2>4. caughtUpAt' =< now /\ caughtUpAt' >= caughtUpAt
        BY <1>5, <2>1, <2>3, AdvanceClock DEF Eose
    <2>5. QED BY <1>1, <1>2, <2>1, <2>3, <2>4 DEF ClockInv
<1>6. ASSUME NEW r \in Relays, Reconnect(r)
      PROVE  ClockInv'
    <2>1. \A q \in Relays : relayCatchUp'[q] # None => relayCatchUp'[q].candidate =< now
        BY <1>1, <1>2, <1>6 DEF Reconnect, ClockInv, NewCatchUp, TypeOK
    <2>2. QED BY <1>1, <1>6, <2>1 DEF Reconnect, ClockInv
<1>7. CASE Start
    <2>1. CASE disk = None
        <3>1. disk' # None
            BY <1>7, <2>1 DEF Start, TypeOK, StateFile, NothingRetained, Memory
        <3>2. QED BY <1>1, <1>2, <1>7, <2>1, <3>1 DEF Start, ClockInv
    <2>2. CASE disk # None
        <3>1. disk \in StateFile
            BY <1>1, <2>2 DEF TypeOK
        <3>2. Seeded(disk) \in Memory
            BY <1>2, <3>1, SeededType
        <3>3. disk' \in StateFile /\ disk'.caughtUpAt = disk.caughtUpAt
            BY <1>7, <2>2, <3>1, <3>2 DEF Start, StateFile
        <3>4. QED BY <1>1, <1>2, <1>7, <2>2, <3>3 DEF Start, ClockInv
    <2>3. QED BY <2>1, <2>2
<1>8. CASE Subscribe
    <2>1. \A q \in Relays : relayCatchUp'[q].candidate =< now
        BY <1>2, <1>8 DEF Subscribe, NewCatchUp
    <2>2. QED BY <1>1, <1>8, <2>1 DEF Subscribe, ClockInv
<1>9. CASE Persist
    <2>1. disk' # None /\ disk'.caughtUpAt = caughtUpAt
        BY <1>1, <1>9, CurrentStateType DEF Persist, CurrentState
    <2>2. QED BY <1>1, <1>9, <2>1 DEF Persist, ClockInv
<1>10. CASE FinishClose
    <2>1. disk' # None /\ disk'.caughtUpAt = caughtUpAt
        BY <1>1, <1>10, CurrentStateType DEF FinishClose, CurrentState
    <2>2. \A s \in lateWrites' : s \in lateWrites \/ s.caughtUpAt = caughtUpAt
        BY <1>10 DEF FinishClose
    <2>3. QED BY <1>1, <1>2, <1>10, <2>1, <2>2 DEF FinishClose, Forget, ClockInv
<1>11. CASE LateWrite
    <2>1. PICK s \in lateWrites : disk'.caughtUpAt = s.caughtUpAt /\ lateWrites' = lateWrites \ {s}
        BY <1>11 DEF LateWrite
    <2>2. disk # None
        BY <1>1, <2>1 DEF ClockInv
    <2>3. disk' # None
        <3>1. disk' \in StateFile
            BY <1>1, <1>11 DEF LateWrite, TypeOK, StateFile, Snapshot, NothingRetained, Memory
        <3>2. QED BY <3>1
    <2>4. QED BY <1>1, <1>2, <1>11, <2>1, <2>3 DEF LateWrite, ClockInv
<1>12. CASE Crash
    BY <1>1, <1>2, <1>12 DEF Crash, Forget, ClockInv
<1>13. CASE \/ Tick \/ Close \/ UNCHANGED vars
            \/ \E w \in Wraps : Publish(w) \/ Authorized(w)
            \/ \E r \in Relays : EoseTimeout(r) \/ SubscriptionEnds(r)
    <2>1. /\ now' = now \/ now' = now + 1
          /\ UNCHANGED <<joined, caughtUpAt, disk, lateWrites, relayCatchUp>>
          /\ phase' # "down" => phase # "down"
          /\ phase' = phase \/ phase = "running"
        BY <1>13 DEF Tick, Close, vars, Publish, Authorized, EoseTimeout, SubscriptionEnds
    <2>2. QED BY <1>1, <1>2, <2>1 DEF ClockInv
<1>14. ASSUME NEW r \in Relays, ClosedBeforeEose(r)
       PROVE  ClockInv'
    <2>1. UNCHANGED <<now, joined, phase, disk, lateWrites>> /\ phase = "running"
        BY <1>14 DEF ClosedBeforeEose
    <2>2. \A q \in Relays : relayCatchUp'[q].candidate = relayCatchUp[q].candidate
                             /\ relayCatchUp[q] # None
        BY <1>1, <1>14, <2>1, EoseEffect DEF RelayInv
    <2>3. QED BY <1>1, <1>2, <1>14, <2>1, <2>2, CloseAdvance DEF ClockInv
<1>15. QED
    BY <1>3, <1>4, <1>5, <1>6, <1>7, <1>8, <1>9, <1>10, <1>11, <1>12, <1>13, <1>14 DEF Next

-----------------------------------------------------------------------------
\* What is remembered stays settled, and only settled things come to be remembered.
LEMMA SettledStep ==
    ASSUME CheckpointInv, [Next]_vars
    PROVE  /\ \A w \in Wraps : IsSettled(w) => IsSettled(w)'
           /\ \A w \in Wraps : Published(w) /\ ~Owed(w) => Published(w)' /\ ~Owed(w)'
           /\ \A w \in Wraps : IsSettled(w) => ~Owed(w)
<1>1. HistoryKept
    BY HistoryStep
<1>2. QED BY <1>1, OwedStep DEF HistoryKept, IsSettled, Owed, Unhandled, Published

LEMMA MemoryStep == CheckpointInv /\ TypeOK' /\ [Next]_vars => MemoryInv'
<1> SUFFICES ASSUME CheckpointInv, TypeOK', [Next]_vars
             PROVE  MemoryInv'
    OBVIOUS
<1> USE DEF envVars, inboxVars, barrierVars, relayVars, fileVars, historyVars
<1>1. TypeOK /\ MemoryInv
    BY DEF CheckpointInv
<1>2. /\ seen \subseteq Wraps /\ recentEventIds \subseteq Wraps
      /\ disk # None => disk \in StateFile /\ disk.recentEventIds \subseteq Wraps
      /\ \A s \in lateWrites : s.recentEventIds \subseteq Wraps
      /\ settled \subseteq settled'
    BY <1>1, HistoryStep DEF TypeOK, StateFile, Snapshot, HistoryKept
<1>3. ASSUME disk' = disk, lateWrites' = lateWrites
      PROVE  /\ disk' # None =>
                  /\ \A w \in disk'.recentEventIds : IsSettled(w)'
                  /\ \A m \in Rumors : disk'.processedRumorIds[m] # None => m \in settled'
             /\ \A s \in lateWrites' : \A w \in s.recentEventIds : IsSettled(w)'
    BY <1>1, <1>2, <1>3, SettledStep DEF MemoryInv
<1>4. ASSUME NEW w \in Wraps, InboxEffect(w), disk' = disk, lateWrites' = lateWrites
      PROVE  MemoryInv'
    <2>1. \A v \in seen' : Published(v)' /\ ~Owed(v)'
        BY <1>1, <1>2, <1>4, SettledStep, HistoryStep DEF MemoryInv, InboxEffect, HistoryKept
    <2>2. \A v \in recentEventIds' : IsSettled(v)'
        BY <1>1, <1>2, <1>4, SettledStep DEF MemoryInv, InboxEffect
    <2>3. \A m \in Rumors : retained'[m] # None => m \in settled'
        BY <1>1, <1>2, <1>4 DEF MemoryInv, InboxEffect
    <2>4. QED BY <1>3, <1>4, <2>1, <2>2, <2>3 DEF MemoryInv
<1>5. ASSUME NEW w \in Wraps, NEW r \in Relays, Arrival(w, r)
      PROVE  MemoryInv'
    BY <1>4, <1>5, ArrivalEffect DEF Arrives
<1>6. ASSUME NEW w \in Wraps, Processed(w) \/ Failed(w)
      PROVE  MemoryInv'
    BY <1>4, <1>6, OutcomeEffect DEF LeavesBarrier
<1>7. CASE UNCHANGED <<seen, recentEventIds, retained, disk, lateWrites>>
    BY <1>1, <1>2, <1>3, <1>7, SettledStep DEF MemoryInv
<1>8. /\ CurrentState \in StateFile
      /\ CurrentState.recentEventIds = recentEventIds
      /\ \A m \in Rumors : CurrentState.processedRumorIds[m] # None => retained[m] # None
    BY <1>1, CurrentStateType, PruneType DEF CurrentState, TypeOK
<1>9. CASE Start
    <2>1. CASE disk = None
        <3>1. /\ disk'.recentEventIds = {} /\ disk'.processedRumorIds = NothingRetained
              /\ UNCHANGED <<seen, recentEventIds, retained, lateWrites>>
            BY <1>9, <2>1 DEF Start
        <3>2. \A s \in lateWrites' : \A w \in s.recentEventIds : IsSettled(w)'
            BY <1>1, <1>2, <3>1, SettledStep DEF MemoryInv
        <3>3. QED BY <1>1, <1>2, <3>1, <3>2, SettledStep DEF MemoryInv, NothingRetained
    <2>2. CASE disk # None
        <3>1. /\ seen' = disk.recentEventIds /\ recentEventIds' = disk.recentEventIds
              /\ retained' = Seeded(disk) /\ lateWrites' = lateWrites
              /\ disk' = [disk EXCEPT !.processedRumorIds = Seeded(disk)]
            BY <1>9, <2>2 DEF Start
        <3>2. disk'.recentEventIds = disk.recentEventIds /\ disk'.processedRumorIds = Seeded(disk)
            BY <1>2, <2>2, <3>1 DEF StateFile
        <3>3. \A w \in disk.recentEventIds : IsSettled(w) /\ IsSettled(w)' /\ Published(w)' /\ ~Owed(w)'
            BY <1>1, <1>2, <2>2, SettledStep DEF MemoryInv, IsSettled
        <3>4. \A m \in RecentRumorIds(disk.recentEventIds) : m \in settled'
            BY <1>2, <2>2, <3>3 DEF RecentRumorIds, IsSettled
        <3>5. \A m \in Rumors : Seeded(disk)[m] # None => m \in settled'
            BY <1>1, <1>2, <2>2, <3>4, SeededType DEF MemoryInv, TypeOK
        <3>6. \A s \in lateWrites' : \A w \in s.recentEventIds : IsSettled(w)'
            BY <1>1, <1>2, <3>1, SettledStep DEF MemoryInv
        <3>7. QED BY <3>1, <3>2, <3>3, <3>5, <3>6 DEF MemoryInv
    <2>3. QED BY <2>1, <2>2
<1>10. CASE Persist
    <2>1. /\ disk' = CurrentState /\ retained' = Prune(retained, caughtUpAt)
          /\ UNCHANGED <<seen, recentEventIds, lateWrites>>
        BY <1>10 DEF Persist
    <2>2. \A m \in Rumors : retained'[m] # None => retained[m] # None
        BY <1>1, <2>1, PruneType DEF TypeOK
    <2>3. QED BY <1>1, <1>2, <1>8, <2>1, <2>2, SettledStep DEF MemoryInv
<1>11. CASE FinishClose
    <2>1. /\ disk' = CurrentState /\ seen' = {} /\ recentEventIds' = {}
          /\ retained' = NothingRetained
        BY <1>11 DEF FinishClose, Forget
    <2>2. \A s \in lateWrites' : s \in lateWrites \/ s.recentEventIds = recentEventIds
        BY <1>11 DEF FinishClose
    <2>3. QED BY <1>1, <1>2, <1>8, <2>1, <2>2, SettledStep DEF MemoryInv, NothingRetained
<1>12. CASE LateWrite
    <2>1. PICK s \in lateWrites :
             /\ lateWrites' = lateWrites \ {s}
             /\ disk'.recentEventIds = s.recentEventIds
             /\ disk'.processedRumorIds = NothingRetained
             /\ UNCHANGED <<seen, recentEventIds, retained>>
        BY <1>12 DEF LateWrite
    <2>2. QED BY <1>1, <1>2, <2>1, SettledStep DEF MemoryInv, NothingRetained
<1>13. CASE Crash
    <2>1. /\ seen' = {} /\ recentEventIds' = {} /\ retained' = NothingRetained
          /\ disk' = disk /\ lateWrites' = {}
        BY <1>13 DEF Crash, Forget
    <2>2. QED BY <1>1, <1>2, <2>1, SettledStep DEF MemoryInv, NothingRetained
<1>14. QED
    <2>1. ASSUME \/ Tick \/ Subscribe \/ Close \/ UNCHANGED vars
                 \/ \E w \in Wraps : Publish(w) \/ Authorized(w)
                 \/ \E r \in Relays : \/ Eose(r) \/ EoseTimeout(r) \/ ClosedBeforeEose(r)
                                       \/ SubscriptionEnds(r) \/ Reconnect(r)
          PROVE  UNCHANGED <<seen, recentEventIds, retained, disk, lateWrites>>
        BY <2>1 DEF Tick, Subscribe, Close, vars, Publish, Authorized, Eose, EoseTimeout,
               ClosedBeforeEose, SubscriptionEnds, Reconnect
    <2>2. QED BY <1>5, <1>6, <1>7, <1>9, <1>10, <1>11, <1>12, <1>13, <2>1 DEF Next

-----------------------------------------------------------------------------
\* Where the checkpoint moves, nothing is in hand.
LEMMA NothingInHand ==
    ASSUME NEW v \in Wraps, NothingToRetry, \A r \in Relays : relayCatchUp[r].pending = {},
           operations[v] # "idle" => InBarrier(v)
    PROVE  ~InHand(v)
BY DEF NothingToRetry, InBarrier, InHand

LEMMA AdvanceClears ==
    ASSUME NEW recorded \in BOOLEAN, TryAdvance(recorded),
           \A v \in Wraps : operations'[v] # "idle" => InBarrier(v)'
    PROVE  caughtUpAt' = caughtUpAt \/ \A v \in Wraps : ~InHand(v)'
<1>1. CASE CanAdvance'
    BY <1>1 DEF CanAdvance, NothingToRetry, Certified, InBarrier, InHand
<1>2. CASE ~CanAdvance'
    BY <1>2 DEF TryAdvance
<1>3. QED BY <1>1, <1>2

\* Operations stay in the barrier, and what is in hand was published after joining
\* and is not behind the checkpoint.
LEMMA OperationStep == CheckpointInv /\ TypeOK' /\ [Next]_vars => OperationInv'
<1> SUFFICES ASSUME CheckpointInv, TypeOK', [Next]_vars
             PROVE  OperationInv'
    OBVIOUS
<1> USE DEF envVars, inboxVars, barrierVars, relayVars, fileVars, historyVars
<1>1. TypeOK /\ OperationInv /\ RelayInv /\ HistoryKept
    BY HistoryStep DEF CheckpointInv
<1>2. \A w \in Wraps : Published(w) => Published(w)' /\ created'[w] = created[w]
    BY <1>1 DEF HistoryKept
<1>3. ASSUME NEW w \in Wraps, NEW r \in Relays, Arrival(w, r)
      PROVE  OperationInv'
    <2>1. /\ phase' = phase /\ phase = "running" /\ joined' = joined
          /\ retiredCatchUpPending' = retiredCatchUpPending /\ InboxEffect(w)
        BY <1>3, ArrivalEffect DEF Arrives
    <2>2. \A v \in Wraps : InHand(v)' => /\ Published(v)' /\ created'[v] >= Since(joined')
                                        /\ created'[v] >= Since(caughtUpAt)
        BY <1>1, <1>2, <2>1 DEF OperationInv, InboxEffect
    <2>3. \A v \in Wraps : operations'[v] # "idle" => InBarrier(v)' /\ v \notin Junk
        <3>1. CASE UNCHANGED <<operations, relayCatchUp>>
            BY <1>1, <2>1, <3>1 DEF OperationInv, InBarrier
        <3>2. CASE Accept(w, r)
            <4>1. relayCatchUp[r] \in CatchUp /\ relayCatchUp[r].generation = relayHealth[r].generation
                BY <1>1, <2>1 DEF RelayInv, TypeOK
            <4>2. /\ relayCatchUp'[r] # None /\ relayCatchUp'[r].pending = relayCatchUp[r].pending \cup {w}
                  /\ \A q \in Relays : q # r => relayCatchUp'[q] = relayCatchUp[q]
                <5>1. relayCatchUp' = [relayCatchUp EXCEPT ![r].pending = @ \cup {w}]
                    BY <3>2, <4>1 DEF Accept
                <5>2. relayCatchUp'[r] = [relayCatchUp[r] EXCEPT !.pending = @ \cup {w}]
                    BY <1>1, <5>1 DEF TypeOK
                <5>3. relayCatchUp'[r] \in CatchUp
                    BY <4>1, <5>2 DEF CatchUp
                <5>4. QED BY <1>1, <4>1, <5>1, <5>2, <5>3 DEF TypeOK, CatchUp
            <4>3. operations' = [operations EXCEPT ![w] = "authorizing"] /\ w \notin Junk
                BY <3>2 DEF Accept, Claims
            <4>4. InBarrier(w)'
                BY <4>2 DEF InBarrier
            <4>5. \A v \in Wraps : InBarrier(v) => InBarrier(v)'
                BY <2>1, <4>2 DEF InBarrier
            <4>6. \A v \in Wraps : v # w => operations'[v] = operations[v]
                BY <1>1, <4>3 DEF TypeOK
            <4>7. QED BY <1>1, <4>3, <4>4, <4>5, <4>6 DEF OperationInv
        <3>3. QED BY <1>3, <3>1, <3>2, ArrivalEffect
    <2>4. caughtUpAt' = caughtUpAt \/ \A v \in Wraps : ~InHand(v)'
        BY <1>3, <2>3, ArrivalEffect, AdvanceClears
    <2>5. QED BY <2>1, <2>2, <2>3, <2>4 DEF OperationInv
<1>4. ASSUME NEW w \in Wraps, Processed(w) \/ Failed(w)
      PROVE  OperationInv'
    <2>1. /\ UNCHANGED <<phase, joined>> /\ InboxEffect(w) /\ LeavesBarrier(w)
          /\ retiredCatchUpPending' = retiredCatchUpPending \ {w}
          /\ operations' = [operations EXCEPT ![w] = "idle"]
        BY <1>4, OutcomeEffect DEF LeavesBarrier
    <2>2. operations[w] # "idle"
        BY <1>4 DEF Processed, Failed
    <2>3. \A v \in Wraps : InHand(v)' => /\ Published(v)' /\ created'[v] >= Since(joined')
                                        /\ created'[v] >= Since(caughtUpAt)
        BY <1>1, <1>2, <1>4, <2>1, OutcomeEffect DEF OperationInv, InboxEffect, Processed, Failed
    <2>4. \A v \in Wraps : v # w /\ InBarrier(v) => InBarrier(v)'
        BY <2>1, InvTypes, LeavesBarrierType DEF InBarrier, TypeInv
    <2>5. /\ \A v \in Wraps : v # w => operations'[v] = operations[v]
          /\ operations'[w] = "idle"
        BY <1>1, <2>1 DEF TypeOK
    <2>6. phase \notin {"down", "starting"}
        BY <1>1, <2>2 DEF OperationInv, InHand
    <2>7. \A v \in Wraps : operations'[v] # "idle" => InBarrier(v)' /\ v \notin Junk
        BY <1>1, <2>4, <2>5 DEF OperationInv
    <2>8. caughtUpAt' = caughtUpAt \/ \A v \in Wraps : ~InHand(v)'
        BY <1>4, <2>7, OutcomeEffect, AdvanceClears
    <2>9. QED BY <2>1, <2>3, <2>6, <2>7, <2>8 DEF OperationInv
<1>5. ASSUME NEW r \in Relays, Eose(r) \/ ClosedBeforeEose(r)
      PROVE  OperationInv'
    <2>1. relayCatchUp[r] \in CatchUp
        BY <1>1, <1>5 DEF Eose, ClosedBeforeEose, RelayInv, TypeOK
    <2>2. /\ relayCatchUp'[r] # None /\ relayCatchUp'[r].pending = relayCatchUp[r].pending
          /\ \A q \in Relays : q # r => relayCatchUp'[q] = relayCatchUp[q]
        BY <1>1, <1>5, EoseEffect DEF RelayInv, Eose, ClosedBeforeEose
    <2>3. UNCHANGED <<operations, retryableEventIds, retiredCatchUpPending, phase, joined>>
        BY <1>5 DEF Eose, ClosedBeforeEose
    <2>4. /\ \A v \in Wraps : operations'[v] # "idle" => InBarrier(v)' /\ v \notin Junk
          /\ \A v \in Wraps : InHand(v)' = InHand(v)
        BY <1>1, <2>2, <2>3 DEF OperationInv, InBarrier, InHand
    <2>5. caughtUpAt' = caughtUpAt \/ \A v \in Wraps : ~InHand(v)'
        <3>1. CASE Eose(r)
            BY <2>4, <3>1, AdvanceClears DEF Eose
        <3>2. CASE ClosedBeforeEose(r) /\ CloseCertifies(r)
            <4>1. NothingToRetry /\ \A q \in Relays : relayCatchUp[q].pending = {}
                BY <3>2 DEF CloseCertifies, Certified
            <4>2. \A v \in Wraps : ~InHand(v)
                BY <1>1, <4>1, NothingInHand DEF OperationInv
            <4>3. QED BY <2>4, <4>2
        <3>3. CASE ClosedBeforeEose(r) /\ ~CloseCertifies(r)
            BY <3>3 DEF ClosedBeforeEose
        <3>4. QED BY <1>5, <3>1, <3>2, <3>3
    <2>6. QED BY <1>1, <1>2, <2>3, <2>4, <2>5 DEF OperationInv
<1>6. ASSUME NEW r \in Relays, Reconnect(r)
      PROVE  OperationInv'
    <2>1. /\ UNCHANGED <<operations, retryableEventIds, phase, joined, caughtUpAt>>
          /\ retiredCatchUpPending' = retiredCatchUpPending \cup relayCatchUp[r].pending
          /\ \A q \in Relays : q # r => relayCatchUp'[q] = relayCatchUp[q]
        BY <1>1, <1>6 DEF Reconnect, TypeOK
    <2>2. \A v \in Wraps : InBarrier(v) => InBarrier(v)'
        BY <2>1 DEF InBarrier
    <2>3. QED BY <1>1, <1>2, <2>1, <2>2 DEF OperationInv, InHand
<1>7. CASE FinishClose \/ Crash
    <2>1. operations' = NoOperations /\ retryableEventIds' = {}
        BY <1>7 DEF FinishClose, Crash, Forget
    <2>2. QED BY <2>1 DEF OperationInv, InHand, NoOperations
<1>8. CASE Start \/ Subscribe
    <2>1. /\ phase \in {"down", "starting"}
          /\ UNCHANGED <<operations, retryableEventIds>>
        BY <1>8 DEF Start, Subscribe
    <2>2. \A v \in Wraps : ~InHand(v)'
        BY <1>1, <2>1 DEF OperationInv, InHand
    <2>3. QED BY <2>2 DEF OperationInv, InHand
<1>9. ASSUME NEW w \in Wraps, Authorized(w)
      PROVE  OperationInv'
    <2>1. /\ operations' = [operations EXCEPT ![w] = "handling"] /\ operations[w] # "idle"
          /\ UNCHANGED <<retryableEventIds, retiredCatchUpPending, relayCatchUp, phase, joined,
                        caughtUpAt>>
        BY <1>9 DEF Authorized
    <2>2. \A v \in Wraps : operations'[v] # "idle" <=> operations[v] # "idle"
        BY <1>1, <2>1 DEF TypeOK
    <2>3. QED BY <1>1, <1>2, <2>1, <2>2 DEF OperationInv, InHand, InBarrier
<1>10. CASE \/ Tick \/ Persist \/ Close \/ LateWrite \/ UNCHANGED vars
            \/ \E w \in Wraps : Publish(w)
            \/ \E r \in Relays : EoseTimeout(r) \/ SubscriptionEnds(r)
    <2>1. /\ UNCHANGED <<operations, retryableEventIds, retiredCatchUpPending, relayCatchUp, joined,
                        caughtUpAt>>
          /\ phase' \in {"down", "starting"} => phase' = phase
        BY <1>10 DEF Tick, Persist, Close, LateWrite, vars, Publish, EoseTimeout, SubscriptionEnds
    <2>2. QED BY <1>1, <1>2, <2>1 DEF OperationInv, InHand, InBarrier
<1>11. QED
    BY <1>3, <1>4, <1>5, <1>6, <1>7, <1>8, <1>9, <1>10 DEF Next

\* Records and feeds belong to the current generation of a running bus.
LEMMA RelayStep == CheckpointInv /\ TypeOK' /\ [Next]_vars => RelayInv'
<1> SUFFICES ASSUME CheckpointInv, TypeOK', [Next]_vars
             PROVE  RelayInv'
    OBVIOUS
<1> USE DEF envVars, inboxVars, barrierVars, relayVars, fileVars, historyVars
<1>1. TypeOK /\ RelayInv
    BY DEF CheckpointInv
<1>2. \A r \in Relays : /\ feed[r] \in Feed
                        /\ phase = "running" => relayCatchUp[r] \in CatchUp
    BY <1>1 DEF TypeOK, RelayInv
<1>3. ASSUME NEW w \in Wraps, NEW r \in Relays, Arrival(w, r)
      PROVE  RelayInv'
    <2>1. /\ phase' = phase /\ phase = "running" /\ feed[r].open
          /\ feed' = [feed EXCEPT ![r].backlog = @ \ {w}]
          /\ relayHealth' = [relayHealth EXCEPT ![r].state = "healthy"]
        BY <1>3, ArrivalEffect DEF Arrives
    <2>2. /\ feed'[r].open = feed[r].open /\ feed'[r].backlog = feed[r].backlog \ {w}
          /\ relayHealth'[r].generation = relayHealth[r].generation
          /\ \A q \in Relays : q # r => feed'[q] = feed[q] /\ relayHealth'[q] = relayHealth[q]
        <3>1. feed'[r] = [feed[r] EXCEPT !.backlog = @ \ {w}]
            BY <1>1, <2>1 DEF TypeOK
        <3>2. feed'[r].open = feed[r].open /\ feed'[r].backlog = feed[r].backlog \ {w}
            BY <1>2, <3>1, BacklogFields
        <3>3. QED BY <1>1, <2>1, <3>2 DEF TypeOK
    <2>3. \A q \in Relays : /\ relayCatchUp'[q] # None
                            /\ relayCatchUp'[q].generation = relayCatchUp[q].generation
                            /\ relayCatchUp'[q].eose = relayCatchUp[q].eose
        <3>1. CASE UNCHANGED <<operations, relayCatchUp>>
            BY <1>1, <2>1, <3>1 DEF RelayInv
        <3>2. CASE Accept(w, r)
            <4>1. relayCatchUp' = [relayCatchUp EXCEPT ![r].pending =
                     IF relayCatchUp[r].generation = relayHealth[r].generation
                     THEN @ \cup {w} ELSE @]
                BY <3>2 DEF Accept
            <4>2. PICK S \in SUBSET Wraps : relayCatchUp' = [relayCatchUp EXCEPT ![r].pending = S]
                <5>1. relayCatchUp[r].pending \in SUBSET Wraps
                    BY <1>2, <2>1 DEF CatchUp
                <5>2. QED BY <4>1, <5>1
            <4>3. relayCatchUp'[r] = [relayCatchUp[r] EXCEPT !.pending = S]
                BY <1>1, <4>2 DEF TypeOK
            <4>4. /\ relayCatchUp'[r] # None
                  /\ relayCatchUp'[r].generation = relayCatchUp[r].generation
                  /\ relayCatchUp'[r].eose = relayCatchUp[r].eose
                <5>1. relayCatchUp'[r] \in CatchUp
                    BY <1>2, <2>1, <4>3, PendingFields
                <5>2. relayCatchUp'[r].generation = relayCatchUp[r].generation
                    BY <1>2, <2>1, <4>3, PendingFields
                <5>3. relayCatchUp'[r].eose = relayCatchUp[r].eose
                    <6>1. relayCatchUp[r] \in CatchUp
                        BY <1>2, <2>1
                    <6>2. [relayCatchUp[r] EXCEPT !.pending = S].eose = relayCatchUp[r].eose
                        BY <6>1, PendingFields, Zenon
                    <6>3. QED BY <4>3, <6>2, Zenon
                <5>4. QED BY <5>1, <5>2, <5>3
            <4>5. \A q \in Relays : q # r => relayCatchUp'[q] = relayCatchUp[q]
                BY <1>1, <4>2 DEF TypeOK
            <4>6. QED BY <1>1, <2>1, <4>4, <4>5 DEF RelayInv
        <3>3. QED BY <1>3, <3>1, <3>2, ArrivalEffect
    <2>4. QED BY <1>1, <2>1, <2>2, <2>3 DEF RelayInv
<1>4. ASSUME NEW w \in Wraps, Processed(w) \/ Failed(w)
      PROVE  RelayInv'
    <2>1. LeavesBarrier(w)
        BY <1>4, OutcomeEffect
    <2>2. QED BY <1>1, <2>1, InvTypes, LeavesBarrierType DEF RelayInv, TypeInv
<1>5. ASSUME NEW r \in Relays, Eose(r)
      PROVE  RelayInv'
    <2>1. /\ phase' = phase /\ phase = "running" /\ feed[r].open /\ feed[r].backlog = {}
          /\ feed' = [feed EXCEPT ![r].eosed = TRUE]
          /\ relayHealth' = [relayHealth EXCEPT ![r].state = "healthy"]
        BY <1>5 DEF Eose
    <2>2. /\ feed'[r].open = feed[r].open /\ feed'[r].backlog = feed[r].backlog
          /\ relayHealth'[r].generation = relayHealth[r].generation
          /\ \A q \in Relays : q # r => feed'[q] = feed[q] /\ relayHealth'[q] = relayHealth[q]
        <3>1. feed'[r] = [feed[r] EXCEPT !.eosed = TRUE]
            BY <1>1, <2>1 DEF TypeOK
        <3>2. feed'[r].open = feed[r].open /\ feed'[r].backlog = feed[r].backlog
            BY <1>2, <3>1, EosedFields
        <3>3. \A q \in Relays : q # r => feed'[q] = feed[q]
            BY <1>1, <2>1 DEF TypeOK
        <3>4. /\ relayHealth'[r].generation = relayHealth[r].generation
              /\ \A q \in Relays : q # r => relayHealth'[q] = relayHealth[q]
            BY <1>1, <2>1 DEF TypeOK
        <3>5. QED BY <3>2, <3>3, <3>4
    <2>3. /\ relayCatchUp'[r] # None
          /\ relayCatchUp'[r].generation = relayCatchUp[r].generation
          /\ \A q \in Relays : q # r => relayCatchUp'[q] = relayCatchUp[q]
        BY <1>1, <1>5, <2>1, EoseEffect DEF RelayInv
    <2>4. QED BY <1>1, <2>1, <2>2, <2>3 DEF RelayInv
<1>6. ASSUME NEW r \in Relays, EoseTimeout(r)
      PROVE  RelayInv'
    <2>1. /\ UNCHANGED <<phase, relayHealth, relayCatchUp>>
          /\ feed' = [feed EXCEPT ![r].eosed = TRUE]
        BY <1>6 DEF EoseTimeout
    <2>2. /\ feed'[r].open = feed[r].open /\ feed'[r].backlog = feed[r].backlog
          /\ \A q \in Relays : q # r => feed'[q] = feed[q]
        <3>1. feed'[r] = [feed[r] EXCEPT !.eosed = TRUE]
            BY <1>1, <2>1 DEF TypeOK
        <3>2. feed'[r].open = feed[r].open /\ feed'[r].backlog = feed[r].backlog
            BY <1>2, <3>1, EosedFields
        <3>3. QED BY <1>1, <2>1, <3>2 DEF TypeOK
    <2>3. QED BY <1>1, <2>1, <2>2 DEF RelayInv
<1>7. ASSUME NEW r \in Relays, SubscriptionEnds(r)
      PROVE  RelayInv'
    <2>1. /\ UNCHANGED <<phase, relayCatchUp>> /\ phase = "running"
          /\ feed' = [feed EXCEPT ![r] = NotSubscribed]
          /\ relayHealth' = [relayHealth EXCEPT ![r].state = "degraded"]
        BY <1>7 DEF SubscriptionEnds
    <2>2. /\ ~feed'[r].open
          /\ relayHealth'[r].generation = relayHealth[r].generation
          /\ relayHealth'[r].state = "degraded"
          /\ \A q \in Relays : q # r => feed'[q] = feed[q] /\ relayHealth'[q] = relayHealth[q]
        BY <1>1, <2>1 DEF TypeOK, NotSubscribed
    <2>3. QED BY <1>1, <2>1, <2>2 DEF RelayInv
<1>8. ASSUME NEW r \in Relays, Reconnect(r)
      PROVE  RelayInv'
    <2>1. /\ phase' = phase /\ phase = "running"
          /\ relayHealth'[r] = [state |-> "connecting", generation |-> relayHealth[r].generation + 1]
          /\ relayCatchUp'[r] = NewCatchUp(relayHealth[r].generation + 1)
          /\ feed'[r] = NewFeed(r)
          /\ \A q \in Relays : q # r => /\ feed'[q] = feed[q]
                                        /\ relayHealth'[q] = relayHealth[q]
                                        /\ relayCatchUp'[q] = relayCatchUp[q]
        BY <1>1, <1>8 DEF Reconnect, TypeOK
    <2>2. NewCatchUp(relayHealth[r].generation + 1) # None
        BY <1>1, NewCatchUpFields DEF TypeOK
    <2>3. QED BY <1>1, <2>1, <2>2 DEF RelayInv, NewCatchUp, NewFeed
<1>9. CASE Subscribe
    <2>1. NewCatchUp(1) # None
        BY <1>1, NewCatchUpFields
    <2>2. QED BY <1>9, <2>1 DEF Subscribe, RelayInv, NewCatchUp, NewFeed
<1>10. CASE Close \/ FinishClose \/ Crash
    BY <1>10 DEF Close, FinishClose, Crash, Forget, RelayInv, NotSubscribed
<1>11. CASE \/ Tick \/ Start \/ Persist \/ LateWrite \/ UNCHANGED vars
            \/ \E w \in Wraps : Publish(w) \/ Authorized(w)
    <2>1. /\ UNCHANGED <<relayCatchUp, relayHealth, feed>>
          /\ phase' = phase \/ (phase = "down" /\ phase' = "starting")
        BY <1>11 DEF Tick, Start, Persist, LateWrite, vars, Publish, Authorized
    <2>2. QED BY <1>1, <2>1 DEF RelayInv
<1>12. ASSUME NEW r \in Relays, ClosedBeforeEose(r)
       PROVE  RelayInv'
    <2>1. /\ phase' = phase /\ phase = "running"
          /\ feed' = [feed EXCEPT ![r] = NotSubscribed]
          /\ relayHealth' = [relayHealth EXCEPT ![r].state = "degraded"]
        BY <1>12 DEF ClosedBeforeEose
    <2>2. /\ ~feed'[r].open
          /\ relayHealth'[r].generation = relayHealth[r].generation
          /\ relayHealth'[r].state = "degraded"
          /\ \A q \in Relays : q # r => feed'[q] = feed[q] /\ relayHealth'[q] = relayHealth[q]
        BY <1>1, <2>1 DEF TypeOK, NotSubscribed
    <2>3. /\ relayCatchUp'[r] # None
          /\ relayCatchUp'[r].generation = relayCatchUp[r].generation
          /\ \A q \in Relays : q # r => relayCatchUp'[q] = relayCatchUp[q]
        BY <1>1, <1>12, <2>1, EoseEffect DEF RelayInv
    <2>4. QED BY <1>1, <2>1, <2>2, <2>3 DEF RelayInv
<1>13. QED
    BY <1>3, <1>4, <1>5, <1>6, <1>7, <1>8, <1>9, <1>10, <1>11, <1>12 DEF Next

-----------------------------------------------------------------------------
\* An arrival leaves the candidate of every catch-up record alone.
LEMMA AcceptEffect ==
    ASSUME TypeOK, NEW w \in Wraps, NEW r \in Relays,
           UNCHANGED <<operations, relayCatchUp>> \/ Accept(w, r), relayCatchUp[r] # None
    PROVE  \A q \in Relays : relayCatchUp'[q].candidate = relayCatchUp[q].candidate
<1>1. CASE UNCHANGED <<operations, relayCatchUp>>
    BY <1>1
<1>2. CASE Accept(w, r)
    <2>1. relayCatchUp[r] \in CatchUp
        BY DEF TypeOK
    <2>2. PICK S \in SUBSET Wraps : relayCatchUp' = [relayCatchUp EXCEPT ![r].pending = S]
        <3>1. relayCatchUp[r].pending \in SUBSET Wraps
            BY <2>1 DEF CatchUp
        <3>2. QED BY <1>2, <3>1 DEF Accept
    <2>3. relayCatchUp'[r] = [relayCatchUp[r] EXCEPT !.pending = S]
        BY <2>2 DEF TypeOK
    <2>4. QED BY <2>1, <2>2, <2>3, PendingFields DEF TypeOK
<1>3. QED BY <1>1, <1>2

\* What an open subscription still owes is not lost in any step.
LEMMA ObligationStep == CheckpointInv /\ TypeOK' /\ [Next]_vars => ObligationInv'
<1> SUFFICES ASSUME CheckpointInv, TypeOK', [Next]_vars
             PROVE  ObligationInv'
    OBVIOUS
<1> USE DEF envVars, inboxVars, barrierVars, relayVars, fileVars, historyVars
<1>1. TypeOK /\ RelayInv /\ ClockInv /\ ObligationInv /\ SafeFrom(caughtUpAt) /\ TypeInv
    BY InvTypes DEF CheckpointInv, SnapshotInv
<1>2. \A r \in Relays : feed[r] \in Feed /\ (phase = "running" => relayCatchUp[r] \in CatchUp)
    BY <1>1 DEF TypeOK, RelayInv
<1>3. ASSUME Environment, NEW r \in Relays, NEW w \in Wraps, feed'[r].open, r \in storedAt'[w],
             Owed(w)', feed[r].open, relayCatchUp'[r].candidate = relayCatchUp[r].candidate,
             w \in feed[r].backlog => w \in feed'[r].backlog \/ Pursued(RumorOf[w])',
             \A v \in Wraps \ Junk : InHand(v) => InHand(v)' \/ RumorOf[v] \in settled'
      PROVE  \/ created'[w] >= Since(relayCatchUp'[r].candidate)
             \/ w \in feed'[r].backlog
             \/ Pursued(RumorOf[w])'
    <2>1. storedAt' = storedAt /\ created' = created
        BY <1>3 DEF Environment
    <2>2. Owed(w) /\ RumorOf[w] \notin settled'
        BY <1>3, <2>1, OwedStep DEF Owed, Unhandled, Published
    <2>3. Pursued(RumorOf[w]) => Pursued(RumorOf[w])'
        BY <1>3, <2>2 DEF Pursued
    <2>4. QED BY <1>1, <1>3, <2>1, <2>2, <2>3 DEF ObligationInv
<1>4. ASSUME NEW x \in Wraps, NEW q \in Relays, Arrival(x, q)
      PROVE  ObligationInv'
    <2>1. /\ Environment /\ phase = "running" /\ feed[q].open /\ InboxEffect(x)
          /\ feed' = [feed EXCEPT ![q].backlog = @ \ {x}]
        BY <1>4, ArrivalEffect DEF Arrives, Environment
    <2>2. \A r \in Relays : /\ feed'[r].open = feed[r].open
                            /\ \A w \in feed[r].backlog : w \in feed'[r].backlog \/ w = x
        <3>1. feed'[q] = [feed[q] EXCEPT !.backlog = @ \ {x}]
            BY <1>1, <2>1 DEF TypeOK
        <3>2. feed'[q].open = feed[q].open /\ feed'[q].backlog = feed[q].backlog \ {x}
            BY <1>2, <3>1, BacklogFields
        <3>3. QED BY <1>1, <2>1, <3>2 DEF TypeOK
    <2>3. \A r \in Relays : relayCatchUp'[r].candidate = relayCatchUp[r].candidate
        BY <1>1, <1>4, <2>1, ArrivalEffect, AcceptEffect DEF RelayInv
    <2>4. QED BY <1>3, <2>1, <2>2, <2>3 DEF ObligationInv, InboxEffect
<1>5. ASSUME NEW x \in Wraps, Processed(x) \/ Failed(x)
      PROVE  ObligationInv'
    <2>1. Environment /\ feed' = feed /\ InboxEffect(x) /\ LeavesBarrier(x)
        BY <1>5, OutcomeEffect DEF LeavesBarrier, Environment
    <2>2. \A r \in Relays : feed[r].open => relayCatchUp'[r].candidate = relayCatchUp[r].candidate
        BY <1>1, <2>1, LeavesBarrierType DEF RelayInv, TypeInv
    <2>3. QED BY <1>3, <2>1, <2>2 DEF ObligationInv, InboxEffect
<1>6. ASSUME NEW q \in Relays,
             Eose(q) \/ EoseTimeout(q) \/ ClosedBeforeEose(q) \/ SubscriptionEnds(q)
      PROVE  ObligationInv'
    <2>1. Environment /\ UNCHANGED <<operations, retryableEventIds, settled>> /\ phase = "running"
        BY <1>6 DEF Eose, EoseTimeout, ClosedBeforeEose, SubscriptionEnds, Environment
    <2>2. \A v \in Wraps : InHand(v) => InHand(v)'
        BY <2>1 DEF InHand
    <2>3. \A r \in Relays : feed'[r].open => feed[r].open /\ feed'[r].backlog = feed[r].backlog
        <3>1. CASE ClosedBeforeEose(q) \/ SubscriptionEnds(q)
            BY <1>1, <3>1 DEF ClosedBeforeEose, SubscriptionEnds, TypeOK, NotSubscribed
        <3>2. CASE Eose(q) \/ EoseTimeout(q)
            <4>1. feed' = [feed EXCEPT ![q].eosed = TRUE]
                BY <3>2 DEF Eose, EoseTimeout
            <4>2. feed'[q] = [feed[q] EXCEPT !.eosed = TRUE]
                BY <1>1, <4>1 DEF TypeOK
            <4>3. feed'[q].open = feed[q].open /\ feed'[q].backlog = feed[q].backlog
                BY <1>2, <4>2, EosedFields
            <4>4. QED BY <1>1, <4>1, <4>3 DEF TypeOK
        <3>3. QED BY <1>6, <3>1, <3>2
    <2>4. \A r \in Relays : relayCatchUp'[r].candidate = relayCatchUp[r].candidate
        <3>1. CASE Eose(q) \/ ClosedBeforeEose(q)
            BY <1>1, <2>1, <3>1, EoseEffect DEF RelayInv
        <3>2. CASE EoseTimeout(q) \/ SubscriptionEnds(q)
            BY <3>2 DEF EoseTimeout, SubscriptionEnds
        <3>3. QED BY <1>6, <3>1, <3>2
    <2>5. QED BY <1>3, <2>1, <2>2, <2>3, <2>4 DEF ObligationInv
<1>7. ASSUME NEW r \in Relays, NEW w \in Wraps, feed'[r] = NewFeed(r), Environment,
             r \in storedAt'[w], Owed(w)'
      PROVE  w \in feed'[r].backlog
    <2>1. r \in storedAt[w] /\ Owed(w)
        BY <1>7, OwedStep DEF Environment, Owed, Unhandled, Published
    <2>2. QED BY <1>1, <1>7, <2>1 DEF SafeFrom, NewFeed
<1>8. ASSUME NEW q \in Relays, Reconnect(q)
      PROVE  ObligationInv'
    <2>1. /\ Environment /\ UNCHANGED <<operations, retryableEventIds>>
          /\ feed'[q] = NewFeed(q)
          /\ \A r \in Relays : r # q => feed'[r] = feed[r] /\ relayCatchUp'[r] = relayCatchUp[r]
        BY <1>1, <1>8 DEF Reconnect, Environment, TypeOK
    <2>2. \A v \in Wraps : InHand(v) => InHand(v)'
        BY <2>1 DEF InHand
    <2>3. QED BY <1>3, <1>7, <2>1, <2>2 DEF ObligationInv
<1>9. CASE Subscribe
    <2>1. Environment /\ \A r \in Relays : feed'[r] = NewFeed(r)
        BY <1>9 DEF Subscribe, Environment
    <2>2. QED BY <1>7, <2>1 DEF ObligationInv
<1>10. ASSUME NEW x \in Wraps, Publish(x)
       PROVE  ObligationInv'
    <2>1. /\ UNCHANGED <<feed, relayCatchUp, operations, retryableEventIds, settled, joined,
                        overlooked>>
          /\ now \in Nat /\ created'[x] \in Int /\ created'[x] >= now - BACKDATE
          /\ \A w \in Wraps : w # x => storedAt'[w] = storedAt[w] /\ created'[w] = created[w]
        BY <1>1, <1>10 DEF Publish, TypeOK, ClockInv
    <2>2. \A w \in Wraps : w # x => Owed(w)' = Owed(w)
        BY <2>1 DEF Owed, Unhandled
    <2>3. \A m \in Rumors : Pursued(m) => Pursued(m)'
        BY <2>1 DEF Pursued, InHand
    <2>4. ASSUME NEW r \in Relays, feed[r].open
          PROVE  created'[x] >= Since(relayCatchUp[r].candidate)
        <3>1. relayCatchUp[r].candidate \in Nat /\ relayCatchUp[r].candidate =< now
            BY <1>1, <1>2, <2>4 DEF RelayInv, ClockInv, CatchUp
        <3>2. now >= BACKDATE
            BY <1>1 DEF ClockInv
        <3>3. QED BY <2>1, <3>1, <3>2 DEF Since
    <2>5. \A w \in Wraps : RumorOf[w] \in Rumors
        OBVIOUS
    <2>6. QED BY <1>1, <2>1, <2>2, <2>3, <2>4, <2>5 DEF ObligationInv
<1>11. ASSUME NEW x \in Wraps, Authorized(x)
       PROVE  ObligationInv'
    <2>1. /\ operations' = [operations EXCEPT ![x] = "handling"]
          /\ Environment /\ UNCHANGED <<feed, relayCatchUp, retryableEventIds>>
        BY <1>11 DEF Authorized, Environment
    <2>2. \A v \in Wraps : InHand(v) => InHand(v)'
        BY <1>1, <1>11, <2>1 DEF InHand, TypeOK, Authorized
    <2>3. QED BY <1>3, <2>1, <2>2 DEF ObligationInv
<1>12. CASE Tick \/ Persist \/ LateWrite \/ UNCHANGED vars
    <2>1. /\ Environment
          /\ UNCHANGED <<feed, relayCatchUp, operations, retryableEventIds>>
        BY <1>12 DEF Tick, Persist, LateWrite, vars, Environment
    <2>2. \A v \in Wraps : InHand(v) => InHand(v)'
        BY <2>1 DEF InHand
    <2>3. QED BY <1>3, <2>1, <2>2 DEF ObligationInv
<1>13. CASE Start \/ Close \/ FinishClose \/ Crash
    <2>1. \A r \in Relays : ~feed'[r].open
        BY <1>1, <1>13 DEF Start, Close, FinishClose, Crash, Forget, NotSubscribed, RelayInv
    <2>2. QED BY <2>1 DEF ObligationInv
<1>14. QED
    BY <1>4, <1>5, <1>6, <1>8, <1>9, <1>10, <1>11, <1>12, <1>13 DEF Next

-----------------------------------------------------------------------------
\* The heart of it: when the bus lets the checkpoint advance, the oldest candidate
\* is a safe place to ask from.  Every owed wrap is held by some relay, whose backlog
\* has been sent, and nothing is pursued any more.
LEMMA AdvanceSafe ==
    ASSUME TypeOK', OperationInv', RelayInv', ObligationInv', CanAdvance', NEW r \in Relays,
           \A q \in Relays : relayCatchUp[r].candidate' =< relayCatchUp[q].candidate'
    PROVE  SafeFrom(relayCatchUp[r].candidate)'
<1> SUFFICES ASSUME NEW w \in Wraps, Owed(w)'
             PROVE  created'[w] >= Since(relayCatchUp'[r].candidate)
    BY DEF SafeFrom
<1>1. PICK q \in Relays : q \in storedAt'[w]
    BY DEF Owed, Unhandled, TypeOK
<1>2. feed'[q].open /\ feed'[q].backlog = {}
    BY DEF CanAdvance, NothingToRetry, Certified, RelayInv
<1>3. \A v \in Wraps : ~InBarrier(v)'
    BY DEF CanAdvance, NothingToRetry, Certified, InBarrier
<1>4. \A v \in Wraps : ~InHand(v)'
    BY <1>3 DEF CanAdvance, NothingToRetry, Certified, InHand, OperationInv
<1>5. created'[w] >= Since(relayCatchUp'[q].candidate)
    BY <1>1, <1>2, <1>4 DEF ObligationInv, Pursued
<1>6. relayCatchUp'[q] \in CatchUp /\ relayCatchUp'[r] \in CatchUp
    BY DEF CanAdvance, NothingToRetry, Certified, TypeOK
<1>7. relayCatchUp'[q].candidate \in Nat /\ relayCatchUp'[r].candidate \in Nat
    BY <1>6 DEF CatchUp
<1>8. Since(relayCatchUp'[r].candidate) =< Since(relayCatchUp'[q].candidate)
    BY <1>7, SinceMonotone
<1>9. created'[w] \in Nat
    BY DEF TypeOK
<1>10. QED BY <1>5, <1>7, <1>8, <1>9, SinceNat

\* A close taken for EOSE moves the checkpoint past nothing that is owed but what its
\* own subscription had still to send, which is owed no longer.
LEMMA CloseSafe ==
    ASSUME CheckpointInv, TypeOK', [Next]_vars, NEW r \in Relays, ClosedBeforeEose(r),
           caughtUpAt' # caughtUpAt
    PROVE  \A w \in Wraps : Owed(w)' => created'[w] >= Since(caughtUpAt')
<1>1. TypeOK /\ RelayInv /\ OperationInv /\ ObligationInv
    BY DEF CheckpointInv
<1>2. PICK p \in Relays :
         /\ \A q \in Relays : relayCatchUp[p].candidate =< relayCatchUp[q].candidate
         /\ caughtUpAt' = Larger(caughtUpAt, relayCatchUp[p].candidate)
    BY CloseAdvance
<1>3. caughtUpAt' = relayCatchUp[p].candidate
    BY <1>2 DEF Larger
<1>4. CloseCertifies(r)
    BY CloseAdvance
<1>5. /\ storedAt' = storedAt /\ created' = created /\ phase = "running" /\ feed[r].open
      /\ \A w \in feed[r].backlog : created[w] < Since(caughtUpAt') => w \in overlooked'
    BY DEF ClosedBeforeEose, envVars
<1>6. \A q \in Relays : feed[q].open /\ (q # r => feed[q].backlog = {})
    BY <1>1, <1>4, <1>5 DEF CloseCertifies, Certified, RelayInv
<1>7. \A v \in Wraps : ~InBarrier(v)
    BY <1>4 DEF CloseCertifies, NothingToRetry, Certified, InBarrier
<1>8. \A v \in Wraps : ~InHand(v)
    BY <1>1, <1>4, <1>7 DEF CloseCertifies, NothingToRetry, InHand, OperationInv
<1>9. ASSUME NEW w \in Wraps, Owed(w)'
      PROVE  created'[w] >= Since(caughtUpAt')
    <2>1. Owed(w)
        BY <1>5, <1>9, OwedStep DEF Owed, Unhandled, Published
    <2>2. PICK q \in Relays : q \in storedAt[w]
        BY <1>1, <2>1 DEF Owed, Unhandled, TypeOK
    <2>3. created[w] >= Since(relayCatchUp[q].candidate) \/ w \in feed[q].backlog
        BY <1>1, <1>6, <1>8, <2>1, <2>2 DEF ObligationInv, Pursued
    <2>4. created[w] \in Nat /\ created'[w] = created[w]
        BY <1>1, <1>5 DEF TypeOK
    <2>5. /\ relayCatchUp[q].candidate \in Nat /\ relayCatchUp[p].candidate \in Nat
          /\ relayCatchUp[p].candidate =< relayCatchUp[q].candidate
        BY <1>1, <1>2, <1>5 DEF RelayInv, TypeOK, CatchUp
    <2>6. CASE w \in feed[q].backlog
        <3>1. w \notin overlooked' /\ q = r
            BY <1>6, <1>9, <2>6 DEF Owed
        <3>2. ~(created[w] < Since(caughtUpAt'))
            BY <1>5, <2>6, <3>1
        <3>3. QED BY <1>3, <2>4, <2>5, <3>2, SinceNat
    <2>7. CASE created[w] >= Since(relayCatchUp[q].candidate)
        BY <1>3, <2>4, <2>5, <2>7, SinceMonotone
    <2>8. QED BY <2>3, <2>6, <2>7
<1>10. QED BY <1>9

\* No step moves a checkpoint, in memory, in the file or in a timer, past what is owed.
LEMMA SnapshotStep ==
    CheckpointInv /\ TypeOK' /\ OperationInv' /\ RelayInv' /\ ObligationInv' /\ [Next]_vars
        => SnapshotInv'
<1> SUFFICES ASSUME CheckpointInv, TypeOK', OperationInv', RelayInv', ObligationInv', [Next]_vars
             PROVE  SnapshotInv'
    OBVIOUS
<1> USE DEF envVars, inboxVars, barrierVars, relayVars, fileVars, historyVars
<1>1. TypeOK /\ ClockInv /\ SnapshotInv
    BY DEF CheckpointInv
<1> DEFINE Safe(c) == \A w \in Wraps : Owed(w)' => created'[w] >= Since(c)
<1>2. /\ Safe(caughtUpAt)
      /\ disk # None => Safe(disk.caughtUpAt)
      /\ \A s \in lateWrites : Safe(s.caughtUpAt)
    <2>1. /\ caughtUpAt \in Nat
          /\ disk # None => disk.caughtUpAt \in Nat
          /\ \A s \in lateWrites : s.caughtUpAt \in Nat
        BY <1>1 DEF TypeOK, StateFile, Snapshot
    <2>2. QED BY <1>1, <2>1, SafeStep DEF ClockInv, SnapshotInv
<1>3. Safe(0)
    BY DEF TypeOK, Since
<1>4. SUFFICES /\ Safe(caughtUpAt')
               /\ disk' # None => Safe(disk'.caughtUpAt)
               /\ \A s \in lateWrites' : Safe(s.caughtUpAt)
    BY DEF SnapshotInv, SafeFrom
<1>5. ASSUME \E recorded \in BOOLEAN : TryAdvance(recorded)
      PROVE  Safe(caughtUpAt')
    <2>1. CASE caughtUpAt' = caughtUpAt
        BY <1>2, <2>1
    <2>2. CASE caughtUpAt' # caughtUpAt
        <3>1. CanAdvance'
            BY <1>5, <2>2 DEF TryAdvance
        <3>2. PICK r \in Relays :
                 /\ \A q \in Relays : relayCatchUp[r].candidate' =< relayCatchUp[q].candidate'
                 /\ caughtUpAt' = Larger(caughtUpAt, relayCatchUp[r].candidate')
            BY <1>5, <3>1 DEF TryAdvance
        <3>3. SafeFrom(relayCatchUp[r].candidate)'
            BY <3>1, <3>2, AdvanceSafe
        <3>4. caughtUpAt' = relayCatchUp[r].candidate'
            BY <2>2, <3>2 DEF Larger
        <3>5. QED BY <3>3, <3>4 DEF SafeFrom
    <2>3. QED BY <2>1, <2>2
<1>6. ASSUME NEW w \in Wraps, NEW r \in Relays, Arrival(w, r)
      PROVE  Safe(caughtUpAt') /\ UNCHANGED <<disk, lateWrites>>
    BY <1>5, <1>6, ArrivalEffect DEF Arrives
<1>7. ASSUME NEW w \in Wraps, Processed(w) \/ Failed(w)
      PROVE  Safe(caughtUpAt') /\ UNCHANGED <<disk, lateWrites>>
    BY <1>5, <1>7, OutcomeEffect DEF LeavesBarrier
<1>8. ASSUME NEW r \in Relays, Eose(r)
      PROVE  Safe(caughtUpAt') /\ UNCHANGED <<disk, lateWrites>>
    BY <1>5, <1>8 DEF Eose
<1>9. CASE Start
    <2>1. CASE disk = None
        <3>1. /\ caughtUpAt' = now /\ joined' = now /\ disk'.caughtUpAt = now
              /\ lateWrites' = lateWrites
            BY <1>9, <2>1 DEF Start
        <3>2. Safe(now)
            BY <3>1 DEF Owed, Unhandled
        <3>3. QED BY <1>2, <3>1, <3>2
    <2>2. CASE disk # None
        <3>1. /\ caughtUpAt' = disk.caughtUpAt /\ lateWrites' = lateWrites
              /\ disk' = [disk EXCEPT !.processedRumorIds = Seeded(disk)]
            BY <1>9, <2>2 DEF Start
        <3>2. disk'.caughtUpAt = disk.caughtUpAt
            BY <1>1, <2>2, <3>1 DEF TypeOK, StateFile
        <3>3. QED BY <1>2, <2>2, <3>1, <3>2
    <2>3. QED BY <2>1, <2>2
<1>10. CASE Persist
    BY <1>2, <1>10 DEF Persist, CurrentState
<1>11. CASE FinishClose
    <2>1. caughtUpAt' = 0 /\ disk'.caughtUpAt = caughtUpAt
        BY <1>11 DEF FinishClose, Forget, CurrentState
    <2>2. \A s \in lateWrites' : s \in lateWrites \/ s.caughtUpAt = caughtUpAt
        BY <1>11 DEF FinishClose
    <2>3. QED BY <1>2, <1>3, <2>1, <2>2
<1>12. CASE LateWrite
    <2>1. PICK s \in lateWrites : /\ lateWrites' = lateWrites \ {s}
                                  /\ disk'.caughtUpAt = s.caughtUpAt
                                  /\ caughtUpAt' = caughtUpAt
        BY <1>12 DEF LateWrite
    <2>2. QED BY <1>2, <2>1
<1>13. CASE Crash
    BY <1>2, <1>3, <1>13 DEF Crash, Forget
<1>14. CASE \/ Tick \/ Subscribe \/ Close \/ UNCHANGED vars
            \/ \E w \in Wraps : Publish(w) \/ Authorized(w)
            \/ \E r \in Relays : EoseTimeout(r) \/ SubscriptionEnds(r) \/ Reconnect(r)
    <2>1. UNCHANGED <<caughtUpAt, disk, lateWrites>>
        BY <1>14 DEF Tick, Subscribe, Close, vars, Publish, Authorized, EoseTimeout,
               SubscriptionEnds, Reconnect
    <2>2. QED BY <1>2, <2>1
<1>15. ASSUME NEW r \in Relays, ClosedBeforeEose(r)
       PROVE  Safe(caughtUpAt') /\ UNCHANGED <<disk, lateWrites>>
    <2>1. UNCHANGED <<disk, lateWrites>>
        BY <1>15 DEF ClosedBeforeEose
    <2>2. CASE caughtUpAt' = caughtUpAt
        BY <1>2, <2>1, <2>2
    <2>3. CASE caughtUpAt' # caughtUpAt
        BY <1>15, <2>1, <2>3, CloseSafe
    <2>4. QED BY <2>2, <2>3
<1>16. QED
    <2>1. ASSUME Safe(caughtUpAt') /\ UNCHANGED <<disk, lateWrites>>
          PROVE  /\ Safe(caughtUpAt')
                 /\ disk' # None => Safe(disk'.caughtUpAt)
                 /\ \A s \in lateWrites' : Safe(s.caughtUpAt)
        BY <1>2, <2>1
    <2> HIDE DEF Safe
    <2>2. QED BY <1>6, <1>7, <1>8, <1>9, <1>10, <1>11, <1>12, <1>13, <1>14, <1>15, <2>1 DEF Next

-----------------------------------------------------------------------------
LEMMA CheckpointInit == Init => CheckpointInv
<1> SUFFICES ASSUME Init
             PROVE  CheckpointInv
    OBVIOUS
<1>1. TypeOK
    BY InitTypeOK
<1>2. \A w \in Wraps : ~Published(w) /\ ~Owed(w) /\ ~InHand(w) /\ operations[w] = "idle"
    BY DEF Init, Published, Owed, Unhandled, InHand, NoOperations
<1>3. ClockInv
    BY DEF Init, ClockInv
<1>4. MemoryInv
    BY DEF Init, MemoryInv, NothingRetained
<1>5. OperationInv
    BY <1>2 DEF OperationInv
<1>6. RelayInv /\ ObligationInv
    BY DEF Init, RelayInv, ObligationInv, NotSubscribed
<1>7. SnapshotInv
    BY <1>2 DEF Init, SnapshotInv, SafeFrom
<1>8. QED BY <1>1, <1>3, <1>4, <1>5, <1>6, <1>7 DEF CheckpointInv

LEMMA CheckpointStep == CheckpointInv /\ [Next]_vars => CheckpointInv'
<1> SUFFICES ASSUME CheckpointInv, [Next]_vars
             PROVE  CheckpointInv'
    OBVIOUS
<1>1. TypeOK'
    BY InvTypes, TypeStep DEF TypeInv
<1>2. ClockInv'
    BY <1>1, ClockStep
<1>3. MemoryInv'
    BY <1>1, MemoryStep
<1>4. OperationInv' /\ RelayInv' /\ ObligationInv'
    BY <1>1, OperationStep, RelayStep, ObligationStep
<1>5. SnapshotInv'
    BY <1>1, <1>4, SnapshotStep
<1>6. QED BY <1>1, <1>2, <1>3, <1>4, <1>5 DEF CheckpointInv

\* The invariant holds throughout.
THEOREM CheckpointInvariant == Spec => []CheckpointInv
<1>1. QED BY CheckpointInit, CheckpointStep, PTL DEF Spec

\* A message is skipped only by a close taken for EOSE: whatever relays reconnect,
\* handlers fail and lifecycles end, the checkpoint of startNostrBus, the one in the
\* state file, and the one any forgotten timer will write lie low enough to query
\* every other unhandled wrap again.
THEOREM OnlyClosesSkip == Spec => []SkippedOnlyByClose
<1>1. CheckpointInv => SkippedOnlyByClose
    BY DEF CheckpointInv, SnapshotInv, SafeFrom, SkippedOnlyByClose, Reachable
<1>2. QED BY <1>1, CheckpointInvariant, PTL

-----------------------------------------------------------------------------
\* A message is handled by one handler at a time, however many wraps and relays
\* bring it, over reconnects and restarts: the claim is taken in the same step that
\* starts the handler, and held until the step that ends it.
THEOREM OneHandler == Spec => []OneHandlerPerRumor
<1>1. Init => OneHandlerPerRumor
    BY DEF Init, OneHandlerPerRumor, NoOperations
<1>2. ASSUME CheckpointInv, OneHandlerPerRumor, [Next]_vars
      PROVE  OneHandlerPerRumor'
    <2> USE DEF envVars, inboxVars, barrierVars, relayVars, fileVars, historyVars
    <2>1. operations \in [Wraps -> {"idle", "authorizing", "handling"}]
        BY <1>2 DEF CheckpointInv, TypeOK
    <2>2. ASSUME \A v \in Wraps : operations'[v] # "idle" => operations[v] # "idle"
          PROVE  OneHandlerPerRumor'
        BY <1>2, <2>2 DEF OneHandlerPerRumor
    <2>3. ASSUME NEW w \in Wraps, NEW r \in Relays, Arrival(w, r)
          PROVE  OneHandlerPerRumor'
        <3>1. CASE UNCHANGED <<operations, relayCatchUp>>
            BY <2>2, <3>1
        <3>2. CASE Accept(w, r)
            <4>1. /\ operations' = [operations EXCEPT ![w] = "authorizing"]
                  /\ \A v \in Wraps : operations[v] # "idle" => RumorOf[v] # RumorOf[w]
                BY <3>2 DEF Accept, Claims, RumorInFlight
            <4>2. QED BY <1>2, <2>1, <4>1 DEF OneHandlerPerRumor
        <3>3. QED BY <1>2, <2>3, <3>1, <3>2, ArrivalEffect
    <2>4. ASSUME NEW w \in Wraps, Authorized(w) \/ Processed(w) \/ Failed(w)
          PROVE  OneHandlerPerRumor'
        <3>1. /\ operations[w] # "idle"
              /\ \A v \in Wraps : v # w => operations'[v] = operations[v]
            BY <2>1, <2>4 DEF Authorized, Processed, Failed, LeavesBarrier
        <3>2. QED BY <2>2, <3>1
    <2>5. CASE FinishClose \/ Crash
        BY <2>5 DEF FinishClose, Crash, Forget, NoOperations, OneHandlerPerRumor
    <2>6. CASE \/ Tick \/ Start \/ Subscribe \/ Persist \/ Close \/ LateWrite \/ UNCHANGED vars
               \/ \E w \in Wraps : Publish(w)
               \/ \E r \in Relays : \/ Eose(r) \/ EoseTimeout(r) \/ ClosedBeforeEose(r)
                                     \/ SubscriptionEnds(r) \/ Reconnect(r)
        <3>1. operations' = operations
            BY <2>6 DEF Tick, Start, Subscribe, Persist, Close, LateWrite, vars, Publish,
                   Eose, EoseTimeout, ClosedBeforeEose, SubscriptionEnds, Reconnect
        <3>2. QED BY <2>2, <3>1
    <2>7. QED
        BY <1>2, <2>3, <2>4, <2>5, <2>6 DEF Next
<1>3. QED BY <1>1, <1>2, CheckpointInvariant, PTL DEF Spec

-----------------------------------------------------------------------------
\* No wake-up is lost: every step that can complete the condition for an advance ends in
\* tryAdvanceCatchUpCheckpoint, so that it never holds with the checkpoint left behind.
THEOREM NothingIsMissed == Spec => []NoMissedAdvance
<1>1. Init => NoMissedAdvance
    BY DEF Init, NoMissedAdvance, CanAdvance, NothingToRetry, Certified
<1>2. ASSUME CheckpointInv, CheckpointInv', NoMissedAdvance, [Next]_vars
      PROVE  NoMissedAdvance'
    <2> USE DEF envVars, inboxVars, barrierVars, relayVars, fileVars, historyVars
    <2>1. TypeOK /\ TypeOK'
        BY <1>2 DEF CheckpointInv
    <2>2. ASSUME NEW recorded \in BOOLEAN, TryAdvance(recorded), CanAdvance'
          PROVE  NoMissedAdvance'
        <3>1. PICK r \in Relays : caughtUpAt' = Larger(caughtUpAt, relayCatchUp'[r].candidate)
            BY <2>2 DEF TryAdvance
        <3>2. relayCatchUp'[r] \in CatchUp
            BY <2>1, <2>2 DEF CanAdvance, NothingToRetry, Certified, TypeOK
        <3>3. relayCatchUp'[r].candidate \in Nat /\ caughtUpAt \in Nat
            BY <2>1, <3>2 DEF CatchUp, TypeOK
        <3>4. relayCatchUp'[r].candidate =< caughtUpAt'
            BY <3>1, <3>3 DEF Larger
        <3>5. QED BY <3>4 DEF NoMissedAdvance
    <2>3. CASE ~CanAdvance'
        BY <2>3 DEF NoMissedAdvance
    <2>4. ASSUME NEW w \in Wraps, NEW r \in Relays, Arrival(w, r)
          PROVE  NoMissedAdvance'
        BY <1>2, <2>2, <2>3, <2>4, ArrivalEffect
    <2>5. ASSUME NEW w \in Wraps, Processed(w) \/ Failed(w)
          PROVE  NoMissedAdvance'
        BY <1>2, <2>2, <2>3, <2>5, OutcomeEffect
    <2>6. ASSUME NEW r \in Relays, Eose(r)
          PROVE  NoMissedAdvance'
        BY <2>2, <2>3, <2>6 DEF Eose
    <2>7. CASE Start \/ Close \/ FinishClose \/ Crash
        BY <2>3, <2>7 DEF Start, Close, FinishClose, Crash, Forget, CanAdvance, NothingToRetry, Certified
    <2>8. CASE Subscribe
        BY <2>3, <2>8, BusAssumption DEF Subscribe, CanAdvance, NothingToRetry, Certified
    <2>9. ASSUME NEW r \in Relays, ClosedBeforeEose(r) \/ SubscriptionEnds(r) \/ Reconnect(r)
          PROVE  NoMissedAdvance'
        <3>1. relayHealth'[r].state # "healthy"
            BY <2>1, <2>9 DEF ClosedBeforeEose, SubscriptionEnds, Reconnect, TypeOK
        <3>2. QED BY <2>3, <3>1 DEF CanAdvance, NothingToRetry, Certified
    <2>10. CASE \/ Tick \/ Persist \/ LateWrite \/ UNCHANGED vars
                \/ \E w \in Wraps : Publish(w) \/ Authorized(w)
        <3>1. UNCHANGED <<phase, barrierVars, relayHealth, relayCatchUp>>
            BY <2>10 DEF Tick, Persist, LateWrite, vars, Publish, Authorized
        <3>2. QED BY <1>2, <3>1 DEF NoMissedAdvance, CanAdvance, NothingToRetry, Certified
    <2>11. ASSUME NEW r \in Relays, EoseTimeout(r)
           PROVE  NoMissedAdvance'
        <3>1. UNCHANGED <<phase, barrierVars, relayHealth, relayCatchUp>>
            BY <2>11 DEF EoseTimeout
        <3>2. QED BY <1>2, <3>1 DEF NoMissedAdvance, CanAdvance, NothingToRetry, Certified
    <2>12. QED
        BY <1>2, <2>4, <2>5, <2>6, <2>7, <2>8, <2>9, <2>10, <2>11 DEF Next
<1>3. QED BY <1>1, <1>2, CheckpointInvariant, PTL DEF Spec

-----------------------------------------------------------------------------
\* Outside "running" no relay is subscribed; an open subscription has not failed.
HealthInv ==
    /\ phase # "running" => \A r \in Relays : relayHealth[r].state = "stopped"
    /\ \A r \in Relays : feed[r].open => relayHealth[r].state \in {"connecting", "healthy"}

\* A step of the bus, seen at one relay.
RelayMoves(r) == Generations(r)!Next \/ UNCHANGED relayHealth[r]

LEMMA HealthStep ==
    ASSUME TypeOK, HealthInv, [Next]_vars
    PROVE  HealthInv' /\ \A r \in Relays : RelayMoves(r)
<1> USE DEF envVars, inboxVars, barrierVars, relayVars, fileVars, historyVars
<1>1. CASE UNCHANGED <<phase, relayHealth, feed>>
    BY <1>1 DEF HealthInv, RelayMoves
<1>2. ASSUME NEW r \in Relays,
             relayHealth' = [relayHealth EXCEPT ![r].state = "healthy"],
             feed[r].open, phase' = phase, phase = "running",
             \A q \in Relays : feed'[q].open => feed[q].open
      PROVE  HealthInv' /\ \A q \in Relays : RelayMoves(q)
    <2>1. /\ relayHealth'[r].state = "healthy"
          /\ relayHealth'[r].generation = relayHealth[r].generation
          /\ \A q \in Relays : q # r => relayHealth'[q] = relayHealth[q]
        BY <1>2 DEF TypeOK
    <2>2. relayHealth[r].state \in {"connecting", "healthy"}
        BY <1>2 DEF HealthInv
    <2>3. Generations(r)!Answer
        BY <2>1, <2>2 DEF Generations!Answer
    <2>4. QED BY <1>2, <2>1, <2>3 DEF HealthInv, RelayMoves, Generations!Next
<1>3. ASSUME NEW w \in Wraps, NEW r \in Relays, Arrival(w, r)
      PROVE  HealthInv' /\ \A q \in Relays : RelayMoves(q)
    <2>1. Arrives(w, r)
        BY <1>3 DEF Arrival, Duplicate, RejectStale, Postpone, RejectJunk, AlreadyProcessed,
                    RumorBusy, SkipOwn, LimitSender, Accept
    <2>2. \A q \in Relays : feed'[q].open => feed[q].open
        BY <2>1 DEF Arrives, TypeOK, Feed
    <2>3. QED BY <1>2, <2>1, <2>2 DEF Arrives
<1>4. ASSUME NEW r \in Relays, Eose(r)
      PROVE  HealthInv' /\ \A q \in Relays : RelayMoves(q)
    <2>1. \A q \in Relays : feed'[q].open => feed[q].open
        BY <1>4 DEF Eose, TypeOK, Feed
    <2>2. QED BY <1>2, <1>4, <2>1 DEF Eose
<1>5. ASSUME NEW r \in Relays, EoseTimeout(r)
      PROVE  HealthInv' /\ \A q \in Relays : RelayMoves(q)
    <2>1. \A q \in Relays : feed'[q].open => feed[q].open
        BY <1>5 DEF EoseTimeout, TypeOK, Feed
    <2>2. QED BY <1>5, <2>1 DEF EoseTimeout, HealthInv, RelayMoves
<1>6. ASSUME NEW r \in Relays, ClosedBeforeEose(r) \/ SubscriptionEnds(r)
      PROVE  HealthInv' /\ \A q \in Relays : RelayMoves(q)
    <2>1. /\ phase = "running" /\ phase' = phase /\ feed[r].open /\ ~feed'[r].open
          /\ relayHealth'[r].state = "degraded"
          /\ relayHealth'[r].generation = relayHealth[r].generation
          /\ \A q \in Relays : q # r => relayHealth'[q] = relayHealth[q] /\ feed'[q] = feed[q]
        BY <1>6 DEF ClosedBeforeEose, SubscriptionEnds, NotSubscribed, TypeOK
    <2>2. Generations(r)!Fail
        BY <2>1 DEF HealthInv, Generations!Fail
    <2>3. QED BY <2>1, <2>2 DEF HealthInv, RelayMoves, Generations!Next
<1>7. ASSUME NEW r \in Relays, Reconnect(r)
      PROVE  HealthInv' /\ \A q \in Relays : RelayMoves(q)
    <2>1. /\ phase = "running" /\ phase' = phase /\ relayHealth[r].state = "degraded"
          /\ relayHealth'[r].state = "connecting"
          /\ relayHealth'[r].generation = relayHealth[r].generation + 1
          /\ \A q \in Relays : q # r => relayHealth'[q] = relayHealth[q] /\ feed'[q] = feed[q]
        BY <1>7 DEF Reconnect, TypeOK
    <2>2. Generations(r)!Reconnect
        BY <2>1 DEF Generations!Reconnect
    <2>3. QED BY <2>1, <2>2 DEF HealthInv, RelayMoves, Generations!Next
<1>8. CASE Subscribe
    <2>1. \A r \in Relays : /\ relayHealth[r].state = "stopped"
                            /\ relayHealth'[r].state = "connecting"
                            /\ relayHealth'[r].generation = 1
        BY <1>8 DEF Subscribe, HealthInv
    <2>2. \A r \in Relays : Generations(r)!Begin
        BY <2>1 DEF Generations!Begin
    <2>3. QED BY <1>8, <2>1, <2>2 DEF Subscribe, HealthInv, RelayMoves, Generations!Next
<1>9. CASE Close \/ FinishClose \/ Crash
    <2>1. \A r \in Relays : /\ relayHealth'[r].state = "stopped" /\ ~feed'[r].open
                            /\ relayHealth'[r].generation \in {0, relayHealth[r].generation}
        BY <1>9 DEF Close, FinishClose, Crash, Forget, Unsubscribed, NotSubscribed, TypeOK
    <2>2. \A r \in Relays : Generations(r)!End
        BY <2>1 DEF Generations!End
    <2>3. QED BY <2>1, <2>2 DEF HealthInv, RelayMoves, Generations!Next
<1>10. CASE Start
    BY <1>10 DEF Start, HealthInv, RelayMoves
<1>11. CASE \/ Tick \/ Persist \/ LateWrite \/ UNCHANGED vars
            \/ \E w \in Wraps : Publish(w) \/ Authorized(w)
    BY <1>1, <1>11 DEF Tick, Persist, LateWrite, vars, Publish, Authorized
<1>12. ASSUME NEW w \in Wraps, Processed(w) \/ Failed(w)
       PROVE  HealthInv' /\ \A q \in Relays : RelayMoves(q)
    BY <1>1, <1>12 DEF Processed, Failed, LeavesBarrier
<1>13. QED
    BY <1>3, <1>4, <1>5, <1>6, <1>7, <1>8, <1>9, <1>10, <1>11, <1>12 DEF Next

\* The bus moves each relay's health as RelayGenerations allows, which the supervisor
\* implements: what the two modules assume of each other agrees.
THEOREM ContractIsKept == Spec => RelayContract
<1>1. Init => HealthInv /\ \A r \in Relays : Generations(r)!Init
    BY DEF Init, HealthInv, Unsubscribed, NotSubscribed, Generations!Init
<1> DEFINE A == \A r \in Relays : Generations(r)!Next \/ UNCHANGED relayHealth[r]
<1>2. TypeOK /\ HealthInv /\ [Next]_vars => HealthInv' /\ A
    BY HealthStep DEF RelayMoves
<1>3. QED BY <1>1, <1>2, TypeCorrect, PTL DEF Spec, RelayContract

-----------------------------------------------------------------------------
\* Coverage: it survives a checkpoint that moves on and the pruning of the memory,
\* which keeps what can be queried, and grows with every wrap that is retained.
LEMMA CoversLater ==
    ASSUME TypeOK, NEW memory, NEW a \in Nat, NEW b \in Nat, a =< b,
           NEW ids \in SUBSET Wraps, Covers(memory, a, ids)
    PROVE  Covers(memory, b, ids)
<1>1. Since(a) =< Since(b) /\ Since(a) \in Nat /\ Since(b) \in Nat
    BY SinceMonotone
<1>2. \A v \in Wraps : created[v] \in Nat
    BY DEF TypeOK
<1>3. \A v \in ids \ Junk : created[v] >= Since(b) => created[v] >= Since(a)
    BY <1>1, <1>2
<1>4. QED BY <1>3 DEF Covers

LEMMA PruneCovers ==
    ASSUME TypeOK, NEW memory \in Memory, NEW c \in Nat,
           NEW ids \in SUBSET Wraps, Covers(memory, c, ids)
    PROVE  Covers(Prune(memory, c), c, ids)
<1> SUFFICES ASSUME NEW v \in ids \ Junk, created[v] >= Since(c)
             PROVE  /\ Prune(memory, c)[RumorOf[v]] # None
                    /\ Prune(memory, c)[RumorOf[v]].latestEventCreatedAt >= created[v]
    BY DEF Covers
<1> DEFINE entry == memory[RumorOf[v]]
<1>1. RumorOf[v] \in Rumors /\ created[v] \in Nat /\ Since(c) \in Nat
    BY SinceNat DEF TypeOK
<1>2. entry # None /\ entry.latestEventCreatedAt >= created[v]
    BY DEF Covers
<1>3. entry \in Entry
    BY <1>1, <1>2 DEF Memory
<1>4. entry.latestEventCreatedAt \in Nat
    BY <1>3 DEF Entry
<1>5. entry.latestEventCreatedAt >= Since(c)
    BY <1>1, <1>2, <1>4
<1>6. Prune(memory, c)[RumorOf[v]] = entry
    BY <1>1, <1>2, <1>5 DEF Prune, Remembered
<1>7. QED BY <1>2, <1>6

LEMMA RetainCovers ==
    ASSUME TypeOK, NEW memory \in Memory, NEW c \in Nat, NEW w \in Wraps,
           NEW ids \in SUBSET Wraps, Covers(memory, c, ids)
    PROVE  Covers(Retain(memory, RumorOf[w], created[w]), c, ids \cup {w})
<1> DEFINE m == RumorOf[w]
           kept == Retain(memory, m, created[w])
<1>1. m \in Rumors /\ created \in [Wraps -> Nat] /\ now \in Nat
    BY DEF TypeOK
<1>2. memory[m] # None => memory[m].latestEventCreatedAt \in Nat
    BY <1>1 DEF Memory, Entry
<1>3. kept \in Memory
    BY <1>1, RetainType
<1>4. /\ kept[m] = [processedAt |-> now,
                    latestEventCreatedAt |->
                        IF memory[m] = None THEN created[w]
                        ELSE Larger(memory[m].latestEventCreatedAt, created[w])]
      /\ \A n \in Rumors : n # m => kept[n] = memory[n]
    BY <1>1 DEF Retain, Memory
<1>5. kept[m].latestEventCreatedAt >= created[w]
    BY <1>1, <1>2, <1>4 DEF Larger
<1>6. memory[m] # None => kept[m].latestEventCreatedAt >= memory[m].latestEventCreatedAt
    BY <1>1, <1>2, <1>4 DEF Larger
<1>7. kept[m] \in Entry /\ kept[m] # None
    <2>1. (IF memory[m] = None THEN created[w]
           ELSE Larger(memory[m].latestEventCreatedAt, created[w])) \in Nat
        BY <1>1, <1>2 DEF Larger
    <2>2. QED BY <1>1, <1>4, <2>1 DEF Entry
<1>8. kept[m].latestEventCreatedAt \in Nat
    BY <1>7 DEF Entry
<1> HIDE DEF kept
<1>9. ASSUME NEW v \in (ids \cup {w}) \ Junk, created[v] >= Since(c)
      PROVE  kept[RumorOf[v]] # None /\ kept[RumorOf[v]].latestEventCreatedAt >= created[v]
    <2>1. CASE v = w
        BY <1>5, <1>7, <2>1
    <2>2. CASE v # w /\ RumorOf[v] = m
        <3>1. memory[m] # None /\ memory[m].latestEventCreatedAt >= created[v]
            BY <1>9, <2>2 DEF Covers
        <3>2. QED BY <1>1, <1>2, <1>6, <1>7, <1>8, <2>2, <3>1
    <2>3. CASE v # w /\ RumorOf[v] # m
        BY <1>1, <1>4, <1>9, <2>3 DEF Covers
    <2>4. QED BY <2>1, <2>2, <2>3
<1>10. QED BY <1>9 DEF Covers, kept

\* What a start seeds from the file covers the wraps the file records.
LEMMA SeededCovers ==
    ASSUME TypeOK, HorizonInv, disk # None
    PROVE  Covers(Seeded(disk), disk.caughtUpAt, disk.recentEventIds)
<1>1. disk \in StateFile
    BY DEF TypeOK
<1>2. /\ disk.caughtUpAt \in Nat /\ disk.recentEventIds \in SUBSET Wraps
      /\ disk.processedRumorIds \in Memory
    BY <1>1 DEF StateFile
<1>3. CASE disk.processedRumorIds # NothingRetained
    <2>1. Covers(disk.processedRumorIds, disk.caughtUpAt, disk.recentEventIds)
        BY <1>3 DEF HorizonInv
    <2>2. QED BY <1>2, <1>3, <2>1, PruneCovers DEF Seeded
<1>4. CASE disk.processedRumorIds = NothingRetained
    <2> SUFFICES ASSUME NEW v \in disk.recentEventIds \ Junk
                 PROVE  /\ Seeded(disk)[RumorOf[v]] # None
                        /\ Seeded(disk)[RumorOf[v]].latestEventCreatedAt >= created[v]
        BY DEF Covers
    <2>1. RumorOf[v] \in Rumors /\ RumorOf[v] \in RecentRumorIds(disk.recentEventIds)
        BY <1>2 DEF RecentRumorIds
    <2>2. Seeded(disk)[RumorOf[v]] = [processedAt |-> now, latestEventCreatedAt |-> FOREVER]
        BY <1>4, <2>1 DEF Seeded
    <2>3. Seeded(disk)[RumorOf[v]] \in Entry /\ created[v] =< FOREVER
        BY <1>2, <2>2 DEF Entry, TypeOK, HorizonInv
    <2>4. QED BY <1>2, <2>2, <2>3 DEF TypeOK
<1>5. QED BY <1>3, <1>4

\* How an arrival or a finished handler changes what is recorded and retained.
Retains(w) ==
    \/ retained' = retained /\ recentEventIds' \ Junk = recentEventIds \ Junk
    \/ retained' = Prune(retained, caughtUpAt) /\ recentEventIds' = recentEventIds
    \/ /\ recentEventIds' = recentEventIds \cup {w}
       /\ LET kept == Retain(Prune(retained, caughtUpAt), RumorOf[w], created[w])
          IN  retained' \in {kept, Prune(kept, caughtUpAt)}

LEMMA RetainsCovers ==
    ASSUME TypeOK, HorizonInv, NEW w \in Wraps, Retains(w)
    PROVE  Covers(retained', caughtUpAt, recentEventIds')
<1>1. retained \in Memory /\ caughtUpAt \in Nat /\ recentEventIds \in SUBSET Wraps
    BY DEF TypeOK
<1>2. Covers(retained, caughtUpAt, recentEventIds)
    BY DEF HorizonInv
<1>3. Covers(Prune(retained, caughtUpAt), caughtUpAt, recentEventIds)
    BY <1>1, <1>2, PruneCovers
<1> DEFINE kept == Retain(Prune(retained, caughtUpAt), RumorOf[w], created[w])
<1>4. Covers(kept, caughtUpAt, recentEventIds \cup {w})
    BY <1>1, <1>3, PruneType, RetainCovers
<1>5. kept \in Memory
    BY <1>1, PruneType, RetainType DEF TypeOK
<1>6. Covers(Prune(kept, caughtUpAt), caughtUpAt, recentEventIds \cup {w})
    <2> HIDE DEF kept
    <2>1. recentEventIds \cup {w} \in SUBSET Wraps
        BY <1>1
    <2>2. QED BY <1>1, <1>4, <1>5, <2>1, PruneCovers
<1>7. recentEventIds' \ Junk = recentEventIds \ Junk =>
          Covers(retained, caughtUpAt, recentEventIds')
    BY <1>2 DEF Covers
<1>8. QED BY <1>3, <1>4, <1>6, <1>7 DEF Retains

LEMMA RetainsStep ==
    ASSUME NEW w \in Wraps, Processed(w) \/ Failed(w) \/ \E r \in Relays : Arrival(w, r)
    PROVE  Retains(w)
<1>1. ASSUME NEW r \in Relays, Arrival(w, r)
      PROVE  Retains(w)
    BY <1>1 DEF Arrival, Duplicate, RejectStale, Postpone, RejectJunk, AlreadyProcessed,
           RumorBusy, SkipOwn, LimitSender, Accept, MarkProcessed, Retains
<1>2. CASE Processed(w) \/ Failed(w)
    BY <1>2 DEF Processed, Failed, MarkProcessed, Retains
<1>3. QED BY <1>1, <1>2

LEMMA AdvanceRaises ==
    ASSUME TypeOK, TypeOK', NEW recorded, TryAdvance(recorded)
    PROVE  caughtUpAt' >= caughtUpAt
<1>1. caughtUpAt \in Nat /\ caughtUpAt' \in Nat
    BY DEF TypeOK
<1>2. CASE CanAdvance'
    <2>1. PICK r \in Relays : caughtUpAt' = Larger(caughtUpAt, relayCatchUp[r].candidate')
        BY <1>2 DEF TryAdvance
    <2>2. relayCatchUp'[r] \in CatchUp
        BY <1>2 DEF CanAdvance, NothingToRetry, Certified, TypeOK
    <2>3. QED BY <1>1, <2>1, <2>2 DEF CatchUp, Larger
<1>3. QED BY <1>1, <1>2 DEF TryAdvance

\* The steps that leave the inbox and the file alone, whatever they do to relays.
Aside ==
    \/ Tick \/ Subscribe \/ Close \/ UNCHANGED vars
    \/ \E w \in Wraps : Authorized(w)
    \/ \E r \in Relays : \/ Eose(r) \/ EoseTimeout(r) \/ ClosedBeforeEose(r)
                          \/ SubscriptionEnds(r) \/ Reconnect(r)

LEMMA HorizonStep ==
    ASSUME CheckpointInv, TypeOK', HorizonInv, [Next]_vars
    PROVE  HorizonInv'
<1> USE DEF envVars, inboxVars, barrierVars, relayVars, fileVars, historyVars
<1>1. /\ TypeOK
      /\ now \in Nat /\ caughtUpAt \in Nat /\ caughtUpAt' \in Nat
      /\ created \in [Wraps -> Nat] /\ recentEventIds \in SUBSET Wraps
      /\ recentEventIds' \in SUBSET Wraps
    BY DEF CheckpointInv, TypeOK
<1> DEFINE Clock == now' + AHEAD =< FOREVER /\ \A w \in Wraps : created'[w] =< FOREVER
           Filed == disk # None /\ disk.processedRumorIds # NothingRetained =>
                      Covers(disk.processedRumorIds, disk.caughtUpAt, disk.recentEventIds)
<1>2. created' = created /\ (now' = now \/ Tick) => Clock
    <2>1. Tick => now' = now + 1 /\ now < MaxTime
        BY DEF Tick
    <2>2. QED BY <1>1, <2>1, ForeverAssumption DEF HorizonInv
<1>3. created' = created /\ disk' = disk => Filed'
    BY DEF HorizonInv, Covers
<1>4. ASSUME NEW w \in Wraps, Retains(w), created' = created, now' = now, disk' = disk,
             caughtUpAt' >= caughtUpAt
      PROVE  HorizonInv'
    <2>1. Covers(retained', caughtUpAt, recentEventIds')
        BY <1>1, <1>4, RetainsCovers
    <2>2. Covers(retained', caughtUpAt', recentEventIds')
        BY <1>1, <1>4, <2>1, CoversLater
    <2>3. Covers(retained, caughtUpAt, recentEventIds)'
        BY <1>4, <2>2 DEF Covers
    <2>4. QED BY <1>2, <1>3, <1>4, <2>3 DEF HorizonInv
<1>5. ASSUME NEW w \in Wraps, NEW r \in Relays, Arrival(w, r)
      PROVE  HorizonInv'
    <2>1. Arrives(w, r) /\ \E recorded \in BOOLEAN : TryAdvance(recorded)
        BY <1>5, ArrivalEffect
    <2>2. caughtUpAt' >= caughtUpAt
        BY <1>1, <2>1, AdvanceRaises
    <2>3. QED BY <1>4, <1>5, <2>1, <2>2, RetainsStep DEF Arrives
<1>6. ASSUME NEW w \in Wraps, Processed(w) \/ Failed(w)
      PROVE  HorizonInv'
    <2>1. LeavesBarrier(w) /\ \E recorded \in BOOLEAN : TryAdvance(recorded)
        BY <1>6, OutcomeEffect
    <2>2. caughtUpAt' >= caughtUpAt
        BY <1>1, <2>1, AdvanceRaises
    <2>3. QED BY <1>4, <1>6, <2>1, <2>2, RetainsStep DEF LeavesBarrier
<1>7. CASE Aside
    <2>1. /\ UNCHANGED <<retained, recentEventIds, created, disk>>
          /\ now' = now \/ Tick
        BY <1>7 DEF Aside, Tick, Subscribe, Close, vars, Authorized, Eose, EoseTimeout,
               ClosedBeforeEose, SubscriptionEnds, Reconnect
    <2>2. caughtUpAt' >= caughtUpAt
        <3>1. ASSUME NEW r \in Relays, Eose(r) PROVE caughtUpAt' >= caughtUpAt
            BY <1>1, <3>1, AdvanceRaises DEF Eose
        <3>2. ASSUME NEW r \in Relays, ClosedBeforeEose(r) PROVE caughtUpAt' >= caughtUpAt
            BY <3>2, CloseAdvance
        <3>3. CASE ~\E r \in Relays : Eose(r) \/ ClosedBeforeEose(r)
            BY <1>1, <1>7, <3>3 DEF Aside, Tick, Subscribe, Close, vars, Authorized, EoseTimeout,
               SubscriptionEnds, Reconnect
        <3>4. QED BY <3>1, <3>2, <3>3
    <2>3. Covers(retained, caughtUpAt', recentEventIds)
        BY <1>1, <2>2, CoversLater DEF HorizonInv
    <2>4. Covers(retained, caughtUpAt, recentEventIds)'
        BY <2>1, <2>3 DEF Covers
    <2>5. QED BY <1>2, <1>3, <2>1, <2>4 DEF HorizonInv
<1>8. ASSUME NEW w \in Wraps, Publish(w)
      PROVE  HorizonInv'
    <2>1. PICK at \in (now - BACKDATE)..(now + AHEAD) : created' = [created EXCEPT ![w] = at]
        BY <1>8 DEF Publish
    <2>2. ~Published(w) /\ UNCHANGED <<now, retained, caughtUpAt, recentEventIds, disk>>
        BY <1>8 DEF Publish, Published
    <2>3. Clock
        BY <1>1, <2>1, <2>2 DEF HorizonInv
    <2>4. w \notin recentEventIds /\ (disk # None => w \notin disk.recentEventIds)
        BY <2>2 DEF CheckpointInv, MemoryInv, IsSettled
    <2>5. disk # None => disk.recentEventIds \subseteq Wraps
        BY <1>1 DEF TypeOK, StateFile
    <2>6. \A v \in Wraps : v # w => created'[v] = created[v]
        BY <1>1, <2>1
    <2>7. Covers(retained, caughtUpAt, recentEventIds)'
        BY <1>1, <2>2, <2>4, <2>6 DEF HorizonInv, Covers
    <2>8. Filed'
        BY <2>2, <2>4, <2>5, <2>6 DEF HorizonInv, Covers
    <2>9. QED BY <2>3, <2>7, <2>8 DEF HorizonInv
<1>9. CASE Start
    <2>1. created' = created /\ now' = now /\ Clock
        BY <1>2, <1>9 DEF Start
    <2>2. CASE disk = None
        <3>1. /\ caughtUpAt' = now /\ UNCHANGED <<retained, recentEventIds>>
              /\ disk'.processedRumorIds = NothingRetained
            BY <1>9, <2>2 DEF Start
        <3>2. caughtUpAt =< now
            BY DEF CheckpointInv, ClockInv
        <3>3. Covers(retained, now, recentEventIds)
            BY <1>1, <3>2, CoversLater DEF HorizonInv
        <3>4. Covers(retained, caughtUpAt, recentEventIds)'
            BY <2>1, <3>1, <3>3 DEF Covers
        <3>5. QED BY <2>1, <3>1, <3>4 DEF HorizonInv
    <2>3. CASE disk # None
        <3>1. /\ caughtUpAt' = disk.caughtUpAt /\ recentEventIds' = disk.recentEventIds
              /\ retained' = Seeded(disk)
              /\ disk' = [disk EXCEPT !.processedRumorIds = Seeded(disk)]
            BY <1>9, <2>3 DEF Start
        <3>2. /\ disk'.caughtUpAt = disk.caughtUpAt /\ disk'.recentEventIds = disk.recentEventIds
              /\ disk'.processedRumorIds = Seeded(disk)
            BY <1>1, <2>3, <3>1 DEF TypeOK, StateFile
        <3>3. Covers(Seeded(disk), disk.caughtUpAt, disk.recentEventIds)
            BY <1>1, <2>3, SeededCovers
        <3>4. Covers(retained, caughtUpAt, recentEventIds)'
            BY <2>1, <3>1, <3>3 DEF Covers
        <3>5. Covers(disk.processedRumorIds, disk.caughtUpAt, disk.recentEventIds)'
            BY <2>1, <3>2, <3>3 DEF Covers
        <3>6. QED BY <2>1, <3>4, <3>5 DEF HorizonInv
    <2>4. QED BY <2>2, <2>3
<1>10. disk' = CurrentState /\ created' = created => Filed'
    <2>1. Covers(Prune(retained, caughtUpAt), caughtUpAt, recentEventIds)
        BY <1>1, PruneCovers DEF TypeOK, HorizonInv
    <2>2. QED BY <2>1 DEF CurrentState, Covers
<1>11. CASE Persist
    <2>1. /\ UNCHANGED <<created, now, caughtUpAt, recentEventIds>> /\ disk' = CurrentState
          /\ retained' = Prune(retained, caughtUpAt)
        BY <1>11 DEF Persist
    <2>2. Covers(Prune(retained, caughtUpAt), caughtUpAt, recentEventIds)
        BY <1>1, PruneCovers DEF TypeOK, HorizonInv
    <2>3. Covers(retained, caughtUpAt, recentEventIds)'
        BY <2>1, <2>2 DEF Covers
    <2>4. QED BY <1>2, <1>10, <2>1, <2>3 DEF HorizonInv
<1>12. CASE FinishClose \/ Crash
    <2>1. /\ UNCHANGED <<created, now>> /\ recentEventIds' = {}
          /\ disk' = disk \/ disk' = CurrentState
        BY <1>12 DEF FinishClose, Crash, Forget
    <2>2. Covers(retained, caughtUpAt, recentEventIds)'
        BY <2>1 DEF Covers
    <2>3. QED BY <1>2, <1>3, <1>10, <2>1, <2>2 DEF HorizonInv
<1>13. CASE LateWrite
    <2>1. /\ UNCHANGED <<created, now, retained, caughtUpAt, recentEventIds>>
          /\ disk'.processedRumorIds = NothingRetained
        BY <1>13 DEF LateWrite
    <2>2. Covers(retained, caughtUpAt, recentEventIds)'
        BY <2>1 DEF HorizonInv, Covers
    <2>3. QED BY <1>2, <2>1, <2>2 DEF HorizonInv
<1>14. QED
    BY <1>5, <1>6, <1>7, <1>8, <1>9, <1>11, <1>12, <1>13 DEF Next, Aside

LEMMA HorizonInit == Init => HorizonInv
BY ForeverAssumption DEF Init, HorizonInv, Covers

\* Only an arrival starts a handler, and only of a rumor the memory does not know; the
\* memory knows every recorded rumor a wrap that is not stale could belong to.
LEMMA DispatchIsNew ==
    ASSUME TypeOK, HorizonInv, NEW w \in Wraps, NEW r \in Relays, Accept(w, r),
           NEW v \in recentEventIds \ Junk, RumorOf[v] = RumorOf[w]
    PROVE  created[v] < created[w]
<1>1. /\ created[v] \in Nat /\ created[w] \in Nat /\ Since(caughtUpAt) \in Nat
      /\ RumorOf[v] \in Rumors /\ retained \in Memory /\ caughtUpAt \in Nat
      /\ recentEventIds \in SUBSET Wraps
    BY SinceNat DEF TypeOK
<1>2. created[w] >= Since(caughtUpAt) /\ Prune(retained, caughtUpAt)[RumorOf[w]] = None
    BY <1>1 DEF Accept, Claims, Readable, IsStale, Knows
<1>3. Covers(Prune(retained, caughtUpAt), caughtUpAt, recentEventIds)
    BY <1>1, PruneCovers DEF HorizonInv
<1>4. ~(created[v] >= Since(caughtUpAt))
    BY <1>2, <1>3 DEF Covers
<1>5. QED BY <1>1, <1>2, <1>4

\* A message that the state file recorded when the lifecycle started, or that it
\* handled itself, is not dispatched again through the same or an older wrap: what
\* claimed-id-tracker prunes, a query from the checkpoint can no longer bring back.
THEOREM NothingIsRepeated == Spec => NoRepeatedDispatch
<1>1. Init => HorizonInv
    BY HorizonInit
<1>2. CheckpointInv /\ CheckpointInv' /\ HorizonInv /\ [Next]_vars => HorizonInv'
    BY HorizonStep DEF CheckpointInv
<1> DEFINE A == \A v \in recentEventIds \ Junk, w \in Wraps :
                    /\ operations[w] = "idle" /\ operations'[w] # "idle"
                    /\ RumorOf[v] = RumorOf[w]
                    => created[v] < created[w]
<1>3. CheckpointInv /\ HorizonInv /\ [Next]_vars => A
    <2> SUFFICES ASSUME CheckpointInv, HorizonInv, [Next]_vars,
                        NEW v \in recentEventIds \ Junk, NEW w \in Wraps,
                        operations[w] = "idle", operations'[w] # "idle",
                        RumorOf[v] = RumorOf[w]
                 PROVE  created[v] < created[w]
        OBVIOUS
    <2> USE DEF envVars, inboxVars, barrierVars, relayVars, fileVars, historyVars
    <2>1. TypeOK
        BY DEF CheckpointInv
    <2>2. ASSUME NEW u \in Wraps, NEW r \in Relays, Arrival(u, r)
          PROVE  created[v] < created[w]
        <3>1. Accept(u, r)
            BY <2>2, ArrivalEffect
        <3>2. u = w
            BY <2>1, <3>1 DEF Accept, TypeOK
        <3>3. QED BY <2>1, <3>1, <3>2, DispatchIsNew
    <2>3. ASSUME NEW u \in Wraps, Authorized(u) \/ Processed(u) \/ Failed(u)
          PROVE  FALSE
        BY <2>1, <2>3 DEF Authorized, Processed, Failed, LeavesBarrier, TypeOK
    <2>4. CASE FinishClose \/ Crash
        BY <2>4 DEF FinishClose, Crash, Forget, NoOperations
    <2>5. CASE \/ Tick \/ Start \/ Subscribe \/ Persist \/ Close \/ LateWrite \/ UNCHANGED vars
               \/ \E u \in Wraps : Publish(u)
               \/ \E r \in Relays : \/ Eose(r) \/ EoseTimeout(r) \/ ClosedBeforeEose(r)
                                     \/ SubscriptionEnds(r) \/ Reconnect(r)
        BY <2>5 DEF Tick, Start, Subscribe, Persist, Close, LateWrite, vars, Publish,
               Eose, EoseTimeout, ClosedBeforeEose, SubscriptionEnds, Reconnect
    <2>6. QED BY <2>2, <2>3, <2>4, <2>5 DEF Next
<1>4. QED BY <1>1, <1>2, <1>3, CheckpointInvariant, PTL DEF Spec, NoRepeatedDispatch
=============================================================================
