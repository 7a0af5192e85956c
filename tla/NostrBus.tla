------------------------------ MODULE NostrBus ------------------------------
(***************************************************************************)
(* The inbound half of startNostrBus (src/src/nostr-bus.ts): gift wraps    *)
(* arrive from several relays, each is handled at most once, and a         *)
(* checkpoint caughtUpAt moves forward only past what has been handled, so *)
(* that after a reconnect or a restart asking the relays for everything    *)
(* since caughtUpAt - LOOKBACK brings back whatever is still owed.         *)
(*                                                                         *)
(* A wrap is one signed event; several wraps may carry the same rumor, the *)
(* message proper.  The relays and the senders are the environment.  The   *)
(* process may crash, and an account may be closed and started again in    *)
(* the same process; the state file survives both.  What runs to the next  *)
(* await without yielding is one action; so is a state write, which is     *)
(* synchronous.  The subscription of each relay appears here as the        *)
(* contract RelayGenerations; SubscriptionSupervisor implements it.        *)
(***************************************************************************)
EXTENDS Integers, FiniteSets

CONSTANTS
    Relays,
    Wraps,          \* gift-wrap event ids
    Rumors,         \* message ids
    RumorOf,        \* the rumor each wrap carries
    Junk,           \* wraps that carry nothing for us: wrong tag, bad signature, undecryptable
    LOOKBACK,       \* STARTUP_LOOKBACK_SEC
    BACKDATE,       \* how far a sender backdates a wrap (NIP-59)
    AHEAD,          \* how far a sender's clock may be ahead
    SKEW,           \* guardPolicy.maxFutureSkewSec
    RETENTION,      \* replayRetentionMs
    FOREVER,        \* Number.MAX_SAFE_INTEGER
    None,
    MaxTime, MaxGenerations, MaxLives       \* bounds of the explored behaviours

ASSUME BusAssumption ==
    /\ IsFiniteSet(Relays) /\ Relays # {}
    /\ RumorOf \in [Wraps -> Rumors]
    /\ Junk \subseteq Wraps
    /\ LOOKBACK \in Nat /\ BACKDATE \in Nat /\ BACKDATE =< LOOKBACK
    /\ AHEAD \in Nat /\ SKEW \in Nat /\ RETENTION \in Nat /\ FOREVER \in Nat
    /\ MaxTime \in Nat /\ MaxGenerations \in Nat /\ MaxLives \in Nat

\* FOREVER lies beyond every time a wrap may carry.
ASSUME ForeverAssumption == BACKDATE + AHEAD =< FOREVER /\ MaxTime + AHEAD =< FOREVER

VARIABLES
    \* the relays and the clock
    now,
    created,            \* created_at of each published wrap
    storedAt,           \* the relays that hold each wrap; none until it is published
    feed,               \* per relay: what the open subscription still has to send
    \* one lifecycle of the bus
    phase,              \* "down", "starting", "running", "draining"
    caughtUpAt,
    seen,               \* seen tracker: wraps settled for good
    retained,           \* claimed-id tracker: per rumor, when it was processed and its horizon
    recentEventIds,
    operations,         \* per wrap: "idle", or the await its handler is suspended in
    retryableEventIds,
    retiredCatchUpPending,
    relayHealth,        \* per relay: state and generation of its subscription
    relayCatchUp,       \* per relay: catch-up record of one generation, or None
    pendingWrite,       \* the state timer is armed
    \* what outlives a lifecycle
    disk,               \* the bus-state file, or None
    lateWrites,         \* state timers a closed lifecycle left armed, with what they will write
    \* history, for the properties
    lives,              \* lifecycles started so far
    joined,             \* the checkpoint the account's first lifecycle began with
    overlooked,         \* wraps that a close taken for EOSE put behind the checkpoint
    settled             \* rumors that were handled to the end

envVars == <<now, created, storedAt>>
inboxVars == <<seen, retained, recentEventIds, operations, settled>>
barrierVars == <<caughtUpAt, retryableEventIds, retiredCatchUpPending>>
relayVars == <<relayHealth, relayCatchUp, feed>>
fileVars == <<disk, lateWrites>>
historyVars == <<lives, joined, overlooked>>

vars == <<now, created, storedAt, feed, phase, caughtUpAt, seen, retained,
          recentEventIds, operations, retryableEventIds, retiredCatchUpPending,
          relayHealth, relayCatchUp, pendingWrite, disk, lateWrites, lives,
          joined, overlooked, settled>>

Entry == [processedAt : Nat, latestEventCreatedAt : Nat]
CatchUp == [generation : Nat, candidate : Nat, eose : BOOLEAN, pending : SUBSET Wraps]
Feed == [open : BOOLEAN, backlog : SUBSET Wraps, eosed : BOOLEAN]
Memory == [Rumors -> Entry \cup {None}]
StateFile == [caughtUpAt : Nat, recentEventIds : SUBSET Wraps, processedRumorIds : Memory]
Snapshot == [caughtUpAt : Nat, recentEventIds : SUBSET Wraps]

ASSUME NoneAssumption == None \notin Entry /\ None \notin CatchUp /\ None \notin StateFile

TypeOK ==
    /\ now \in Nat
    /\ created \in [Wraps -> Nat]
    /\ storedAt \in [Wraps -> SUBSET Relays]
    /\ feed \in [Relays -> Feed]
    /\ phase \in {"down", "starting", "running", "draining"}
    /\ caughtUpAt \in Nat
    /\ seen \subseteq Wraps
    /\ retained \in Memory
    /\ recentEventIds \subseteq Wraps
    /\ operations \in [Wraps -> {"idle", "authorizing", "handling"}]
    /\ retryableEventIds \subseteq Wraps
    /\ retiredCatchUpPending \subseteq Wraps
    /\ relayHealth \in [Relays -> [state : {"stopped", "connecting", "healthy", "degraded"},
                                   generation : Nat]]
    /\ relayCatchUp \in [Relays -> CatchUp \cup {None}]
    /\ pendingWrite \in BOOLEAN
    /\ disk \in StateFile \cup {None}
    /\ lateWrites \subseteq Snapshot
    /\ lives \in Nat
    /\ joined \in Nat
    /\ overlooked \subseteq Wraps
    /\ settled \subseteq Rumors

NothingRetained == [m \in Rumors |-> None]
NotSubscribed == [open |-> FALSE, backlog |-> {}, eosed |-> FALSE]
Unsubscribed == [state |-> "stopped", generation |-> 0]
NoOperations == [w \in Wraps |-> "idle"]

\* The program has never run; the account's relays are empty.
Init ==
    /\ now = BACKDATE
    /\ created = [w \in Wraps |-> 0]
    /\ storedAt = [w \in Wraps |-> {}]
    /\ feed = [r \in Relays |-> NotSubscribed]
    /\ phase = "down"
    /\ caughtUpAt = 0
    /\ seen = {}
    /\ retained = NothingRetained
    /\ recentEventIds = {}
    /\ operations = NoOperations
    /\ retryableEventIds = {}
    /\ retiredCatchUpPending = {}
    /\ relayHealth = [r \in Relays |-> Unsubscribed]
    /\ relayCatchUp = [r \in Relays |-> None]
    /\ pendingWrite = FALSE
    /\ disk = None
    /\ lateWrites = {}
    /\ lives = 0
    /\ joined = 0
    /\ overlooked = {}
    /\ settled = {}

-----------------------------------------------------------------------------
\* computeReplaySinceTimestamp: where the next subscription starts.
Since(checkpoint) == IF checkpoint > LOOKBACK THEN checkpoint - LOOKBACK ELSE 0

Larger(a, b) == IF a > b THEN a ELSE b

\* Mutant: a processed rumor is forgotten by age alone, queryable or not.
RememberedByAge(entry, checkpoint) ==
    /\ entry # None
    /\ entry.processedAt + RETENTION >= now

\* pruneRetained: a processed rumor is remembered for the retention period, and
\* beyond it while the latest wrap that brought it can still be queried.
Remembered(entry, checkpoint) ==
    /\ entry # None
    /\ \/ entry.processedAt + RETENTION >= now
       \/ entry.latestEventCreatedAt >= Since(checkpoint)

Prune(memory, checkpoint) ==
    [m \in Rumors |-> IF Remembered(memory[m], checkpoint) THEN memory[m] ELSE None]

\* retain: the horizon of a rumor only grows.
Retain(memory, m, eventCreatedAt) ==
    [memory EXCEPT ![m] =
        [processedAt |-> now,
         latestEventCreatedAt |-> IF @ = None THEN eventCreatedAt
                                  ELSE Larger(@.latestEventCreatedAt, eventCreatedAt)]]

\* A wrap is recorded together with its rumor, a rejected one without.
RecentRumorIds(eventIds) == {RumorOf[w] : w \in eventIds \ Junk}

\* Mutant: a file without timestamped ids seeds nothing.
SeededByTimestampOnly(file) == Prune(file.processedRumorIds, file.caughtUpAt)

\* readNostrBusState seeds the tracker from the timestamped ids, or from the plain
\* ones when the file has no timestamped id.
Seeded(file) ==
    IF file.processedRumorIds # NothingRetained
    THEN Prune(file.processedRumorIds, file.caughtUpAt)
    ELSE [m \in Rumors |-> IF m \in RecentRumorIds(file.recentEventIds)
                           THEN [processedAt |-> now, latestEventCreatedAt |-> FOREVER]
                           ELSE None]

\* persistState writes what the lifecycle knows at that moment.
CurrentState == [caughtUpAt |-> caughtUpAt,
                 recentEventIds |-> recentEventIds,
                 processedRumorIds |-> Prune(retained, caughtUpAt)]

-----------------------------------------------------------------------------
NothingToRetry ==
    /\ phase = "running"
    /\ retryableEventIds = {}
    /\ retiredCatchUpPending = {}

\* The relay's current subscription has seen its EOSE, and no handler is under way.
Certified(r) ==
    /\ relayHealth[r].state = "healthy"
    /\ relayCatchUp[r] # None
    /\ relayCatchUp[r].generation = relayHealth[r].generation
    /\ relayCatchUp[r].eose
    /\ relayCatchUp[r].pending = {}

\* tryAdvanceCatchUpCheckpoint: nothing is owed on any relay.
CanAdvance == NothingToRetry /\ \A r \in Relays : Certified(r)

\* The checkpoint follows the relay that subscribed first.  Evaluated at the end of
\* a step, over the state that step leaves; the state timer is armed when the
\* checkpoint may have moved or the step recorded an event.
TryAdvance(recorded) ==
    /\ IF CanAdvance'
       THEN \E r \in Relays :
                /\ \A q \in Relays : relayCatchUp[r].candidate' =< relayCatchUp[q].candidate'
                /\ caughtUpAt' = Larger(caughtUpAt, relayCatchUp[r].candidate')
       ELSE UNCHANGED caughtUpAt
    /\ pendingWrite' = (pendingWrite \/ recorded \/ CanAdvance')

-----------------------------------------------------------------------------
\* The senders and the clock.
Tick ==
    /\ now < MaxTime
    /\ now' = now + 1
    /\ UNCHANGED <<created, storedAt, inboxVars, barrierVars, relayVars, phase,
                   pendingWrite, fileVars, historyVars>>

\* A sender gives a wrap a created_at in the past and hands it to some relays.
Publish(w) ==
    /\ storedAt[w] = {}
    /\ \E at \in (now - BACKDATE)..(now + AHEAD) :
          created' = [created EXCEPT ![w] = at]
    /\ \E holders \in SUBSET Relays \ {{}} :
          storedAt' = [storedAt EXCEPT ![w] = holders]
    /\ UNCHANGED <<now, inboxVars, barrierVars, relayVars, phase,
                   pendingWrite, fileVars, historyVars>>

-----------------------------------------------------------------------------
\* onEvent: relay r sends w on its open subscription, be it backlog, live, sent
\* before, or outside the filter; the subscription is healthy from here on.
Arrives(w, r) ==
    /\ phase = "running"
    /\ feed[r].open
    /\ r \in storedAt[w]
    /\ feed' = [feed EXCEPT ![r].backlog = @ \ {w}]
    /\ relayHealth' = [relayHealth EXCEPT ![r].state = "healthy"]
    /\ UNCHANGED <<envVars, phase, retiredCatchUpPending, fileVars, historyVars>>

\* The handler settles or drops w without waiting for anything: its operation joins
\* the relay's pending set and leaves it again before the next event.
HandledAtOnce(recorded) ==
    /\ UNCHANGED <<relayCatchUp, operations>>
    /\ TryAdvance(recorded)

\* The fast duplicate check, over the seen tracker (which may have forgotten w: it
\* is bounded and its entries expire) and the wraps being handled.
Duplicate(w, r) ==
    /\ Arrives(w, r)
    /\ w \in seen \/ operations[w] # "idle"
    /\ UNCHANGED <<seen, retained, recentEventIds, retryableEventIds, settled>>
    /\ HandledAtOnce(FALSE)

Unclaimed(w) == operations[w] = "idle"

IsStale(w) == created[w] < Since(caughtUpAt)

IsFuture(w) == created[w] > now + SKEW

\* Older than the checkpoint's overlap: settled without being read.
RejectStale(w, r) ==
    /\ Arrives(w, r)
    /\ Unclaimed(w) /\ IsStale(w)
    /\ seen' = seen \cup {w}
    /\ retryableEventIds' = retryableEventIds \ {w}
    /\ UNCHANGED <<retained, recentEventIds, settled>>
    /\ HandledAtOnce(FALSE)

\* Too far in the future, or over the global rate limit: to be tried again.
Postpone(w, r) ==
    /\ Arrives(w, r)
    /\ Unclaimed(w) /\ ~IsStale(w)
    /\ retryableEventIds' = retryableEventIds \cup {w}
    /\ UNCHANGED <<seen, retained, recentEventIds, settled>>
    /\ HandledAtOnce(FALSE)

Readable(w) == Unclaimed(w) /\ ~IsStale(w) /\ ~IsFuture(w)

\* Wrong kind or tag, oversized, bad signature; a wrap that passed the signature
\* check but cannot be decrypted is recorded in the state file too.
RejectJunk(w, r) ==
    /\ Arrives(w, r)
    /\ Readable(w) /\ w \in Junk
    /\ seen' = seen \cup {w}
    /\ retryableEventIds' = retryableEventIds \ {w}
    /\ UNCHANGED <<retained, settled>>
    /\ \/ UNCHANGED recentEventIds /\ HandledAtOnce(FALSE)
       \/ recentEventIds' = recentEventIds \cup {w} /\ HandledAtOnce(TRUE)

Knows(memory, m) == memory[m] # None

RumorInFlight(m) == \E v \in Wraps : RumorOf[v] = m /\ operations[v] # "idle"

\* claim() answers "processed": retained, or still in the tracker's bounded recent
\* list, which holds some of the settled rumors.
AlreadyProcessed(w, r) ==
    /\ Arrives(w, r)
    /\ Readable(w) /\ w \notin Junk
    /\ Knows(Prune(retained, caughtUpAt), RumorOf[w]) \/ RumorOf[w] \in settled
    /\ retained' = Retain(Prune(retained, caughtUpAt), RumorOf[w], created[w])
    /\ seen' = seen \cup {w}
    /\ retryableEventIds' = retryableEventIds \ {w}
    /\ recentEventIds' = recentEventIds \cup {w}
    /\ UNCHANGED settled
    /\ HandledAtOnce(TRUE)

\* claim() answers "inflight": another wrap of the rumor is being handled, and this
\* one is left unmarked in case that handling fails.
RumorBusy(w, r) ==
    /\ Arrives(w, r)
    /\ Readable(w) /\ w \notin Junk
    /\ ~Knows(Prune(retained, caughtUpAt), RumorOf[w])
    /\ RumorInFlight(RumorOf[w])
    /\ retained' = Prune(retained, caughtUpAt)
    /\ UNCHANGED <<seen, recentEventIds, retryableEventIds, settled>>
    /\ HandledAtOnce(FALSE)

\* Mutant: a message is claimed although another wrap of it is being handled.
ClaimsUnlessProcessed(w) ==
    /\ Readable(w) /\ w \notin Junk
    /\ ~Knows(Prune(retained, caughtUpAt), RumorOf[w])

\* claim() answers "claimed".
Claims(w) ==
    /\ Readable(w) /\ w \notin Junk
    /\ ~Knows(Prune(retained, caughtUpAt), RumorOf[w])
    /\ ~RumorInFlight(RumorOf[w])

\* markMessageProcessed: seen, retained with its horizon, recorded.
MarkProcessed(w) ==
    /\ seen' = seen \cup {w}
    /\ retryableEventIds' = retryableEventIds \ {w}
    /\ retained' = Prune(Retain(Prune(retained, caughtUpAt), RumorOf[w], created[w]), caughtUpAt)
    /\ recentEventIds' = recentEventIds \cup {w}
    /\ settled' = settled \cup {RumorOf[w]}

\* The rumor is our own message, coming back from a relay.
SkipOwn(w, r) ==
    /\ Arrives(w, r)
    /\ Claims(w)
    /\ MarkProcessed(w)
    /\ HandledAtOnce(TRUE)

\* Over the sender's rate limit: the claim is released and the wrap tried again.
LimitSender(w, r) ==
    /\ Arrives(w, r)
    /\ Claims(w)
    /\ retryableEventIds' = retryableEventIds \cup {w}
    /\ retained' = Prune(retained, caughtUpAt)
    /\ UNCHANGED <<seen, recentEventIds, settled>>
    /\ HandledAtOnce(FALSE)

\* The handler starts waiting for authorizeSender; the operation is owed to r.
Accept(w, r) ==
    /\ Arrives(w, r)
    /\ Claims(w)
    /\ operations' = [operations EXCEPT ![w] = "authorizing"]
    /\ retained' = Prune(retained, caughtUpAt)
    /\ relayCatchUp' =
          [relayCatchUp EXCEPT ![r].pending =
              IF relayCatchUp[r].generation = relayHealth[r].generation
              THEN @ \cup {w} ELSE @]
    /\ UNCHANGED <<seen, recentEventIds, retryableEventIds, settled>>
    /\ TryAdvance(FALSE)

-----------------------------------------------------------------------------
\* authorizeSender resolved with "allow": onMessage is called.
Authorized(w) ==
    /\ operations[w] = "authorizing"
    /\ operations' = [operations EXCEPT ![w] = "handling"]
    /\ UNCHANGED <<envVars, seen, retained, recentEventIds, settled, barrierVars,
                   relayVars, phase, pendingWrite, fileVars, historyVars>>

\* The operation's promise settles: it leaves the barrier of the generation that
\* started it, or the retired set a reconnect moved it to.
LeavesBarrier(w) ==
    /\ operations' = [operations EXCEPT ![w] = "idle"]
    /\ retiredCatchUpPending' = retiredCatchUpPending \ {w}
    /\ relayCatchUp' = [r \in Relays |->
                          IF relayCatchUp[r] = None THEN None
                          ELSE [relayCatchUp[r] EXCEPT !.pending = @ \ {w}]]
    /\ UNCHANGED <<envVars, relayHealth, feed, phase, fileVars, historyVars>>

\* Mutant: the end of a handler does not retry the checkpoint.
ProcessedQuietly(w) ==
    /\ operations[w] # "idle"
    /\ MarkProcessed(w)
    /\ LeavesBarrier(w)
    /\ pendingWrite' = TRUE
    /\ UNCHANGED caughtUpAt

\* The sender is not allowed, the text is too long, or onMessage resolved.
Processed(w) ==
    /\ operations[w] # "idle"
    /\ MarkProcessed(w)
    /\ LeavesBarrier(w)
    /\ TryAdvance(TRUE)

\* Mutant: a failed message is not kept as owed.
FailedAndDropped(w) ==
    /\ operations[w] # "idle"
    /\ UNCHANGED <<seen, retained, recentEventIds, settled, retryableEventIds>>
    /\ LeavesBarrier(w)
    /\ TryAdvance(FALSE)

\* authorizeSender or onMessage rejected: the claim is released, the wrap is owed.
Failed(w) ==
    /\ operations[w] # "idle"
    /\ retryableEventIds' = retryableEventIds \cup {w}
    /\ UNCHANGED <<seen, retained, recentEventIds, settled>>
    /\ LeavesBarrier(w)
    /\ TryAdvance(FALSE)

-----------------------------------------------------------------------------
\* onEose from the wire: the relay has sent its backlog.
Eose(r) ==
    /\ phase = "running"
    /\ feed[r].open /\ ~feed[r].eosed /\ feed[r].backlog = {}
    /\ feed' = [feed EXCEPT ![r].eosed = TRUE]
    /\ relayHealth' = [relayHealth EXCEPT ![r].state = "healthy"]
    /\ relayCatchUp' = [relayCatchUp EXCEPT ![r].eose =
                          (@ \/ relayCatchUp[r].generation = relayHealth[r].generation)]
    /\ UNCHANGED <<envVars, inboxVars, retryableEventIds, retiredCatchUpPending,
                   phase, fileVars, historyVars>>
    /\ TryAdvance(FALSE)

\* Mutant: the transport's own timeout counts as the relay's EOSE.
EoseTimeoutCounts(r) ==
    /\ phase = "running"
    /\ feed[r].open /\ ~feed[r].eosed
    /\ relayHealth[r].state = "healthy"
    /\ feed' = [feed EXCEPT ![r].eosed = TRUE]
    /\ relayCatchUp' = [relayCatchUp EXCEPT ![r].eose = TRUE]
    /\ UNCHANGED <<envVars, inboxVars, retryableEventIds, retiredCatchUpPending,
                   relayHealth, phase, fileVars, historyVars>>
    /\ TryAdvance(FALSE)

\* The transport gives up waiting for EOSE and calls oneose itself: past the
\* deadline the call certifies nothing.  A subscription that has seen no event
\* by then was ended by its health timeout.
EoseTimeout(r) ==
    /\ phase = "running"
    /\ feed[r].open /\ ~feed[r].eosed
    /\ relayHealth[r].state = "healthy"
    /\ feed' = [feed EXCEPT ![r].eosed = TRUE]
    /\ UNCHANGED <<envVars, inboxVars, barrierVars, relayHealth, relayCatchUp,
                   phase, pendingWrite, fileVars, historyVars>>

\* The close of a subscription counts as its EOSE: with r certified too, nothing is
\* owed on any relay.
CloseCertifies(r) ==
    /\ NothingToRetry
    /\ relayCatchUp[r].generation = relayHealth[r].generation
    /\ relayCatchUp[r].pending = {}
    /\ \A q \in Relays \ {r} : Certified(q)

\* The relay or the connection ends the subscription before EOSE, or refuses it.  The
\* transport calls oneose, with no regard to the backlog that is still to come, and
\* then onclose; tryAdvanceCatchUpCheckpoint runs between the two.
ClosedBeforeEose(r) ==
    /\ phase = "running"
    /\ feed[r].open /\ ~feed[r].eosed
    /\ IF CloseCertifies(r)
       THEN \E p \in Relays :
                /\ \A q \in Relays : relayCatchUp[p].candidate =< relayCatchUp[q].candidate
                /\ caughtUpAt' = Larger(caughtUpAt, relayCatchUp[p].candidate)
       ELSE UNCHANGED caughtUpAt
    /\ pendingWrite' = (pendingWrite \/ CloseCertifies(r))
    /\ overlooked' = overlooked \cup {w \in feed[r].backlog : created[w] < Since(caughtUpAt')}
    /\ relayCatchUp' = [relayCatchUp EXCEPT ![r].eose =
                          (@ \/ relayCatchUp[r].generation = relayHealth[r].generation)]
    /\ feed' = [feed EXCEPT ![r] = NotSubscribed]
    /\ relayHealth' = [relayHealth EXCEPT ![r].state = "degraded"]
    /\ UNCHANGED <<envVars, inboxVars, retryableEventIds, retiredCatchUpPending,
                   phase, fileVars, lives, joined>>

\* Mutant: the state reported for a lost subscription is not one of the bus's.
SubscriptionEndsUnknown(r) ==
    /\ phase = "running"
    /\ feed[r].open
    /\ feed[r].eosed \/ relayHealth[r].state = "connecting"
    /\ feed' = [feed EXCEPT ![r] = NotSubscribed]
    /\ relayHealth' = [relayHealth EXCEPT ![r].state = "closed"]
    /\ UNCHANGED <<envVars, inboxVars, barrierVars, relayCatchUp, phase,
                   pendingWrite, fileVars, historyVars>>

\* onclose alone: the relay or the connection ends a subscription that had its
\* oneose, or the supervisor's health timeout or a subscribe() that throws ends one
\* on which nothing was received.
SubscriptionEnds(r) ==
    /\ phase = "running"
    /\ feed[r].open
    /\ feed[r].eosed \/ relayHealth[r].state = "connecting"
    /\ feed' = [feed EXCEPT ![r] = NotSubscribed]
    /\ relayHealth' = [relayHealth EXCEPT ![r].state = "degraded"]
    /\ UNCHANGED <<envVars, inboxVars, barrierVars, relayCatchUp, phase,
                   pendingWrite, fileVars, historyVars>>

\* subscribe: a fresh catch-up record whose candidate is the time of the query.
NewCatchUp(generation) ==
    [generation |-> generation, candidate |-> now, eose |-> FALSE, pending |-> {}]

\* buildDmFilter: the relay answers with what it holds since the checkpoint.
NewFeed(r) ==
    [open |-> TRUE,
     backlog |-> {w \in Wraps : r \in storedAt[w] /\ created[w] >= Since(caughtUpAt)},
     eosed |-> FALSE]

\* Mutant: the unfinished operations of the old generation leave the barrier.
ReconnectForgetsPending(r) ==
    /\ phase = "running"
    /\ relayHealth[r].state = "degraded"
    /\ relayHealth[r].generation < MaxGenerations
    /\ relayHealth' = [relayHealth EXCEPT ![r] = [state |-> "connecting",
                                                  generation |-> @.generation + 1]]
    /\ relayCatchUp' = [relayCatchUp EXCEPT ![r] = NewCatchUp(relayHealth[r].generation + 1)]
    /\ feed' = [feed EXCEPT ![r] = NewFeed(r)]
    /\ UNCHANGED <<envVars, inboxVars, barrierVars, phase,
                   pendingWrite, fileVars, historyVars>>

\* Mutant: the new subscription keeps the generation of the lost one.
ReconnectSameGeneration(r) ==
    /\ phase = "running"
    /\ relayHealth[r].state = "degraded"
    /\ relayHealth[r].generation < MaxGenerations
    /\ retiredCatchUpPending' = retiredCatchUpPending \cup relayCatchUp[r].pending
    /\ relayHealth' = [relayHealth EXCEPT ![r].state = "connecting"]
    /\ relayCatchUp' = [relayCatchUp EXCEPT ![r] = NewCatchUp(relayHealth[r].generation)]
    /\ feed' = [feed EXCEPT ![r] = NewFeed(r)]
    /\ UNCHANGED <<envVars, inboxVars, caughtUpAt, retryableEventIds, phase,
                   pendingWrite, fileVars, historyVars>>

\* The reconnect timer fires: the unfinished operations of the old generation stay
\* in the barrier as retired ones, and the relay is queried again.
Reconnect(r) ==
    /\ phase = "running"
    /\ relayHealth[r].state = "degraded"
    /\ relayHealth[r].generation < MaxGenerations
    /\ retiredCatchUpPending' = retiredCatchUpPending \cup relayCatchUp[r].pending
    /\ relayHealth' = [relayHealth EXCEPT ![r] = [state |-> "connecting",
                                                  generation |-> @.generation + 1]]
    /\ relayCatchUp' = [relayCatchUp EXCEPT ![r] = NewCatchUp(relayHealth[r].generation + 1)]
    /\ feed' = [feed EXCEPT ![r] = NewFeed(r)]
    /\ UNCHANGED <<envVars, inboxVars, caughtUpAt, retryableEventIds, phase,
                   pendingWrite, fileVars, historyVars>>

-----------------------------------------------------------------------------
\* startNostrBus reads the state file, seeds its memory from it and writes it back.
\* An account without a file starts from now.
Start ==
    /\ phase = "down"
    /\ lives < MaxLives
    /\ lives' = lives + 1
    /\ phase' = "starting"
    /\ IF disk = None
       THEN /\ caughtUpAt' = now
            /\ joined' = now
            /\ UNCHANGED <<seen, recentEventIds, retained>>
            /\ disk' = [caughtUpAt |-> now, recentEventIds |-> {},
                        processedRumorIds |-> NothingRetained]
       ELSE /\ caughtUpAt' = disk.caughtUpAt
            /\ seen' = disk.recentEventIds
            /\ recentEventIds' = disk.recentEventIds
            /\ retained' = Seeded(disk)
            /\ disk' = [disk EXCEPT !.processedRumorIds = Seeded(disk)]
            /\ UNCHANGED joined
    /\ UNCHANGED <<envVars, operations, settled, retryableEventIds,
                   retiredCatchUpPending, relayVars, pendingWrite, lateWrites, overlooked>>

\* The inbox relay list is published and every relay subscribed.
Subscribe ==
    /\ phase = "starting"
    /\ phase' = "running"
    /\ relayHealth' = [r \in Relays |-> [state |-> "connecting", generation |-> 1]]
    /\ relayCatchUp' = [r \in Relays |-> NewCatchUp(1)]
    /\ feed' = [r \in Relays |-> NewFeed(r)]
    /\ UNCHANGED <<envVars, inboxVars, barrierVars, pendingWrite, fileVars, historyVars>>

\* The state timer fires.
Persist ==
    /\ phase \in {"running", "draining"}
    /\ pendingWrite
    /\ pendingWrite' = FALSE
    /\ disk' = CurrentState
    /\ retained' = Prune(retained, caughtUpAt)
    /\ UNCHANGED <<envVars, seen, recentEventIds, operations, settled, barrierVars,
                   relayVars, phase, lateWrites, historyVars>>

\* close(): the subscriptions stop and the handlers get a bounded time to finish.
Close ==
    /\ phase = "running"
    /\ phase' = "draining"
    /\ relayHealth' = [r \in Relays |-> [relayHealth[r] EXCEPT !.state = "stopped"]]
    /\ feed' = [r \in Relays |-> NotSubscribed]
    /\ pendingWrite' = FALSE
    /\ UNCHANGED <<envVars, inboxVars, barrierVars, relayCatchUp, fileVars, historyVars>>

\* What a lifecycle keeps in memory is gone; handlers still running are cut off.
Forget ==
    /\ phase' = "down"
    /\ caughtUpAt' = 0
    /\ seen' = {}
    /\ retained' = NothingRetained
    /\ recentEventIds' = {}
    /\ operations' = NoOperations
    /\ retryableEventIds' = {}
    /\ retiredCatchUpPending' = {}
    /\ relayHealth' = [r \in Relays |-> Unsubscribed]
    /\ relayCatchUp' = [r \in Relays |-> None]
    /\ feed' = [r \in Relays |-> NotSubscribed]
    /\ pendingWrite' = FALSE
    /\ UNCHANGED <<envVars, historyVars, settled>>

\* All handlers finished or the drain timer fired: the state is written a last time
\* and the trackers are cleared.  A state timer that a handler armed during the
\* drain is not cleared, and keeps the closed lifecycle's variables alive.
FinishClose ==
    /\ phase = "draining"
    /\ disk' = CurrentState
    /\ lateWrites' = IF pendingWrite
                     THEN lateWrites \cup {[caughtUpAt |-> caughtUpAt,
                                            recentEventIds |-> recentEventIds]}
                     ELSE lateWrites
    /\ Forget

\* That timer fires: it writes the closed lifecycle's checkpoint and event ids, and
\* no timestamped rumor id, since the tracker is empty by now.
LateWrite ==
    \E s \in lateWrites :
        /\ lateWrites' = lateWrites \ {s}
        /\ disk' = [caughtUpAt |-> s.caughtUpAt,
                    recentEventIds |-> s.recentEventIds,
                    processedRumorIds |-> NothingRetained]
        /\ UNCHANGED <<envVars, inboxVars, barrierVars, relayVars, phase,
                       pendingWrite, historyVars>>

\* The process ends without warning.
Crash ==
    /\ phase # "down" \/ lateWrites # {}
    /\ lateWrites' = {}
    /\ UNCHANGED disk
    /\ Forget

-----------------------------------------------------------------------------
Arrival(w, r) ==
    \/ Duplicate(w, r)
    \/ RejectStale(w, r)
    \/ Postpone(w, r)
    \/ RejectJunk(w, r)
    \/ AlreadyProcessed(w, r)
    \/ RumorBusy(w, r)
    \/ SkipOwn(w, r)
    \/ LimitSender(w, r)
    \/ Accept(w, r)

Next ==
    \/ Tick
    \/ \E w \in Wraps : Publish(w) \/ Authorized(w) \/ Processed(w) \/ Failed(w)
    \/ \E w \in Wraps, r \in Relays : Arrival(w, r)
    \/ \E r \in Relays :
          \/ Eose(r) \/ EoseTimeout(r) \/ ClosedBeforeEose(r)
          \/ SubscriptionEnds(r) \/ Reconnect(r)
    \/ Start
    \/ Subscribe
    \/ Persist
    \/ Close
    \/ FinishClose
    \/ LateWrite
    \/ Crash

Spec == Init /\ [][Next]_vars

-----------------------------------------------------------------------------
\* A published message the account has not handled to the end, sent after it joined.
Unhandled(w) ==
    /\ storedAt[w] # {}
    /\ w \notin Junk
    /\ RumorOf[w] \notin settled
    /\ created[w] >= Since(joined)

\* A query from any of the account's checkpoints brings w back: the one in memory,
\* the one in the state file, and those that forgotten timers will still write.
Reachable(w) ==
    /\ phase # "down" => created[w] >= Since(caughtUpAt)
    /\ disk # None => created[w] >= Since(disk.caughtUpAt)
    /\ \A s \in lateWrites : created[w] >= Since(s.caughtUpAt)

\* No message is skipped: the checkpoint "advances only after every configured
\* relay's current subscription generation has reached EOSE and the handlers queued
\* before that EOSE have settled" (docs/20260909_v1_review_followup.md), so that a
\* query from it brings back every message that is not handled.
NoSkippedMessage == \A w \in Wraps : Unhandled(w) => Reachable(w)

\* A message that no close taken for EOSE has put behind the checkpoint.
Owed(w) == Unhandled(w) /\ w \notin overlooked

\* A message is skipped only where a subscription that still had to send it was
\* closed and its close was taken for EOSE.  Nothing else moves the catch-up barrier
\* of startNostrBus too far: not reconnects, restarts, crashes, failed, limited or
\* still running handlers, EOSE callbacks past the deadline, or late state timers.
SkippedOnlyByClose == \A w \in Wraps : Owed(w) => Reachable(w)

\* At most one handler works on a message at a time, whatever wraps and relays it
\* came through (the claims of handleEvent).
OneHandlerPerRumor ==
    \A v, w \in Wraps :
        operations[v] # "idle" /\ operations[w] # "idle" /\ RumorOf[v] = RumorOf[w] => v = w

\* No wake-up is lost: whenever nothing is owed on any relay, the checkpoint has
\* already been moved to the oldest of the current queries (every event that can
\* complete the condition calls tryAdvanceCatchUpCheckpoint).
NoMissedAdvance ==
    CanAdvance => \E r \in Relays : relayCatchUp[r].candidate =< caughtUpAt

\* A message the state file recorded as handled when the lifecycle started, or that
\* this lifecycle handled, is not dispatched again after a restart or a reconnect,
\* through that wrap or an older one of the same rumor, even when its entry was
\* pruned or the file was rewritten by a late timer (the claimed-id tracker of
\* startNostrBus, its horizons, and readNostrBusState).
NoRepeatedDispatch ==
    [][\A v \in recentEventIds \ Junk, w \in Wraps :
          /\ operations[w] = "idle" /\ operations'[w] # "idle"
          /\ RumorOf[v] = RumorOf[w]
          => created[v] < created[w]]_vars

\* To each relay the bus applies the contract its supervisor implements.
Generations(r) == INSTANCE RelayGenerations WITH
    state <- relayHealth[r].state,
    generation <- relayHealth[r].generation

RelayContract ==
    /\ \A r \in Relays : Generations(r)!Init
    /\ [][\A r \in Relays : Generations(r)!Next \/ UNCHANGED relayHealth[r]]_vars

\* The lifecycle fence: once close() has finished, only a new start writes the file.
ClosedIsSilent == [][phase = "down" /\ disk' # disk => phase' = "starting"]_vars
-----------------------------------------------------------------------------
(***************************************************************************)
(* Why no message is skipped otherwise: the inductive invariant behind     *)
(* SkippedOnlyByClose, in named parts.                                     *)
(***************************************************************************)

\* Querying from this checkpoint brings back every wrap that is still owed.
SafeFrom(checkpoint) == \A w \in Wraps : Owed(w) => created[w] >= Since(checkpoint)

\* Checkpoints and candidates are times of the past, no older than the joining.
ClockInv ==
    /\ now >= BACKDATE
    /\ joined =< now
    /\ caughtUpAt =< now
    /\ phase # "down" => caughtUpAt >= joined
    /\ disk # None => disk.caughtUpAt >= joined /\ disk.caughtUpAt =< now
    /\ \A s \in lateWrites : s.caughtUpAt >= joined /\ s.caughtUpAt =< now
    /\ disk = None => phase = "down" /\ lateWrites = {}
    /\ \A r \in Relays : relayCatchUp[r] # None => relayCatchUp[r].candidate =< now

Published(w) == storedAt[w] # {}

IsSettled(w) == Published(w) /\ (w \in Junk \/ RumorOf[w] \in settled)

\* What counts as handled, in memory, in the file or in a snapshot, is settled; the
\* seen tracker also holds wraps the checkpoint has passed.
MemoryInv ==
    /\ \A w \in seen : Published(w) /\ ~Owed(w)
    /\ \A w \in recentEventIds : IsSettled(w)
    /\ \A m \in Rumors : retained[m] # None => m \in settled
    /\ disk # None => /\ \A w \in disk.recentEventIds : IsSettled(w)
                      /\ \A m \in Rumors : disk.processedRumorIds[m] # None => m \in settled
    /\ \A s \in lateWrites : \A w \in s.recentEventIds : IsSettled(w)

\* The message of this rumor is being handled, or will be asked for again.
InHand(w) == w \in retryableEventIds \/ operations[w] # "idle"

Pursued(m) == \E v \in Wraps \ Junk : RumorOf[v] = m /\ InHand(v)

InBarrier(w) ==
    \/ w \in retiredCatchUpPending
    \/ \E r \in Relays : relayCatchUp[r] # None /\ w \in relayCatchUp[r].pending

\* A handler keeps its wrap in the barrier for as long as it runs, and the checkpoint
\* does not move while a wrap is in hand.
OperationInv ==
    /\ \A w \in Wraps : operations[w] # "idle" => InBarrier(w) /\ w \notin Junk
    /\ \A w \in Wraps : InHand(w) => /\ Published(w) /\ created[w] >= Since(joined)
                                    /\ created[w] >= Since(caughtUpAt)
    /\ phase \in {"down", "starting"} => \A w \in Wraps : ~InHand(w)

\* An open subscription is the current generation's, and only a running bus has one.
RelayInv ==
    \A r \in Relays :
        /\ phase = "running" =>
              /\ relayCatchUp[r] # None
              /\ relayCatchUp[r].generation = relayHealth[r].generation
              /\ relayHealth[r].state = "healthy" => feed[r].open
        /\ feed[r].open => phase = "running"
        /\ feed[r].open /\ relayCatchUp[r].eose => feed[r].backlog = {}

\* What a relay holds and the account is owed is still to be sent by the open
\* subscription, or pursued, or recent enough for the checkpoint to move past.
ObligationInv ==
    \A r \in Relays, w \in Wraps :
        feed[r].open /\ r \in storedAt[w] /\ Owed(w) =>
            \/ created[w] >= Since(relayCatchUp[r].candidate)
            \/ w \in feed[r].backlog
            \/ Pursued(RumorOf[w])

SnapshotInv ==
    /\ SafeFrom(caughtUpAt)
    /\ disk # None => SafeFrom(disk.caughtUpAt)
    /\ \A s \in lateWrites : SafeFrom(s.caughtUpAt)

CheckpointInv ==
    /\ TypeOK
    /\ ClockInv
    /\ MemoryInv
    /\ OperationInv
    /\ RelayInv
    /\ ObligationInv
    /\ SnapshotInv

-----------------------------------------------------------------------------
(***************************************************************************)
(* Why no message is dispatched twice: the invariant behind                *)
(* NoRepeatedDispatch, inductive together with CheckpointInv.              *)
(***************************************************************************)

\* Of the recorded wraps, the memory knows the rumor of each that a query from the
\* checkpoint can bring back, with a horizon that reaches that wrap.
Covers(memory, checkpoint, eventIds) ==
    \A v \in eventIds \ Junk :
        created[v] >= Since(checkpoint) =>
            /\ memory[RumorOf[v]] # None
            /\ memory[RumorOf[v]].latestEventCreatedAt >= created[v]

\* A file without timestamped ids covers nothing; FOREVER stands in for its horizons.
HorizonInv ==
    /\ now + AHEAD =< FOREVER
    /\ \A w \in Wraps : created[w] =< FOREVER
    /\ Covers(retained, caughtUpAt, recentEventIds)
    /\ disk # None /\ disk.processedRumorIds # NothingRetained =>
          Covers(disk.processedRumorIds, disk.caughtUpAt, disk.recentEventIds)
=============================================================================
