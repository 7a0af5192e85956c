# TLA+ models of the OpenClaw Nostr channel (NIP-17)

The program (`src/`) is a TypeScript channel plug-in: it receives encrypted direct messages from
Nostr relays, hands each to an agent at most once at a time, sends replies to the recipient's
inbox relays, and publishes the account's profile.  It runs on one JavaScript thread: code
between two `await`s is atomic, and everything that is hard about it comes from what may happen
*between* two awaits - other messages, other relays, timers, a shutdown, a crash.  The models
take exactly these interleavings, and one action is one such stretch of code.

## 1. Inventory

| component | source | state | operations | why it is hard |
|---|---|---|---|---|
| relay subscription supervisor | `src/subscription-supervisor.ts` | health record, callback token, three timers, the current closer | open, event, EOSE, close, three timers, stop | callbacks of superseded attempts, timers that outlive their attempt, exceptions thrown by `subscribe` |
| inbound bus and checkpoint | `src/nostr-bus.ts` 575-1250 | `caughtUpAt`, `relayCatchUp` per relay, `retiredCatchUpPending`, `retryableEventIds`, `inflight`, state timer | `handleEvent`, EOSE, reconnect, start, close, persist | several relays and reconnects, handlers that fail or outlive a generation, crash and restart, a bounded drain |
| claimed-id tracker | `src/claimed-id-tracker.ts` | claimed, recent and retained rumor ids | claim, retain, release, prune, seed, snapshot | retention by age *and* by query horizon |
| state store | `src/nostr-state-store.ts` | bus-state and profile-state files | read, write | what a restart reads back, fallback for older files |
| seen tracker | `src/seen-tracker.ts` | map and doubly linked list | add, has, peek, delete, clear, seed, prune | a list patched in place by every operation |
| outbound delivery | `src/nostr-bus.ts` 170-258, 395-470, 1147-1163, 1260-1329; `src/nip17.ts` 84-96 | breakers, sends under way | `sendDm`, replies, close | concurrent sends share breakers; results recorded late; close in between |
| relay health tracker, metrics | `src/nostr-bus.ts` 476-570, `src/metrics.ts` | counters | record, read | nothing decides on them |
| rate limiters | `src/nostr-bus.ts` 316-365 | fixed windows per key | `isRateLimited` | window boundary, eviction |
| profile service | `src/nostr-profile*.ts`, `index.ts` | publish lock, profile state, configuration | PUT, import | read-modify-write across awaits, relays that answer in part |
| account lifecycle | `src/gateway.ts`, `src/bus-registry.ts` | registry of running buses, snapshots, listener status | start, abort, stop, `onMessage` | a stop, or a start, that ends after the next start; handlers that outlive their bus |
| TOTP sessions | `src/totp-auth.ts` | per sender a session, a failure count and a lock; used time steps | authenticate | clock boundaries, messages handled again |
| legacy state migration | `doctor-contract-api.ts` | old files, the plug-in's keyed store | detect, migrate | a crash or failure between two steps, two files of one account, a bounded store |
| NIP-17 wrapping, keys | `src/nip17.ts`, `src/nostr-key-utils.ts` | none | wrap, unwrap | cryptography and parsing |
| setup, configuration, routing, exports | `src/channel*.ts`, `src/setup-*.ts`, `src/types.ts`, ... | none | pure functions | no behaviour over time |

How they interact: the gateway starts a bus per account and registers it.  The bus reads the
state file, seeds both trackers, and makes one supervisor per relay.  A supervisor calls back
with events, EOSE and state changes, each tagged with a generation; the bus keeps one catch-up
record per relay and generation and moves its checkpoint over all of them.  A handler calls the
gateway (`authorizeSender`, `onMessage`), which may call back into the bus to reply; replies,
`sendDm` and the profile share the pool, the lifecycle's abort signal and the drain of
`close()`.

What makes each correct: supervisor - exactly the timer its state needs, no leaked subscription,
nothing accepted from an old attempt, it recovers; bus - no unhandled message is ever behind the
checkpoint (which fails: finding 2), a message is handled by one handler at a time, and what the
file records is not dispatched again; seen tracker - it is an LRU list; delivery - an honest
outcome, breakers that open only when earned and recover, silence after close; profile - events
in order, saved only after a relay took one (up to failed connections, below), in that order, no
request left waiting; account - what is shown outside is of a live lifecycle, and what a dead
one still runs has no effect; TOTP - one session per code, dispatch only within a session, few
guesses; migration - nothing lost, nothing overwritten, and it ends.  `PROJECT.json` lists the
hazards line by line, with the properties that would catch each.

## 2. Modules

| module | models | abstract or composed |
|---|---|---|
| `RelayGenerations` | what a supervised subscription promises: numbered generations, connecting / healthy / degraded | abstract specification |
| `SubscriptionSupervisor` | the supervisor in full | implements `RelayGenerations` (`ImplementsContract`) |
| `NostrBus` | inbound bus, claimed-id tracker, bus-state file, senders and relays | each relay follows `RelayGenerations` (`RelayContract`): the bus is checked against the contract, the supervisor against it too |
| `RecencyList` | what the seen tracker's interface promises: which ids it remembers, and in which order | abstract specification |
| `SeenTracker` | the linked list with its index | implements `RecencyList` (`ImplementsInterface`) |
| `OutboundDelivery` | sends, breakers, close | |
| `ProfileService` | update requests, import, lock, configuration, account lifecycle, relays | |
| `TotpAuth` | the authenticator: its state and what one call of `authenticate` makes of it | operators |
| `GatewayAccount` | lifecycles, registry, status, `onMessage` with TOTP | composes `TotpAuth` with the bus as `NostrBus` describes it |
| `StateMigration` | the doctor's migration of one namespace | |
| `*Proofs`, `NostrBusCheckpoint` | theorems | |
| `MC*` | instances for TLC | |

Names follow the source (`caughtUpAt`, `relayCatchUp`, `retryableEventIds`, `callbackToken`,
...).  `PROJECT.json` maps each definition to its lines.  An operator whose comment begins with
*Mutant* is a plausible wrong version of the definition after it; no specification uses it: it
serves to show that the properties notice.

### SubscriptionSupervisor
`callbackToken`, `health`, `connectionTimer`, `stabilityTimer`, `reconnectTimer`, `current` (the
closer) and `stopped` are the closure's variables.  `issued` and `open` are the transport:
subscriptions it may still call back on, however late, and those it still serves.
`OpenSubscription` is the function with its three outcomes (subscribed, thrown, superseded while
it ran).  `MaxFailures` bounds how often a relay fails; delays are left out, so backoff appears
as the retry count.

### NostrBus
A wrap is one signed event; several may carry one rumor, the message.  `feed[r]` is the open
subscription as the relay serves it: what it still has to send of its backlog. `handleEvent` is
one action per outcome (`Duplicate`, `RejectStale`, `Postpone`, `RejectJunk`,
`AlreadyProcessed`, `RumorBusy`, `SkipOwn`, `LimitSender`, `Accept`), followed by `Authorized`,
`Processed` or `Failed` for the ones that wait.  `TryAdvance` is `tryAdvanceCatchUpCheckpoint`,
evaluated at the end of every action that calls it. `Start`, `Subscribe`, `Persist`, `Close`,
`FinishClose`, `LateWrite` and `Crash` are the lifecycle.

Abstractions:
- the state file is written synchronously by the store, so a write is one step; of its fields,
  `lastProcessedAt` and `gatewayStartedAt` matter to old files only and are left out,
  `recentRumorIds` follows from `recentEventIds`, and the cap of 5000 ids is left out;
- the seen tracker forgets (limit, expiry), so a wrap it holds may nevertheless be handled as
  unseen; the claimed-id tracker's bounded list of processed ids is some subset of the settled
  rumors;
- the rate limiters may postpone any event;
- a handler that settles without waiting joins and leaves its relay's barrier in one step (only
  microtasks lie between);
- handlers still running when the drain ends are cut off with the lifecycle (what they may still
  do is in `GatewayAccount`: nothing that reaches the file or the relays);
- a relay sends what it holds in any order, and its own EOSE only after that backlog; it may
  close or refuse the subscription before; a sender's `created_at` lies within `BACKDATE` of the
  past (at most `LOOKBACK`, as NIP-59 and `STARTUP_LOOKBACK_SEC` have it) and `AHEAD` of the
  future;
- milliseconds and seconds are the same unit.

`oneose` reaches the bus from three places of the transport, which are three actions: the
relay's EOSE (`Eose`), the transport's own timeout, which comes past the deadline and is ignored
(`EoseTimeout`), and the close of a subscription that has had no `oneose` yet - refused,
`CLOSED` by the relay, connection lost (`ClosedBeforeEose`). The last one calls `oneose` and
then `onclose`, whatever is left of the backlog, so the catch-up record is completed, the state
is healthy in between, and `tryAdvanceCatchUpCheckpoint` may move the checkpoint.  `overlooked`
is a history variable: the wraps that this very step leaves unsent and puts behind the
checkpoint.  No action reads it.  `NoSkippedMessage` does not mention it, and fails (finding 2);
`SkippedOnlyByClose` says that nothing else in the program skips a message.

### SeenTracker, RecencyList
The entry map and the `head` and `tail` pointers as they are, with the pointer surgery of
`removeFromList`, `insertAtFront` and `moveToFront` as operators on the list, and the loops of
`pruneExpired` and `seed` as functions of their rounds.  `Threads(l, s)` says that the links are
the sequence `s`, from head to tail and back; `WellLinked`, that there is such a sequence, and
the refinement maps the list to it.  `RecencyList` says nothing of loops or links: of a refill,
that the ids that come last are taken, as many as there is room for, and stand in the order of
the list.

### OutboundDelivery
Per send the stage, the newest inbox list received, and the answer of each relay.  A breaker is
a record; only `cooled` is left of the clock: whether `resetMs` have passed since its last
failure.  The failure count is cut at the threshold, beyond which the code does not read it.  A
half-open breaker admits every send until the first of them records a result
(`nostr-bus.ts:443`; the comment above it says one attempt), and so does `CanAttempt`.  The
health score orders relays that are published to at once, so it is left out.  `MaxFailures`
bounds the failures while the bus is open.

### ProfileService
Each PUT sets one field of its own, so a profile is a set of requests, and a merge is a union.
`lock` is the queue of `publishLocks`; `configWrites` the writes handed to the host's
`mutateConfigFile`, which applies them in order (external).  `sending[q]` is one publish: its
lifecycle and each relay's answer.  A relay keeps the latest profile event, and either of two
with the same time.  `RelayUnreachable`: the transport fulfils the publish with `connection
failure: ...` when there is no connection to the relay, and `publishProfileEvent` counts every
fulfilled publish as a success (the DM path tells them apart, `nostr-bus.ts:195-199`).  So a
profile may be saved that no relay holds, although the comment at `nostr-profile-http.ts:451`
has it that at least one relay succeeded. The history variable `reported` has the requests whose
event a relay stored or that met such a failed connection, and `SavedWasReported` says that
nothing else is saved.  A relay whose answer timed out has stored the event by then or never
does.  The rate limit and validation are one outcome, `Rejected`.  The queue of a lock loses its
holder, which is always its head, so releasing is `Tail`.

### TotpAuth, GatewayAccount
`life[n]` is the n-th start of one account: new, starting, aborted, running, closing, closed.
The host waits only a bounded time for a stop, and may abort a start that is still under way, so
lifecycle n+1 may begin as soon as n is aborted or closing, and two of them overlap.
`BusStarted`, `Stop`, `Stopped`, `Health` and `Metric` change the registry, the snapshots and
the status as `start()`, `stop()` and the callbacks do, in whatever order they come.  Each
lifecycle has an authenticator of its own.

`handler[n][m]` is where `onMessage` is suspended with message m: in the access check, in a
reply of the channel, or in the agent's turn.  `Answer`, `WrongGuess`, `Authenticate` and
`Dispatch` are the outcomes of `authenticate` that it tells apart, `Replied`, `Dispatched`,
`HandlerFails` how a wait ends; a lifecycle may end in the middle of each, and its handlers go
on.  `now` advances between any two steps.

Abstractions:
- which handled messages the next lifecycle finds in the state file is `NostrBus`'s matter:
  `StartAccount` takes any subset of them (`Recorded`);
- a code is named by the time step it is of; that two steps may have the same six digits is left
  out, and so is the order in which the three steps around the present are compared;
- `Sent` gives what each message may be, chosen once; `WithTotp` the lifecycles that have a
  secret configured;
- a start that completes after the abort follows the code: it registers its bus and goes
  straight to `stop()`. `LatestIsReachable` is therefore about the bus that registered last;
  that the *running* one can always be found does not hold then (`PROJECT.json`, hazards), and
  nothing in the repository claims it;
- sessions, locks and used codes are per start of the account, and the properties are stated so.

### StateMigration
One run of the doctor: `List` reads and detects the files in one step, `ListMisses` does so when
calls of `readdir` or `readFile` fail, which the code passes over silently; `CheckCapacity`
counts the accounts that are missing, then each file is imported, unless its account has an
entry, and archived. A rejected `register` ends the run, a file that cannot be archived is
passed over with a warning, and `Crash` ends the process between any two steps; a run may follow
at once. `MaxFaults` bounds failures and crashes together.  The keyed store belongs to the host
and is external: `register` writes an account's entry, and for a new key in a store at its bound
pushes out another one.  The bus-state and profile-state migrations run the same code over
namespaces of their own, so the module is about one.

## 3. Runs

| run | instance | shows |
|---|---|---|
| `supervisor` | four failures | `TimerDiscipline`, `NoLeakedSubscription`, `NoStaleCallback`, `StopIsFinal`, `BackoffKept`, the contract, and `Recovers` |
| `bus_restarts` | one relay, two wraps of one message and junk, two lifecycles | the inductive invariant `CheckpointInv`, one handler per message, no repeated dispatch, over crashes and restarts |
| `bus_relays` | two relays, one wrap, two generations each, three ticks | only a close taken for EOSE skips a message (`SkippedOnlyByClose`), the checkpoint waits for the slower relay and no wake-up is lost (`NoMissedAdvance`); `RelayContract` |
| `bus_refused` | one relay, one wrap, one generation | **violated**: `NoSkippedMessage` (finding 2) |
| `bus_late_write` | one wrap, one lifecycle | **violated**: `ClosedIsSilent` (finding 1) |
| `seen_tracker` | three entries, four ids, refills that are too long or repeat an id | list soundness and `RecencyList` |
| `outbound_sends` | two sends, two relays, threshold 2, three failures, a recipient that moves its inbox | honest outcomes, earned breakers, silence after close, drain, recovery |
| `profile` | two requests, an import, two relays, two lifecycles | event order, configuration order, `SavedWasReported`, every request ends |
| `gateway_account` | two lifecycles that may overlap, the first with TOTP; a message that is a right or a wrong code of alice and reaches both, one that is a text or a code of alice, or alice's code from bob | registry, status and the bus registered last; `NoCodeTwice`, `DispatchInSession`, `GuessesAreBounded`; `AbandonedIsQuiet` |
| `state_migration` | two files of one account, one of another, one that does not parse, a store for two of three accounts, three faults | nothing lost, no entry replaced or pushed out, and the migration ends if there is room |
| `profile_lost_update` | two requests, one relay | **violated**: `NoLostUpdate` (finding 3) |
| `profile_import_early` | two relays | **violated**: `ImportWaitsForAll` (finding 4) |

Why the bounds are enough to be interesting.  Two wraps of one message are the least for claims,
duplicates and horizons to interact; two relays the least for one to be ahead; two generations
for a handler to outlive its own; two lifecycles for a restart to read what the first wrote.  In
`bus_refused` time passes between the start and the query, as in an outage, and `LOOKBACK` = 1
makes that long.  In `bus_restarts` `RETENTION` is 0, so that entries age at once and only the
query horizon keeps them, and junk always carries the initial time (`JunkIsOld`); in
`bus_relays` wraps become stale within `LOOKBACK` = 1 of three ticks.  Clocks that run ahead
appear in `bus_late_write` only; the theorems cover them for the rest.  Four supervisor failures
reach every pair of overlapping attempts.  One id more than the seen tracker holds makes every
eviction case happen, and its list has a middle.  Threshold 2 with three failures opens a
breaker, fails a probe, and closes it again.  With two failures allowed, a session and a lock of
two ticks and time up to three, a session expires, a lock begins and ends, and a message whose
handler failed is tried again in each of these states.  Three faults cut a migration off after a
register, let an archive fail, and still leave one for the run that follows.  The theorems of
section 5 cover all other values.

Deadlock checking is off where the bounded system may really stop: all lifecycles used up, the
subscription stopped, every request answered.

### Fairness
Only `FairSpec` of the supervisor, of the outbound half, of the profile service and of the
migration states any. *Supervisor*: the runtime fires timers (stability, reconnect), and a relay
that has used up its failures answers an open subscription.  *Outbound*: promises that settled
continue, the transport settles every publish, time passes.  `BreakersRecover` also needs
messages to be sent again and a list to be found again and again (strong fairness of
`ListArrives`): a breaker is only probed by a send.  `Drains` does not use these.  *Profile*:
settled promises continue, each relay's publish ends by the 5-second timeout, queued
configuration writes are applied, and the import's timer fires.  *Migration*: the owner runs the
doctor until it finds nothing, and its promises settle; faults are bounded. Nothing is assumed
of the relays themselves, of the account's owner, or of crashes.

## 4. Findings

1. `bus_late_write` (`nostr-bus.ts:697`): a handler that ends during the drain of `close()` arms
   the state timer again; `close()` cleared it before the drain and not after it, so it fires
   after `close()` has resolved and writes the file with an emptied tracker, possibly over what
   the next lifecycle has written.  A review note says the lifecycle fence prevents late state
   mutation.  `SkippedOnlyByClose` and `NoRepeatedDispatch` hold nevertheless, late writes
   included: the plain ids in the file still seed the tracker, and the old checkpoint is low
   enough. But `NoRepeatedDispatch` speaks of what a lifecycle knows.  With three lifecycles and
   two messages a late write can put into the file a message that the running lifecycle does not
   know: the first two close with a late timer each, the third starts from what the first left,
   the second's timer then writes its file, and the third dispatches the second's message again.
   So of the ids in the file as it stands nothing is claimed.
2. `bus_refused` (`nostr-bus.ts:1100`): `onEose` tells the relay's EOSE from the transport's
   timeout by the deadline, but not from the `oneose` that comes with a close.  A relay that
   refuses the subscription (`auth-required`, say), closes it, or loses the connection while the
   backlog is under way counts as one that has sent everything; if it is the last one the
   barrier waits for, `caughtUpAt` moves to the time of the query.  The reconnect asks for
   `LOOKBACK` before that, so after a longer outage the messages from before are in no later
   query, of this lifecycle or the next.  The review notes promise that every generation has
   genuine EOSE.  The supervisor expects `oneose` just before a close
   (`subscription-supervisor.ts:96-99`): that is why it keeps its backoff until the stability
   interval has passed.
3. `profile_lost_update` (`nostr-profile-http.ts:438`): the configured profile is read and
   merged before the publish lock is taken.  Of two overlapping updates, the later publishes and
   saves a profile without the earlier one's field, though both are answered as persisted.
4. `profile_import_early` (`nostr-profile-import.ts:151`): EOSE and close of one relay both
   count towards the number of relays, so the import may conclude before another relay has
   answered, and miss a newer profile.

## 5. Proofs (TLAPS)

For every number of relays, wraps, rumors, lifecycles, failures and sends, and every value of
the other constants that satisfies the named assumptions (`BusAssumption`, `NoneAssumption`,
`ForeverAssumption`, `DeliveryAssumption`, `ProfileAssumption`, `TotpAssumption`,
`AccountAssumption`, `MigrationAssumption`, the supervisor's assumption on `MaxFailures`).

* `SubscriptionSupervisorProofs`.  `IInv` joins the type invariant and the safety properties
  with what relates tokens to generations (`IssuedInOrder`), and with when a closer is held
  (`CurrentIsUnderWay`).  From it: `SupervisorTypes`, `TimersDisciplined`, `NothingLeaks`,
  `NothingStale`, `StopsForGood`, `BackoffIsKept`, and the refinement `KeepsContract`: initial
  states map to initial states, every step to a step of `RelayGenerations` or a stutter.
* `NostrBusProofs`: type correctness, and lemmas on the operators (`Since` is monotone, `Prune`
  and `Retain` only keep what they may).
* `NostrBusCheckpoint`: `OnlyClosesSkip`, the theorem about `SkippedOnlyByClose`;
  `NoSkippedMessage` is false, and `Owed` leaves out exactly the `overlooked` wraps. The
  argument: `SkippedOnlyByClose` is not inductive, because the checkpoint moves to a candidate
  on the strength of what subscriptions have sent. `ObligationInv` says of each relay that
  whatever it holds and the account is owed is still to be sent by the open subscription, or is
  *pursued* (some wrap of its message is being handled or is marked for retry), or is recent
  enough to survive a move to this generation's candidate.  `OperationInv` ties running handlers
  to the barrier, and says that a wrap in hand can be queried from the checkpoint; `RelayInv`
  ties the EOSE of an open subscription to an empty backlog, `MemoryInv` says that only settled
  messages are ever recognised as processed, `ClockInv` that candidates lie in the past.  When
  the barrier is clear nothing is pursued and no backlog is left, so every owed wrap is recent
  enough for every candidate, hence for the least.  At a close taken for EOSE the backlog is not
  empty, but whatever of it falls behind the new checkpoint is overlooked by definition, and the
  rest of the argument is the same (`CloseAdvance`, `CloseSafe`).  `OneHandler` follows from the
  claims alone. `NothingIsMissed`: every step that can complete `CanAdvance` ends in
  `TryAdvance`, every other one leaves it false or alone. `ContractIsKept`: every step of the
  bus is a step or a stutter of `RelayGenerations` at every relay; the small invariant
  `HealthInv` (an open subscription has not failed; outside "running" none is open) is what that
  needs.
* `NothingIsRepeated`, in the same module.  What the tracker forgets must be out of reach of the
  queries, over pruning, restarts and files of either kind.  `HorizonInv`, inductive together
  with `CheckpointInv`: of the wraps recorded in memory, and likewise in a file with timestamped
  ids, each that a query from the checkpoint can bring back has its rumor retained, with a
  horizon no earlier than the wrap (`Covers`).  The checkpoint only rises while an account runs
  (`AdvanceRaises`), which weakens `Covers`; `Prune` drops only what lies below it; a restart
  seeds horizons from the file, or `FOREVER` from plain ids.  A wrap that reaches the claim of a
  retained rumor is not dispatched, and one that is not retained is older than the checkpoint
  reaches.  `ForeverAssumption`: no wrap is dated after `FOREVER` (`FOREVER` stands for the
  infinite horizon the code gives the ids of an old file).
* `SeenTrackerProofs`.  The inductive invariant is `TypeOK /\ WellLinked`.  `OneOrder`: the
  links determine the sequence, so the mapping is a function of the list.  `DropHolds`,
  `InsertHolds`, `MoveHolds`: what each piece of pointer surgery makes of the sequence, place by
  place.  From these, `Used` and `Kept` say of every call what becomes of the order, and
  `KeptIsKeep`, `UsedIsUse`, `SeededIsSeed` that this is what `RecencyList` asks.  The loops of
  `pruneExpired` and `seed` need induction over their rounds, which no library theorem can be
  instantiated for; `UpTo` takes it from the well-foundedness of `<` on the numbers, for a set
  of numbers instead of a predicate.  `DropRounds` and `PushRounds` show with it that the
  recursive functions are defined on every round.  Theorems: `TrackerTypeOK` (never more than
  `maxEntries`), `AlwaysWellLinked`, `TrackerImplementsInterface`.
* `OutboundDeliveryProofs`: `BreakersAreEarned` (each operation of one breaker keeps `Earned`, a
  send applies at most one of them to each), `OutcomesAreHonest` (an accepted publish is stored;
  a stage and its answers stay in step) and `ClosedIsQuiet`.

* `ProfileServiceProofs`.  `PublishInv`: only the head of the lock's queue publishes, a publish
  counts a success only if it is `reported`, and relays store only what was merged.  `CoverInv`:
  every field that a relay holds, the import found, or the configuration has or will have was in
  a profile some relay stored or whose publish met a failed connection (`reported`).
  `OrderInv`: saved requests come before those whose write is queued, these stand in order, and
  the one that publishes comes after them all.  From these `OnlyReportedIsSaved`,
  `EventsAreOrdered`, `ConfigurationIsOrdered`.
* `GatewayAccountProofs`.  `SessionInv`: a session was opened by an accepted code, and dated by
  it.  `CodeInv`: an accepted code is still marked as used, or too old to be accepted.
  `GuessInv` relates the failure count and the lock to the times of the last failures: below the
  limit all are counted; at the limit the lock was set by the failure as many places from the
  end as have been counted since.  From these `CodesAreUsedOnce`, `DispatchesAreInSession`,
  `GuessesAreFew`; `RegistryFollowsLife` and `LatestStaysReachable` are inductive with the
  types, and `AbandonedStayQuiet` looks at each step.
* `StateMigrationProofs`.  `KnowledgeInv`: while a run imports, it knows exactly the stored
  keys, and the accounts still to come fit beside them; `CurrentInv`: the file to be archived is
  registered.  `RoomToImport` (a listed account that is missing leaves room for one more, by
  cardinality) then gives `NothingReplaced`, and `CurrentInv` gives `NothingLost`.

Every safety invariant and action property that the passing runs check, and every refinement, is
a theorem.  Only model-checked: liveness (`Recovers`, `Drains`, `BreakersRecover`,
`EveryRequestEnds`, `MigrationEnds`), which rests on fairness and ENABLED, out of the prover's
reach.

## 6. Plan

Done: sections 2 to 5, in the order supervisor, bus, seen tracker, outbound, profile, migration,
account.  Left:

1. `RateLimiter`: what fixed windows promise of any stretch of a window's length, and whose
   count is evicted.  The bus model gives the limiters any verdict, so nothing there waits for
   it.
2. Liveness of the bus: once relays stay up and handlers succeed, every owed message is handled
   and the checkpoint reaches the query time.  `NoMissedAdvance` and `SkippedOnlyByClose` are
   its safety parts; what a close has put behind the checkpoint is not among what it can
   promise.

## 7. Not modelled

Cryptography, key and URL formats, schemas, setup wizards, session routes, exports and metrics
are stateless or write-only; of TOTP the digits and their HMAC; the relay health score orders
relays that are used at once.  The WebSocket pool (`nostr-tools`), the host's gateway,
configuration file, keyed store and queue and agent dispatch are not part of `src/`: they appear
only as the calls and callbacks the code sees, with every order and failure it has to expect.
