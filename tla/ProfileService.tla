--------------------------- MODULE ProfileService ---------------------------
(***************************************************************************)
(* The account's profile: PUT requests that publish it (handleUpdateProfile*)
(* in nostr-profile-http.ts, publishProfile in nostr-bus.ts and            *)
(* nostr-profile.ts), an import that reads it back from the relays         *)
(* (nostr-profile-import.ts), the configuration both of them write, and    *)
(* the account whose bus may stop, start again or crash meanwhile          *)
(* (gateway.ts).                                                           *)
(*                                                                         *)
(* Each PUT sets one field of its own, so a profile is the set of the      *)
(* requests whose field it has.                                            *)
(***************************************************************************)
EXTENDS Integers, FiniteSets, Sequences

CONSTANTS
    Puts,
    Relays,
    None,
    MaxTime, MaxLives, MaxImports   \* bounds of the explored behaviours

ASSUME ProfileAssumption ==
    /\ IsFiniteSet(Relays) /\ Relays # {}
    /\ None \notin Puts
    /\ MaxTime \in Nat /\ MaxLives \in Nat /\ MaxImports \in 0 .. 1

VARIABLES
    now,
    bus,            \* the account's bus: "down", "running" or "closing", and its lifecycle
    stage,          \* per PUT, the await it is suspended in, or how it ended
    merged,         \* per PUT, the profile it publishes
    createdAt,      \* per PUT, created_at of its event
    sending,        \* per PUT, the lifecycle that publishes it and the relays' answers
    lock,           \* publishLocks: requests in the order they take the lock
    lastPublishedAt,    \* the profile-state file, or -1
    config,         \* the profile in the configuration file
    configWrites,   \* mutateConfigFile calls not yet applied
    held,           \* per relay, the profile event it holds, or None
    query,          \* the import: its stage, relays that called back, best event
    reported        \* history: PUTs whose event a relay stored, or met a failed connection

vars == <<now, bus, stage, merged, createdAt, sending, lock, lastPublishedAt,
          config, configWrites, held, query, reported>>

accountVars == <<now, bus>>
relayVars == <<sending, held, reported>>
fileVars == <<lastPublishedAt, config, configWrites>>

Profile == SUBSET Puts

ProfileEvent == [at : Nat, profile : Profile]

Query == [stage : {"idle", "waiting", "saving", "done"},
          eosed : SUBSET Relays, closed : SUBSET Relays,
          best : ProfileEvent \cup {None}]

Ended == {"failed", "saved"}

Answers == {"none", "pending", "stored", "ok", "error"}

TypeOK ==
    /\ now \in Nat
    /\ bus \in [state : {"down", "running", "closing"}, life : Nat]
    /\ stage \in [Puts -> {"new", "queued", "publishing", "configuring"} \cup Ended]
    /\ merged \in [Puts -> Profile]
    /\ createdAt \in [Puts -> Nat]
    /\ sending \in [Puts -> [life : Nat, answers : [Relays -> Answers]]]
    /\ lock \in Seq(Puts)
    /\ lastPublishedAt \in Nat \cup {-1}
    /\ config \in Profile
    /\ configWrites \in Seq([by : Puts \cup {None}, profile : Profile])
    /\ held \in [Relays -> ProfileEvent \cup {None}]
    /\ query \in Query
    /\ reported \subseteq Puts

Sending(n, answer) == [life |-> n, answers |-> [r \in Relays |-> answer]]

NotSending == Sending(0, "none")

NoQuery == [stage |-> "idle", eosed |-> {}, closed |-> {}, best |-> None]

QueryIn(s) == [NoQuery EXCEPT !.stage = s]

Init ==
    /\ now = 0
    /\ bus = [state |-> "down", life |-> 0]
    /\ stage = [q \in Puts |-> "new"]
    /\ merged = [q \in Puts |-> {}]
    /\ createdAt = [q \in Puts |-> 0]
    /\ sending = [q \in Puts |-> NotSending]
    /\ lock = <<>>
    /\ lastPublishedAt = -1
    /\ config = {}
    /\ configWrites = <<>>
    /\ held = [r \in Relays |-> None]
    /\ query = NoQuery
    /\ reported = {}

Tick ==
    /\ now < MaxTime
    /\ now' = now + 1
    /\ UNCHANGED <<bus, stage, merged, createdAt, relayVars, lock, fileVars, query>>

-----------------------------------------------------------------------------
\* startNostrGatewayAccount, once the bus has started.
StartAccount ==
    /\ bus.state = "down" /\ bus.life < MaxLives
    /\ bus' = [state |-> "running", life |-> bus.life + 1]
    /\ UNCHANGED <<now, stage, merged, createdAt, relayVars, lock, fileVars, query>>

\* stop(): the bus closes, and stays registered until it has.
StopAccount ==
    /\ bus.state = "running"
    /\ bus' = [bus EXCEPT !.state = "closing"]
    /\ UNCHANGED <<now, stage, merged, createdAt, relayVars, lock, fileVars, query>>

\* close() has drained, or given up waiting for a publish that is still under way.
AccountStopped ==
    /\ bus.state = "closing"
    /\ bus' = [bus EXCEPT !.state = "down"]
    /\ UNCHANGED <<now, stage, merged, createdAt, relayVars, lock, fileVars, query>>

\* The process ends: requests, lock and unapplied configuration writes are gone.
Crash ==
    /\ bus.state # "down" \/ \E q \in Puts : stage[q] \notin {"new"} \cup Ended
    /\ bus' = [bus EXCEPT !.state = "down"]
    /\ stage' = [q \in Puts |-> IF stage[q] \in {"new"} \cup Ended THEN stage[q] ELSE "failed"]
    /\ sending' = [q \in Puts |-> NotSending]
    /\ lock' = <<>>
    /\ configWrites' = <<>>
    /\ query' = IF query.stage = "idle" THEN query ELSE QueryIn("done")
    /\ UNCHANGED <<now, merged, createdAt, lastPublishedAt, config, held, reported>>

-----------------------------------------------------------------------------
\* The request fails the scope, origin, rate or validation checks.
Rejected(q) ==
    /\ stage[q] = "new"
    /\ stage' = [stage EXCEPT ![q] = "failed"]
    /\ UNCHANGED <<accountVars, merged, createdAt, relayVars, lock, fileVars, query>>

\* The body is valid: it is merged with the configured profile of this moment, and
\* the request waits for the account's publish lock.
Enqueue(q) ==
    /\ stage[q] = "new"
    /\ stage' = [stage EXCEPT ![q] = "queued"]
    /\ merged' = [merged EXCEPT ![q] = config \cup {q}]
    /\ lock' = Append(lock, q)
    /\ UNCHANGED <<accountVars, createdAt, relayVars, fileVars, query>>

\* Mutant: publishes are not serialised.
HoldsNoLock(q) == stage[q] = "queued"

\* withPublishLock: requests publish one at a time, in the order they came.
HoldsLock(q) == lock # <<>> /\ Head(lock) = q

\* The holder is the first of the queue, and leaves it.
Released == Tail(lock)

\* Mutant: a publish that cannot start keeps the lock.
CannotPublishHoldingLock(q) ==
    /\ stage[q] = "queued" /\ HoldsLock(q)
    /\ bus.state # "running"
    /\ stage' = [stage EXCEPT ![q] = "failed"]
    /\ UNCHANGED <<accountVars, merged, createdAt, relayVars, lock, fileVars, query>>

\* No bus is registered for the account, or it is closing.
CannotPublish(q) ==
    /\ stage[q] = "queued" /\ HoldsLock(q)
    /\ bus.state # "running"
    /\ stage' = [stage EXCEPT ![q] = "failed"]
    /\ lock' = Released
    /\ UNCHANGED <<accountVars, merged, createdAt, relayVars, fileVars, query>>

\* Mutants: created_at repeats the last one, or is the clock's.
LastCreatedAt == lastPublishedAt

ClockCreatedAt == now

\* createProfileEvent: later than the last recorded publish, whatever the clock says.
NextCreatedAt == IF lastPublishedAt >= now THEN lastPublishedAt + 1 ELSE now

\* The last publish is read, the event made and sent to every relay.
Publish(q) ==
    /\ stage[q] = "queued" /\ HoldsLock(q)
    /\ bus.state = "running"
    /\ stage' = [stage EXCEPT ![q] = "publishing"]
    /\ createdAt' = [createdAt EXCEPT ![q] = NextCreatedAt]
    /\ sending' = [sending EXCEPT ![q] = Sending(bus.life, "pending")]
    /\ UNCHANGED <<accountVars, merged, lock, fileVars, held, reported, query>>

\* The latest of some events, None being none at all.
Latest(events) == {e \in events \ {None} : \A f \in events \ {None} : f.at =< e.at}

\* The relay stores the event unless it holds a newer one; of two with the same
\* created_at it keeps either.
RelayStores(q, r) ==
    /\ sending[q].answers[r] = "pending"
    /\ sending' = [sending EXCEPT ![q].answers[r] = "stored"]
    /\ reported' = reported \cup {q}
    /\ held' \in {[held EXCEPT ![r] = e] :
                    e \in Latest({held[r], [at |-> createdAt[q], profile |-> merged[q]]})}
    /\ UNCHANGED <<accountVars, stage, merged, createdAt, lock, fileVars, query>>

\* The relay's OK arrives in time.
RelayAccepts(q, r) ==
    /\ sending[q].answers[r] = "stored"
    /\ sending' = [sending EXCEPT ![q].answers[r] = "ok"]
    /\ UNCHANGED <<accountVars, stage, merged, createdAt, held, reported, lock,
                   fileVars, query>>

\* The relay refuses, or its answer does not come before the publish timeout.
RelayFails(q, r) ==
    /\ sending[q].answers[r] \in {"pending", "stored"}
    /\ sending' = [sending EXCEPT ![q].answers[r] = "error"]
    /\ UNCHANGED <<accountVars, stage, merged, createdAt, held, reported, lock,
                   fileVars, query>>

\* No connection to the relay: pool.publish fulfils with "connection failure: ...",
\* which publishProfileEvent counts among the successes.
RelayUnreachable(q, r) ==
    /\ sending[q].answers[r] = "pending"
    /\ sending' = [sending EXCEPT ![q].answers[r] = "ok"]
    /\ reported' = reported \cup {q}
    /\ UNCHANGED <<accountVars, stage, merged, createdAt, held, lock, fileVars, query>>

AllAnswered(q) ==
    /\ stage[q] = "publishing"
    /\ \A r \in Relays : sending[q].answers[r] \in {"ok", "error"}

\* Mutant: the profile is saved although every relay refused it.
SavesAlways(q) == TRUE

Saves(q) == \E r \in Relays : sending[q].answers[r] = "ok"

\* The publish is recorded and the lock released; if it counts a success, a
\* configuration write is queued in the same step, before the next holder can finish.
Published(q) ==
    /\ AllAnswered(q)
    /\ sending[q].life = bus.life /\ bus.state # "down"
    /\ lastPublishedAt' = createdAt[q]
    /\ lock' = Released
    /\ sending' = [sending EXCEPT ![q] = NotSending]
    /\ IF Saves(q)
       THEN /\ stage' = [stage EXCEPT ![q] = "configuring"]
            /\ configWrites' = Append(configWrites, [by |-> q, profile |-> merged[q]])
       ELSE /\ stage' = [stage EXCEPT ![q] = "failed"]
            /\ UNCHANGED configWrites
    /\ UNCHANGED <<accountVars, merged, createdAt, held, reported, config, query>>

\* The lifecycle ended while the relays were answering: nothing is recorded.
PublishAbandoned(q) ==
    /\ AllAnswered(q)
    /\ sending[q].life # bus.life \/ bus.state = "down"
    /\ stage' = [stage EXCEPT ![q] = "failed"]
    /\ lock' = Released
    /\ sending' = [sending EXCEPT ![q] = NotSending]
    /\ UNCHANGED <<accountVars, merged, createdAt, held, reported, fileVars, query>>

\* mutateConfigFile applies the next write, which replaces the whole profile.
ConfigWritten ==
    /\ configWrites # <<>>
    /\ LET write == Head(configWrites) IN
       /\ config' = write.profile
       /\ IF write.by = None
          THEN query' = QueryIn("done") /\ UNCHANGED stage
          ELSE stage' = [stage EXCEPT ![write.by] = "saved"] /\ UNCHANGED query
    /\ configWrites' = Tail(configWrites)
    /\ UNCHANGED <<accountVars, merged, createdAt, relayVars, lock, lastPublishedAt>>

-----------------------------------------------------------------------------
\* importProfileFromRelays: every relay is asked for its profile event.
StartImport ==
    /\ query.stage = "idle" /\ MaxImports = 1
    /\ query' = [query EXCEPT !.stage = "waiting"]
    /\ UNCHANGED <<accountVars, stage, merged, createdAt, relayVars, lock, fileVars>>

\* onevent, before the relay's EOSE: the newest event is kept.
ImportEvent(r) ==
    /\ query.stage = "waiting"
    /\ r \notin query.eosed \cup query.closed
    /\ held[r] # None /\ query.best \notin Latest({held[r], query.best})
    /\ query' = [query EXCEPT !.best = held[r]]
    /\ UNCHANGED <<accountVars, stage, merged, createdAt, relayVars, lock, fileVars>>

\* The import ends: what was found is merged under the configured profile.
Conclude ==
    IF query.best = None
    THEN query' = QueryIn("done") /\ UNCHANGED configWrites
    ELSE /\ query' = QueryIn("saving")
         /\ configWrites' = Append(configWrites, [by |-> None,
                                                  profile |-> config \cup query.best.profile])

\* oneose and onclose: each is counted, and the count ends the wait.
Counted(q) ==
    IF Cardinality(q.eosed) + Cardinality(q.closed) >= Cardinality(Relays)
    THEN Conclude
    ELSE query' = q /\ UNCHANGED configWrites

ImportEose(r) ==
    /\ query.stage = "waiting"
    /\ r \notin query.eosed \cup query.closed
    /\ Counted([query EXCEPT !.eosed = @ \cup {r}])
    /\ UNCHANGED <<accountVars, stage, merged, createdAt, relayVars, lock,
                   lastPublishedAt, config>>

ImportClosed(r) ==
    /\ query.stage = "waiting"
    /\ r \notin query.closed
    /\ Counted([query EXCEPT !.closed = @ \cup {r}])
    /\ UNCHANGED <<accountVars, stage, merged, createdAt, relayVars, lock,
                   lastPublishedAt, config>>

ImportTimeout ==
    /\ query.stage = "waiting"
    /\ Conclude
    /\ UNCHANGED <<accountVars, stage, merged, createdAt, relayVars, lock,
                   lastPublishedAt, config>>

-----------------------------------------------------------------------------
Next ==
    \/ Tick
    \/ StartAccount \/ StopAccount \/ AccountStopped \/ Crash
    \/ \E q \in Puts :
          \/ Rejected(q) \/ Enqueue(q) \/ CannotPublish(q) \/ Publish(q)
          \/ Published(q) \/ PublishAbandoned(q)
    \/ \E q \in Puts, r \in Relays :
          RelayStores(q, r) \/ RelayAccepts(q, r) \/ RelayUnreachable(q, r) \/ RelayFails(q, r)
    \/ ConfigWritten
    \/ StartImport \/ ImportTimeout
    \/ \E r \in Relays : ImportEvent(r) \/ ImportEose(r) \/ ImportClosed(r)

Spec == Init /\ [][Next]_vars

\* Settled promises continue, timeouts fire, configuration writes are applied.
Fairness ==
    /\ \A q \in Puts :
        /\ WF_vars(CannotPublish(q)) /\ WF_vars(Publish(q))
        /\ WF_vars(Published(q)) /\ WF_vars(PublishAbandoned(q))
        /\ \A r \in Relays : WF_vars(RelayFails(q, r))
    /\ WF_vars(ConfigWritten)
    /\ WF_vars(ImportTimeout)

FairSpec == Spec /\ Fairness

-----------------------------------------------------------------------------
\* Every profile event is later than all those published and recorded before it, so
\* that relays, which keep the latest, keep the last one, also when requests overlap,
\* the clock stands still, and the account stops and starts between them.
MonotoneProfile ==
    [][\A p, q \in Puts :
          /\ stage[q] = "queued" /\ stage'[q] = "publishing"
          /\ stage[p] \in {"publishing", "configuring", "saved"}
          => createdAt[p] < createdAt'[q]]_vars

\* The configuration never goes back from a later published profile to an earlier
\* one: writes of concurrent requests are applied in the order of their events.
ConfigInPublishOrder ==
    [][\A p, q \in Puts :
          /\ stage[q] = "configuring" /\ stage'[q] = "saved"
          /\ stage[p] = "saved"
          => createdAt[p] < createdAt[q]]_vars

\* Every field in the configuration, or about to be written to it, was in a profile that
\* some relay has stored, or whose publish met a relay it could not connect to: "only
\* persist if at least one relay succeeded" (handleUpdateProfile) holds up to the
\* connection failures that publishProfileEvent counts as successes, whichever mix of
\* requests and imports the profile was merged by.
SavedWasReported ==
    LET saved == config \cup UNION {configWrites[i].profile : i \in DOMAIN configWrites} IN
    \A q \in saved : \E p \in reported : q \in merged[p]

\* Every request that waits for the lock or for relays is answered, whatever happens
\* to the account and to the requests before it.
EveryRequestEnds == \A q \in Puts : stage[q] = "queued" ~> stage[q] \in Ended

\* "Merge with existing profile to preserve unknown fields" (handleUpdateProfile):
\* the field of a request that was answered as saved stays in the configuration.
NoLostUpdate ==
    [][\A q \in Puts : q \in config => q \in config']_vars

\* "Wait for either all relays to respond or timeout" (importProfileFromRelays).
ImportWaitsForAll ==
    [][\A r \in Relays :
          (ImportEose(r) \/ ImportClosed(r)) /\ query'.stage # "waiting"
          => query.eosed \cup query.closed \cup {r} = Relays]_vars
=============================================================================
