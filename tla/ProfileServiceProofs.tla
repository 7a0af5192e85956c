------------------------ MODULE ProfileServiceProofs ------------------------
(***************************************************************************)
(* Proofs about ProfileService, for any number of requests, relays and     *)
(* lifecycles.                                                             *)
(***************************************************************************)
EXTENDS ProfileService, SequenceTheorems, TLAPS

\* Every field was in a profile that a relay has stored, or whose publish met a relay that
\* could not be connected to.
Covered(fields) == \A f \in fields : \E p \in reported : f \in merged[p]

\* Only the holder of the lock publishes, and what relays stored is a merged profile.
PublishInv ==
    /\ \A q \in Puts : stage[q] = "publishing" => lock # <<>> /\ Head(lock) = q
    /\ \A q \in Puts, r \in Relays :
          /\ sending[q].answers[r] # "none" => stage[q] = "publishing"
          /\ sending[q].answers[r] \in {"stored", "ok"} => q \in reported
    /\ \A p \in reported : stage[p] # "new"

\* What relays hold, the import has found, and the configuration has or will have.
CoverInv ==
    /\ Covered(config)
    /\ \A i \in DOMAIN configWrites : Covered(configWrites[i].profile)
    /\ \A r \in Relays : held[r] # None => Covered(held[r].profile)
    /\ query.best # None => Covered(query.best.profile)

\* Saved requests come before those in configWrites, these before the one that publishes.
OrderInv ==
    /\ \A q \in Puts :
          /\ stage[q] \in {"configuring", "saved"} => createdAt[q] =< lastPublishedAt
          /\ stage[q] = "publishing" => createdAt[q] > lastPublishedAt
    /\ \A i \in DOMAIN configWrites : configWrites[i].by # None =>
          /\ stage[configWrites[i].by] = "configuring"
          /\ \A p \in Puts : stage[p] = "saved" => createdAt[p] < createdAt[configWrites[i].by]
          /\ \A j \in DOMAIN configWrites : i < j /\ configWrites[j].by # None =>
                createdAt[configWrites[i].by] < createdAt[configWrites[j].by]

ProfileInv ==
    /\ TypeOK
    /\ PublishInv
    /\ CoverInv
    /\ OrderInv

-----------------------------------------------------------------------------
LEMMA ProfileInit == Init => ProfileInv
<1> SUFFICES ASSUME Init
             PROVE  ProfileInv
    OBVIOUS
<1>1. TypeOK
    <2>1. sending \in [Puts -> [life : Nat, answers : [Relays -> Answers]]]
        BY DEF Init, NotSending, Sending, Answers
    <2>2. query \in Query
        BY DEF Init, NoQuery, Query
    <2>3. lock \in Seq(Puts) /\ configWrites \in Seq([by : Puts \cup {None}, profile : Profile])
        BY DEF Init
    <2>4. bus \in [state : {"down", "running", "closing"}, life : Nat]
        BY DEF Init
    <2>5. /\ merged \in [Puts -> Profile] /\ config \in Profile
          /\ createdAt \in [Puts -> Nat] /\ now \in Nat /\ lastPublishedAt \in Nat \cup {-1}
        BY DEF Init, Profile
    <2>6. /\ stage \in [Puts -> {"new", "queued", "publishing", "configuring"} \cup Ended]
          /\ held \in [Relays -> ProfileEvent \cup {None}] /\ reported \subseteq Puts
        BY DEF Init
    <2>7. QED BY <2>1, <2>2, <2>3, <2>4, <2>5, <2>6 DEF TypeOK
<1>2. PublishInv
    BY DEF Init, PublishInv, NotSending, Sending
<1>3. CoverInv
    BY DEF Init, CoverInv, Covered, NoQuery
<1>4. OrderInv
    BY DEF Init, OrderInv
<1>5. QED BY <1>1, <1>2, <1>3, <1>4 DEF ProfileInv

-----------------------------------------------------------------------------
\* Actions by what they touch.
AccountStep == StartAccount \/ StopAccount \/ AccountStopped

RelayStep(q, r) ==
    RelayStores(q, r) \/ RelayAccepts(q, r) \/ RelayUnreachable(q, r) \/ RelayFails(q, r)

ImportStep ==
    \/ StartImport \/ ImportTimeout
    \/ \E r \in Relays : ImportEvent(r) \/ ImportEose(r) \/ ImportClosed(r)

LEMMA StepKinds ==
    ASSUME [Next]_vars
    PROVE  \/ Tick \/ AccountStep \/ UNCHANGED vars
           \/ Crash
           \/ \E q \in Puts : Rejected(q) \/ CannotPublish(q)
           \/ \E q \in Puts : Enqueue(q)
           \/ \E q \in Puts : Publish(q)
           \/ \E q \in Puts : Published(q)
           \/ \E q \in Puts : PublishAbandoned(q)
           \/ \E q \in Puts, r \in Relays : RelayStep(q, r)
           \/ ConfigWritten
           \/ ImportStep
BY DEF Next, AccountStep, RelayStep, ImportStep

\* What the steps of an import may change.
LEMMA ImportEffect ==
    ASSUME TypeOK, ImportStep
    PROVE  /\ UNCHANGED <<accountVars, stage, merged, createdAt, relayVars, lock,
                          lastPublishedAt, config>>
           /\ query' \in Query
           /\ \/ query'.best \in {None, query.best}
              \/ \E r \in Relays : held[r] # None /\ query'.best = held[r]
           /\ \/ configWrites' = configWrites
              \/ /\ query.best # None
                 /\ configWrites' = Append(configWrites,
                       [by |-> None, profile |-> config \cup query.best.profile])
<1>1. QueryIn("done") \in Query /\ QueryIn("saving") \in Query
      /\ QueryIn("done").best = None /\ QueryIn("saving").best = None
    BY DEF QueryIn, NoQuery, Query
<1>2. ASSUME Conclude
      PROVE  /\ query' \in Query /\ query'.best = None
             /\ \/ configWrites' = configWrites
                \/ /\ query.best # None
                   /\ configWrites' = Append(configWrites,
                         [by |-> None, profile |-> config \cup query.best.profile])
    BY <1>1, <1>2 DEF Conclude
<1>3. CASE StartImport
    BY <1>3 DEF StartImport, TypeOK, Query, fileVars
<1>4. CASE ImportTimeout
    BY <1>2, <1>4 DEF ImportTimeout
<1>5. ASSUME NEW r \in Relays, ImportEvent(r)
      PROVE  /\ query' \in Query /\ held[r] # None /\ query'.best = held[r]
             /\ UNCHANGED <<accountVars, stage, merged, createdAt, relayVars, lock, fileVars>>
    BY <1>5 DEF ImportEvent, TypeOK, Query
<1>6. ASSUME NEW q \in Query, q.best = query.best, Counted(q)
      PROVE  /\ query' \in Query /\ query'.best \in {None, query.best}
             /\ \/ configWrites' = configWrites
                \/ /\ query.best # None
                   /\ configWrites' = Append(configWrites,
                         [by |-> None, profile |-> config \cup query.best.profile])
    BY <1>2, <1>6 DEF Counted
<1>7. CASE \E r \in Relays : ImportEose(r)
    <2>1. PICK r \in Relays : ImportEose(r)
        BY <1>7
    <2> DEFINE q == [query EXCEPT !.eosed = @ \cup {r}]
    <2>2. q \in Query /\ q.best = query.best
        BY DEF TypeOK, Query
    <2>3. Counted(q) /\ UNCHANGED <<accountVars, stage, merged, createdAt, relayVars, lock,
                                    lastPublishedAt, config>>
        BY <2>1 DEF ImportEose
    <2> HIDE DEF q
    <2>4. QED BY <1>6, <2>2, <2>3
<1>8. CASE \E r \in Relays : ImportClosed(r)
    <2>1. PICK r \in Relays : ImportClosed(r)
        BY <1>8
    <2> DEFINE q == [query EXCEPT !.closed = @ \cup {r}]
    <2>2. q \in Query /\ q.best = query.best
        BY DEF TypeOK, Query
    <2>3. Counted(q) /\ UNCHANGED <<accountVars, stage, merged, createdAt, relayVars, lock,
                                    lastPublishedAt, config>>
        BY <2>1 DEF ImportClosed
    <2> HIDE DEF q
    <2>4. QED BY <1>6, <2>2, <2>3
<1>9. QED BY <1>3, <1>4, <1>5, <1>7, <1>8 DEF ImportStep, fileVars

\* A profile is merged from known fields.
LEMMA ProfileTypes ==
    ASSUME TypeOK
    PROVE  /\ \A q \in Puts : merged[q] \in Profile /\ config \cup {q} \in Profile
           /\ \A q \in Puts : [at |-> createdAt[q], profile |-> merged[q]] \in ProfileEvent
           /\ query.best # None => config \cup query.best.profile \in Profile
BY DEF TypeOK, Profile, ProfileEvent, Query

ConfigWrite == [by : Puts \cup {None}, profile : Profile]

\* Both queues stay queues when they are shortened or extended.
LEMMA QueueTypes ==
    ASSUME TypeOK
    PROVE  /\ lock # <<>> => Tail(lock) \in Seq(Puts)
           /\ configWrites \in Seq(ConfigWrite)
           /\ configWrites # <<>> => /\ Head(configWrites) \in ConfigWrite
                                    /\ Tail(configWrites) \in Seq(ConfigWrite)
           /\ \A w \in ConfigWrite : Append(configWrites, w) \in Seq(ConfigWrite)
<1>1. lock \in Seq(Puts) /\ configWrites \in Seq(ConfigWrite)
    BY DEF TypeOK, ConfigWrite
<1>2. QED BY <1>1

LEMMA CreatedAtType ==
    ASSUME TypeOK
    PROVE  NextCreatedAt \in Nat /\ NextCreatedAt > lastPublishedAt
BY DEF NextCreatedAt, TypeOK

\* One relay's answer to one publish.
LEMMA RelayEffect ==
    ASSUME TypeOK, NEW q \in Puts, NEW r \in Relays, RelayStep(q, r)
    PROVE  /\ UNCHANGED <<accountVars, stage, merged, createdAt, lock, fileVars, query>>
           /\ sending[q].answers[r] \in {"pending", "stored"}
           /\ sending' \in [Puts -> [life : Nat, answers : [Relays -> Answers]]]
           /\ \A p \in Puts, s \in Relays :
                 ~(p = q /\ s = r) => sending'[p].answers[s] = sending[p].answers[s]
           /\ reported' \in {reported, reported \cup {q}}
           /\ sending'[q].answers[r] = "stored" => q \in reported'
           /\ sending'[q].answers[r] = "ok" => q \in reported' \/ sending[q].answers[r] = "stored"
           /\ held' \in [Relays -> ProfileEvent \cup {None}]
           /\ \A s \in Relays : held'[s] = held[s] \/ (q \in reported' /\ held'[s].profile = merged[q])
<1>1. PICK to \in {"stored", "ok", "error"} :
         /\ sending' = [sending EXCEPT ![q].answers[r] = to]
         /\ sending[q].answers[r] \in {"pending", "stored"}
         /\ UNCHANGED <<accountVars, stage, merged, createdAt, lock, fileVars, query>>
         /\ to = "stored" => q \in reported'
         /\ to = "ok" => q \in reported' \/ sending[q].answers[r] = "stored"
         /\ reported' \in {reported, reported \cup {q}}
    BY DEF RelayStep, RelayStores, RelayAccepts, RelayUnreachable, RelayFails
<1>2. sending[q].answers \in [Relays -> Answers] /\ sending[q].life \in Nat
    BY DEF TypeOK
<1> DEFINE line == [sending[q] EXCEPT !.answers = [sending[q].answers EXCEPT ![r] = to]]
<1>3. /\ line \in [life : Nat, answers : [Relays -> Answers]]
      /\ line.answers[r] = to
      /\ \A s \in Relays : s # r => line.answers[s] = sending[q].answers[s]
    <2>1. sending[q] \in [life : Nat, answers : [Relays -> Answers]] /\ to \in Answers
        BY <1>1 DEF TypeOK, Answers
    <2>2. QED BY <1>2, <2>1
<1>4. sending' = [sending EXCEPT ![q] = line]
    BY <1>1 DEF TypeOK
<1> HIDE DEF line
<1>5. /\ sending' \in [Puts -> [life : Nat, answers : [Relays -> Answers]]]
      /\ sending'[q] = line /\ \A p \in Puts : p # q => sending'[p] = sending[p]
    BY <1>3, <1>4 DEF TypeOK
<1>6. /\ held' \in [Relays -> ProfileEvent \cup {None}]
      /\ \A s \in Relays : held'[s] = held[s] \/ (q \in reported' /\ held'[s].profile = merged[q])
    <2>1. CASE RelayStores(q, r)
        <3> DEFINE event == [at |-> createdAt[q], profile |-> merged[q]]
        <3>1. PICK e \in Latest({held[r], event}) : held' = [held EXCEPT ![r] = e]
            BY <2>1 DEF RelayStores
        <3>2. e \in {held[r], event}
            BY DEF Latest
        <3>3. event \in ProfileEvent /\ event.profile = merged[q]
            BY ProfileTypes
        <3>4. q \in reported'
            BY <2>1 DEF RelayStores
        <3> HIDE DEF event
        <3>5. QED BY <3>1, <3>2, <3>3, <3>4 DEF TypeOK
    <2>2. CASE UNCHANGED held
        BY <2>2 DEF TypeOK
    <2>3. QED BY <2>1, <2>2 DEF RelayStep, RelayAccepts, RelayUnreachable, RelayFails
<1>7. QED BY <1>1, <1>3, <1>5, <1>6 DEF Answers

LEMMA TypeStep ==
    ASSUME TypeOK, PublishInv, [Next]_vars
    PROVE  TypeOK'
<1>1. CASE Tick \/ AccountStep \/ UNCHANGED vars
    BY <1>1 DEF Tick, AccountStep, StartAccount, StopAccount, AccountStopped, vars, TypeOK,
                relayVars, fileVars
<1>2. CASE Crash
    <2>1. sending' \in [Puts -> [life : Nat, answers : [Relays -> Answers]]]
        BY <1>2 DEF Crash, NotSending, Sending, Answers
    <2>2. query' \in Query
        BY <1>2 DEF Crash, QueryIn, NoQuery, Query, TypeOK
    <2>3. lock' \in Seq(Puts) /\ configWrites' \in Seq(ConfigWrite)
        BY <1>2 DEF Crash
    <2>4. bus' \in [state : {"down", "running", "closing"}, life : Nat]
        BY <1>2 DEF Crash, TypeOK
    <2>5. stage' \in [Puts -> {"new", "queued", "publishing", "configuring"} \cup Ended]
        BY <1>2 DEF Crash, TypeOK, Ended
    <2>6. QED BY <1>2, <2>1, <2>2, <2>3, <2>4, <2>5 DEF Crash, TypeOK, ConfigWrite
<1>3. ASSUME NEW q \in Puts, Rejected(q) \/ CannotPublish(q)
      PROVE  TypeOK'
    <2>1. stage' \in [Puts -> {"new", "queued", "publishing", "configuring"} \cup Ended]
        BY <1>3 DEF Rejected, CannotPublish, TypeOK, Ended
    <2>2. lock' \in Seq(Puts)
        <3>1. lock \in Seq(Puts)
            BY DEF TypeOK
        <3>2. QED BY <1>3, <3>1, QueueTypes DEF Rejected, CannotPublish, HoldsLock, Released
    <2>3. UNCHANGED <<accountVars, merged, createdAt, relayVars, fileVars, query>>
        BY <1>3 DEF Rejected, CannotPublish
    <2>4. QED BY <2>1, <2>2, <2>3 DEF TypeOK, accountVars, relayVars, fileVars
<1>4. ASSUME NEW q \in Puts, Enqueue(q)
      PROVE  TypeOK'
    <2>1. lock' \in Seq(Puts)
        BY <1>4 DEF Enqueue, TypeOK
    <2>2. merged' \in [Puts -> Profile]
        BY <1>4, ProfileTypes DEF Enqueue, TypeOK
    <2>3. QED
        BY <1>4, <2>1, <2>2 DEF Enqueue, TypeOK, accountVars, relayVars, fileVars
<1>5. ASSUME NEW q \in Puts, Publish(q)
      PROVE  TypeOK'
    <2>1. createdAt' \in [Puts -> Nat]
        BY <1>5, CreatedAtType DEF Publish, TypeOK
    <2>2. Sending(bus.life, "pending") \in [life : Nat, answers : [Relays -> Answers]]
        BY DEF Sending, Answers, TypeOK
    <2>3. QED
        BY <1>5, <2>1, <2>2 DEF Publish, TypeOK, accountVars, fileVars
<1>6. ASSUME NEW q \in Puts, Published(q) \/ PublishAbandoned(q)
      PROVE  TypeOK'
    <2>1. stage[q] = "publishing" /\ lock # <<>>
        BY <1>6 DEF Published, PublishAbandoned, AllAnswered, PublishInv
    <2>2. lock' \in Seq(Puts)
        BY <1>6, <2>1, QueueTypes DEF Published, PublishAbandoned, Released
    <2>3. NotSending \in [life : Nat, answers : [Relays -> Answers]]
        BY DEF Sending, NotSending, Answers
    <2>4. sending' \in [Puts -> [life : Nat, answers : [Relays -> Answers]]]
        BY <1>6, <2>3 DEF Published, PublishAbandoned, TypeOK
    <2>5. [by |-> q, profile |-> merged[q]] \in ConfigWrite
        BY ProfileTypes DEF ConfigWrite
    <2>6. configWrites' \in Seq(ConfigWrite)
        BY <1>6, <2>5, QueueTypes DEF Published, PublishAbandoned, fileVars
    <2>7. stage' \in [Puts -> {"new", "queued", "publishing", "configuring"} \cup Ended]
        <3>1. PICK to \in {"configuring", "failed"} : stage' = [stage EXCEPT ![q] = to]
            BY <1>6 DEF Published, PublishAbandoned
        <3>2. QED BY <3>1 DEF TypeOK, Ended
    <2>8. lastPublishedAt' \in Nat \cup {-1}
        BY <1>6 DEF Published, PublishAbandoned, TypeOK, fileVars
    <2>9. UNCHANGED <<accountVars, merged, createdAt, held, reported, config, query>>
        BY <1>6 DEF Published, PublishAbandoned, fileVars
    <2>10. QED BY <2>2, <2>4, <2>6, <2>7, <2>8, <2>9 DEF TypeOK, accountVars, ConfigWrite
<1>7. ASSUME NEW q \in Puts, NEW r \in Relays, RelayStep(q, r)
      PROVE  TypeOK'
    <2>1. reported' \subseteq Puts
        <3>1. reported' \in {reported, reported \cup {q}}
            BY <1>7, RelayEffect
        <3>2. QED BY <3>1 DEF TypeOK
    <2>2. QED BY <1>7, <2>1, RelayEffect DEF TypeOK, accountVars, fileVars
<1>8. CASE ConfigWritten
    <2>1. /\ configWrites # <<>> /\ Head(configWrites) \in ConfigWrite
          /\ configWrites' \in Seq(ConfigWrite)
        BY <1>8, QueueTypes DEF ConfigWritten
    <2>2. query' \in Query
        BY <1>8 DEF ConfigWritten, QueryIn, NoQuery, Query, TypeOK
    <2>3. stage' \in [Puts -> {"new", "queued", "publishing", "configuring"} \cup Ended]
        BY <1>8, <2>1 DEF ConfigWritten, ConfigWrite, TypeOK, Ended
    <2>4. config' \in Profile
        BY <1>8, <2>1 DEF ConfigWritten, ConfigWrite
    <2>5. QED
        BY <1>8, <2>1, <2>2, <2>3, <2>4 DEF ConfigWritten, ConfigWrite, TypeOK, accountVars,
           relayVars
<1>9. CASE ImportStep
    <2>1. query.best # None =>
             [by |-> None, profile |-> config \cup query.best.profile] \in ConfigWrite
        BY ProfileTypes DEF ConfigWrite
    <2>2. configWrites' \in Seq(ConfigWrite)
        <3>1. \/ configWrites' = configWrites
              \/ /\ query.best # None
                 /\ configWrites' = Append(configWrites,
                       [by |-> None, profile |-> config \cup query.best.profile])
            BY <1>9, ImportEffect
        <3>2. QED BY <2>1, <3>1, QueueTypes
    <2>3. /\ UNCHANGED <<accountVars, stage, merged, createdAt, relayVars, lock,
                         lastPublishedAt, config>>
          /\ query' \in Query
        BY <1>9, ImportEffect
    <2>4. QED BY <2>2, <2>3 DEF TypeOK, ConfigWrite, accountVars, relayVars
<1>10. QED
    BY <1>1, <1>2, <1>3, <1>4, <1>5, <1>6, <1>7, <1>8, <1>9, StepKinds

-----------------------------------------------------------------------------
\* The write that is applied next is of a request that waits for it, or of the import.
LEMMA NextWrite ==
    ASSUME TypeOK, OrderInv, configWrites # <<>>
    PROVE  LET by == Head(configWrites).by IN
           /\ by \in Puts \cup {None}
           /\ by # None => by \in Puts /\ stage[by] = "configuring"
           /\ Head(configWrites) = configWrites[1] /\ 1 \in DOMAIN configWrites
           /\ \A i \in DOMAIN Tail(configWrites) :
                 /\ i \in Nat /\ i + 1 \in DOMAIN configWrites
                 /\ Tail(configWrites)[i] = configWrites[i + 1]
<1>1. configWrites \in Seq(ConfigWrite) /\ Head(configWrites) \in ConfigWrite
    BY QueueTypes
<1>2. Head(configWrites) = configWrites[1] /\ 1 \in DOMAIN configWrites
    BY <1>1
<1>3. \A i \in DOMAIN Tail(configWrites) :
         /\ i \in Nat /\ i + 1 \in DOMAIN configWrites
         /\ Tail(configWrites)[i] = configWrites[i + 1]
    BY <1>1
<1>4. QED BY <1>1, <1>2, <1>3 DEF OrderInv, ConfigWrite

\* So is every write a request's or the import's.
LEMMA Writers ==
    ASSUME TypeOK, OrderInv
    PROVE  \A i \in DOMAIN configWrites : configWrites[i].by # None =>
              configWrites[i].by \in Puts /\ stage[configWrites[i].by] = "configuring"
<1>1. configWrites \in Seq(ConfigWrite)
    BY QueueTypes
<1>2. \A i \in DOMAIN configWrites : configWrites[i] \in ConfigWrite
    BY <1>1
<1>3. QED BY <1>2 DEF ConfigWrite, OrderInv

LEMMA PublishStep ==
    ASSUME TypeOK, PublishInv, OrderInv, [Next]_vars
    PROVE  PublishInv'
<1>1. CASE Tick \/ AccountStep \/ UNCHANGED vars
    BY <1>1 DEF Tick, AccountStep, StartAccount, StopAccount, AccountStopped, vars, PublishInv,
                relayVars, fileVars
<1>2. CASE Crash
    BY <1>2 DEF Crash, PublishInv, NotSending, Sending, Ended, TypeOK
<1>3. ASSUME NEW q \in Puts, Rejected(q) \/ CannotPublish(q)
      PROVE  PublishInv'
    <2>1. /\ stage' = [stage EXCEPT ![q] = "failed"] /\ stage[q] # "publishing"
          /\ UNCHANGED relayVars
          /\ UNCHANGED lock \/ (lock # <<>> /\ Head(lock) = q)
        BY <1>3 DEF Rejected, CannotPublish, HoldsLock
    <2>2. \A p \in Puts : stage'[p] = "publishing" <=> stage[p] = "publishing"
        BY <2>1 DEF TypeOK
    <2>3. \A p \in Puts : stage'[p] = "publishing" => lock' # <<>> /\ Head(lock') = p
        BY <2>1, <2>2 DEF PublishInv
    <2>4. \A p \in reported' : stage'[p] # "new"
        BY <2>1 DEF PublishInv, TypeOK, relayVars
    <2>5. QED BY <2>1, <2>2, <2>3, <2>4 DEF PublishInv, relayVars
<1>4. ASSUME NEW q \in Puts, Enqueue(q)
      PROVE  PublishInv'
    <2>1. /\ stage' = [stage EXCEPT ![q] = "queued"] /\ stage[q] = "new"
          /\ lock' = Append(lock, q) /\ UNCHANGED relayVars
        BY <1>4 DEF Enqueue
    <2>2. lock # <<>> => lock' # <<>> /\ Head(lock') = Head(lock)
        <3>1. lock \in Seq(Puts)
            BY DEF TypeOK
        <3>2. QED BY <2>1, <3>1
    <2>3. \A p \in Puts : stage'[p] = "publishing" <=> stage[p] = "publishing"
        BY <2>1 DEF TypeOK
    <2>4. \A p \in reported' : stage'[p] # "new"
        BY <2>1 DEF PublishInv, TypeOK, relayVars
    <2>5. QED BY <2>1, <2>2, <2>3, <2>4 DEF PublishInv, relayVars
<1>5. ASSUME NEW q \in Puts, Publish(q)
      PROVE  PublishInv'
    <2>1. /\ stage' = [stage EXCEPT ![q] = "publishing"] /\ stage[q] = "queued"
          /\ sending' = [sending EXCEPT ![q] = Sending(bus.life, "pending")]
          /\ lock # <<>> /\ Head(lock) = q /\ UNCHANGED <<lock, reported>>
        BY <1>5 DEF Publish, HoldsLock
    <2>2. \A p \in Puts : stage'[p] = "publishing" => lock' # <<>> /\ Head(lock') = p
        BY <2>1 DEF PublishInv, TypeOK
    <2>3. \A r \in Relays : sending'[q].answers[r] = "pending"
        BY <2>1 DEF Sending, TypeOK
    <2>4. \A p \in Puts : p # q => sending'[p] = sending[p] /\ stage'[p] = stage[p]
        BY <2>1 DEF TypeOK
    <2>5. \A p \in reported' : stage'[p] # "new"
        BY <2>1 DEF PublishInv, TypeOK
    <2>6. stage'[q] = "publishing"
        BY <2>1 DEF TypeOK
    <2>7. QED BY <2>1, <2>2, <2>3, <2>4, <2>5, <2>6 DEF PublishInv
<1>6. ASSUME NEW q \in Puts, Published(q) \/ PublishAbandoned(q)
      PROVE  PublishInv'
    <2>1. /\ stage' \in {[stage EXCEPT ![q] = "configuring"], [stage EXCEPT ![q] = "failed"]}
          /\ stage[q] = "publishing"
          /\ sending' = [sending EXCEPT ![q] = NotSending] /\ UNCHANGED <<reported>>
        BY <1>6 DEF Published, PublishAbandoned, AllAnswered
    <2>2. \A p \in Puts : p # q => sending'[p] = sending[p] /\ stage'[p] = stage[p]
        BY <2>1 DEF TypeOK
    <2>3. \A r \in Relays : sending'[q].answers[r] = "none"
        BY <2>1 DEF NotSending, Sending, TypeOK
    <2>4. \A p \in Puts : stage'[p] # "publishing"
        BY <2>1 DEF PublishInv, TypeOK
    <2>5. \A p \in reported' : stage'[p] # "new"
        BY <2>1 DEF PublishInv, TypeOK
    <2>6. \A p \in Puts, r \in Relays : sending'[p].answers[r] = "none"
        BY <2>1, <2>2, <2>3, <2>4 DEF PublishInv
    <2>7. QED BY <2>1, <2>4, <2>5, <2>6 DEF PublishInv
<1>7. ASSUME NEW q \in Puts, NEW r \in Relays, RelayStep(q, r)
      PROVE  PublishInv'
    <2>1. stage[q] = "publishing" /\ UNCHANGED <<stage, lock>>
        BY <1>7, RelayEffect DEF PublishInv
    <2>2. reported' \in {reported, reported \cup {q}}
        BY <1>7, RelayEffect
    <2>3. \A p \in Puts, s \in Relays :
             /\ sending'[p].answers[s] # "none" => stage'[p] = "publishing"
             /\ sending'[p].answers[s] \in {"stored", "ok"} => p \in reported'
        <3> TAKE p \in Puts, s \in Relays
        <3>1. CASE p = q /\ s = r
            BY <1>7, <2>1, <2>2, <3>1, RelayEffect DEF PublishInv
        <3>2. CASE ~(p = q /\ s = r)
            <4>1. sending'[p].answers[s] = sending[p].answers[s]
                BY <1>7, <3>2, RelayEffect
            <4>2. QED BY <2>1, <2>2, <4>1 DEF PublishInv
        <3>3. QED BY <3>1, <3>2
    <2>4. QED BY <2>1, <2>2, <2>3 DEF PublishInv
<1>8. CASE ConfigWritten
    <2> DEFINE by == Head(configWrites).by
    <2>1. /\ configWrites # <<>> /\ UNCHANGED <<relayVars, lock>>
          /\ stage' = IF by = None THEN stage ELSE [stage EXCEPT ![by] = "saved"]
        BY <1>8 DEF ConfigWritten
    <2>2. by # None => by \in Puts /\ stage[by] = "configuring"
        BY <2>1, NextWrite
    <2> HIDE DEF by
    <2>3. \A p \in Puts : stage'[p] # stage[p] => stage[p] = "configuring" /\ stage'[p] = "saved"
        BY <2>1, <2>2 DEF TypeOK
    <2>4. reported \subseteq Puts
        BY DEF TypeOK
    <2>5. \A p \in Puts : /\ stage'[p] = "publishing" <=> stage[p] = "publishing"
                          /\ stage'[p] = "new" <=> stage[p] = "new"
        BY <2>3
    <2>6. QED BY <2>1, <2>4, <2>5 DEF PublishInv, relayVars
<1>9. CASE ImportStep
    BY <1>9, ImportEffect DEF PublishInv, relayVars
<1>10. QED
    BY <1>1, <1>2, <1>3, <1>4, <1>5, <1>6, <1>7, <1>8, <1>9, StepKinds

-----------------------------------------------------------------------------
\* The entries of a queue that one was appended to.
LEMMA Appended ==
    ASSUME TypeOK, NEW w \in ConfigWrite, configWrites' = Append(configWrites, w)
    PROVE  /\ DOMAIN configWrites = 1 .. Len(configWrites) /\ Len(configWrites) \in Nat
           /\ DOMAIN configWrites' = 1 .. Len(configWrites) + 1
           /\ \A i \in DOMAIN configWrites : configWrites'[i] = configWrites[i]
           /\ configWrites'[Len(configWrites) + 1] = w
<1>1. configWrites \in Seq(ConfigWrite)
    BY QueueTypes
<1>2. QED BY <1>1

\* A profile that was reported stays what it was, and stays reported.
LEMMA ReportedStays ==
    ASSUME TypeOK, PublishInv, [Next]_vars
    PROVE  reported \subseteq reported' /\ \A p \in reported : merged'[p] = merged[p]
<1>1. CASE \E q \in Puts : Enqueue(q)
    BY <1>1 DEF Enqueue, PublishInv, TypeOK, relayVars
<1>2. CASE \E q \in Puts, r \in Relays : RelayStep(q, r)
    BY <1>2, RelayEffect
<1>3. CASE ImportStep
    BY <1>3, ImportEffect DEF relayVars
<1>4. CASE \E q \in Puts : Published(q) \/ PublishAbandoned(q) \/ Publish(q)
    BY <1>4 DEF Published, PublishAbandoned, Publish
<1>5. QED
    BY <1>1, <1>2, <1>3, <1>4, StepKinds DEF Tick, AccountStep, StartAccount, StopAccount,
       AccountStopped, Crash, Rejected, CannotPublish, ConfigWritten, vars, relayVars

LEMMA CoverStep ==
    ASSUME TypeOK, PublishInv, OrderInv, CoverInv, [Next]_vars
    PROVE  CoverInv'
<1> DEFINE Now(S) == \A f \in S : \E p \in reported' : f \in merged'[p]
<1>1. \A S : Covered(S) => Now(S)
    BY ReportedStays DEF Covered
<1>2. CASE UNCHANGED <<config, configWrites, held, query>>
    BY <1>1, <1>2 DEF CoverInv, Covered
<1>3. CASE Crash
    <2>1. /\ config' = config /\ held' = held /\ configWrites' = <<>>
          /\ query'.best \in {query.best, None}
        BY <1>3 DEF Crash, QueryIn, NoQuery
    <2>2. Now(config') /\ DOMAIN configWrites' = {}
        BY <1>1, <2>1 DEF CoverInv
    <2>3. \A r \in Relays : held'[r] # None => Now(held'[r].profile)
        BY <1>1, <2>1 DEF CoverInv
    <2>4. query'.best # None => Now(query'.best.profile)
        BY <1>1, <2>1 DEF CoverInv
    <2>5. QED BY <2>2, <2>3, <2>4 DEF CoverInv, Covered
<1>4. ASSUME NEW q \in Puts, Published(q)
      PROVE  CoverInv'
    <2>1. UNCHANGED <<config, held, query>>
        BY <1>4 DEF Published
    <2>2. CASE UNCHANGED configWrites
        BY <1>2, <2>1, <2>2
    <2>3. CASE Saves(q) /\ configWrites' = Append(configWrites, [by |-> q, profile |-> merged[q]])
        <3> DEFINE w == [by |-> q, profile |-> merged[q]]
        <3>1. w \in ConfigWrite /\ w.profile = merged[q]
            BY ProfileTypes DEF ConfigWrite
        <3>2. q \in reported
            BY <2>3 DEF Saves, PublishInv
        <3>3. Now(merged[q])
            BY <1>1, <3>2 DEF Covered
        <3> HIDE DEF w
        <3>4. configWrites' = Append(configWrites, w)
            BY <2>3 DEF w
        <3>5. \A i \in DOMAIN configWrites' : Now(configWrites'[i].profile)
            BY <1>1, <3>1, <3>3, <3>4, Appended DEF CoverInv
        <3>6. QED BY <1>1, <2>1, <3>5 DEF CoverInv, Covered
    <2>4. QED BY <1>4, <2>2, <2>3 DEF Published
<1>5. ASSUME NEW q \in Puts, NEW r \in Relays, RelayStep(q, r)
      PROVE  CoverInv'
    <2>1. UNCHANGED <<config, configWrites, query>>
        BY <1>5, RelayEffect DEF fileVars
    <2>2. \A s \in Relays : held'[s] = held[s] \/ (q \in reported' /\ held'[s].profile = merged'[q])
        BY <1>5, RelayEffect
    <2>3. \A s \in Relays : held'[s] # None => Now(held'[s].profile)
        BY <1>1, <2>2 DEF CoverInv
    <2>4. QED BY <1>1, <2>1, <2>3 DEF CoverInv, Covered
<1>6. CASE ConfigWritten
    <2>1. /\ configWrites # <<>> /\ config' = Head(configWrites).profile
          /\ configWrites' = Tail(configWrites) /\ held' = held
          /\ query'.best \in {query.best, None}
        BY <1>6 DEF ConfigWritten, QueryIn, NoQuery, relayVars
    <2>2. Now(config')
        BY <1>1, <2>1, NextWrite DEF CoverInv
    <2>3. \A i \in DOMAIN configWrites' : Now(configWrites'[i].profile)
        BY <1>1, <2>1, NextWrite DEF CoverInv
    <2>4. QED BY <1>1, <2>1, <2>2, <2>3 DEF CoverInv, Covered
<1>7. CASE ImportStep
    <2>1. UNCHANGED <<config, held>>
        BY <1>7, ImportEffect DEF relayVars
    <2>2. query'.best # None => Now(query'.best.profile)
        <3>1. query'.best \in {None, query.best}
              \/ \E r \in Relays : held[r] # None /\ query'.best = held[r]
            BY <1>7, ImportEffect
        <3>2. QED BY <1>1, <3>1 DEF CoverInv
    <2>3. \A i \in DOMAIN configWrites' : Now(configWrites'[i].profile)
        <3> DEFINE w == [by |-> None, profile |-> config \cup query.best.profile]
        <3>1. CASE configWrites' = configWrites
            BY <1>1, <3>1 DEF CoverInv
        <3>2. CASE query.best # None /\ configWrites' = Append(configWrites, w)
            <4>1. w \in ConfigWrite /\ w.profile = config \cup query.best.profile
                BY <3>2, ProfileTypes DEF ConfigWrite
            <4>2. Now(config) /\ Now(query.best.profile)
                BY <1>1, <3>2 DEF CoverInv
            <4>3. Now(w.profile)
                BY <4>1, <4>2
            <4> HIDE DEF w
            <4>4. QED BY <1>1, <3>2, <4>1, <4>3, Appended DEF CoverInv
        <3>3. QED BY <1>7, <3>1, <3>2, ImportEffect
    <2>4. QED BY <1>1, <2>1, <2>2, <2>3 DEF CoverInv, Covered
<1>8. CASE Tick \/ AccountStep \/ UNCHANGED vars
    BY <1>2, <1>8 DEF Tick, AccountStep, StartAccount, StopAccount, AccountStopped, vars,
       fileVars, relayVars
<1>9. ASSUME NEW q \in Puts,
             \/ Rejected(q) \/ CannotPublish(q) \/ Enqueue(q) \/ Publish(q)
             \/ PublishAbandoned(q)
      PROVE  CoverInv'
    BY <1>2, <1>9 DEF Rejected, CannotPublish, Enqueue, Publish, PublishAbandoned, fileVars,
       relayVars
<1>10. QED
    BY <1>3, <1>4, <1>5, <1>6, <1>7, <1>8, <1>9, StepKinds

-----------------------------------------------------------------------------
LEMMA OrderStep ==
    ASSUME TypeOK, PublishInv, OrderInv, [Next]_vars
    PROVE  OrderInv'
<1>0. /\ createdAt \in [Puts -> Nat] /\ lastPublishedAt \in Int
      /\ \A q \in Puts : createdAt[q] \in Int
    BY DEF TypeOK
<1>1. CASE UNCHANGED <<stage, createdAt, lastPublishedAt, configWrites>>
    BY <1>1 DEF OrderInv
<1>2. CASE Crash
    <2>1. /\ configWrites' = <<>> /\ UNCHANGED <<createdAt, lastPublishedAt>>
          /\ \A q \in Puts : stage'[q] \notin {"publishing", "configuring"}
          /\ \A q \in Puts : stage'[q] = "saved" => stage[q] = "saved"
        BY <1>2 DEF Crash, Ended
    <2>2. QED BY <2>1 DEF OrderInv
\* A request that is neither publishing nor configuring before nor after.
<1>3. ASSUME NEW q \in Puts, NEW to \in {"queued", "failed"},
             stage' = [stage EXCEPT ![q] = to],
             stage[q] \in {"new", "queued", "publishing"},
             UNCHANGED <<createdAt, lastPublishedAt, configWrites>>
      PROVE  OrderInv'
    <2>1. stage'[q] = to /\ \A p \in Puts : p # q => stage'[p] = stage[p]
        BY <1>3 DEF TypeOK
    <2>2. \A i \in DOMAIN configWrites :
             configWrites[i].by # None => configWrites[i].by \in Puts
        BY Writers
    <2>3. QED BY <1>3, <2>1, <2>2 DEF OrderInv
<1>4. ASSUME NEW q \in Puts,
             Rejected(q) \/ CannotPublish(q) \/ Enqueue(q) \/ PublishAbandoned(q)
      PROVE  OrderInv'
    BY <1>3, <1>4 DEF Rejected, CannotPublish, Enqueue, PublishAbandoned, AllAnswered, fileVars
<1>5. ASSUME NEW q \in Puts, Publish(q)
      PROVE  OrderInv'
    <2>1. /\ stage' = [stage EXCEPT ![q] = "publishing"] /\ stage[q] = "queued"
          /\ createdAt' = [createdAt EXCEPT ![q] = NextCreatedAt]
          /\ UNCHANGED <<lastPublishedAt, configWrites>>
        BY <1>5 DEF Publish, fileVars
    <2>2. /\ stage'[q] = "publishing" /\ createdAt'[q] = NextCreatedAt
          /\ \A p \in Puts : p # q => stage'[p] = stage[p] /\ createdAt'[p] = createdAt[p]
        BY <2>1, <1>0 DEF TypeOK
    <2>3. NextCreatedAt > lastPublishedAt
        BY CreatedAtType
    <2>4. \A i \in DOMAIN configWrites : configWrites[i].by # None =>
             configWrites[i].by \in Puts \ {q}
        BY <2>1, Writers
    <2>5. QED BY <2>1, <2>2, <2>3, <2>4 DEF OrderInv
<1>6. ASSUME NEW q \in Puts, Published(q)
      PROVE  OrderInv'
    <2>1. /\ stage[q] = "publishing" /\ lastPublishedAt' = createdAt[q]
          /\ UNCHANGED createdAt
        BY <1>6 DEF Published, AllAnswered
    <2>2. \A p \in Puts : p # q => stage[p] # "publishing"
        BY <2>1 DEF PublishInv
    <2>3. \A p \in Puts : stage[p] \in {"configuring", "saved"} => createdAt[p] < createdAt[q]
        BY <1>0, <2>1 DEF OrderInv
    <2>4. \A i \in DOMAIN configWrites : configWrites[i].by # None =>
             configWrites[i].by \in Puts \ {q}
        BY <2>1, Writers
    <2>5. CASE stage' = [stage EXCEPT ![q] = "failed"] /\ UNCHANGED configWrites
        <3>1. stage'[q] = "failed" /\ \A p \in Puts : p # q => stage'[p] = stage[p]
            BY <2>5 DEF TypeOK
        <3>2. QED BY <1>0, <2>1, <2>2, <2>3, <2>4, <2>5, <3>1 DEF OrderInv
    <2> DEFINE w == [by |-> q, profile |-> merged[q]]
    <2>6. CASE stage' = [stage EXCEPT ![q] = "configuring"]
               /\ configWrites' = Append(configWrites, w)
        <3>1. stage'[q] = "configuring" /\ \A p \in Puts : p # q => stage'[p] = stage[p]
            BY <2>6 DEF TypeOK
        <3>2. w \in ConfigWrite /\ w.by = q
            BY ProfileTypes DEF ConfigWrite
        <3> DEFINE n == Len(configWrites)
        <3> HIDE DEF w
        <3>3. /\ n \in Nat /\ DOMAIN configWrites = 1 .. n /\ DOMAIN configWrites' = 1 .. n + 1
              /\ \A i \in 1 .. n : configWrites'[i] = configWrites[i]
              /\ configWrites'[n + 1].by = q
            BY <2>6, <3>2, Appended
        <3> HIDE DEF n
        <3>4. \A p \in Puts : /\ stage'[p] \in {"configuring", "saved"} =>
                                  createdAt'[p] =< lastPublishedAt'
                              /\ stage'[p] # "publishing"
            BY <1>0, <2>1, <2>2, <2>3, <3>1
        <3>5. ASSUME NEW i \in 1 .. n + 1, configWrites'[i].by # None
              PROVE  /\ stage'[configWrites'[i].by] = "configuring"
                     /\ \A p \in Puts : stage'[p] = "saved" =>
                           createdAt'[p] < createdAt'[configWrites'[i].by]
                     /\ \A j \in 1 .. n + 1 : i < j /\ configWrites'[j].by # None =>
                           createdAt'[configWrites'[i].by] < createdAt'[configWrites'[j].by]
            <4>1. CASE i = n + 1
                BY <2>1, <2>3, <3>1, <3>3, <4>1
            <4>2. CASE i \in 1 .. n
                <5>1. configWrites'[i] = configWrites[i] /\ configWrites[i].by \in Puts \ {q}
                      /\ stage[configWrites[i].by] = "configuring"
                    BY <2>4, <3>3, <3>5, <4>2 DEF OrderInv
                <5>2. \A p \in Puts : stage'[p] = "saved" =>
                         createdAt'[p] < createdAt'[configWrites'[i].by]
                    BY <2>1, <3>1, <3>3, <3>5, <4>2, <5>1 DEF OrderInv
                <5>3. ASSUME NEW j \in 1 .. n + 1, i < j, configWrites'[j].by # None
                      PROVE  createdAt'[configWrites'[i].by] < createdAt'[configWrites'[j].by]
                    <6>1. CASE j = n + 1
                        BY <2>1, <2>3, <3>3, <5>1, <6>1
                    <6>2. CASE j \in 1 .. n
                        BY <2>1, <3>3, <3>5, <4>2, <5>3, <6>2 DEF OrderInv
                    <6>3. QED BY <3>3, <6>1, <6>2
                <5>4. QED BY <3>1, <5>1, <5>2, <5>3
            <4>3. QED BY <3>3, <4>1, <4>2
        <3>6. QED BY <3>3, <3>4, <3>5 DEF OrderInv
    <2>7. QED BY <1>6, <2>5, <2>6 DEF Published
<1>7. CASE ConfigWritten
    <2> DEFINE by == Head(configWrites).by
    <2>1. /\ configWrites # <<>> /\ configWrites' = Tail(configWrites)
          /\ stage' = IF by = None THEN stage ELSE [stage EXCEPT ![by] = "saved"]
          /\ UNCHANGED <<createdAt, lastPublishedAt>>
        BY <1>7 DEF ConfigWritten
    <2>2. /\ by # None => by \in Puts /\ stage[by] = "configuring"
          /\ by = configWrites[1].by /\ 1 \in DOMAIN configWrites
          /\ \A i \in DOMAIN configWrites' :
                /\ i \in Nat /\ i + 1 \in DOMAIN configWrites
                /\ configWrites'[i] = configWrites[i + 1]
        BY <2>1, NextWrite
    <2>3. \A i \in DOMAIN configWrites : configWrites[i].by # None => configWrites[i].by \in Puts
        BY Writers
    <2>4. \A i \in DOMAIN configWrites' : i > 0
        BY <2>1, QueueTypes
    <2> HIDE DEF by
    <2>5. \A p \in Puts : \/ stage'[p] = stage[p] /\ p # by
                          \/ by # None /\ p = by /\ stage[p] = "configuring" /\ stage'[p] = "saved"
                          \/ by = None /\ stage'[p] = stage[p]
        BY <2>1, <2>2 DEF TypeOK
    <2>6. ASSUME NEW i \in DOMAIN configWrites', configWrites'[i].by # None, by # None
          PROVE  createdAt[by] < createdAt[configWrites'[i].by]
        <3>1. 1 < i + 1
            BY <2>2, <2>4
        <3>2. QED BY <2>2, <2>6, <3>1 DEF OrderInv
    <2>7. ASSUME NEW i \in DOMAIN configWrites', configWrites'[i].by # None
          PROVE  /\ stage'[configWrites'[i].by] = "configuring"
                 /\ \A p \in Puts : stage'[p] = "saved" =>
                       createdAt'[p] < createdAt'[configWrites'[i].by]
                 /\ \A j \in DOMAIN configWrites' : i < j /\ configWrites'[j].by # None =>
                       createdAt'[configWrites'[i].by] < createdAt'[configWrites'[j].by]
        <3>1. /\ i + 1 \in DOMAIN configWrites /\ configWrites'[i] = configWrites[i + 1]
              /\ configWrites'[i].by \in Puts /\ stage[configWrites'[i].by] = "configuring"
            BY <2>2, <2>3, <2>7 DEF OrderInv
        <3>2. by # None => configWrites'[i].by # by
            BY <1>0, <2>2, <2>6, <2>7
        <3>3. stage'[configWrites'[i].by] = "configuring"
            BY <2>5, <3>1, <3>2
        <3>4. ASSUME NEW p \in Puts, stage'[p] = "saved"
              PROVE  createdAt'[p] < createdAt'[configWrites'[i].by]
            <4>1. CASE stage[p] = "saved"
                BY <2>1, <2>7, <3>1, <4>1 DEF OrderInv
            <4>2. CASE by # None /\ p = by
                BY <2>1, <2>6, <2>7, <4>2
            <4>3. QED BY <2>5, <3>4, <4>1, <4>2
        <3>5. ASSUME NEW j \in DOMAIN configWrites', i < j, configWrites'[j].by # None
              PROVE  createdAt'[configWrites'[i].by] < createdAt'[configWrites'[j].by]
            <4>1. i + 1 < j + 1
                BY <2>2, <3>5
            <4>2. QED BY <2>1, <2>2, <2>7, <3>5, <4>1 DEF OrderInv
        <3>6. QED BY <3>3, <3>4, <3>5
    <2>8. \A p \in Puts :
             /\ stage'[p] \in {"configuring", "saved"} => createdAt'[p] =< lastPublishedAt'
             /\ stage'[p] = "publishing" => createdAt'[p] > lastPublishedAt'
        BY <2>1, <2>5 DEF OrderInv
    <2>9. QED BY <2>7, <2>8 DEF OrderInv
<1>8. CASE ImportStep
    <2>1. UNCHANGED <<stage, createdAt, lastPublishedAt>>
        BY <1>8, ImportEffect
    <2>2. CASE UNCHANGED configWrites
        BY <1>1, <2>1, <2>2
    <2> DEFINE w == [by |-> None, profile |-> config \cup query.best.profile]
    <2>3. CASE query.best # None /\ configWrites' = Append(configWrites, w)
        <3>1. w \in ConfigWrite /\ w.by = None
            BY <2>3, ProfileTypes DEF ConfigWrite
        <3> HIDE DEF w
        <3>2. \A i \in DOMAIN configWrites' : configWrites'[i].by # None =>
                 i \in DOMAIN configWrites /\ configWrites'[i] = configWrites[i]
            BY <2>3, <3>1, Appended
        <3>3. QED BY <2>1, <3>2 DEF OrderInv
    <2>4. QED BY <1>8, <2>2, <2>3, ImportEffect
<1>9. CASE Tick \/ AccountStep \/ UNCHANGED vars
    BY <1>1, <1>9 DEF Tick, AccountStep, StartAccount, StopAccount, AccountStopped, vars,
       fileVars
<1>10. ASSUME NEW q \in Puts, NEW r \in Relays, RelayStep(q, r)
       PROVE  OrderInv'
    BY <1>1, <1>10, RelayEffect DEF fileVars
<1>11. QED
    BY <1>2, <1>4, <1>5, <1>6, <1>7, <1>8, <1>9, <1>10, StepKinds

\* Only Publish starts to publish.
LEMMA PublishOnly ==
    ASSUME TypeOK, OrderInv, [Next]_vars, NEW q \in Puts,
           stage[q] = "queued", stage'[q] = "publishing"
    PROVE  Publish(q)
<1>1. CASE Tick \/ AccountStep \/ UNCHANGED vars
    BY <1>1 DEF Tick, AccountStep, StartAccount, StopAccount, AccountStopped, vars
<1>2. CASE Crash
    BY <1>2 DEF Crash
<1>3. CASE \E p \in Puts : \/ Rejected(p) \/ CannotPublish(p) \/ Enqueue(p)
                           \/ Published(p) \/ PublishAbandoned(p)
    BY <1>3 DEF Rejected, CannotPublish, Enqueue, Published, PublishAbandoned, TypeOK
<1>4. CASE \E p \in Puts : Publish(p)
    BY <1>4 DEF Publish, TypeOK
<1>5. CASE ConfigWritten
    BY <1>5 DEF ConfigWritten, TypeOK
<1>6. CASE ImportStep \/ \E p \in Puts, r \in Relays : RelayStep(p, r)
    BY <1>6, ImportEffect, RelayEffect
<1>7. QED BY <1>1, <1>2, <1>3, <1>4, <1>5, <1>6, StepKinds

\* Only ConfigWritten ends a request as saved.
LEMMA SaveOnly ==
    ASSUME TypeOK, [Next]_vars, NEW q \in Puts, stage[q] = "configuring", stage'[q] = "saved"
    PROVE  ConfigWritten
<1>1. CASE Tick \/ AccountStep \/ UNCHANGED vars
    BY <1>1 DEF Tick, AccountStep, StartAccount, StopAccount, AccountStopped, vars
<1>2. CASE Crash
    BY <1>2 DEF Crash, Ended
<1>3. CASE \E p \in Puts : \/ Rejected(p) \/ CannotPublish(p) \/ Enqueue(p) \/ Publish(p)
                           \/ Published(p) \/ PublishAbandoned(p)
    BY <1>3 DEF Rejected, CannotPublish, Enqueue, Publish, Published, PublishAbandoned, TypeOK
<1>4. CASE ImportStep \/ \E p \in Puts, r \in Relays : RelayStep(p, r)
    BY <1>4, ImportEffect, RelayEffect
<1>5. QED BY <1>1, <1>2, <1>3, <1>4, StepKinds

LEMMA ProfileStep == ProfileInv /\ [Next]_vars => ProfileInv'
BY TypeStep, PublishStep, CoverStep, OrderStep DEF ProfileInv

-----------------------------------------------------------------------------
\* The inductive invariant holds of every reachable state.
THEOREM ProfileInvariant == Spec => []ProfileInv
BY ProfileInit, ProfileStep, PTL DEF Spec

\* Every variable keeps its type; in particular createdAt never falls below zero, whatever
\* the state file held, and the lock stays a queue of requests.
THEOREM ProfileTypeCorrect == Spec => []TypeOK
<1>1. ProfileInv => TypeOK
    BY DEF ProfileInv
<1>2. QED BY ProfileInvariant, <1>1, PTL

\* Whatever mix of updates and imports merged it, the profile in the configuration holds
\* no field that every relay it was published to has refused or left unanswered: some
\* relay stored it, or could not be connected to.
THEOREM OnlyReportedIsSaved == Spec => []SavedWasReported
<1>1. ProfileInv => SavedWasReported
    <2> SUFFICES ASSUME ProfileInv
                 PROVE  SavedWasReported
        OBVIOUS
    <2>1. Covered(config) /\ \A i \in DOMAIN configWrites : Covered(configWrites[i].profile)
        BY DEF ProfileInv, CoverInv
    <2>2. QED BY <2>1 DEF SavedWasReported, Covered
<1>2. QED BY ProfileInvariant, <1>1, PTL

\* withPublishLock and createProfileEvent together: every event is later than all that were
\* published before it, whatever the clock does.
THEOREM EventsAreOrdered == Spec => MonotoneProfile
<1> DEFINE A == \A p, q \in Puts :
                   /\ stage[q] = "queued" /\ stage'[q] = "publishing"
                   /\ stage[p] \in {"publishing", "configuring", "saved"}
                   => createdAt[p] < createdAt'[q]
<1>1. ProfileInv /\ [Next]_vars => A
    <2> SUFFICES ASSUME ProfileInv, [Next]_vars, NEW p \in Puts, NEW q \in Puts,
                        stage[q] = "queued", stage'[q] = "publishing",
                        stage[p] \in {"publishing", "configuring", "saved"}
                 PROVE  createdAt[p] < createdAt'[q]
        OBVIOUS
    <2>1. TypeOK /\ PublishInv /\ OrderInv
        BY DEF ProfileInv
    <2>2. Publish(q)
        BY <2>1, PublishOnly
    <2>3. HoldsLock(q) /\ createdAt'[q] = NextCreatedAt
        BY <2>1, <2>2 DEF Publish, TypeOK
    <2>4. stage[p] \in {"configuring", "saved"}
        BY <2>1, <2>3 DEF PublishInv, HoldsLock
    <2>5. createdAt[p] =< lastPublishedAt
        BY <2>1, <2>4 DEF OrderInv
    <2>6. createdAt[p] \in Int /\ lastPublishedAt \in Int
        BY <2>1 DEF TypeOK
    <2>7. QED BY <2>1, <2>3, <2>5, <2>6, CreatedAtType
<1>2. QED BY ProfileInvariant, <1>1, PTL DEF Spec, MonotoneProfile

\* The configuration file follows the events: a later profile is never replaced by an
\* earlier one, although the writes are made outside the lock.
THEOREM ConfigurationIsOrdered == Spec => ConfigInPublishOrder
<1> DEFINE A == \A p, q \in Puts :
                   /\ stage[q] = "configuring" /\ stage'[q] = "saved"
                   /\ stage[p] = "saved"
                   => createdAt[p] < createdAt[q]
<1>1. ProfileInv /\ [Next]_vars => A
    <2> SUFFICES ASSUME ProfileInv, [Next]_vars, NEW p \in Puts, NEW q \in Puts,
                        stage[q] = "configuring", stage'[q] = "saved", stage[p] = "saved"
                 PROVE  createdAt[p] < createdAt[q]
        OBVIOUS
    <2>1. TypeOK /\ OrderInv
        BY DEF ProfileInv
    <2>2. ConfigWritten
        BY <2>1, SaveOnly
    <2>3. configWrites # <<>> /\ Head(configWrites).by = q /\ q # None
        BY <2>1, <2>2, ProfileAssumption DEF ConfigWritten, TypeOK
    <2>4. Head(configWrites) = configWrites[1] /\ 1 \in DOMAIN configWrites
        BY <2>1, <2>3, NextWrite
    <2>5. QED BY <2>1, <2>3, <2>4 DEF OrderInv
<1>2. QED BY ProfileInvariant, <1>1, PTL DEF Spec, ConfigInPublishOrder
=============================================================================
