------------------------ MODULE GatewayAccountProofs ------------------------
(***************************************************************************)
(* Proofs about GatewayAccount, for any number of lifecycles, messages and *)
(* senders, and any step, session, lockout and failure limit.              *)
(***************************************************************************)
EXTENDS GatewayAccount, TLAPS

\* A session that was ever opened is one of the accepted codes'.
SessionInv ==
    \A n \in Lives, s \in Senders :
        HasSession(totp[n], s, 0) =>
            \E e \in accepted : /\ e.life = n /\ e.sender = s
                                /\ totp[n].senderState[s].authenticatedUntil = e.from + SESSION

\* A code that opened a session is marked as used, or too old to be accepted.
CodeInv ==
    \A e \in accepted : \/ e.code \in totp[e.life].usedCounters
                        \/ e.code < Counter(now) - 1

\* The failures in a row of one sender: fewer than the limit are all counted; of as many
\* as the limit, the one that locked is as many from the end as have been counted since.
CountedFailures(st, times, time) ==
    /\ Len(times) =< MAX_FAILURES
    /\ \A i \in 1 .. Len(times) : times[i] =< time
    /\ \A i, j \in 1 .. Len(times) : i =< j => times[i] =< times[j]
    /\ Len(times) < MAX_FAILURES => st.failures = Len(times)
    /\ Len(times) = MAX_FAILURES =>
          /\ st.failures < MAX_FAILURES
          /\ st.lockedUntil = times[MAX_FAILURES - st.failures] + LOCKOUT

GuessInv ==
    \A n \in Lives, s \in Senders :
        CountedFailures(totp[n].senderState[s], failedAt[n][s], now)

AccountInv ==
    /\ TypeOK
    /\ RegistryIsLive
    /\ LatestIsReachable
    /\ SessionInv
    /\ CodeInv
    /\ NoCodeTwice
    /\ GuessInv

-----------------------------------------------------------------------------
LEMMA CounterNat ==
    ASSUME NEW time \in Nat
    PROVE  Counter(time) \in Nat
BY TotpAssumption DEF Counter

LEMMA CounterGrows ==
    ASSUME NEW time \in Nat
    PROVE  Counter(time) =< Counter(time + 1)
BY TotpAssumption DEF Counter

LEMMA AroundNat ==
    ASSUME NEW time \in Nat, NEW c \in Around(time)
    PROVE  c \in Nat /\ c >= Counter(time) - 1
BY CounterNat DEF Around

\* What a message's text and sender may be.
LEMMA MailTypes ==
    ASSUME TypeOK, NEW m \in Messages
    PROVE  /\ mail[m].sender \in Senders
           /\ mail[m].text \in Nat \cup {Text, WrongCode}
<1>1. mail[m] \in Sent[m] /\ Sent[m] \subseteq [sender : Senders, text : Nat \cup {Text, WrongCode}]
    BY AccountAssumption DEF TypeOK
<1>2. QED BY <1>1

\* An accepted code opens a session of its sender; the other senders keep their state.
LEMMA OpenedEffect ==
    ASSUME NEW a \in Authenticator, NEW s \in Senders, NEW code \in Nat, NEW time \in Nat
    PROVE  LET b == Opened(a, s, code, time) IN
           /\ b \in Authenticator
           /\ b.senderState[s] = [authenticatedUntil |-> time + SESSION,
                                  failures |-> 0, lockedUntil |-> 0]
           /\ \A t \in Senders : t # s => b.senderState[t] = a.senderState[t]
BY TotpAssumption DEF Opened, Authenticator, SenderState

\* A failure counts, or locks and clears the count.
LEMMA FailedEffect ==
    ASSUME NEW a \in Authenticator, NEW s \in Senders, NEW time \in Nat
    PROVE  LET b == Failed(a, s, time)
               n == a.senderState[s].failures + 1 IN
           /\ b \in Authenticator
           /\ b.usedCounters = a.usedCounters
           /\ \A t \in Senders : t # s => b.senderState[t] = a.senderState[t]
           /\ b.senderState[s].authenticatedUntil = a.senderState[s].authenticatedUntil
           /\ n >= MAX_FAILURES => /\ b.senderState[s].failures = 0
                                   /\ b.senderState[s].lockedUntil = time + LOCKOUT
           /\ n < MAX_FAILURES =>
                 /\ b.senderState[s].failures = n
                 /\ b.senderState[s].lockedUntil = a.senderState[s].lockedUntil
<1> DEFINE n == a.senderState[s].failures + 1
           st == IF n >= MAX_FAILURES
                 THEN [a.senderState[s] EXCEPT !.failures = 0, !.lockedUntil = time + LOCKOUT]
                 ELSE [a.senderState[s] EXCEPT !.failures = n]
<1>1. a.senderState[s] \in SenderState /\ a.senderState \in [Senders -> SenderState]
    BY DEF Authenticator
<1>2. n \in Nat /\ st \in SenderState
    <2>1. n \in Nat /\ time + LOCKOUT \in Nat
        BY <1>1, TotpAssumption DEF SenderState
    <2>2. CASE n >= MAX_FAILURES
        BY <1>1, <2>1, <2>2 DEF SenderState
    <2>3. CASE ~(n >= MAX_FAILURES)
        BY <1>1, <2>1, <2>3 DEF SenderState
    <2>4. QED BY <2>1, <2>2, <2>3
<1>3. Failed(a, s, time) = [a EXCEPT !.senderState = [a.senderState EXCEPT ![s] = st]]
    BY DEF Failed, Authenticator
<1>4. /\ Failed(a, s, time).senderState = [a.senderState EXCEPT ![s] = st]
      /\ Failed(a, s, time).usedCounters = a.usedCounters
      /\ Failed(a, s, time) \in Authenticator
    BY <1>1, <1>2, <1>3 DEF Authenticator
<1>5. /\ Failed(a, s, time).senderState[s] = st
      /\ \A t \in Senders : t # s => Failed(a, s, time).senderState[t] = a.senderState[t]
    BY <1>1, <1>4
<1>6. /\ st.authenticatedUntil = a.senderState[s].authenticatedUntil
      /\ n >= MAX_FAILURES => st.failures = 0 /\ st.lockedUntil = time + LOCKOUT
      /\ n < MAX_FAILURES => st.failures = n /\ st.lockedUntil = a.senderState[s].lockedUntil
    BY <1>1, <1>2, TotpAssumption DEF SenderState
<1>7. QED BY <1>4, <1>5, <1>6

-----------------------------------------------------------------------------
LEMMA AccountInit == Init => AccountInv
<1> SUFFICES ASSUME Init
             PROVE  AccountInv
    OBVIOUS
<1>1. NewAuthenticator \in Authenticator
    BY DEF NewAuthenticator, Authenticator, SenderState, NewSender
<1>2. TypeOK
    <2>1. /\ now \in Nat
          /\ life \in [Lives -> {"new", "starting", "aborted", "running", "closing", "closed"}]
          /\ activeBuses \in Lives \cup {0} /\ metricsSnapshots \in Lives \cup {0}
          /\ running \in BOOLEAN /\ lastRegistered \in Lives \cup {0}
          /\ accepted \subseteq Session
        BY DEF Init
    <2>2. \A m \in Messages : mail[m] \in Sent[m]
        BY DEF Init
    <2>3. handler \in [Lives -> [Messages -> Stages]]
        BY DEF Init, Stages
    <2>4. totp \in [Lives -> Authenticator]
        BY <1>1 DEF Init
    <2>5. failedAt \in [Lives -> [Senders -> Seq(Nat)]]
        <3>1. <<>> \in Seq(Nat)
            OBVIOUS
        <3>2. QED BY <3>1 DEF Init
    <2>6. QED BY <2>1, <2>2, <2>3, <2>4, <2>5 DEF TypeOK
<1>3. RegistryIsLive /\ LatestIsReachable /\ CodeInv /\ NoCodeTwice
    BY DEF Init, RegistryIsLive, LatestIsReachable, CodeInv, NoCodeTwice
<1>4. \A n \in Lives, s \in Senders :
         /\ totp[n].senderState[s] = [authenticatedUntil |-> 0, failures |-> 0, lockedUntil |-> 0]
         /\ failedAt[n][s] = <<>>
    BY DEF Init, NewAuthenticator, NewSender
<1>5. SessionInv
    BY <1>4 DEF SessionInv, HasSession
<1>6. GuessInv
    BY <1>4, TotpAssumption DEF GuessInv, CountedFailures
<1>7. QED BY <1>2, <1>3, <1>5, <1>6 DEF AccountInv

-----------------------------------------------------------------------------
\* The handler steps, apart from the two that change the authenticator.
HandlerStep(n, m) ==
    \/ Receive(n, m) \/ Refuse(n, m) \/ Answer(n, m) \/ Dispatch(n, m)
    \/ Replied(n, m) \/ Dispatched(n, m) \/ HandlerFails(n, m)

LEMMA HandlerEffect ==
    ASSUME TypeOK, NEW n \in Lives, NEW m \in Messages,
           HandlerStep(n, m) \/ WrongGuess(n, m) \/ Authenticate(n, m)
    PROVE  /\ handler' \in [Lives -> [Messages -> Stages]]
           /\ UNCHANGED <<now, accountVars, mail>>
           /\ HandlerStep(n, m) => UNCHANGED totpVars
<1>1. PICK from, to \in Stages : Goes(n, m, from, to)
    BY DEF HandlerStep, Receive, Refuse, Answer, Dispatch, Replied, Dispatched, HandlerFails,
           WrongGuess, Authenticate, Consumed, Ends, Stages
<1>2. handler' \in [Lives -> [Messages -> Stages]]
    BY <1>1 DEF Goes, TypeOK
<1>3. QED
    BY <1>2 DEF HandlerStep, Receive, Refuse, Answer, Dispatch, Replied, Dispatched,
           HandlerFails, WrongGuess, Authenticate

LEMMA WrongGuessEffect ==
    ASSUME TypeOK, NEW n \in Lives, NEW m \in Messages, WrongGuess(n, m)
    PROVE  LET s == mail[m].sender IN
           /\ s \in Senders
           /\ ~IsLocked(totp[n], s, now)
           /\ totp'[n] = Failed(totp[n], s, now)
           /\ failedAt'[n][s] = IF Len(failedAt[n][s]) = MAX_FAILURES
                                THEN Append(Tail(failedAt[n][s]), now)
                                ELSE Append(failedAt[n][s], now)
           /\ \A k \in Lives : k # n => totp'[k] = totp[k] /\ failedAt'[k] = failedAt[k]
           /\ \A t \in Senders : t # s => failedAt'[n][t] = failedAt[n][t]
           /\ accepted' = accepted
           /\ failedAt'[n][s] \in Seq(Nat)
           /\ totp' \in [Lives -> Authenticator]
           /\ failedAt' \in [Lives -> [Senders -> Seq(Nat)]]
<1> DEFINE s == mail[m].sender
           h == failedAt[n][s]
           h2 == IF Len(h) = MAX_FAILURES THEN Append(Tail(h), now) ELSE Append(h, now)
<1>1. s \in Senders
    BY MailTypes
<1>2. /\ ~IsLocked(totp[n], s, now)
      /\ totp' = [totp EXCEPT ![n] = Failed(totp[n], s, now)]
      /\ failedAt' = [failedAt EXCEPT ![n] = [failedAt[n] EXCEPT ![s] = h2]]
      /\ accepted' = accepted
    BY DEF WrongGuess, MayTry, TypeOK
<1>3. h \in Seq(Nat) /\ now \in Nat /\ totp[n] \in Authenticator
    BY <1>1 DEF TypeOK
<1>4. h2 \in Seq(Nat)
    <2>1. CASE Len(h) = MAX_FAILURES
        <3>1. h # <<>>
            BY <2>1, TotpAssumption
        <3>2. Tail(h) \in Seq(Nat)
            BY <1>3, <3>1
        <3>3. QED BY <1>3, <2>1, <3>2
    <2>2. CASE Len(h) # MAX_FAILURES
        BY <1>3, <2>2
    <2>3. QED BY <2>1, <2>2
<1>5. Failed(totp[n], s, now) \in Authenticator
    BY <1>1, <1>3, FailedEffect
<1> HIDE DEF s, h2
<1>6. /\ totp' \in [Lives -> Authenticator]
      /\ totp'[n] = Failed(totp[n], s, now)
      /\ \A k \in Lives : k # n => totp'[k] = totp[k]
    BY <1>2, <1>5 DEF TypeOK
<1>7. /\ failedAt' \in [Lives -> [Senders -> Seq(Nat)]]
      /\ failedAt'[n][s] = h2
      /\ \A k \in Lives : k # n => failedAt'[k] = failedAt[k]
      /\ \A t \in Senders : t # s => failedAt'[n][t] = failedAt[n][t]
    BY <1>1, <1>2, <1>4 DEF TypeOK
<1>8. QED BY <1>1, <1>2, <1>4, <1>6, <1>7 DEF s, h2

LEMMA AuthenticateEffect ==
    ASSUME TypeOK, NEW n \in Lives, NEW m \in Messages, Authenticate(n, m)
    PROVE  LET s == mail[m].sender
               code == mail[m].text IN
           /\ s \in Senders
           /\ code \in Nat /\ code >= Counter(now) - 1
           /\ code \notin totp[n].usedCounters
           /\ totp'[n] = Opened(totp[n], s, code, now)
           /\ failedAt'[n][s] = <<>>
           /\ \A k \in Lives : k # n => totp'[k] = totp[k] /\ failedAt'[k] = failedAt[k]
           /\ \A t \in Senders : t # s => failedAt'[n][t] = failedAt[n][t]
           /\ accepted' = accepted \cup
                {[life |-> n, sender |-> s, code |-> code, from |-> now]}
           /\ totp' \in [Lives -> Authenticator]
           /\ failedAt' \in [Lives -> [Senders -> Seq(Nat)]]
<1> DEFINE s == mail[m].sender
           code == mail[m].text
<1>1. s \in Senders
    BY MailTypes
<1>2. now \in Nat /\ totp[n] \in Authenticator
    BY DEF TypeOK
<1>3. code \in Around(now) /\ code \notin totp[n].usedCounters
    BY DEF Authenticate, Accepts
<1>4. code \in Nat /\ code >= Counter(now) - 1
    BY <1>2, <1>3, AroundNat
<1>5. Opened(totp[n], s, code, now) \in Authenticator
    BY <1>1, <1>2, <1>4, OpenedEffect
<1>6. /\ totp' = [totp EXCEPT ![n] = Opened(totp[n], s, code, now)]
      /\ failedAt' = [failedAt EXCEPT ![n] = [failedAt[n] EXCEPT ![s] = <<>>]]
      /\ accepted' = accepted \cup {[life |-> n, sender |-> s, code |-> code, from |-> now]}
    BY DEF Authenticate, TypeOK
<1> HIDE DEF s, code
<1>7. /\ totp' \in [Lives -> Authenticator]
      /\ totp'[n] = Opened(totp[n], s, code, now)
      /\ \A k \in Lives : k # n => totp'[k] = totp[k]
    BY <1>5, <1>6 DEF TypeOK
<1>8. /\ failedAt' \in [Lives -> [Senders -> Seq(Nat)]]
      /\ failedAt'[n][s] = <<>>
      /\ \A k \in Lives : k # n => failedAt'[k] = failedAt[k]
      /\ \A t \in Senders : t # s => failedAt'[n][t] = failedAt[n][t]
    BY <1>1, <1>6 DEF TypeOK
<1>9. QED BY <1>1, <1>3, <1>4, <1>6, <1>7, <1>8 DEF s, code
-----------------------------------------------------------------------------
\* The steps of the lifecycles.
LifeStep ==
    \/ \E n \in Lives :
          \/ StartAccount(n) \/ StartFails(n) \/ BusStarted(n) \/ AbortStart(n)
          \/ Stop(n) \/ Stopped(n) \/ Health(n) \/ Metric(n)
    \/ Crash

\* They leave the time, the messages and the authenticators alone.
LEMMA LifeStepQuiet ==
    ASSUME LifeStep
    PROVE  UNCHANGED <<now, mail, totpVars>>
BY DEF LifeStep, StartAccount, StartFails, BusStarted, AbortStart, Stop, Stopped, Health,
       Metric, Crash

\* Every step is of one of these kinds.
LEMMA StepKinds ==
    ASSUME [Next]_vars
    PROVE  \/ Tick
           \/ LifeStep
           \/ \E n \in Lives, m \in Messages :
                 HandlerStep(n, m) \/ WrongGuess(n, m) \/ Authenticate(n, m)
           \/ UNCHANGED vars
BY DEF Next, LifeStep, HandlerStep

LEMMA LifeTypes ==
    ASSUME TypeOK, LifeStep
    PROVE  TypeOK'
<1>1. /\ life' \in [Lives -> {"new", "starting", "aborted", "running", "closing", "closed"}]
      /\ activeBuses' \in Lives \cup {0} /\ metricsSnapshots' \in Lives \cup {0}
      /\ running' \in BOOLEAN /\ lastRegistered' \in Lives \cup {0}
      /\ handler' \in [Lives -> [Messages -> Stages]]
    <2>1. CASE \E n \in Lives : StartAccount(n)
        <3>1. PICK n \in Lives : StartAccount(n)
            BY <2>1
        <3>2. PICK known \in SUBSET Recorded :
                 handler' = [handler EXCEPT ![n] =
                    [m \in Messages |-> IF m \in known THEN "handled" ELSE "idle"]]
            BY <3>1 DEF StartAccount
        <3>3. [m \in Messages |-> IF m \in known THEN "handled" ELSE "idle"]
                 \in [Messages -> Stages]
            BY DEF Stages
        <3>4. handler' \in [Lives -> [Messages -> Stages]]
            BY <3>2, <3>3 DEF TypeOK
        <3>5. QED BY <3>1, <3>4 DEF StartAccount, TypeOK
    <2>2. CASE \E n \in Lives :
                  \/ StartFails(n) \/ BusStarted(n) \/ AbortStart(n)
                  \/ Stop(n) \/ Stopped(n) \/ Health(n) \/ Metric(n)
        BY <2>2 DEF StartFails, BusStarted, AbortStart, Stop, Stopped, Health, Metric, TypeOK
    <2>3. CASE Crash
        BY <2>3 DEF Crash, TypeOK, Stages
    <2>4. QED BY <2>1, <2>2, <2>3 DEF LifeStep
<1>2. UNCHANGED <<now, mail, totpVars>>
    BY LifeStepQuiet
<1>3. QED BY <1>1, <1>2 DEF TypeOK, totpVars

LEMMA TypeStep ==
    ASSUME TypeOK, [Next]_vars
    PROVE  TypeOK'
<1>1. CASE Tick
    BY <1>1 DEF Tick, TypeOK, accountVars, totpVars
<1>2. CASE LifeStep
    BY <1>2, LifeTypes
<1>3. ASSUME NEW n \in Lives, NEW m \in Messages, HandlerStep(n, m)
      PROVE  TypeOK'
    BY <1>3, HandlerEffect DEF TypeOK, accountVars, totpVars
<1>4. ASSUME NEW n \in Lives, NEW m \in Messages, WrongGuess(n, m)
      PROVE  TypeOK'
    <2>1. /\ handler' \in [Lives -> [Messages -> Stages]]
          /\ UNCHANGED <<now, accountVars, mail>>
        BY <1>4, HandlerEffect
    <2>2. /\ totp' \in [Lives -> Authenticator] /\ accepted' = accepted
          /\ failedAt' \in [Lives -> [Senders -> Seq(Nat)]]
        BY <1>4, WrongGuessEffect
    <2>3. QED BY <2>1, <2>2 DEF TypeOK, accountVars
<1>5. ASSUME NEW n \in Lives, NEW m \in Messages, Authenticate(n, m)
      PROVE  TypeOK'
    <2>1. /\ handler' \in [Lives -> [Messages -> Stages]]
          /\ UNCHANGED <<now, accountVars, mail>>
        BY <1>5, HandlerEffect
    <2>2. /\ totp' \in [Lives -> Authenticator]
          /\ failedAt' \in [Lives -> [Senders -> Seq(Nat)]]
          /\ mail[m].sender \in Senders /\ mail[m].text \in Nat
          /\ accepted' = accepted \cup
                {[life |-> n, sender |-> mail[m].sender, code |-> mail[m].text, from |-> now]}
        BY <1>5, AuthenticateEffect
    <2>3. accepted' \subseteq Session
        BY <2>2 DEF TypeOK, Session
    <2>4. QED BY <2>1, <2>2, <2>3 DEF TypeOK, accountVars
<1>6. CASE UNCHANGED vars
    BY <1>6 DEF vars, accountVars, totpVars, TypeOK
<1>7. QED BY <1>1, <1>2, <1>3, <1>4, <1>5, <1>6, StepKinds

\* What is shown outside changes with the lifecycles only.
LEMMA RegistryStep ==
    ASSUME TypeOK, RegistryIsLive, LatestIsReachable, [Next]_vars
    PROVE  RegistryIsLive' /\ LatestIsReachable'
<1> USE DEF RegistryIsLive, LatestIsReachable
<1>1. ASSUME NEW n \in Lives, StartAccount(n) \/ StartFails(n) \/ AbortStart(n)
      PROVE  RegistryIsLive' /\ LatestIsReachable'
    <2>1. /\ life[n] \notin {"running", "closing"}
          /\ \A k \in Lives : k # n => life'[k] = life[k]
          /\ life'[n] \notin {"running", "closing"}
          /\ UNCHANGED <<activeBuses, metricsSnapshots, running, lastRegistered>>
        BY <1>1 DEF StartAccount, StartFails, AbortStart, TypeOK
    <2>2. activeBuses \in Lives \cup {0} /\ metricsSnapshots \in Lives \cup {0}
          /\ lastRegistered \in Lives \cup {0}
        BY DEF TypeOK
    <2>3. QED BY <2>1, <2>2
<1>2. ASSUME NEW n \in Lives, BusStarted(n)
      PROVE  RegistryIsLive' /\ LatestIsReachable'
    BY <1>2 DEF BusStarted, TypeOK, Lives
<1>3. ASSUME NEW n \in Lives, Stop(n)
      PROVE  RegistryIsLive' /\ LatestIsReachable'
    BY <1>3 DEF Stop, TypeOK, Lives
<1>4. ASSUME NEW n \in Lives, Stopped(n)
      PROVE  RegistryIsLive' /\ LatestIsReachable'
    <2>1. /\ life[n] = "closing" /\ life'[n] = "closed"
          /\ \A k \in Lives : k # n => life'[k] = life[k]
          /\ activeBuses' = IF activeBuses = n THEN 0 ELSE activeBuses
          /\ metricsSnapshots' = 0 /\ UNCHANGED <<running, lastRegistered>>
        BY <1>4 DEF Stopped, TypeOK
    <2>2. activeBuses \in Lives \cup {0} /\ lastRegistered \in Lives \cup {0}
          /\ 0 \notin Lives
        BY DEF TypeOK, Lives
    <2>3. RegistryIsLive'
        <3>1. running' => \E k \in Lives : life'[k] = "running"
            BY <2>1
        <3>2. activeBuses' # 0 => life'[activeBuses'] \in {"running", "closing"}
            BY <2>1, <2>2
        <3>3. QED BY <2>1, <3>1, <3>2
    <2>4. LatestIsReachable'
        BY <2>1, <2>2
    <2>5. QED BY <2>3, <2>4
<1>5. ASSUME NEW n \in Lives, Health(n) \/ Metric(n)
      PROVE  RegistryIsLive' /\ LatestIsReachable'
    <2>1. CASE Health(n)
        BY <2>1 DEF Health
    <2>2. CASE Metric(n)
        BY <2>2 DEF Metric
    <2>3. QED BY <1>5, <2>1, <2>2
<1>6. CASE Crash
    BY <1>6 DEF Crash
<1>7. CASE Tick \/ UNCHANGED vars
    BY <1>7 DEF Tick, vars, accountVars
<1>8. CASE \E n \in Lives, m \in Messages :
              HandlerStep(n, m) \/ WrongGuess(n, m) \/ Authenticate(n, m)
    BY <1>8, HandlerEffect DEF accountVars
<1>9. QED BY <1>1, <1>2, <1>3, <1>4, <1>5, <1>6, <1>7, <1>8, StepKinds DEF LifeStep

-----------------------------------------------------------------------------
LEMMA SessionStep ==
    ASSUME TypeOK, SessionInv, [Next]_vars
    PROVE  SessionInv'
<1>1. CASE UNCHANGED totpVars
    BY <1>1 DEF SessionInv, HasSession, totpVars
<1>2. ASSUME NEW n \in Lives, NEW m \in Messages, WrongGuess(n, m)
      PROVE  SessionInv'
    <2> DEFINE s == mail[m].sender
    <2>1. /\ s \in Senders /\ totp'[n] = Failed(totp[n], s, now)
          /\ \A k \in Lives : k # n => totp'[k] = totp[k]
          /\ accepted' = accepted
        BY <1>2, WrongGuessEffect
    <2> HIDE DEF s
    <2>2. \A t \in Senders : totp'[n].senderState[t].authenticatedUntil
                              = totp[n].senderState[t].authenticatedUntil
        <3>1. totp[n] \in Authenticator /\ now \in Nat
            BY DEF TypeOK
        <3>2. LET b == Failed(totp[n], s, now) IN
              /\ \A t \in Senders : t # s => b.senderState[t] = totp[n].senderState[t]
              /\ b.senderState[s].authenticatedUntil = totp[n].senderState[s].authenticatedUntil
            BY <2>1, <3>1, FailedEffect
        <3>3. QED BY <2>1, <3>2
    <2>3. QED BY <2>1, <2>2 DEF SessionInv, HasSession
<1>3. ASSUME NEW n \in Lives, NEW m \in Messages, Authenticate(n, m)
      PROVE  SessionInv'
    <2> DEFINE s == mail[m].sender
               e == [life |-> n, sender |-> s, code |-> mail[m].text, from |-> now]
    <2>1. /\ s \in Senders /\ mail[m].text \in Nat
          /\ totp'[n] = Opened(totp[n], s, mail[m].text, now)
          /\ \A k \in Lives : k # n => totp'[k] = totp[k]
          /\ accepted' = accepted \cup {e}
        BY <1>3, AuthenticateEffect
    <2>2. e.life = n /\ e.sender = s /\ e.from = now
        OBVIOUS
    <2> HIDE DEF s, e
    <2>3. /\ totp'[n].senderState[s].authenticatedUntil = now + SESSION
          /\ \A t \in Senders : t # s => totp'[n].senderState[t] = totp[n].senderState[t]
        <3>1. totp[n] \in Authenticator /\ now \in Nat
            BY DEF TypeOK
        <3>2. LET b == Opened(totp[n], s, mail[m].text, now) IN
              /\ b.senderState[s] = [authenticatedUntil |-> now + SESSION,
                                     failures |-> 0, lockedUntil |-> 0]
              /\ \A t \in Senders : t # s => b.senderState[t] = totp[n].senderState[t]
            BY <2>1, <3>1, OpenedEffect
        <3>3. QED BY <2>1, <3>2
    <2>4. QED BY <2>1, <2>2, <2>3 DEF SessionInv, HasSession
<1>4. QED
    BY <1>1, <1>2, <1>3, StepKinds, LifeStepQuiet, HandlerEffect DEF Tick, vars

LEMMA CodeStep ==
    ASSUME TypeOK, CodeInv, NoCodeTwice, [Next]_vars
    PROVE  CodeInv' /\ NoCodeTwice'
<1>1. CASE UNCHANGED <<now, totpVars>>
    BY <1>1 DEF CodeInv, NoCodeTwice, Counter, totpVars
<1>2. CASE Tick
    <2>1. now \in Nat /\ now' = now + 1 /\ UNCHANGED totpVars
        BY <1>2 DEF Tick, TypeOK
    <2>2. Counter(now) =< Counter(now') /\ Counter(now) \in Nat /\ Counter(now') \in Nat
        BY <2>1, CounterGrows, CounterNat
    <2>3. \A e \in accepted : e.code \in Nat
        BY DEF TypeOK, Session
    <2>4. \A e \in accepted : e.code < Counter(now) - 1 => e.code < Counter(now') - 1
        BY <2>2, <2>3
    <2>5. CodeInv'
        BY <2>1, <2>4 DEF CodeInv, totpVars
    <2>6. QED BY <2>1, <2>5 DEF NoCodeTwice, totpVars
<1>3. ASSUME NEW n \in Lives, NEW m \in Messages, WrongGuess(n, m)
      PROVE  CodeInv' /\ NoCodeTwice'
    <2>1. /\ mail[m].sender \in Senders /\ totp'[n] = Failed(totp[n], mail[m].sender, now)
          /\ \A k \in Lives : k # n => totp'[k] = totp[k]
          /\ accepted' = accepted
        BY <1>3, WrongGuessEffect
    <2>2. totp'[n].usedCounters = totp[n].usedCounters
        BY <2>1, FailedEffect DEF TypeOK
    <2>3. now' = now /\ \A e \in accepted : e.life \in Lives
        BY <1>3, HandlerEffect DEF TypeOK, Session
    <2>4. QED BY <2>1, <2>2, <2>3 DEF CodeInv, NoCodeTwice, Counter
<1>4. ASSUME NEW n \in Lives, NEW m \in Messages, Authenticate(n, m)
      PROVE  CodeInv' /\ NoCodeTwice'
    <2> DEFINE s == mail[m].sender
               code == mail[m].text
               new == [life |-> n, sender |-> s, code |-> code, from |-> now]
    <2>1. /\ s \in Senders /\ code \in Nat /\ code >= Counter(now) - 1
          /\ code \notin totp[n].usedCounters
          /\ totp'[n] = Opened(totp[n], s, code, now)
          /\ \A k \in Lives : k # n => totp'[k] = totp[k]
          /\ accepted' = accepted \cup {new}
        BY <1>4, AuthenticateEffect
    <2>2. new.life = n /\ new.code = code
        OBVIOUS
    <2>3. totp[n] \in Authenticator /\ now \in Nat /\ Counter(now) \in Nat
          /\ \A e \in accepted : e.life \in Lives /\ e.code \in Nat
        BY CounterNat DEF TypeOK, Session
    <2>4. now' = now
        BY <1>4, HandlerEffect
    <2> HIDE DEF s, code, new
    <2>5. totp'[n].usedCounters
             = {c \in totp[n].usedCounters \cup {code} : c >= Counter(now) - 2}
        <3>1. Opened(totp[n], s, code, now).usedCounters
                 = {c \in totp[n].usedCounters \cup {code} : c >= Counter(now) - 2}
            BY DEF Opened
        <3>2. QED BY <2>1, <3>1
    <2>6. CodeInv'
        <3>1. code \in totp'[n].usedCounters
            BY <2>1, <2>3, <2>5
        <3>2. \A e \in accepted : e.code \in totp'[e.life].usedCounters
                                   \/ e.code < Counter(now) - 1
            <4> SUFFICES ASSUME NEW e \in accepted, ~(e.code < Counter(now) - 1)
                         PROVE  e.code \in totp'[e.life].usedCounters
                OBVIOUS
            <4>1. e.code \in totp[e.life].usedCounters /\ e.code >= Counter(now) - 2
                BY <2>3 DEF CodeInv
            <4>2. QED BY <2>1, <2>3, <2>5, <4>1
        <3>3. QED BY <2>1, <2>2, <2>4, <3>1, <3>2 DEF CodeInv, Counter
    <2>7. \A e \in accepted : e.life = n => e.code # code
        BY <2>1, <2>3 DEF CodeInv
    <2>8. NoCodeTwice'
        BY <2>1, <2>2, <2>7 DEF NoCodeTwice
    <2>9. QED BY <2>6, <2>8
<1>5. QED
    BY <1>1, <1>2, <1>3, <1>4, StepKinds, LifeStepQuiet, HandlerEffect DEF vars

\* One more failure keeps the count in step with the times.
LEMMA FailureCounted ==
    ASSUME NEW st, NEW st2, NEW h \in Seq(Nat), NEW h2, NEW time \in Nat,
           st.failures \in Nat,
           CountedFailures(st, h, time),
           h2 = IF Len(h) = MAX_FAILURES THEN Append(Tail(h), time) ELSE Append(h, time),
           st.failures + 1 >= MAX_FAILURES => st2.failures = 0 /\ st2.lockedUntil = time + LOCKOUT,
           st.failures + 1 < MAX_FAILURES => /\ st2.failures = st.failures + 1
                                             /\ st2.lockedUntil = st.lockedUntil
    PROVE  CountedFailures(st2, h2, time)
<1>1. /\ Len(h) \in Nat /\ Len(h) =< MAX_FAILURES /\ MAX_FAILURES \in Nat \ {0}
      /\ \A i \in 1 .. Len(h) : h[i] \in Nat /\ h[i] =< time
      /\ \A i, j \in 1 .. Len(h) : i =< j => h[i] =< h[j]
    BY TotpAssumption DEF CountedFailures
<1>2. CASE Len(h) = MAX_FAILURES
    <2>1. /\ h # <<>> /\ Tail(h) \in Seq(Nat) /\ Len(Tail(h)) = MAX_FAILURES - 1
          /\ \A i \in 1 .. MAX_FAILURES - 1 : Tail(h)[i] = h[i + 1]
        BY <1>1, <1>2
    <2>2. /\ h2 = Append(Tail(h), time) /\ Len(h2) = MAX_FAILURES
          /\ \A i \in 1 .. MAX_FAILURES - 1 : h2[i] = h[i + 1]
          /\ h2[MAX_FAILURES] = time
        BY <1>1, <1>2, <2>1
    <2>3. /\ st.failures < MAX_FAILURES
          /\ st.lockedUntil = h[MAX_FAILURES - st.failures] + LOCKOUT
        BY <1>2 DEF CountedFailures
    <2>4. \A i \in 1 .. Len(h2) : h2[i] =< time
        BY <1>1, <1>2, <2>2
    <2>5. \A i, j \in 1 .. Len(h2) : i =< j => h2[i] =< h2[j]
        <3> SUFFICES ASSUME NEW i \in 1 .. MAX_FAILURES, NEW j \in 1 .. MAX_FAILURES, i =< j
                     PROVE  h2[i] =< h2[j]
            BY <2>2
        <3>1. CASE j = MAX_FAILURES
            BY <1>1, <2>2, <2>4, <3>1
        <3>2. CASE j # MAX_FAILURES
            <4>1. /\ i \in 1 .. MAX_FAILURES - 1 /\ j \in 1 .. MAX_FAILURES - 1
                  /\ i + 1 \in 1 .. Len(h) /\ j + 1 \in 1 .. Len(h) /\ i + 1 =< j + 1
                BY <1>1, <1>2, <3>2
            <4>2. QED BY <1>1, <2>2, <4>1
        <3>3. QED BY <3>1, <3>2
    <2>6. st2.failures < MAX_FAILURES /\ st2.lockedUntil = h2[MAX_FAILURES - st2.failures] + LOCKOUT
        <3>1. CASE st.failures + 1 >= MAX_FAILURES
            BY <1>1, <2>2, <3>1
        <3>2. CASE st.failures + 1 < MAX_FAILURES
            <4>1. MAX_FAILURES - (st.failures + 1) \in 1 .. MAX_FAILURES - 1
                BY <1>1, <3>2
            <4>2. h2[MAX_FAILURES - (st.failures + 1)] = h[MAX_FAILURES - st.failures]
                <5>1. MAX_FAILURES - (st.failures + 1) + 1 = MAX_FAILURES - st.failures
                    BY <1>1
                <5>2. QED BY <2>2, <4>1, <5>1
            <4>3. QED BY <2>3, <3>2, <4>2
        <3>3. st.failures + 1 >= MAX_FAILURES \/ st.failures + 1 < MAX_FAILURES
            BY <1>1
        <3>4. QED BY <3>1, <3>2, <3>3
    <2>7. ~(Len(h2) < MAX_FAILURES) /\ Len(h2) =< MAX_FAILURES
        BY <1>1, <2>2
    <2>8. QED BY <2>4, <2>5, <2>6, <2>7 DEF CountedFailures
<1>3. CASE Len(h) # MAX_FAILURES
    <2>1. Len(h) < MAX_FAILURES /\ st.failures = Len(h)
        BY <1>1, <1>3 DEF CountedFailures
    <2>2. /\ h2 = Append(h, time) /\ Len(h2) = Len(h) + 1
          /\ \A i \in 1 .. Len(h) : h2[i] = h[i]
          /\ h2[Len(h) + 1] = time
        BY <1>3
    <2>3. \A i \in 1 .. Len(h2) : h2[i] =< time
        BY <1>1, <2>2
    <2>4. \A i, j \in 1 .. Len(h2) : i =< j => h2[i] =< h2[j]
        <3> SUFFICES ASSUME NEW i \in 1 .. Len(h) + 1, NEW j \in 1 .. Len(h) + 1, i =< j
                     PROVE  h2[i] =< h2[j]
            BY <2>2
        <3>1. CASE j = Len(h) + 1
            BY <1>1, <2>2, <2>3, <3>1
        <3>2. CASE j # Len(h) + 1
            BY <1>1, <2>2, <3>2
        <3>3. QED BY <3>1, <3>2
    <2>5. CASE Len(h) + 1 = MAX_FAILURES
        BY <1>1, <2>1, <2>2, <2>3, <2>4, <2>5 DEF CountedFailures
    <2>6. CASE Len(h) + 1 # MAX_FAILURES
        BY <1>1, <2>1, <2>2, <2>3, <2>4, <2>6 DEF CountedFailures
    <2>7. QED BY <2>5, <2>6
<1>4. QED BY <1>2, <1>3

LEMMA GuessStep ==
    ASSUME TypeOK, GuessInv, [Next]_vars
    PROVE  GuessInv'
<1>1. CASE UNCHANGED <<now, totpVars>>
    BY <1>1 DEF GuessInv, CountedFailures, totpVars
<1>2. CASE Tick
    <2> SUFFICES ASSUME NEW n \in Lives, NEW s \in Senders
                 PROVE  CountedFailures(totp[n].senderState[s], failedAt[n][s], now + 1)
        BY <1>2 DEF GuessInv, Tick, totpVars
    <2>1. CountedFailures(totp[n].senderState[s], failedAt[n][s], now)
        BY DEF GuessInv
    <2>2. now \in Nat /\ failedAt[n][s] \in Seq(Nat)
        BY DEF TypeOK
    <2>3. \A i \in 1 .. Len(failedAt[n][s]) : failedAt[n][s][i] \in Nat
        BY <2>2
    <2>4. QED BY <2>1, <2>2, <2>3 DEF CountedFailures
<1>3. ASSUME NEW n \in Lives, NEW m \in Messages, WrongGuess(n, m)
      PROVE  GuessInv'
    <2> DEFINE s == mail[m].sender
               h == failedAt[n][s]
               st == totp[n].senderState[s]
    <2>1. /\ s \in Senders
          /\ totp'[n] = Failed(totp[n], s, now)
          /\ failedAt'[n][s] = IF Len(h) = MAX_FAILURES
                               THEN Append(Tail(h), now) ELSE Append(h, now)
          /\ \A k \in Lives : k # n => totp'[k] = totp[k] /\ failedAt'[k] = failedAt[k]
          /\ \A t \in Senders : t # s => failedAt'[n][t] = failedAt[n][t]
        BY <1>3, WrongGuessEffect
    <2>2. now' = now
        BY <1>3, HandlerEffect
    <2>3. /\ now \in Nat /\ totp[n] \in Authenticator /\ h \in Seq(Nat)
          /\ st.failures \in Nat /\ st.lockedUntil \in Nat
        BY <2>1 DEF TypeOK, Authenticator, SenderState
    <2>4. CountedFailures(st, h, now)
        BY <2>1 DEF GuessInv
    <2> HIDE DEF s
    <2>5. \A t \in Senders : t # s => totp'[n].senderState[t] = totp[n].senderState[t]
        <3>1. \A t \in Senders : t # s =>
                 Failed(totp[n], s, now).senderState[t] = totp[n].senderState[t]
            BY <2>1, <2>3, FailedEffect
        <3>2. QED BY <2>1, <3>1
    <2>6. /\ st.failures + 1 >= MAX_FAILURES =>
                /\ totp'[n].senderState[s].failures = 0
                /\ totp'[n].senderState[s].lockedUntil = now + LOCKOUT
          /\ st.failures + 1 < MAX_FAILURES =>
                /\ totp'[n].senderState[s].failures = st.failures + 1
                /\ totp'[n].senderState[s].lockedUntil = st.lockedUntil
        <3>1. LET b == Failed(totp[n], s, now) IN
              /\ st.failures + 1 >= MAX_FAILURES =>
                    /\ b.senderState[s].failures = 0
                    /\ b.senderState[s].lockedUntil = now + LOCKOUT
              /\ st.failures + 1 < MAX_FAILURES =>
                    /\ b.senderState[s].failures = st.failures + 1
                    /\ b.senderState[s].lockedUntil = st.lockedUntil
            BY <2>1, <2>3, FailedEffect
        <3>2. QED BY <2>1, <3>1
    <2> DEFINE st2 == totp'[n].senderState[s]
               h2 == failedAt'[n][s]
    <2>7. CountedFailures(st2, h2, now)
        BY <2>1, <2>3, <2>4, <2>6, FailureCounted
    <2>8. \A k \in Lives, t \in Senders :
             CountedFailures(totp'[k].senderState[t], failedAt'[k][t], now)
        BY <2>1, <2>5, <2>7 DEF GuessInv
    <2>9. QED BY <2>2, <2>8 DEF GuessInv
<1>4. ASSUME NEW n \in Lives, NEW m \in Messages, Authenticate(n, m)
      PROVE  GuessInv'
    <2> DEFINE s == mail[m].sender
    <2>1. /\ s \in Senders /\ mail[m].text \in Nat
          /\ totp'[n] = Opened(totp[n], s, mail[m].text, now)
          /\ failedAt'[n][s] = <<>>
          /\ \A k \in Lives : k # n => totp'[k] = totp[k] /\ failedAt'[k] = failedAt[k]
          /\ \A t \in Senders : t # s => failedAt'[n][t] = failedAt[n][t]
        BY <1>4, AuthenticateEffect
    <2>2. now' = now
        BY <1>4, HandlerEffect
    <2>3. now \in Nat /\ totp[n] \in Authenticator
        BY DEF TypeOK
    <2> HIDE DEF s
    <2>4. LET b == Opened(totp[n], s, mail[m].text, now) IN
          /\ b.senderState[s].failures = 0
          /\ \A t \in Senders : t # s => b.senderState[t] = totp[n].senderState[t]
        <3>1. LET b == Opened(totp[n], s, mail[m].text, now) IN
              /\ b.senderState[s] = [authenticatedUntil |-> now + SESSION,
                                     failures |-> 0, lockedUntil |-> 0]
              /\ \A t \in Senders : t # s => b.senderState[t] = totp[n].senderState[t]
            BY <2>1, <2>3, OpenedEffect
        <3>2. QED BY <3>1
    <2>5. CountedFailures(totp'[n].senderState[s], <<>>, now)
        BY <2>1, <2>4, TotpAssumption DEF CountedFailures
    <2>6. \A k \in Lives, t \in Senders :
             CountedFailures(totp'[k].senderState[t], failedAt'[k][t], now)
        BY <2>1, <2>4, <2>5 DEF GuessInv
    <2>7. QED BY <2>2, <2>6 DEF GuessInv
<1>5. QED
    BY <1>1, <1>2, <1>3, <1>4, StepKinds, LifeStepQuiet, HandlerEffect DEF vars

\* A handler step moves one handler.
LEMMA OthersKeep ==
    ASSUME TypeOK, NEW n \in Lives, NEW m \in Messages,
           HandlerStep(n, m) \/ WrongGuess(n, m) \/ Authenticate(n, m),
           NEW k \in Lives, NEW r \in Messages, ~(k = n /\ r = m)
    PROVE  handler'[k][r] = handler[k][r]
<1>1. PICK from, to \in Stages : Goes(n, m, from, to)
    BY DEF HandlerStep, Receive, Refuse, Answer, Dispatch, Replied, Dispatched, HandlerFails,
           WrongGuess, Authenticate, Consumed, Ends, Stages
<1>2. QED BY <1>1 DEF Goes, TypeOK

\* Only Dispatch hands a message to the agent.
LEMMA DispatchOnly ==
    ASSUME TypeOK, [Next]_vars, NEW n \in Lives, NEW m \in Messages,
           handler[n][m] # "dispatching", handler'[n][m] = "dispatching"
    PROVE  Dispatch(n, m)
<1>1. CASE Tick \/ UNCHANGED vars
    BY <1>1 DEF Tick, vars
<1>2. CASE LifeStep
    <2>1. CASE \E k \in Lives : StartAccount(k)
        BY <2>1 DEF StartAccount, TypeOK
    <2>2. CASE Crash
        BY <2>2 DEF Crash, TypeOK
    <2>3. CASE UNCHANGED handler
        BY <2>3
    <2>4. QED
        BY <1>2, <2>1, <2>2, <2>3 DEF LifeStep, StartFails, BusStarted, AbortStart, Stop,
           Stopped, Health, Metric
<1>3. ASSUME NEW k \in Lives, NEW r \in Messages,
             HandlerStep(k, r) \/ WrongGuess(k, r) \/ Authenticate(k, r)
      PROVE  Dispatch(n, m)
    <2>1. k = n /\ r = m
        BY <1>3, OthersKeep
    <2>2. QED
        BY <1>3, <2>1 DEF HandlerStep, Receive, Refuse, Answer, Replied, Dispatched,
           HandlerFails, WrongGuess, Authenticate, Consumed, Ends, Goes, TypeOK
<1>4. QED BY <1>1, <1>2, <1>3, StepKinds

LEMMA AccountStep == AccountInv /\ [Next]_vars => AccountInv'
BY TypeStep, RegistryStep, SessionStep, CodeStep, GuessStep DEF AccountInv

-----------------------------------------------------------------------------
\* The inductive invariant holds of every reachable state.
THEOREM AccountInvariant == Spec => []AccountInv
BY AccountInit, AccountStep, PTL DEF Spec

\* Every variable keeps its type: no lock or session is ever dated before the start.
THEOREM GatewayTypes == Spec => []TypeOK
<1>1. AccountInv => TypeOK
    BY DEF AccountInv
<1>2. QED BY AccountInvariant, <1>1, PTL

\* However many lifecycles overlap, what start() and stop() leave in the registry, in the
\* snapshots and in the status is of a lifecycle that has not ended.
THEOREM RegistryFollowsLife == Spec => []RegistryIsLive
<1>1. AccountInv => RegistryIsLive
    BY DEF AccountInv
<1>2. QED BY AccountInvariant, <1>1, PTL

\* A late stop() never takes the bus that registered last out of the registry.
THEOREM LatestStaysReachable == Spec => []LatestIsReachable
<1>1. AccountInv => LatestIsReachable
    BY DEF AccountInv
<1>2. QED BY AccountInvariant, <1>1, PTL

\* authenticate() forgets used codes only when they are too old to be accepted: none opens
\* two sessions of one lifecycle.
THEOREM CodesAreUsedOnce == Spec => []NoCodeTwice
<1>1. AccountInv => NoCodeTwice
    BY DEF AccountInv
<1>2. QED BY AccountInvariant, <1>1, PTL

\* onMessage dispatches only within SESSION of a code its sender was accepted with.
THEOREM DispatchesAreInSession == Spec => DispatchInSession
<1> DEFINE A == \A n \in WithTotp, m \in Messages :
                   handler[n][m] # "dispatching" /\ handler'[n][m] = "dispatching" =>
                      \E e \in accepted : /\ e.life = n /\ e.sender = mail[m].sender
                                          /\ now < e.from + SESSION
<1>1. AccountInv /\ [Next]_vars => A
    <2> SUFFICES ASSUME AccountInv, [Next]_vars,
                        NEW n \in WithTotp, NEW m \in Messages,
                        handler[n][m] # "dispatching", handler'[n][m] = "dispatching"
                 PROVE  \E e \in accepted : /\ e.life = n /\ e.sender = mail[m].sender
                                            /\ now < e.from + SESSION
        OBVIOUS
    <2>1. TypeOK /\ SessionInv /\ n \in Lives
        BY AccountAssumption DEF AccountInv, Lives
    <2>2. Dispatch(n, m)
        BY <2>1, DispatchOnly
    <2>3. HasSession(totp[n], mail[m].sender, now) /\ mail[m].sender \in Senders
        BY <2>1, <2>2, MailTypes DEF Dispatch
    <2>4. now \in Nat /\ totp[n].senderState[mail[m].sender].authenticatedUntil \in Nat
        BY <2>1, <2>3 DEF TypeOK, Authenticator, SenderState
    <2>5. HasSession(totp[n], mail[m].sender, 0)
        BY <2>3, <2>4 DEF HasSession
    <2>6. QED BY <2>1, <2>3, <2>5 DEF SessionInv, HasSession
<1>2. QED BY AccountInvariant, <1>1, PTL DEF Spec, DispatchInSession

\* recordFailure() and its lock bound the guesses of a sender: of MAX_FAILURES + 1
\* failures in a row the first and the last are LOCKOUT apart.
THEOREM GuessesAreFew == Spec => GuessesAreBounded
<1> DEFINE A == \A n \in Lives, s \in Senders :
                   failedAt'[n][s] # failedAt[n][s] /\ failedAt'[n][s] # <<>>
                   /\ Len(failedAt[n][s]) = MAX_FAILURES
                   => now >= failedAt[n][s][1] + LOCKOUT
<1>1. AccountInv /\ [Next]_vars => A
    <2> SUFFICES ASSUME AccountInv, [Next]_vars, NEW n \in Lives, NEW s \in Senders,
                        failedAt'[n][s] # failedAt[n][s], failedAt'[n][s] # <<>>,
                        Len(failedAt[n][s]) = MAX_FAILURES
                 PROVE  now >= failedAt[n][s][1] + LOCKOUT
        OBVIOUS
    <2>1. TypeOK /\ GuessInv
        BY DEF AccountInv
    <2>2. PICK k \in Lives, m \in Messages : WrongGuess(k, m) \/ Authenticate(k, m)
        BY <2>1, StepKinds, LifeStepQuiet, HandlerEffect DEF Tick, vars, totpVars
    <2>3. ~IsLocked(totp[n], s, now)
        BY <2>1, <2>2, WrongGuessEffect, AuthenticateEffect
    <2> DEFINE h == failedAt[n][s]
               st == totp[n].senderState[s]
    <2>4. CountedFailures(st, h, now)
        BY <2>1 DEF GuessInv
    <2>5. totp[n] \in Authenticator /\ now \in Nat /\ h \in Seq(Nat)
        BY <2>1 DEF TypeOK
    <2>6. st.failures \in Nat /\ st.lockedUntil \in Nat
        BY <2>5 DEF Authenticator, SenderState
    <2> DEFINE i == MAX_FAILURES - st.failures
    <2>7. st.failures < MAX_FAILURES /\ st.lockedUntil = h[i] + LOCKOUT
        BY <2>4 DEF CountedFailures
    <2>8. 1 \in 1 .. Len(h) /\ i \in 1 .. Len(h) /\ 1 =< i
        BY <2>6, <2>7, TotpAssumption
    <2>9. h[1] =< h[i]
        BY <2>4, <2>8 DEF CountedFailures
    <2>10. h[1] \in Nat /\ h[i] \in Nat
        BY <2>5, <2>8
    <2>11. st.lockedUntil =< now
        BY <2>3, <2>5, <2>6 DEF IsLocked
    <2> HIDE DEF h, st, i
    <2>12. now >= h[1] + LOCKOUT
        BY <2>5, <2>7, <2>9, <2>10, <2>11, TotpAssumption
    <2>13. QED BY <2>12 DEF h
<1>2. QED BY AccountInvariant, <1>1, PTL DEF Spec, GuessesAreBounded

\* A handler that ends after its lifecycle has ended neither counts its message as
\* handled nor begins a reply.
THEOREM AbandonedStayQuiet == Spec => AbandonedIsQuiet
<1> DEFINE A == \A n \in Lives, m \in Messages :
                   life[n] = "closed" /\ handler'[n][m] \in {"handled", "replying"}
                   => handler[n][m] = handler'[n][m]
<1>1. AccountInv /\ [Next]_vars => A
    <2> SUFFICES ASSUME AccountInv, [Next]_vars, NEW n \in Lives, NEW m \in Messages,
                        life[n] = "closed", handler'[n][m] \in {"handled", "replying"}
                 PROVE  handler[n][m] = handler'[n][m]
        OBVIOUS
    <2>1. TypeOK
        BY DEF AccountInv
    <2>2. CASE Tick \/ UNCHANGED vars
        BY <2>2 DEF Tick, vars
    <2>3. CASE LifeStep
        <3>1. CASE \E k \in Lives : StartAccount(k)
            BY <2>1, <3>1 DEF StartAccount, TypeOK
        <3>2. CASE Crash
            BY <2>1, <3>2 DEF Crash, TypeOK
        <3>3. CASE UNCHANGED handler
            BY <3>3
        <3>4. QED
            BY <2>3, <3>1, <3>2, <3>3 DEF LifeStep, StartFails, BusStarted, AbortStart, Stop,
               Stopped, Health, Metric
    <2>4. ASSUME NEW k \in Lives, NEW r \in Messages,
                 HandlerStep(k, r) \/ WrongGuess(k, r) \/ Authenticate(k, r)
          PROVE  handler[n][m] = handler'[n][m]
        <3>1. CASE k = n /\ r = m
            BY <2>1, <2>4, <3>1 DEF HandlerStep, Receive, Refuse, Answer, Dispatch, Replied,
               Dispatched, HandlerFails, WrongGuess, Authenticate, Consumed, Ends, Goes, TypeOK
        <3>2. CASE ~(k = n /\ r = m)
            BY <2>1, <2>4, <3>2, OthersKeep
        <3>3. QED BY <3>1, <3>2
    <2>5. QED BY <2>2, <2>3, <2>4, StepKinds
<1>2. QED BY AccountInvariant, <1>1, PTL DEF Spec, AbandonedIsQuiet
=============================================================================
