--------------------- MODULE SubscriptionSupervisorProofs ---------------------
(***************************************************************************)
(* For every number of failures: the timers of a supervised subscription   *)
(* are disciplined, none of its subscriptions leaks, no late callback is   *)
(* accepted, stopping is final, and it keeps the contract RelayGenerations.*)
(***************************************************************************)
EXTENDS SubscriptionSupervisor, TLAPS

\* Before the first attempt nothing exists.
Unstarted ==
    callbackToken = 0 =>
        /\ current = 0 /\ connectionTimer = 0 /\ stabilityTimer = 0
        /\ ~reconnectTimer /\ issued = {} /\ ~stopped
        /\ health.state = "connecting" /\ health.generation = 0

\* A subscription's token was given out before, and the current one is the current
\* generation's.
IssuedInOrder ==
    \A s \in issued :
        /\ s.token > 0 /\ s.token =< callbackToken
        /\ s.token = callbackToken /\ ~stopped => s.generation = health.generation

\* A closer is held only for the attempt under way, never while degraded.
CurrentIsUnderWay ==
    /\ current # 0 => current = callbackToken /\ ~stopped
    /\ health.state = "degraded" => /\ current = 0
                                   /\ \A s \in issued : s.token # callbackToken

IInv ==
    /\ TypeOK
    /\ Unstarted
    /\ IssuedInOrder
    /\ CurrentIsUnderWay
    /\ TimerDiscipline
    /\ NoLeakedSubscription
    /\ NoStaleCallback
    /\ StopIsFinal
    /\ health.state = "stopped" => stopped

\* What each update of the health record leaves behind.
LEMMA OpeningHealth ==
    ASSUME health \in Health
    PROVE  /\ Opening \in Health
           /\ Opening.state = "connecting"
           /\ Opening.retryPlanned = FALSE
           /\ Opening.generation = health.generation + 1
           /\ Opening.reconnectAttempts = health.reconnectAttempts
<1> DEFINE g == health.generation + 1
<1>1. g \in Nat
    BY DEF Health
<1>2. Opening = [health EXCEPT !.state = "connecting", !.generation = g, !.retryPlanned = FALSE]
    BY Zenon DEF Opening
<1> HIDE DEF g
<1>3. QED
    <2>1. Opening \in Health
        BY <1>1, <1>2, Zenon DEF Health
    <2>2. Opening.state = "connecting" /\ Opening.generation = g
        BY <1>2, Zenon DEF Health
    <2>3. Opening.retryPlanned = FALSE
        BY <1>2, Zenon DEF Health
    <2>4. Opening.reconnectAttempts = health.reconnectAttempts
        BY <1>2, Zenon DEF Health
    <2>5. QED BY <2>1, <2>2, <2>3, <2>4 DEF g

LEMMA RetryHealth ==
    ASSUME NEW h \in Health, NEW x,
           x = [h EXCEPT !.state = "degraded", !.reconnectAttempts = @ + 1, !.retryPlanned = TRUE]
    PROVE  /\ x \in Health
           /\ x.state = "degraded"
           /\ x.retryPlanned = TRUE
           /\ x.generation = h.generation
           /\ x.reconnectAttempts = h.reconnectAttempts + 1
<1> DEFINE n == h.reconnectAttempts + 1
<1>1. n \in Nat
    BY DEF Health
<1>2. x = [h EXCEPT !.state = "degraded", !.reconnectAttempts = n, !.retryPlanned = TRUE]
    BY Zenon
<1> HIDE DEF n
<1>3. x \in Health
    BY <1>1, <1>2, Zenon DEF Health
<1>4. x.state = "degraded" /\ x.reconnectAttempts = n /\ x.generation = h.generation
    BY <1>2, Zenon DEF Health
<1>5. x.retryPlanned = TRUE
    BY <1>2, Zenon DEF Health
<1>6. QED BY <1>3, <1>4, <1>5 DEF n

LEMMA SettledHealth ==
    ASSUME NEW h \in Health, NEW st \in {"healthy", "stopped"}, NEW x,
           x = [h EXCEPT !.state = st, !.retryPlanned = FALSE]
    PROVE  /\ x \in Health
           /\ x.state = st
           /\ x.retryPlanned = FALSE
           /\ x.generation = h.generation
           /\ x.reconnectAttempts = h.reconnectAttempts
<1>1. st \in {"connecting", "healthy", "degraded", "stopped"}
    OBVIOUS
<1>2. x \in Health
    BY <1>1, Zenon DEF Health
<1>3. x.state = st /\ x.generation = h.generation /\ x.reconnectAttempts = h.reconnectAttempts
    BY Zenon DEF Health
<1>4. x.retryPlanned = FALSE
    BY Zenon DEF Health
<1>5. QED BY <1>2, <1>3, <1>4

\* scheduleReconnect, whether or not a timer was armed already.
LEMMA WaitHealth ==
    ASSUME health \in Health, reconnectTimer = health.retryPlanned
    PROVE  /\ WaitToReconnect(health) \in Health
           /\ WaitToReconnect(health).state = "degraded"
           /\ WaitToReconnect(health).retryPlanned = TRUE
           /\ WaitToReconnect(health).generation = health.generation
           /\ WaitToReconnect(health).reconnectAttempts =
                 IF reconnectTimer THEN health.reconnectAttempts
                 ELSE health.reconnectAttempts + 1
<1>1. CASE ~reconnectTimer
    <2>1. WaitToReconnect(health) =
             [health EXCEPT !.state = "degraded", !.reconnectAttempts = @ + 1, !.retryPlanned = TRUE]
        BY <1>1, Zenon DEF WaitToReconnect
    <2>2. QED BY <1>1, <2>1, RetryHealth
<1>2. CASE reconnectTimer
    <2>1. WaitToReconnect(health) = [health EXCEPT !.state = "degraded"]
        BY <1>2, Zenon DEF WaitToReconnect
    <2>2. QED BY <1>2, <2>1 DEF Health
<1>3. QED BY <1>1, <1>2

LEMMA InitIInv == Init => IInv
<1> SUFFICES ASSUME Init
             PROVE  IInv
    OBVIOUS
<1>1. health \in Health
    BY Zenon DEF Init, Health
<1>2. health.state = "connecting" /\ health.generation = 0
    BY DEF Init
<1>3. health.retryPlanned = FALSE
    BY Zenon DEF Init
<1>4. TypeOK
    BY <1>1 DEF Init, TypeOK, Subscription
<1>5. TimerDiscipline
    BY <1>3 DEF Init, TimerDiscipline
<1>6. QED
    BY <1>2, <1>4, <1>5 DEF Init, IInv, Unstarted, IssuedInOrder, CurrentIsUnderWay,
           NoLeakedSubscription, NoStaleCallback, StopIsFinal

\* Nothing is open when an attempt starts.
LEMMA NothingOpen ==
    ASSUME IInv, reconnectTimer \/ callbackToken = 0, ~stopped
    PROVE  open = {} /\ current = 0
<1>1. callbackToken \in Nat /\ open \subseteq issued
    BY DEF IInv, TypeOK
<1>2. CASE callbackToken = 0
    BY <1>1, <1>2 DEF IInv, Unstarted
<1>3. CASE callbackToken # 0
    <2>1. health.state = "degraded"
        BY <1>1, <1>3 DEF IInv, TimerDiscipline
    <2>2. current = 0
        BY <2>1 DEF IInv, CurrentIsUnderWay
    <2>3. \A s \in open : s.token = current /\ s.token > 0
        BY <1>1 DEF IInv, NoLeakedSubscription, IssuedInOrder
    <2>4. QED BY <2>2, <2>3
<1>4. QED BY <1>2, <1>3

\* Nothing stays open once the attempt under way has been closed.
LEMMA ClosingIsEnough ==
    ASSUME IInv
    PROVE  /\ {s \in open : s.token # current} = {}
           /\ \A s \in issued : s.token = callbackToken /\ ~stopped => open \ {s} = {}
<1>1. {s \in open : s.token # current} = {}
    BY DEF IInv, NoLeakedSubscription
<1>2. ASSUME NEW s \in issued, s.token = callbackToken, ~stopped, NEW t \in open
      PROVE  t = s
    <2>1. t \in Subscription /\ s \in Subscription /\ t \in issued
        BY DEF IInv, TypeOK
    <2>2. t.token = s.token /\ t.generation = s.generation
        BY <1>2, <2>1 DEF IInv, NoLeakedSubscription, IssuedInOrder
    <2>3. QED BY <2>1, <2>2 DEF Subscription
<1>3. QED BY <1>1, <1>2

-----------------------------------------------------------------------------
\* An attempt to subscribe, successful or not.
LEMMA OpenStep ==
    ASSUME IInv, reconnectTimer \/ callbackToken = 0, ~stopped, OpenSubscription
    PROVE  IInv'
<1>1. /\ TypeOK /\ open = {} /\ current = 0 /\ IssuedInOrder
      /\ callbackToken \in Nat /\ health.generation \in Nat /\ health.reconnectAttempts \in Nat
    BY NothingOpen DEF IInv, TypeOK, Health
<1>2. Opening \in Health /\ Opening.state = "connecting" /\ ~Opening.retryPlanned
      /\ Opening.generation = health.generation + 1
    BY <1>1, OpeningHealth DEF TypeOK
<1>3. NewSubscription \in Subscription
      /\ NewSubscription.token = callbackToken + 1
      /\ NewSubscription.generation = health.generation + 1
    BY <1>1 DEF NewSubscription, Subscription
<1>4. stabilityTimer = 0
    BY <1>1 DEF IInv, TimerDiscipline, Unstarted, TypeOK
<1>5. CASE Subscribed /\ UNCHANGED <<stopped, accepted>>
    <2>1. TypeOK'
        <3>1. open' \subseteq issued' /\ issued' \subseteq Subscription
            BY <1>1, <1>3, <1>5 DEF Subscribed, TypeOK
        <3>2. health' \in Health /\ reconnectTimer' \in BOOLEAN
            BY <1>2, <1>5 DEF Subscribed
        <3>3. QED BY <1>1, <1>5, <3>1, <3>2 DEF Subscribed, TypeOK
    <2>2. Unstarted' /\ CurrentIsUnderWay' /\ NoStaleCallback' /\ StopIsFinal'
        BY <1>1, <1>2, <1>5 DEF Subscribed, Unstarted, CurrentIsUnderWay, NoStaleCallback,
               StopIsFinal, IInv
    <2>3. IssuedInOrder'
        BY <1>1, <1>2, <1>3, <1>5 DEF Subscribed, IssuedInOrder, TypeOK, Subscription
    <2>4. TimerDiscipline'
        <3>1. /\ reconnectTimer' = FALSE /\ health'.retryPlanned = FALSE
              /\ health'.state = "connecting"
            <4>1. reconnectTimer' = FALSE
                BY <1>5, Zenon DEF Subscribed
            <4>2. health' = Opening
                BY <1>5 DEF Subscribed
            <4>3. health'.retryPlanned = FALSE
                BY <1>1, <4>2, OpeningHealth, Zenon DEF TypeOK
            <4>4. health'.state = "connecting"
                BY <1>2, <4>2, Zenon
            <4>5. QED BY <4>1, <4>3, <4>4, Zenon
        <3>2. QED BY <1>4, <1>5, <3>1 DEF Subscribed, TimerDiscipline
    <2>5. NoLeakedSubscription'
        BY <1>1, <1>3, <1>5 DEF Subscribed, NoLeakedSubscription
    <2>6. QED BY <1>2, <1>5, <2>1, <2>2, <2>3, <2>4, <2>5 DEF IInv, Subscribed
<1>6. CASE SubscribeFails /\ UNCHANGED <<stopped, accepted>>
    <2>1. /\ health' \in Health /\ health'.state = "degraded" /\ health'.retryPlanned
          /\ health'.generation = health.generation + 1
        BY <1>1, <1>2, <1>6, RetryHealth DEF SubscribeFails
    <2>2. TypeOK'
        BY <1>1, <1>3, <1>6, <2>1 DEF SubscribeFails, RelayFails, TypeOK
    <2>3. Unstarted' /\ CurrentIsUnderWay' /\ NoStaleCallback' /\ StopIsFinal'
        <3>1. \A s \in issued' : s.token # callbackToken'
            BY <1>1, <1>3, <1>6 DEF SubscribeFails, IssuedInOrder, TypeOK, Subscription
        <3>2. QED BY <1>1, <1>6, <2>1, <3>1 DEF SubscribeFails, Unstarted, CurrentIsUnderWay,
               NoStaleCallback, StopIsFinal, IInv
    <2>4. IssuedInOrder'
        BY <1>1, <1>3, <1>6, <2>1 DEF SubscribeFails, IssuedInOrder, TypeOK, Subscription
    <2>5. TimerDiscipline'
        BY <1>1, <1>6, <2>1 DEF SubscribeFails, TimerDiscipline
    <2>6. NoLeakedSubscription'
        BY <1>1, <1>6 DEF SubscribeFails, NoLeakedSubscription
    <2>7. QED BY <1>6, <2>1, <2>2, <2>3, <2>4, <2>5, <2>6 DEF IInv
<1>7. QED BY <1>5, <1>6 DEF OpenSubscription

\* An attempt ends: nothing of it is left but the reconnect timer.
LEMMA CloseStep ==
    ASSUME IInv, HandleClose, RelayFails, ~stopped, callbackToken > 0, open' = {},
           UNCHANGED <<stopped, issued, accepted>>
    PROVE  IInv'
<1>1. /\ TypeOK /\ callbackToken \in Nat /\ health \in Health
      /\ reconnectTimer = health.retryPlanned
    BY DEF IInv, TypeOK, TimerDiscipline
<1>2. /\ health' \in Health /\ health'.state = "degraded"
      /\ health'.generation = health.generation
    BY <1>1, WaitHealth DEF HandleClose
<1>3. health'.retryPlanned = TRUE
    BY <1>1, WaitHealth DEF HandleClose
<1>4. TypeOK'
    BY <1>1, <1>2 DEF HandleClose, RelayFails, TypeOK
<1>5. Unstarted' /\ CurrentIsUnderWay' /\ NoStaleCallback' /\ StopIsFinal'
    BY <1>1 DEF HandleClose, Unstarted, CurrentIsUnderWay, NoStaleCallback, StopIsFinal, IInv,
           IssuedInOrder, TypeOK, Subscription
<1>6. IssuedInOrder'
    BY <1>1, <1>2 DEF HandleClose, IssuedInOrder, IInv, TypeOK, Subscription
<1>7. TimerDiscipline'
    BY <1>2, <1>3 DEF HandleClose, TimerDiscipline
<1>8. QED BY <1>2, <1>4, <1>5, <1>6, <1>7 DEF IInv, NoLeakedSubscription

LEMMA AnsweredStep ==
    ASSUME IInv, NEW s \in issued, Answered(s)
    PROVE  IInv'
<1>1. /\ TypeOK /\ health \in Health /\ callbackToken \in Nat /\ s \in Subscription
      /\ ~stopped /\ s.token = callbackToken /\ s.token > 0
      /\ s.generation = health.generation
    BY DEF IInv, TypeOK, IssuedInOrder, Answered, IsCurrent
<1>2. /\ health' \in Health /\ health'.state = "healthy"
      /\ health'.generation = health.generation
      /\ health'.reconnectAttempts = health.reconnectAttempts
    BY <1>1, SettledHealth DEF Answered
<1>3. health'.retryPlanned = FALSE
    BY <1>1, SettledHealth DEF Answered
<1>4. ~reconnectTimer
    <2>1. health.state # "degraded"
        BY <1>1 DEF IInv, CurrentIsUnderWay
    <2>2. QED BY <1>1, <2>1 DEF IInv, TimerDiscipline
<1>5. TypeOK'
    BY <1>1, <1>2 DEF Answered, TypeOK, Subscription
<1>6. Unstarted' /\ CurrentIsUnderWay' /\ StopIsFinal' /\ IssuedInOrder'
    BY <1>1, <1>2 DEF Answered, Unstarted, CurrentIsUnderWay, StopIsFinal, IssuedInOrder, IInv
<1>7. NoStaleCallback' /\ NoLeakedSubscription'
    BY <1>1 DEF Answered, NoStaleCallback, NoLeakedSubscription, IInv
<1>8. TimerDiscipline'
    <2>1. reconnectTimer' = FALSE /\ health'.retryPlanned = FALSE
        BY <1>1, <1>3, <1>4 DEF Answered, TypeOK
    <2>2. stabilityTimer' # 0 => stabilityTimer' = callbackToken
        BY <1>1 DEF Answered, TimerDiscipline, IInv
    <2>3. health'.reconnectAttempts > 0 => stabilityTimer' # 0
        BY <1>1, <1>2 DEF Answered, TypeOK
    <2>4. QED BY <1>1, <1>2, <2>1, <2>2, <2>3 DEF Answered, TimerDiscipline
<1>9. QED BY <1>1, <1>2, <1>5, <1>6, <1>7, <1>8 DEF IInv

LEMMA StabilityStep ==
    ASSUME IInv, StabilityElapsed
    PROVE  IInv'
<1>1. /\ TypeOK /\ health \in Health /\ stabilityTimer # 0 /\ stabilityTimer' = 0
      /\ UNCHANGED <<stopped, callbackToken, current, reconnectTimer,
                     connectionTimer, issued, open, accepted>>
    BY DEF IInv, TypeOK, StabilityElapsed
<1>2. /\ ~stopped /\ callbackToken > 0
    BY <1>1 DEF IInv, StopIsFinal, Unstarted, TypeOK
<1>3. stabilityTimer = callbackToken /\ health.state = "healthy"
    BY <1>1, <1>2 DEF IInv, TimerDiscipline
<1>4. health' = [health EXCEPT !.reconnectAttempts = 0]
    BY <1>2, <1>3 DEF StabilityElapsed, IsCurrent
<1>5. /\ health' \in Health /\ health'.reconnectAttempts = 0
      /\ health'.state = health.state /\ health'.generation = health.generation
    BY <1>1, <1>4 DEF Health
<1>6. health'.retryPlanned = health.retryPlanned
    BY <1>1, <1>4, Zenon DEF Health
<1>7. TypeOK'
    BY <1>1, <1>5 DEF StabilityElapsed, TypeOK
<1>8. TimerDiscipline'
    <2>1. reconnectTimer' = health'.retryPlanned
        BY <1>1, <1>6 DEF IInv, TimerDiscipline
    <2>2. QED BY <1>1, <1>2, <1>5, <2>1 DEF IInv, TimerDiscipline
<1>9. QED
    BY <1>1, <1>2, <1>3, <1>5, <1>7, <1>8 DEF IInv, Unstarted, IssuedInOrder, CurrentIsUnderWay,
           NoLeakedSubscription, NoStaleCallback, StopIsFinal

LEMMA StopStep ==
    ASSUME IInv, Stop
    PROVE  IInv'
<1>1. TypeOK /\ health \in Health /\ callbackToken \in Nat /\ {s \in open : s.token # current} = {}
    BY ClosingIsEnough DEF IInv, TypeOK
<1>2. health' \in Health /\ health'.state = "stopped"
    BY <1>1, SettledHealth DEF Stop
<1>3. health'.retryPlanned = FALSE
    BY <1>1, SettledHealth DEF Stop
<1>4. TypeOK' /\ open' = {}
    <2>1. open' = {} /\ issued' = issued
        BY <1>1 DEF Stop
    <2>2. stopped' \in BOOLEAN /\ reconnectTimer' \in BOOLEAN
        BY DEF Stop
    <2>3. QED BY <1>1, <1>2, <2>1, <2>2 DEF Stop, TypeOK
<1>5. TimerDiscipline'
    BY <1>3 DEF Stop, TimerDiscipline
<1>6. IssuedInOrder' /\ Unstarted' /\ CurrentIsUnderWay'
    BY <1>1, <1>2 DEF Stop, IInv, IssuedInOrder, Unstarted, CurrentIsUnderWay, TypeOK, Subscription
<1>7. QED
    BY <1>2, <1>4, <1>5, <1>6 DEF Stop, IInv, NoLeakedSubscription, NoStaleCallback, StopIsFinal

LEMMA IInvStep == IInv /\ [Next]_vars => IInv'
<1> SUFFICES ASSUME IInv, [Next]_vars
             PROVE  IInv'
    OBVIOUS
<1>1. CASE Construct \/ ReconnectFires
    BY <1>1, OpenStep DEF Construct, ReconnectFires
<1>2. ASSUME NEW s \in issued, Closed(s)
      PROVE  IInv'
    <2>1. /\ ~stopped /\ s.token = callbackToken /\ callbackToken > 0
          /\ open \ {s} = {}
        BY <1>2, ClosingIsEnough DEF Closed, IsCurrent, IInv, IssuedInOrder
    <2>2. QED BY <1>2, <2>1, CloseStep DEF Closed
<1>3. CASE ConnectionTimeout
    <2>1. ~stopped /\ callbackToken > 0
        BY <1>3 DEF ConnectionTimeout, IsCurrent, IInv, TypeOK
    <2>2. QED BY <1>3, <2>1, CloseStep, ClosingIsEnough DEF ConnectionTimeout
<1>4. CASE UNCHANGED vars
    BY <1>4 DEF vars, IInv, TypeOK, Unstarted, IssuedInOrder, CurrentIsUnderWay,
           TimerDiscipline, NoLeakedSubscription, NoStaleCallback, StopIsFinal
<1>5. QED
    BY <1>1, <1>2, <1>3, <1>4, AnsweredStep, StabilityStep, StopStep DEF Next

THEOREM Invariant == Spec => []IInv
<1>1. QED BY InitIInv, IInvStep, PTL DEF Spec

-----------------------------------------------------------------------------
\* Every variable keeps its type, the tokens held by timers, closer and transport included.
THEOREM SupervisorTypes == Spec => []TypeOK
<1>1. IInv => TypeOK
    BY DEF IInv
<1>2. QED BY <1>1, Invariant, PTL

\* Whatever order callbacks and timers come in, exactly the timer the state needs
\* is armed.
THEOREM TimersDisciplined == Spec => []TimerDiscipline
<1>1. IInv => TimerDiscipline
    BY DEF IInv
<1>2. QED BY <1>1, Invariant, PTL

\* The transport never serves a subscription the supervisor has lost track of.
THEOREM NothingLeaks == Spec => []NoLeakedSubscription
<1>1. IInv => NoLeakedSubscription
    BY DEF IInv
<1>2. QED BY <1>1, Invariant, PTL

\* No callback of an ended attempt is reported as one of the current generation.
THEOREM NothingStale == Spec => []NoStaleCallback
<1>1. IInv => NoStaleCallback
    BY DEF IInv
<1>2. QED BY <1>1, Invariant, PTL

\* Nothing is armed and nothing is open after stop().
THEOREM StopsForGood == Spec => []StopIsFinal
<1>1. IInv => StopIsFinal
    BY DEF IInv
<1>2. QED BY <1>1, Invariant, PTL

\* The retry count falls back only when the attempt under way has been healthy for
\* the stability interval, and otherwise grows by one with each failure.
THEOREM BackoffIsKept == Spec => BackoffKept
<1>1. ASSUME IInv, [Next]_vars, health'.reconnectAttempts # health.reconnectAttempts
      PROVE  \/ /\ health'.reconnectAttempts = health.reconnectAttempts + 1
                /\ failures' = failures + 1
             \/ /\ health'.reconnectAttempts = 0
                /\ health.state = "healthy"
                /\ stabilityTimer = callbackToken
    <2>1. health \in Health /\ reconnectTimer = health.retryPlanned
        BY <1>1 DEF IInv, TypeOK, TimerDiscipline
    <2>2. CASE OpenSubscription
        <3>1. ~Subscribed
            BY <1>1, <2>1, OpeningHealth DEF Subscribed
        <3>2. SubscribeFails
            BY <2>2, <3>1 DEF OpenSubscription
        <3>3. health'.reconnectAttempts = health.reconnectAttempts + 1
            <4>1. Opening \in Health /\ Opening.reconnectAttempts = health.reconnectAttempts
                BY <2>1, OpeningHealth
            <4>2. health' = [Opening EXCEPT !.state = "degraded", !.reconnectAttempts = @ + 1,
                                            !.retryPlanned = TRUE]
                BY <3>2, Zenon DEF SubscribeFails
            <4>3. health'.reconnectAttempts = Opening.reconnectAttempts + 1
                BY <4>1, <4>2, RetryHealth
            <4>4. QED BY <4>1, <4>3
        <3>4. QED BY <3>2, <3>3 DEF SubscribeFails, RelayFails
    <2>3. CASE HandleClose /\ RelayFails
        BY <1>1, <2>1, <2>3, WaitHealth DEF HandleClose, RelayFails
    <2>4. ASSUME NEW s \in issued, Answered(s)
          PROVE  FALSE
        BY <1>1, <2>1, <2>4, SettledHealth DEF Answered
    <2>5. CASE Stop
        BY <1>1, <2>1, <2>5, SettledHealth DEF Stop
    <2>6. CASE StabilityElapsed
        <3>1. IsCurrent(stabilityTimer) /\ health.state = "healthy"
            BY <1>1, <2>6 DEF StabilityElapsed
        <3>2. health'.reconnectAttempts = 0
            BY <2>1, <2>6, <3>1 DEF StabilityElapsed, Health
        <3>3. QED BY <3>1, <3>2 DEF IsCurrent
    <2>7. CASE UNCHANGED vars
        BY <1>1, <2>7 DEF vars
    <2>8. QED
        BY <1>1, <2>2, <2>3, <2>4, <2>5, <2>6, <2>7
           DEF Next, Construct, ReconnectFires, Closed, ConnectionTimeout
<1>2. QED BY <1>1, Invariant, PTL DEF Spec, BackoffKept

\* Every step of the supervisor is a step its owner expects.
THEOREM KeepsContract == Spec => ImplementsContract
<1>1. Init => Contract!Init
    BY DEF Init, Contract!Init
<1>2. ASSUME IInv, [Next]_vars
      PROVE  [Contract!Next]_Contract!vars
    <2> USE DEF Contract!Next, Contract!vars, Contract!Begin, Contract!Answer, Contract!Fail,
                Contract!Reconnect, Contract!End
    <2>1. /\ health \in Health /\ reconnectTimer = health.retryPlanned /\ callbackToken \in Nat
          /\ stopped \in BOOLEAN
        BY <1>2 DEF IInv, TypeOK, TimerDiscipline
    <2>2. ASSUME reconnectTimer \/ callbackToken = 0, ~stopped, OpenSubscription
          PROVE  [Contract!Next]_Contract!vars
        <3>1. /\ health'.generation = health.generation + 1
              /\ health'.state \in {"connecting", "degraded"}
              /\ callbackToken' > 0
            <4>1. /\ Opening \in Health /\ Opening.state = "connecting"
                  /\ Opening.generation = health.generation + 1
                BY <2>1, OpeningHealth
            <4>2. CASE Subscribed
                BY <2>1, <4>1, <4>2 DEF Subscribed
            <4>3. CASE SubscribeFails
                <5>1. health' = [Opening EXCEPT !.state = "degraded", !.reconnectAttempts = @ + 1,
                                                !.retryPlanned = TRUE]
                    BY <4>3, Zenon DEF SubscribeFails
                <5>2. health'.generation = Opening.generation /\ health'.state = "degraded"
                    BY <4>1, <5>1, RetryHealth
                <5>3. QED BY <2>1, <4>1, <4>3, <5>2 DEF SubscribeFails
            <4>4. QED BY <2>2, <4>2, <4>3 DEF OpenSubscription
        <3>2. callbackToken = 0 => health.generation = 0
            BY <1>2 DEF IInv, Unstarted
        <3>3. callbackToken # 0 => health.state = "degraded"
            BY <1>2, <2>1, <2>2 DEF IInv, TimerDiscipline
        <3>4. QED BY <2>1, <3>1, <3>2, <3>3
    <2>3. ASSUME HandleClose, ~stopped, callbackToken > 0, ~reconnectTimer
          PROVE  [Contract!Next]_Contract!vars
        <3>1. /\ health'.generation = health.generation /\ health'.state = "degraded"
              /\ callbackToken' > 0
            BY <2>1, <2>3, WaitHealth DEF HandleClose
        <3>2. health.state \in {"connecting", "healthy"}
            BY <1>2, <2>1, <2>3 DEF IInv, TimerDiscipline, Health
        <3>3. QED BY <2>1, <2>3, <3>1, <3>2
    <2>4. ASSUME NEW s \in issued, IsCurrent(s.token)
          PROVE  callbackToken > 0 /\ ~reconnectTimer
        BY <1>2, <2>1, <2>4 DEF IsCurrent, IInv, IssuedInOrder, CurrentIsUnderWay, TimerDiscipline
    <2>5. ASSUME NEW s \in issued, Answered(s)
          PROVE  [Contract!Next]_Contract!vars
        <3>1. /\ health'.generation = health.generation /\ health'.state = "healthy"
              /\ callbackToken' = callbackToken
            BY <2>1, <2>5, SettledHealth DEF Answered
        <3>2. callbackToken > 0 /\ ~reconnectTimer /\ ~stopped
            BY <2>4, <2>5 DEF Answered, IsCurrent
        <3>3. health.state \in {"connecting", "healthy"}
            BY <1>2, <2>1, <3>2 DEF IInv, TimerDiscipline, Health
        <3>4. QED BY <2>1, <3>1, <3>2, <3>3
    <2>6. CASE ConnectionTimeout
        <3>1. ~stopped /\ callbackToken > 0 /\ connectionTimer # 0
            BY <2>1, <2>6 DEF ConnectionTimeout, IsCurrent
        <3>2. ~reconnectTimer
            BY <1>2, <3>1 DEF IInv, TimerDiscipline
        <3>3. QED BY <2>3, <2>6, <3>1, <3>2 DEF ConnectionTimeout
    <2>7. CASE StabilityElapsed
        <3>1. callbackToken' = callbackToken
            BY <2>7 DEF StabilityElapsed
        <3>2. health'.generation = health.generation /\ health'.state = health.state
            BY <2>1, <2>7 DEF StabilityElapsed, Health
        <3>3. QED BY <3>1, <3>2
    <2>8. CASE Stop
        <3>1. health'.generation = health.generation /\ health'.state = "stopped"
            BY <2>1, <2>8, SettledHealth DEF Stop
        <3>2. callbackToken' > 0 /\ callbackToken > 0
            BY <2>1, <2>8 DEF Stop
        <3>3. QED BY <2>1, <3>1, <3>2
    <2>9. CASE UNCHANGED vars
        BY <2>9 DEF vars
    <2>10. CASE Construct \/ ReconnectFires
        BY <2>2, <2>10 DEF Construct, ReconnectFires
    <2>11. ASSUME NEW s \in issued, Closed(s)
           PROVE  [Contract!Next]_Contract!vars
        <3>1. HandleClose /\ ~stopped /\ callbackToken > 0 /\ ~reconnectTimer
            BY <2>4, <2>11 DEF Closed, IsCurrent
        <3>2. QED BY <2>3, <3>1
    <2> HIDE DEF Contract!Next, Contract!vars
    <2>12. QED
        BY <1>2, <2>5, <2>6, <2>7, <2>8, <2>9, <2>10, <2>11 DEF Next
<1>3. QED BY <1>1, <1>2, Invariant, PTL DEF Spec, ImplementsContract, Contract!Spec
=============================================================================
