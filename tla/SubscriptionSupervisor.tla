----------------------- MODULE SubscriptionSupervisor -----------------------
(***************************************************************************)
(* createSubscriptionSupervisor (src/src/subscription-supervisor.ts): one  *)
(* relay subscription kept alive by three timers.                          *)
(*                                                                         *)
(* Every callback handed to the transport and every timer closure captures *)
(* the callbackToken of the attempt that made it and is ignored once the   *)
(* token has moved on.  A timer variable is 0 (null) or the token its      *)
(* closure captured.  The transport may call back at any time, also for a  *)
(* subscription that was closed long ago: the set issued remembers them.   *)
(***************************************************************************)
EXTENDS Naturals

CONSTANT
    MaxFailures     \* the relay misbehaves (closes, refuses, is silent) this often

ASSUME MaxFailuresAssumption == MaxFailures \in Nat

VARIABLES
    stopped,
    callbackToken,
    current,            \* token of the subscription whose closer is held, or 0
    reconnectTimer,     \* armed or not: its closure reads the current state
    connectionTimer,    \* 0 or the token captured by its closure
    stabilityTimer,     \* 0 or the token captured by its closure
    health,             \* SubscriptionHealth: what its owner is told
    issued,             \* subscriptions the transport knows callbacks for
    open,               \* those the transport still serves
    accepted,           \* last callback let through: its generation, and the one reported
    failures

vars == <<stopped, callbackToken, current, reconnectTimer, connectionTimer,
          stabilityTimer, health, issued, open, accepted, failures>>

Subscription == [token : Nat, generation : Nat]

Health == [state : {"connecting", "healthy", "degraded", "stopped"},
           generation : Nat,
           reconnectAttempts : Nat,
           retryPlanned : BOOLEAN]          \* nextReconnectAt # null

TypeOK ==
    /\ stopped \in BOOLEAN
    /\ callbackToken \in Nat
    /\ current \in Nat
    /\ reconnectTimer \in BOOLEAN
    /\ connectionTimer \in Nat
    /\ stabilityTimer \in Nat
    /\ health \in Health
    /\ issued \subseteq Subscription
    /\ open \subseteq issued
    /\ accepted \in [from : Nat, as : Nat]
    /\ failures \in Nat

Init ==
    /\ stopped = FALSE
    /\ callbackToken = 0
    /\ current = 0
    /\ reconnectTimer = FALSE
    /\ connectionTimer = 0
    /\ stabilityTimer = 0
    /\ health = [state |-> "connecting", generation |-> 0,
                 reconnectAttempts |-> 0, retryPlanned |-> FALSE]
    /\ issued = {}
    /\ open = {}
    /\ accepted = [from |-> 0, as |-> 0]
    /\ failures = 0

-----------------------------------------------------------------------------
\* Mutant: callbacks of superseded attempts are not filtered.
IgnoreToken(token) == ~stopped

\* A callback or closure of an attempt counts only while its token is current.
IsCurrent(token) == ~stopped /\ token = callbackToken

\* The relay failing is an environment step: it happens at most MaxFailures times.
RelayFails ==
    /\ failures < MaxFailures
    /\ failures' = failures + 1

\* scheduleReconnect: a timer that is already armed is kept, with its attempt.
WaitToReconnect(h) ==
    IF reconnectTimer
    THEN [h EXCEPT !.state = "degraded"]
    ELSE [h EXCEPT !.state = "degraded",
                   !.reconnectAttempts = @ + 1,
                   !.retryPlanned = TRUE]

\* Mutant: the stability timer of the ended attempt is not cancelled.
CloseKeepsStability ==
    /\ connectionTimer' = 0
    /\ UNCHANGED stabilityTimer
    /\ callbackToken' = callbackToken + 1
    /\ current' = 0
    /\ health' = WaitToReconnect(health)
    /\ reconnectTimer' = TRUE

\* Mutant: the attempt ends without scheduling the next one.
CloseWithoutRetry ==
    /\ connectionTimer' = 0
    /\ stabilityTimer' = 0
    /\ callbackToken' = callbackToken + 1
    /\ current' = 0
    /\ health' = [health EXCEPT !.state = "degraded"]
    /\ UNCHANGED reconnectTimer

\* handleClose: the attempt is over, whoever ended it.
HandleClose ==
    /\ connectionTimer' = 0
    /\ stabilityTimer' = 0
    /\ callbackToken' = callbackToken + 1
    /\ current' = 0
    /\ health' = WaitToReconnect(health)
    /\ reconnectTimer' = TRUE

-----------------------------------------------------------------------------
\* Mutant: a reconnect reuses the generation of the failed attempt.
OpeningSameGeneration == [health EXCEPT !.state = "connecting", !.retryPlanned = FALSE]

\* openSubscription.  The owner hears of the new generation before subscribe runs.
Opening == [health EXCEPT !.state = "connecting",
                          !.generation = @ + 1,
                          !.retryPlanned = FALSE]

NewSubscription == [token |-> callbackToken + 1, generation |-> health.generation + 1]

\* subscribe returns a closer and the attempt is still the current one.
Subscribed ==
    /\ callbackToken' = callbackToken + 1
    /\ health' = Opening
    /\ connectionTimer' = callbackToken + 1
    /\ current' = callbackToken + 1
    /\ reconnectTimer' = FALSE
    /\ issued' = issued \cup {NewSubscription}
    /\ open' = open \cup {NewSubscription}
    /\ UNCHANGED <<stabilityTimer, failures>>

\* subscribe throws, or calls onclose before it returns (its closer is then closed
\* as superseded): the attempt ends inside openSubscription.
SubscribeFails ==
    /\ RelayFails
    /\ callbackToken' = callbackToken + 2
    /\ health' = [Opening EXCEPT !.state = "degraded",
                                 !.reconnectAttempts = @ + 1,
                                 !.retryPlanned = TRUE]
    /\ connectionTimer' = 0
    /\ stabilityTimer' = 0
    /\ current' = 0
    /\ reconnectTimer' = TRUE
    /\ issued' \in {issued, issued \cup {NewSubscription}}
    /\ UNCHANGED open

OpenSubscription ==
    /\ Subscribed \/ SubscribeFails
    /\ UNCHANGED <<stopped, accepted>>

\* The constructor opens the first generation.
Construct ==
    /\ callbackToken = 0
    /\ ~stopped
    /\ OpenSubscription

\* The reconnect timer's callback.
ReconnectFires ==
    /\ reconnectTimer
    /\ ~stopped
    /\ OpenSubscription

-----------------------------------------------------------------------------
\* Mutant: the first answer already forgives the accumulated attempts.
AnsweredForgives(s) ==
    /\ IsCurrent(s.token)
    /\ connectionTimer' = 0
    /\ health' = [health EXCEPT !.state = "healthy", !.retryPlanned = FALSE,
                                !.reconnectAttempts = 0]
    /\ accepted' = [from |-> s.generation, as |-> health.generation]
    /\ UNCHANGED <<stopped, callbackToken, current, reconnectTimer,
                   stabilityTimer, issued, open, failures>>

\* onevent and oneose: the relay answers on subscription s.
Answered(s) ==
    /\ IsCurrent(s.token)
    /\ connectionTimer' = 0
    /\ health' = [health EXCEPT !.state = "healthy", !.retryPlanned = FALSE]
    /\ stabilityTimer' = IF stabilityTimer = 0 /\ health.reconnectAttempts > 0
                         THEN s.token ELSE stabilityTimer
    /\ accepted' = [from |-> s.generation, as |-> health.generation]
    /\ UNCHANGED <<stopped, callbackToken, current, reconnectTimer,
                   issued, open, failures>>

\* onclose: the relay, or its connection, ends subscription s.
Closed(s) ==
    /\ IsCurrent(s.token)
    /\ RelayFails
    /\ HandleClose
    /\ open' = open \ {s}
    /\ UNCHANGED <<stopped, issued, accepted>>

\* Mutant: the silent subscription is given up but not closed.
TimeoutWithoutClose ==
    /\ connectionTimer # 0
    /\ IsCurrent(connectionTimer)
    /\ RelayFails
    /\ HandleClose
    /\ UNCHANGED <<stopped, issued, open, accepted>>

\* No event and no EOSE in time: the attempt ends and its subscription is closed.
ConnectionTimeout ==
    /\ connectionTimer # 0
    /\ IsCurrent(connectionTimer)
    /\ RelayFails
    /\ HandleClose
    /\ open' = {s \in open : s.token # current}
    /\ UNCHANGED <<stopped, issued, accepted>>

\* The subscription stayed healthy: the next failure starts from the base delay.
StabilityElapsed ==
    /\ stabilityTimer # 0
    /\ stabilityTimer' = 0
    /\ health' = IF IsCurrent(stabilityTimer) /\ health.state = "healthy"
                 THEN [health EXCEPT !.reconnectAttempts = 0]
                 ELSE health
    /\ UNCHANGED <<stopped, callbackToken, current, reconnectTimer,
                   connectionTimer, issued, open, accepted, failures>>

\* Mutant: stopping a degraded subscription leaves its reconnect timer armed.
StopKeepsReconnect ==
    /\ ~stopped
    /\ callbackToken > 0
    /\ stopped' = TRUE
    /\ callbackToken' = callbackToken + 1
    /\ connectionTimer' = 0
    /\ stabilityTimer' = 0
    /\ open' = {s \in open : s.token # current}
    /\ current' = 0
    /\ health' = [health EXCEPT !.state = "stopped", !.retryPlanned = FALSE]
    /\ UNCHANGED <<reconnectTimer, issued, accepted, failures>>

\* Mutant: stop() reports a state its owner does not know.
StopUnknownState ==
    /\ ~stopped
    /\ callbackToken > 0
    /\ stopped' = TRUE
    /\ callbackToken' = callbackToken + 1
    /\ reconnectTimer' = FALSE
    /\ connectionTimer' = 0
    /\ stabilityTimer' = 0
    /\ open' = {s \in open : s.token # current}
    /\ current' = 0
    /\ health' = [health EXCEPT !.state = "closing", !.retryPlanned = FALSE]
    /\ UNCHANGED <<issued, accepted, failures>>

\* stop(): every timer is cancelled and the subscription closed, once.
Stop ==
    /\ ~stopped
    /\ callbackToken > 0
    /\ stopped' = TRUE
    /\ callbackToken' = callbackToken + 1
    /\ reconnectTimer' = FALSE
    /\ connectionTimer' = 0
    /\ stabilityTimer' = 0
    /\ open' = {s \in open : s.token # current}
    /\ current' = 0
    /\ health' = [health EXCEPT !.state = "stopped", !.retryPlanned = FALSE]
    /\ UNCHANGED <<issued, accepted, failures>>

Next ==
    \/ Construct
    \/ ReconnectFires
    \/ \E s \in issued : Answered(s) \/ Closed(s)
    \/ ConnectionTimeout
    \/ StabilityElapsed
    \/ Stop

Spec == Init /\ [][Next]_vars

\* Timers fire, and a relay that has used up its failures answers a subscription.
Fairness ==
    /\ WF_vars(Construct)
    /\ WF_vars(ReconnectFires)
    /\ WF_vars(StabilityElapsed)
    /\ WF_vars(\E s \in issued : Answered(s))

FairSpec == Spec /\ Fairness

-----------------------------------------------------------------------------
\* While the subscription runs, exactly the timer its state needs is armed: a
\* degraded one waits for a reconnect that is announced to the owner, a connecting
\* one is watched by a connection timer of its own attempt, and a stability timer
\* belongs to the healthy attempt it measures.  A timer that is lost leaves the
\* relay silent for ever; one that outlives its attempt acts on the next.
TimerDiscipline ==
    /\ reconnectTimer = health.retryPlanned
    /\ ~stopped /\ callbackToken > 0 =>
        /\ reconnectTimer <=> health.state = "degraded"
        /\ health.state = "connecting" => connectionTimer = callbackToken
        /\ connectionTimer # 0 => health.state = "connecting"
        /\ stabilityTimer # 0 => /\ stabilityTimer = callbackToken
                                 /\ health.state = "healthy"
        /\ health.state = "healthy" /\ health.reconnectAttempts > 0
              => stabilityTimer # 0

\* The transport never serves a subscription the supervisor has lost track of:
\* whichever way an attempt ended (close, timeout, exception, stop), its
\* subscription was closed, so a relay is never subscribed twice.
NoLeakedSubscription ==
    \A s \in open : s.token = current /\ s.token = callbackToken

\* An event or EOSE reported to the owner as one of generation g was sent on the
\* subscription opened for g; a late callback of an older one is dropped.
NoStaleCallback == accepted.from = accepted.as

\* After stop() nothing is armed, nothing is open, and the state says so.
StopIsFinal ==
    stopped => /\ ~reconnectTimer /\ connectionTimer = 0 /\ stabilityTimer = 0
               /\ open = {} /\ current = 0
               /\ health.state = "stopped"

\* The retry count grows by one with every failed attempt and falls back only when
\* the attempt under way has been healthy for the stability interval: a relay that
\* answers and then closes cannot keep the delay at its base.
BackoffKept ==
    [][health'.reconnectAttempts # health.reconnectAttempts =>
         \/ /\ health'.reconnectAttempts = health.reconnectAttempts + 1
            /\ failures' = failures + 1
         \/ /\ health'.reconnectAttempts = 0
            /\ health.state = "healthy"
            /\ stabilityTimer = callbackToken]_vars

\* The supervisor keeps the contract its owner relies on.
Contract == INSTANCE RelayGenerations WITH
    state <- IF callbackToken = 0 THEN "stopped" ELSE health.state,
    generation <- health.generation

ImplementsContract == Contract!Spec

\* Unless it is stopped, the supervisor ends with a healthy subscription and a
\* forgiven retry count once the relay stops failing.
Recovers == <>stopped \/ <>[](health.state = "healthy" /\ health.reconnectAttempts = 0)

=============================================================================
