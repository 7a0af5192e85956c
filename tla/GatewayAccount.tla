--------------------------- MODULE GatewayAccount ---------------------------
(***************************************************************************)
(* One account in the gateway (src/src/gateway.ts, src/src/bus-registry.ts,*)
(* src/src/totp-auth.ts): its lifecycles, the registry through which the   *)
(* outbound side finds its bus, and what onMessage does with a message.    *)
(*                                                                         *)
(* The host starts a lifecycle, aborts it, and may start the next one      *)
(* before the last has drained or even finished starting: it waits a       *)
(* bounded time only.  A handler that outlives the drain goes on after its *)
(* lifecycle.  A message whose handler failed, or was not recorded as      *)
(* handled, is handled again by the same bus or by the next one, each with *)
(* an authenticator of its own.                                            *)
(*                                                                         *)
(* The bus appears as NostrBus describes it: no two handlers of one        *)
(* message, none of a message it knows to be handled.                      *)
(***************************************************************************)
EXTENDS TotpAuth, Sequences

CONSTANTS
    Messages,
    WithTotp,           \* lifecycles started with a TOTP secret configured
    Sent,               \* what each message may be: its sender and its text
    Inbox,              \* messages the relays bring to each lifecycle
    MaxTime, MaxLives   \* bounds of the explored behaviours

ASSUME AccountAssumption ==
    /\ Sent \in [Messages -> SUBSET [sender : Senders, text : Nat \cup {Text, WrongCode}]]
    /\ MaxTime \in Nat /\ MaxLives \in Nat
    /\ WithTotp \subseteq 1 .. MaxLives
    /\ Inbox \in [1 .. MaxLives -> SUBSET Messages]

Lives == 1 .. MaxLives

VARIABLES
    now,
    life,               \* per lifecycle: new, starting, aborted, running, closing, closed
    activeBuses,        \* the lifecycle whose bus is registered, or 0
    metricsSnapshots,   \* the lifecycle the kept snapshot is of, or 0
    running,            \* the listener status: running, or not
    mail,               \* what each message is; never assigned
    handler,            \* per lifecycle and message: idle, the await it is in, or handled
    totp,               \* per lifecycle, its authenticator
    \* history, for the properties
    lastRegistered,     \* the lifecycle that registered its bus last, or 0
    accepted,           \* codes that opened a session
    failedAt            \* per lifecycle and sender: times of the last failures in a row

accountVars == <<life, activeBuses, metricsSnapshots, running, lastRegistered>>
totpVars == <<totp, accepted, failedAt>>
vars == <<now, accountVars, mail, handler, totpVars>>

Stages == {"idle", "checking", "replying", "dispatching", "handled"}

Session == [life : Lives, sender : Senders, code : Nat, from : Nat]

TypeOK ==
    /\ now \in Nat
    /\ life \in [Lives -> {"new", "starting", "aborted", "running", "closing", "closed"}]
    /\ activeBuses \in Lives \cup {0}
    /\ metricsSnapshots \in Lives \cup {0}
    /\ running \in BOOLEAN
    /\ \A m \in Messages : mail[m] \in Sent[m]
    /\ handler \in [Lives -> [Messages -> Stages]]
    /\ totp \in [Lives -> Authenticator]
    /\ lastRegistered \in Lives \cup {0}
    /\ accepted \subseteq Session
    /\ failedAt \in [Lives -> [Senders -> Seq(Nat)]]

Init ==
    /\ now = 0
    /\ life = [n \in Lives |-> "new"]
    /\ activeBuses = 0
    /\ metricsSnapshots = 0
    /\ running = FALSE
    /\ mail \in {c \in [Messages -> UNION {Sent[m] : m \in Messages}] :
                    \A m \in Messages : c[m] \in Sent[m]}
    /\ handler = [n \in Lives |-> [m \in Messages |-> "idle"]]
    /\ totp = [n \in Lives |-> NewAuthenticator]
    /\ lastRegistered = 0
    /\ accepted = {}
    /\ failedAt = [n \in Lives |-> [s \in Senders |-> <<>>]]

Tick ==
    /\ now < MaxTime
    /\ now' = now + 1
    /\ UNCHANGED <<accountVars, mail, handler, totpVars>>

-----------------------------------------------------------------------------
\* Messages the state file may name as handled: which of them reached it, in time or
\* at all, is the matter of NostrBus.
Recorded == {m \in Messages : \E k \in Lives : handler[k][m] = "handled"}

\* The host calls startAccount; startNostrBus reads the state file.
StartAccount(n) ==
    /\ life[n] = "new"
    /\ \A k \in Lives : k < n => life[k] \in {"aborted", "closing", "closed"}
    /\ life' = [life EXCEPT ![n] = "starting"]
    /\ \E known \in SUBSET Recorded :
          handler' = [handler EXCEPT ![n] =
                         [m \in Messages |-> IF m \in known THEN "handled" ELSE "idle"]]
    /\ UNCHANGED <<now, activeBuses, metricsSnapshots, running, lastRegistered, mail,
                   totpVars>>

\* startNostrBus threw.
StartFails(n) ==
    /\ life[n] \in {"starting", "aborted"}
    /\ life' = [life EXCEPT ![n] = "closed"]
    /\ UNCHANGED <<now, activeBuses, metricsSnapshots, running, lastRegistered, mail,
                   handler, totpVars>>

\* The bus is up, has reported its health, and is registered.  If the lifecycle was
\* aborted meanwhile, stop() follows at once.
BusStarted(n) ==
    /\ life[n] \in {"starting", "aborted"}
    /\ life' = [life EXCEPT ![n] = IF @ = "starting" THEN "running" ELSE "closing"]
    /\ running' = (life[n] = "starting")
    /\ activeBuses' = n
    /\ lastRegistered' = n
    /\ UNCHANGED <<now, metricsSnapshots, mail, handler, totpVars>>

\* The host aborts a lifecycle that is still starting.
AbortStart(n) ==
    /\ life[n] = "starting"
    /\ life' = [life EXCEPT ![n] = "aborted"]
    /\ UNCHANGED <<now, activeBuses, metricsSnapshots, running, lastRegistered, mail,
                   handler, totpVars>>

\* Mutant: the subscriptions stop without a report.
StopSilent(n) ==
    /\ life[n] = "running"
    /\ life' = [life EXCEPT ![n] = "closing"]
    /\ UNCHANGED <<now, activeBuses, metricsSnapshots, running, lastRegistered, mail,
                   handler, totpVars>>

\* stop(): close() begins, the subscriptions stop and report it.
Stop(n) ==
    /\ life[n] = "running"
    /\ life' = [life EXCEPT ![n] = "closing"]
    /\ running' = FALSE
    /\ UNCHANGED <<now, activeBuses, metricsSnapshots, lastRegistered, mail, handler,
                   totpVars>>

\* The subscription of a running bus reports its health.
Health(n) ==
    /\ life[n] = "running"
    /\ ~running
    /\ running' = TRUE
    /\ UNCHANGED <<now, life, activeBuses, metricsSnapshots, lastRegistered, mail,
                   handler, totpVars>>

\* onMetric: while busHandle is set, each metric refreshes the snapshot.
Metric(n) ==
    /\ life[n] \in {"running", "closing"}
    /\ metricsSnapshots # n
    /\ metricsSnapshots' = n
    /\ UNCHANGED <<now, life, activeBuses, running, lastRegistered, mail, handler,
                   totpVars>>

\* Mutant: the registration is removed whoever it is of.
StoppedUnregisters(n) ==
    /\ life[n] = "closing"
    /\ life' = [life EXCEPT ![n] = "closed"]
    /\ activeBuses' = 0
    /\ metricsSnapshots' = 0
    /\ UNCHANGED <<now, running, lastRegistered, mail, handler, totpVars>>

\* Mutant: snapshot and registration are removed together, by the registered bus only.
StoppedTidies(n) ==
    /\ life[n] = "closing"
    /\ life' = [life EXCEPT ![n] = "closed"]
    /\ activeBuses' = IF activeBuses = n THEN 0 ELSE activeBuses
    /\ metricsSnapshots' = IF activeBuses = n THEN 0 ELSE metricsSnapshots
    /\ UNCHANGED <<now, running, lastRegistered, mail, handler, totpVars>>

\* close() has drained, or given up, and written the state file: the bus leaves the
\* registry if it is the one there, and the account's snapshot is dropped.
Stopped(n) ==
    /\ life[n] = "closing"
    /\ life' = [life EXCEPT ![n] = "closed"]
    /\ activeBuses' = IF activeBuses = n THEN 0 ELSE activeBuses
    /\ metricsSnapshots' = 0
    /\ UNCHANGED <<now, running, lastRegistered, mail, handler, totpVars>>

\* The process ends: only the state file is left.
Crash ==
    /\ \E n \in Lives : life[n] \notin {"new", "closed"}
    /\ life' = [n \in Lives |-> IF life[n] = "new" THEN "new" ELSE "closed"]
    /\ activeBuses' = 0
    /\ metricsSnapshots' = 0
    /\ running' = FALSE
    /\ lastRegistered' = 0
    /\ handler' = [n \in Lives |-> [m \in Messages |->
                      IF handler[n][m] = "handled" THEN "handled" ELSE "idle"]]
    /\ UNCHANGED <<now, mail, totpVars>>

-----------------------------------------------------------------------------
\* The handler of m in lifecycle n goes from one await to the next.
Goes(n, m, from, to) ==
    /\ handler[n][m] = from
    /\ handler' = [handler EXCEPT ![n][m] = to]

\* A running bus has received m, its sender is allowed, and onMessage checks again.
Receive(n, m) ==
    /\ life[n] = "running" /\ m \in Inbox[n]
    /\ Goes(n, m, "idle", "checking")
    /\ UNCHANGED <<now, accountVars, mail, totpVars>>

\* Mutant: the end of a handler counts although its lifecycle has ended.
EndsUnfenced(n, m) == "handled"

\* What the bus makes of a handler that ended well: handled, unless the lifecycle has
\* ended before.
Ends(n, m) == IF life[n] = "closed" THEN "idle" ELSE "handled"

\* The sender is no longer allowed: the message is dropped.
Refuse(n, m) ==
    /\ Goes(n, m, "checking", Ends(n, m))
    /\ UNCHANGED <<now, accountVars, mail, totpVars>>

\* The message is answered by the channel itself: a reply is begun, which a closed
\* lifecycle refuses at once.
Consumed(n, m) ==
    /\ n \in WithTotp
    /\ Goes(n, m, "checking", IF life[n] = "closed" THEN "idle" ELSE "replying")

\* "Already authenticated", "temporarily locked", or "Authentication required".
Answer(n, m) ==
    LET s == mail[m].sender IN
    /\ Consumed(n, m)
    /\ \/ HasSession(totp[n], s, now) /\ IsCode(mail[m].text)
       \/ ~HasSession(totp[n], s, now) /\ IsLocked(totp[n], s, now)
       \/ MayTry(totp[n], s, now) /\ ~IsCode(mail[m].text)
    /\ UNCHANGED <<now, accountVars, mail, totpVars>>

\* "Authentication failed."
WrongGuess(n, m) ==
    LET s == mail[m].sender IN
    /\ Consumed(n, m)
    /\ MayTry(totp[n], s, now) /\ IsCode(mail[m].text) /\ ~Accepts(totp[n], mail[m].text, now)
    /\ totp' = [totp EXCEPT ![n] = Failed(@, s, now)]
    /\ failedAt' = [failedAt EXCEPT ![n][s] =
                      IF Len(@) = MAX_FAILURES THEN Append(Tail(@), now) ELSE Append(@, now)]
    /\ UNCHANGED <<now, accountVars, mail, accepted>>

\* "Authenticated for ... minutes."
Authenticate(n, m) ==
    LET s == mail[m].sender IN
    /\ Consumed(n, m)
    /\ MayTry(totp[n], s, now) /\ Accepts(totp[n], mail[m].text, now)
    /\ totp' = [totp EXCEPT ![n] = Opened(@, s, mail[m].text, now)]
    /\ accepted' = accepted \cup {[life |-> n, sender |-> s, code |-> mail[m].text, from |-> now]}
    /\ failedAt' = [failedAt EXCEPT ![n][s] = <<>>]
    /\ UNCHANGED <<now, accountVars, mail>>

\* The sender has a session, or needs none: the message goes to the agent.
Dispatch(n, m) ==
    /\ Goes(n, m, "checking", "dispatching")
    /\ n \in WithTotp => HasSession(totp[n], mail[m].sender, now) /\ ~IsCode(mail[m].text)
    /\ UNCHANGED <<now, accountVars, mail, totpVars>>

\* The reply has been taken by a relay; a closing bus sends none.
Replied(n, m) ==
    /\ life[n] = "running"
    /\ Goes(n, m, "replying", Ends(n, m))
    /\ UNCHANGED <<now, accountVars, mail, totpVars>>

\* The agent's turn is over.
Dispatched(n, m) ==
    /\ Goes(n, m, "dispatching", Ends(n, m))
    /\ UNCHANGED <<now, accountVars, mail, totpVars>>

\* The access check, the reply or the dispatch rejects: the message will come again.
HandlerFails(n, m) ==
    /\ \E from \in {"checking", "replying", "dispatching"} : Goes(n, m, from, "idle")
    /\ UNCHANGED <<now, accountVars, mail, totpVars>>

Next ==
    \/ Tick
    \/ \E n \in Lives :
          \/ StartAccount(n) \/ StartFails(n) \/ BusStarted(n) \/ AbortStart(n)
          \/ Stop(n) \/ Stopped(n) \/ Health(n) \/ Metric(n)
    \/ Crash
    \/ \E n \in Lives, m \in Messages :
          \/ Receive(n, m) \/ Refuse(n, m) \/ Answer(n, m) \/ WrongGuess(n, m)
          \/ Authenticate(n, m) \/ Dispatch(n, m) \/ Replied(n, m) \/ Dispatched(n, m)
          \/ HandlerFails(n, m)

Spec == Init /\ [][Next]_vars

-----------------------------------------------------------------------------
\* What the account shows outside is of a lifecycle that has not ended: the outbound
\* side never finds a bus that has finished closing, no snapshot of one is kept, and
\* the status is running only while some bus runs, whatever order lifecycles start,
\* stop and report metrics and health in.
RegistryIsLive ==
    /\ running => \E n \in Lives : life[n] = "running"
    /\ activeBuses # 0 => life[activeBuses] \in {"running", "closing"}
    /\ metricsSnapshots # 0 => life[metricsSnapshots] \in {"running", "closing"}

\* A lifecycle that stops late does not hide its successor: the bus that registered
\* last can be found for as long as it runs.
LatestIsReachable ==
    lastRegistered # 0 /\ life[lastRegistered] = "running" => activeBuses = lastRegistered

\* "cannot be reused for a second authentication": within one lifecycle no code opens
\* two sessions, of one sender or two, also when its message is handled again.
NoCodeTwice ==
    \A e, f \in accepted : e.life = f.life /\ e.code = f.code => e = f

\* A message reaches the agent only within SESSION of an accepted code of its sender:
\* no later message, answered or not, prolongs a session.
DispatchInSession ==
    [][\A n \in WithTotp, m \in Messages :
          handler[n][m] # "dispatching" /\ handler'[n][m] = "dispatching" =>
              \E e \in accepted : /\ e.life = n /\ e.sender = mail[m].sender
                                  /\ now < e.from + SESSION]_vars

\* "lock for five minutes after five failures": of more than MAX_FAILURES failures in
\* a row, handled again or not, the first and the last are at least LOCKOUT apart.
GuessesAreBounded ==
    [][\A n \in Lives, s \in Senders :
          failedAt'[n][s] # failedAt[n][s] /\ failedAt'[n][s] # <<>>
          /\ Len(failedAt[n][s]) = MAX_FAILURES
          => now >= failedAt[n][s][1] + LOCKOUT]_vars

\* "later completion cannot mark the message processed ... or initiate a reply through
\* the closed lifecycle" (v1 review follow-up), with the next lifecycle under way.
AbandonedIsQuiet ==
    [][\A n \in Lives, m \in Messages :
          life[n] = "closed" /\ handler'[n][m] \in {"handled", "replying"}
          => handler[n][m] = handler'[n][m]]_vars
=============================================================================
