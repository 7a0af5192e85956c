-------------------------- MODULE OutboundDelivery --------------------------
(***************************************************************************)
(* The outbound half of startNostrBus: sendEncryptedDm, the relay circuit  *)
(* breakers it shares with every other send, and close().                  *)
(*                                                                         *)
(* A send asks the account's relays for the recipient's list of inbox      *)
(* relays, publishes the reply to every listed relay whose breaker admits  *)
(* it, and waits for all the answers before it records them.  Sends run    *)
(* concurrently and interleave at every await; a send that has ended may   *)
(* begin again as the next message.  Wall-clock time matters only to an    *)
(* open breaker, which is cooled once resetMs have passed since its last   *)
(* failure.                                                                *)
(***************************************************************************)
EXTENDS Naturals

CONSTANTS
    Sends,
    Relays,
    Lists,          \* numbers of the recipient's inbox lists; a larger one is newer
    InboxRelays,    \* the relays each list names
    THRESHOLD,      \* CIRCUIT_BREAKER_THRESHOLD
    MaxFailures     \* bound: publishes that fail while the bus is open

ASSUME DeliveryAssumption ==
    /\ Lists \subseteq Nat \ {0}
    /\ InboxRelays \in [Lists -> SUBSET Relays]
    /\ THRESHOLD \in Nat \ {0}
    /\ MaxFailures \in Nat

VARIABLES
    closing,        \* close() was called: lifecycleAbort is aborted
    stage,          \* per send, the await it is suspended in, or how it ended
    latest,         \* per send, the newest inbox list received so far, or 0
    attempts,       \* per send and relay, the publish
    breakers,       \* per relay, its circuit breaker
    stored,         \* per send, the relays that hold the reply
    failed          \* publishes that failed so far

vars == <<closing, stage, latest, attempts, breakers, stored, failed>>

Breaker == [state : {"closed", "open", "half_open"}, failures : 0..THRESHOLD, cooled : BOOLEAN]

Active == {"discovering", "discovered", "publishing"}

TypeOK ==
    /\ closing \in BOOLEAN
    /\ stage \in [Sends -> Active \cup {"idle", "delivered", "failed"}]
    /\ latest \in [Sends -> Lists \cup {0}]
    /\ attempts \in [Sends -> [Relays -> {"none", "pending", "ok", "error"}]]
    /\ breakers \in [Relays -> Breaker]
    /\ stored \in [Sends -> SUBSET Relays]
    /\ failed \in 0..MaxFailures

NoAttempts == [r \in Relays |-> "none"]

Init ==
    /\ closing = FALSE
    /\ stage = [s \in Sends |-> "idle"]
    /\ latest = [s \in Sends |-> 0]
    /\ attempts = [s \in Sends |-> NoAttempts]
    /\ breakers = [r \in Relays |-> [state |-> "closed", failures |-> 0, cooled |-> FALSE]]
    /\ stored = [s \in Sends |-> {}]
    /\ failed = 0

-----------------------------------------------------------------------------
\* canAttempt: everything but an open breaker that has not cooled admits; a half-open
\* one admits every send that begins before the first result.
CanAttempt(b) == b.state # "open" \/ b.cooled

\* Mutant: the new state is misspelled.
AttemptedMisspelled(b) ==
    IF b.state = "open" /\ b.cooled THEN [b EXCEPT !.state = "half-open", !.cooled = FALSE]
    ELSE b

\* canAttempt turns an open breaker that admits into a half-open one.
Attempted(b) ==
    IF b.state = "open" /\ b.cooled THEN [b EXCEPT !.state = "half_open", !.cooled = FALSE]
    ELSE b

\* Mutant: a breaker closes with its failures still counted.
SuccessKeepsCount(b) ==
    IF b.state = "half_open" THEN [b EXCEPT !.state = "closed"]
    ELSE IF b.state = "closed" THEN [b EXCEPT !.failures = 0]
    ELSE b

\* Mutant: a success never closes a half-open breaker.
SuccessWithoutClosing(b) ==
    IF b.state = "closed" THEN [b EXCEPT !.failures = 0] ELSE b

\* recordSuccess: a success that comes late, after the breaker opened, changes nothing.
RecordSuccess(b) ==
    IF b.state = "open" THEN b ELSE [b EXCEPT !.state = "closed", !.failures = 0]

\* recordFailure.  The count is read while the breaker is closed only, so what it
\* grows to beyond the threshold is left out.
RecordFailure(b) ==
    LET count == IF b.failures < THRESHOLD THEN b.failures + 1 ELSE THRESHOLD IN
    [state |-> IF b.state = "half_open" \/ count >= THRESHOLD THEN "open" ELSE b.state,
     failures |-> count,
     cooled |-> FALSE]

\* resetMs pass without a further failure.
Cool(r) ==
    /\ breakers[r].state = "open" /\ ~breakers[r].cooled
    /\ breakers' = [breakers EXCEPT ![r].cooled = TRUE]
    /\ UNCHANGED <<closing, stage, latest, attempts, stored, failed>>

-----------------------------------------------------------------------------
\* sendDm, or the reply of a message handler.  A closing bus refuses both at once.
Begin(s) ==
    /\ ~closing
    /\ stage[s] \notin Active
    /\ stage' = [stage EXCEPT ![s] = "discovering"]
    /\ latest' = [latest EXCEPT ![s] = 0]
    /\ attempts' = [attempts EXCEPT ![s] = NoAttempts]
    /\ stored' = [stored EXCEPT ![s] = {}]
    /\ UNCHANGED <<closing, breakers, failed>>

\* queryLatestEvent, onevent: the newest list wins, whatever the order of arrival.
ListArrives(s, v) ==
    /\ stage[s] = "discovering"
    /\ v > latest[s]
    /\ latest' = [latest EXCEPT ![s] = v]
    /\ UNCHANGED <<closing, stage, attempts, breakers, stored, failed>>

\* queryLatestEvent, oneose or onclose: the promise resolves; the send continues later.
Discovered(s) ==
    /\ stage[s] = "discovering"
    /\ stage' = [stage EXCEPT ![s] = "discovered"]
    /\ UNCHANGED <<closing, latest, attempts, breakers, stored, failed>>

Listed(s) == IF latest[s] = 0 THEN {} ELSE InboxRelays[latest[s]]

\* The send ends without having published: the bus is closing, or there is no list.
GivesUp(s) ==
    /\ stage[s] = "discovered"
    /\ closing \/ Listed(s) = {}
    /\ stage' = [stage EXCEPT ![s] = "failed"]
    /\ UNCHANGED <<closing, latest, attempts, breakers, stored, failed>>

\* Mutant: the query's answer is used without looking at the lifecycle again.
PublishesUnchecked(s) ==
    LET eligible == {r \in Listed(s) : CanAttempt(breakers[r])} IN
    /\ stage[s] = "discovered"
    /\ Listed(s) # {}
    /\ stage' = [stage EXCEPT ![s] = "publishing"]
    /\ attempts' = [attempts EXCEPT ![s] =
                      [r \in Relays |-> IF r \in eligible THEN "pending" ELSE "none"]]
    /\ breakers' = [r \in Relays |-> IF r \in Listed(s) THEN Attempted(breakers[r])
                                     ELSE breakers[r]]
    /\ UNCHANGED <<closing, latest, stored, failed>>

\* The reply is published to every listed relay whose breaker admits it.
Publishes(s) ==
    LET eligible == {r \in Listed(s) : CanAttempt(breakers[r])} IN
    /\ stage[s] = "discovered"
    /\ ~closing /\ Listed(s) # {}
    /\ stage' = [stage EXCEPT ![s] = "publishing"]
    /\ attempts' = [attempts EXCEPT ![s] =
                      [r \in Relays |-> IF r \in eligible THEN "pending" ELSE "none"]]
    /\ breakers' = [r \in Relays |-> IF r \in Listed(s) THEN Attempted(breakers[r])
                                     ELSE breakers[r]]
    /\ UNCHANGED <<closing, latest, stored, failed>>

\* The relay takes the event; its answer is still under way.
Stores(s, r) ==
    /\ attempts[s][r] = "pending"
    /\ r \notin stored[s]
    /\ stored' = [stored EXCEPT ![s] = @ \cup {r}]
    /\ UNCHANGED <<closing, stage, latest, attempts, breakers, failed>>

\* Mutant: "connection failure: ..." counts as an answer of the relay.
AcceptsAnyAnswer(s, r) ==
    /\ attempts[s][r] = "pending"
    /\ ~closing
    /\ attempts' = [attempts EXCEPT ![s][r] = "ok"]
    /\ UNCHANGED <<closing, stage, latest, breakers, stored, failed>>

\* publishEventWithNip42Auth resolves: the relay answered OK while the bus is open.
Accepted(s, r) ==
    /\ attempts[s][r] = "pending"
    /\ r \in stored[s]
    /\ ~closing
    /\ attempts' = [attempts EXCEPT ![s][r] = "ok"]
    /\ UNCHANGED <<closing, stage, latest, breakers, stored, failed>>

\* It rejects: no connection, refused, timed out, or the answer was lost.
Refused(s, r) ==
    /\ attempts[s][r] = "pending"
    /\ failed < MaxFailures
    /\ failed' = failed + 1
    /\ attempts' = [attempts EXCEPT ![s][r] = "error"]
    /\ UNCHANGED <<closing, stage, latest, breakers, stored>>

\* It rejects because the lifecycle has ended, even when the relay accepted.
Aborted(s, r) ==
    /\ attempts[s][r] = "pending"
    /\ closing
    /\ attempts' = [attempts EXCEPT ![s][r] = "error"]
    /\ UNCHANGED <<closing, stage, latest, breakers, stored, failed>>

\* Mutant: a send that every relay refused goes on waiting.
SettlesOnSuccess(s) ==
    /\ stage[s] = "publishing"
    /\ \A r \in Relays : attempts[s][r] # "pending"
    /\ \E r \in Relays : attempts[s][r] = "ok"
    /\ breakers' = [r \in Relays |->
                      CASE attempts[s][r] = "ok" -> RecordSuccess(breakers[r])
                        [] attempts[s][r] = "error" -> RecordFailure(breakers[r])
                        [] OTHER -> breakers[r]]
    /\ stage' = [stage EXCEPT ![s] = "delivered"]
    /\ UNCHANGED <<closing, latest, attempts, stored, failed>>

\* Every publish has answered: the breakers learn the results, and one success is
\* enough for the send.
Settles(s) ==
    /\ stage[s] = "publishing"
    /\ \A r \in Relays : attempts[s][r] # "pending"
    /\ breakers' = [r \in Relays |->
                      CASE attempts[s][r] = "ok" -> RecordSuccess(breakers[r])
                        [] attempts[s][r] = "error" -> RecordFailure(breakers[r])
                        [] OTHER -> breakers[r]]
    /\ stage' = [stage EXCEPT ![s] =
                   IF \E r \in Relays : attempts[s][r] = "ok" THEN "delivered" ELSE "failed"]
    /\ UNCHANGED <<closing, latest, attempts, stored, failed>>

\* close(): queries under way are rejected at once.
Close ==
    /\ ~closing
    /\ closing' = TRUE
    /\ stage' = [s \in Sends |-> IF stage[s] = "discovering" THEN "failed" ELSE stage[s]]
    /\ UNCHANGED <<latest, attempts, breakers, stored, failed>>

-----------------------------------------------------------------------------
Next ==
    \/ \E s \in Sends : Begin(s) \/ Discovered(s) \/ GivesUp(s) \/ Publishes(s) \/ Settles(s)
    \/ \E s \in Sends, v \in Lists : ListArrives(s, v)
    \/ \E s \in Sends, r \in Relays :
          Stores(s, r) \/ Accepted(s, r) \/ Refused(s, r) \/ Aborted(s, r)
    \/ \E r \in Relays : Cool(r)
    \/ Close

Spec == Init /\ [][Next]_vars

\* Promises that are settled continue; the transport settles every publish; time
\* passes.  For recovery: messages keep being sent to a recipient whose list is found.
Fairness ==
    /\ \A s \in Sends :
        /\ WF_vars(Begin(s))
        /\ WF_vars(Discovered(s))
        /\ SF_vars(\E v \in Lists : ListArrives(s, v))
        /\ WF_vars(GivesUp(s)) /\ WF_vars(Publishes(s)) /\ WF_vars(Settles(s))
        /\ \A r \in Relays :
            WF_vars(Stores(s, r)) /\ WF_vars(Accepted(s, r)) /\ WF_vars(Aborted(s, r))
    /\ \A r \in Relays : WF_vars(Cool(r))

FairSpec == Spec /\ Fairness

-----------------------------------------------------------------------------
\* A send reports success only when a relay really holds the reply, and failure
\* only when no relay has acknowledged it: the answers of the relays, the abort of
\* close() and the breakers' refusals add up to one honest outcome.
HonestOutcome ==
    \A s \in Sends :
        /\ stage[s] = "delivered" => stored[s] # {}
        /\ stage[s] = "failed" => \A r \in Relays : attempts[s][r] \notin {"pending", "ok"}

\* However concurrent sends interleave their results, a breaker refuses a relay only
\* after THRESHOLD failures counted since it was last closed, and one that closed
\* again has the whole threshold before it.
BreakerEarned ==
    \A r \in Relays : breakers[r].failures = THRESHOLD <=> breakers[r].state # "closed"

\* After close() was called no send opens new transport work, also one whose query
\* was answered just before ("shutdown must never allow them to open new transport
\* work").
ClosedPublishesNothing ==
    [][closing => \A s \in Sends, r \in Relays :
          attempts'[s][r] = "pending" => attempts[s][r] = "pending"]_vars

\* close() waits for the sends under way: each of them ends.
Drains == closing ~> \A s \in Sends : stage[s] \notin Active

\* A relay on every list that stops failing is not shut out for good: its breaker
\* closes again and stays closed.
BreakersRecover ==
    <>closing \/
    <>[](\A r \in Relays : (\A v \in Lists : r \in InboxRelays[v])
                             => breakers[r].state = "closed")
=============================================================================
