----------------------- MODULE OutboundDeliveryProofs -----------------------
(***************************************************************************)
(* Proofs about OutboundDelivery, for any number of sends, relays, lists   *)
(* and breaker threshold.                                                  *)
(***************************************************************************)
EXTENDS OutboundDelivery, TLAPS

\* The part of BreakerEarned that is about one breaker.
Earned(b) == b.failures = THRESHOLD <=> b.state # "closed"

\* A send has publishes under way only while it waits for them, and none before.
AttemptsFollowStage ==
    \A s \in Sends, r \in Relays :
        /\ attempts[s][r] = "pending" => stage[s] = "publishing"
        /\ stage[s] \in {"discovering", "discovered"} => attempts[s][r] = "none"

\* What a relay has accepted it holds.
AcceptedStored ==
    \A s \in Sends, r \in Relays : attempts[s][r] = "ok" => r \in stored[s]

\* A send that has ended successfully was acknowledged, one that failed was not.
OutcomeFollowsAnswers ==
    \A s \in Sends :
        /\ stage[s] = "delivered" => \E r \in Relays : attempts[s][r] = "ok"
        /\ stage[s] = "failed" => \A r \in Relays : attempts[s][r] # "ok"

DeliveryInv ==
    /\ AttemptsFollowStage
    /\ AcceptedStored
    /\ OutcomeFollowsAnswers

-----------------------------------------------------------------------------
\* canAttempt, recordSuccess and recordFailure take a breaker to a breaker, and
\* an earned state to an earned state.
LEMMA BreakerSteps ==
    ASSUME NEW b \in Breaker
    PROVE  /\ Attempted(b) \in Breaker
           /\ RecordSuccess(b) \in Breaker
           /\ RecordFailure(b) \in Breaker
           /\ [b EXCEPT !.cooled = TRUE] \in Breaker
           /\ Earned(b) => Earned(Attempted(b))
           /\ Earned(b) => Earned(RecordSuccess(b))
           /\ Earned(b) => Earned(RecordFailure(b))
  <1>1. THRESHOLD \in Nat \ {0}
    BY DeliveryAssumption
  <1>2. Attempted(b) \in Breaker /\ (Earned(b) => Earned(Attempted(b)))
    BY <1>1 DEF Breaker, Attempted, Earned
  <1>3. RecordSuccess(b) \in Breaker /\ (Earned(b) => Earned(RecordSuccess(b)))
    <2>1. CASE b.state = "open"
      BY <2>1 DEF RecordSuccess
    <2>2. CASE b.state # "open"
      <3>1. RecordSuccess(b) = [state |-> "closed", failures |-> 0, cooled |-> b.cooled]
        BY <2>2 DEF RecordSuccess, Breaker
      <3> QED
        BY <1>1, <3>1 DEF Breaker, Earned
    <2> QED
      BY <2>1, <2>2
  <1>4. RecordFailure(b) \in Breaker /\ (Earned(b) => Earned(RecordFailure(b)))
    BY <1>1 DEF Breaker, RecordFailure, Earned
  <1>5. [b EXCEPT !.cooled = TRUE] \in Breaker
    BY DEF Breaker
  <1> QED
    BY <1>2, <1>3, <1>4, <1>5

\* Every variable keeps its type through every step.
LEMMA TypeStep ==
    ASSUME TypeOK, [Next]_vars
    PROVE  TypeOK'
  <1>0. MaxFailures \in Nat /\ Lists \subseteq Nat \ {0}
    BY DeliveryAssumption
  <1>1. ASSUME NEW s \in Sends, Begin(s) PROVE TypeOK'
    BY <1>1 DEF TypeOK, Begin, Active, NoAttempts
  <1>2. ASSUME NEW s \in Sends, Discovered(s) PROVE TypeOK'
    BY <1>2 DEF TypeOK, Discovered, Active
  <1>3. ASSUME NEW s \in Sends, GivesUp(s) PROVE TypeOK'
    BY <1>3 DEF TypeOK, GivesUp, Active
  <1>4. ASSUME NEW s \in Sends, Publishes(s) PROVE TypeOK'
    <2>1. breakers' \in [Relays -> Breaker]
      BY <1>4, BreakerSteps DEF TypeOK, Publishes
    <2>2. /\ stage' \in [Sends -> Active \cup {"idle", "delivered", "failed"}]
          /\ attempts' \in [Sends -> [Relays -> {"none", "pending", "ok", "error"}]]
      <3>1. {r \in {q \in Listed(s) : CanAttempt(breakers[q])} : breakers[r].state # "closed"}
              \in SUBSET Relays
        BY DeliveryAssumption DEF TypeOK, Listed
      <3> QED
        BY <1>4, <3>1 DEF TypeOK, Publishes, Active
    <2> QED
      BY <1>4, <2>1, <2>2 DEF TypeOK, Publishes
  <1>5. ASSUME NEW s \in Sends, Settles(s) PROVE TypeOK'
    <2>1. breakers' \in [Relays -> Breaker]
      BY <1>5, BreakerSteps DEF TypeOK, Settles
    <2> QED
      BY <1>5, <2>1 DEF TypeOK, Settles, Active
  <1>6. ASSUME NEW s \in Sends, NEW v \in Lists, ListArrives(s, v) PROVE TypeOK'
    BY <1>6 DEF TypeOK, ListArrives
  <1>7. ASSUME NEW s \in Sends, NEW r \in Relays, Stores(s, r) PROVE TypeOK'
    BY <1>7 DEF TypeOK, Stores
  <1>8. ASSUME NEW s \in Sends, NEW r \in Relays, Accepted(s, r) PROVE TypeOK'
    BY <1>8 DEF TypeOK, Accepted
  <1>9. ASSUME NEW s \in Sends, NEW r \in Relays, Refused(s, r) PROVE TypeOK'
    BY <1>9, <1>0 DEF TypeOK, Refused
  <1>10. ASSUME NEW s \in Sends, NEW r \in Relays, Aborted(s, r) PROVE TypeOK'
    BY <1>10 DEF TypeOK, Aborted
  <1>11. ASSUME NEW r \in Relays, Cool(r) PROVE TypeOK'
    BY <1>11, BreakerSteps DEF TypeOK, Cool
  <1>12. CASE Close
    BY <1>12 DEF TypeOK, Close, Active
  <1>13. CASE UNCHANGED vars
    BY <1>13 DEF TypeOK, vars
  <1> QED
    BY <1>1, <1>2, <1>3, <1>4, <1>5, <1>6, <1>7, <1>8, <1>9, <1>10, <1>11, <1>12, <1>13
    DEF Next

\* The variables are well typed in every reachable state.
THEOREM TypeCorrect == Spec => []TypeOK
  <1>1. Init => TypeOK
    <2>1. [state |-> "closed", failures |-> 0, cooled |-> FALSE] \in Breaker
      BY DeliveryAssumption DEF Breaker
    <2>2. Init => breakers \in [Relays -> Breaker]
      BY <2>1 DEF Init
    <2>3. Init => attempts \in [Sends -> [Relays -> {"none", "pending", "ok", "error"}]]
      BY DEF Init, NoAttempts
    <2>4. Init => /\ stage \in [Sends -> Active \cup {"idle", "delivered", "failed"}]
                  /\ latest \in [Sends -> Lists \cup {0}]
                  /\ stored \in [Sends -> SUBSET Relays]
      BY DEF Init
    <2>5. Init => failed \in 0 .. MaxFailures
      BY DeliveryAssumption DEF Init
    <2>6. Init => closing \in BOOLEAN
      BY DEF Init
    <2> QED
      BY <2>2, <2>3, <2>4, <2>5, <2>6 DEF TypeOK
  <1>2. TypeOK /\ [Next]_vars => TypeOK'
    BY TypeStep
  <1> QED
    BY <1>1, <1>2, PTL DEF Spec

-----------------------------------------------------------------------------
\* Whatever order concurrent sends record their results in, a breaker refuses a
\* relay only after THRESHOLD failures since it was last closed, and a breaker that
\* closed has the whole threshold before it.
THEOREM BreakersAreEarned == Spec => []BreakerEarned
  <1>1. Init => BreakerEarned
    BY DeliveryAssumption DEF Init, BreakerEarned
  <1>2. ASSUME TypeOK, BreakerEarned, [Next]_vars
        PROVE  BreakerEarned'
    <2> USE <1>2
    <2>0. \A r \in Relays : breakers[r] \in Breaker /\ Earned(breakers[r])
      BY DEF TypeOK, BreakerEarned, Earned
    <2> SUFFICES \A r \in Relays : Earned(breakers'[r])
      BY DEF BreakerEarned, Earned
    <2>1. ASSUME NEW s \in Sends, Publishes(s) PROVE \A r \in Relays : Earned(breakers'[r])
      BY <2>0, <2>1, BreakerSteps DEF Publishes
    <2>2. ASSUME NEW s \in Sends, Settles(s) PROVE \A r \in Relays : Earned(breakers'[r])
      BY <2>0, <2>2, BreakerSteps DEF Settles
    <2>3. ASSUME NEW r \in Relays, Cool(r) PROVE \A q \in Relays : Earned(breakers'[q])
      BY <2>0, <2>3 DEF Cool, Earned, Breaker, TypeOK
    <2>4. CASE UNCHANGED breakers
      BY <2>0, <2>4
    <2> QED
      BY <2>1, <2>2, <2>3, <2>4
      DEF Next, Begin, Discovered, GivesUp, ListArrives, Stores, Accepted, Refused, Aborted,
          Close, vars
  <1> QED
    BY <1>1, <1>2, TypeCorrect, PTL DEF Spec

-----------------------------------------------------------------------------
\* What a send has been told and what it concludes stay in step.
LEMMA DeliveryStep ==
    ASSUME TypeOK, DeliveryInv, [Next]_vars
    PROVE  DeliveryInv'
  <1> USE DEF DeliveryInv
  <1>1. ASSUME NEW s \in Sends, Begin(s) PROVE DeliveryInv'
    BY <1>1 DEF TypeOK, Begin, Active, NoAttempts,
                AttemptsFollowStage, AcceptedStored, OutcomeFollowsAnswers
  <1>2. ASSUME NEW s \in Sends, Discovered(s) PROVE DeliveryInv'
    BY <1>2 DEF TypeOK, Discovered, AttemptsFollowStage, AcceptedStored, OutcomeFollowsAnswers
  <1>3. ASSUME NEW s \in Sends, GivesUp(s) PROVE DeliveryInv'
    BY <1>3 DEF TypeOK, GivesUp, AttemptsFollowStage, AcceptedStored, OutcomeFollowsAnswers
  <1>4. ASSUME NEW s \in Sends, Publishes(s) PROVE DeliveryInv'
    <2>1. \A r \in Relays : attempts'[s][r] \in {"pending", "none"}
      BY <1>4 DEF TypeOK, Publishes
    <2>2. \A q \in Sends \ {s} : attempts'[q] = attempts[q] /\ stage'[q] = stage[q]
      BY <1>4 DEF TypeOK, Publishes
    <2>3. stage'[s] = "publishing" /\ stored' = stored
      BY <1>4 DEF TypeOK, Publishes
    <2> QED
      BY <2>1, <2>2, <2>3 DEF AttemptsFollowStage, AcceptedStored, OutcomeFollowsAnswers
  <1>5. ASSUME NEW s \in Sends, Settles(s) PROVE DeliveryInv'
    BY <1>5 DEF TypeOK, Settles, AttemptsFollowStage, AcceptedStored, OutcomeFollowsAnswers
  <1>6. ASSUME NEW s \in Sends, NEW v \in Lists, ListArrives(s, v) PROVE DeliveryInv'
    BY <1>6 DEF ListArrives, AttemptsFollowStage, AcceptedStored, OutcomeFollowsAnswers
  <1>7. ASSUME NEW s \in Sends, NEW r \in Relays, Stores(s, r) PROVE DeliveryInv'
    BY <1>7 DEF TypeOK, Stores, AttemptsFollowStage, AcceptedStored, OutcomeFollowsAnswers
  <1>8. ASSUME NEW s \in Sends, NEW r \in Relays, Accepted(s, r) PROVE DeliveryInv'
    BY <1>8 DEF TypeOK, Accepted, AttemptsFollowStage, AcceptedStored, OutcomeFollowsAnswers
  <1>9. ASSUME NEW s \in Sends, NEW r \in Relays, Refused(s, r) PROVE DeliveryInv'
    BY <1>9 DEF TypeOK, Refused, AttemptsFollowStage, AcceptedStored, OutcomeFollowsAnswers
  <1>10. ASSUME NEW s \in Sends, NEW r \in Relays, Aborted(s, r) PROVE DeliveryInv'
    BY <1>10 DEF TypeOK, Aborted, AttemptsFollowStage, AcceptedStored, OutcomeFollowsAnswers
  <1>11. ASSUME NEW r \in Relays, Cool(r) PROVE DeliveryInv'
    BY <1>11 DEF Cool, AttemptsFollowStage, AcceptedStored, OutcomeFollowsAnswers
  <1>12. CASE Close
    BY <1>12 DEF TypeOK, Close, AttemptsFollowStage, AcceptedStored, OutcomeFollowsAnswers
  <1>13. CASE UNCHANGED vars
    BY <1>13 DEF vars, AttemptsFollowStage, AcceptedStored, OutcomeFollowsAnswers
  <1> QED
    BY <1>1, <1>2, <1>3, <1>4, <1>5, <1>6, <1>7, <1>8, <1>9, <1>10, <1>11, <1>12, <1>13
    DEF Next

\* A send reports success only when a relay really holds the reply, and failure only
\* when no relay has acknowledged it and none still may, for any number of
\* concurrent sends, relays and inbox lists.
THEOREM OutcomesAreHonest == Spec => []HonestOutcome
  <1>1. Init => DeliveryInv
    BY DEF Init, NoAttempts, DeliveryInv, AttemptsFollowStage, AcceptedStored,
           OutcomeFollowsAnswers
  <1>2. TypeOK /\ DeliveryInv /\ [Next]_vars => DeliveryInv'
    BY DeliveryStep
  <1>3. DeliveryInv => HonestOutcome
    <2> SUFFICES ASSUME DeliveryInv, NEW s \in Sends
                 PROVE  /\ stage[s] = "delivered" => stored[s] # {}
                        /\ stage[s] = "failed" =>
                              \A r \in Relays : attempts[s][r] \notin {"pending", "ok"}
        BY DEF HonestOutcome
    <2>1. stage[s] = "delivered" => stored[s] # {}
        BY DEF DeliveryInv, OutcomeFollowsAnswers, AcceptedStored
    <2>2. ASSUME stage[s] = "failed", NEW r \in Relays
          PROVE  attempts[s][r] # "pending" /\ attempts[s][r] # "ok"
        BY <2>2 DEF DeliveryInv, AttemptsFollowStage, OutcomeFollowsAnswers
    <2>3. QED BY <2>1, <2>2
  <1> QED
    BY <1>1, <1>2, <1>3, TypeCorrect, PTL DEF Spec

-----------------------------------------------------------------------------
\* Once close() was called no step of any send opens a publish, also when its query
\* was answered before the call.
THEOREM ClosedIsQuiet == Spec => ClosedPublishesNothing
  <1> DEFINE NoNewPublish ==
        closing => \A s \in Sends, r \in Relays :
                     attempts'[s][r] = "pending" => attempts[s][r] = "pending"
  <1>1. ASSUME TypeOK, [Next]_vars PROVE NoNewPublish
    <2> SUFFICES ASSUME closing, NEW q \in Sends, NEW p \in Relays,
                        attempts'[q][p] = "pending"
                 PROVE  attempts[q][p] = "pending"
      OBVIOUS
    <2>1. CASE attempts' = attempts
      BY <2>1
    <2>2. ASSUME NEW s \in Sends, NEW r \in Relays, Accepted(s, r) \/ Refused(s, r) \/ Aborted(s, r)
          PROVE  attempts[q][p] = "pending"
      <3>1. attempts[s][r] = "pending"
        BY <2>2 DEF Accepted, Refused, Aborted
      <3>2. PICK answer : attempts' = [attempts EXCEPT ![s][r] = answer]
        BY <2>2 DEF Accepted, Refused, Aborted
      <3>3. attempts \in [Sends -> [Relays -> {"none", "pending", "ok", "error"}]]
        BY <1>1 DEF TypeOK
      <3> QED
        BY <3>1, <3>2, <3>3
    <2>3. ~(\E s \in Sends : Begin(s) \/ Publishes(s))
      BY DEF Begin, Publishes
    <2>4. (\E s \in Sends, r \in Relays : Accepted(s, r) \/ Refused(s, r) \/ Aborted(s, r))
          \/ attempts' = attempts
      BY <1>1, <2>3
      DEF Next, Discovered, GivesUp, Settles, ListArrives, Stores, Cool, Close, vars
    <2>5. CASE \E s \in Sends, r \in Relays : Accepted(s, r) \/ Refused(s, r) \/ Aborted(s, r)
      <3>1. PICK s \in Sends, r \in Relays : Accepted(s, r) \/ Refused(s, r) \/ Aborted(s, r)
        BY <2>5
      <3> QED
        BY <3>1, <2>2
    <2> QED
      BY <2>1, <2>4, <2>5
  <1>2. TypeOK /\ [Next]_vars => [NoNewPublish]_vars
    BY <1>1
  <1> QED
    BY <1>2, TypeCorrect, PTL DEF Spec, ClosedPublishesNothing
=============================================================================
