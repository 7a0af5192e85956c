------------------------------ MODULE TotpAuth ------------------------------
(***************************************************************************)
(* The TOTP authenticator of an account (src/src/totp-auth.ts): per sender *)
(* a session, a count of failures and a lock, and for all senders together *)
(* the time steps whose code has been used.                                *)
(*                                                                         *)
(* A message body is a code, named by the time step it was made for, a     *)
(* code of no step at all (WrongCode), or anything else (Text).  That two  *)
(* steps may have the same six digits is left out.                         *)
(***************************************************************************)
EXTENDS Integers

CONSTANTS
    Senders,
    Text, WrongCode,
    STEP,               \* STEP_SECONDS
    SESSION,            \* sessionMs
    LOCKOUT,            \* LOCKOUT_MS
    MAX_FAILURES

ASSUME TotpAssumption ==
    /\ Text \notin Nat /\ WrongCode \notin Nat /\ Text # WrongCode
    /\ STEP \in Nat \ {0}
    /\ SESSION \in Nat \ {0} /\ LOCKOUT \in Nat \ {0} /\ MAX_FAILURES \in Nat \ {0}

SenderState == [authenticatedUntil : Nat, failures : Nat, lockedUntil : Nat]

Authenticator == [senderState : [Senders -> SenderState], usedCounters : SUBSET Nat]

NewSender == [authenticatedUntil |-> 0, failures |-> 0, lockedUntil |-> 0]

NewAuthenticator == [senderState |-> [s \in Senders |-> NewSender], usedCounters |-> {}]

Counter(time) == time \div STEP

\* The steps around the present one whose codes a sender may hold.
Around(time) == ((Counter(time) - 1) .. (Counter(time) + 1)) \cap Nat

IsCode(body) == body # Text

HasSession(a, s, time) == a.senderState[s].authenticatedUntil > time

IsLocked(a, s, time) == a.senderState[s].lockedUntil > time

\* Mutant: a code is looked at although the sender is locked.
MayTryLocked(a, s, time) == ~HasSession(a, s, time)

\* Only a sender that has no session and is not locked has its code looked at.
MayTry(a, s, time) == ~HasSession(a, s, time) /\ ~IsLocked(a, s, time)

\* Mutant: a code that has been used is accepted again.
AcceptsUsed(a, body, time) == body \in Around(time)

\* The code of the step before, of the present or of the next one, once.
Accepts(a, body, time) ==
    /\ body \in Around(time)
    /\ body \notin a.usedCounters

\* Mutant: the session is dated from the end of the step of the code.
OpenedByStep(a, s, code, time) ==
    [senderState |-> [a.senderState EXCEPT ![s] =
                        [authenticatedUntil |-> (code + 1) * STEP + SESSION,
                         failures |-> 0, lockedUntil |-> 0]],
     usedCounters |-> {c \in a.usedCounters \cup {code} : c >= Counter(time) - 2}]

\* The code is used up, old ones are forgotten, and the session starts.
Opened(a, s, code, time) ==
    [senderState |-> [a.senderState EXCEPT ![s] =
                        [authenticatedUntil |-> time + SESSION,
                         failures |-> 0, lockedUntil |-> 0]],
     usedCounters |-> {c \in a.usedCounters \cup {code} : c >= Counter(time) - 2}]

\* Mutant: the lock is dated from the wrong side of the present.
FailedBackwards(a, s, time) ==
    LET n == a.senderState[s].failures + 1 IN
    [a EXCEPT !.senderState[s] =
        IF n >= MAX_FAILURES
        THEN [@ EXCEPT !.failures = 0, !.lockedUntil = time - LOCKOUT]
        ELSE [@ EXCEPT !.failures = n]]

\* One more failure; the last one allowed starts the lock and the count anew.
Failed(a, s, time) ==
    LET n == a.senderState[s].failures + 1 IN
    [a EXCEPT !.senderState[s] =
        IF n >= MAX_FAILURES
        THEN [@ EXCEPT !.failures = 0, !.lockedUntil = time + LOCKOUT]
        ELSE [@ EXCEPT !.failures = n]]
=============================================================================
