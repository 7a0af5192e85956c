-------------------------- MODULE RelayGenerations --------------------------
(***************************************************************************)
(* What a supervised relay subscription promises to the code that uses it  *)
(* (src/src/subscription-supervisor.ts as seen by startNostrBus).          *)
(*                                                                         *)
(* A subscription goes through numbered generations.  One generation is    *)
(* one attempt to subscribe; it is connecting until the relay answers,     *)
(* healthy from then on, degraded from the moment the relay or the health  *)
(* timeout ends it, and the next generation starts only from degraded.     *)
(* "stopped" is the state before the first generation and after the end.   *)
(* What the relay sends is accepted only for the generation that asked.    *)
(***************************************************************************)
EXTENDS Naturals

VARIABLES
    state,          \* "stopped", "connecting", "healthy" or "degraded"
    generation      \* number of the current (or, when stopped, last) attempt

vars == <<state, generation>>

States == {"stopped", "connecting", "healthy", "degraded"}

TypeOK ==
    /\ state \in States
    /\ generation \in Nat

Init ==
    /\ state = "stopped"
    /\ generation = 0

\* A new lifecycle subscribes for the first time; the attempt may fail at once.
Begin ==
    /\ state = "stopped"
    /\ generation' = 1
    /\ state' \in {"connecting", "degraded"}

\* The relay sends an event or end-of-stored-events: the generation is healthy.
Answer ==
    /\ state \in {"connecting", "healthy"}
    /\ state' = "healthy"
    /\ UNCHANGED generation

\* The relay closes the subscription, or the health timeout does.
Fail ==
    /\ state \in {"connecting", "healthy"}
    /\ state' = "degraded"
    /\ UNCHANGED generation

\* The reconnect timer starts the next generation, which may fail at once.
Reconnect ==
    /\ state = "degraded"
    /\ generation' = generation + 1
    /\ state' \in {"connecting", "degraded"}

\* The owner stops the subscription, or its process ends.
End ==
    /\ state' = "stopped"
    /\ generation' \in {0, generation}

Next == Begin \/ Answer \/ Fail \/ Reconnect \/ End

Spec == Init /\ [][Next]_vars
=============================================================================
