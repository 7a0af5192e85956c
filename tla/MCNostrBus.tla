----------------------------- MODULE MCNostrBus -----------------------------
(* TLC instances of NostrBus. *)
EXTENDS NostrBus, TLC

CONSTANTS w1, w2, w3, m1

\* Every wrap carries the one message; of those in Junk it cannot be told.
SameRumor == [w \in Wraps |-> m1]

\* The wraps of the message are interchangeable, and so are the relays.
Interchangeable == Permutations(Wraps \ Junk) \cup Permutations(Relays)

\* A bound: junk carries the initial time, whenever it is published.
JunkIsOld == \A w \in Junk : Published(w) => created[w] = BACKDATE
=============================================================================
