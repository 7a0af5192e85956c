---------------------------- MODULE RecencyList ----------------------------
(***************************************************************************)
(* What the seen tracker promises (the interface of                        *)
(* src/src/seen-tracker.ts): it remembers the MaxEntries ids used last, in *)
(* the order of their use, each for TTL after its last use.                *)
(***************************************************************************)
EXTENDS Naturals, SequencesExt

CONSTANTS
    Ids,
    MaxEntries,
    TTL,
    SeedLists       \* lists of ids a restart may seed the tracker with

VARIABLES
    now,
    order,          \* the remembered ids, the one used last first
    seenAt,         \* time of the last use, for the ids in order
    answer          \* result of the last has or peek

vars == <<now, order, seenAt, answer>>

Init ==
    /\ now = 0
    /\ order = <<>>
    /\ seenAt = [id \in {} |-> 0]
    /\ answer = FALSE

Fresh(id) == id \in ToSet(order) /\ now - seenAt[id] =< TTL

\* The tracker remembers exactly these ids from here on; those it did not know are
\* used now.
Remember(ids) ==
    /\ order' = ids
    /\ seenAt' = [id \in ToSet(ids) |->
                    IF id \in ToSet(order) THEN seenAt[id] ELSE now]

\* The ids of t have the order they have in s.
InOrder(t, s) ==
    \A i, j \in DOMAIN t : i < j =>
        \E a, b \in DOMAIN s : a < b /\ s[a] = t[i] /\ s[b] = t[j]

\* Of the ids known, these are remembered and keep their order.
Keep(ids) == \E t \in SetToSeqs(ids) : InOrder(t, order) /\ Remember(t)

\* The id becomes the one used last; the one used longest ago makes room for it.
Use(id) ==
    LET others == IF id \in ToSet(order) \/ Len(order) < MaxEntries
                  THEN ToSet(order) \ {id}
                  ELSE ToSet(order) \ {order[Len(order)]}
    IN  \E t \in SetToSeqs(others) :
            /\ InOrder(t, order)
            /\ order' = <<id>> \o t
            /\ seenAt' = [i \in others \cup {id} |-> IF i = id THEN now ELSE seenAt[i]]

Add(id) == Use(id) /\ UNCHANGED <<now, answer>>

Has(id) == Use(id) /\ answer' = Fresh(id) /\ UNCHANGED now

Peek(id) ==
    /\ answer' = Fresh(id)
    /\ Keep(IF Fresh(id) THEN ToSet(order) ELSE ToSet(order) \ {id})
    /\ UNCHANGED now

Delete(id) == Keep(ToSet(order) \ {id}) /\ UNCHANGED <<now, answer>>

Clear == Remember(<<>>) /\ UNCHANGED <<now, answer>>

Expire == Keep({id \in ToSet(order) : Fresh(id)}) /\ UNCHANGED <<now, answer>>

\* In the list, a still comes where b does not come any more.
Later(ids, a, b) ==
    \E i \in DOMAIN ids : ids[i] = a /\ \A j \in DOMAIN ids : j >= i => ids[j] # b

\* Of a list, the new ids that come last are taken, as many as there is room for,
\* and put before the others in the order of the list.
Seed(ids) ==
    LET new == ToSet(ids) \ ToSet(order)
    IN  /\ \E taken \in SUBSET new : \E t \in SetToSeqs(taken) :
              /\ \A i, j \in DOMAIN t : i < j => Later(ids, t[j], t[i])
              /\ \A a \in taken, b \in new \ taken : Later(ids, a, b)
              /\ Len(order) + Len(t) =< MaxEntries
              /\ taken = new \/ Len(order) + Len(t) = MaxEntries
              /\ Remember(t \o order)
        /\ UNCHANGED <<now, answer>>

Tick == now' = now + 1 /\ UNCHANGED <<order, seenAt, answer>>

Next ==
    \/ \E id \in Ids : Add(id) \/ Has(id) \/ Peek(id) \/ Delete(id)
    \/ \E ids \in SeedLists : Seed(ids)
    \/ Expire
    \/ Clear
    \/ Tick

Spec == Init /\ [][Next]_vars
=============================================================================
