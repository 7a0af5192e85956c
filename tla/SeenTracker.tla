---------------------------- MODULE SeenTracker ----------------------------
(***************************************************************************)
(* createSeenTracker (src/src/seen-tracker.ts): the bounded memory of      *)
(* handled events, a map of entries threaded into a doubly linked list     *)
(* from the id used last (head) to the one used longest ago (tail).        *)
(* Every operation runs to its end without yielding, so each is one        *)
(* action; the pointer updates inside it are functions on the list.        *)
(***************************************************************************)
EXTENDS Naturals, FiniteSets, SequencesExt

CONSTANTS
    Ids,
    Nil,            \* null
    MaxEntries,     \* maxEntries, at least 1
    TTL,            \* ttlMs
    SeedLists,      \* lists of ids read back from the state file
    MaxTime         \* bound of the explored behaviours

ASSUME TrackerAssumption ==
    /\ Nil \notin Ids
    /\ MaxEntries \in Nat \ {0}
    /\ TTL \in Nat /\ MaxTime \in Nat
    /\ SeedLists \subseteq Seq(Ids)

VARIABLES
    now,
    list,           \* the entries with head and tail
    answer          \* result of the last has or peek

vars == <<now, list, answer>>

Link == Ids \cup {Nil}

Entry == [seenAt : Nat, prev : Link, next : Link]

TypeOK ==
    /\ now \in Nat
    /\ list = [entries |-> list.entries, head |-> list.head, tail |-> list.tail]
    /\ list.head \in Link /\ list.tail \in Link
    /\ list.entries \in [DOMAIN list.entries -> Entry]
    /\ DOMAIN list.entries \subseteq Ids
    /\ IsFiniteSet(DOMAIN list.entries)
    /\ Cardinality(DOMAIN list.entries) =< MaxEntries
    /\ answer \in BOOLEAN

Empty == [entries |-> [id \in {} |-> [seenAt |-> 0, prev |-> Nil, next |-> Nil]],
          head |-> Nil, tail |-> Nil]

Init ==
    /\ now = 0
    /\ list = Empty
    /\ answer = FALSE

-----------------------------------------------------------------------------
Known(l) == DOMAIN l.entries

Expired(l, id) == now - l.entries[id].seenAt > TTL

\* The neighbours of entry e are joined, those it has.
Joined(l, e) ==
    [x \in Known(l) |->
        [seenAt |-> l.entries[x].seenAt,
         prev |-> IF x = e.next THEN e.prev ELSE l.entries[x].prev,
         next |-> IF x = e.prev THEN e.next ELSE l.entries[x].next]]

\* Mutant: removing the last entry leaves tail on it.
UnlinkKeepsTail(l, id) ==
    LET e == l.entries[id] IN
    [entries |-> Joined(l, e),
     head |-> IF e.prev = Nil THEN e.next ELSE l.head,
     tail |-> l.tail]

\* removeFromList: the neighbours are joined; an end of the list moves inward.
Unlink(l, id) ==
    LET e == l.entries[id] IN
    [entries |-> Joined(l, e),
     head |-> IF e.prev = Nil THEN e.next ELSE l.head,
     tail |-> IF e.next = Nil THEN e.prev ELSE l.tail]

\* removeFromList and entries.delete.
Drop(l, id) ==
    LET u == Unlink(l, id) IN
    [entries |-> [x \in Known(l) \ {id} |-> u.entries[x]],
     head |-> u.head,
     tail |-> u.tail]

\* An entry put in front of head.
First(seenAt, head) == [seenAt |-> seenAt, prev |-> Nil, next |-> head]

\* The entries, of which that of head now has id before it.
Preceded(entries, head, id) ==
    [x \in DOMAIN entries |->
        [seenAt |-> entries[x].seenAt,
         prev |-> IF x = head THEN id ELSE entries[x].prev,
         next |-> entries[x].next]]

\* insertAtFront, for an id that has no entry.
InsertAtFront(l, id) ==
    [entries |-> [x \in Known(l) \cup {id} |->
                    IF x = id THEN First(now, l.head)
                    ELSE Preceded(l.entries, l.head, id)[x]],
     head |-> id,
     tail |-> IF l.tail = Nil THEN id ELSE l.tail]

\* moveToFront: the entry is taken out of its place and put before the head.
MoveToFront(l, id) ==
    LET e == l.entries[id] IN
    IF l.head = id THEN l
    ELSE [entries |-> [x \in Known(l) |->
                         IF x = id THEN First(e.seenAt, l.head)
                         ELSE Preceded(Joined(l, e), l.head, id)[x]],
          head |-> id,
          tail |-> IF l.tail = id THEN e.prev ELSE l.tail]

\* The entry has been used just now.
Stamped(l, id) ==
    [entries |-> [x \in Known(l) |->
                    [seenAt |-> IF x = id THEN now ELSE l.entries[x].seenAt,
                     prev |-> l.entries[x].prev,
                     next |-> l.entries[x].next]],
     head |-> l.head,
     tail |-> l.tail]

\* Mutant: an id that is used again keeps its place in the list.
TouchInPlace(l, id) == Stamped(l, id)

\* An id that is used again becomes the one used last.
Touch(l, id) == MoveToFront(Stamped(l, id), id)

\* Mutant: room is made only once the tracker holds more than it may.
MakeRoomTooLate(l) == IF Cardinality(Known(l)) > MaxEntries THEN Drop(l, l.tail) ELSE l

\* evictLRU, until there is room for one more: one eviction is enough.
MakeRoom(l) == IF Cardinality(Known(l)) >= MaxEntries THEN Drop(l, l.tail) ELSE l

\* add()
Added(l, id) ==
    IF id \in Known(l) THEN Touch(l, id) ELSE InsertAtFront(MakeRoom(l), id)

-----------------------------------------------------------------------------
Add(id) ==
    /\ list' = Added(list, id)
    /\ UNCHANGED <<now, answer>>

\* has(): an expired entry is dropped first and the id added anew.
Has(id) ==
    /\ \/ /\ id \notin Known(list)
          /\ list' = Added(list, id)
          /\ answer' = FALSE
       \/ /\ id \in Known(list) /\ Expired(list, id)
          /\ list' = Added(Drop(list, id), id)
          /\ answer' = FALSE
       \/ /\ id \in Known(list) /\ ~Expired(list, id)
          /\ list' = Touch(list, id)
          /\ answer' = TRUE
    /\ UNCHANGED now

\* peek(): does not count as a use, but drops an expired entry.
Peek(id) ==
    /\ answer' = (id \in Known(list) /\ ~Expired(list, id))
    /\ list' = IF id \in Known(list) /\ Expired(list, id) THEN Drop(list, id) ELSE list
    /\ UNCHANGED now

Delete(id) ==
    /\ list' = IF id \in Known(list) THEN Drop(list, id) ELSE list
    /\ UNCHANGED <<now, answer>>

\* One id after the other is dropped.
DropAll(l, doomed) ==
    LET after[n \in 0..Len(doomed)] ==
            IF n = 0 THEN l ELSE Drop(after[n - 1], doomed[n])
    IN  after[Len(doomed)]

\* pruneExpired: the expired ids are collected, in whatever order the map has them,
\* and then dropped.
Expire ==
    /\ \E toDelete \in SetToSeqs({id \in Known(list) : Expired(list, id)}) :
          list' = DropAll(list, toDelete)
    /\ UNCHANGED <<now, answer>>

Clear ==
    /\ list' = Empty
    /\ UNCHANGED <<now, answer>>

\* An id read back is put in front, unless it is there or there is no room.
PushSeed(l, id) ==
    IF id \in Known(l) \/ Cardinality(Known(l)) >= MaxEntries THEN l
    ELSE InsertAtFront(l, id)

\* seed(): from the end of the list to its start.
PushAll(l, ids) ==
    LET after[n \in 0..Len(ids)] ==
            IF n = 0 THEN l ELSE PushSeed(after[n - 1], ids[Len(ids) + 1 - n])
    IN  after[Len(ids)]

Seed(ids) ==
    /\ list' = PushAll(list, ids)
    /\ UNCHANGED <<now, answer>>

Tick ==
    /\ now < MaxTime
    /\ now' = now + 1
    /\ UNCHANGED <<list, answer>>

Next ==
    \/ \E id \in Ids : Add(id) \/ Has(id) \/ Peek(id) \/ Delete(id)
    \/ \E ids \in SeedLists : Seed(ids)
    \/ Expire
    \/ Clear
    \/ Tick

Spec == Init /\ [][Next]_vars

-----------------------------------------------------------------------------
\* The sequence of ids is the list from head to tail: its ends are head and tail,
\* next leads from each id to the one after it, and prev back.
Threads(l, s) ==
    /\ l.head = IF Len(s) = 0 THEN Nil ELSE s[1]
    /\ l.tail = IF Len(s) = 0 THEN Nil ELSE s[Len(s)]
    /\ \A i \in 1..Len(s) :
        /\ l.entries[s[i]].prev = IF i = 1 THEN Nil ELSE s[i - 1]
        /\ l.entries[s[i]].next = IF i = Len(s) THEN Nil ELSE s[i + 1]

\* After any sequence of calls the two chains of links agree with each other and
\* with the map: from head, next reaches every entry once and ends at tail, and
\* prev leads back.  An entry the list loses is never evicted; a tail that is
\* missing or points at a deleted entry makes the eviction loop spin for ever.
WellLinked == \E s \in SetToSeqs(Known(list)) : Threads(list, s)

\* The ids of a well linked list, the one used last first.
RecencyOf(l) == CHOOSE s \in SetToSeqs(Known(l)) : Threads(l, s)

\* The tracker remembers exactly the ids its interface promises: those used last,
\* the one used longest ago going first, and no longer than the TTL.
Interface == INSTANCE RecencyList WITH
    order <- RecencyOf(list),
    seenAt <- [id \in Known(list) |-> list.entries[id].seenAt]

ImplementsInterface == Interface!Spec
=============================================================================
