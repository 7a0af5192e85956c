------------------------- MODULE SeenTrackerProofs -------------------------
(***************************************************************************)
(* Proofs about SeenTracker, for every set of ids, bound and lifetime: the *)
(* list stays well linked and bounded, and the tracker implements          *)
(* RecencyList.  The loops of pruneExpired and seed are recursive          *)
(* functions on the numbers; what they do is shown by induction, taken     *)
(* from the well-foundedness of <.                                         *)
(***************************************************************************)
EXTENDS SeenTracker, FiniteSetTheorems, SequenceTheorems, TLAPS

USE TrackerAssumption DEF TrackerAssumption

-----------------------------------------------------------------------------
\* Induction: a non-empty set of numbers has a least one, so a set that has 0 and
\* with each number below N the next one has all numbers up to N.
LEMMA Smallest ==
    ASSUME NEW T \in SUBSET Nat, T # {}
    PROVE  \E n \in T : \A k \in T : n =< k
<1> DEFINE R == OpToRel(<, Nat)
<1>1. IsWellFoundedOn(R, Nat)
    BY NatLessThanWellFounded
<1>2. PICK x \in T : \A y \in T : ~(<<y, x>> \in R)
    BY <1>1, WFMin, Zenon
<1>3. ASSUME NEW y \in T, y < x PROVE FALSE
    <2>1. <<y, x>> \in R
        BY <1>3 DEF OpToRel
    <2> HIDE DEF R
    <2>2. QED BY <1>2, <2>1
<1> HIDE DEF R
<1>4. QED BY <1>3

LEMMA UpTo ==
    ASSUME NEW N \in Nat, NEW T, 0 \in T, \A n \in 0..N : n # N /\ n \in T => n + 1 \in T
    PROVE  \A n \in 0..N : n \in T
<1> SUFFICES ASSUME NEW k \in 0..N, k \notin T PROVE FALSE
    OBVIOUS
<1> DEFINE bad == {n \in 0..N : n \notin T}
<1>1. bad \in SUBSET Nat /\ bad # {}
    OBVIOUS
<1>2. PICK n \in bad : \A j \in bad : n =< j
    BY <1>1, Smallest
<1>3. n # 0 /\ n - 1 \in 0..N /\ n - 1 # N /\ n - 1 \notin bad
    BY <1>2
<1>4. QED BY <1>2, <1>3

-----------------------------------------------------------------------------
\* Sequences that list each element of a set once.
LEMMA SeqOfFunction ==
    ASSUME NEW S, NEW n \in Nat, NEW f \in [1..n -> S]
    PROVE  f \in Seq(S) /\ Len(f) = n
<1>1. f \in Seq(S)
    BY SeqDef
<1>2. Len(f) \in Nat /\ DOMAIN f = 1..Len(f) /\ DOMAIN f = 1..n
    BY <1>1, LenProperties
<1>3. QED BY <1>1, <1>2

\* No id twice.
Distinct(s) == \A i, j \in 1..Len(s) : s[i] = s[j] => i = j

\* s lists the elements of S, each once.
Lists(s, S) ==
    /\ s \in Seq(S)
    /\ Distinct(s)
    /\ \A x \in S : \E i \in 1..Len(s) : s[i] = x

LEMMA ListsCount ==
    ASSUME NEW S, NEW s, Lists(s, S)
    PROVE  /\ IsFiniteSet(S) /\ Cardinality(S) = Len(s)
           /\ s \in SetToSeqs(S) /\ ToSet(s) = S
<1>1. Len(s) \in Nat /\ s \in [1..Len(s) -> S] /\ DOMAIN s = 1..Len(s)
    BY LenProperties DEF Lists
<1>2. s \in Bijection(1..Len(s), S)
    BY <1>1 DEF Lists, Distinct, Bijection, Injection, Surjection, IsInjective
<1>3. ExistsBijection(1..Len(s), S)
    BY <1>2 DEF ExistsBijection
<1>4. IsFiniteSet(S) /\ Cardinality(S) = Len(s)
    BY <1>1, <1>3, FS_CountingElements, FS_NatBijection
<1>5. s \in SetToSeqs(S)
    BY <1>1, <1>4 DEF SetToSeqs, Lists, Distinct
<1>6. ToSet(s) = S
    BY <1>1 DEF ToSet, Lists
<1>7. QED BY <1>4, <1>5, <1>6

LEMMA SetToSeqsLists ==
    ASSUME NEW S, IsFiniteSet(S), NEW s \in SetToSeqs(S)
    PROVE  Lists(s, S) /\ Len(s) = Cardinality(S)
<1> DEFINE n == Cardinality(S)
<1>1. n \in Nat
    BY FS_CardinalityType
<1>2. s \in [1..n -> S] /\ \A i, j \in 1..n : i # j => s[i] # s[j]
    BY DEF SetToSeqs
<1>3. s \in Seq(S) /\ Len(s) = n
    BY <1>1, <1>2, SeqOfFunction
<1>4. s \in Injection(1..n, S)
    BY <1>2 DEF Injection, IsInjective
<1>5. Cardinality(1..n) = n
    BY <1>1, FS_Interval
<1>6. s \in Surjection(1..n, S)
    BY <1>4, <1>5, FS_Injection
<1>7. \A x \in S : \E i \in 1..n : s[i] = x
    BY <1>6 DEF Surjection
<1>8. QED BY <1>2, <1>3, <1>7 DEF Lists, Distinct

-----------------------------------------------------------------------------
\* The list l has the ids of s, from its head to its tail.
Holds(l, s) ==
    /\ l = [entries |-> l.entries, head |-> l.head, tail |-> l.tail]
    /\ l.entries \in [Known(l) -> Entry]
    /\ Known(l) \subseteq Ids
    /\ Lists(s, Known(l))
    /\ Threads(l, s)

\* The entries that m has in common with l are as old as they were.
SameTimes(l, m) == \A x \in Known(l) \cap Known(m) : m.entries[x].seenAt = l.entries[x].seenAt

LEMMA HoldsTypes ==
    ASSUME NEW l, NEW s, Holds(l, s)
    PROVE  /\ Len(s) \in Nat /\ s \in [1..Len(s) -> Known(l)]
           /\ s \in Seq(Ids)
           /\ \A i \in 1..Len(s) : s[i] \in Known(l) /\ s[i] \in Ids /\ s[i] # Nil
           /\ \A x \in Known(l) : /\ \E i \in 1..Len(s) : s[i] = x
                                  /\ l.entries[x] \in Entry
           /\ IsFiniteSet(Known(l)) /\ Cardinality(Known(l)) = Len(s)
<1>1. Len(s) \in Nat /\ s \in [1..Len(s) -> Known(l)]
    BY LenProperties DEF Holds, Lists
<1>2. IsFiniteSet(Known(l)) /\ Cardinality(Known(l)) = Len(s)
    BY ListsCount DEF Holds
<1>3. Known(l) \subseteq Ids /\ l.entries \in [Known(l) -> Entry]
    BY DEF Holds
<1>4. s \in Seq(Ids)
    BY <1>3, SeqMonotonic DEF Holds, Lists
<1>5. \A x \in Known(l) : \E i \in 1..Len(s) : s[i] = x
    BY DEF Holds, Lists
<1>6. QED BY <1>1, <1>2, <1>3, <1>4, <1>5

\* The links determine the order.
LEMMA OneOrder ==
    ASSUME NEW l, NEW s, NEW t, Holds(l, s), Holds(l, t)
    PROVE  s = t
<1> DEFINE n == Len(s)
           bad == {i \in 1..n : s[i] # t[i]}
<1>1. n \in Nat /\ Len(t) = n /\ s \in [1..n -> Known(l)] /\ t \in [1..n -> Known(l)]
    BY HoldsTypes
<1>2. \A i \in 1..n : s[i] # Nil
    BY HoldsTypes
<1>3. ASSUME bad # {} PROVE FALSE
    <2>0. bad \in SUBSET Nat
        BY <1>1
    <2>1. PICK i \in bad : \A j \in bad : i =< j
        <3> HIDE DEF bad
        <3>1. QED BY <1>3, <2>0, Smallest
    <2>2. s[1] = t[1]
        BY <1>1, <2>1 DEF Holds, Threads
    <2>3. i # 1 /\ i - 1 \in 1..n /\ i - 1 # n /\ s[i - 1] = t[i - 1]
        BY <1>1, <2>1, <2>2
    <2>4. l.entries[s[i - 1]].next = s[i] /\ l.entries[t[i - 1]].next = t[i]
        BY <1>1, <2>3 DEF Holds, Threads
    <2>5. QED BY <2>1, <2>3, <2>4
<1>4. \A i \in 1..n : s[i] = t[i]
    BY <1>3
<1>5. QED BY <1>1, <1>4

LEMMA RecencyIs ==
    ASSUME NEW l, NEW s, Holds(l, s)
    PROVE  RecencyOf(l) = s
<1>1. s \in SetToSeqs(Known(l)) /\ IsFiniteSet(Known(l))
    BY ListsCount DEF Holds
<1> DEFINE r == RecencyOf(l)
<1>2. r \in SetToSeqs(Known(l)) /\ Threads(l, r)
    BY <1>1 DEF Holds, RecencyOf
<1>3. Lists(r, Known(l))
    BY <1>1, <1>2, SetToSeqsLists
<1>4. Holds(l, r)
    BY <1>2, <1>3 DEF Holds
<1>5. QED BY <1>4, OneOrder

-----------------------------------------------------------------------------
\* s without its k-th element.
Cut(s, k) == [i \in 1..(Len(s) - 1) |-> IF i < k THEN s[i] ELSE s[i + 1]]

\* s with id before it.
Push(id, s) == [i \in 1..(Len(s) + 1) |-> IF i = 1 THEN id ELSE s[i - 1]]

LEMMA CutLists ==
    ASSUME NEW S, NEW s, Lists(s, S), NEW k \in 1..Len(s)
    PROVE  Lists(Cut(s, k), S \ {s[k]}) /\ Len(Cut(s, k)) = Len(s) - 1
<1> DEFINE n == Len(s)
           c == Cut(s, k)
           T == S \ {s[k]}
<1>1. n \in Nat /\ n - 1 \in Nat /\ s \in [1..n -> S]
    BY LenProperties DEF Lists
<1>2. \A i, j \in 1..n : s[i] = s[j] => i = j
    BY DEF Lists, Distinct
<1>3. c \in [1..(n - 1) -> T]
    BY <1>1, <1>2 DEF Cut
<1>4. c \in Seq(T) /\ Len(c) = n - 1
    <2> DEFINE m == n - 1
    <2>1. m \in Nat /\ c \in [1..m -> T]
        BY <1>1, <1>3
    <2> HIDE DEF c, T, m
    <2>2. c \in Seq(T) /\ Len(c) = m
        BY <2>1, SeqOfFunction
    <2>3. QED BY <2>2 DEF m
<1>5. Distinct(c)
    BY <1>1, <1>2, <1>4 DEF Cut, Distinct
<1>6. ASSUME NEW x \in T PROVE \E i \in 1..Len(c) : c[i] = x
    <2>1. PICK j \in 1..n : s[j] = x
        BY DEF Lists
    <2>2. j # k
        BY <2>1
    <2>3. CASE j < k
        <3>1. j \in 1..(n - 1) /\ c[j] = x
            BY <1>1, <2>1, <2>3 DEF Cut
        <3>2. QED BY <1>4, <3>1
    <2>4. CASE j > k
        <3>1. j - 1 \in 1..(n - 1) /\ c[j - 1] = x
            BY <1>1, <2>1, <2>4 DEF Cut
        <3>2. QED BY <1>4, <3>1
    <2>5. QED BY <1>1, <2>2, <2>3, <2>4
<1>7. QED BY <1>4, <1>5, <1>6 DEF Lists

LEMMA PushLists ==
    ASSUME NEW S, NEW s, Lists(s, S), NEW id, id \notin S
    PROVE  Lists(Push(id, s), S \cup {id}) /\ Len(Push(id, s)) = Len(s) + 1
<1> DEFINE n == Len(s)
           p == Push(id, s)
           T == S \cup {id}
<1>1. n \in Nat /\ s \in [1..n -> S]
    BY LenProperties DEF Lists
<1>2. \A i, j \in 1..n : s[i] = s[j] => i = j
    BY DEF Lists, Distinct
<1>3. p \in [1..(n + 1) -> T]
    BY <1>1 DEF Push
<1>4. p \in Seq(T) /\ Len(p) = n + 1
    BY <1>1, <1>3, SeqOfFunction
<1>5. Distinct(p)
    BY <1>1, <1>2, <1>4 DEF Push, Distinct
<1>6. ASSUME NEW x \in T PROVE \E i \in 1..Len(p) : p[i] = x
    <2>1. CASE x = id
        <3>1. 1 \in 1..(n + 1) /\ p[1] = x
            BY <1>1, <2>1 DEF Push
        <3>2. QED BY <1>4, <3>1
    <2>2. CASE x # id
        <3>1. PICK j \in 1..n : s[j] = x
            BY <2>2 DEF Lists
        <3>2. j + 1 \in 1..(n + 1) /\ p[j + 1] = x
            BY <1>1, <3>1 DEF Push
        <3>3. QED BY <1>4, <3>2
    <2>3. QED BY <2>1, <2>2
<1>7. QED BY <1>4, <1>5, <1>6 DEF Lists

-----------------------------------------------------------------------------
\* The neighbours of the k-th entry, and what joining them leaves in each other one.
LEMMA Neighbours ==
    ASSUME NEW l, NEW s, Holds(l, s), NEW k \in 1..Len(s)
    PROVE  LET e == l.entries[s[k]] IN
           /\ e.prev = IF k = 1 THEN Nil ELSE s[k - 1]
           /\ e.next = IF k = Len(s) THEN Nil ELSE s[k + 1]
           /\ Joined(l, e) \in [Known(l) -> Entry]
           /\ \A x \in Known(l) : Joined(l, e)[x].seenAt = l.entries[x].seenAt
           /\ \A j \in 1..Len(s) : j # k =>
                /\ Joined(l, e)[s[j]].prev = IF j = k + 1 THEN e.prev
                                             ELSE IF j = 1 THEN Nil ELSE s[j - 1]
                /\ Joined(l, e)[s[j]].next = IF j = k - 1 THEN e.next
                                             ELSE IF j = Len(s) THEN Nil ELSE s[j + 1]
<1> DEFINE n == Len(s)
           e == l.entries[s[k]]
           J == Joined(l, e)
<1>1. /\ n \in Nat /\ \A i \in 1..n : s[i] \in Known(l) /\ s[i] # Nil
      /\ \A x \in Known(l) : l.entries[x] \in Entry
    BY HoldsTypes
<1>2. \A i, j \in 1..n : s[i] = s[j] => i = j
    BY DEF Holds, Lists, Distinct
<1>3. \A i \in 1..n : /\ l.entries[s[i]].prev = IF i = 1 THEN Nil ELSE s[i - 1]
                      /\ l.entries[s[i]].next = IF i = n THEN Nil ELSE s[i + 1]
    BY DEF Holds, Threads
<1>4. \A x \in Known(l) :
        J[x] = [seenAt |-> l.entries[x].seenAt,
                prev |-> IF x = e.next THEN e.prev ELSE l.entries[x].prev,
                next |-> IF x = e.prev THEN e.next ELSE l.entries[x].next]
    BY DEF Joined
<1>5. /\ e \in Entry
      /\ e.prev = IF k = 1 THEN Nil ELSE s[k - 1]
      /\ e.next = IF k = n THEN Nil ELSE s[k + 1]
      /\ J = [x \in Known(l) |-> J[x]]
    BY <1>1, <1>3 DEF Joined
<1> HIDE DEF e, J
<1>6. J \in [Known(l) -> Entry]
    <2>1. \A x \in Known(l) : J[x] \in Entry
        BY <1>1, <1>4, <1>5 DEF Entry
    <2>2. QED BY <1>5, <2>1
<1>7. ASSUME NEW x \in Known(l)
      PROVE  /\ J[x].seenAt = l.entries[x].seenAt
             /\ J[x].prev = IF x = e.next THEN e.prev ELSE l.entries[x].prev
             /\ J[x].next = IF x = e.prev THEN e.next ELSE l.entries[x].next
    <2> DEFINE p == IF x = e.next THEN e.prev ELSE l.entries[x].prev
               q == IF x = e.prev THEN e.next ELSE l.entries[x].next
    <2>1. J[x] = [seenAt |-> l.entries[x].seenAt, prev |-> p, next |-> q]
        BY <1>4, Zenon
    <2> HIDE DEF p, q
    <2>2. J[x].seenAt = l.entries[x].seenAt /\ J[x].prev = p /\ J[x].next = q
        BY <2>1
    <2>3. QED BY <2>2 DEF p, q
<1>8. ASSUME NEW j \in 1..n, j # k
      PROVE  /\ s[j] = e.next <=> j = k + 1
             /\ s[j] = e.prev <=> j = k - 1
    <2>1. s[j] # Nil
        BY <1>1
    <2>2. CASE k = 1
        BY <1>1, <1>2, <1>5, <1>8, <2>1, <2>2
    <2>3. CASE k # 1
        BY <1>1, <1>2, <1>5, <1>8, <2>1, <2>3
    <2>4. QED BY <2>2, <2>3
<1>9. ASSUME NEW j \in 1..n, j # k
      PROVE  /\ J[s[j]].prev = IF j = k + 1 THEN e.prev ELSE IF j = 1 THEN Nil ELSE s[j - 1]
             /\ J[s[j]].next = IF j = k - 1 THEN e.next ELSE IF j = n THEN Nil ELSE s[j + 1]
    <2>1. s[j] \in Known(l)
        BY <1>1
    <2>2. J[s[j]].prev = (IF s[j] = e.next THEN e.prev ELSE l.entries[s[j]].prev)
        BY <1>7, <2>1
    <2>3. J[s[j]].next = (IF s[j] = e.prev THEN e.next ELSE l.entries[s[j]].next)
        BY <1>7, <2>1
    <2>4. QED BY <1>3, <1>8, <1>9, <2>2, <2>3
<1>10. QED BY <1>5, <1>6, <1>7, <1>9 DEF e, J

\* Taking out the k-th entry takes the k-th id out of the order.
LEMMA DropHolds ==
    ASSUME NEW l, NEW s, Holds(l, s), NEW k \in 1..Len(s)
    PROVE  /\ Holds(Drop(l, s[k]), Cut(s, k))
           /\ Known(Drop(l, s[k])) = Known(l) \ {s[k]}
           /\ SameTimes(l, Drop(l, s[k]))
<1> DEFINE n == Len(s)
           e == l.entries[s[k]]
           J == Joined(l, e)
           d == Drop(l, s[k])
           c == Cut(s, k)
<1>1. /\ n \in Nat /\ \A i \in 1..n : s[i] \in Known(l) /\ s[i] # Nil
    BY HoldsTypes
<1>2. \A i, j \in 1..n : s[i] = s[j] => i = j
    BY DEF Holds, Lists, Distinct
<1>3. /\ e.prev = IF k = 1 THEN Nil ELSE s[k - 1]
      /\ e.next = IF k = n THEN Nil ELSE s[k + 1]
      /\ J \in [Known(l) -> Entry]
      /\ \A x \in Known(l) : J[x].seenAt = l.entries[x].seenAt
      /\ \A j \in 1..n : j # k =>
           /\ J[s[j]].prev = IF j = k + 1 THEN e.prev ELSE IF j = 1 THEN Nil ELSE s[j - 1]
           /\ J[s[j]].next = IF j = k - 1 THEN e.next ELSE IF j = n THEN Nil ELSE s[j + 1]
    BY Neighbours
<1>4. /\ d = [entries |-> [x \in Known(l) \ {s[k]} |-> J[x]],
              head |-> IF e.prev = Nil THEN e.next ELSE l.head,
              tail |-> IF e.next = Nil THEN e.prev ELSE l.tail]
    BY DEF Drop, Unlink
<1>5. /\ l.head = IF n = 0 THEN Nil ELSE s[1]
      /\ l.tail = IF n = 0 THEN Nil ELSE s[n]
    BY DEF Holds, Threads
<1>6. Lists(c, Known(l) \ {s[k]}) /\ Len(c) = n - 1
    BY CutLists DEF Holds
<1>7. \A i \in 1..(n - 1) : c[i] = IF i < k THEN s[i] ELSE s[i + 1]
    BY DEF Cut
<1> HIDE DEF e, J, d, c
<1>8. /\ d.entries = [x \in Known(l) \ {s[k]} |-> J[x]]
      /\ d.head = IF e.prev = Nil THEN e.next ELSE l.head
      /\ d.tail = IF e.next = Nil THEN e.prev ELSE l.tail
      /\ d = [entries |-> d.entries, head |-> d.head, tail |-> d.tail]
    BY <1>4
<1>9. Known(d) = Known(l) \ {s[k]}
    BY <1>8 DEF Known
<1>10. /\ \A x \in Known(d) : d.entries[x] = J[x]
       /\ d.entries \in [Known(d) -> Entry]
    BY <1>3, <1>8, <1>9
<1>11. SameTimes(l, d)
    BY <1>3, <1>9, <1>10 DEF SameTimes
<1>12. d.head = IF Len(c) = 0 THEN Nil ELSE c[1]
    <2>1. CASE k = 1
        <3>1. d.head = IF n = 1 THEN Nil ELSE s[2]
            BY <1>3, <1>8, <2>1
        <3>2. ASSUME n # 1 PROVE c[1] = s[2]
            <4>1. n \in Nat /\ n >= 1
                BY <1>1
            <4>2. 1 \in 1..(n - 1)
                <5> HIDE DEF n
                <5>1. QED BY <3>2, <4>1
            <4>3. QED BY <1>7, <2>1, <4>2
        <3>3. QED BY <1>1, <1>6, <3>1, <3>2
    <2>2. CASE k # 1
        <3>1. e.prev = s[k - 1] /\ k - 1 \in 1..n
            BY <1>1, <1>3, <2>2
        <3>2. d.head = s[1]
            BY <1>1, <1>5, <1>8, <3>1
        <3>3. n # 1 /\ c[1] = s[1]
            BY <1>1, <1>7, <2>2
        <3>4. QED BY <1>1, <1>6, <3>2, <3>3
    <2>3. QED BY <2>1, <2>2
<1>13. d.tail = IF Len(c) = 0 THEN Nil ELSE c[Len(c)]
    <2>1. CASE k = n
        <3>1. d.tail = IF n = 1 THEN Nil ELSE s[n - 1]
            BY <1>3, <1>8, <2>1
        <3>2. n # 1 => c[n - 1] = s[n - 1]
            BY <1>1, <1>7, <2>1
        <3>3. QED BY <1>1, <1>6, <3>1, <3>2
    <2>2. CASE k # n
        <3>1. e.next = s[k + 1] /\ k + 1 \in 1..n
            BY <1>1, <1>3, <2>2
        <3>2. d.tail = s[n]
            BY <1>1, <1>5, <1>8, <3>1
        <3>3. n # 1 /\ c[n - 1] = s[n]
            BY <1>1, <1>7, <2>2
        <3>4. QED BY <1>1, <1>6, <3>2, <3>3
    <2>3. QED BY <2>1, <2>2
<1>14. ASSUME NEW i \in 1..Len(c)
       PROVE  /\ d.entries[c[i]].prev = IF i = 1 THEN Nil ELSE c[i - 1]
              /\ d.entries[c[i]].next = IF i = Len(c) THEN Nil ELSE c[i + 1]
    <2>1. i \in 1..(n - 1) /\ Len(c) = n - 1
        BY <1>6
    <2>2. c[i] \in Known(d)
        BY <1>6, <1>9, <2>1, ElementOfSeq DEF Lists
    <2>3. d.entries[c[i]] = J[c[i]]
        BY <1>10, <2>2
    <2>4. CASE i < k
        <3>1. c[i] = s[i] /\ i \in 1..n /\ i # k
            BY <1>1, <1>7, <2>1, <2>4
        <3>2. /\ J[s[i]].prev = IF i = 1 THEN Nil ELSE s[i - 1]
              /\ J[s[i]].next = IF i = k - 1 THEN e.next ELSE s[i + 1]
            BY <1>1, <1>3, <2>1, <2>4, <3>1
        <3>3. d.entries[c[i]].prev = IF i = 1 THEN Nil ELSE c[i - 1]
            BY <1>1, <1>7, <2>1, <2>3, <2>4, <3>1, <3>2
        <3>4. d.entries[c[i]].next = IF i = Len(c) THEN Nil ELSE c[i + 1]
            <4>1. CASE i = k - 1
                <5>1. d.entries[c[i]].next = IF k = n THEN Nil ELSE s[k + 1]
                    BY <1>3, <2>3, <3>1, <3>2, <4>1
                <5>2. k # n => c[i + 1] = s[k + 1]
                    BY <1>1, <1>7, <4>1
                <5>3. QED BY <1>1, <2>1, <4>1, <5>1, <5>2
            <4>2. CASE i # k - 1
                <5>1. c[i + 1] = s[i + 1] /\ i # n - 1
                    BY <1>1, <1>7, <2>1, <2>4, <4>2
                <5>2. QED BY <2>1, <2>3, <3>1, <3>2, <4>2, <5>1
            <4>3. QED BY <4>1, <4>2
        <3>5. QED BY <3>3, <3>4
    <2>5. CASE ~(i < k)
        <3>1. c[i] = s[i + 1] /\ i + 1 \in 1..n /\ i + 1 # k
            BY <1>1, <1>7, <2>1, <2>5
        <3>2. /\ J[s[i + 1]].prev = IF i = k THEN e.prev ELSE s[i]
              /\ J[s[i + 1]].next = IF i + 1 = n THEN Nil ELSE s[i + 2]
            BY <1>1, <1>3, <2>1, <2>5, <3>1
        <3>3. d.entries[c[i]].prev = IF i = 1 THEN Nil ELSE c[i - 1]
            BY <1>1, <1>3, <1>7, <2>1, <2>3, <2>5, <3>1, <3>2
        <3>4. d.entries[c[i]].next = IF i = Len(c) THEN Nil ELSE c[i + 1]
            BY <1>1, <1>7, <2>1, <2>3, <2>5, <3>1, <3>2
        <3>5. QED BY <3>3, <3>4
    <2>6. QED BY <2>4, <2>5
<1>15. Threads(d, c)
    BY <1>12, <1>13, <1>14 DEF Threads
<1>16. Known(d) \subseteq Ids
    BY <1>9 DEF Holds
<1>17. Holds(d, c)
    BY <1>6, <1>8, <1>9, <1>10, <1>15, <1>16 DEF Holds
<1>18. QED BY <1>9, <1>11, <1>17 DEF d, c

\* A new id is put before the others.
LEMMA InsertHolds ==
    ASSUME NEW l, NEW s, Holds(l, s), NEW id \in Ids, id \notin Known(l), now \in Nat
    PROVE  /\ Holds(InsertAtFront(l, id), Push(id, s))
           /\ Known(InsertAtFront(l, id)) = Known(l) \cup {id}
           /\ SameTimes(l, InsertAtFront(l, id))
           /\ InsertAtFront(l, id).entries[id].seenAt = now
<1> DEFINE n == Len(s)
           m == InsertAtFront(l, id)
           p == Push(id, s)
           F == First(now, l.head)
           P == Preceded(l.entries, l.head, id)
<1>1. /\ n \in Nat /\ \A i \in 1..n : s[i] \in Known(l) /\ s[i] # Nil /\ s[i] \in Ids
      /\ \A x \in Known(l) : l.entries[x] \in Entry
    BY HoldsTypes
<1>2. \A i, j \in 1..n : s[i] = s[j] => i = j
    BY DEF Holds, Lists, Distinct
<1>3. /\ l.head = IF n = 0 THEN Nil ELSE s[1]
      /\ l.tail = IF n = 0 THEN Nil ELSE s[n]
      /\ \A i \in 1..n : /\ l.entries[s[i]].prev = IF i = 1 THEN Nil ELSE s[i - 1]
                         /\ l.entries[s[i]].next = IF i = n THEN Nil ELSE s[i + 1]
    BY DEF Holds, Threads
<1>4. Lists(p, Known(l) \cup {id}) /\ Len(p) = n + 1
    BY PushLists DEF Holds
<1>5. \A i \in 1..(n + 1) : p[i] = IF i = 1 THEN id ELSE s[i - 1]
    BY DEF Push
<1>6. /\ F.seenAt = now /\ F.prev = Nil /\ F.next = l.head
      /\ F \in Entry
    BY <1>1, <1>3 DEF First, Entry, Link
<1>7. ASSUME NEW x \in Known(l)
      PROVE  /\ P[x].seenAt = l.entries[x].seenAt
             /\ P[x].prev = IF x = l.head THEN id ELSE l.entries[x].prev
             /\ P[x].next = l.entries[x].next
             /\ P[x] \in Entry
    <2> DEFINE q == IF x = l.head THEN id ELSE l.entries[x].prev
    <2>1. P[x] = [seenAt |-> l.entries[x].seenAt, prev |-> q, next |-> l.entries[x].next]
        BY DEF Preceded, Known
    <2>2. l.entries[x] \in Entry /\ id \in Link
        BY <1>1 DEF Link
    <2>3. q \in Link
        BY <2>2 DEF Entry
    <2> HIDE DEF q, P
    <2>4. /\ P[x].seenAt = l.entries[x].seenAt /\ P[x].prev = q
          /\ P[x].next = l.entries[x].next
        BY <2>1
    <2>5. P[x] \in Entry
        BY <2>1, <2>2, <2>3 DEF Entry
    <2>6. QED BY <2>4, <2>5 DEF q
<1>8. m = [entries |-> [x \in Known(l) \cup {id} |-> IF x = id THEN F ELSE P[x]],
           head |-> id,
           tail |-> IF l.tail = Nil THEN id ELSE l.tail]
    BY DEF InsertAtFront
<1> HIDE DEF m, p, F, P
<1>9. /\ m.entries = [x \in Known(l) \cup {id} |-> IF x = id THEN F ELSE P[x]]
      /\ m.head = id
      /\ m.tail = IF l.tail = Nil THEN id ELSE l.tail
      /\ m = [entries |-> m.entries, head |-> m.head, tail |-> m.tail]
    BY <1>8
<1>10. Known(m) = Known(l) \cup {id}
    BY <1>9 DEF Known
<1>11. /\ m.entries[id] = F
       /\ \A x \in Known(l) : m.entries[x] = P[x]
       /\ m.entries \in [Known(m) -> Entry]
    BY <1>6, <1>7, <1>9, <1>10
<1>12. SameTimes(l, m) /\ m.entries[id].seenAt = now
    BY <1>6, <1>7, <1>11 DEF SameTimes
<1>13. m.head = p[1] /\ m.tail = p[n + 1]
    BY <1>1, <1>3, <1>5, <1>9
<1>14. ASSUME NEW i \in 1..(n + 1)
       PROVE  /\ m.entries[p[i]].prev = IF i = 1 THEN Nil ELSE p[i - 1]
              /\ m.entries[p[i]].next = IF i = n + 1 THEN Nil ELSE p[i + 1]
    <2>1. CASE i = 1
        BY <1>1, <1>3, <1>5, <1>6, <1>11, <2>1
    <2>2. CASE i # 1
        <3>1. p[i] = s[i - 1] /\ i - 1 \in 1..n /\ s[i - 1] \in Known(l)
            BY <1>1, <1>5, <2>2
        <3>2. s[i - 1] = l.head <=> i = 2
            BY <1>1, <1>2, <1>3, <3>1
        <3>3. /\ m.entries[p[i]].prev = IF i = 2 THEN id ELSE l.entries[s[i - 1]].prev
              /\ m.entries[p[i]].next = l.entries[s[i - 1]].next
            BY <1>7, <1>11, <3>1, <3>2
        <3>4. /\ l.entries[s[i - 1]].prev = IF i = 2 THEN Nil ELSE s[i - 2]
              /\ l.entries[s[i - 1]].next = IF i = n + 1 THEN Nil ELSE s[i]
            BY <1>1, <1>3, <3>1
        <3>5. m.entries[p[i]].prev = p[i - 1]
            BY <1>1, <1>5, <2>2, <3>1, <3>3, <3>4
        <3>6. m.entries[p[i]].next = IF i = n + 1 THEN Nil ELSE p[i + 1]
            BY <1>1, <1>5, <2>2, <3>1, <3>3, <3>4
        <3>7. QED BY <2>2, <3>5, <3>6
    <2>3. QED BY <2>1, <2>2
<1>15. Threads(m, p)
    <2>1. Len(p) = n + 1 /\ Len(p) # 0
        BY <1>1, <1>4
    <2>2. /\ m.head = IF Len(p) = 0 THEN Nil ELSE p[1]
          /\ m.tail = IF Len(p) = 0 THEN Nil ELSE p[Len(p)]
        BY <1>13, <2>1
    <2>3. \A i \in 1..Len(p) : /\ m.entries[p[i]].prev = IF i = 1 THEN Nil ELSE p[i - 1]
                               /\ m.entries[p[i]].next = IF i = Len(p) THEN Nil ELSE p[i + 1]
        BY <1>14, <2>1
    <2>4. QED BY <2>2, <2>3 DEF Threads
<1>16. Known(m) \subseteq Ids
    BY <1>10 DEF Holds
<1>17. Holds(m, p)
    BY <1>4, <1>9, <1>10, <1>11, <1>15, <1>16 DEF Holds
<1>18. QED BY <1>10, <1>12, <1>17 DEF m, p

LEMMA StampedHolds ==
    ASSUME NEW l, NEW s, Holds(l, s), NEW id \in Known(l), now \in Nat
    PROVE  /\ Holds(Stamped(l, id), s)
           /\ Known(Stamped(l, id)) = Known(l)
           /\ \A x \in Known(l) : Stamped(l, id).entries[x].seenAt =
                                    IF x = id THEN now ELSE l.entries[x].seenAt
<1> DEFINE m == Stamped(l, id)
<1>1. /\ Len(s) \in Nat /\ \A i \in 1..Len(s) : s[i] \in Known(l)
      /\ \A x \in Known(l) : l.entries[x] \in Entry
    BY HoldsTypes
<1>2. /\ m.head = l.head /\ m.tail = l.tail
      /\ m = [entries |-> m.entries, head |-> m.head, tail |-> m.tail]
      /\ Known(m) = Known(l)
      /\ m.entries = [x \in Known(l) |-> m.entries[x]]
    BY DEF Stamped, Known
<1>3. ASSUME NEW x \in Known(l)
      PROVE  /\ m.entries[x].seenAt = IF x = id THEN now ELSE l.entries[x].seenAt
             /\ m.entries[x].prev = l.entries[x].prev
             /\ m.entries[x].next = l.entries[x].next
             /\ m.entries[x] \in Entry
    <2> DEFINE q == IF x = id THEN now ELSE l.entries[x].seenAt
    <2>1. m.entries[x] = [seenAt |-> q, prev |-> l.entries[x].prev, next |-> l.entries[x].next]
        BY DEF Stamped
    <2>2. l.entries[x] \in Entry
        BY <1>1
    <2>3. q \in Nat
        BY <2>2 DEF Entry
    <2> HIDE DEF q, m
    <2>4. /\ m.entries[x].seenAt = q /\ m.entries[x].prev = l.entries[x].prev
          /\ m.entries[x].next = l.entries[x].next
        BY <2>1
    <2>5. m.entries[x] \in Entry
        BY <2>1, <2>2, <2>3 DEF Entry
    <2>6. QED BY <2>4, <2>5 DEF q
<1> HIDE DEF m
<1>4. m.entries \in [Known(m) -> Entry]
    BY <1>2, <1>3
<1>5. Threads(m, s)
    BY <1>1, <1>2, <1>3 DEF Threads, Holds
<1>6. Holds(m, s)
    BY <1>2, <1>4, <1>5 DEF Holds
<1>7. QED BY <1>2, <1>3, <1>6 DEF m

\* The entry in the k-th place becomes the first one.
LEMMA MoveHolds ==
    ASSUME NEW l, NEW s, Holds(l, s), NEW k \in 1..Len(s)
    PROVE  /\ Holds(MoveToFront(l, s[k]), Push(s[k], Cut(s, k)))
           /\ Known(MoveToFront(l, s[k])) = Known(l)
           /\ SameTimes(l, MoveToFront(l, s[k]))
<1> DEFINE n == Len(s)
           id == s[k]
           e == l.entries[s[k]]
           J == Joined(l, e)
           F == First(e.seenAt, l.head)
           P == Preceded(J, l.head, id)
           m == MoveToFront(l, id)
           f == Push(id, Cut(s, k))
<1>1. /\ n \in Nat /\ \A i \in 1..n : s[i] \in Known(l) /\ s[i] # Nil /\ s[i] \in Ids
      /\ \A x \in Known(l) : l.entries[x] \in Entry
      /\ s \in [1..n -> Known(l)]
    BY HoldsTypes
<1>2. \A i, j \in 1..n : s[i] = s[j] => i = j
    BY DEF Holds, Lists, Distinct
<1>3. /\ e.prev = IF k = 1 THEN Nil ELSE s[k - 1]
      /\ e.next = IF k = n THEN Nil ELSE s[k + 1]
      /\ J \in [Known(l) -> Entry]
      /\ \A x \in Known(l) : J[x].seenAt = l.entries[x].seenAt
      /\ \A j \in 1..n : j # k =>
           /\ J[s[j]].prev = IF j = k + 1 THEN e.prev ELSE IF j = 1 THEN Nil ELSE s[j - 1]
           /\ J[s[j]].next = IF j = k - 1 THEN e.next ELSE IF j = n THEN Nil ELSE s[j + 1]
    BY Neighbours
<1>4. n # 0 /\ l.head = s[1] /\ l.tail = s[n]
    BY <1>1 DEF Holds, Threads
<1>5. Lists(Cut(s, k), Known(l) \ {id}) /\ Len(Cut(s, k)) = n - 1
    BY CutLists DEF Holds
<1>6. Lists(f, Known(l)) /\ Len(f) = n
    <2> DEFINE S == Known(l) \ {id}
               c == Cut(s, k)
    <2>1. id \notin S /\ S \cup {id} = Known(l)
        BY <1>1
    <2>2. Lists(c, S) /\ Len(c) = n - 1
        BY <1>5
    <2> HIDE DEF S, c, id, n
    <2>3. Lists(Push(id, c), S \cup {id}) /\ Len(Push(id, c)) = Len(c) + 1
        BY <2>1, <2>2, PushLists
    <2>4. Lists(Push(id, c), Known(l))
        BY <2>1, <2>3
    <2>5. Len(Push(id, c)) = n
        BY <1>1, <2>2, <2>3
    <2>6. QED BY <2>4, <2>5 DEF c
<1>7. \A i \in 1..n : f[i] = IF i = 1 THEN id ELSE IF i =< k THEN s[i - 1] ELSE s[i]
    BY <1>1, <1>5 DEF Push, Cut
<1>8. CASE k = 1
    <2>1. m = l
        BY <1>4, <1>8 DEF MoveToFront
    <2>2. \A i \in 1..n : f[i] = s[i]
        BY <1>1, <1>7, <1>8
    <2>3. f \in [1..n -> Known(l)]
        BY <1>6, LenProperties DEF Lists
    <2>4. f = s
        <3> HIDE DEF f
        <3>1. QED BY <1>1, <2>2, <2>3
    <2>5. QED BY <2>1, <2>4 DEF SameTimes
<1>9. CASE k # 1
    <2>1. l.head # id /\ (l.tail = id <=> k = n)
        BY <1>1, <1>2, <1>4, <1>9
    <2>2. F.seenAt = e.seenAt /\ F.prev = Nil /\ F.next = l.head /\ F \in Entry
        BY <1>1, <1>4 DEF First, Entry, Link
    <2>3. ASSUME NEW x \in Known(l)
          PROVE  /\ P[x].seenAt = l.entries[x].seenAt
                 /\ P[x].prev = IF x = l.head THEN id ELSE J[x].prev
                 /\ P[x].next = J[x].next
                 /\ P[x] \in Entry
        <3> DEFINE q == IF x = l.head THEN id ELSE J[x].prev
        <3>1. DOMAIN J = Known(l)
            BY DEF Joined
        <3> HIDE DEF J
        <3>2. P[x] = [seenAt |-> J[x].seenAt, prev |-> q, next |-> J[x].next]
            BY <3>1 DEF Preceded
        <3>3. J[x] \in Entry /\ id \in Link
            BY <1>1, <1>3 DEF Link
        <3>4. q \in Link
            BY <3>3 DEF Entry
        <3> HIDE DEF q, P
        <3>5. P[x].seenAt = J[x].seenAt /\ P[x].prev = q /\ P[x].next = J[x].next
            BY <3>2
        <3>6. P[x] \in Entry
            BY <3>2, <3>3, <3>4 DEF Entry
        <3>7. QED BY <1>3, <3>5, <3>6 DEF q
    <2>4. m = [entries |-> [x \in Known(l) |-> IF x = id THEN F ELSE P[x]],
               head |-> id,
               tail |-> IF l.tail = id THEN e.prev ELSE l.tail]
        BY <2>1 DEF MoveToFront
    <2> HIDE DEF m, f, F, P, J, e
    <2>5. /\ m.entries = [x \in Known(l) |-> IF x = id THEN F ELSE P[x]]
          /\ m.head = id
          /\ m.tail = IF l.tail = id THEN e.prev ELSE l.tail
          /\ m = [entries |-> m.entries, head |-> m.head, tail |-> m.tail]
        BY <2>4
    <2>6. Known(m) = Known(l)
        BY <2>5 DEF Known
    <2>7. /\ m.entries[id] = F
          /\ \A x \in Known(l) : x # id => m.entries[x] = P[x]
          /\ m.entries \in [Known(m) -> Entry]
        BY <1>1, <2>2, <2>3, <2>5, <2>6
    <2>8. SameTimes(l, m)
        BY <2>2, <2>3, <2>6, <2>7 DEF SameTimes, e
    <2>9. m.head = f[1] /\ m.tail = f[n]
        BY <1>1, <1>3, <1>4, <1>7, <1>9, <2>1, <2>5
    <2>10. ASSUME NEW j \in 1..n, j # k
           PROVE  /\ m.entries[s[j]].prev = IF j = 1 THEN id ELSE J[s[j]].prev
                  /\ m.entries[s[j]].next = J[s[j]].next
        <3>1. s[j] \in Known(l) /\ s[j] # id /\ (s[j] = l.head <=> j = 1)
            BY <1>1, <1>2, <1>4, <2>10
        <3>2. QED BY <2>3, <2>7, <3>1
    <2>11. ASSUME NEW i \in 1..n
           PROVE  /\ m.entries[f[i]].prev = IF i = 1 THEN Nil ELSE f[i - 1]
                  /\ m.entries[f[i]].next = IF i = n THEN Nil ELSE f[i + 1]
        <3>1. CASE i = 1
            <4>1. f[i] = id /\ i # n /\ f[i + 1] = s[1]
                BY <1>1, <1>7, <1>9, <3>1
            <4>2. QED BY <1>4, <2>2, <2>7, <3>1, <4>1
        <3>2. CASE i # 1 /\ i =< k
            <4>1. f[i] = s[i - 1] /\ i - 1 \in 1..n /\ i - 1 # k
                BY <1>1, <1>7, <3>2
            <4>2. m.entries[f[i]].prev = IF i = 2 THEN id ELSE s[i - 2]
                <5>1. m.entries[f[i]].prev = IF i - 1 = 1 THEN id ELSE J[s[i - 1]].prev
                    BY <2>10, <4>1
                <5>2. J[s[i - 1]].prev = IF i - 1 = 1 THEN Nil ELSE s[i - 1 - 1]
                    BY <1>3, <3>2, <4>1
                <5>3. i - 1 - 1 = i - 2 /\ (i - 1 = 1 <=> i = 2)
                    BY <1>1
                <5>4. QED BY <5>1, <5>2, <5>3
            <4>3. f[i - 1] = IF i = 2 THEN id ELSE s[i - 2]
                BY <1>1, <1>7, <3>2
            <4>4. m.entries[f[i]].next = IF i = k THEN e.next ELSE s[i]
                BY <1>1, <1>3, <2>10, <3>2, <4>1
            <4>5. CASE i = k
                <5>1. k # n => f[i + 1] = s[k + 1]
                    BY <1>1, <1>7, <4>5
                <5>2. QED BY <1>3, <3>2, <4>2, <4>3, <4>4, <4>5, <5>1
            <4>6. CASE i # k
                <5>1. i # n /\ f[i + 1] = s[i]
                    BY <1>1, <1>7, <3>2, <4>6
                <5>2. QED BY <3>2, <4>2, <4>3, <4>4, <4>6, <5>1
            <4>7. QED BY <4>5, <4>6
        <3>3. CASE i > k
            <4>1. f[i] = s[i] /\ i # k /\ i # 1
                BY <1>1, <1>7, <3>3
            <4>2. m.entries[f[i]].prev = IF i = k + 1 THEN s[k - 1] ELSE s[i - 1]
                BY <1>1, <1>3, <1>9, <2>10, <3>3, <4>1
            <4>3. f[i - 1] = IF i = k + 1 THEN s[k - 1] ELSE s[i - 1]
                BY <1>1, <1>7, <1>9, <3>3
            <4>4. m.entries[f[i]].next = IF i = n THEN Nil ELSE s[i + 1]
                BY <1>1, <1>3, <2>10, <3>3, <4>1
            <4>5. i # n => f[i + 1] = s[i + 1]
                BY <1>1, <1>7, <3>3
            <4>6. QED BY <4>1, <4>2, <4>3, <4>4, <4>5
        <3>4. QED BY <1>1, <3>1, <3>2, <3>3
    <2>12. Threads(m, f)
        BY <1>4, <1>6, <2>9, <2>11 DEF Threads
    <2>13. Holds(m, f)
        BY <1>6, <2>5, <2>6, <2>7, <2>12 DEF Holds
    <2>14. QED BY <2>6, <2>8, <2>13 DEF m, f
<1>10. QED BY <1>8, <1>9

-----------------------------------------------------------------------------
\* What the operations do to a list that has the ids of s, said of its order.

LEMMA CutInOrder ==
    ASSUME NEW S, NEW s \in Seq(S), NEW k \in 1..Len(s)
    PROVE  Interface!InOrder(Cut(s, k), s)
<1> DEFINE n == Len(s)
           c == Cut(s, k)
<1>1. n \in Nat /\ DOMAIN s = 1..n /\ DOMAIN c = 1..(n - 1)
    BY LenProperties DEF Cut
<1>2. \A i \in 1..(n - 1) : c[i] = IF i < k THEN s[i] ELSE s[i + 1]
    BY DEF Cut
<1> HIDE DEF c, n
<1>3. ASSUME NEW i \in DOMAIN c, NEW j \in DOMAIN c, i < j
      PROVE  \E a, b \in DOMAIN s : a < b /\ s[a] = c[i] /\ s[b] = c[j]
    <2> DEFINE a == IF i < k THEN i ELSE i + 1
               b == IF j < k THEN j ELSE j + 1
    <2>1. a \in DOMAIN s /\ b \in DOMAIN s /\ a < b
        BY <1>1, <1>3
    <2>2. s[a] = c[i] /\ s[b] = c[j]
        BY <1>1, <1>2
    <2>3. QED BY <2>1, <2>2
<1>4. QED BY <1>3 DEF Interface!InOrder, c

LEMMA InOrderItself ==
    ASSUME NEW s
    PROVE  Interface!InOrder(s, s)
BY DEF Interface!InOrder

LEMMA InOrderTransitive ==
    ASSUME NEW r, NEW s, NEW t, Interface!InOrder(r, s), Interface!InOrder(s, t)
    PROVE  Interface!InOrder(r, t)
<1> SUFFICES ASSUME NEW i \in DOMAIN r, NEW j \in DOMAIN r, i < j
             PROVE  \E a, b \in DOMAIN t : a < b /\ t[a] = r[i] /\ t[b] = r[j]
    BY DEF Interface!InOrder
<1>1. PICK a \in DOMAIN s, b \in DOMAIN s : a < b /\ s[a] = r[i] /\ s[b] = r[j]
    BY DEF Interface!InOrder
<1>2. QED BY <1>1 DEF Interface!InOrder

\* m has, of the ids of l, those in ids, in the order and as old as they were.
Kept(l, s, ids, m) ==
    /\ Known(m) = ids
    /\ SameTimes(l, m)
    /\ \E t : Holds(m, t) /\ Interface!InOrder(t, s)

\* m has id, used now, before those of the ids of l there is room for.
Used(l, s, id, m) ==
    LET others == IF id \in Known(l) \/ Len(s) < MaxEntries
                  THEN Known(l) \ {id}
                  ELSE Known(l) \ {s[Len(s)]}
    IN  \E u : /\ Lists(u, others)
               /\ Interface!InOrder(u, s)
               /\ Holds(m, Push(id, u))
               /\ Known(m) = others \cup {id}
               /\ \A x \in Known(m) :
                    m.entries[x].seenAt = IF x = id THEN now ELSE l.entries[x].seenAt

LEMMA DropKeeps ==
    ASSUME NEW l, NEW s, Holds(l, s), NEW id \in Known(l)
    PROVE  Kept(l, s, Known(l) \ {id}, Drop(l, id))
<1>1. PICK k \in 1..Len(s) : s[k] = id
    BY HoldsTypes
<1>2. /\ Holds(Drop(l, id), Cut(s, k))
      /\ Known(Drop(l, id)) = Known(l) \ {id}
      /\ SameTimes(l, Drop(l, id))
    BY <1>1, DropHolds
<1>3. Interface!InOrder(Cut(s, k), s)
    BY HoldsTypes, CutInOrder
<1>4. QED BY <1>2, <1>3 DEF Kept

LEMMA TouchUses ==
    ASSUME NEW l, NEW s, Holds(l, s), NEW id \in Known(l), now \in Nat
    PROVE  Used(l, s, id, Touch(l, id))
<1> DEFINE p == Stamped(l, id)
           m == Touch(l, id)
<1>1. PICK k \in 1..Len(s) : s[k] = id
    BY HoldsTypes
<1>2. /\ Holds(p, s) /\ Known(p) = Known(l)
      /\ \A x \in Known(l) : p.entries[x].seenAt = IF x = id THEN now ELSE l.entries[x].seenAt
    BY StampedHolds
<1> HIDE DEF p
<1>3. m = MoveToFront(p, id)
    BY DEF Touch, p
<1>4. Holds(m, Push(id, Cut(s, k))) /\ Known(m) = Known(p) /\ SameTimes(p, m)
    BY <1>1, <1>2, <1>3, MoveHolds
<1>5. Lists(Cut(s, k), Known(l) \ {id})
    BY <1>1, CutLists DEF Holds
<1>6. Interface!InOrder(Cut(s, k), s)
    BY HoldsTypes, CutInOrder
<1> HIDE DEF m
<1>7. \A x \in Known(m) : m.entries[x].seenAt = IF x = id THEN now ELSE l.entries[x].seenAt
    BY <1>2, <1>4 DEF SameTimes
<1>8. Known(m) = (Known(l) \ {id}) \cup {id}
    BY <1>2, <1>4
<1>9. QED BY <1>4, <1>5, <1>6, <1>7, <1>8 DEF Used, m

\* insertAtFront, when all the other ids of l that Used leaves are those of d.
LEMMA InsertUses ==
    ASSUME NEW l, NEW s, Holds(l, s), NEW id \in Ids, now \in Nat,
           NEW d, NEW u, Holds(d, u), Interface!InOrder(u, s), SameTimes(l, d),
           Known(d) \subseteq Known(l),
           id \notin Known(d),
           Known(d) = IF id \in Known(l) \/ Len(s) < MaxEntries
                      THEN Known(l) \ {id}
                      ELSE Known(l) \ {s[Len(s)]}
    PROVE  Used(l, s, id, InsertAtFront(d, id))
<1> DEFINE m == InsertAtFront(d, id)
<1>1. /\ Holds(m, Push(id, u)) /\ Known(m) = Known(d) \cup {id}
      /\ SameTimes(d, m) /\ m.entries[id].seenAt = now
    BY InsertHolds
<1>2. Lists(u, Known(d))
    BY DEF Holds
<1> HIDE DEF m
<1>3. ASSUME NEW x \in Known(m)
      PROVE  m.entries[x].seenAt = IF x = id THEN now ELSE l.entries[x].seenAt
    BY <1>1 DEF SameTimes
<1>4. QED BY <1>1, <1>2, <1>3 DEF Used, m

LEMMA AddUses ==
    ASSUME NEW l, NEW s, Holds(l, s), Len(s) =< MaxEntries, NEW id \in Ids, now \in Nat
    PROVE  Used(l, s, id, Added(l, id))
<1> DEFINE n == Len(s)
<1>1. n \in Nat /\ Cardinality(Known(l)) = n /\ l.tail = IF n = 0 THEN Nil ELSE s[n]
    BY HoldsTypes DEF Holds, Threads
<1>2. CASE id \in Known(l)
    BY <1>2, TouchUses DEF Added
<1>3. CASE id \notin Known(l) /\ n < MaxEntries
    <2>1. Added(l, id) = InsertAtFront(l, id)
        BY <1>1, <1>3 DEF Added, MakeRoom
    <2>2. Known(l) = Known(l) \ {id} /\ SameTimes(l, l)
        BY <1>3 DEF SameTimes
    <2>3. QED BY <1>3, <2>1, <2>2, InOrderItself, InsertUses
<1>4. CASE id \notin Known(l) /\ n = MaxEntries
    <2> DEFINE d == Drop(l, s[n])
    <2>1. n \in 1..n /\ l.tail = s[n]
        BY <1>1, <1>4
    <2>2. Added(l, id) = InsertAtFront(d, id)
        BY <1>1, <1>4, <2>1 DEF Added, MakeRoom
    <2>3. Holds(d, Cut(s, n)) /\ Known(d) = Known(l) \ {s[n]} /\ SameTimes(l, d)
        BY <2>1, DropHolds
    <2>4. Interface!InOrder(Cut(s, n), s)
        BY <2>1, HoldsTypes, CutInOrder
    <2>5. id \notin Known(d) /\ Known(d) \subseteq Known(l) /\ ~(n < MaxEntries)
        BY <1>1, <1>4, <2>3
    <2> HIDE DEF d
    <2>6. QED BY <1>4, <2>2, <2>3, <2>4, <2>5, InsertUses
<1>5. QED BY <1>1, <1>2, <1>3, <1>4

\* has(), for an entry that has expired.
LEMMA ReplaceUses ==
    ASSUME NEW l, NEW s, Holds(l, s), Len(s) =< MaxEntries, NEW id \in Known(l), now \in Nat
    PROVE  Used(l, s, id, Added(Drop(l, id), id))
<1> DEFINE d == Drop(l, id)
<1>1. PICK k \in 1..Len(s) : s[k] = id
    BY HoldsTypes
<1>2. Holds(d, Cut(s, k)) /\ Known(d) = Known(l) \ {id} /\ SameTimes(l, d)
    BY <1>1, DropHolds
<1>3. Interface!InOrder(Cut(s, k), s)
    BY HoldsTypes, CutInOrder
<1>4. Len(Cut(s, k)) = Len(s) - 1 /\ Len(s) \in Nat
    BY <1>1, HoldsTypes, CutLists DEF Holds
<1> HIDE DEF d
<1>5. Cardinality(Known(d)) = Len(s) - 1
    BY <1>2, <1>4, HoldsTypes
<1>6. Added(d, id) = InsertAtFront(d, id)
    BY <1>2, <1>4, <1>5 DEF Added, MakeRoom
<1>7. id \in Ids
    BY HoldsTypes, <1>1
<1>8. Used(l, s, id, InsertAtFront(d, id))
    BY <1>2, <1>3, <1>7, InsertUses
<1>9. QED BY <1>6, <1>8 DEF d

-----------------------------------------------------------------------------
\* The loop of pruneExpired has a value after each of its rounds.
LEMMA DropRounds ==
    ASSUME NEW l, NEW doomed, Len(doomed) \in Nat
    PROVE  \E after : /\ after[0] = l
                      /\ \A n \in 1..Len(doomed) : after[n] = Drop(after[n - 1], doomed[n])
                      /\ DropAll(l, doomed) = after[Len(doomed)]
<1> DEFINE N == Len(doomed)
           Rounds(f, k) == f = [n \in 0..k |-> IF n = 0 THEN l ELSE Drop(f[n - 1], doomed[n])]
           T == {k \in 0..N : \E f : Rounds(f, k)}
<1>1. 0 \in T
    <2> DEFINE f == [n \in 0..0 |-> l]
    <2>1. Rounds(f, 0)
        OBVIOUS
    <2> HIDE DEF Rounds, f
    <2>2. QED BY <2>1
<1>2. ASSUME NEW k \in 0..N, k # N, k \in T PROVE k + 1 \in T
    <2>1. PICK f : Rounds(f, k)
        BY <1>2
    <2> DEFINE g == [n \in 0..(k + 1) |-> IF n = k + 1 THEN Drop(f[k], doomed[k + 1]) ELSE f[n]]
    <2>2. ASSUME NEW n \in 0..(k + 1)
          PROVE  g[n] = IF n = 0 THEN l ELSE Drop(g[n - 1], doomed[n])
        <3>1. CASE n = k + 1
            <4>1. n # 0 /\ n - 1 = k /\ k \in 0..(k + 1) /\ k # k + 1
                BY <3>1
            <4>2. g[n] = Drop(f[k], doomed[n]) /\ g[k] = f[k]
                BY <3>1, <4>1
            <4>3. QED BY <4>1, <4>2
        <3>2. CASE n # k + 1
            <4>1. n \in 0..k /\ g[n] = f[n]
                BY <3>2
            <4>2. f[n] = IF n = 0 THEN l ELSE Drop(f[n - 1], doomed[n])
                BY <2>1, <4>1
            <4>3. n # 0 => g[n - 1] = f[n - 1]
                BY <4>1
            <4>4. QED BY <4>1, <4>2, <4>3
        <3>3. QED BY <3>1, <3>2
    <2>3. g = [n \in 0..(k + 1) |-> g[n]]
        OBVIOUS
    <2> HIDE DEF g
    <2>4. Rounds(g, k + 1)
        BY <2>2, <2>3
    <2>5. k + 1 \in 0..N
        BY <1>2
    <2> HIDE DEF Rounds
    <2>6. QED BY <2>4, <2>5
<1>3. N \in T
    <2> HIDE DEF T, N
    <2>1. N \in Nat
        BY DEF N
    <2>2. \A k \in 0..N : k # N /\ k \in T => k + 1 \in T
        BY <1>2
    <2>3. \A k \in 0..N : k \in T
        BY <1>1, <2>1, <2>2, UpTo
    <2>4. QED BY <2>1, <2>3
<1> DEFINE after == CHOOSE f : Rounds(f, N)
<1>4. Rounds(after, N)
    BY <1>3, Zenon
<1>5. DropAll(l, doomed) = after[N]
    BY DEF DropAll
<1> HIDE DEF after
<1>6. after[0] = l
    BY <1>4
<1>7. \A n \in 1..N : after[n] = Drop(after[n - 1], doomed[n])
    BY <1>4
<1>8. QED BY <1>5, <1>6, <1>7

\* pruneExpired keeps the other ids, in their order.
LEMMA DropAllKeeps ==
    ASSUME NEW l, NEW s, Holds(l, s), NEW gone, gone \subseteq Known(l),
           NEW doomed, Lists(doomed, gone)
    PROVE  Kept(l, s, Known(l) \ gone, DropAll(l, doomed))
<1> DEFINE N == Len(doomed)
           Rest(n) == {x \in Known(l) : \A i \in 1..n : doomed[i] # x}
<1>1. /\ N \in Nat
      /\ \A i \in 1..N : doomed[i] \in gone
      /\ \A i, j \in 1..N : doomed[i] = doomed[j] => i = j
    BY LenProperties DEF Lists, Distinct
<1>2. PICK after : /\ after[0] = l
                   /\ \A n \in 1..N : after[n] = Drop(after[n - 1], doomed[n])
                   /\ DropAll(l, doomed) = after[N]
    BY <1>1, DropRounds
<1> DEFINE T == {n \in 0..N : Kept(l, s, Rest(n), after[n])}
<1>3. 0 \in T
    <2>1. Rest(0) = Known(l)
        OBVIOUS
    <2>2. SameTimes(l, l)
        BY DEF SameTimes
    <2>3. Kept(l, s, Known(l), l)
        BY <2>2, InOrderItself DEF Kept
    <2> HIDE DEF Rest
    <2>4. Kept(l, s, Rest(0), after[0])
        BY <1>2, <2>1, <2>3
    <2>5. QED BY <1>1, <2>4
<1>4. ASSUME NEW n \in 0..N, n # N, n \in T PROVE n + 1 \in T
    <2> DEFINE x == doomed[n + 1]
               m == after[n]
    <2>1. n + 1 \in 1..N /\ after[n + 1] = Drop(m, x)
        BY <1>1, <1>2, <1>4
    <2>2. Kept(l, s, Rest(n), m)
        BY <1>4
    <2>3. x \in Rest(n)
        BY <1>1, <1>4, <2>1
    <2>4. Rest(n + 1) = Rest(n) \ {x}
        BY <1>1, <1>4
    <2>5. Known(m) = Rest(n) /\ SameTimes(l, m)
        BY <2>2 DEF Kept
    <2>6. PICK t : Holds(m, t) /\ Interface!InOrder(t, s)
        BY <2>2 DEF Kept
    <2> HIDE DEF x, m, Rest
    <2>7. Kept(m, t, Rest(n) \ {x}, Drop(m, x))
        BY <2>3, <2>5, <2>6, DropKeeps
    <2>8. PICK u : Holds(Drop(m, x), u) /\ Interface!InOrder(u, t)
        BY <2>7 DEF Kept
    <2>9. Interface!InOrder(u, s)
        BY <2>6, <2>8, InOrderTransitive
    <2>10. Known(Drop(m, x)) = Rest(n) \ {x} /\ SameTimes(m, Drop(m, x))
        BY <2>7 DEF Kept
    <2>11. SameTimes(l, Drop(m, x))
        BY <2>5, <2>10 DEF SameTimes
    <2>12. Kept(l, s, Rest(n + 1), after[n + 1])
        BY <2>1, <2>4, <2>8, <2>9, <2>10, <2>11 DEF Kept
    <2>13. n + 1 \in 0..N
        BY <2>1
    <2>14. QED BY <2>12, <2>13
<1>5. N \in T
    <2> HIDE DEF T, N
    <2>1. N \in Nat
        BY <1>1
    <2>2. \A n \in 0..N : n # N /\ n \in T => n + 1 \in T
        BY <1>4
    <2>3. \A n \in 0..N : n \in T
        BY <1>3, <2>1, <2>2, UpTo
    <2>4. QED BY <2>1, <2>3
<1>6. Rest(N) = Known(l) \ gone
    BY <1>1 DEF Lists
<1>7. QED BY <1>2, <1>5, <1>6

-----------------------------------------------------------------------------
\* The loop of seed, from the last id to the first.
LEMMA PushRounds ==
    ASSUME NEW l, NEW ids, Len(ids) \in Nat
    PROVE  \E after : /\ after[0] = l
                      /\ \A n \in 1..Len(ids) :
                            after[n] = PushSeed(after[n - 1], ids[Len(ids) + 1 - n])
                      /\ PushAll(l, ids) = after[Len(ids)]
<1> DEFINE N == Len(ids)
           Rounds(f, k) == f = [n \in 0..k |-> IF n = 0 THEN l
                                               ELSE PushSeed(f[n - 1], ids[Len(ids) + 1 - n])]
           T == {k \in 0..N : \E f : Rounds(f, k)}
<1>1. 0 \in T
    <2> DEFINE f == [n \in 0..0 |-> l]
    <2>1. Rounds(f, 0)
        OBVIOUS
    <2> HIDE DEF Rounds, f
    <2>2. QED BY <2>1
<1>2. ASSUME NEW k \in 0..N, k # N, k \in T PROVE k + 1 \in T
    <2>1. PICK f : Rounds(f, k)
        BY <1>2
    <2> DEFINE Id(n) == ids[Len(ids) + 1 - n]
               g == [n \in 0..(k + 1) |-> IF n = k + 1 THEN PushSeed(f[k], Id(k + 1)) ELSE f[n]]
    <2> HIDE DEF Id
    <2>2. ASSUME NEW n \in 0..(k + 1)
          PROVE  g[n] = IF n = 0 THEN l ELSE PushSeed(g[n - 1], Id(n))
        <3>1. CASE n = k + 1
            <4>1. n # 0 /\ n - 1 = k /\ k \in 0..(k + 1) /\ k # k + 1
                BY <3>1
            <4>2. g[n] = PushSeed(f[k], Id(n)) /\ g[k] = f[k]
                BY <3>1, <4>1
            <4>3. QED BY <4>1, <4>2
        <3>2. CASE n # k + 1
            <4>1. n \in 0..k /\ g[n] = f[n]
                BY <3>2
            <4>2. f[n] = IF n = 0 THEN l ELSE PushSeed(f[n - 1], Id(n))
                BY <2>1, <4>1 DEF Id
            <4>3. n # 0 => g[n - 1] = f[n - 1]
                BY <4>1
            <4>4. QED BY <4>1, <4>2, <4>3
        <3>3. QED BY <3>1, <3>2
    <2>3. g = [n \in 0..(k + 1) |-> g[n]]
        OBVIOUS
    <2> HIDE DEF g
    <2>4. Rounds(g, k + 1)
        BY <2>2, <2>3 DEF Id
    <2>5. k + 1 \in 0..N
        BY <1>2
    <2> HIDE DEF Rounds
    <2>6. QED BY <2>4, <2>5
<1>3. N \in T
    <2> HIDE DEF T, N
    <2>1. N \in Nat
        BY DEF N
    <2>2. \A k \in 0..N : k # N /\ k \in T => k + 1 \in T
        BY <1>2
    <2>3. \A k \in 0..N : k \in T
        BY <1>1, <2>1, <2>2, UpTo
    <2>4. QED BY <2>1, <2>3
<1> DEFINE after == CHOOSE f : Rounds(f, N)
<1>4. Rounds(after, N)
    BY <1>3, Zenon
<1>5. PushAll(l, ids) = after[N]
    BY DEF PushAll
<1> HIDE DEF after
<1>6. after[0] = l
    BY <1>4
<1>7. \A n \in 1..N : after[n] = PushSeed(after[n - 1], ids[N + 1 - n])
    BY <1>4
<1>8. QED BY <1>5, <1>6, <1>7

\* The ids among the last n of the list that l does not have.
NewLast(l, ids, n) == {x \in Ids \ Known(l) : \E i \in 1..Len(ids) : i > Len(ids) - n /\ ids[i] = x}

\* In m, k of the new ids are before those of l, as Interface!Seed has it.
Seeded(l, s, ids, n, m, r, k) ==
    LET new == NewLast(l, ids, n) IN
    /\ Holds(m, r) /\ SameTimes(l, m)
    /\ k \in Nat /\ Len(r) = k + Len(s) /\ Len(r) =< MaxEntries
    /\ \A i \in 1..Len(s) : r[k + i] = s[i]
    /\ \A i \in 1..k : r[i] \in new /\ m.entries[r[i]].seenAt = now
    /\ \A i, j \in 1..k : i < j => Interface!Later(ids, r[j], r[i])
    /\ \A b \in new : \/ \E i \in 1..k : r[i] = b
                      \/ \A i \in 1..k : Interface!Later(ids, r[i], b)
    /\ \/ \A b \in new : \E i \in 1..k : r[i] = b
       \/ Len(r) = MaxEntries

\* The next id comes before all that were read: an id read stays when it does not.
LEMMA ReadLater ==
    ASSUME NEW l, NEW ids \in Seq(Ids), NEW n \in Nat, n < Len(ids),
           NEW a \in NewLast(l, ids, n), NEW b \in Ids, b \notin Known(l),
           b \notin NewLast(l, ids, n)
    PROVE  Interface!Later(ids, a, b)
<1>1. Len(ids) \in Nat /\ DOMAIN ids = 1..Len(ids)
    BY LenProperties
<1>2. PICK i \in 1..Len(ids) : i > Len(ids) - n /\ ids[i] = a
    BY DEF NewLast
<1>3. ASSUME NEW j \in 1..Len(ids), j >= i PROVE ids[j] # b
    BY <1>1, <1>2, <1>3 DEF NewLast
<1>4. QED BY <1>1, <1>2, <1>3 DEF Interface!Later

LEMMA NewLastNext ==
    ASSUME NEW l, NEW ids \in Seq(Ids), NEW n \in Nat, n < Len(ids)
    PROVE  LET id == ids[Len(ids) - n] IN
           /\ id \in Ids
           /\ NewLast(l, ids, n) \subseteq NewLast(l, ids, n + 1)
           /\ \A x \in NewLast(l, ids, n + 1) : x = id \/ x \in NewLast(l, ids, n)
           /\ id \notin Known(l) => id \in NewLast(l, ids, n + 1)
<1> DEFINE N == Len(ids)
<1>1. N \in Nat /\ N - n \in 1..N /\ \A i \in 1..N : ids[i] \in Ids
    BY LenProperties, ElementOfSeq
<1>2. \A i \in 1..N : /\ i > N - (n + 1) <=> (i = N - n \/ i > N - n)
    BY <1>1
<1> HIDE DEF N
<1>3. QED BY <1>1, <1>2 DEF NewLast, N

LEMMA SeedStep ==
    ASSUME NEW l, NEW s, Holds(l, s), NEW ids \in Seq(Ids), now \in Nat,
           NEW n \in Nat, n < Len(ids), NEW m, NEW r, NEW k, Seeded(l, s, ids, n, m, r, k)
    PROVE  \E r2, k2 : Seeded(l, s, ids, n + 1, PushSeed(m, ids[Len(ids) - n]), r2, k2)
<1> DEFINE id == ids[Len(ids) - n]
           new == NewLast(l, ids, n)
           nxt == NewLast(l, ids, n + 1)
           m2 == PushSeed(m, id)
<1>1. /\ id \in Ids /\ new \subseteq nxt
      /\ \A x \in nxt : x = id \/ x \in new
      /\ id \notin Known(l) => id \in nxt
    BY NewLastNext
<1>2. /\ Holds(m, r) /\ SameTimes(l, m)
      /\ k \in Nat /\ Len(r) = k + Len(s) /\ Len(r) =< MaxEntries
      /\ \A i \in 1..Len(s) : r[k + i] = s[i]
      /\ \A i \in 1..k : r[i] \in new /\ m.entries[r[i]].seenAt = now
      /\ \A i, j \in 1..k : i < j => Interface!Later(ids, r[j], r[i])
      /\ \A b \in new : \/ \E i \in 1..k : r[i] = b
                        \/ \A i \in 1..k : Interface!Later(ids, r[i], b)
      /\ \/ \A b \in new : \E i \in 1..k : r[i] = b
         \/ Len(r) = MaxEntries
    BY DEF Seeded
<1>3. /\ Len(s) \in Nat /\ Len(r) \in Nat /\ Cardinality(Known(m)) = Len(r)
      /\ \A i \in 1..Len(s) : s[i] \in Known(l)
      /\ \A x \in Known(l) : \E i \in 1..Len(s) : s[i] = x
      /\ \A i \in 1..Len(r) : r[i] \in Known(m)
      /\ \A x \in Known(m) : \E i \in 1..Len(r) : r[i] = x
    BY <1>2, HoldsTypes
<1>4. ASSUME NEW x \in Known(m) PROVE x \in Known(l) \/ \E i \in 1..k : r[i] = x
    <2>1. PICK i \in 1..Len(r) : r[i] = x
        BY <1>3
    <2>2. CASE i > k
        <3>1. i - k \in 1..Len(s) /\ k + (i - k) = i
            BY <1>2, <1>3, <2>2
        <3>2. r[i] = s[i - k]
            BY <1>2, <3>1
        <3>3. QED BY <1>3, <2>1, <3>1, <3>2
    <2>3. QED BY <1>2, <2>1, <2>2
<1>5. \A i \in 1..k : r[i] \in Known(m)
    BY <1>2, <1>3
<1>6. Known(l) \subseteq Known(m)
    <2>1. \A i \in 1..Len(s) : k + i \in 1..Len(r) /\ r[k + i] = s[i]
        BY <1>2, <1>3
    <2>2. QED BY <1>3, <2>1
<1>7. \A x \in new : x \in Ids /\ x \notin Known(l)
    BY DEF NewLast
<1>8. \A x \in nxt : x \notin Known(l)
    BY DEF NewLast
<1>9. id \notin Known(l) /\ id \notin new =>
        \A a \in new : Interface!Later(ids, a, id)
    BY <1>1, ReadLater
<1> HIDE DEF id, new, nxt
<1>10. CASE id \in Known(m) \/ Len(r) = MaxEntries
    <2>1. m2 = m
        BY <1>3, <1>10 DEF PushSeed
    <2>2. id \in Known(m) => (id \in Known(l) \/ id \in new)
        BY <1>2, <1>4
    <2>3. ASSUME NEW b \in nxt
          PROVE  \/ \E i \in 1..k : r[i] = b
                 \/ \A i \in 1..k : Interface!Later(ids, r[i], b)
        <3>1. CASE b \in new
            BY <1>2, <3>1
        <3>2. CASE b \notin new
            BY <1>1, <1>2, <1>8, <1>9, <3>2
        <3>3. QED BY <3>1, <3>2
    <2>4. \/ \A b \in nxt : \E i \in 1..k : r[i] = b
          \/ Len(r) = MaxEntries
        BY <1>1, <1>2, <1>8, <1>10, <2>2
    <2> HIDE DEF m2
    <2>5. Seeded(l, s, ids, n + 1, m2, r, k)
        BY <1>1, <1>2, <2>1, <2>3, <2>4 DEF Seeded, nxt
    <2>6. QED BY <2>5 DEF m2, id
<1>11. CASE id \notin Known(m) /\ Len(r) # MaxEntries
    <2> DEFINE r2 == Push(id, r)
               k2 == k + 1
    <2>1. m2 = InsertAtFront(m, id)
        BY <1>2, <1>3, <1>11 DEF PushSeed
    <2>2. /\ Holds(m2, r2) /\ Known(m2) = Known(m) \cup {id}
          /\ SameTimes(m, m2) /\ m2.entries[id].seenAt = now
        BY <1>1, <1>2, <1>11, <2>1, InsertHolds
    <2>3. Len(r2) = Len(r) + 1
        BY <1>2, <1>11, PushLists DEF Holds
    <2>4. \A i \in 1..(Len(r) + 1) : r2[i] = IF i = 1 THEN id ELSE r[i - 1]
        BY DEF Push
    <2> HIDE DEF r2, m2
    <2>5. /\ \A b \in new : \E i \in 1..k : r[i] = b
          /\ id \notin new /\ id \notin Known(l)
        BY <1>2, <1>3, <1>5, <1>6, <1>11
    <2>6. SameTimes(l, m2)
        BY <1>2, <1>6, <2>2 DEF SameTimes
    <2>7. k2 \in Nat /\ Len(r2) = k2 + Len(s) /\ Len(r2) =< MaxEntries
        BY <1>2, <1>3, <1>11, <2>3
    <2>8. \A i \in 1..Len(s) : r2[k2 + i] = s[i]
        <3> TAKE i \in 1..Len(s)
        <3> DEFINE q == k2 + i
        <3>1. q \in 1..(Len(r) + 1) /\ q # 1 /\ q - 1 = k + i
            BY <1>2, <1>3
        <3> HIDE DEF q
        <3>2. r2[q] = r[k + i]
            BY <2>4, <3>1
        <3>3. r2[q] = s[i]
            BY <1>2, <3>2
        <3>4. QED BY <3>3 DEF q
    <2>9. \A i \in 1..k2 : i # 1 => i - 1 \in 1..k /\ r2[i] = r[i - 1]
        BY <1>2, <1>3, <2>4
    <2>10. 1 \in 1..k2 /\ r2[1] = id
        BY <1>2, <1>3, <2>4
    <2>11. \A i \in 1..k2 : r2[i] \in nxt /\ m2.entries[r2[i]].seenAt = now
        <3> TAKE i \in 1..k2
        <3>1. CASE i = 1
            BY <1>1, <2>2, <2>5, <2>10, <3>1
        <3>2. CASE i # 1
            <4>1. i - 1 \in 1..k /\ r2[i] = r[i - 1]
                BY <2>9, <3>2
            <4>2. r[i - 1] \in Known(m) /\ r[i - 1] \in Known(m2)
                BY <1>5, <2>2, <4>1
            <4>3. m2.entries[r[i - 1]].seenAt = m.entries[r[i - 1]].seenAt
                BY <2>2, <4>2 DEF SameTimes
            <4>4. QED BY <1>1, <1>2, <4>1, <4>3
        <3>3. QED BY <3>1, <3>2
    <2>12. \A i, j \in 1..k2 : i < j => Interface!Later(ids, r2[j], r2[i])
        <3> SUFFICES ASSUME NEW i \in 1..k2, NEW j \in 1..k2, i < j
                     PROVE  Interface!Later(ids, r2[j], r2[i])
            OBVIOUS
        <3>1. j # 1 /\ j - 1 \in 1..k /\ r2[j] = r[j - 1]
            BY <1>2, <2>9
        <3>2. CASE i = 1
            BY <1>2, <1>9, <2>5, <2>10, <3>1, <3>2
        <3>3. CASE i # 1
            <4>1. i - 1 \in 1..k /\ r2[i] = r[i - 1] /\ i - 1 < j - 1
                BY <1>2, <2>9, <3>3
            <4>2. QED BY <1>2, <3>1, <4>1
        <3>4. QED BY <3>2, <3>3
    <2>13. ASSUME NEW b \in nxt PROVE \E i \in 1..k2 : r2[i] = b
        <3>1. CASE b = id
            BY <2>10, <3>1
        <3>2. CASE b # id
            <4>1. PICK i \in 1..k : r[i] = b
                BY <1>1, <2>5, <3>2
            <4>2. i + 1 \in 1..k2 /\ i + 1 # 1 /\ i + 1 - 1 = i
                BY <1>2
            <4>3. r2[i + 1] = b
                BY <2>9, <4>1, <4>2
            <4>4. QED BY <4>2, <4>3
        <3>3. QED BY <3>1, <3>2
    <2> HIDE DEF k2
    <2>14. Seeded(l, s, ids, n + 1, m2, r2, k2)
        BY <2>2, <2>6, <2>7, <2>8, <2>11, <2>12, <2>13 DEF Seeded, nxt
    <2>15. QED BY <2>14 DEF m2, id
<1>12. QED BY <1>10, <1>11

LEMMA PushAllSeeds ==
    ASSUME NEW l, NEW s, Holds(l, s), Len(s) =< MaxEntries, NEW ids \in Seq(Ids), now \in Nat
    PROVE  \E r, k : Seeded(l, s, ids, Len(ids), PushAll(l, ids), r, k)
<1> DEFINE N == Len(ids)
<1>1. N \in Nat /\ Len(s) \in Nat
    BY LenProperties, HoldsTypes
<1>2. PICK after : /\ after[0] = l
                   /\ \A n \in 1..N : after[n] = PushSeed(after[n - 1], ids[N + 1 - n])
                   /\ PushAll(l, ids) = after[N]
    BY <1>1, PushRounds
<1> DEFINE T == {n \in 0..N : \E r, k : Seeded(l, s, ids, n, after[n], r, k)}
<1>3. 0 \in T
    <2>1. NewLast(l, ids, 0) = {}
        BY <1>1 DEF NewLast
    <2>2. SameTimes(l, l)
        BY DEF SameTimes
    <2>3. \A i \in 1..Len(s) : s[0 + i] = s[i]
        BY <1>1
    <2>4. Len(s) = 0 + Len(s)
        BY <1>1
    <2>5. 1..0 = {} /\ 0 \in Nat
        OBVIOUS
    <2>6. Seeded(l, s, ids, 0, l, s, 0)
        BY <2>1, <2>2, <2>3, <2>4, <2>5, Zenon DEF Seeded
    <2>7. QED BY <1>1, <1>2, <2>6
<1>4. ASSUME NEW n \in 0..N, n # N, n \in T PROVE n + 1 \in T
    <2>1. PICK r, k : Seeded(l, s, ids, n, after[n], r, k)
        BY <1>4
    <2>2. n \in Nat /\ n < N /\ n + 1 \in 1..N /\ n + 1 - 1 = n /\ N + 1 - (n + 1) = N - n
        BY <1>1, <1>4
    <2>3. after[n + 1] = PushSeed(after[n], ids[N - n])
        BY <1>2, <2>2
    <2>4. \E r2, k2 : Seeded(l, s, ids, n + 1, after[n + 1], r2, k2)
        BY <2>1, <2>2, <2>3, SeedStep
    <2>5. n + 1 \in 0..N
        BY <2>2
    <2>6. QED BY <2>4, <2>5
<1>5. N \in T
    <2> HIDE DEF T, N
    <2>1. N \in Nat
        BY <1>1
    <2>2. \A n \in 0..N : n # N /\ n \in T => n + 1 \in T
        BY <1>4
    <2>3. \A n \in 0..N : n \in T
        BY <1>3, <2>1, <2>2, UpTo
    <2>4. QED BY <2>1, <2>3
<1>6. QED BY <1>2, <1>5

-----------------------------------------------------------------------------
\* The inductive invariant: the types and the links.
Inv == TypeOK /\ WellLinked

LEMMA InvHolds ==
    ASSUME Inv
    PROVE  \E s : Holds(list, s) /\ Len(s) =< MaxEntries /\ now \in Nat /\ answer \in BOOLEAN
<1>1. PICK s \in SetToSeqs(Known(list)) : Threads(list, s)
    BY DEF Inv, WellLinked
<1>2. IsFiniteSet(Known(list)) /\ Cardinality(Known(list)) =< MaxEntries
    BY DEF Inv, TypeOK, Known
<1>3. Lists(s, Known(list)) /\ Len(s) = Cardinality(Known(list))
    BY <1>2, SetToSeqsLists
<1>4. Holds(list, s)
    BY <1>1, <1>3 DEF Inv, TypeOK, Holds, Known
<1>5. QED BY <1>2, <1>3, <1>4 DEF Inv, TypeOK

LEMMA HoldsInvNext ==
    ASSUME NEW s, Holds(list', s), Len(s) =< MaxEntries, now' \in Nat, answer' \in BOOLEAN
    PROVE  Inv'
<1>1. /\ IsFiniteSet(Known(list')) /\ Cardinality(Known(list')) = Len(s)
      /\ s \in SetToSeqs(Known(list'))
    BY ListsCount DEF Holds
<1>2. WellLinked'
    BY <1>1 DEF WellLinked, Holds
<1>3. list'.head \in Link /\ list'.tail \in Link
    BY HoldsTypes DEF Holds, Threads, Link
<1>4. TypeOK'
    BY <1>1, <1>3 DEF TypeOK, Holds, Known
<1>5. QED BY <1>2, <1>4 DEF Inv

LEMMA EmptyHolds == Holds(Empty, <<>>)
<1> DEFINE E == [id \in {} |-> [seenAt |-> 0, prev |-> Nil, next |-> Nil]]
<1>1. Empty = [entries |-> E, head |-> Nil, tail |-> Nil]
    BY DEF Empty
<1>2. DOMAIN E = {} /\ E \in [{} -> Entry]
    OBVIOUS
<1> HIDE DEF E
<1>3. Empty.entries = E /\ Empty.head = Nil /\ Empty.tail = Nil
    BY <1>1
<1>4. Known(Empty) = {}
    BY <1>2, <1>3 DEF Known
<1>5. Len(<<>>) = 0 /\ <<>> \in Seq({})
    BY EmptySeq
<1>6. Lists(<<>>, {})
    BY <1>5 DEF Lists, Distinct
<1>7. Threads(Empty, <<>>)
    BY <1>3, <1>5 DEF Threads
<1>8. QED BY <1>1, <1>2, <1>3, <1>4, <1>6, <1>7 DEF Holds

\* After each operation the list has an order again, and no more than it may.
LEMMA KeptBound ==
    ASSUME NEW l, NEW s, Holds(l, s), Len(s) =< MaxEntries,
           NEW ids, ids \subseteq Known(l), NEW m, Kept(l, s, ids, m)
    PROVE  \E t : Holds(m, t) /\ Len(t) =< MaxEntries
<1>1. PICK t : Holds(m, t)
    BY DEF Kept
<1>2. Known(m) \subseteq Known(l)
    BY DEF Kept
<1>3. /\ IsFiniteSet(Known(l)) /\ Cardinality(Known(l)) = Len(s)
      /\ Cardinality(Known(m)) = Len(t) /\ Len(s) \in Nat /\ Len(t) \in Nat
    BY <1>1, HoldsTypes
<1>4. Cardinality(Known(m)) =< Cardinality(Known(l))
    BY <1>2, <1>3, FS_Subset
<1>5. QED BY <1>1, <1>3, <1>4

LEMMA UsedBound ==
    ASSUME NEW l, NEW s, Holds(l, s), Len(s) =< MaxEntries,
           NEW id, NEW m, Used(l, s, id, m)
    PROVE  \E t : Holds(m, t) /\ Len(t) =< MaxEntries
<1> DEFINE n == Len(s)
           others == IF id \in Known(l) \/ n < MaxEntries
                     THEN Known(l) \ {id} ELSE Known(l) \ {s[n]}
<1>1. PICK u : Lists(u, others) /\ Holds(m, Push(id, u)) /\ Known(m) = others \cup {id}
    BY DEF Used
<1>2. /\ n \in Nat /\ IsFiniteSet(Known(l)) /\ Cardinality(Known(l)) = n
      /\ \A i \in 1..n : s[i] \in Known(l)
    BY HoldsTypes
<1>3. Cardinality(Known(m)) = Len(Push(id, u))
    BY <1>1, HoldsTypes
<1>4. \E x : \/ x \in Known(l) /\ others = Known(l) \ {x}
             \/ others = Known(l) /\ n < MaxEntries
    <2>1. CASE id \in Known(l)
        <3>1. others = Known(l) \ {id}
            BY <2>1
        <3> HIDE DEF others
        <3>2. QED BY <2>1, <3>1
    <2>2. CASE id \notin Known(l) /\ n < MaxEntries
        BY <2>2
    <2>3. CASE id \notin Known(l) /\ n = MaxEntries
        <3>1. others = Known(l) \ {s[n]} /\ s[n] \in Known(l)
            BY <1>2, <2>3
        <3> HIDE DEF others
        <3>2. QED BY <3>1
    <2>4. QED BY <1>2, <2>1, <2>2, <2>3
<1> HIDE DEF others
<1>5. IsFiniteSet(others) /\ Cardinality(others) < MaxEntries
    <2>1. PICK x : \/ x \in Known(l) /\ others = Known(l) \ {x}
                   \/ others = Known(l) /\ n < MaxEntries
        BY <1>4
    <2>2. CASE x \in Known(l) /\ others = Known(l) \ {x}
        <3>1. IsFiniteSet(others) /\ Cardinality(others) = Cardinality(Known(l)) - 1
            BY <1>2, <2>2, FS_RemoveElement
        <3>2. QED BY <1>2, <3>1
    <2>3. QED BY <1>2, <2>1, <2>2
<1>6. Cardinality(others) \in Nat
    BY <1>5, FS_CardinalityType
<1>7. Cardinality(others \cup {id}) = IF id \in others THEN Cardinality(others)
                                      ELSE Cardinality(others) + 1
    BY <1>5, FS_AddElement
<1>8. Cardinality(Known(m)) =< MaxEntries
    BY <1>1, <1>5, <1>6, <1>7
<1>9. QED BY <1>1, <1>3, <1>8

\* What each action does, said of the order of the ids.
LEMMA Effects ==
    ASSUME NEW s, Holds(list, s), Len(s) =< MaxEntries, now \in Nat
    PROVE  /\ \A id \in Ids : Add(id) \/ Has(id) => Used(list, s, id, list')
           /\ \A id \in Ids : Peek(id) =>
                Kept(list, s, IF id \in Known(list) /\ Expired(list, id)
                              THEN Known(list) \ {id} ELSE Known(list), list')
           /\ \A id \in Ids : Delete(id) => Kept(list, s, Known(list) \ {id}, list')
           /\ \A ids \in SeedLists : Seed(ids) =>
                \E r, k : Seeded(list, s, ids, Len(ids), list', r, k)
           /\ Expire =>
                Kept(list, s, {id \in Known(list) : ~Expired(list, id)}, list')
           /\ Clear => Kept(list, s, {}, list')
<1>1. Kept(list, s, Known(list), list)
    BY InOrderItself DEF Kept, SameTimes
<1>2. ASSUME NEW id \in Ids, Add(id) \/ Has(id) PROVE Used(list, s, id, list')
    <2>1. CASE list' = Added(list, id)
        BY <2>1, AddUses
    <2>2. CASE id \in Known(list) /\ list' = Added(Drop(list, id), id)
        BY <2>2, ReplaceUses
    <2>3. CASE id \in Known(list) /\ list' = Touch(list, id)
        BY <2>3, TouchUses
    <2>4. QED BY <1>2, <2>1, <2>2, <2>3 DEF Add, Has
<1>3. ASSUME NEW id \in Ids, Peek(id)
      PROVE  Kept(list, s, IF id \in Known(list) /\ Expired(list, id)
                           THEN Known(list) \ {id} ELSE Known(list), list')
    <2>1. CASE id \in Known(list) /\ Expired(list, id)
        BY <1>3, <2>1, DropKeeps DEF Peek
    <2>2. CASE ~(id \in Known(list) /\ Expired(list, id))
        <3>1. list' = list
            BY <1>3, <2>2 DEF Peek
        <3>2. QED BY <1>1, <2>2, <3>1
    <2>3. QED BY <2>1, <2>2
<1>4. ASSUME NEW id \in Ids, Delete(id) PROVE Kept(list, s, Known(list) \ {id}, list')
    <2>1. CASE id \in Known(list)
        BY <1>4, <2>1, DropKeeps DEF Delete
    <2>2. CASE id \notin Known(list)
        <3>1. list' = list /\ Known(list) \ {id} = Known(list)
            BY <1>4, <2>2 DEF Delete
        <3>2. QED BY <1>1, <3>1
    <2>3. QED BY <2>1, <2>2
<1>5. ASSUME NEW ids \in SeedLists, Seed(ids)
      PROVE  \E r, k : Seeded(list, s, ids, Len(ids), list', r, k)
    <2>1. ids \in Seq(Ids) /\ list' = PushAll(list, ids)
        BY <1>5 DEF Seed
    <2>2. QED BY <2>1, PushAllSeeds
<1>6. ASSUME Expire
      PROVE  Kept(list, s, {id \in Known(list) : ~Expired(list, id)}, list')
    <2> DEFINE gone == {id \in Known(list) : Expired(list, id)}
    <2>1. PICK toDelete \in SetToSeqs(gone) : list' = DropAll(list, toDelete)
        BY <1>6 DEF Expire
    <2>2. gone \subseteq Known(list) /\ IsFiniteSet(Known(list))
        BY HoldsTypes
    <2>3. Known(list) \ gone = {id \in Known(list) : ~Expired(list, id)}
        OBVIOUS
    <2> HIDE DEF gone
    <2>4. IsFiniteSet(gone)
        BY <2>2, FS_Subset
    <2>5. Lists(toDelete, gone)
        BY <2>4, SetToSeqsLists
    <2>6. Kept(list, s, Known(list) \ gone, list')
        BY <2>1, <2>2, <2>5, DropAllKeeps
    <2>7. QED BY <2>3, <2>6
<1>7. ASSUME Clear PROVE Kept(list, s, {}, list')
    <2>1. list' = Empty
        BY <1>7 DEF Clear
    <2>2. Known(Empty) = {}
        BY DEF Known, Empty
    <2>3. Interface!InOrder(<<>>, s)
        BY DEF Interface!InOrder
    <2>4. QED BY <2>1, <2>2, <2>3, EmptyHolds DEF Kept, SameTimes
<1>8. QED BY <1>2, <1>3, <1>4, <1>5, <1>6, <1>7

LEMMA InvInit == Init => Inv
<1> SUFFICES ASSUME Init PROVE Inv
    OBVIOUS
<1>1. Holds(list, <<>>) /\ now \in Nat /\ answer \in BOOLEAN
    BY EmptyHolds DEF Init
<1>2. /\ IsFiniteSet(Known(list)) /\ Cardinality(Known(list)) = Len(<<>>)
      /\ <<>> \in SetToSeqs(Known(list))
    BY <1>1, ListsCount DEF Holds
<1>3. WellLinked
    BY <1>1, <1>2 DEF WellLinked, Holds
<1>4. list.head \in Link /\ list.tail \in Link
    BY <1>1, HoldsTypes DEF Holds, Threads, Link
<1>5. Len(<<>>) =< MaxEntries
    OBVIOUS
<1>6. TypeOK
    BY <1>1, <1>2, <1>4, <1>5 DEF TypeOK, Holds, Known
<1>7. QED BY <1>3, <1>6 DEF Inv

LEMMA InvStep == Inv /\ [Next]_vars => Inv'
<1> SUFFICES ASSUME Inv, [Next]_vars PROVE Inv'
    OBVIOUS
<1>1. PICK s : Holds(list, s) /\ Len(s) =< MaxEntries /\ now \in Nat /\ answer \in BOOLEAN
    BY InvHolds
<1>2. SUFFICES (\E t : Holds(list', t) /\ Len(t) =< MaxEntries)
               /\ now' \in Nat /\ answer' \in BOOLEAN
    BY HoldsInvNext
<1>3. CASE \E id \in Ids : Add(id) \/ Has(id)
    <2>1. PICK id \in Ids : Add(id) \/ Has(id)
        BY <1>3
    <2>2. Used(list, s, id, list')
        BY <1>1, <2>1, Effects
    <2>3. QED BY <1>1, <2>1, <2>2, UsedBound DEF Add, Has
<1>4. CASE \E id \in Ids : Peek(id) \/ Delete(id)
    <2>1. PICK id \in Ids : Peek(id) \/ Delete(id)
        BY <1>4
    <2>2. now' \in Nat /\ answer' \in BOOLEAN
        BY <1>1, <2>1 DEF Peek, Delete
    <2>3. \E ids : ids \subseteq Known(list) /\ Kept(list, s, ids, list')
        BY <1>1, <2>1, Effects
    <2>4. QED BY <1>1, <2>2, <2>3, KeptBound
<1>5. CASE \E ids \in SeedLists : Seed(ids)
    <2>1. PICK ids \in SeedLists : Seed(ids)
        BY <1>5
    <2>2. PICK r, k : Seeded(list, s, ids, Len(ids), list', r, k)
        BY <1>1, <2>1, Effects
    <2>3. QED BY <1>1, <2>1, <2>2 DEF Seed, Seeded
<1>6. CASE Expire \/ Clear
    <2>1. now' \in Nat /\ answer' \in BOOLEAN
        BY <1>1, <1>6 DEF Expire, Clear
    <2>2. \E ids : ids \subseteq Known(list) /\ Kept(list, s, ids, list')
        BY <1>1, <1>6, Effects
    <2>3. QED BY <1>1, <2>1, <2>2, KeptBound
<1>7. CASE Tick \/ UNCHANGED vars
    BY <1>1, <1>7 DEF Tick, vars
<1>8. QED BY <1>3, <1>4, <1>5, <1>6, <1>7 DEF Next

\* Holds in every behaviour: the types, and with them the bound on the entries.
THEOREM TrackerTypeOK == Spec => []TypeOK
<1>1. Inv => TypeOK
    BY DEF Inv
<1>2. QED BY <1>1, InvInit, InvStep, PTL DEF Spec

\* Holds in every behaviour: the links are one list of all the entries, both ways,
\* whatever the calls, so that an eviction finds its entry.
THEOREM AlwaysWellLinked == Spec => []WellLinked
<1>1. Inv => WellLinked
    BY DEF Inv
<1>2. QED BY <1>1, InvInit, InvStep, PTL DEF Spec

-----------------------------------------------------------------------------
\* The refinement: what the actions do to the order is what RecencyList says.

\* The operators that RecencyList takes from the library are those of this module.
LEMMA SameCardinality ==
    ASSUME NEW S
    PROVE  Interface!Cardinality(S) = Cardinality(S)
BY DEF Interface!Cardinality, Cardinality

LEMMA SameToSet ==
    ASSUME NEW s
    PROVE  Interface!ToSet(s) = ToSet(s)
BY DEF Interface!ToSet, ToSet

LEMMA SameSetToSeqs ==
    ASSUME NEW S
    PROVE  Interface!SetToSeqs(S) = SetToSeqs(S)
BY SameCardinality DEF Interface!SetToSeqs, SetToSeqs

\* What Interface!Remember(t) says of the lists before and after.
Remembered(l, t, m) ==
    /\ RecencyOf(m) = t
    /\ [id \in Known(m) |-> m.entries[id].seenAt] =
         [id \in ToSet(t) |-> IF id \in ToSet(RecencyOf(l))
                              THEN [x \in Known(l) |-> l.entries[x].seenAt][id]
                              ELSE now]

LEMMA KeptIsKeep ==
    ASSUME NEW s, Holds(list, s), NEW ids, ids \subseteq Known(list), Kept(list, s, ids, list')
    PROVE  \E t \in Interface!SetToSeqs(ids) :
             Interface!InOrder(t, RecencyOf(list)) /\ Remembered(list, t, list')
<1>1. PICK t : Holds(list', t) /\ Interface!InOrder(t, s)
    BY DEF Kept
<1>2. RecencyOf(list) = s /\ RecencyOf(list') = t
    BY <1>1, RecencyIs
<1>3. /\ t \in SetToSeqs(ids) /\ ToSet(t) = ids /\ ToSet(s) = Known(list)
      /\ Known(list') = ids /\ SameTimes(list, list')
    BY <1>1, ListsCount DEF Holds, Kept
<1>4. [id \in Known(list') |-> list'.entries[id].seenAt] =
        [id \in ToSet(t) |-> IF id \in ToSet(s)
                             THEN [x \in Known(list) |-> list.entries[x].seenAt][id]
                             ELSE now]
    BY <1>3 DEF SameTimes
<1>5. Remembered(list, t, list')
    BY <1>2, <1>4 DEF Remembered
<1>6. QED BY <1>1, <1>2, <1>3, <1>5, SameSetToSeqs

LEMMA PushIsConcat ==
    ASSUME NEW S, NEW u \in Seq(S), NEW id
    PROVE  Push(id, u) = <<id>> \o u
<1> DEFINE T == S \cup {id}
           p == Push(id, u)
           c == <<id>> \o u
<1>1. u \in Seq(T) /\ <<id>> \in Seq(T) /\ Len(<<id>>) = 1 /\ <<id>>[1] = id
    BY SeqMonotonic
<1>2. Len(u) \in Nat /\ \A i \in 1..Len(u) : u[i] \in T
    BY <1>1, LenProperties, ElementOfSeq
<1>3. p \in [1..(Len(u) + 1) -> T]
    BY <1>1, <1>2 DEF Push
<1>4. p \in Seq(T) /\ Len(p) = Len(u) + 1
    <2> HIDE DEF p, T
    <2>1. QED BY <1>2, <1>3, SeqOfFunction
<1>5. /\ c \in Seq(T) /\ Len(c) = 1 + Len(u)
      /\ \A i \in 1..(1 + Len(u)) : c[i] = IF i =< 1 THEN <<id>>[i] ELSE u[i - 1]
    <2> HIDE DEF T
    <2>1. QED BY <1>1, ConcatProperties
<1>6. \A i \in 1..Len(p) : p[i] = c[i]
    <2>1. \A i \in 1..(Len(u) + 1) : p[i] = IF i = 1 THEN id ELSE u[i - 1]
        BY DEF Push
    <2> HIDE DEF p, c
    <2>2. QED BY <1>1, <1>2, <1>4, <1>5, <2>1
<1> HIDE DEF p, c, T
<1>7. p = c
    BY <1>2, <1>4, <1>5, <1>6, SeqEqual
<1>8. QED BY <1>7 DEF p, c

LEMMA UsedIsUse ==
    ASSUME NEW s, Holds(list, s), NEW id, Used(list, s, id, list')
    PROVE  Interface!Use(id)
<1> DEFINE others == IF id \in Known(list) \/ Len(s) < MaxEntries
                     THEN Known(list) \ {id} ELSE Known(list) \ {s[Len(s)]}
<1>1. PICK u : /\ Lists(u, others) /\ Interface!InOrder(u, s)
               /\ Holds(list', Push(id, u)) /\ Known(list') = others \cup {id}
               /\ \A x \in Known(list') :
                    list'.entries[x].seenAt = IF x = id THEN now ELSE list.entries[x].seenAt
    BY DEF Used
<1>2. RecencyOf(list) = s /\ RecencyOf(list') = Push(id, u)
    BY <1>1, RecencyIs
<1>3. ToSet(s) = Known(list)
    BY ListsCount DEF Holds
<1>4. Push(id, u) = <<id>> \o u
    <2> HIDE DEF others
    <2>1. u \in Seq(others)
        BY <1>1 DEF Lists
    <2>2. QED BY <2>1, PushIsConcat
<1>5. u \in SetToSeqs(others)
    <2> HIDE DEF others
    <2>1. QED BY <1>1, ListsCount
<1>6. others \subseteq Known(list)
    OBVIOUS
<1>7. others = IF id \in ToSet(s) \/ Len(s) < MaxEntries
               THEN ToSet(s) \ {id} ELSE ToSet(s) \ {s[Len(s)]}
    BY <1>3
<1> HIDE DEF others
<1>8. [x \in Known(list') |-> list'.entries[x].seenAt] =
        [i \in others \cup {id} |-> IF i = id THEN now
                                    ELSE [x \in Known(list) |-> list.entries[x].seenAt][i]]
    BY <1>1, <1>6
<1>9. QED BY <1>1, <1>2, <1>4, <1>5, <1>7, <1>8, SameToSet, SameSetToSeqs DEF Interface!Use

LEMMA FreshIs ==
    ASSUME NEW s, Holds(list, s), now \in Nat, NEW id
    PROVE  Interface!Fresh(id) <=> id \in Known(list) /\ ~Expired(list, id)
<1>1. RecencyOf(list) = s /\ ToSet(s) = Known(list)
    BY RecencyIs, ListsCount DEF Holds
<1>2. ASSUME id \in Known(list) PROVE list.entries[id].seenAt \in Nat
    BY <1>2, HoldsTypes DEF Entry
<1>3. QED BY <1>1, <1>2, SameToSet DEF Interface!Fresh, Expired

LEMMA SeededIsSeed ==
    ASSUME NEW s, Holds(list, s), NEW ids \in Seq(Ids), UNCHANGED <<now, answer>>,
           NEW r, NEW k, Seeded(list, s, ids, Len(ids), list', r, k)
    PROVE  Interface!Seed(ids)
<1> DEFINE N == Len(ids)
           n == Len(s)
           new == NewLast(list, ids, N)
           taken == {r[i] : i \in 1..k}
           t == [i \in 1..k |-> r[i]]
           K == Known(list')
<1>1. /\ Holds(list', r) /\ SameTimes(list, list')
      /\ k \in Nat /\ Len(r) = k + n /\ Len(r) =< MaxEntries
      /\ \A i \in 1..n : r[k + i] = s[i]
      /\ \A i \in 1..k : r[i] \in new /\ list'.entries[r[i]].seenAt = now
      /\ \A i, j \in 1..k : i < j => Interface!Later(ids, r[j], r[i])
      /\ \A b \in new : \/ \E i \in 1..k : r[i] = b
                        \/ \A i \in 1..k : Interface!Later(ids, r[i], b)
      /\ \/ \A b \in new : \E i \in 1..k : r[i] = b
         \/ Len(r) = MaxEntries
    BY DEF Seeded
<1>2. /\ n \in Nat /\ Len(r) \in Nat /\ r \in Seq(K) /\ ToSet(r) = K
      /\ ToSet(s) = Known(list) /\ \A i \in 1..n : s[i] \in Known(list)
      /\ \A i, j \in 1..Len(r) : r[i] = r[j] => i = j
    BY <1>1, HoldsTypes, ListsCount DEF Holds, Lists, Distinct
<1>3. RecencyOf(list) = s /\ RecencyOf(list') = r
    BY <1>1, RecencyIs
<1>4. new = ToSet(ids) \ ToSet(s)
    <2>1. N \in Nat /\ DOMAIN ids = 1..N /\ \A i \in 1..N : i > N - N /\ ids[i] \in Ids
        BY LenProperties, ElementOfSeq
    <2>2. new = {x \in Ids \ Known(list) : \E i \in 1..N : ids[i] = x}
        BY <2>1 DEF NewLast
    <2> HIDE DEF new, N
    <2>3. ToSet(ids) = {ids[i] : i \in 1..N}
        BY <2>1 DEF ToSet
    <2>4. QED BY <1>2, <2>1, <2>2, <2>3
<1>5. taken \in SUBSET new
    BY <1>1
<1>6. /\ \A i \in 1..k : r[i] \in K
      /\ \A i \in 1..n : k + i \in 1..Len(r) /\ r[k + i] \in K
    BY <1>1, <1>2, ElementOfSeq
<1>7. /\ \A i \in 1..k : i \in 1..Len(r)
      /\ \A i \in 1..Len(r) : i > k => i - k \in 1..n /\ k + (i - k) = i
    BY <1>1, <1>2
<1>8. t \in Seq(taken) /\ Len(t) = k /\ \A i \in 1..k : t[i] = r[i]
    <2>1. t \in [1..k -> taken]
        OBVIOUS
    <2> HIDE DEF taken
    <2>2. QED BY <1>1, <2>1, SeqOfFunction
<1>9. Lists(t, taken)
    BY <1>2, <1>7, <1>8 DEF Lists, Distinct
<1>10. DOMAIN t = 1..k
    OBVIOUS
<1> HIDE DEF t, taken, new, N, n, K
<1>11. t \in SetToSeqs(taken)
    BY <1>9, ListsCount
<1>12. r = t \o s
    <2>1. taken \subseteq K /\ t \in Seq(K) /\ s \in Seq(K)
        <3>1. taken \subseteq K
            BY <1>6 DEF taken
        <3>2. \A i \in 1..n : s[i] \in K
            BY <1>1, <1>6
        <3>3. s \in [1..n -> K]
            BY <1>2, <3>2, HoldsTypes DEF n
        <3>4. s \in Seq(K)
            BY <1>2, <3>3, SeqOfFunction
        <3>5. QED BY <1>8, <3>1, <3>4, SeqMonotonic
    <2>2. /\ t \o s \in Seq(K) /\ Len(t \o s) = k + n
          /\ \A i \in 1..(k + n) : (t \o s)[i] = IF i =< k THEN t[i] ELSE s[i - k]
        BY <1>8, <2>1, ConcatProperties DEF n
    <2>3. \A i \in 1..Len(r) : r[i] = (t \o s)[i]
        <3> TAKE i \in 1..Len(r)
        <3>1. i \in 1..(k + n) /\ i \in Nat /\ k \in Nat
            BY <1>1, <1>2
        <3>2. CASE i =< k
            BY <1>8, <2>2, <3>1, <3>2
        <3>3. CASE ~(i =< k)
            <4> DEFINE q == i - k
            <4>1. q \in 1..n /\ k + q = i
                BY <1>7, <3>1, <3>3
            <4>2. (t \o s)[i] = s[q]
                BY <2>2, <3>1, <3>3
            <4> HIDE DEF q
            <4>3. r[k + q] = s[q]
                BY <1>1, <4>1
            <4>4. QED BY <4>1, <4>2, <4>3
        <3>4. QED BY <3>2, <3>3
    <2>4. QED BY <1>1, <1>2, <2>2, <2>3, SeqEqual
<1>13. \A i, j \in DOMAIN t : i < j => Interface!Later(ids, t[j], t[i])
    BY <1>1, <1>8, <1>10
<1>14. \A a \in taken, b \in new \ taken : Interface!Later(ids, a, b)
    BY <1>1 DEF taken
<1>15. taken = new \/ n + k = MaxEntries
    BY <1>1, <1>2, <1>5 DEF taken
<1>16. [id \in Known(list') |-> list'.entries[id].seenAt] =
         [id \in ToSet(r) |-> IF id \in ToSet(s)
                              THEN [x \in Known(list) |-> list.entries[x].seenAt][id]
                              ELSE now]
    <2>1. ASSUME NEW id \in K
          PROVE  list'.entries[id].seenAt =
                   IF id \in Known(list) THEN list.entries[id].seenAt ELSE now
        <3>1. CASE id \in Known(list)
            BY <1>1, <2>1, <3>1 DEF SameTimes, K
        <3>2. CASE id \notin Known(list)
            <4>1. PICK i \in 1..Len(r) : r[i] = id
                BY <1>2, LenProperties DEF ToSet
            <4>2. i \in 1..k
                <5>1. SUFFICES ASSUME i > k PROVE FALSE
                    BY <1>1, <1>2
                <5>2. i - k \in 1..n /\ r[i] = s[i - k]
                    BY <1>1, <1>7, <5>1
                <5>3. QED BY <1>2, <3>2, <4>1, <5>2
            <4>3. QED BY <1>1, <3>2, <4>1, <4>2
        <3>3. QED BY <3>1, <3>2
    <2>2. QED BY <1>2, <2>1 DEF K
<1>17. Remembered(list, t \o s, list')
    BY <1>3, <1>12, <1>16 DEF Remembered
<1>18. Len(s) + Len(t) =< MaxEntries /\ (taken = new \/ Len(s) + Len(t) = MaxEntries)
    BY <1>1, <1>2, <1>8, <1>15 DEF n
<1>19. new = Interface!ToSet(ids) \ Interface!ToSet(RecencyOf(list))
    BY <1>3, <1>4, SameToSet
<1>20. t \in Interface!SetToSeqs(taken)
    BY <1>11, SameSetToSeqs
<1>21. /\ Len(RecencyOf(list)) + Len(t) =< MaxEntries
       /\ taken = new \/ Len(RecencyOf(list)) + Len(t) = MaxEntries
    BY <1>3, <1>18
<1>22. Interface!Remember(t \o RecencyOf(list))
    BY <1>3, <1>17, SameToSet DEF Remembered, Interface!Remember
<1>23. QED BY <1>5, <1>13, <1>14, <1>19, <1>20, <1>21, <1>22, Zenon DEF Interface!Seed

LEMMA InterfaceInit == Init => Interface!Init
<1> SUFFICES ASSUME Init PROVE Interface!Init
    OBVIOUS
<1>1. list = Empty
    BY DEF Init
<1>2. RecencyOf(list) = <<>>
    BY <1>1, EmptyHolds, RecencyIs
<1>3. Known(list) = {}
    BY <1>1 DEF Known, Empty
<1>4. [id \in Known(list) |-> list.entries[id].seenAt] = [id \in {} |-> 0]
    BY <1>3
<1>5. QED BY <1>2, <1>4 DEF Init, Interface!Init

LEMMA InterfaceStep == Inv /\ [Next]_vars => [Interface!Next]_Interface!vars
<1> SUFFICES ASSUME Inv, [Next]_vars PROVE [Interface!Next]_Interface!vars
    OBVIOUS
<1>1. PICK s : Holds(list, s) /\ Len(s) =< MaxEntries /\ now \in Nat /\ answer \in BOOLEAN
    BY InvHolds
<1>2. RecencyOf(list) = s /\ ToSet(s) = Known(list) /\ Interface!ToSet(RecencyOf(list)) = Known(list)
    BY <1>1, RecencyIs, ListsCount, SameToSet DEF Holds
<1>3. \A id : Interface!Fresh(id) <=> id \in Known(list) /\ ~Expired(list, id)
    BY <1>1, FreshIs
<1>4. CASE \E id \in Ids : Add(id)
    <2>1. PICK id \in Ids : Add(id)
        BY <1>4
    <2>2. Interface!Use(id)
        BY <1>1, <2>1, Effects, UsedIsUse
    <2>3. Interface!Add(id)
        BY <2>1, <2>2 DEF Add, Interface!Add
    <2>4. QED BY <2>1, <2>3 DEF Interface!Next
<1>5. CASE \E id \in Ids : Has(id)
    <2>1. PICK id \in Ids : Has(id)
        BY <1>5
    <2>2. Interface!Use(id)
        BY <1>1, <2>1, Effects, UsedIsUse
    <2>3. answer' = Interface!Fresh(id)
        BY <1>3, <2>1 DEF Has
    <2>4. Interface!Has(id)
        BY <2>1, <2>2, <2>3 DEF Has, Interface!Has
    <2>5. QED BY <2>1, <2>4 DEF Interface!Next
<1>6. CASE \E id \in Ids : Peek(id)
    <2>1. PICK id \in Ids : Peek(id)
        BY <1>6
    <2> DEFINE ids == IF id \in Known(list) /\ Expired(list, id)
                      THEN Known(list) \ {id} ELSE Known(list)
    <2>2. PICK t \in Interface!SetToSeqs(ids) :
            Interface!InOrder(t, RecencyOf(list)) /\ Remembered(list, t, list')
        <3>1. ids \subseteq Known(list) /\ Kept(list, s, ids, list')
            BY <1>1, <2>1, Effects
        <3> HIDE DEF ids
        <3>2. QED BY <1>1, <3>1, KeptIsKeep
    <2>3. ids = IF Interface!Fresh(id) THEN Interface!ToSet(RecencyOf(list))
                ELSE Interface!ToSet(RecencyOf(list)) \ {id}
        BY <1>2, <1>3
    <2>4. answer' = Interface!Fresh(id)
        BY <1>3, <2>1 DEF Peek
    <2>5. UNCHANGED now
        BY <2>1 DEF Peek
    <2>6. Interface!Remember(t)
        BY <2>2, SameToSet DEF Remembered, Interface!Remember
    <2> HIDE DEF ids
    <2>7. Interface!Peek(id)
        BY <2>2, <2>3, <2>4, <2>5, <2>6 DEF Interface!Peek, Interface!Keep
    <2>8. QED BY <2>1, <2>7 DEF Interface!Next
<1>7. CASE \E id \in Ids : Delete(id)
    <2>1. PICK id \in Ids : Delete(id)
        BY <1>7
    <2> DEFINE ids == Known(list) \ {id}
    <2>2. PICK t \in Interface!SetToSeqs(ids) :
            Interface!InOrder(t, RecencyOf(list)) /\ Remembered(list, t, list')
        <3>1. ids \subseteq Known(list) /\ Kept(list, s, ids, list')
            BY <1>1, <2>1, Effects
        <3> HIDE DEF ids
        <3>2. QED BY <1>1, <3>1, KeptIsKeep
    <2>3. ids = Interface!ToSet(RecencyOf(list)) \ {id}
        BY <1>2
    <2>4. Interface!Remember(t)
        BY <2>2, SameToSet DEF Remembered, Interface!Remember
    <2> HIDE DEF ids
    <2>5. Interface!Delete(id)
        BY <2>1, <2>2, <2>3, <2>4 DEF Delete, Interface!Delete, Interface!Keep
    <2>6. QED BY <2>1, <2>5 DEF Interface!Next
<1>8. CASE \E ids \in SeedLists : Seed(ids)
    <2>1. PICK ids \in SeedLists : Seed(ids)
        BY <1>8
    <2>2. ids \in Seq(Ids) /\ UNCHANGED <<now, answer>>
        BY <2>1 DEF Seed
    <2>3. PICK r, k : Seeded(list, s, ids, Len(ids), list', r, k)
        BY <1>1, <2>1, Effects
    <2>4. Interface!Seed(ids)
        BY <1>1, <2>2, <2>3, SeededIsSeed
    <2>5. QED BY <2>1, <2>4 DEF Interface!Next
<1>9. CASE Expire
    <2> DEFINE ids == {id \in Known(list) : ~Expired(list, id)}
    <2>1. PICK t \in Interface!SetToSeqs(ids) :
            Interface!InOrder(t, RecencyOf(list)) /\ Remembered(list, t, list')
        <3>1. ids \subseteq Known(list) /\ Kept(list, s, ids, list')
            BY <1>1, <1>9, Effects
        <3> HIDE DEF ids
        <3>2. QED BY <1>1, <3>1, KeptIsKeep
    <2>2. ids = {id \in Interface!ToSet(RecencyOf(list)) : Interface!Fresh(id)}
        BY <1>2, <1>3
    <2>3. Interface!Remember(t)
        BY <2>1, SameToSet DEF Remembered, Interface!Remember
    <2> HIDE DEF ids
    <2>4. Interface!Expire
        BY <1>9, <2>1, <2>2, <2>3 DEF Expire, Interface!Expire, Interface!Keep
    <2>5. QED BY <2>4 DEF Interface!Next
<1>10. CASE Clear
    <2>1. Kept(list, s, {}, list')
        BY <1>1, <1>10, Effects
    <2>2. Known(list') = {} /\ list' = Empty
        BY <1>10, <2>1 DEF Kept, Clear
    <2>3. RecencyOf(list') = <<>>
        BY <2>2, EmptyHolds, RecencyIs
    <2>4. Interface!ToSet(<<>>) = {}
        BY DEF Interface!ToSet
    <2>5. Interface!Remember(<<>>)
        BY <2>2, <2>3, <2>4 DEF Interface!Remember
    <2>6. Interface!Clear
        BY <1>10, <2>5 DEF Clear, Interface!Clear
    <2>7. QED BY <2>6 DEF Interface!Next
<1>11. CASE Tick
    BY <1>11 DEF Tick, Interface!Tick, Interface!Next
<1>12. CASE UNCHANGED vars
    BY <1>12 DEF vars, Interface!vars
<1>13. QED BY <1>4, <1>5, <1>6, <1>7, <1>8, <1>9, <1>10, <1>11, <1>12 DEF Next

\* The tracker implements its interface: whatever the calls, it remembers the ids
\* used last, in the order of their use and for their lifetime, and answers so.
THEOREM TrackerImplementsInterface == Spec => ImplementsInterface
<1>1. Spec => Interface!Init /\ [][Interface!Next]_Interface!vars
    BY InvInit, InvStep, InterfaceInit, InterfaceStep, PTL DEF Spec
<1>2. QED BY <1>1 DEF ImplementsInterface, Interface!Spec
=============================================================================
