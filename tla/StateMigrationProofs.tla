------------------------ MODULE StateMigrationProofs ------------------------
(***************************************************************************)
(* Proofs about StateMigration, for any files, accounts and store size.    *)
(***************************************************************************)
EXTENDS StateMigration, FiniteSetTheorems, TLAPS

\* What a run knows while it imports: the keys that are stored, and that the accounts
\* still to come fit beside them.
KnowledgeInv ==
    stage = "importing" =>
        /\ existingKeys = StoredKeys
        /\ Cardinality(StoredKeys \cup KeysOf(files)) =< MAX_ENTRIES

\* The file to be archived is registered.
CurrentInv ==
    current # None => /\ stage = "importing"
                      /\ AccountOf[current] \in StoredKeys

MigrationInv ==
    /\ TypeOK
    /\ KnowledgeInv
    /\ CurrentInv
    /\ NoStateLost

LEMMA KeysTypes ==
    ASSUME TypeOK
    PROVE  /\ StoredKeys \subseteq Accounts /\ IsFiniteSet(StoredKeys)
           /\ KeysOf(files) \subseteq Accounts /\ IsFiniteSet(KeysOf(files))
           /\ IsFiniteSet(StoredKeys \cup KeysOf(files))
           /\ Cardinality(StoredKeys) \in Nat
           /\ Cardinality(StoredKeys \cup KeysOf(files)) \in Nat
<1>1. StoredKeys \subseteq Accounts
    BY DEF StoredKeys
<1>2. KeysOf(files) \subseteq Accounts
    BY MigrationAssumption DEF KeysOf, TypeOK
<1>3. \A S \in SUBSET Accounts : IsFiniteSet(S)
    BY MigrationAssumption, FS_Subset
<1>4. StoredKeys \cup KeysOf(files) \in SUBSET Accounts
    BY <1>1, <1>2
<1>5. QED BY <1>1, <1>2, <1>3, <1>4, FS_CardinalityType

\* As long as a listed account is missing, the store has room for one more entry.
LEMMA RoomToImport ==
    ASSUME TypeOK, KnowledgeInv, stage = "importing",
           NEW f \in files, AccountOf[f] \notin existingKeys
    PROVE  Cardinality(StoredKeys) < MAX_ENTRIES
<1> DEFINE All == StoredKeys \cup KeysOf(files)
<1>1. IsFiniteSet(All) /\ Cardinality(All) \in Nat /\ Cardinality(StoredKeys) \in Nat
    BY KeysTypes
<1>2. StoredKeys \in SUBSET All /\ StoredKeys # All
    BY DEF KnowledgeInv, KeysOf
<1>3. Cardinality(StoredKeys) =< Cardinality(All) /\ Cardinality(StoredKeys) # Cardinality(All)
    BY <1>1, <1>2, FS_Subset
<1>4. Cardinality(All) =< MAX_ENTRIES
    BY DEF KnowledgeInv
<1> HIDE DEF All
<1>5. QED BY <1>1, <1>3, <1>4, MigrationAssumption

\* An import adds the entry of its file's account, or finds it there; no entry changes.
LEMMA ImportEffect ==
    ASSUME TypeOK, KnowledgeInv, NEW f \in Files, Import(f)
    PROVE  /\ store' = IF AccountOf[f] \in existingKeys THEN store
                       ELSE [store EXCEPT ![AccountOf[f]] = f]
           /\ AccountOf[f] \in Accounts
           /\ StoredKeys' = StoredKeys \cup {AccountOf[f]}
           /\ \A a \in Accounts : store[a] # None => store'[a] = store[a]
<1> DEFINE k == AccountOf[f]
<1>1. k \in Accounts /\ stage = "importing" /\ f \in files /\ f # None
    BY MigrationAssumption DEF Import
<1>2. existingKeys = StoredKeys
    BY <1>1 DEF KnowledgeInv
<1>3. CASE k \in existingKeys
    <2>1. store' = store
        BY <1>3 DEF Import
    <2>2. QED BY <1>1, <1>2, <1>3, <2>1 DEF StoredKeys
<1>4. CASE k \notin existingKeys
    <2>1. Cardinality(StoredKeys) < MAX_ENTRIES
        BY <1>1, <1>4, RoomToImport
    <2>2. store' = [store EXCEPT ![k] = f]
        BY <1>4, <2>1 DEF Import, Registered
    <2>3. store[k] = None
        BY <1>1, <1>2, <1>4 DEF StoredKeys
    <2>4. \A a \in Accounts : store'[a] = IF a = k THEN f ELSE store[a]
        BY <2>2 DEF TypeOK
    <2>5. StoredKeys' = StoredKeys \cup {k}
        BY <1>1, <2>4 DEF StoredKeys
    <2>6. QED BY <1>1, <1>4, <2>2, <2>3, <2>4, <2>5
<1>5. QED BY <1>3, <1>4

\* No step of a migration replaces an entry or pushes one out.
LEMMA EntriesStep ==
    ASSUME TypeOK, KnowledgeInv, [Next]_vars
    PROVE  \A a \in Accounts : store[a] # None => store'[a] = store[a]
<1>1. ASSUME NEW f \in Files, Import(f)
      PROVE  \A a \in Accounts : store[a] # None => store'[a] = store[a]
    BY <1>1, ImportEffect
<1>2. CASE \/ List \/ ListMisses \/ CheckCapacity \/ Crash \/ UNCHANGED vars
           \/ \E f \in Files : Archive(f) \/ ArchiveFails(f) \/ RegisterFails(f)
    BY <1>2 DEF List, ListMisses, CheckCapacity, Crash, vars, Archive, ArchiveFails, RegisterFails
<1>3. QED BY <1>1, <1>2 DEF Next

-----------------------------------------------------------------------------
LEMMA MigrationInit == Init => MigrationInv
BY DEF Init, MigrationInv, TypeOK, KnowledgeInv, CurrentInv, NoStateLost

LEMMA TypeStep ==
    ASSUME TypeOK, KnowledgeInv, [Next]_vars
    PROVE  TypeOK'
<1>1. ASSUME NEW f \in Files, Import(f)
      PROVE  TypeOK'
    <2>1. store' \in [Accounts -> Files \cup {Native, None}]
        BY <1>1, ImportEffect DEF TypeOK
    <2>2. existingKeys' \subseteq Accounts /\ current' \in Files
        BY <1>1, ImportEffect DEF TypeOK, Import
    <2>3. QED BY <1>1, <2>1, <2>2 DEF TypeOK, Import
<1>2. CASE List \/ ListMisses \/ CheckCapacity \/ Crash \/ UNCHANGED vars
    BY <1>2, MigrationAssumption
       DEF TypeOK, List, ListMisses, CheckCapacity, Crash, vars, StoredKeys
<1>3. ASSUME NEW f \in Files, Archive(f) \/ ArchiveFails(f) \/ RegisterFails(f)
      PROVE  TypeOK'
    BY <1>3 DEF TypeOK, Archive, ArchiveFails, RegisterFails, Done
<1>4. QED BY <1>1, <1>2, <1>3 DEF Next

\* Dropping files from the list keeps what the run knows.
LEMMA FewerFiles ==
    ASSUME TypeOK, TypeOK', KnowledgeInv, stage = "importing",
           files' \subseteq files, UNCHANGED <<store, existingKeys>>
    PROVE  KnowledgeInv'
<1> DEFINE All == StoredKeys \cup KeysOf(files)
           Less == StoredKeys' \cup KeysOf(files')
<1>1. StoredKeys' = StoredKeys
    BY DEF StoredKeys
<1>2. IsFiniteSet(All) /\ Cardinality(All) \in Nat
    BY KeysTypes
<1>3. Less \in SUBSET All
    BY <1>1 DEF KeysOf
<1>4. Cardinality(Less) =< Cardinality(All) /\ Cardinality(Less) \in Nat
    BY <1>2, <1>3, FS_Subset, FS_CardinalityType
<1>5. Cardinality(All) =< MAX_ENTRIES /\ existingKeys = StoredKeys
    BY DEF KnowledgeInv
<1> HIDE DEF All
<1>6. Cardinality(Less) =< MAX_ENTRIES
    BY <1>2, <1>4, <1>5, MigrationAssumption
<1>7. Cardinality(StoredKeys' \cup KeysOf(files)') =< MAX_ENTRIES
    BY <1>6 DEF KeysOf
<1>8. QED BY <1>1, <1>5, <1>7 DEF KnowledgeInv

LEMMA KnowledgeStep ==
    ASSUME TypeOK, TypeOK', KnowledgeInv, CurrentInv, [Next]_vars
    PROVE  KnowledgeInv'
<1>1. ASSUME NEW f \in Files, Import(f)
      PROVE  KnowledgeInv'
    <2>1. /\ stage = "importing" /\ f \in files /\ files' = files
          /\ existingKeys' = existingKeys \cup {AccountOf[f]}
        BY <1>1 DEF Import
    <2>2. StoredKeys' = StoredKeys \cup {AccountOf[f]}
        BY <1>1, ImportEffect
    <2>3. (StoredKeys \cup KeysOf(files))' = StoredKeys \cup KeysOf(files)
        BY <2>1, <2>2 DEF KeysOf
    <2>4. QED BY <2>1, <2>2, <2>3 DEF KnowledgeInv
<1>2. CASE CheckCapacity
    <2>1. CASE Missing(StoredKeys) > MAX_ENTRIES - Cardinality(StoredKeys)
        BY <1>2, <2>1 DEF CheckCapacity, KnowledgeInv
    <2>2. CASE ~(Missing(StoredKeys) > MAX_ENTRIES - Cardinality(StoredKeys))
        <3> DEFINE New == KeysOf(files) \ StoredKeys
        <3>1. existingKeys' = StoredKeys /\ UNCHANGED <<store, files>>
            BY <1>2, <2>2 DEF CheckCapacity
        <3>2. /\ IsFiniteSet(StoredKeys) /\ IsFiniteSet(KeysOf(files))
              /\ Cardinality(StoredKeys) \in Nat
            BY KeysTypes
        <3>3. IsFiniteSet(New) /\ Cardinality(New) \in Nat /\ StoredKeys \cap New = {}
            BY <3>2, FS_Subset, FS_CardinalityType
        <3>4. Cardinality(StoredKeys \cup New) = Cardinality(StoredKeys) + Cardinality(New)
                                                 - Cardinality(StoredKeys \cap New)
            BY <3>2, <3>3, FS_Union
        <3>5. StoredKeys \cup New = StoredKeys \cup KeysOf(files)
            OBVIOUS
        <3>6. Cardinality(StoredKeys \cap New) = 0
            BY <3>3, FS_EmptySet
        <3>7. Cardinality(New) =< MAX_ENTRIES - Cardinality(StoredKeys)
            <4>1. Missing(StoredKeys) = Cardinality(New)
                BY DEF Missing
            <4> HIDE DEF New
            <4>2. QED BY <2>2, <3>2, <3>3, <4>1, MigrationAssumption
        <3>8. Cardinality(StoredKeys \cup KeysOf(files)) =< MAX_ENTRIES
            <4> HIDE DEF New
            <4>1. Cardinality(StoredKeys \cup New) = Cardinality(StoredKeys) + Cardinality(New)
                BY <3>2, <3>3, <3>4, <3>6
            <4>2. Cardinality(StoredKeys \cup New) =< MAX_ENTRIES
                BY <3>2, <3>3, <3>7, <4>1, MigrationAssumption
            <4>3. QED BY <3>5, <4>2
        <3>9. StoredKeys' = StoredKeys /\ KeysOf(files)' = KeysOf(files)
            BY <3>1 DEF StoredKeys, KeysOf
        <3>10. QED BY <3>1, <3>8, <3>9 DEF KnowledgeInv
    <2>3. QED BY <2>1, <2>2
<1>3. ASSUME NEW f \in Files, Archive(f) \/ ArchiveFails(f)
      PROVE  KnowledgeInv'
    <2>1. /\ stage = "importing" /\ files' \subseteq files
          /\ UNCHANGED <<store, existingKeys>>
        BY <1>3 DEF Archive, ArchiveFails, Done
    <2>2. QED BY <2>1, FewerFiles
<1>4. CASE List \/ ListMisses \/ Crash \/ \E f \in Files : RegisterFails(f)
    BY <1>4 DEF List, ListMisses, Crash, RegisterFails, KnowledgeInv
<1>5. CASE UNCHANGED vars
    BY <1>5 DEF vars, KnowledgeInv, StoredKeys, KeysOf
<1>6. QED BY <1>1, <1>2, <1>3, <1>4, <1>5 DEF Next

LEMMA CurrentStep ==
    ASSUME TypeOK, KnowledgeInv, CurrentInv, [Next]_vars
    PROVE  CurrentInv'
<1>1. ASSUME NEW f \in Files, Import(f)
      PROVE  CurrentInv'
    <2>1. stage' = "importing" /\ current' = f
        BY <1>1 DEF Import
    <2>2. StoredKeys' = StoredKeys \cup {AccountOf[f]}
        BY <1>1, ImportEffect
    <2>3. QED BY <2>1, <2>2 DEF CurrentInv
<1>2. CASE Crash \/ \E f \in Files : Archive(f) \/ ArchiveFails(f)
    BY <1>2 DEF Crash, Archive, ArchiveFails, Done, CurrentInv
<1>3. CASE List \/ ListMisses \/ CheckCapacity \/ (\E f \in Files : RegisterFails(f)) \/ UNCHANGED vars
    BY <1>3 DEF List, ListMisses, CheckCapacity, RegisterFails, vars, CurrentInv, StoredKeys
<1>4. QED BY <1>1, <1>2, <1>3 DEF Next

LEMMA LossStep ==
    ASSUME MigrationInv, [Next]_vars
    PROVE  NoStateLost'
<1>1. \A a \in Accounts : store[a] # None => store'[a] # None
    BY EntriesStep DEF MigrationInv
<1>2. ASSUME NEW f \in Files, Archive(f)
      PROVE  NoStateLost'
    <2>1. f # None /\ current = f
        BY <1>2, MigrationAssumption DEF Archive
    <2>2. store[AccountOf[f]] # None
        BY <2>1 DEF MigrationInv, CurrentInv, StoredKeys
    <2>3. archived' = archived \cup {f} /\ store' = store
        BY <1>2 DEF Archive
    <2>4. QED BY <2>2, <2>3 DEF MigrationInv, NoStateLost
<1>3. CASE archived' = archived
    BY <1>1, <1>3, MigrationAssumption DEF MigrationInv, NoStateLost, TypeOK
<1>4. QED
    BY <1>2, <1>3 DEF Next, List, ListMisses, CheckCapacity, Import, ArchiveFails, RegisterFails,
                      Crash, vars

LEMMA MigrationStep == MigrationInv /\ [Next]_vars => MigrationInv'
<1> SUFFICES ASSUME MigrationInv, [Next]_vars
             PROVE  MigrationInv'
    OBVIOUS
<1>1. TypeOK'
    BY TypeStep DEF MigrationInv
<1>2. KnowledgeInv' /\ CurrentInv'
    BY <1>1, KnowledgeStep, CurrentStep DEF MigrationInv
<1>3. QED BY <1>1, <1>2, LossStep DEF MigrationInv

THEOREM MigrationInvariant == Spec => []MigrationInv
<1>1. QED BY MigrationInit, MigrationStep, PTL DEF Spec

\* The variables keep their types, through crashes and failed calls.
THEOREM MigrationTypes == Spec => []TypeOK
<1>1. MigrationInv => TypeOK
    BY DEF MigrationInv
<1>2. QED BY <1>1, MigrationInvariant, PTL

\* No legacy state is lost: a file is archived only when its account has an entry, and
\* that entry stays, wherever the process ends and whichever call fails.
THEOREM NothingLost == Spec => []NoStateLost
<1>1. MigrationInv => NoStateLost
    BY DEF MigrationInv
<1>2. QED BY <1>1, MigrationInvariant, PTL

\* The room that ensureStoreCapacity finds is enough for every register of the run, so
\* that the bounded store pushes out no entry and none is replaced.
THEOREM NothingReplaced == Spec => EntriesAreKept
<1>1. MigrationInv /\ [Next]_vars
        => [\A a \in Accounts : store[a] # None => store'[a] = store[a]]_vars
    BY EntriesStep DEF MigrationInv
<1>2. QED BY <1>1, MigrationInvariant, PTL DEF Spec, EntriesAreKept
=============================================================================
