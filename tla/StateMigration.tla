--------------------------- MODULE StateMigration ---------------------------
(***************************************************************************)
(* The doctor's migration of legacy state files to the plug-in's keyed     *)
(* store (stateMigrations in src/doctor-contract-api.ts).  Both migrations *)
(* there, of bus state and of profile state, run this procedure, each over *)
(* its own files and namespace.                                            *)
(*                                                                         *)
(* The files of one namespace are read, the store is checked for room, and *)
(* then file after file is registered under its account and archived.  The *)
(* process may end between any two of these steps, each of which may fail, *)
(* and the doctor is run again later.  A file is named after an account;   *)
(* names that normalise to one key belong to one account.                  *)
(***************************************************************************)
EXTENDS Integers, FiniteSets

CONSTANTS
    Files,          \* legacy files the directory may hold
    Accounts,       \* keys of the store
    AccountOf,      \* the normalised account id in a file's name
    Readable,       \* files that parse as a state of a known version
    Native,         \* an entry that was not migrated
    None,
    MAX_ENTRIES,    \* MAX_NOSTR_STATE_ENTRIES
    MaxFaults       \* bound on crashes and failed calls

ASSUME MigrationAssumption ==
    /\ IsFiniteSet(Files) /\ IsFiniteSet(Accounts)
    /\ AccountOf \in [Files -> Accounts]
    /\ Readable \subseteq Files
    /\ None \notin Files /\ Native \notin Files /\ None # Native
    /\ MAX_ENTRIES \in Nat /\ MaxFaults \in Nat

VARIABLES
    legacy,         \* the files in the legacy directory
    archived,       \* the files archiveLegacyStateSource has moved away
    store,          \* per account, the file its entry was made from, Native, or None
    stage,          \* "idle", "listed" or "importing"
    files,          \* the listed files this run has still to treat
    existingKeys,   \* the keys this run knows to be in the store
    current,        \* the file to be archived next, or None
    faults          \* faults so far

vars == <<legacy, archived, store, stage, files, existingKeys, current, faults>>

TypeOK ==
    /\ legacy \subseteq Files
    /\ archived \subseteq Files
    /\ store \in [Accounts -> Files \cup {Native, None}]
    /\ stage \in {"idle", "listed", "importing"}
    /\ files \subseteq Readable
    /\ existingKeys \subseteq Accounts
    /\ current \in Files \cup {None}
    /\ faults \in Nat

\* The keys the store has an entry for.
StoredKeys == {a \in Accounts : store[a] # None}

KeysOf(someFiles) == {AccountOf[f] : f \in someFiles}

\* Any files, and a store that already holds what other runs or the plug-in put there.
Init ==
    /\ legacy \in SUBSET Files
    /\ archived = {}
    /\ store \in [Accounts -> {Native, None}]
    /\ Cardinality(StoredKeys) =< MAX_ENTRIES
    /\ stage = "idle"
    /\ files = {}
    /\ existingKeys = {}
    /\ current = None
    /\ faults = 0

-----------------------------------------------------------------------------
\* Mutant: a file that does not parse is listed as well.
ListUnparsed ==
    /\ stage = "idle"
    /\ legacy \cap Readable # {}
    /\ files' = legacy
    /\ stage' = "listed"
    /\ UNCHANGED <<legacy, archived, store, existingKeys, current, faults>>

\* detectLegacyState found a file, and listLegacyFiles reads those that parse.
List ==
    /\ stage = "idle"
    /\ legacy \cap Readable # {}
    /\ files' = legacy \cap Readable
    /\ stage' = "listed"
    /\ UNCHANGED <<legacy, archived, store, existingKeys, current, faults>>

\* A call of readdir or readFile fails and is passed over without a warning: the files
\* concerned are not listed.  A run with nothing listed has nothing to do.
ListMisses ==
    /\ stage = "idle"
    /\ faults < MaxFaults
    /\ faults' = faults + 1
    /\ \E missed \in SUBSET (legacy \cap Readable) \ {{}} :
           files' = (legacy \cap Readable) \ missed
    /\ stage' = IF files' = {} THEN "idle" ELSE "listed"
    /\ UNCHANGED <<legacy, archived, store, existingKeys, current>>

\* Mutant: every file is counted, also a second one of the same account.
MissingPerFile(keys) == Cardinality({f \in files : AccountOf[f] \notin keys})

\* The number of accounts that would get a new entry.
Missing(keys) == Cardinality(KeysOf(files) \ keys)

\* ensureStoreCapacity: all listed accounts have room, or nothing is touched.
CheckCapacity ==
    /\ stage = "listed"
    /\ IF Missing(StoredKeys) > MAX_ENTRIES - Cardinality(StoredKeys)
       THEN /\ stage' = "idle"
            /\ files' = {}
            /\ UNCHANGED existingKeys
       ELSE /\ stage' = "importing"
            /\ existingKeys' = StoredKeys
            /\ UNCHANGED files
    /\ UNCHANGED <<legacy, archived, store, current, faults>>

\* register of the host's store: a new key in a full store pushes another one out.
Registered(a, f) ==
    IF store[a] # None \/ Cardinality(StoredKeys) < MAX_ENTRIES
    THEN {[store EXCEPT ![a] = f]}
    ELSE {[store EXCEPT ![a] = f, ![b] = None] : b \in StoredKeys}

\* Mutant: what this run has registered is not added to the known keys.
ImportForgetful(f) ==
    /\ stage = "importing" /\ current = None /\ f \in files
    /\ IF AccountOf[f] \in existingKeys
       THEN UNCHANGED store
       ELSE store' \in Registered(AccountOf[f], f)
    /\ current' = f
    /\ UNCHANGED <<legacy, archived, stage, files, existingKeys, faults>>

\* The next file: registered under its account, unless the account has an entry.
Import(f) ==
    /\ stage = "importing" /\ current = None /\ f \in files
    /\ IF AccountOf[f] \in existingKeys
       THEN UNCHANGED store
       ELSE store' \in Registered(AccountOf[f], f)
    /\ existingKeys' = existingKeys \cup {AccountOf[f]}
    /\ current' = f
    /\ UNCHANGED <<legacy, archived, stage, files, faults>>

\* The run has dealt with a file, and ends after the last one.
Done(f) ==
    /\ current' = None
    /\ files' = files \ {f}
    /\ stage' = IF files \ {f} = {} THEN "idle" ELSE "importing"

\* archiveLegacyStateSource moves the file away.
Archive(f) ==
    /\ stage = "importing" /\ current = f
    /\ legacy' = legacy \ {f}
    /\ archived' = archived \cup {f}
    /\ Done(f)
    /\ UNCHANGED <<store, existingKeys, faults>>

\* It could not, and the warning is all that is left of it: the file stays.
ArchiveFails(f) ==
    /\ stage = "importing" /\ current = f
    /\ faults < MaxFaults
    /\ faults' = faults + 1
    /\ Done(f)
    /\ UNCHANGED <<legacy, archived, store, existingKeys>>

\* Mutant: a failed register is passed over.
RegisterFailsSilently(f) ==
    /\ stage = "importing" /\ current = None /\ f \in files
    /\ AccountOf[f] \notin existingKeys
    /\ faults < MaxFaults
    /\ faults' = faults + 1
    /\ current' = f
    /\ UNCHANGED <<legacy, archived, store, stage, files, existingKeys>>

\* register rejects, and the migration with it.
RegisterFails(f) ==
    /\ stage = "importing" /\ current = None /\ f \in files
    /\ AccountOf[f] \notin existingKeys
    /\ faults < MaxFaults
    /\ faults' = faults + 1
    /\ stage' = "idle"
    /\ files' = {}
    /\ UNCHANGED <<legacy, archived, store, existingKeys, current>>

\* The process ends; directory and store are what they are.
Crash ==
    /\ stage # "idle"
    /\ faults < MaxFaults
    /\ faults' = faults + 1
    /\ stage' = "idle"
    /\ files' = {}
    /\ current' = None
    /\ UNCHANGED <<legacy, archived, store, existingKeys>>

Next ==
    \/ List
    \/ ListMisses
    \/ CheckCapacity
    \/ \E f \in Files : Import(f) \/ Archive(f) \/ ArchiveFails(f) \/ RegisterFails(f)
    \/ Crash

Spec == Init /\ [][Next]_vars

\* The doctor is run until it finds nothing, and its promises settle.
FairSpec ==
    /\ Spec
    /\ WF_vars(List) /\ WF_vars(CheckCapacity)
    /\ WF_vars(\E f \in Files : Import(f))
    /\ WF_vars(\E f \in Files : Archive(f))

-----------------------------------------------------------------------------
\* No state is lost: once a file has been archived its account has an entry, through
\* crashes, failed calls, other files of the account and a store that fills up
\* (register before archive, and ensureStoreCapacity, in migrateLegacyState).
NoStateLost == \A f \in archived : store[AccountOf[f]] # None

\* An entry of the store is neither replaced nor pushed out by a migration, be it the
\* plug-in's own, of an earlier run that was cut off, or of another file of the
\* account in this run (existingKeys, and the room ensureStoreCapacity finds).
EntriesAreKept ==
    [][\A a \in Accounts : store[a] # None => store'[a] = store[a]]_vars

\* All accounts concerned fit into the store.
Fits == Cardinality(StoredKeys \cup KeysOf(legacy \cap Readable)) =< MAX_ENTRIES

\* If there is room, running the doctor again and again finishes the migration: every
\* legacy file that can be read ends up archived, wherever earlier runs broke off.
MigrationEnds == Fits ~> legacy \cap Readable = {}
=============================================================================
