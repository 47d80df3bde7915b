---------------------------- MODULE BriefArchive ----------------------------
(***************************************************************************)
(* Erasure, backup and restore of accepted packages: the backup and        *)
(* restore kinds of evaluateBriefStorage.  The owner of the storage is     *)
(* external; it asks both kinds before it acts and keeps to the deadlines  *)
(* it was given.                                                           *)
(***************************************************************************)
EXTENDS Integers, FiniteSets

CONSTANTS
    Package,        \* the packages
    Prerequisite,   \* what a restore has to prove before it serves
    Replay,         \* the prerequisite that replays the owner's deletions
    Ceiling,        \* how long a backup may outlive a deletion
    Offline,        \* not restoring, not erased
    MaxDay,         \* bound: the last day
    MaxBackups,     \* bound: backups taken
    MaxLossesOfStore \* bound: how often the live storage is lost

\* What stands for "not erased" is neither a deletion nor a restore.
ASSUME ArchiveAssumption ==
    /\ Ceiling \in Nat /\ MaxDay \in Nat
    /\ Replay \in Prerequisite
    /\ Offline \notin [ at : Nat, expiresAt : Nat ]
    /\ \A packages \in SUBSET Package, steps \in SUBSET Prerequisite :
          Offline # [ holds |-> packages, proved |-> steps ]

VARIABLES
    day,        \* the owner's clock
    live,       \* the packages served
    backups,    \* the backups kept
    erased,     \* for each erased package, when, and until when backups may hold it
    restore,    \* the packages being restored and the prerequisites proved so far
    storeLosses \* how often the live storage was lost

archiveVars == <<day, live, backups, erased, restore, storeLosses>>

------------------------------------------------------------------------------
(* evaluateBriefStorage: the kinds backup and restore *)

BackupDecision(deletedAt, expiresAt) ==
    IF deletedAt <= expiresAt /\ expiresAt - deletedAt <= Ceiling THEN "bounded-backup" ELSE "deny"

\* Mutated: a restore serves before the deletions are replayed.
RestoreDecisionEarly(proved) == IF Prerequisite \ {Replay} \subseteq proved THEN "restore" ELSE "deny"

RestoreDecision(proved) == IF proved = Prerequisite THEN "restore" ELSE "deny"

------------------------------------------------------------------------------
Erased == { p \in Package : erased[p] # Offline }

ArchiveInit ==
    /\ day = 0
    /\ live = Package
    /\ backups = {}
    /\ erased = [ p \in Package |-> Offline ]
    /\ restore = Offline
    /\ storeLosses = 0

TakeBackup ==
    /\ Cardinality(backups) < MaxBackups
    /\ restore = Offline
    /\ backups' = backups \cup { [ takenAt |-> day, holds |-> live ] }
    /\ UNCHANGED <<day, live, erased, restore, storeLosses>>

\* A deletion says until when a backup may still hold the package; an unbounded one is refused.
Erase(p, expiresAt) ==
    /\ p \in live
    /\ BackupDecision(day, expiresAt) = "bounded-backup"
    /\ live' = live \ {p}
    /\ erased' = [erased EXCEPT ![p] = [ at |-> day, expiresAt |-> expiresAt ]]
    /\ UNCHANGED <<day, backups, restore, storeLosses>>

DropBackup(b) ==
    /\ backups' = backups \ {b}
    /\ UNCHANGED <<day, live, erased, restore, storeLosses>>

\* No day ends with a backup, or a restore from one, past the deadline of what it holds.
EndDay ==
    /\ day < MaxDay
    /\ \A p \in Erased : day = erased[p].expiresAt =>
           /\ \A b \in backups : p \notin b.holds
           /\ restore # Offline => p \notin restore.holds
    /\ day' = day + 1
    /\ UNCHANGED <<live, backups, erased, restore, storeLosses>>

\* The live storage is lost, possibly in the middle of a restore.
LoseStore ==
    /\ storeLosses < MaxLossesOfStore
    /\ storeLosses' = storeLosses + 1
    /\ live' = {}
    /\ restore' = Offline
    /\ UNCHANGED <<day, backups, erased>>

BeginRestore(b) ==
    /\ live = {}
    /\ restore = Offline
    /\ restore' = [ holds |-> b.holds, proved |-> {} ]
    /\ UNCHANGED <<day, live, backups, erased, storeLosses>>

\* The prerequisites are proved in any order; one of them removes what was deleted since.
Prove(step) ==
    /\ restore # Offline
    /\ step \notin restore.proved
    /\ restore' = [ holds |-> IF step = Replay THEN restore.holds \ Erased ELSE restore.holds,
                    proved |-> restore.proved \cup {step} ]
    /\ UNCHANGED <<day, live, backups, erased, storeLosses>>

Serve ==
    /\ restore # Offline
    /\ RestoreDecision(restore.proved) = "restore"
    /\ live' = restore.holds
    /\ restore' = Offline
    /\ UNCHANGED <<day, backups, erased, storeLosses>>

ArchiveNext ==
    \/ TakeBackup
    \/ \E p \in Package, d \in 0..MaxDay : Erase(p, d)
    \/ \E b \in backups : DropBackup(b) \/ BeginRestore(b)
    \/ EndDay
    \/ LoseStore
    \/ \E step \in Prerequisite : Prove(step)
    \/ Serve

ArchiveSpec == ArchiveInit /\ [][ArchiveNext]_archiveVars

------------------------------------------------------------------------------
\* An erased package is never served again, whatever was lost and restored since, and once the
\* ceiling has passed no copy of it is left anywhere (the backup and restore kinds together).
ErasureIsFinal ==
    \A p \in Erased :
        /\ p \notin live
        /\ day > erased[p].at + Ceiling => \A b \in backups : p \notin b.holds
==============================================================================
