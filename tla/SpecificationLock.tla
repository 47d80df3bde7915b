--------------------------- MODULE SpecificationLock ---------------------------
(***************************************************************************)
(* The specification lock (tools/quality/specification-lock.ts) and the    *)
(* adoption of a candidate protocol that rests on it                       *)
(* (tools/quality/adopted-protocol-authority.ts).                          *)
(*                                                                         *)
(* The verifier is handed an input object, usually read file by file from  *)
(* a working tree.  The tree may change between two reads, and the caller  *)
(* may change the object between two looks at it; the verifier therefore   *)
(* copies what it hashes and uses only its copies.  Digests are compared   *)
(* with pins of the source: equal digests are equal contents.              *)
(***************************************************************************)
EXTENDS Naturals, Sequences

CONSTANTS
    Evidence, Approved,       \* review packages, and the one the source pins
    Order,                    \* the protected paths, as the package lists them
    Baseline,                 \* the path among them of the baseline catalog
    Bytes,                    \* contents of a document
    Protected,                \* the contents the package pins, by path
    Absent,                   \* a missing, indirect or oversized file
    Row, RowsOf,              \* catalog rows, and those a content lists
    Transitions,              \* the ids the package lets change
    NoReview,                 \* the value of review once it is deleted
    Additions, PinnedAdditions, AdditionRows,
                              \* contents of the registry of later additions,
                              \* the pinned one, and the rows each lists
    Catalogs,                 \* the catalogs an author may write
    Registries, ApprovedSource, Contract,
                              \* candidate registries, the source that the
                              \* package adopts, and the id of its contract
    Nothing,                  \* nothing read yet
    MaxChanges                \* bounds the changes under the verifier

Path == { Order[i] : i \in DOMAIN Order }

ASSUME LockAssumption ==
    /\ Order \in Seq(Path) /\ Baseline \in Path
    /\ Protected \in [Path -> Bytes] /\ Absent \notin Bytes /\ Nothing \notin Bytes
    /\ Approved \in Evidence /\ PinnedAdditions \in Additions
    /\ RowsOf \in [Bytes -> Seq(Row)] /\ AdditionRows \in [Additions -> Seq(Row)]
    /\ MaxChanges \in Nat

\* What the pinned package and its additions list, and what a registry is: the
\* contract's row is one of the approved transitions, and no addition repeats it.
ASSUME PackageAssumption ==
    /\ Registries \subseteq Seq(UNION { { r[i] : i \in DOMAIN r } : r \in Registries })
    /\ \A row \in Row : row \in [ id : {row.id}, status : {row.status}, review : {row.review} ]
    /\ Contract \in Transitions
    /\ \E i \in DOMAIN RowsOf[Protected[Baseline]] : RowsOf[Protected[Baseline]][i].id = Contract
    /\ \A i \in DOMAIN AdditionRows[PinnedAdditions] : AdditionRows[PinnedAdditions][i].id # Contract

------------------------------------------------------------------------------
VARIABLES
    disk,       \* the files of the working tree
    held,       \* the input object, as its fields are now
    next,       \* the place of the path to be read or taken next
    kept,       \* the verifier's own copies of the protected documents
    expected,   \* the catalog the verifier has worked out
    judged,     \* the catalog it compared with it
    candidate,  \* the candidate registry and the contract's status, read first
    phase,      \* what the verifier does next
    changes     \* how often a file or a field changed

lockVars == <<disk, held, next, kept, expected, judged, candidate, phase, changes>>
verifier == <<next, kept, expected, judged, candidate, phase>>

Unread == [ p \in Path |-> Nothing ]

LockInit ==
    /\ \E c \in Catalogs, r \in Registries :
          disk = [ evidence |-> Approved, documents |-> Protected,
                   additions |-> PinnedAdditions, catalog |-> c, registry |-> r ]
    /\ held = [ evidence |-> Nothing, documents |-> Unread, additions |-> Nothing,
                catalog |-> Nothing ]
    /\ next = 1
    /\ kept = Unread
    /\ expected = Nothing
    /\ judged = Nothing
    /\ candidate = Nothing
    /\ phase = "start"
    /\ changes = 0

Refuse ==
    /\ phase' = "refused"
    /\ UNCHANGED <<next, kept, expected, judged, candidate>>

------------------------------------------------------------------------------
(* The working tree and the caller *)

NewFields(now) ==
    { [now EXCEPT !.evidence = e] : e \in Evidence }
    \cup { [now EXCEPT !.documents[p] = b] : p \in Path, b \in Bytes \cup {Absent} }
    \cup { [now EXCEPT !.additions = a] : a \in Additions }
    \cup { [now EXCEPT !.catalog = c] : c \in Catalogs }

\* An author writes a file.
Edit ==
    /\ changes < MaxChanges /\ phase \notin {"refused", "adopted"}
    /\ disk' \in NewFields(disk) \cup { [disk EXCEPT !.registry = r] : r \in Registries }
    /\ changes' = changes + 1
    /\ UNCHANGED <<held, verifier>>

\* The caller, or a getter of its object, changes what the verifier was given.
Mutate ==
    /\ changes < MaxChanges
    /\ phase \in {"pin", "take", "project", "admit", "compare", "source"}
    /\ held' \in NewFields(held)
    /\ changes' = changes + 1
    /\ UNCHANGED <<disk, verifier>>

------------------------------------------------------------------------------
(* check-contracts.ts and readSpecificationLockInputs: the files, in order *)

StatusOf(rows, id) ==
    IF \E i \in DOMAIN rows : rows[i].id = id
    THEN rows[CHOOSE i \in DOMAIN rows : rows[i].id = id].status
    ELSE "missing"

\* The registry is read; a contract that is not locked has nothing to adopt.
Start ==
    /\ phase = "start"
    /\ IF StatusOf(disk.catalog, Contract) = "locked"
       THEN /\ candidate' = [ registry |-> disk.registry, status |-> "locked" ]
            /\ phase' = "evidence"
            /\ UNCHANGED <<next, kept, expected, judged>>
       ELSE Refuse
    /\ UNCHANGED <<disk, held, changes>>

\* The paths to read are those of the approved package and no other.
ReadEvidence ==
    /\ phase = "evidence"
    /\ IF disk.evidence = Approved
       THEN /\ held' = [held EXCEPT !.evidence = disk.evidence]
            /\ phase' = "read"
            /\ UNCHANGED <<next, kept, expected, judged, candidate>>
       ELSE Refuse /\ UNCHANGED held
    /\ UNCHANGED <<disk, changes>>

ReadDocument ==
    /\ phase = "read" /\ next <= Len(Order)
    /\ IF disk.documents[Order[next]] # Absent
       THEN /\ held' = [held EXCEPT !.documents[Order[next]] = disk.documents[Order[next]]]
            /\ next' = next + 1
            /\ UNCHANGED <<kept, expected, judged, candidate, phase>>
       ELSE Refuse /\ UNCHANGED held
    /\ UNCHANGED <<disk, changes>>

ReadCatalog ==
    /\ phase = "read" /\ next > Len(Order)
    /\ held' = [held EXCEPT !.catalog = disk.catalog]
    /\ phase' = "registry"
    /\ UNCHANGED <<disk, next, kept, expected, judged, candidate, changes>>

ReadAdditions ==
    /\ phase = "registry"
    /\ held' = [held EXCEPT !.additions = disk.additions]
    /\ phase' = "pin" /\ next' = 1
    /\ UNCHANGED <<disk, kept, expected, judged, candidate, changes>>

------------------------------------------------------------------------------
(* specificationLockFailures *)

\* pinnedEvidence: serialized once, and only that serialization is used.
PinEvidence ==
    /\ phase = "pin"
    /\ IF held.evidence = Approved
       THEN phase' = "take" /\ UNCHANGED <<next, kept, expected, judged, candidate>>
       ELSE Refuse
    /\ UNCHANGED <<disk, held, changes>>

\* One document: read once, copied, and the copy is hashed.
TakeDocument ==
    /\ phase = "take" /\ next <= Len(Order)
    /\ IF held.documents[Order[next]] = Protected[Order[next]]
       THEN /\ kept' = [kept EXCEPT ![Order[next]] = held.documents[Order[next]]]
            /\ next' = next + 1
            /\ phase' = IF next = Len(Order) THEN "project" ELSE "take"
            /\ UNCHANGED <<expected, judged, candidate>>
       ELSE Refuse
    /\ UNCHANGED <<disk, held, changes>>

\* Mutant: the caller's entry is read again.
BaselineBytesAgain == held.documents[Baseline]

BaselineBytes == kept[Baseline]

\* An approved row is locked and loses its review; any other stays.
Promoted(row) ==
    IF row.id \in Transitions THEN [row EXCEPT !.status = "locked", !.review = NoReview] ELSE row

Transitioned(rows) == [ i \in DOMAIN rows |-> Promoted(rows[i]) ]

\* A baseline that does not parse throws.
ProjectBaseline ==
    /\ phase = "project"
    /\ IF BaselineBytes \in DOMAIN RowsOf
       THEN /\ expected' = Transitioned(RowsOf[BaselineBytes])
            /\ phase' = "admit"
            /\ UNCHANGED <<next, kept, judged, candidate>>
       ELSE Refuse
    /\ UNCHANGED <<disk, held, changes>>

AdditionsPinned(bytes) == bytes = PinnedAdditions

\* pinnedPostLockAdditions: copied, hashed, parsed.
AdmitAdditions ==
    /\ phase = "admit"
    /\ IF AdditionsPinned(held.additions)
       THEN /\ expected' = expected \o AdditionRows[held.additions]
            /\ phase' = "compare"
            /\ UNCHANGED <<next, kept, judged, candidate>>
       ELSE Refuse
    /\ UNCHANGED <<disk, held, changes>>

CompareCatalog ==
    /\ phase = "compare"
    /\ IF held.catalog = expected
       THEN /\ judged' = held.catalog
            /\ phase' = "source"
            /\ UNCHANGED <<next, kept, expected, candidate>>
       ELSE Refuse
    /\ UNCHANGED <<disk, held, changes>>

------------------------------------------------------------------------------
(* specificationLockProtocolSource and adoptedMissionProtocolAuthority *)

\* candidateProtocolAuthorities for the one required protocol: every entry is
\* well formed, asked for, not repeated and of the required repository.
Registered(registry) ==
    /\ Len(registry) = 1
    /\ registry[1].wellFormed
    /\ registry[1].protocol = ApprovedSource.protocol
    /\ registry[1].sourceRepository = ApprovedSource.sourceRepository

\* Mutant: the registry's own entry is adopted unread.
SourceAgreesUnread(registry) == TRUE

SourceAgrees(registry) == registry[1] = ApprovedSource

\* The package is pinned again, and the registered candidate must be its source.
Adopt ==
    /\ phase = "source"
    /\ IF /\ held.evidence = Approved
          /\ Registered(candidate.registry)
          /\ SourceAgrees(candidate.registry)
       THEN phase' = "adopted" /\ UNCHANGED <<next, kept, expected, judged, candidate>>
       ELSE Refuse
    /\ UNCHANGED <<disk, held, changes>>

LockNext ==
    \/ Edit \/ Mutate
    \/ Start \/ ReadEvidence \/ ReadDocument \/ ReadCatalog \/ ReadAdditions
    \/ PinEvidence \/ TakeDocument \/ ProjectBaseline \/ AdmitAdditions
    \/ CompareCatalog \/ Adopt

LockSpec == LockInit /\ [][LockNext]_lockVars

------------------------------------------------------------------------------
(* Properties *)

LockTypeOK ==
    /\ held.documents \in [Path -> Bytes \cup {Absent, Nothing}]
    /\ disk.documents \in [Path -> Bytes \cup {Absent}]
    /\ kept \in [Path -> Bytes \cup {Nothing}]
    /\ next \in 1 .. Len(Order) + 1
    /\ changes \in 0 .. MaxChanges

Locked(row) == row.status = "locked" /\ row.review = NoReview

\* specificationLockFailures: however the files and the caller's object change
\* under it, a catalog that qualifies is the reviewed baseline row for row, but
\* for the approved transitions, followed by the registered additions.
LockHonoured ==
    phase \in {"source", "adopted"} =>
        LET base  == RowsOf[Protected[Baseline]]
            added == AdditionRows[PinnedAdditions]
        IN  /\ Len(judged) = Len(base) + Len(added)
            /\ \A i \in DOMAIN base :
                  judged[i] = IF base[i].id \in Transitions
                              THEN [base[i] EXCEPT !.status = "locked", !.review = NoReview]
                              ELSE base[i]
            /\ \A i \in DOMAIN added : judged[Len(base) + i] = added[i]

\* adoptedMissionProtocolAuthority: an adopted protocol is the source the
\* reviewed package names, for a contract that was locked, whatever the
\* registry of candidates or the files say by then.
AdoptedAsReviewed ==
    phase = "adopted" =>
        /\ candidate.registry = <<ApprovedSource>>
        /\ StatusOf(judged, Contract) = "locked"
==============================================================================
