----------------------- MODULE ContractRepositoryProofs -----------------------
(***************************************************************************)
(* What the repository's own gates guarantee.                              *)
(*                                                                         *)
(* The specification lock: a catalog that qualifies is the reviewed one,   *)
(* however often the files and the caller's object change meanwhile.  The  *)
(* invariant follows the verifier's copies: what it has taken is what is   *)
(* pinned, and each later step computes from those copies alone.           *)
(*                                                                         *)
(* The contract check: what a green run says of the tree.  The invariant   *)
(* goes section by section: as long as nothing was reported, each section  *)
(* that is over left its part of the tree sound.                           *)
(*                                                                         *)
(* The copies: what the TypeScript types of the schemas keep, the Rust     *)
(* types keep, but below a skipped name, however documents refer to each   *)
(* other.  Both projections are recursive: a visit below another either    *)
(* goes into a part of the document or follows a new reference, so that    *)
(* there is a first visit in every set of them; the equations have a       *)
(* solution, and a first visit on which a path is lost cannot exist.  A    *)
(* sync that finishes has written, file by file, what it read.             *)
(***************************************************************************)
EXTENDS SpecificationLock, ContractCatalog, SchemaSync, FiniteSetTheorems, FunctionTheorems, SequenceTheorems,
        WellFoundedInduction, TLAPS

Reviewed == Transitioned(RowsOf[Protected[Baseline]])

Taken == {"project", "admit", "compare", "source", "adopted"}

Copies ==
    /\ kept \in [Path -> Bytes \cup {Nothing}]
    /\ next \in Nat \ {0}
    /\ phase = "pin" => next = 1
    /\ phase = "take" => \A i \in 1 .. Len(Order) : i < next => kept[Order[i]] = Protected[Order[i]]
    /\ phase \in Taken => \A p \in Path : kept[p] = Protected[p]

Worked ==
    /\ phase = "admit" => expected = Reviewed
    /\ phase \in {"compare", "source", "adopted"} => expected = Reviewed \o AdditionRows[PinnedAdditions]
    /\ phase \in {"source", "adopted"} => judged = expected

IInv == Copies /\ Worked

\* Every path of the package stands at some place of its list.
LEMMA PathOfOrder ==
    /\ \A i \in 1 .. Len(Order) : Order[i] \in Path
    /\ \A p \in Path : \E i \in 1 .. Len(Order) : Order[i] = p
    /\ Len(Order) \in Nat
  BY LockAssumption DEF Path

LEMMA InitHolds == LockInit => IInv
  BY LockAssumption DEF LockInit, IInv, Copies, Worked, Unread, Taken

\* A refusal ends the run: nothing is claimed of it.
LEMMA RefuseKeeps ==
    ASSUME IInv, Refuse
    PROVE  IInv'
  BY DEF IInv, Copies, Worked, Refuse, Taken

\* A step of the tree or of the caller leaves the verifier's state alone.
LEMMA OutsideKeeps ==
    ASSUME IInv, UNCHANGED verifier
    PROVE  IInv'
  BY DEF IInv, Copies, Worked, verifier, Taken

\* Reading files fills the input object only.
LEMMA ReadingKeeps ==
    ASSUME IInv, Start \/ ReadEvidence \/ ReadDocument \/ ReadCatalog \/ ReadAdditions
    PROVE  IInv'
  <1>1. CASE Start
    BY <1>1, RefuseKeeps DEF Start, IInv, Copies, Worked, Taken
  <1>2. CASE ReadEvidence
    BY <1>2, RefuseKeeps DEF ReadEvidence, IInv, Copies, Worked, Taken
  <1>3. CASE ReadDocument
    BY <1>3, RefuseKeeps DEF ReadDocument, IInv, Copies, Worked, Taken
  <1>4. CASE ReadCatalog
    BY <1>4 DEF ReadCatalog, IInv, Copies, Worked, Taken
  <1>5. CASE ReadAdditions
    BY <1>5 DEF ReadAdditions, IInv, Copies, Worked, Taken
  <1> QED BY <1>1, <1>2, <1>3, <1>4, <1>5

LEMMA PinKeeps ==
    ASSUME IInv, PinEvidence
    PROVE  IInv'
  <1>1. CASE held.evidence = Approved
    <2>1. phase = "pin" /\ phase' = "take" /\ UNCHANGED <<next, kept, expected, judged>>
      BY <1>1 DEF PinEvidence
    <2>2. Copies'
      BY <2>1, PathOfOrder DEF IInv, Copies, Taken
    <2> QED BY <2>1, <2>2 DEF IInv, Worked
  <1>2. CASE held.evidence # Approved
    BY <1>2, RefuseKeeps DEF PinEvidence
  <1> QED BY <1>1, <1>2
\* A document is taken at its pinned contents; the last one completes the copies.
LEMMA TakeKeeps ==
    ASSUME IInv, TakeDocument
    PROVE  IInv'
  <1> DEFINE p == Order[next]
  <1>1. CASE held.documents[p] = Protected[p]
    <2>1. /\ phase = "take" /\ next <= Len(Order)
          /\ kept' = [kept EXCEPT ![p] = held.documents[p]]
          /\ next' = next + 1
          /\ phase' = IF next = Len(Order) THEN "project" ELSE "take"
          /\ UNCHANGED <<expected, judged>>
      BY <1>1 DEF TakeDocument
    <2>2. next \in 1 .. Len(Order) /\ p \in Path
      BY <2>1, PathOfOrder DEF IInv, Copies
    <2>3. Protected[p] \in Bytes
      BY <2>2, LockAssumption
    <2>4. kept' \in [Path -> Bytes \cup {Nothing}]
      BY <1>1, <2>1, <2>3 DEF IInv, Copies
    <2>5. \A i \in 1 .. Len(Order) : i < next + 1 => kept'[Order[i]] = Protected[Order[i]]
      BY <1>1, <2>1, <2>2, PathOfOrder DEF IInv, Copies
    <2>6. phase' \in Taken => \A q \in Path : kept'[q] = Protected[q]
      <3> SUFFICES ASSUME next = Len(Order), NEW q \in Path PROVE kept'[q] = Protected[q]
        BY <2>1 DEF Taken
      <3>1. PICK i \in 1 .. Len(Order) : Order[i] = q
        BY PathOfOrder
      <3>2. i < next + 1
        BY <2>2, <3>1, PathOfOrder
      <3> QED BY <2>5, <3>1, <3>2
    <2>7. Copies'
      BY <2>1, <2>2, <2>4, <2>5, <2>6 DEF IInv, Copies
    <2>8. Worked'
      BY <2>1 DEF IInv, Worked
    <2> QED BY <2>7, <2>8 DEF IInv
  <1>2. CASE held.documents[p] # Protected[p]
    BY <1>2, RefuseKeeps DEF TakeDocument
  <1> QED BY <1>1, <1>2

LEMMA ProjectKeeps ==
    ASSUME IInv, ProjectBaseline
    PROVE  IInv'
  <1>1. CASE BaselineBytes \in DOMAIN RowsOf
    <2>1. /\ phase = "project" /\ phase' = "admit" /\ UNCHANGED <<next, kept, judged>>
          /\ expected' = Transitioned(RowsOf[kept[Baseline]])
      BY <1>1 DEF ProjectBaseline, BaselineBytes
    <2>2. kept[Baseline] = Protected[Baseline]
      BY <2>1, LockAssumption DEF IInv, Copies, Taken
    <2> QED BY <2>1, <2>2 DEF IInv, Copies, Worked, Taken, Reviewed
  <1>2. CASE BaselineBytes \notin DOMAIN RowsOf
    BY <1>2, RefuseKeeps DEF ProjectBaseline
  <1> QED BY <1>1, <1>2

LEMMA AdmitKeeps ==
    ASSUME IInv, AdmitAdditions
    PROVE  IInv'
  <1>1. CASE AdditionsPinned(held.additions)
    BY <1>1 DEF AdmitAdditions, AdditionsPinned, IInv, Copies, Worked, Taken
  <1>2. CASE ~AdditionsPinned(held.additions)
    BY <1>2, RefuseKeeps DEF AdmitAdditions
  <1> QED BY <1>1, <1>2

LEMMA CompareKeeps ==
    ASSUME IInv, CompareCatalog
    PROVE  IInv'
  <1>1. CASE held.catalog = expected
    BY <1>1 DEF CompareCatalog, IInv, Copies, Worked, Taken
  <1>2. CASE held.catalog # expected
    BY <1>2, RefuseKeeps DEF CompareCatalog
  <1> QED BY <1>1, <1>2

LEMMA AdoptKeeps ==
    ASSUME IInv, Adopt
    PROVE  IInv'
  <1>1. CASE Refuse
    BY <1>1, RefuseKeeps
  <1>2. CASE ~Refuse
    BY <1>2 DEF Adopt, IInv, Copies, Worked, Taken
  <1> QED BY <1>1, <1>2

LEMMA StepPreserves == IInv /\ [LockNext]_lockVars => IInv'
  <1> SUFFICES ASSUME IInv, [LockNext]_lockVars PROVE IInv'
    OBVIOUS
  <1>1. CASE Edit
    BY <1>1, OutsideKeeps DEF Edit
  <1>2. CASE Mutate
    BY <1>2, OutsideKeeps DEF Mutate
  <1>3. CASE Start \/ ReadEvidence \/ ReadDocument \/ ReadCatalog \/ ReadAdditions
    BY <1>3, ReadingKeeps
  <1>4. CASE UNCHANGED lockVars
    BY <1>4, OutsideKeeps DEF lockVars, verifier
  <1> QED BY <1>1, <1>2, <1>3, <1>4, PinKeeps, TakeKeeps, ProjectKeeps, AdmitKeeps,
           CompareKeeps, AdoptKeeps DEF LockNext

\* The verifier works on its own copies, which are what the package pins.
THEOREM Invariant == LockSpec => []IInv
  BY InitHolds, StepPreserves, PTL DEF LockSpec

\* The projected baseline followed by the additions, row by row.
LEMMA ReviewedRows ==
    LET base  == RowsOf[Protected[Baseline]]
        added == AdditionRows[PinnedAdditions]
    IN  /\ Len(Reviewed \o added) = Len(base) + Len(added)
        /\ DOMAIN (Reviewed \o added) = 1 .. Len(base) + Len(added)
        /\ \A i \in DOMAIN base : (Reviewed \o added)[i] = Transitioned(base)[i]
        /\ \A i \in DOMAIN added : (Reviewed \o added)[Len(base) + i] = added[i]
  <1> DEFINE base == RowsOf[Protected[Baseline]]
             added == AdditionRows[PinnedAdditions]
             all == Row \cup { Reviewed[i] : i \in 1 .. Len(base) }
  <1>1. base \in Seq(Row) /\ added \in Seq(Row)
    BY LockAssumption
  <1>2. Reviewed \in [1 .. Len(base) -> all]
    BY <1>1 DEF Reviewed, Transitioned
  <1>3. Reviewed \in Seq(all) /\ Len(Reviewed) = Len(base)
    BY <1>1, <1>2
  <1>4. added \in Seq(all)
    BY <1>1
  <1> HIDE DEF base, added, all
  <1>5. /\ Reviewed \o added \in Seq(all)
        /\ Len(Reviewed \o added) = Len(Reviewed) + Len(added)
        /\ \A i \in 1 .. Len(Reviewed) + Len(added) :
              (Reviewed \o added)[i] = IF i <= Len(Reviewed) THEN Reviewed[i] ELSE added[i - Len(Reviewed)]
    BY <1>3, <1>4, ConcatProperties
  <1>6. \A i \in DOMAIN base : (Reviewed \o added)[i] = Reviewed[i]
    BY <1>1, <1>3, <1>4, <1>5
  <1>7. \A i \in DOMAIN added : (Reviewed \o added)[Len(base) + i] = added[i]
    BY <1>1, <1>3, <1>4, <1>5
  <1>8. Reviewed = Transitioned(base)
    BY DEF Reviewed, base
  <1>9. DOMAIN (Reviewed \o added) = 1 .. Len(base) + Len(added)
    BY <1>3, <1>5
  <1> QED BY <1>3, <1>5, <1>6, <1>7, <1>8, <1>9 DEF base, added

LEMMA IInvGivesLock == IInv => LockHonoured
  <1> SUFFICES ASSUME IInv, phase \in {"source", "adopted"} PROVE LockHonoured
    BY DEF LockHonoured
  <1>1. judged = Reviewed \o AdditionRows[PinnedAdditions]
    BY DEF IInv, Worked
  <1>2. \A i \in DOMAIN RowsOf[Protected[Baseline]] :
            Transitioned(RowsOf[Protected[Baseline]])[i] =
                IF RowsOf[Protected[Baseline]][i].id \in Transitions
                THEN [RowsOf[Protected[Baseline]][i] EXCEPT !.status = "locked", !.review = NoReview]
                ELSE RowsOf[Protected[Baseline]][i]
    BY DEF Transitioned, Promoted
  <1> QED BY <1>1, <1>2, ReviewedRows DEF LockHonoured

\* specificationLockFailures: only the reviewed catalog qualifies.
THEOREM OnlyReviewedQualifies == LockSpec => []LockHonoured
  BY Invariant, IInvGivesLock, PTL

------------------------------------------------------------------------------
(* The adoption *)

\* What was registered when the verifier looked, and what it adopted of it.
Adoption ==
    /\ "registry" \in DOMAIN disk /\ disk.registry \in Registries
    /\ phase \notin {"start", "refused"} => candidate.registry \in Registries
    /\ phase = "adopted" => Registered(candidate.registry) /\ SourceAgrees(candidate.registry)

LEMMA AdoptionHolds == LockInit => Adoption
  BY DEF LockInit, Adoption

\* Whatever file is edited, a registry stays one that may be written.
LEMMA EditKeepsAdoption ==
    ASSUME Adoption, Edit
    PROVE  Adoption'
  <1>1. disk' \in NewFields(disk) \cup { [disk EXCEPT !.registry = r] : r \in Registries }
    BY DEF Edit
  <1>2. "registry" \in DOMAIN disk' /\ disk'.registry \in Registries
    BY <1>1 DEF NewFields, Adoption
  <1>3. UNCHANGED <<phase, candidate>>
    BY DEF Edit, verifier
  <1> QED BY <1>2, <1>3 DEF Adoption

LEMMA StartKeepsAdoption ==
    ASSUME Adoption, Start
    PROVE  Adoption'
  <1>1. disk' = disk
    BY DEF Start
  <1>2. \/ phase' = "refused"
        \/ phase' = "evidence" /\ candidate' = [ registry |-> disk.registry, status |-> "locked" ]
    BY DEF Start, Refuse
  <1> QED BY <1>1, <1>2 DEF Adoption

\* Between the reading of the registry and the adoption nobody writes the copy.
LEMMA OthersKeepAdoption ==
    ASSUME Adoption, UNCHANGED disk, UNCHANGED candidate,
           phase \notin {"start", "refused", "adopted"}, phase' # "adopted"
    PROVE  Adoption'
  BY DEF Adoption

LEMMA AdoptKeepsAdoption ==
    ASSUME Adoption, Adopt
    PROVE  Adoption'
  <1>1. disk' = disk /\ candidate' = candidate /\ phase = "source"
    BY DEF Adopt, Refuse
  <1>2. \/ phase' = "refused"
        \/ phase' = "adopted" /\ Registered(candidate.registry) /\ SourceAgrees(candidate.registry)
    BY DEF Adopt, Refuse
  <1> QED BY <1>1, <1>2 DEF Adoption, Registered, SourceAgrees

LEMMA AdoptionKept == Adoption /\ [LockNext]_lockVars => Adoption'
  <1> SUFFICES ASSUME Adoption, [LockNext]_lockVars PROVE Adoption'
    OBVIOUS
  <1>1. CASE Mutate
    BY <1>1 DEF Mutate, verifier, Adoption
  <1>2. CASE ReadEvidence
    BY <1>2, OthersKeepAdoption DEF ReadEvidence, Refuse
  <1>3. CASE ReadDocument
    BY <1>3, OthersKeepAdoption DEF ReadDocument, Refuse
  <1>4. CASE ReadCatalog \/ ReadAdditions
    BY <1>4, OthersKeepAdoption DEF ReadCatalog, ReadAdditions
  <1>5. CASE PinEvidence
    BY <1>5, OthersKeepAdoption DEF PinEvidence, Refuse
  <1>6. CASE TakeDocument
    BY <1>6, OthersKeepAdoption DEF TakeDocument, Refuse
  <1>7. CASE ProjectBaseline
    BY <1>7, OthersKeepAdoption DEF ProjectBaseline, Refuse
  <1>8. CASE AdmitAdditions
    BY <1>8, OthersKeepAdoption DEF AdmitAdditions, Refuse
  <1>9. CASE CompareCatalog
    BY <1>9, OthersKeepAdoption DEF CompareCatalog, Refuse
  <1>10. CASE UNCHANGED lockVars
    BY <1>10 DEF lockVars, Adoption
  <1> QED
    BY <1>1, <1>2, <1>3, <1>4, <1>5, <1>6, <1>7, <1>8, <1>9, <1>10,
       EditKeepsAdoption, StartKeepsAdoption, AdoptKeepsAdoption DEF LockNext

\* What is adopted was registered, alone and as the reviewed package has it.
THEOREM AdoptionInvariant == LockSpec => []Adoption
  BY AdoptionHolds, AdoptionKept, PTL DEF LockSpec

\* A list of one entry is that entry's list.
LEMMA OneEntry ==
    ASSUME Adoption, phase = "adopted"
    PROVE  candidate.registry = <<ApprovedSource>>
  <1> DEFINE registry == candidate.registry
             Entries == UNION { { r[i] : i \in DOMAIN r } : r \in Registries }
  <1>1. registry \in Seq(Entries)
    BY PackageAssumption DEF Adoption
  <1>2. Len(registry) = 1 /\ registry[1] = ApprovedSource
    BY DEF Adoption, Registered, SourceAgrees
  <1> HIDE DEF Entries, registry
  <1>3. registry = <<ApprovedSource>>
    BY <1>1, <1>2
  <1> QED BY <1>3 DEF registry

\* A row that is approved for transition is locked in the projection.
LEMMA PromotedLocks ==
    ASSUME NEW row \in Row, row.id \in Transitions
    PROVE  Promoted(row).id = row.id /\ Promoted(row).status = "locked"
  <1>1. row \in [ id : {row.id}, status : {row.status}, review : {row.review} ]
    BY PackageAssumption
  <1>2. Promoted(row) = [row EXCEPT !.status = "locked", !.review = NoReview]
    BY DEF Promoted
  <1>3. DOMAIN row = {"id", "status", "review"}
    BY <1>1
  <1> QED BY <1>2, <1>3

\* A row keeps its id.
LEMMA PromotedKeepsId ==
    ASSUME NEW row \in Row
    PROVE  Promoted(row).id = row.id
  BY PromotedLocks DEF Promoted

\* In the reviewed catalog the contract is listed, and every row of it is locked.
LEMMA ContractIsLocked == StatusOf(Reviewed \o AdditionRows[PinnedAdditions], Contract) = "locked"
  <1> DEFINE base == RowsOf[Protected[Baseline]]
             added == AdditionRows[PinnedAdditions]
             found == Reviewed \o added
  <1>1. base \in Seq(Row) /\ added \in Seq(Row)
    BY LockAssumption
  <1>2. /\ Len(found) = Len(base) + Len(added)
        /\ \A i \in DOMAIN base : found[i] = Promoted(base[i])
        /\ \A i \in DOMAIN added : found[Len(base) + i] = added[i]
    BY ReviewedRows DEF Transitioned
  <1>3. \A i \in DOMAIN added : added[i].id # Contract
    BY PackageAssumption
  <1>4. PICK k \in DOMAIN base : base[k].id = Contract
    BY PackageAssumption
  <1>5. DOMAIN found = 1 .. Len(base) + Len(added)
    BY ReviewedRows
  <1> HIDE DEF base, added, found
  <1>6. k \in DOMAIN found /\ found[k].id = Contract
    BY <1>1, <1>2, <1>4, <1>5, PromotedKeepsId
  <1>7. ASSUME NEW i \in DOMAIN found, found[i].id = Contract
        PROVE  found[i].status = "locked"
    <2>1. CASE i \in DOMAIN base
      <3>1. base[i] \in Row /\ found[i] = Promoted(base[i])
        BY <1>1, <1>2, <2>1
      <3>2. base[i].id = Contract
        BY <1>7, <3>1, PromotedKeepsId
      <3> QED BY <3>1, <3>2, PromotedLocks, PackageAssumption
    <2>2. CASE i \notin DOMAIN base
      <3>1. i - Len(base) \in DOMAIN added /\ i = Len(base) + (i - Len(base))
        BY <1>1, <1>5, <1>7, <2>2
      <3>2. found[i] = added[i - Len(base)]
        BY <1>2, <3>1
      <3> QED BY <1>3, <1>7, <3>1, <3>2
    <2> QED BY <2>1, <2>2
  <1>8. StatusOf(found, Contract) = "locked"
    <2> DEFINE n == CHOOSE i \in DOMAIN found : found[i].id = Contract
    <2>1. n \in DOMAIN found /\ found[n].id = Contract
      BY <1>6
    <2>2. StatusOf(found, Contract) = found[n].status
      BY <1>6 DEF StatusOf
    <2> QED BY <1>7, <2>1, <2>2
  <1> QED BY <1>8 DEF found, added

\* adoptedMissionProtocolAuthority: what is adopted is the source the reviewed
\* package names, for a contract the qualified catalog locks, for every length
\* of the package, every catalog and every sequence of changes under the verifier.
THEOREM OnlyReviewedAdopted == LockSpec => []AdoptedAsReviewed
  <1>1. IInv /\ Adoption => AdoptedAsReviewed
    <2> SUFFICES ASSUME IInv, Adoption, phase = "adopted"
                 PROVE  candidate.registry = <<ApprovedSource>> /\ StatusOf(judged, Contract) = "locked"
      BY DEF AdoptedAsReviewed
    <2>1. judged = Reviewed \o AdditionRows[PinnedAdditions]
      BY DEF IInv, Worked
    <2> QED BY <2>1, OneEntry, ContractIsLocked
  <1> QED BY <1>1, Invariant, AdoptionInvariant, PTL

------------------------------------------------------------------------------
(* The contract check *)

\* The sections after a section.
AfterApis == {"worlds", "end", "green"}
AfterProtocols == {"apis"} \cup AfterApis
AfterVectors == {"retention", "protocols"} \cup AfterProtocols
AfterFixtures == {"vectors"} \cup AfterVectors
AfterSchemas == {"inventories", "fixtures"} \cup AfterFixtures
AfterManaged == {"schemas"} \cup AfterSchemas
AfterCatalog == {"managed"} \cup AfterManaged

\* A file is missing or has one of its contents.
TreeTyped == DOMAIN tree = File /\ \A f \in File : tree[f] \in Contents[f] \cup {Missing}

\* An example bites: its schema accepts it, and none of what it is spoiled into.
Biting(case, accepts) ==
    /\ case.valid \in accepts
    /\ Null \notin accepts /\ Unexpected(case.valid) \notin accepts
    /\ \E m \in case.mutations : Mutated(case.valid, m) # case.valid
    /\ \A m \in case.mutations : Mutated(case.valid, m) \notin accepts

AllBite ==
    \A f \in DOMAIN schemas \ {Common} :
        \E i \in DOMAIN cases : cases[i].schema = f /\ Biting(cases[i], schemas[f].accepts)

\* What each section leaves behind when it reports nothing and nobody edits.
RowsRead ==
    /\ IsList(rows)
    /\ \A i, j \in DOMAIN rows : rows[i].path = rows[j].path => i = j
    /\ \A i \in DOMAIN rows : rows[i].status # "locked" => tree[rows[i].review.dossier] # Missing

PathsGoverned ==
    /\ managed = { f \in File : tree[f] # Missing /\ RootOf[f] \in DOMAIN KindsAt }
    /\ managed = Cataloged

SchemasAsRead ==
    \A f \in DOMAIN schemas : schemas[f] = tree[f] /\ schemas[f].refs \subseteq DOMAIN schemas

PinsMet ==
    \A f \in Vectors : \A i \in DOMAIN tree[f].pins : tree[tree[f].pins[i].file] = tree[f].pins[i].bytes

AuthoritiesNamed ==
    \A f \in managed : RootOf[f] = "openapi" =>
        AuthorityOf(f).file \in File /\ RootOf[AuthorityOf(f).file] = "protocols"

ApisHome ==
    \A f \in managed : RootOf[f] = "openapi" =>
        /\ tree[AuthorityOf(f).file] # Missing /\ tree[AuthorityOf(f).file] = AuthorityOf(f).bytes
        /\ tree[f].refs \subseteq Cataloged
        /\ OneHome(f, tree[f], tree[AuthorityOf(f).file])

CatalogInv ==
    /\ TreeTyped
    /\ section = "green" => failures = {}
    /\ section \in AfterFixtures /\ failures = {} => AllBite
    /\ ~touched /\ failures = {} =>
          /\ section \in AfterCatalog => RowsRead
          /\ section \in AfterManaged => PathsGoverned
          /\ section \in AfterSchemas => SchemasAsRead
          /\ section \in AfterVectors => PinsMet
          /\ section \in AfterProtocols => AuthoritiesNamed
          /\ section \in AfterApis => ApisHome

LEMMA SectionsInOrder ==
    /\ AfterApis \subseteq AfterProtocols /\ AfterProtocols \subseteq AfterVectors
    /\ AfterVectors \subseteq AfterFixtures /\ AfterFixtures \subseteq AfterSchemas
    /\ AfterSchemas \subseteq AfterManaged /\ AfterManaged \subseteq AfterCatalog
    /\ "catalog" \notin AfterCatalog /\ "red" \notin AfterCatalog
    /\ "managed" \in AfterCatalog \ AfterManaged
    /\ "schemas" \in AfterManaged \ AfterSchemas
    /\ {"inventories", "fixtures"} \subseteq AfterSchemas \ AfterFixtures
    /\ "vectors" \in AfterFixtures \ AfterVectors
    /\ {"retention", "protocols"} \subseteq AfterVectors \ AfterProtocols
    /\ "apis" \in AfterProtocols \ AfterApis
    /\ {"worlds", "end", "green"} = AfterApis
BY DEF AfterApis, AfterProtocols, AfterVectors, AfterFixtures, AfterSchemas, AfterManaged, AfterCatalog

------------------------------------------------------------------------------
(* Lists *)

\* Lists with the same members equally often have the same members.
LEMMA SameMembers ==
    ASSUME NEW s, NEW t, IsList(s), IsList(t), SameList(s, t)
    PROVE  ToSet(s) = ToSet(t)
<1> DEFINE At(l, x) == { i \in DOMAIN l : l[i] = x }
<1>1. ASSUME NEW l, IsList(l), NEW x \in ToSet(l) PROVE Cardinality(At(l, x)) # 0
  <2>1. IsFiniteSet(DOMAIN l)
    <3>1. DOMAIN l = 1 .. Len(l) /\ Len(l) \in Nat
      BY <1>1 DEF IsList
    <3> QED BY <3>1, FS_Interval
  <2>2. IsFiniteSet(At(l, x))
    BY <2>1, FS_Subset
  <2>3. At(l, x) # {}
    BY <1>1 DEF ToSet
  <2> HIDE DEF At
  <2> QED BY <2>2, <2>3, FS_EmptySet
<1>2. ASSUME NEW l, NEW x, x \notin ToSet(l) PROVE Cardinality(At(l, x)) = 0
  <2>1. At(l, x) = {}
    BY <1>2 DEF ToSet
  <2> QED BY <2>1, FS_EmptySet
<1>3. \A x \in ToSet(s) \cup ToSet(t) : Cardinality(At(s, x)) = Cardinality(At(t, x))
  BY DEF SameList
<1> HIDE DEF At
<1>4. ASSUME NEW x \in ToSet(s) PROVE x \in ToSet(t)
  BY <1>1, <1>2, <1>3
<1>5. ASSUME NEW x \in ToSet(t) PROVE x \in ToSet(s)
  BY <1>1, <1>2, <1>3
<1> QED BY <1>4, <1>5

\* As many paths as rows, when no two rows have one.
LEMMA OnePathPerRow ==
    ASSUME RowsRead
    PROVE  Cardinality(Cataloged) = Len(rows)
<1>1. DOMAIN rows = 1 .. Len(rows) /\ Len(rows) \in Nat
  BY DEF RowsRead, IsList
<1> DEFINE path == [ i \in 1 .. Len(rows) |-> rows[i].path ]
<1>2. path \in Bijection(1 .. Len(rows), Cataloged)
  <2>1. path \in [ 1 .. Len(rows) -> Cataloged ]
    BY <1>1 DEF Cataloged
  <2>2. \A i, j \in 1 .. Len(rows) : path[i] = path[j] => i = j
    BY <1>1 DEF RowsRead
  <2>3. \A p \in Cataloged : \E i \in 1 .. Len(rows) : path[i] = p
    BY <1>1 DEF Cataloged
  <2> HIDE DEF path
  <2> QED BY <2>1, <2>2, <2>3 DEF Bijection, Injection, Surjection, IsInjective
<1>3. IsFiniteSet(1 .. Len(rows)) /\ Cardinality(1 .. Len(rows)) = Len(rows)
  <2> DEFINE n == Len(rows)
  <2>1. n \in Int /\ 1 \in Int /\ n >= 0
    BY <1>1
  <2> HIDE DEF n, path
  <2>2. IsFiniteSet(1 .. n) /\ Cardinality(1 .. n) = IF 1 > n THEN 0 ELSE n - 1 + 1
    BY <2>1, FS_Interval
  <2>3. Cardinality(1 .. n) = n
    BY <2>1, <2>2
  <2> QED BY <2>2, <2>3 DEF n
<1>4. ExistsBijection(1 .. Len(rows), Cataloged)
  <2> HIDE DEF path
  <2> QED BY <1>2 DEF ExistsBijection
<1> QED BY <1>3, <1>4, FS_Bijection

------------------------------------------------------------------------------
(* What a section's judgement means *)

LEMMA CatalogMeansRows ==
    ASSUME TreeTyped, Exists(CatalogFile), CatalogSound(tree[CatalogFile]),
           rows' = tree[CatalogFile].rows, tree' = tree
    PROVE  RowsRead'
<1> DEFINE list == tree[CatalogFile].rows
<1>1. IsList(list)
  BY DocumentAssumption DEF TreeTyped, Exists
<1>2. \A i, j \in DOMAIN list : list[i].path = list[j].path => i = j
  BY DEF CatalogSound, Distinct, IsInjective
<1>3. \A i \in DOMAIN list : list[i].status # "locked" => tree[list[i].review.dossier] # Missing
  BY DEF CatalogSound, RowSound, StatusSound, Exists
<1> HIDE DEF list
<1>4. rows' = list
  BY DEF list
<1> QED BY <1>1, <1>2, <1>3, <1>4 DEF RowsRead, IsList

LEMMA CaseBites ==
    ASSUME NEW case, CaseSound(case)
    PROVE  Biting(case, schemas[case.schema].accepts)
<1> DEFINE accepts == schemas[case.schema].accepts
<1>1. /\ case.valid \in accepts
      /\ {Null, Unexpected(case.valid)} \cap accepts = {}
      /\ case.mutations # {}
      /\ \A m \in case.mutations : Mutated(case.valid, m) \notin accepts
  BY DEF CaseSound, NegativeRefused
<1> HIDE DEF accepts
<1>2. \A m \in case.mutations : Mutated(case.valid, m) # case.valid
  BY <1>1
<1> QED BY <1>1, <1>2 DEF Biting, accepts

LEMMA FixturesMeanBites ==
    ASSUME DOMAIN schemas \ {Common} \subseteq Cased, \A i \in DOMAIN cases : CaseSound(cases[i])
    PROVE  AllBite
<1> SUFFICES ASSUME NEW f \in DOMAIN schemas \ {Common}
             PROVE  \E i \in DOMAIN cases : cases[i].schema = f /\ Biting(cases[i], schemas[f].accepts)
  BY DEF AllBite
<1>1. PICK i \in DOMAIN cases : cases[i].schema = f
  BY DEF Cased
<1> QED BY <1>1, CaseBites

LEMMA RegistryMeansNames ==
    ASSUME TreeTyped, Exists(Authorities), RegistrySound(tree[Authorities]),
           authority' = [ app \in Apps |->
               tree[Authorities][CHOOSE i \in DOMAIN tree[Authorities] : tree[Authorities][i].app = app] ],
           managed' = managed
    PROVE  AuthoritiesNamed'
<1> DEFINE registry == tree[Authorities]
           At(app) == CHOOSE i \in DOMAIN registry : registry[i].app = app
<1>1. \A i \in DOMAIN registry : registry[i].file \in File
  BY DocumentAssumption DEF TreeTyped, Exists
<1>2. \A i \in DOMAIN registry : RootOf[registry[i].file] = "protocols"
  BY DEF RegistrySound
<1>3. \A app \in Apps : \E i \in DOMAIN registry : registry[i].app = app
  BY DEF RegistrySound
<1>4. \A app \in Apps : At(app) \in DOMAIN registry
  BY <1>3
<1>5. \A app \in Apps : authority'[app] = registry[At(app)]
  OBVIOUS
<1> HIDE DEF registry, At
<1>6. ASSUME NEW f \in managed, RootOf[f] = "openapi", f # Adopted
      PROVE  authority'[AppOf[f]].file \in File /\ RootOf[authority'[AppOf[f]].file] = "protocols"
  <2>1. AppOf[f] \in Apps
    BY <1>6 DEF Apps, Under
  <2> QED BY <1>1, <1>2, <1>4, <1>5, <2>1
<1>7. AdoptedSource.file \in File /\ RootOf[AdoptedSource.file] = "protocols"
  BY DocumentAssumption
<1> QED BY <1>6, <1>7 DEF AuthoritiesNamed, AuthorityOf

\* An API that is found sound states what its protocol states, each operation in one home.
LEMMA SoundMeansHome ==
    ASSUME TreeTyped, NEW f \in File, RootOf[f] = "openapi", Exists(f), ApiSound(f),
           AuthorityOf(f).file \in File, RootOf[AuthorityOf(f).file] = "protocols"
    PROVE  /\ Pinned(AuthorityOf(f)) /\ tree[f].refs \subseteq Cataloged
           /\ OneHome(f, tree[f], tree[AuthorityOf(f).file])
<1> DEFINE api == tree[f]
           stated == tree[AuthorityOf(f).file]
           commands == ToSet(Stated(f, stated.commands))
           queries == ToSet(Stated(f, stated.queries))
           local == ToSet(LocalOperations[AppOf[f]])
<1>1. /\ DomainSound(f, api) /\ MappedExactly(api)
      /\ \A r \in DOMAIN api.routes : RouteSound(f, api, api.routes[r])
      /\ \A g \in api.refs : Exists(g) /\ g \in Cataloged
  BY DEF ApiSound
<1>2. /\ Pinned(AuthorityOf(f))
      /\ SameList(api.local, LocalOperations[AppOf[f]])
      /\ SameList(api.commands, Stated(f, stated.commands))
      /\ SameList(api.queries, Stated(f, stated.queries))
  BY <1>1 DEF DomainSound
<1>3. api \in Contents[f] /\ stated \in Contents[AuthorityOf(f).file]
  BY <1>2 DEF TreeTyped, Exists, Pinned
<1>4. /\ IsList(api.commands) /\ IsList(api.queries) /\ IsList(api.local)
      /\ IsList(LocalOperations[AppOf[f]])
  BY <1>3, DocumentAssumption
<1>5. IsList(Stated(f, stated.commands)) /\ IsList(Stated(f, stated.queries))
  <2>1. IsList(<< >>)
    BY DEF IsList
  <2>2. /\ \A major \in DOMAIN stated.commands : IsList(stated.commands[major])
        /\ \A major \in DOMAIN stated.queries : IsList(stated.queries[major])
    BY <1>3, DocumentAssumption
  <2> HIDE DEF stated
  <2> QED BY <2>1, <2>2 DEF Stated
<1> HIDE DEF api, stated
<1>6. ToSet(api.commands) = commands /\ ToSet(api.queries) = queries /\ ToSet(api.local) = local
  BY <1>2, <1>4, <1>5, SameMembers
<1> DEFINE all == commands \cup queries
<1>7. Operations(api) = all
  BY <1>6 DEF Operations
<1> HIDE DEF commands, queries, local
<1>8. /\ \A p, q \in Mappings(api) : Mapped(api, p) = Mapped(api, q) => p = q
      /\ { Mapped(api, p) : p \in Mappings(api) } = all \ local
  BY <1>1, <1>6, <1>7 DEF MappedExactly
<1>9. ASSUME NEW o \in all PROVE Cardinality(Served(api, o)) = IF o \in local THEN 0 ELSE 1
  <2>1. CASE o \in local
    <3>1. Served(api, o) = {}
      BY <1>8, <2>1 DEF Served
    <3> QED BY <2>1, <3>1, FS_EmptySet
  <2>2. CASE o \notin local
    <3>1. PICK p \in Mappings(api) : Mapped(api, p) = o
      BY <1>8, <2>2
    <3>2. Served(api, o) = {p}
      BY <1>8, <3>1 DEF Served
    <3> QED BY <2>2, <3>2, FS_Singleton
  <2> QED BY <2>1, <2>2
<1>10. ASSUME NEW o \in commands \ local, Reading(api, o) PROVE f = Callback[1]
  <2>1. PICK p \in Mappings(api) : Mapped(api, p) = o
    BY <1>8
  <2>2. PICK r \in DOMAIN api.routes : \E k \in DOMAIN api.routes[r].maps : p = << r, k >>
    BY <2>1 DEF Mappings
  <2>3. PICK k \in DOMAIN api.routes[r].maps : p = << r, k >>
    BY <2>2
  <2>4. p[1] = r /\ p[2] = k
    BY <2>3
  <2>5. o \in ToSet(api.routes[r].maps)
    BY <2>1, <2>3, <2>4 DEF Mapped, ToSet
  <2>6. api.routes[r].method = "get"
    BY <1>10, <2>1, <2>4 DEF Reading, Served
  <2>7. GetSound(f, api, api.routes[r])
    BY <1>1 DEF RouteSound
  <2>8. api.routes[r].changing
    BY <1>6, <2>5, <2>6, <2>7 DEF GetSound
  <2>9. << f, api.routes[r].route >> = Callback
    BY <2>7, <2>8 DEF GetSound
  <2> QED BY <2>9
<1>11. ASSUME NEW r \in DOMAIN api.routes PROVE ToSet(api.routes[r].maps) \subseteq all
  <2>1. ASSUME NEW k \in DOMAIN api.routes[r].maps PROVE api.routes[r].maps[k] \in all
    <3> DEFINE p == << r, k >>
    <3>1. p \in Mappings(api)
      BY DEF Mappings
    <3>2. Mapped(api, p) = api.routes[r].maps[k]
      BY DEF Mapped
    <3> HIDE DEF p
    <3> QED BY <1>8, <3>1, <3>2
  <2> QED BY <2>1 DEF ToSet
<1>12. OneHome(f, api, stated)
  BY <1>9, <1>10, <1>11 DEF OneHome, commands, queries, local
<1>13. tree[f].refs \subseteq Cataloged
  BY <1>1 DEF api
<1> QED BY <1>2, <1>12, <1>13 DEF api, stated

------------------------------------------------------------------------------
(* The run *)

LEMMA FactsStay ==
    /\ tree' = tree => (TreeTyped => TreeTyped')
    /\ schemas' = schemas /\ cases' = cases => (AllBite => AllBite')
    /\ tree' = tree /\ rows' = rows => (RowsRead => RowsRead')
    /\ tree' = tree /\ rows' = rows /\ managed' = managed => (PathsGoverned => PathsGoverned')
    /\ tree' = tree /\ schemas' = schemas => (SchemasAsRead => SchemasAsRead')
    /\ tree' = tree => (PinsMet => PinsMet')
    /\ managed' = managed /\ authority' = authority => (AuthoritiesNamed => AuthoritiesNamed')
    /\ tree' = tree /\ rows' = rows /\ managed' = managed /\ authority' = authority => (ApisHome => ApisHome')
<1>1. tree' = tree => (TreeTyped => TreeTyped')
  BY DEF TreeTyped
<1>2. schemas' = schemas /\ cases' = cases => (AllBite => AllBite')
  BY DEF AllBite
<1>3. tree' = tree /\ rows' = rows => (RowsRead => RowsRead')
  BY DEF RowsRead, IsList
<1>4. tree' = tree /\ rows' = rows /\ managed' = managed => (PathsGoverned => PathsGoverned')
  BY DEF PathsGoverned, Cataloged, KindsAt
<1>5. tree' = tree /\ schemas' = schemas => (SchemasAsRead => SchemasAsRead')
  BY DEF SchemasAsRead
<1>6. tree' = tree => (PinsMet => PinsMet')
  BY DEF PinsMet
<1>7. managed' = managed /\ authority' = authority => (AuthoritiesNamed => AuthoritiesNamed')
  BY DEF AuthoritiesNamed, AuthorityOf
<1>8. tree' = tree /\ rows' = rows /\ managed' = managed /\ authority' = authority => (ApisHome => ApisHome')
  BY DEF ApisHome, AuthorityOf, Cataloged
<1> QED BY <1>1, <1>2, <1>3, <1>4, <1>5, <1>6, <1>7, <1>8

LEMMA ThrownKeeps ==
    ASSUME CatalogInv, Thrown
    PROVE  CatalogInv'
<1>1. section' = "red" /\ tree' = tree
  BY DEF Thrown
<1> QED BY <1>1, SectionsInOrder, FactsStay DEF CatalogInv

LEMMA ReadRowsKeeps ==
    ASSUME CatalogInv, ReadRows
    PROVE  CatalogInv'
<1>1. CASE ~ Exists(CatalogFile)
  BY <1>1, ThrownKeeps DEF ReadRows
<1>2. CASE Exists(CatalogFile)
  <2>1. /\ section = "catalog" /\ section' = "managed"
        /\ tree' = tree /\ managed' = managed /\ schemas' = schemas
        /\ cases' = cases /\ authority' = authority /\ touched' = touched
        /\ failures' = {} => failures = {} /\ CatalogSound(tree[CatalogFile])
        /\ rows' = tree[CatalogFile].rows
    BY <1>2 DEF ReadRows, Judged, record
  <2>2. ASSUME ~ touched', failures' = {} PROVE RowsRead'
    BY <1>2, <2>1, <2>2, CatalogMeansRows DEF CatalogInv
  <2> QED BY <2>1, <2>2, SectionsInOrder, FactsStay DEF CatalogInv
<1> QED BY <1>1, <1>2

LEMMA ListManagedKeeps ==
    ASSUME CatalogInv, ListManaged
    PROVE  CatalogInv'
<1>1. /\ section = "managed" /\ section' = "schemas"
      /\ tree' = tree /\ rows' = rows /\ schemas' = schemas
      /\ cases' = cases /\ authority' = authority /\ touched' = touched
      /\ failures' = {} => failures = {} /\ Governed(managed')
      /\ managed' = { f \in File : Exists(f) /\ RootOf[f] \in DOMAIN KindsAt }
  BY DEF ListManaged, Judged, record
<1>2. ASSUME ~ touched', failures' = {} PROVE PathsGoverned'
  BY <1>1, <1>2 DEF PathsGoverned, Governed, Cataloged, Exists, KindsAt
<1> QED BY <1>1, <1>2, SectionsInOrder, FactsStay DEF CatalogInv

LEMMA LoadSchemasKeeps ==
    ASSUME CatalogInv, LoadSchemas
    PROVE  CatalogInv'
<1>1. /\ section = "schemas" /\ section' = "inventories"
      /\ tree' = tree /\ rows' = rows /\ managed' = managed
      /\ cases' = cases /\ authority' = authority /\ touched' = touched
      /\ failures' = {} => failures = {}
  BY DEF LoadSchemas, Judged
<1> DEFINE readable == { f \in Under("schemas") : Exists(f) /\ tree[f].loads }
           compiled == UNION { S \in SUBSET readable : \A f \in S : tree[f].refs \subseteq S }
<1>2. schemas' = [ f \in compiled |-> tree[f] ]
  BY DEF LoadSchemas
<1>3. \A f \in compiled : tree[f].refs \subseteq compiled
  OBVIOUS
<1> HIDE DEF compiled
<1>4. SchemasAsRead'
  BY <1>1, <1>2, <1>3 DEF SchemasAsRead
<1> QED BY <1>1, <1>4, SectionsInOrder, FactsStay DEF CatalogInv

LEMMA LoadFixturesKeeps ==
    ASSUME CatalogInv, LoadFixtures
    PROVE  CatalogInv'
<1> DEFINE there == /\ Exists(Fixtures)
                    /\ \A i \in DOMAIN Inventories : Exists(Inventories[i].file) \/ Inventories[i].tolerant
<1>1. CASE ~ there
  BY <1>1, ThrownKeeps DEF LoadFixtures
<1>2. CASE there
  <2>1. /\ section = "inventories" /\ section' = "fixtures"
        /\ tree' = tree /\ rows' = rows /\ managed' = managed
        /\ schemas' = schemas /\ authority' = authority /\ touched' = touched
        /\ failures' = {} => failures = {}
    BY <1>2 DEF LoadFixtures, Judged, record
  <2> QED BY <2>1, SectionsInOrder, FactsStay DEF CatalogInv
<1> QED BY <1>1, <1>2

LEMMA RunFixturesKeeps ==
    ASSUME CatalogInv, RunFixtures
    PROVE  CatalogInv'
<1>1. /\ section = "fixtures" /\ section' = "vectors"
      /\ tree' = tree /\ rows' = rows /\ managed' = managed /\ schemas' = schemas
      /\ cases' = cases /\ authority' = authority /\ touched' = touched
      /\ failures' = {} =>
            /\ failures = {}
            /\ DOMAIN schemas \ {Common} \subseteq Cased
            /\ \A i \in DOMAIN cases : CaseSound(cases[i])
  BY DEF RunFixtures, Judged, record
<1>2. ASSUME failures' = {} PROVE AllBite'
  BY <1>1, <1>2, FixturesMeanBites, FactsStay
<1> QED BY <1>1, <1>2, SectionsInOrder, FactsStay DEF CatalogInv

LEMMA CheckVectorsKeeps ==
    ASSUME CatalogInv, CheckVectors
    PROVE  CatalogInv'
<1>1. /\ section = "vectors" /\ section' = "retention"
      /\ tree' = tree /\ rows' = rows /\ managed' = managed /\ schemas' = schemas
      /\ cases' = cases /\ authority' = authority /\ touched' = touched
      /\ failures' = {} => failures = {} /\ \A f \in Vectors : PinsSound(tree[f].pins)
  BY DEF CheckVectors, Judged, record
<1>2. ASSUME ~ touched', failures' = {} PROVE PinsMet'
  BY <1>1, <1>2 DEF PinsMet, PinsSound
<1> QED BY <1>1, <1>2, SectionsInOrder, FactsStay DEF CatalogInv

LEMMA CheckRetentionKeeps ==
    ASSUME CatalogInv, CheckRetention
    PROVE  CatalogInv'
<1>1. /\ section = "retention" /\ section' = "protocols"
      /\ tree' = tree /\ rows' = rows /\ managed' = managed /\ schemas' = schemas
      /\ cases' = cases /\ authority' = authority /\ touched' = touched
      /\ failures' = {} => failures = {}
  BY DEF CheckRetention, Judged, record
<1> QED BY <1>1, SectionsInOrder, FactsStay DEF CatalogInv

LEMMA ResolveProtocolsKeeps ==
    ASSUME CatalogInv, ResolveProtocols
    PROVE  CatalogInv'
<1>1. CASE ~ (Exists(Authorities) /\ RegistrySound(tree[Authorities]) /\ Adoptable)
  BY <1>1, ThrownKeeps DEF ResolveProtocols
<1>2. CASE Exists(Authorities) /\ RegistrySound(tree[Authorities]) /\ Adoptable
  <2>1. /\ section = "protocols" /\ section' = "apis"
        /\ tree' = tree /\ rows' = rows /\ managed' = managed
        /\ schemas' = schemas /\ cases' = cases /\ touched' = touched
        /\ failures' = {} => failures = {}
    BY <1>2 DEF ResolveProtocols, Judged, record
  <2>2. ASSUME TRUE PROVE AuthoritiesNamed'
    BY <1>2, RegistryMeansNames DEF ResolveProtocols, CatalogInv
  <2> QED BY <2>1, <2>2, SectionsInOrder, FactsStay DEF CatalogInv
<1> QED BY <1>1, <1>2

LEMMA CheckApisKeeps ==
    ASSUME CatalogInv, CheckApis
    PROVE  CatalogInv'
<1>1. /\ section = "apis" /\ section' = "worlds"
      /\ tree' = tree /\ rows' = rows /\ managed' = managed /\ schemas' = schemas
      /\ cases' = cases /\ authority' = authority /\ touched' = touched
      /\ failures' = {} => failures = {} /\ \A f \in Under("openapi") : Exists(f) /\ ApiSound(f)
  BY DEF CheckApis, Judged, record
<1>2. ASSUME ~ touched', failures' = {} PROVE ApisHome'
  <2>1. TreeTyped /\ PathsGoverned /\ AuthoritiesNamed
    BY <1>1, <1>2, SectionsInOrder DEF CatalogInv
  <2>2. ASSUME NEW f \in managed, RootOf[f] = "openapi"
        PROVE  /\ Pinned(AuthorityOf(f)) /\ tree[f].refs \subseteq Cataloged
               /\ OneHome(f, tree[f], tree[AuthorityOf(f).file])
    <3>1. f \in File /\ Exists(f) /\ ApiSound(f)
      BY <1>1, <1>2, <2>1, <2>2 DEF PathsGoverned, Under
    <3>2. AuthorityOf(f).file \in File /\ RootOf[AuthorityOf(f).file] = "protocols"
      BY <2>1, <2>2 DEF AuthoritiesNamed
    <3> QED BY <2>1, <2>2, <3>1, <3>2, SoundMeansHome
  <2>3. ApisHome
    BY <2>2 DEF ApisHome, Pinned, Exists
  <2> QED BY <1>1, <2>3, FactsStay
<1> QED BY <1>1, <1>2, SectionsInOrder, FactsStay DEF CatalogInv

LEMMA CheckWorldsKeeps ==
    ASSUME CatalogInv, CheckWorlds
    PROVE  CatalogInv'
<1>1. /\ section = "worlds" /\ section' = "end"
      /\ tree' = tree /\ rows' = rows /\ managed' = managed /\ schemas' = schemas
      /\ cases' = cases /\ authority' = authority /\ touched' = touched
      /\ failures' = {} => failures = {}
  BY DEF CheckWorlds, Judged, record
<1> QED BY <1>1, SectionsInOrder, FactsStay DEF CatalogInv

LEMMA WriteKeeps ==
    ASSUME CatalogInv, Write
    PROVE  CatalogInv'
<1>1. /\ section \notin {"green", "red"} /\ section' = section /\ failures' = failures
      /\ touched' = (touched \/ section # "catalog")
      /\ schemas' = schemas /\ cases' = cases
  BY DEF Write, record
<1>2. TreeTyped'
  <2>1. PICK f \in File : \E c \in Contents[f] \cup {Missing} : tree' = [tree EXCEPT ![f] = c]
    BY DEF Write
  <2>2. PICK c \in Contents[f] \cup {Missing} : tree' = [tree EXCEPT ![f] = c]
    BY <2>1
  <2>3. TreeTyped
    BY DEF CatalogInv
  <2> QED BY <2>2, <2>3 DEF TreeTyped
<1> QED BY <1>1, <1>2, SectionsInOrder, FactsStay DEF CatalogInv

LEMMA ConcludeKeeps ==
    ASSUME CatalogInv, Conclude
    PROVE  CatalogInv'
<1>1. /\ section = "end" /\ section' = IF failures = {} THEN "green" ELSE "red"
      /\ tree' = tree /\ rows' = rows /\ managed' = managed /\ schemas' = schemas /\ cases' = cases
      /\ authority' = authority /\ failures' = failures /\ touched' = touched
  BY DEF Conclude, record
<1> QED BY <1>1, SectionsInOrder, FactsStay DEF CatalogInv

\* What a run keeps: as long as it reported nothing, every section it has behind it found its part
\* sound; and what the tree must show for that, the tree still shows while nobody edits it.
THEOREM CatalogInvariant == CatalogSpec => []CatalogInv
<1>1. CatalogInit => CatalogInv
  <2> SUFFICES ASSUME CatalogInit PROVE CatalogInv
    OBVIOUS
  <2>1. TreeTyped
    BY CatalogAssumption DEF CatalogInit, TreeTyped
  <2> QED BY <2>1, SectionsInOrder DEF CatalogInit, CatalogInv
<1>2. CatalogInv /\ [CatalogNext]_catalogVars => CatalogInv'
  <2> SUFFICES ASSUME CatalogInv, [CatalogNext]_catalogVars PROVE CatalogInv'
    OBVIOUS
  <2>1. CASE UNCHANGED catalogVars
    <3>1. /\ tree' = tree /\ rows' = rows /\ managed' = managed /\ schemas' = schemas /\ cases' = cases
          /\ authority' = authority /\ failures' = failures /\ section' = section /\ touched' = touched
      BY <2>1 DEF catalogVars
    <3> QED BY <3>1, FactsStay DEF CatalogInv
  <2> QED BY <2>1, WriteKeeps, ReadRowsKeeps, ListManagedKeeps, LoadSchemasKeeps, LoadFixturesKeeps,
             RunFixturesKeeps, CheckVectorsKeeps, CheckRetentionKeeps, ResolveProtocolsKeeps,
             CheckApisKeeps, CheckWorldsKeeps, ConcludeKeeps DEF CatalogNext
<1> QED BY <1>1, <1>2, PTL DEF CatalogSpec

\* In every green run, whatever was edited meanwhile, each schema but the shared definitions had an
\* example that it accepts, and refused null, an unknown member and each spoiled copy
\* (check-contracts.ts, fixtures).
THEOREM GreenFixturesBite == CatalogSpec => []FixturesBite
<1>1. CatalogInv => FixturesBite
  <2> SUFFICES ASSUME CatalogInv, Green PROVE FixturesBite
    BY DEF FixturesBite
  <2>1. AllBite
    BY SectionsInOrder DEF CatalogInv, Green
  <2> QED BY <2>1 DEF AllBite, Biting, FixturesBite
<1> QED BY <1>1, CatalogInvariant, PTL

\* In every green run over a tree that stood still, nothing that is cited is missing or other than
\* it is pinned, and every operation that a protocol states has one home
\* (check-contracts.ts, catalog, references and domain mappings).
THEOREM NothingEverDangles == CatalogSpec => []NothingDangles
<1>1. CatalogInv => NothingDangles
  <2> SUFFICES ASSUME CatalogInv, Green, ~ touched PROVE NothingDangles
    BY DEF NothingDangles
  <2>1. RowsRead /\ PathsGoverned /\ SchemasAsRead /\ PinsMet /\ ApisHome
    BY SectionsInOrder DEF CatalogInv, Green
  <2>2. { f \in File : Exists(f) /\ RootOf[f] \in DOMAIN KindsAt } = Cataloged
    BY <2>1 DEF PathsGoverned, Exists
  <2>3. Cardinality(Cataloged) = Len(rows)
    BY <2>1, OnePathPerRow
  <2>4. \A f \in Vectors : \A i \in DOMAIN tree[f].pins :
            /\ tree[tree[f].pins[i].file] = tree[f].pins[i].bytes
            /\ tree[f].pins[i].file \in DOMAIN schemas => schemas[tree[f].pins[i].file] = tree[f].pins[i].bytes
    BY <2>1 DEF PinsMet, SchemasAsRead
  <2>5. \A f \in Under("openapi") : Pinned(AuthorityOf(f)) /\ tree[f].refs \subseteq Cataloged
    BY <2>1 DEF ApisHome, Under, Pinned, Exists
  <2>6. \A f \in DOMAIN schemas : schemas[f].refs \subseteq DOMAIN schemas
    BY <2>1 DEF SchemasAsRead
  <2>7. \A i \in DOMAIN rows : rows[i].status # "locked" => Exists(rows[i].review.dossier)
    BY <2>1 DEF RowsRead, Exists
  <2>8. OneHomePerOperation
    BY <2>1 DEF OneHomePerOperation, ApisHome, Under
  <2> QED BY <2>2, <2>3, <2>4, <2>5, <2>6, <2>7, <2>8 DEF NothingDangles
<1> QED BY <1>1, CatalogInvariant, PTL

------------------------------------------------------------------------------
(* Recursive functions *)

\* There is a first point in every set of points.
Founded(D, R) == \A S \in (SUBSET D) \ {{}} : \E x \in S : \A y \in S : << y, x >> \notin R

\* A step from the values a function has below a point to its value there.
IsStep(step, D, V, R) ==
    /\ V # {}
    /\ \A x \in D : \A f \in [D -> V] : step[x][f] \in V
    /\ \A x \in D : \A f, g \in [D -> V] :
          (\A y \in D : << y, x >> \in R => f[y] = g[y]) => step[x][f] = step[x][g]

Obeys(f, step, D) == \A x \in D : f[x] = step[x][f]

\* A step that looks only below a point is obeyed by some function.
LEMMA Recursion ==
    ASSUME NEW D, NEW V, NEW R, NEW step, Founded(D, R), IsStep(step, D, V, R)
    PROVE  \E f \in [D -> V] : Obeys(f, step, D)
<1>0. /\ V # {}
      /\ \A x \in D : \A f \in [D -> V] : step[x][f] \in V
      /\ \A x \in D : \A f, g \in [D -> V] :
            (\A y \in D : << y, x >> \in R => f[y] = g[y]) => step[x][f] = step[x][g]
  BY DEF IsStep
<1> DEFINE Attempt(A, g) ==
               \A x \in A : g[x] = step[x][g] /\ \A y \in D : << y, x >> \in R => y \in A
           U == { x \in D : \E A \in SUBSET D : \E g \in [D -> V] : x \in A /\ Attempt(A, g) }
           chosen(x) == CHOOSE g \in [D -> V] : \E A \in SUBSET D : x \in A /\ Attempt(A, g)
           f == [ x \in D |-> IF x \in U THEN chosen(x)[x] ELSE CHOOSE v \in V : TRUE ]
<1>1. ASSUME NEW A \in SUBSET D, NEW B \in SUBSET D, NEW g \in [D -> V], NEW h \in [D -> V],
             Attempt(A, g), Attempt(B, h)
      PROVE  \A x \in A \cap B : g[x] = h[x]
  <2> DEFINE S == { x \in A \cap B : g[x] # h[x] }
  <2> SUFFICES ASSUME S # {} PROVE FALSE
    OBVIOUS
  <2>1. PICK x \in S : \A y \in S : << y, x >> \notin R
    BY DEF Founded
  <2>2. \A y \in D : << y, x >> \in R => g[y] = h[y]
    BY <1>1, <2>1
  <2>3. step[x][g] = step[x][h]
    BY <1>0, <2>2
  <2> QED BY <1>1, <2>3
<1>2. ASSUME NEW x \in U
      PROVE  chosen(x) \in [D -> V] /\ \E A \in SUBSET D : x \in A /\ Attempt(A, chosen(x))
  <2>1. \E g \in [D -> V] : \E A \in SUBSET D : x \in A /\ Attempt(A, g)
    OBVIOUS
  <2> HIDE DEF Attempt, U
  <2> QED BY <2>1
<1>3. f \in [D -> V]
  <2>1. \A x \in U : chosen(x)[x] \in V
    BY <1>2
  <2>2. (CHOOSE v \in V : TRUE) \in V
    BY <1>0
  <2> HIDE DEF chosen, U
  <2> QED BY <2>1, <2>2
<1>4. ASSUME NEW A \in SUBSET D, NEW g \in [D -> V], Attempt(A, g)
      PROVE  \A x \in A : x \in U /\ f[x] = g[x]
  <2> SUFFICES ASSUME NEW x \in A PROVE x \in U /\ f[x] = g[x]
    OBVIOUS
  <2>1. x \in U
    BY <1>4
  <2>2. PICK B \in SUBSET D : x \in B /\ Attempt(B, chosen(x))
    BY <1>2, <2>1
  <2>3. f[x] = chosen(x)[x]
    BY <2>1
  <2> HIDE DEF f, U, chosen, Attempt
  <2>4. chosen(x)[x] = g[x]
    BY <1>1, <1>2, <1>4, <2>1, <2>2
  <2> QED BY <2>1, <2>3, <2>4
<1> HIDE DEF f, chosen
<1>5. Attempt(U, f)
  <2> SUFFICES ASSUME NEW x \in U
               PROVE  f[x] = step[x][f] /\ \A y \in D : << y, x >> \in R => y \in U
    OBVIOUS
  <2>1. PICK A \in SUBSET D, g \in [D -> V] : x \in A /\ Attempt(A, g)
    OBVIOUS
  <2>2. \A y \in A : y \in U /\ f[y] = g[y]
    BY <1>4, <2>1
  <2>3. \A y \in D : << y, x >> \in R => y \in A
    BY <2>1
  <2>4. step[x][f] = step[x][g]
    <3>1. \A y \in D : << y, x >> \in R => f[y] = g[y]
      BY <2>2, <2>3
    <3> HIDE DEF U, Attempt
    <3> QED BY <1>0, <1>3, <3>1, <2>1
  <2> QED BY <2>1, <2>2, <2>3, <2>4
<1>6. U = D
  <2> SUFFICES ASSUME D \ U # {} PROVE FALSE
    OBVIOUS
  <2>1. PICK x \in D \ U : \A y \in D \ U : << y, x >> \notin R
    <3> DEFINE S == D \ U
    <3>1. S \in (SUBSET D) \ {{}}
      OBVIOUS
    <3> HIDE DEF S
    <3>2. \E z \in S : \A y \in S : << y, z >> \notin R
      BY <3>1 DEF Founded
    <3> QED BY <3>2 DEF S
  <2> DEFINE h == [f EXCEPT ![x] = step[x][f]]
             B == U \cup {x}
  <2>2. h \in [D -> V] /\ h[x] = step[x][f] /\ \A y \in D : y # x => h[y] = f[y]
    <3>1. step[x][f] \in V
      BY <1>0, <1>3
    <3> HIDE DEF U
    <3> QED BY <1>3, <3>1
  <2>3. B \in SUBSET D /\ \A y \in U : y # x
    OBVIOUS
  <2> HIDE DEF h
  <2>4. ASSUME NEW u \in U PROVE h[u] = step[u][h] /\ \A y \in D : << y, u >> \in R => y \in B
    <3>1. f[u] = step[u][f] /\ \A y \in D : << y, u >> \in R => y \in U
      BY <1>5
    <3>2. \A y \in D : << y, u >> \in R => f[y] = h[y]
      BY <2>2, <2>3, <3>1
    <3>3. step[u][f] = step[u][h]
      <4> HIDE DEF U, Attempt
      <4> QED BY <1>0, <1>3, <2>2, <2>3, <3>2
    <3> QED BY <2>2, <2>3, <3>1, <3>3
  <2>5. h[x] = step[x][h] /\ \A y \in D : << y, x >> \in R => y \in B
    <3>1. \A y \in D : << y, x >> \in R => y \in U
      BY <2>1
    <3>2. \A y \in D : << y, x >> \in R => f[y] = h[y]
      BY <2>2, <2>3, <3>1
    <3>3. step[x][f] = step[x][h]
      <4> HIDE DEF U, Attempt
      <4> QED BY <1>0, <1>3, <2>1, <2>2, <3>2
    <3> QED BY <2>2, <3>1, <3>3
  <2>6. Attempt(B, h)
    BY <2>4, <2>5
  <2>7. x \in U
    <3> HIDE DEF Attempt
    <3>1. x \in D /\ x \in B
      BY <2>1
    <3> HIDE DEF B
    <3> QED BY <2>2, <2>3, <2>6, <3>1
  <2> QED BY <2>1, <2>7
<1>7. \A x \in D : f[x] = step[x][f]
  <2>1. \A x \in U : f[x] = step[x][f]
    BY <1>5
  <2> HIDE DEF U
  <2> QED BY <2>1, <1>6
<1> QED BY <1>3, <1>7 DEF Obeys

------------------------------------------------------------------------------
(* The projections of the schemas *)

\* Documents by their names: finitely many, each finite and without a circle.
IsTree(docs) == IsFiniteSet(DOMAIN docs) /\ \A n \in DOMAIN docs : IsDocument(docs[n])

Ends(docs) == {{"unknown"}, {"refused"}} \cup { End(Node(docs, at)) : at \in Places(docs) }

\* The keywords and names that stand in the documents.
Keys(docs) == UNION { { k.keyword : k \in Node(docs, at).kids } : at \in Places(docs) }

Projections(docs) == SUBSET (Seq(Keys(docs)) \X Ends(docs))

\* What a visit leads to: a part of the document, or the place a new reference names.
Below(docs) ==
    { e \in Visits(docs) \X Visits(docs) :
        \/ e[1][2] = e[2][2] /\ \E k \in Node(docs, e[2][1]).kids : e[1][1] = << e[2][1][1], k.at >>
        \/ e[2][2] \subseteq e[1][2] /\ e[2][2] # e[1][2] }

\* There are finitely many places.
LEMMA PlacesFinite ==
    ASSUME NEW docs, IsTree(docs)
    PROVE  IsFiniteSet(Places(docs))
<1> DEFINE T == { {n} \X DOMAIN docs[n] : n \in DOMAIN docs }
           f == [ n \in DOMAIN docs |-> {n} \X DOMAIN docs[n] ]
<1>1. f \in Surjection(DOMAIN docs, T)
  BY DEF Surjection
<1>2. IsFiniteSet(T)
  <2> HIDE DEF f, T
  <2>1. IsFiniteSet(DOMAIN docs)
    BY DEF IsTree
  <2> QED BY <1>1, <2>1, FS_Surjection
<1>3. \A t \in T : IsFiniteSet(t)
  <2> SUFFICES ASSUME NEW n \in DOMAIN docs PROVE IsFiniteSet({n} \X DOMAIN docs[n])
    OBVIOUS
  <2>1. IsFiniteSet({n}) /\ IsFiniteSet(DOMAIN docs[n])
    BY FS_Singleton DEF IsTree, IsDocument
  <2> QED BY <2>1, FS_Product
<1> QED BY <1>2, <1>3, FS_UNION DEF Places

\* A set of numbers has a least one.
LEMMA LeastNumber ==
    ASSUME NEW S \in SUBSET Nat, S # {}
    PROVE  \E n \in S : \A m \in S : n <= m
<1>1. PICK n \in S : \A m \in S : ~ (<< m, n >> \in OpToRel(<, Nat))
  BY NatLessThanWellFounded, WFMin
<1>2. \A m \in S : ~ (m < n)
  BY <1>1 DEF OpToRel
<1> QED BY <1>2

\* A set of visits has one with nothing below it in the set: one that followed the most references,
\* at a node without a part in the set.
LEMMA VisitsFounded ==
    ASSUME NEW docs, IsTree(docs)
    PROVE  Founded(Visits(docs), Below(docs))
<1> SUFFICES ASSUME NEW S \in (SUBSET Visits(docs)) \ {{}}
             PROVE  \E x \in S : \A y \in S : << y, x >> \notin Below(docs)
  BY DEF Founded
<1> DEFINE P == Places(docs)
           left(v) == Cardinality(P \ v[2])
           Lefts == { left(v) : v \in S }
<1>1. IsFiniteSet(P)
  BY PlacesFinite
<1>2. \A v \in S : v = << v[1], v[2] >> /\ v[1] \in P /\ v[2] \in SUBSET P
  BY DEF Visits
<1>3. \A v \in S : left(v) \in Nat
  <2> SUFFICES ASSUME NEW v \in S PROVE left(v) \in Nat
    OBVIOUS
  <2>1. IsFiniteSet(P \ v[2])
    BY <1>1, FS_Difference
  <2> QED BY <2>1, FS_CardinalityType
<1>4. PICK m \in Lefts : \A n \in Lefts : m <= n
  <2>1. Lefts \in SUBSET Nat /\ Lefts # {}
    BY <1>3
  <2> HIDE DEF Lefts
  <2> QED BY <2>1, LeastNumber
<1>5. PICK v \in S : left(v) = m
  BY <1>4
<1> DEFINE n == v[1][1]
           T == { p \in DOMAIN docs[n] : << << n, p >>, v[2] >> \in S }
<1>6. n \in DOMAIN docs /\ v[1][2] \in DOMAIN docs[n] /\ v[1] = << n, v[1][2] >>
  <2>1. v[1] \in Places(docs)
    BY <1>2, <1>5
  <2> QED BY <2>1 DEF Places
<1>7. T \in (SUBSET DOMAIN docs[n]) \ {{}}
  <2>1. v[1][2] \in T
    BY <1>2, <1>5, <1>6
  <2> QED BY <2>1
<1>8. PICK p \in T : \A k \in docs[n][p].kids : k.at \notin T
  <2>1. IsDocument(docs[n])
    BY <1>6 DEF IsTree
  <2> HIDE DEF T, n
  <2> QED BY <1>7, <2>1 DEF IsDocument
<1> DEFINE x == << << n, p >>, v[2] >>
<1>9. x \in S /\ x[2] = v[2] /\ x[1] = << n, p >>
  BY <1>8
<1>10. ASSUME NEW y \in S, << y, x >> \in Below(docs) PROVE FALSE
  <2>1. CASE y[2] = x[2] /\ \E k \in Node(docs, x[1]).kids : y[1] = << x[1][1], k.at >>
    <3>1. PICK k \in docs[n][p].kids : y[1] = << n, k.at >>
      BY <1>9, <2>1 DEF Node
    <3>2. y = << << n, k.at >>, v[2] >>
      BY <1>2, <1>9, <2>1, <3>1
    <3>3. k.at \in DOMAIN docs[n]
      BY <1>6, <1>8 DEF IsTree, IsDocument
    <3> QED BY <1>8, <3>2, <3>3
  <2>2. CASE x[2] \subseteq y[2] /\ x[2] # y[2]
    <3>1. v[2] \subseteq y[2] /\ v[2] # y[2] /\ y[2] \subseteq P /\ v[2] \subseteq P
      BY <1>2, <1>5, <1>9, <2>2
    <3> DEFINE A == P \ v[2]
               B == P \ y[2]
    <3>2. IsFiniteSet(A) /\ B \in SUBSET A /\ B # A
      BY <1>1, <3>1, FS_Difference
    <3>3. Cardinality(B) <= Cardinality(A) /\ Cardinality(B) # Cardinality(A)
      <4> HIDE DEF A, B
      <4> QED BY <3>2, FS_Subset
    <3>4. left(y) <= m /\ left(y) # m
      BY <1>5, <3>3
    <3>5. m <= left(y)
      BY <1>4, <1>10
    <3>6. left(y) \in Nat /\ m \in Nat
      BY <1>3, <1>5, <1>10
    <3> HIDE DEF left
    <3> QED BY <3>4, <3>5, <3>6
  <2>3. \/ y[2] = x[2] /\ \E k \in Node(docs, x[1]).kids : y[1] = << x[1][1], k.at >>
        \/ x[2] \subseteq y[2] /\ x[2] # y[2]
    <3> HIDE DEF x
    <3> QED BY <1>10 DEF Below
  <2> QED BY <2>1, <2>2, <2>3
<1> QED BY <1>9, <1>10

\* The visits a projection makes from a visit are visits below it.
LEMMA LeadsBelow ==
    ASSUME NEW docs, IsTree(docs), NEW v \in Visits(docs)
    PROVE  /\ v[1] \in Places(docs) /\ v[2] \in SUBSET Places(docs)
           /\ \A k \in Node(docs, v[1]).kids :
                 /\ << << v[1][1], k.at >>, v[2] >> \in Visits(docs)
                 /\ << << << v[1][1], k.at >>, v[2] >>, v >> \in Below(docs)
           /\ \A ref \in Places(docs) \ v[2] :
                 /\ << ref, v[2] \cup {ref} >> \in Visits(docs)
                 /\ << << ref, v[2] \cup {ref} >>, v >> \in Below(docs)
<1>1. v[1] \in Places(docs) /\ v[2] \in SUBSET Places(docs)
  BY DEF Visits
<1>2. ASSUME NEW k \in Node(docs, v[1]).kids
      PROVE  /\ << << v[1][1], k.at >>, v[2] >> \in Visits(docs)
             /\ << << << v[1][1], k.at >>, v[2] >>, v >> \in Below(docs)
  <2>1. v[1][1] \in DOMAIN docs /\ v[1][2] \in DOMAIN docs[v[1][1]]
    BY <1>1 DEF Places
  <2>2. k.at \in DOMAIN docs[v[1][1]]
    BY <2>1 DEF IsTree, IsDocument, Node
  <2>3. << v[1][1], k.at >> \in Places(docs)
    BY <2>1, <2>2 DEF Places
  <2> DEFINE w == << << v[1][1], k.at >>, v[2] >>
  <2>4. w \in Visits(docs) /\ w[1] = << v[1][1], k.at >> /\ w[2] = v[2]
    BY <1>1, <2>3 DEF Visits
  <2> HIDE DEF w
  <2>5. << w, v >> \in Below(docs)
    BY <2>4 DEF Below
  <2> QED BY <2>4, <2>5 DEF w
<1>3. ASSUME NEW ref \in Places(docs) \ v[2]
      PROVE  /\ << ref, v[2] \cup {ref} >> \in Visits(docs)
             /\ << << ref, v[2] \cup {ref} >>, v >> \in Below(docs)
  <2> DEFINE w == << ref, v[2] \cup {ref} >>
  <2>1. w \in Visits(docs) /\ w[2] = v[2] \cup {ref}
    BY <1>1 DEF Visits
  <2>2. v[2] \subseteq w[2] /\ v[2] # w[2]
    BY <2>1
  <2> HIDE DEF w
  <2>3. << w, v >> \in Below(docs)
    BY <2>1, <2>2 DEF Below
  <2> QED BY <2>1, <2>3 DEF w
<1> QED BY <1>1, <1>2, <1>3

\* One visit of renderType, and of project_schema, given what later visits yield.
RenderStep(docs, v, render) ==
    LET node == Node(docs, v[1])
    IN  IF node.ref # NoRef
        THEN IF ~Known(docs, node.ref) THEN Refused
             ELSE IF node.ref \in v[2] THEN Recurring(Node(docs, node.ref))
             ELSE render[<< node.ref, v[2] \cup {node.ref} >>]
        ELSE { << << >>, End(node) >> } \cup
             UNION { Under1(k.keyword, render[<< << v[1][1], k.at >>, v[2] >>]) : k \in TypeParts(node) }

ProjectStep(docs, v, project) ==
    LET node == Node(docs, v[1])
    IN  IF \E p \in DOMAIN docs[v[1][1]] : docs[v[1][1]][p].embedded THEN Refused
        ELSE IF node.ref # NoRef
        THEN IF node.siblings \/ ~Known(docs, node.ref) THEN Refused
             ELSE IF node.ref \in v[2] THEN RecurringInRust(Node(docs, node.ref))
             ELSE project[<< node.ref, v[2] \cup {node.ref} >>]
        ELSE IF node.map /\ \E k \in node.kids : k.keyword = "allOf" THEN Refused
        ELSE { << << >>, End(node) >> } \cup
             UNION { Under1(k.keyword, project[<< << v[1][1], k.at >>, v[2] >>]) : k \in RustParts(node) }

\* Both projections follow parts of the node only.
LEMMA PartsOfTheNode ==
    ASSUME NEW node
    PROVE  TypeParts(node) \in SUBSET node.kids /\ RustParts(node) \in SUBSET node.kids
BY DEF TypeParts, RustParts

LEMMA UnderTyped ==
    ASSUME NEW docs, NEW keyword \in Keys(docs), NEW paths \in Projections(docs)
    PROVE  Under1(keyword, paths) \in Projections(docs)
<1> SUFFICES ASSUME NEW p \in paths
             PROVE  << << keyword >> \o p[1], p[2] >> \in Seq(Keys(docs)) \X Ends(docs)
  BY DEF Under1, Projections
<1>1. p[1] \in Seq(Keys(docs)) /\ p[2] \in Ends(docs)
  BY DEF Projections
<1>2. << keyword >> \in Seq(Keys(docs))
  OBVIOUS
<1>3. << keyword >> \o p[1] \in Seq(Keys(docs))
  BY <1>1, <1>2
<1> QED BY <1>1, <1>3

LEMMA EndsTyped ==
    ASSUME NEW docs
    PROVE  /\ Refused \in Projections(docs)
           /\ \A target : Recurring(target) \in Projections(docs)
           /\ \A target : RecurringInRust(target) \in Projections(docs)
           /\ \A at \in Places(docs) : { << << >>, End(Node(docs, at)) >> } \in Projections(docs)
<1>1. << >> \in Seq(Keys(docs))
  OBVIOUS
<1>2. ASSUME NEW e \in Ends(docs) PROVE { << << >>, e >> } \in Projections(docs)
  <2>1. << << >>, e >> \in Seq(Keys(docs)) \X Ends(docs)
    BY <1>1
  <2> QED BY <2>1 DEF Projections
<1>3. {"unknown"} \in Ends(docs) /\ {"refused"} \in Ends(docs)
  BY DEF Ends
<1>4. \A at \in Places(docs) : End(Node(docs, at)) \in Ends(docs)
  BY DEF Ends
<1>5. { << << >>, {"unknown"} >> } \in Projections(docs) /\ Refused \in Projections(docs)
  BY <1>2, <1>3 DEF Refused
<1>6. ASSUME NEW target
      PROVE  Recurring(target) \in Projections(docs) /\ RecurringInRust(target) \in Projections(docs)
  BY <1>5 DEF Recurring, RecurringInRust
<1>7. ASSUME NEW at \in Places(docs) PROVE { << << >>, End(Node(docs, at)) >> } \in Projections(docs)
  BY <1>2, <1>4
<1> QED BY <1>5, <1>6, <1>7

\* The parts of a node that a projection follows, put together.
LEMMA PartsTyped ==
    ASSUME NEW docs, IsTree(docs), NEW v \in Visits(docs), NEW f \in [Visits(docs) -> Projections(docs)],
           NEW parts \in SUBSET Node(docs, v[1]).kids
    PROVE  { << << >>, End(Node(docs, v[1])) >> } \cup
             UNION { Under1(k.keyword, f[<< << v[1][1], k.at >>, v[2] >>]) : k \in parts } \in Projections(docs)
<1> DEFINE node == Node(docs, v[1])
           own == { << << >>, End(node) >> }
           part(k) == Under1(k.keyword, f[<< << v[1][1], k.at >>, v[2] >>])
<1>1. v[1] \in Places(docs)
  BY LeadsBelow
<1>2. own \in Projections(docs)
  BY <1>1, EndsTyped
<1>3. ASSUME NEW k \in parts PROVE part(k) \in Projections(docs)
  <2>1. k \in node.kids /\ k.keyword \in Keys(docs)
    BY <1>1 DEF Keys
  <2> DEFINE w == << << v[1][1], k.at >>, v[2] >>
  <2>2. w \in Visits(docs)
    BY <2>1, LeadsBelow
  <2> HIDE DEF w
  <2>3. f[w] \in Projections(docs)
    BY <2>2
  <2> QED BY <2>1, <2>3, UnderTyped DEF w
<1> HIDE DEF part, own, node
<1>4. UNION { part(k) : k \in parts } \in Projections(docs)
  BY <1>3 DEF Projections
<1>5. own \cup UNION { part(k) : k \in parts } \in Projections(docs)
  BY <1>2, <1>4 DEF Projections
<1> QED BY <1>5 DEF part, own, node

LEMMA RenderStepTyped ==
    ASSUME NEW docs, IsTree(docs), NEW v \in Visits(docs), NEW f \in [Visits(docs) -> Projections(docs)]
    PROVE  RenderStep(docs, v, f) \in Projections(docs)
<1> DEFINE node == Node(docs, v[1])
           w == << node.ref, v[2] \cup {node.ref} >>
           parts == { << << >>, End(node) >> } \cup
                    UNION { Under1(k.keyword, f[<< << v[1][1], k.at >>, v[2] >>]) : k \in TypeParts(node) }
<1>1. node.ref \in Places(docs) \ v[2] => w \in Visits(docs)
  BY LeadsBelow
<1>2. parts \in Projections(docs)
  BY PartsOfTheNode, PartsTyped
<1>3. RenderStep(docs, v, f) =
        IF node.ref # NoRef
        THEN IF ~Known(docs, node.ref) THEN Refused
             ELSE IF node.ref \in v[2] THEN Recurring(Node(docs, node.ref)) ELSE f[w]
        ELSE parts
  BY DEF RenderStep
<1> HIDE DEF parts, w, node
<1>4. node.ref \in Places(docs) \ v[2] => f[w] \in Projections(docs)
  BY <1>1
<1> QED BY <1>2, <1>3, <1>4, EndsTyped DEF Known

LEMMA ProjectStepTyped ==
    ASSUME NEW docs, IsTree(docs), NEW v \in Visits(docs), NEW f \in [Visits(docs) -> Projections(docs)]
    PROVE  ProjectStep(docs, v, f) \in Projections(docs)
<1> DEFINE node == Node(docs, v[1])
           w == << node.ref, v[2] \cup {node.ref} >>
           embedded == \E p \in DOMAIN docs[v[1][1]] : docs[v[1][1]][p].embedded
           misnamed == node.map /\ \E k \in node.kids : k.keyword = "allOf"
           parts == { << << >>, End(node) >> } \cup
                    UNION { Under1(k.keyword, f[<< << v[1][1], k.at >>, v[2] >>]) : k \in RustParts(node) }
<1>1. node.ref \in Places(docs) \ v[2] => w \in Visits(docs)
  BY LeadsBelow
<1>2. parts \in Projections(docs)
  BY PartsOfTheNode, PartsTyped
<1>3. ProjectStep(docs, v, f) =
        IF embedded THEN Refused
        ELSE IF node.ref # NoRef
        THEN IF node.siblings \/ ~Known(docs, node.ref) THEN Refused
             ELSE IF node.ref \in v[2] THEN RecurringInRust(Node(docs, node.ref)) ELSE f[w]
        ELSE IF misnamed THEN Refused ELSE parts
  BY DEF ProjectStep
<1> HIDE DEF parts, w, node, embedded, misnamed
<1>4. node.ref \in Places(docs) \ v[2] => f[w] \in Projections(docs)
  BY <1>1
<1> QED BY <1>2, <1>3, <1>4, EndsTyped DEF Known

\* A step looks at later visits only, whatever the function is elsewhere.
LEMMA StepsLocal ==
    ASSUME NEW docs, IsTree(docs), NEW v \in Visits(docs), NEW f, NEW g,
           \A w \in Visits(docs) : << w, v >> \in Below(docs) => f[w] = g[w]
    PROVE  /\ RenderStep(docs, v, f) = RenderStep(docs, v, g)
           /\ ProjectStep(docs, v, f) = ProjectStep(docs, v, g)
<1> DEFINE node == Node(docs, v[1])
           part(h, k) == Under1(k.keyword, h[<< << v[1][1], k.at >>, v[2] >>])
           types == TypeParts(node)
           rust == RustParts(node)
<1>1. node.ref \in Places(docs) \ v[2] =>
        f[<< node.ref, v[2] \cup {node.ref} >>] = g[<< node.ref, v[2] \cup {node.ref} >>]
  BY LeadsBelow
<1>2. ASSUME NEW k \in node.kids PROVE part(f, k) = part(g, k)
  BY LeadsBelow
<1>3. ASSUME NEW parts \in SUBSET node.kids
      PROVE  UNION { part(f, k) : k \in parts } = UNION { part(g, k) : k \in parts }
  <2> HIDE DEF part, node
  <2> QED BY <1>2
<1>4. types \in SUBSET node.kids /\ rust \in SUBSET node.kids
  BY PartsOfTheNode
<1>5. RenderStep(docs, v, f) = RenderStep(docs, v, g)
  <2>1. \A h : RenderStep(docs, v, h) =
          IF node.ref # NoRef
          THEN IF ~Known(docs, node.ref) THEN Refused
               ELSE IF node.ref \in v[2] THEN Recurring(Node(docs, node.ref))
               ELSE h[<< node.ref, v[2] \cup {node.ref} >>]
          ELSE { << << >>, End(node) >> } \cup UNION { part(h, k) : k \in types }
    BY DEF RenderStep
  <2> HIDE DEF part, node, types, rust
  <2>2. UNION { part(f, k) : k \in types } = UNION { part(g, k) : k \in types }
    BY <1>3, <1>4
  <2> QED BY <1>1, <2>1, <2>2 DEF Known
<1>6. ProjectStep(docs, v, f) = ProjectStep(docs, v, g)
  <2> DEFINE embedded == \E p \in DOMAIN docs[v[1][1]] : docs[v[1][1]][p].embedded
             misnamed == node.map /\ \E k \in node.kids : k.keyword = "allOf"
  <2>1. \A h : ProjectStep(docs, v, h) =
          IF embedded THEN Refused
          ELSE IF node.ref # NoRef
          THEN IF node.siblings \/ ~Known(docs, node.ref) THEN Refused
               ELSE IF node.ref \in v[2] THEN RecurringInRust(Node(docs, node.ref))
               ELSE h[<< node.ref, v[2] \cup {node.ref} >>]
          ELSE IF misnamed THEN Refused
          ELSE { << << >>, End(node) >> } \cup UNION { part(h, k) : k \in rust }
    BY DEF ProjectStep
  <2> HIDE DEF part, node, embedded, misnamed, types, rust
  <2>2. UNION { part(f, k) : k \in rust } = UNION { part(g, k) : k \in rust }
    BY <1>3, <1>4
  <2> QED BY <1>1, <2>1, <2>2 DEF Known
<1> QED BY <1>5, <1>6

\* The functions that the two recursions define.
Rendering(docs, r) == r = [ v \in Visits(docs) |-> RenderStep(docs, v, r) ]
Projecting(docs, r) == r = [ v \in Visits(docs) |-> ProjectStep(docs, v, r) ]

\* The recursion of renderType defines one function, which obeys it everywhere.
LEMMA RenderDefined ==
    ASSUME NEW docs, IsTree(docs)
    PROVE  \E r \in [Visits(docs) -> Projections(docs)] :
             /\ \A v \in Visits(docs) : r[v] = RenderStep(docs, v, r)
             /\ \A at, stack : RenderType(docs, at, stack) = r[<< at, stack >>]
<1> DEFINE D == Visits(docs)
           V == Projections(docs)
           step == [ v \in D |-> [ f \in [D -> V] |-> RenderStep(docs, v, f) ] ]
           below == Below(docs)
           R == CHOOSE r : Rendering(docs, r)
<1>1. PICK r \in [D -> V] : Obeys(r, step, D)
  <2>1. \A v \in D : \A f \in [D -> V] : step[v][f] \in V
    BY RenderStepTyped
  <2>2. \A v \in D : \A f, g \in [D -> V] :
          (\A w \in D : << w, v >> \in below => f[w] = g[w]) => step[v][f] = step[v][g]
    BY StepsLocal
  <2>3. V # {}
    BY DEF Projections
  <2>4. Founded(D, below)
    BY VisitsFounded
  <2>5. IsStep(step, D, V, below)
    <3> HIDE DEF D, V, step, below
    <3> QED BY <2>1, <2>2, <2>3 DEF IsStep
  <2> HIDE DEF D, V, step, below, R
  <2> QED BY <2>4, <2>5, Recursion
<1>2. \A v \in D : r[v] = RenderStep(docs, v, r)
  BY <1>1 DEF Obeys
<1>3. Rendering(docs, r)
  <2> HIDE DEF V
  <2> QED BY <1>2 DEF Rendering
<1>4. Rendering(docs, R)
  BY <1>3, Zenon
<1>5. \A v \in D : R[v] = r[v]
  <2> DEFINE S == { v \in D : R[v] # r[v] }
  <2> SUFFICES ASSUME S # {} PROVE FALSE
    OBVIOUS
  <2>1. PICK v \in S : \A w \in S : << w, v >> \notin Below(docs)
    BY VisitsFounded DEF Founded
  <2> HIDE DEF R
  <2>2. RenderStep(docs, v, R) = RenderStep(docs, v, r)
    BY <2>1, StepsLocal
  <2>3. R[v] = RenderStep(docs, v, R)
    BY <1>4, <2>1 DEF Rendering
  <2> QED BY <1>2, <2>1, <2>2, <2>3
<1>6. R = r
  <2>1. R = [ v \in D |-> R[v] ]
    <3> HIDE DEF R
    <3> QED BY <1>4 DEF Rendering
  <2> HIDE DEF R, V
  <2> QED BY <1>5, <2>1
<1>7. \A at, stack : RenderType(docs, at, stack) = R[<< at, stack >>]
  BY DEF RenderType, Rendering, RenderStep
<1> QED BY <1>2, <1>6, <1>7

\* So does that of project_schema_value.
LEMMA ProjectDefined ==
    ASSUME NEW docs, IsTree(docs)
    PROVE  \E r \in [Visits(docs) -> Projections(docs)] :
             /\ \A v \in Visits(docs) : r[v] = ProjectStep(docs, v, r)
             /\ \A at, stack : ProjectSchema(docs, at, stack) = r[<< at, stack >>]
<1> DEFINE D == Visits(docs)
           V == Projections(docs)
           step == [ v \in D |-> [ f \in [D -> V] |-> ProjectStep(docs, v, f) ] ]
           below == Below(docs)
           R == CHOOSE r : Projecting(docs, r)
<1>1. PICK r \in [D -> V] : Obeys(r, step, D)
  <2>1. \A v \in D : \A f \in [D -> V] : step[v][f] \in V
    BY ProjectStepTyped
  <2>2. \A v \in D : \A f, g \in [D -> V] :
          (\A w \in D : << w, v >> \in below => f[w] = g[w]) => step[v][f] = step[v][g]
    BY StepsLocal
  <2>3. V # {}
    BY DEF Projections
  <2>4. Founded(D, below)
    BY VisitsFounded
  <2>5. IsStep(step, D, V, below)
    <3> HIDE DEF D, V, step, below
    <3> QED BY <2>1, <2>2, <2>3 DEF IsStep
  <2> HIDE DEF D, V, step, below, R
  <2> QED BY <2>4, <2>5, Recursion
<1>2. \A v \in D : r[v] = ProjectStep(docs, v, r)
  BY <1>1 DEF Obeys
<1>3. Projecting(docs, r)
  <2> HIDE DEF V
  <2> QED BY <1>2 DEF Projecting
<1>4. Projecting(docs, R)
  BY <1>3, Zenon
<1>5. \A v \in D : R[v] = r[v]
  <2> DEFINE S == { v \in D : R[v] # r[v] }
  <2> SUFFICES ASSUME S # {} PROVE FALSE
    OBVIOUS
  <2>1. PICK v \in S : \A w \in S : << w, v >> \notin Below(docs)
    BY VisitsFounded DEF Founded
  <2> HIDE DEF R
  <2>2. ProjectStep(docs, v, R) = ProjectStep(docs, v, r)
    BY <2>1, StepsLocal
  <2>3. R[v] = ProjectStep(docs, v, R)
    BY <1>4, <2>1 DEF Projecting
  <2> QED BY <1>2, <2>1, <2>2, <2>3
<1>6. R = r
  <2>1. R = [ v \in D |-> R[v] ]
    <3> HIDE DEF R
    <3> QED BY <1>4 DEF Projecting
  <2> HIDE DEF R, V
  <2> QED BY <1>5, <2>1
<1>7. \A at, stack : ProjectSchema(docs, at, stack) = R[<< at, stack >>]
  BY DEF ProjectSchema, Projecting, ProjectStep
<1> QED BY <1>2, <1>6, <1>7

LEMMA PrefixElements ==
    ASSUME NEW K, NEW k \in K, NEW s \in Seq(K)
    PROVE  Elements(<< k >> \o s) = {k} \cup Elements(s)
<1> DEFINE t == << k >> \o s
<1>1. DOMAIN s = 1 .. Len(s) /\ Len(s) \in Nat
  OBVIOUS
<1>2. DOMAIN t = 1 .. Len(s) + 1 /\ t[1] = k /\ \A i \in DOMAIN s : t[i + 1] = s[i]
  BY <1>1
<1> HIDE DEF t
<1>3. ASSUME NEW i \in DOMAIN t PROVE t[i] \in {k} \cup Elements(s)
  <2>1. CASE i = 1
    BY <1>2, <2>1
  <2>2. CASE i # 1
    <3>1. i - 1 \in DOMAIN s /\ i = (i - 1) + 1
      BY <1>1, <1>2, <2>2
    <3>2. t[i] = s[i - 1]
      BY <1>2, <3>1
    <3> QED BY <3>1, <3>2 DEF Elements
  <2> QED BY <2>1, <2>2
<1>4. k \in Elements(t)
  <2>1. 1 \in DOMAIN t
    BY <1>1, <1>2
  <2> QED BY <1>2, <2>1 DEF Elements
<1>5. ASSUME NEW i \in DOMAIN s PROVE s[i] \in Elements(t)
  <2>1. i + 1 \in DOMAIN t /\ t[i + 1] = s[i]
    BY <1>1, <1>2
  <2> QED BY <2>1 DEF Elements
<1>6. Elements(t) \subseteq {k} \cup Elements(s)
  BY <1>3 DEF Elements
<1>7. {k} \cup Elements(s) \subseteq Elements(t)
  BY <1>4, <1>5 DEF Elements
<1>8. Elements(t) = {k} \cup Elements(s)
  BY <1>6, <1>7
<1> QED BY <1>8 DEF t

\* What renderType follows project_schema follows, but for the names that it skips.
LEMMA RustFollows ==
    ASSUME NEW node, NEW k \in TypeParts(node), k.keyword \notin Skipped,
           ~ (node.map /\ \E l \in node.kids : l.keyword = "allOf")
    PROVE  k \in RustParts(node)
<1>1. CASE node.map
  BY <1>1 DEF TypeParts, RustParts
<1>2. CASE ~ node.map
  BY <1>2 DEF TypeParts, RustParts
<1> QED BY <1>1, <1>2

\* A path that the Rust types keep as well, or that leads below a skipped name.
Covered(p, paths) == p \in paths \/ Elements(p[1]) \cap Skipped # {}

\* A document that the Rust types can express keeps in them every path that the TypeScript types keep,
\* but below a skipped name: by contradiction at a first visit where it does not.
LEMMA ProjectionCovers ==
    ASSUME NEW docs, IsTree(docs), NEW at \in Places(docs),
           ~ Failed(ProjectSchema(docs, at, {}))
    PROVE  \A p \in RenderType(docs, at, {}) : Covered(p, ProjectSchema(docs, at, {}))
<1>1. PICK render \in [Visits(docs) -> Projections(docs)] :
        /\ \A v \in Visits(docs) : render[v] = RenderStep(docs, v, render)
        /\ \A a, stack : RenderType(docs, a, stack) = render[<< a, stack >>]
  BY RenderDefined
<1>2. PICK project \in [Visits(docs) -> Projections(docs)] :
        /\ \A v \in Visits(docs) : project[v] = ProjectStep(docs, v, project)
        /\ \A a, stack : ProjectSchema(docs, a, stack) = project[<< a, stack >>]
  BY ProjectDefined
<1> DEFINE Agree(v) == ~ Failed(project[v]) => \A p \in render[v] : Covered(p, project[v])
<1>3. ASSUME NEW v \in Visits(docs), \A w \in Visits(docs) : << w, v >> \in Below(docs) => Agree(w)
      PROVE  Agree(v)
  <2> SUFFICES ASSUME ~ Failed(project[v]), NEW p \in render[v] PROVE Covered(p, project[v])
    OBVIOUS
  <2> DEFINE node == Node(docs, v[1])
             below(k) == << << v[1][1], k.at >>, v[2] >>
             w == << node.ref, v[2] \cup {node.ref} >>
             embedded == \E q \in DOMAIN docs[v[1][1]] : docs[v[1][1]][q].embedded
             misnamed == node.map /\ \E k \in node.kids : k.keyword = "allOf"
             own == << << >>, End(node) >>
  <2>1. project[v] # Refused
    <3>1. << << >>, {"refused"} >> \in Refused /\ << << >>, {"refused"} >>[2] = {"refused"}
      BY DEF Refused
    <3> QED BY <3>1 DEF Failed
  <2>2. project[v] =
          IF embedded THEN Refused
          ELSE IF node.ref # NoRef
          THEN IF node.siblings \/ ~Known(docs, node.ref) THEN Refused
               ELSE IF node.ref \in v[2] THEN RecurringInRust(Node(docs, node.ref)) ELSE project[w]
          ELSE IF misnamed THEN Refused
          ELSE {own} \cup UNION { Under1(k.keyword, project[below(k)]) : k \in RustParts(node) }
    BY <1>2 DEF ProjectStep
  <2>3. render[v] =
          IF node.ref # NoRef
          THEN IF ~Known(docs, node.ref) THEN Refused
               ELSE IF node.ref \in v[2] THEN Recurring(Node(docs, node.ref)) ELSE render[w]
          ELSE {own} \cup UNION { Under1(k.keyword, render[below(k)]) : k \in TypeParts(node) }
    BY <1>1 DEF RenderStep
  <2>4. \A k \in node.kids : below(k) \in Visits(docs) /\ << below(k), v >> \in Below(docs) /\ k.keyword \in Keys(docs)
    BY LeadsBelow DEF Keys
  <2>5. node.ref \in Places(docs) \ v[2] => w \in Visits(docs) /\ << w, v >> \in Below(docs)
    BY LeadsBelow
  <2>6. ~ misnamed => \A k \in TypeParts(node) : k.keyword \notin Skipped => k \in RustParts(node)
    BY RustFollows
  <2>7. TypeParts(node) \in SUBSET node.kids
    BY PartsOfTheNode
  <2> HIDE DEF node, below, w, embedded, misnamed, own
  <2>8. CASE node.ref # NoRef /\ node.ref \in v[2]
    <3>1. project[v] = RecurringInRust(Node(docs, node.ref)) /\ render[v] = Recurring(Node(docs, node.ref))
      BY <2>1, <2>2, <2>3, <2>8
    <3>2. project[v] = { << << >>, {"unknown"} >> } /\ render[v] = { << << >>, {"unknown"} >> }
      BY <2>1, <3>1 DEF RecurringInRust, Recurring
    <3> QED BY <3>2 DEF Covered
  <2>9. CASE node.ref # NoRef /\ node.ref \notin v[2]
    <3>1. Known(docs, node.ref)
      BY <2>1, <2>2, <2>9
    <3>2. project[v] = project[w] /\ render[v] = render[w]
      BY <2>1, <2>2, <2>3, <2>9
    <3>3. Agree(w)
      BY <1>3, <2>5, <2>9, <3>1 DEF Known
    <3> QED BY <3>2, <3>3
  <2>10. CASE node.ref = NoRef
    <3>1. project[v] = {own} \cup UNION { Under1(k.keyword, project[below(k)]) : k \in RustParts(node) } /\ ~ misnamed
      BY <2>1, <2>2, <2>10
    <3>2. render[v] = {own} \cup UNION { Under1(k.keyword, render[below(k)]) : k \in TypeParts(node) }
      BY <2>3, <2>10
    <3>3. CASE p = own
      BY <3>1, <3>3 DEF Covered
    <3>4. CASE p # own
      <4>1. PICK k \in TypeParts(node) : p \in Under1(k.keyword, render[below(k)])
        BY <3>2, <3>4
      <4>2. PICK q \in render[below(k)] : p = << << k.keyword >> \o q[1], q[2] >>
        BY <4>1 DEF Under1
      <4>3. below(k) \in Visits(docs) /\ << below(k), v >> \in Below(docs) /\ k.keyword \in Keys(docs)
        BY <2>4, <2>7
      <4>4. q[1] \in Seq(Keys(docs))
        BY <4>3 DEF Projections
      <4>5. Elements(p[1]) = {k.keyword} \cup Elements(q[1])
        BY <4>2, <4>3, <4>4, PrefixElements
      <4>6. CASE k.keyword \in Skipped
        BY <4>5, <4>6 DEF Covered
      <4>7. CASE k.keyword \notin Skipped
        <5>1. k \in RustParts(node)
          BY <2>6, <3>1, <4>7
        <5>2. ~ Failed(project[below(k)])
          <6> SUFFICES ASSUME NEW r \in project[below(k)], r[2] = {"refused"} PROVE FALSE
            BY DEF Failed
          <6> DEFINE s == << << k.keyword >> \o r[1], r[2] >>
          <6>1. s \in Under1(k.keyword, project[below(k)])
            BY DEF Under1
          <6>2. s \in project[v] /\ s[2] = {"refused"}
            BY <3>1, <5>1, <6>1
          <6> HIDE DEF s
          <6> QED BY <6>2 DEF Failed
        <5>3. Covered(q, project[below(k)])
          BY <1>3, <4>3, <5>2
        <5>4. CASE q \in project[below(k)]
          <6>1. p \in Under1(k.keyword, project[below(k)])
            BY <4>2, <5>4 DEF Under1
          <6> QED BY <3>1, <5>1, <6>1 DEF Covered
        <5>5. CASE Elements(q[1]) \cap Skipped # {}
          BY <4>5, <5>5 DEF Covered
        <5> QED BY <5>3, <5>4, <5>5 DEF Covered
      <4> QED BY <4>6, <4>7
    <3> QED BY <3>3, <3>4
  <2> QED BY <2>8, <2>9, <2>10
<1>4. \A v \in Visits(docs) : Agree(v)
  <2> DEFINE S == { v \in Visits(docs) : ~ Agree(v) }
  <2> SUFFICES ASSUME S # {} PROVE FALSE
    OBVIOUS
  <2>1. S \in (SUBSET Visits(docs)) \ {{}}
    OBVIOUS
  <2>2. PICK v \in S : \A w \in S : << w, v >> \notin Below(docs)
    <3> HIDE DEF S
    <3> QED BY <2>1, VisitsFounded DEF Founded
  <2> HIDE DEF Agree
  <2>3. v \in Visits(docs) /\ ~ Agree(v) /\ \A w \in Visits(docs) : << w, v >> \in Below(docs) => Agree(w)
    BY <2>2
  <2> QED BY <1>3, <2>3
<1>5. << at, {} >> \in Visits(docs)
  BY DEF Visits
<1> QED BY <1>1, <1>2, <1>4, <1>5

------------------------------------------------------------------------------
(* The copies of the schemas *)

\* A copy maps the names of its files to what they hold.
IsCopy(c) == c = [ n \in DOMAIN c |-> c[n] ]

IsSchemas(docs) == IsCopy(docs) /\ DOMAIN docs \subseteq Schema /\ \A n \in DOMAIN docs : docs[n] \in Document[n]

\* While the schemas are synced from d: what was read so far is as the authority had it at some moment
\* since the listing, the authority of today being one of them until all is read; then what is neither to
\* do nor open is written, and once a file was opened none is left that was not listed.
Mirroring(j, c, d) ==
    /\ j = [ unread |-> j.unread, wanted |-> j.wanted, todo |-> j.todo, open |-> j.open,
             listed |-> j.listed, seen |-> j.seen ]
    /\ IsCopy(j.wanted) /\ DOMAIN j.wanted = j.listed \ j.unread /\ j.unread \subseteq j.listed
    /\ AsRead(j.wanted, j.seen)
    /\ \A docs \in j.seen : IsCopy(docs) /\ (j.seen = {docs} => DOMAIN docs = j.listed)
    /\ j.seen # {} /\ (j.unread # {} => d \in j.seen /\ j.todo = {} /\ j.open = {})
    /\ j.todo \cup j.open \subseteq j.listed /\ j.todo \cap j.open = {}
    /\ \A m, n \in j.open : m = n
    /\ j.unread = {} =>
          /\ j.open # {} \/ j.todo # j.listed => DOMAIN c \subseteq j.listed
          /\ \A n \in j.listed \ (j.todo \cup j.open) : n \in DOMAIN c /\ c[n] = j.wanted[n]

ShippedWhole ==
    released # NoCopy =>
        /\ released.copy["schemas"] = released.from /\ released.copy["crate"] = released.from
        /\ \A n \in DOMAIN released.from : released.copy["types"][n] = Rendered(released.copy["schemas"], n)

SyncInv ==
    /\ IsSchemas(canonical)
    /\ copy = [ t \in Tool |-> copy[t] ] /\ \A t \in Tool : IsCopy(copy[t])
    /\ job = [ t \in Tool |-> job[t] ]
    /\ job["schemas"] # Idle => Mirroring(job["schemas"], copy["schemas"], canonical)
    /\ ShippedWhole

LEMMA WithIsCopy ==
    ASSUME NEW c, NEW n, NEW x
    PROVE  /\ IsCopy(With(c, n, x)) /\ DOMAIN With(c, n, x) = DOMAIN c \cup {n}
           /\ With(c, n, x)[n] = x
           /\ \A m \in DOMAIN c : m # n => With(c, n, x)[m] = c[m]
  BY DEF With, IsCopy

LEMMA WithoutIsCopy ==
    ASSUME NEW c, NEW n
    PROVE  /\ IsCopy(Without(c, n)) /\ DOMAIN Without(c, n) = DOMAIN c \ {n}
           /\ \A m \in DOMAIN c \ {n} : Without(c, n)[m] = c[m]
  BY DEF Without, IsCopy

\* Documents that authors wrote are trees, with a root each.
LEMMA SchemasAreTrees ==
    ASSUME NEW docs, IsSchemas(docs)
    PROVE  IsTree(docs) /\ \A n \in DOMAIN docs : << n, "" >> \in Places(docs)
<1>1. IsFiniteSet(DOMAIN docs)
  BY SyncAssumption, FS_Subset DEF IsSchemas
<1>2. \A n \in DOMAIN docs : IsDocument(docs[n]) /\ "" \in DOMAIN docs[n]
  BY SyncAssumption DEF IsSchemas
<1>3. ASSUME NEW n \in DOMAIN docs PROVE << n, "" >> \in Places(docs)
  <2>1. << n, "" >> \in {n} \X DOMAIN docs[n]
    BY <1>2
  <2> QED BY <2>1 DEF Places
<1> QED BY <1>1, <1>2, <1>3 DEF IsTree

\* So their Rust types cover their TypeScript types.
LEMMA SchemasCovered ==
    ASSUME NEW docs, IsSchemas(docs)
    PROVE  RustCovers(docs)
<1> SUFFICES ASSUME NEW n \in DOMAIN docs \ {Shared}, NEW p \in LostInRust(docs, n)
             PROVE  Elements(p[1]) \cap Skipped # {}
  BY DEF RustCovers
<1> DEFINE at == << n, "" >>
<1>1. IsTree(docs) /\ at \in Places(docs)
  BY SchemasAreTrees
<1>2. /\ ~ Failed(ProjectSchema(docs, at, {}))
      /\ p \in RenderType(docs, at, {}) /\ p \notin ProjectSchema(docs, at, {})
  BY DEF LostInRust
<1> HIDE DEF at
<1>3. Covered(p, ProjectSchema(docs, at, {}))
  BY <1>1, <1>2, ProjectionCovers
<1> QED BY <1>2, <1>3 DEF Covered

LEMMA SyncInitHolds == SyncInit => SyncInv
<1> SUFFICES ASSUME SyncInit PROVE SyncInv
  OBVIOUS
<1>1. IsSchemas(canonical)
  <2>1. PICK d \in [ Schema -> UNION { Document[n] : n \in Schema } ] :
          canonical = d /\ \A n \in Schema : d[n] \in Document[n]
    BY DEF SyncInit
  <2> QED BY <2>1 DEF IsSchemas, IsCopy
<1>2. copy = [ t \in Tool |-> IF t = "types" THEN [ n \in Schema |-> Rendered(canonical, n) ] ELSE canonical ]
  BY DEF SyncInit
<1>3. ASSUME NEW t \in Tool PROVE IsCopy(copy[t])
  BY <1>1, <1>2 DEF IsSchemas, IsCopy
<1>4. copy = [ t \in Tool |-> copy[t] ] /\ job = [ t \in Tool |-> job[t] ] /\ job["schemas"] = Idle
  BY <1>2 DEF SyncInit, Tool
<1> QED BY <1>1, <1>3, <1>4 DEF SyncInv, ShippedWhole, SyncInit

\* What does not touch the sync of the schemas keeps what is known of it.
LEMMA ElsewhereKeeps ==
    ASSUME SyncInv, NEW t \in Tool \ {"schemas"}, NEW c, NEW j, IsCopy(c),
           copy' = [copy EXCEPT ![t] = c] \/ copy' = copy,
           job' = [job EXCEPT ![t] = j] \/ job' = job, canonical' = canonical, released' = released
    PROVE  SyncInv' /\ copy'["schemas"] = copy["schemas"] /\ job'["schemas"] = job["schemas"]
<1>1. /\ copy = [ s \in Tool |-> copy[s] ] /\ job = [ s \in Tool |-> job[s] ] /\ "schemas" \in Tool
      /\ \A s \in Tool : IsCopy(copy[s])
  BY DEF SyncInv, Tool
<1>2. copy'["schemas"] = copy["schemas"] /\ job'["schemas"] = job["schemas"]
  BY <1>1
<1>3. copy' = [ s \in Tool |-> copy'[s] ] /\ job' = [ s \in Tool |-> job'[s] ]
  BY <1>1
<1>4. \A s \in Tool : IsCopy(copy'[s])
  BY <1>1
<1>5. IsSchemas(canonical') /\ ShippedWhole'
  BY DEF SyncInv, ShippedWhole
<1>6. job'["schemas"] # Idle => Mirroring(job'["schemas"], copy'["schemas"], canonical')
  BY <1>2 DEF SyncInv
<1> QED BY <1>2, <1>3, <1>4, <1>5, <1>6 DEF SyncInv

\* A step of the sync itself.
LEMMA SchemasKeeps ==
    ASSUME SyncInv, NEW c, NEW j, IsCopy(c),
           copy' = [copy EXCEPT !["schemas"] = c], job' = [job EXCEPT !["schemas"] = j],
           canonical' = canonical, released' = released, j # Idle => Mirroring(j, c, canonical)
    PROVE  SyncInv' /\ copy'["schemas"] = c /\ job'["schemas"] = j
<1>1. /\ copy = [ s \in Tool |-> copy[s] ] /\ job = [ s \in Tool |-> job[s] ] /\ "schemas" \in Tool
      /\ \A s \in Tool : IsCopy(copy[s])
  BY DEF SyncInv, Tool
<1>2. copy'["schemas"] = c /\ job'["schemas"] = j
  BY <1>1
<1>3. copy' = [ s \in Tool |-> copy'[s] ] /\ job' = [ s \in Tool |-> job'[s] ]
  BY <1>1
<1>4. \A s \in Tool : IsCopy(copy'[s])
  BY <1>1
<1>5. IsSchemas(canonical') /\ ShippedWhole'
  BY DEF SyncInv, ShippedWhole
<1> QED BY <1>2, <1>3, <1>4, <1>5 DEF SyncInv

\* A job that changes some of its fields.
LEMMA Reshaped ==
    ASSUME NEW j, j = [ unread |-> j.unread, wanted |-> j.wanted, todo |-> j.todo, open |-> j.open,
                        listed |-> j.listed, seen |-> j.seen ],
           NEW unread, NEW wanted, NEW todo, NEW open, NEW seen
    PROVE  /\ [j EXCEPT !.seen = seen] =
                [ unread |-> j.unread, wanted |-> j.wanted, todo |-> j.todo, open |-> j.open,
                  listed |-> j.listed, seen |-> seen ]
           /\ [j EXCEPT !.unread = unread, !.wanted = wanted, !.todo = todo] =
                [ unread |-> unread, wanted |-> wanted, todo |-> todo, open |-> j.open,
                  listed |-> j.listed, seen |-> j.seen ]
           /\ [j EXCEPT !.open = open] =
                [ unread |-> j.unread, wanted |-> j.wanted, todo |-> j.todo, open |-> open,
                  listed |-> j.listed, seen |-> j.seen ]
<1> DEFINE a == j.unread
           b == j.wanted
           c == j.todo
           d == j.open
           e == j.listed
           f == j.seen
<1>1. j = [ unread |-> a, wanted |-> b, todo |-> c, open |-> d, listed |-> e, seen |-> f ]
  OBVIOUS
<1> HIDE DEF a, b, c, d, e, f
<1>2. [j EXCEPT !.seen = seen] = [ unread |-> a, wanted |-> b, todo |-> c, open |-> d, listed |-> e, seen |-> seen ]
  BY <1>1
<1>3. [j EXCEPT !.unread = unread, !.wanted = wanted, !.todo = todo] =
        [ unread |-> unread, wanted |-> wanted, todo |-> todo, open |-> d, listed |-> e, seen |-> f ]
  <2> DEFINE k == [j EXCEPT !.unread = unread]
             l == [k EXCEPT !.wanted = wanted]
  <2>1. [j EXCEPT !.unread = unread, !.wanted = wanted, !.todo = todo] = [l EXCEPT !.todo = todo]
    BY Zenon
  <2>2. k = [ unread |-> unread, wanted |-> b, todo |-> c, open |-> d, listed |-> e, seen |-> f ]
    BY <1>1
  <2> HIDE DEF k
  <2>3. l = [ unread |-> unread, wanted |-> wanted, todo |-> c, open |-> d, listed |-> e, seen |-> f ]
    BY <2>2
  <2> HIDE DEF l
  <2>4. [l EXCEPT !.todo = todo] =
          [ unread |-> unread, wanted |-> wanted, todo |-> todo, open |-> d, listed |-> e, seen |-> f ]
    BY <2>3
  <2> QED BY <2>1, <2>4
<1>4. [j EXCEPT !.open = open] = [ unread |-> a, wanted |-> b, todo |-> c, open |-> open, listed |-> e, seen |-> f ]
  BY <1>1
<1> QED BY <1>2, <1>3, <1>4 DEF a, b, c, d, e, f

\* A job that opens a file.
LEMMA Opened ==
    ASSUME NEW j, j = [ unread |-> j.unread, wanted |-> j.wanted, todo |-> j.todo, open |-> j.open,
                        listed |-> j.listed, seen |-> j.seen ],
           NEW open, NEW todo
    PROVE  [j EXCEPT !.open = open, !.todo = todo] =
             [ unread |-> j.unread, wanted |-> j.wanted, todo |-> todo, open |-> open,
               listed |-> j.listed, seen |-> j.seen ]
<1> DEFINE k == [j EXCEPT !.open = open]
<1>1. [j EXCEPT !.open = open, !.todo = todo] = [k EXCEPT !.todo = todo]
  BY Zenon
<1>2. k = [ unread |-> j.unread, wanted |-> j.wanted, todo |-> j.todo, open |-> open,
            listed |-> j.listed, seen |-> j.seen ]
  BY Reshaped
<1> DEFINE a == j.unread
           b == j.wanted
           e == j.listed
           f == j.seen
           c == j.todo
<1>3. k = [ unread |-> a, wanted |-> b, todo |-> c, open |-> open, listed |-> e, seen |-> f ]
  BY <1>2
<1> HIDE DEF k, a, b, c, e, f
<1>4. [k EXCEPT !.todo = todo] = [ unread |-> a, wanted |-> b, todo |-> todo, open |-> open, listed |-> e, seen |-> f ]
  BY <1>3
<1> QED BY <1>1, <1>4 DEF a, b, e, f

LEMMA AuthorKeeps ==
    ASSUME SyncInv, Author
    PROVE  SyncInv'
<1>1. IsSchemas(canonical')
  <2>1. PICK n \in Schema : \/ \E d \in Document[n] : canonical' = With(canonical, n, d)
                            \/ n \in DOMAIN canonical /\ canonical' = Without(canonical, n)
    BY DEF Author
  <2>2. IsSchemas(canonical)
    BY DEF SyncInv
  <2>3. ASSUME NEW d \in Document[n] PROVE IsSchemas(With(canonical, n, d))
    <3> DEFINE c == With(canonical, n, d)
    <3>1. /\ IsCopy(c) /\ DOMAIN c = DOMAIN canonical \cup {n} /\ c[n] = d
          /\ \A m \in DOMAIN canonical : m # n => c[m] = canonical[m]
      BY DEF With, IsCopy
    <3> HIDE DEF c
    <3>2. \A m \in DOMAIN c : c[m] \in Document[m]
      BY <2>2, <3>1 DEF IsSchemas
    <3>3. IsSchemas(c)
      BY <2>2, <3>1, <3>2 DEF IsSchemas
    <3> QED BY <3>3 DEF c
  <2>4. IsSchemas(Without(canonical, n))
    <3> DEFINE c == Without(canonical, n)
    <3>1. /\ IsCopy(c) /\ DOMAIN c = DOMAIN canonical \ {n}
          /\ \A m \in DOMAIN canonical \ {n} : c[m] = canonical[m]
      BY WithoutIsCopy
    <3> HIDE DEF c
    <3>2. IsSchemas(c)
      BY <2>2, <3>1 DEF IsSchemas
    <3> QED BY <3>2 DEF c
  <2>5. CASE canonical' = Without(canonical, n)
    BY <2>4, <2>5
  <2>6. CASE \E d \in Document[n] : canonical' = With(canonical, n, d)
    <3>1. PICK d \in Document[n] : canonical' = With(canonical, n, d)
      BY <2>6
    <3>2. IsSchemas(With(canonical, n, d))
      BY <2>3
    <3> QED BY <3>1, <3>2
  <2> QED BY <2>1, <2>5, <2>6
<1>2. copy' = copy /\ released' = released
      /\ job' = IF Loading("schemas") THEN [job EXCEPT !["schemas"].seen = @ \cup {canonical'}] ELSE job
  BY DEF Author
<1>3. job = [ t \in Tool |-> job[t] ] /\ "schemas" \in Tool /\ IsCopy(canonical')
  BY <1>1 DEF SyncInv, Tool, IsSchemas
<1> DEFINE i == job["schemas"]
           j == [i EXCEPT !.seen = i.seen \cup {canonical'}]
<1>4. CASE Loading("schemas")
  <2>1. job' = [job EXCEPT !["schemas"] = j]
    BY <1>2, <1>3, <1>4
  <2>2. Mirroring(i, copy["schemas"], canonical) /\ i.unread # {}
    BY <1>4 DEF SyncInv, Loading
  <2>3. j = [ unread |-> i.unread, wanted |-> i.wanted, todo |-> i.todo, open |-> i.open,
              listed |-> i.listed, seen |-> i.seen \cup {canonical'} ]
    <3> HIDE DEF i
    <3>1. i = [ unread |-> i.unread, wanted |-> i.wanted, todo |-> i.todo, open |-> i.open,
                listed |-> i.listed, seen |-> i.seen ]
      BY <2>2 DEF Mirroring
    <3> QED BY <3>1, Reshaped
  <2>4. /\ j.unread = i.unread /\ j.wanted = i.wanted /\ j.todo = i.todo /\ j.open = i.open
        /\ j.listed = i.listed /\ j.seen = i.seen \cup {canonical'}
        /\ j = [ unread |-> j.unread, wanted |-> j.wanted, todo |-> j.todo, open |-> j.open,
                 listed |-> j.listed, seen |-> j.seen ]
    <3> HIDE DEF i, j
    <3> QED BY <2>3
  <2>5. job'["schemas"] = j /\ job' = [ t \in Tool |-> job'[t] ]
    <3> HIDE DEF j
    <3> QED BY <1>3, <2>1
  <2> HIDE DEF i, j
  <2>6. AsRead(j.wanted, j.seen)
    BY <2>2, <2>4 DEF Mirroring, AsRead
  <2>7. \A docs \in j.seen : IsCopy(docs) /\ (j.seen = {docs} => DOMAIN docs = j.listed)
    <3> SUFFICES ASSUME NEW docs \in j.seen PROVE IsCopy(docs) /\ (j.seen = {docs} => DOMAIN docs = j.listed)
      OBVIOUS
    <3>1. IsCopy(docs)
      BY <1>3, <2>2, <2>4 DEF Mirroring
    <3>2. ASSUME j.seen = {docs} PROVE DOMAIN docs = j.listed
      <4>1. i.seen # {} /\ i.seen \subseteq {docs}
        BY <2>2, <2>4, <3>2 DEF Mirroring
      <4>2. i.seen = {docs} /\ docs \in i.seen
        BY <4>1
      <4> QED BY <2>2, <2>4, <4>2 DEF Mirroring
    <3> QED BY <3>1, <3>2
  <2>8. Mirroring(j, copy["schemas"], canonical')
    BY <2>2, <2>4, <2>6, <2>7 DEF Mirroring
  <2> QED BY <1>1, <1>2, <2>5, <2>8 DEF SyncInv, ShippedWhole
<1>5. CASE ~ Loading("schemas")
  <2>1. job["schemas"] # Idle => Mirroring(job["schemas"], copy["schemas"], canonical')
    BY <1>5 DEF SyncInv, Loading, Mirroring
  <2> QED BY <1>1, <1>2, <1>5, <2>1 DEF SyncInv, ShippedWhole
<1> QED BY <1>4, <1>5

LEMMA ReleaseKeeps ==
    ASSUME SyncInv, Release
    PROVE  SyncInv'
<1>1. /\ SameFiles(canonical, copy["schemas"]) /\ SameFiles(canonical, copy["crate"]) /\ TypesCurrent
      /\ released' = [ copy |-> copy, from |-> canonical ]
      /\ canonical' = canonical /\ copy' = copy /\ job' = job
  BY DEF Release
<1>2. IsCopy(canonical) /\ IsCopy(copy["schemas"]) /\ IsCopy(copy["crate"])
  BY DEF SyncInv, IsSchemas, Tool
<1>3. copy["schemas"] = canonical /\ copy["crate"] = canonical
  BY <1>1, <1>2 DEF SameFiles, IsCopy
<1>4. \A n \in DOMAIN canonical : copy["types"][n] = Rendered(canonical, n)
  BY <1>1 DEF TypesCurrent
<1>5. released'.copy = copy /\ released'.from = canonical
  BY <1>1
<1>6. ShippedWhole'
  <2> SUFFICES ASSUME NEW n \in DOMAIN released'.from
               PROVE  /\ released'.copy["schemas"] = released'.from /\ released'.copy["crate"] = released'.from
                      /\ released'.copy["types"][n] = Rendered(released'.copy["schemas"], n)
    BY <1>3, <1>5 DEF ShippedWhole
  <2> QED BY <1>3, <1>4, <1>5
<1> QED BY <1>1, <1>6 DEF SyncInv

LEMMA BeginKeeps ==
    ASSUME SyncInv, NEW t \in {"schemas", "types"}, Begin(t)
    PROVE  SyncInv' /\ (t # "schemas" => job'["schemas"] = job["schemas"])
<1> DEFINE seen == IF t = "schemas" THEN {canonical} ELSE {}
           j == [ unread |-> DOMAIN canonical, wanted |-> NoCopy, todo |-> {}, open |-> {}, listed |-> DOMAIN canonical,
                  seen |-> seen ]
<1>1. job' = [job EXCEPT ![t] = j] /\ canonical' = canonical /\ copy' = copy /\ released' = released
  BY DEF Begin
<1>2. CASE t = "types"
  <2>1. t \in Tool \ {"schemas"} /\ IsCopy(canonical)
    BY <1>2 DEF Tool, SyncInv, IsSchemas
  <2> HIDE DEF j
  <2> QED BY <1>1, <2>1, ElsewhereKeeps
<1>3. CASE t = "schemas"
  <2>1. /\ j.unread = DOMAIN canonical /\ j.wanted = << >> /\ j.todo = {} /\ j.open = {}
        /\ j.listed = DOMAIN canonical /\ j.seen = {canonical}
        /\ j = [ unread |-> j.unread, wanted |-> j.wanted, todo |-> j.todo, open |-> j.open,
                 listed |-> j.listed, seen |-> j.seen ]
    BY <1>3 DEF NoCopy
  <2> HIDE DEF j
  <2>2. IsCopy(canonical) /\ IsCopy(copy["schemas"]) /\ copy = [ s \in Tool |-> copy[s] ]
    BY DEF SyncInv, IsSchemas, Tool
  <2>3. IsCopy(j.wanted) /\ DOMAIN j.wanted = {}
    BY <2>1 DEF IsCopy
  <2>4. j.unread # {}
    BY <2>1 DEF Begin
  <2>5. Mirroring(j, copy["schemas"], canonical)
    BY <2>1, <2>2, <2>3, <2>4 DEF Mirroring, AsRead
  <2>6. copy' = [copy EXCEPT !["schemas"] = copy["schemas"]]
    BY <1>1, <2>2
  <2>7. SyncInv'
    BY <1>1, <1>3, <2>2, <2>5, <2>6, SchemasKeeps
  <2> QED BY <1>3, <2>7
<1> QED BY <1>2, <1>3

LEMMA ReadFileKeeps ==
    ASSUME SyncInv, NEW t \in {"schemas", "types"}, ReadFile(t)
    PROVE  SyncInv' /\ (t # "schemas" => job'["schemas"] = job["schemas"])
<1> DEFINE i == job[t]
<1>1. PICK n \in i.unread :
        LET read == With(i.wanted, n, canonical[n])
            last == i.unread = {n}
        IN  IF n \notin DOMAIN canonical \/ (last /\ t = "types" /\ RenderFails(read))
            THEN job' = [job EXCEPT ![t] = Idle]
            ELSE job' = [job EXCEPT ![t].unread = @ \ {n}, ![t].wanted = IF last THEN Wanted(t, read) ELSE read,
                                    ![t].todo = IF last THEN DOMAIN read ELSE {}]
  BY DEF ReadFile
<1>2. /\ canonical' = canonical /\ copy' = copy /\ released' = released /\ i # Idle /\ i.unread # {}
      /\ job = [ s \in Tool |-> job[s] ] /\ t \in Tool /\ copy = [ s \in Tool |-> copy[s] ]
      /\ IsCopy(canonical) /\ \A s \in Tool : IsCopy(copy[s])
  BY DEF ReadFile, Loading, SyncInv, Tool, IsSchemas
<1> DEFINE read == With(i.wanted, n, canonical[n])
           last == i.unread = {n}
           j == [i EXCEPT !.unread = i.unread \ {n}, !.wanted = IF last THEN Wanted(t, read) ELSE read,
                          !.todo = IF last THEN DOMAIN read ELSE {}]
<1>3. \/ job' = [job EXCEPT ![t] = Idle]
      \/ n \in DOMAIN canonical /\ job' = [job EXCEPT ![t] = j]
  BY <1>1, <1>2
<1>4. CASE t = "types"
  <2> HIDE DEF j, i
  <2> QED BY <1>2, <1>3, <1>4, ElsewhereKeeps
<1>5. CASE t = "schemas"
  <2>1. copy' = [copy EXCEPT !["schemas"] = copy["schemas"]] /\ IsCopy(copy["schemas"])
    BY <1>2, <1>5
  <2>2. CASE job' = [job EXCEPT ![t] = Idle]
    BY <1>2, <1>5, <2>1, <2>2, SchemasKeeps
  <2>3. CASE n \in DOMAIN canonical /\ job' = [job EXCEPT ![t] = j]
    <3>1. Mirroring(i, copy["schemas"], canonical)
      BY <1>2, <1>5 DEF SyncInv
    <3>2. IsCopy(read) /\ DOMAIN read = DOMAIN i.wanted \cup {n} /\ read[n] = canonical[n]
          /\ \A m \in DOMAIN i.wanted : m # n => read[m] = i.wanted[m]
      BY DEF With, IsCopy
    <3> DEFINE todo == IF last THEN DOMAIN read ELSE {}
    <3>3. j = [i EXCEPT !.unread = i.unread \ {n}, !.wanted = read, !.todo = todo]
      BY <1>5 DEF Wanted
    <3> HIDE DEF j, read, todo
    <3>4. j = [ unread |-> i.unread \ {n}, wanted |-> read, todo |-> todo, open |-> i.open,
                listed |-> i.listed, seen |-> i.seen ]
      <4> HIDE DEF i
      <4>1. i = [ unread |-> i.unread, wanted |-> i.wanted, todo |-> i.todo, open |-> i.open,
                  listed |-> i.listed, seen |-> i.seen ]
        BY <3>1 DEF Mirroring
      <4> QED BY <3>3, <4>1, Reshaped
    <3>5. /\ j.unread = i.unread \ {n} /\ j.wanted = read /\ j.todo = todo /\ j.open = i.open
          /\ j.listed = i.listed /\ j.seen = i.seen
          /\ j = [ unread |-> j.unread, wanted |-> j.wanted, todo |-> j.todo, open |-> j.open,
                   listed |-> j.listed, seen |-> j.seen ]
      <4> HIDE DEF i
      <4> QED BY <3>4
    <3> HIDE DEF i
    <3>6. i.open = {} /\ i.todo = {} /\ canonical \in i.seen /\ n \in i.listed /\ n \in i.unread
      BY <1>2, <3>1 DEF Mirroring
    <3>7. DOMAIN j.wanted = j.listed \ j.unread /\ j.unread \subseteq j.listed
      BY <3>1, <3>2, <3>5, <3>6 DEF Mirroring
    <3>8. AsRead(j.wanted, j.seen)
      <4> SUFFICES ASSUME NEW m \in DOMAIN read
                   PROVE  \E docs \in i.seen : m \in DOMAIN docs /\ read[m] = docs[m]
        BY <3>5 DEF AsRead
      <4>1. CASE m = n
        BY <2>3, <3>2, <3>6, <4>1
      <4>2. CASE m # n
        BY <3>1, <3>2, <4>2 DEF Mirroring, AsRead
      <4> QED BY <4>1, <4>2
    <3>9. todo = IF j.unread = {} THEN j.listed ELSE {}
      <4>1. last <=> j.unread = {}
        BY <3>5, <3>6
      <4>2. j.unread = {} => DOMAIN read = j.listed
        BY <3>5, <3>7
      <4> QED BY <4>1, <4>2 DEF todo
    <3>10. /\ j.unread # {} => canonical \in j.seen /\ j.todo = {} /\ j.open = {}
           /\ j.todo \cup j.open \subseteq j.listed /\ j.todo \cap j.open = {} /\ j.open = {}
           /\ j.unread = {} => j.todo = j.listed
      BY <3>5, <3>6, <3>9
    <3>11. Mirroring(j, copy["schemas"], canonical)
      BY <3>1, <3>2, <3>5, <3>7, <3>8, <3>10 DEF Mirroring
    <3> QED BY <1>2, <1>5, <2>1, <2>3, <3>11, SchemasKeeps
  <2> QED BY <1>3, <2>2, <2>3
<1> QED BY <1>4, <1>5

LEMMA RemoveExtraKeeps ==
    ASSUME SyncInv, NEW t \in {"schemas", "types"}, RemoveExtra(t)
    PROVE  SyncInv' /\ job' = job
<1>1. PICK n \in Extras(t) : copy' = [copy EXCEPT ![t] = Without(copy[t], n)]
  BY DEF RemoveExtra
<1>2. Writing(t) /\ job' = job /\ canonical' = canonical /\ released' = released
  BY DEF RemoveExtra
<1>3. t = "schemas" /\ n \notin DOMAIN job[t].wanted
  BY <1>1 DEF Extras
<1> DEFINE c == Without(copy["schemas"], n)
           j == job["schemas"]
<1>4. /\ IsCopy(c) /\ DOMAIN c = DOMAIN copy["schemas"] \ {n}
      /\ \A m \in DOMAIN copy["schemas"] \ {n} : c[m] = copy["schemas"][m]
  BY WithoutIsCopy
<1>5. Mirroring(j, copy["schemas"], canonical) /\ j.unread = {}
  BY <1>2, <1>3 DEF SyncInv, Writing
<1> HIDE DEF c
<1>6. Mirroring(j, c, canonical)
  <2>1. n \notin j.listed
    BY <1>3, <1>5 DEF Mirroring
  <2> HIDE DEF j
  <2> QED BY <1>4, <1>5, <2>1 DEF Mirroring
<1>7. job' = [job EXCEPT !["schemas"] = j]
  BY <1>2 DEF SyncInv, Tool
<1>8. copy' = [copy EXCEPT !["schemas"] = c]
  BY <1>1, <1>3 DEF c
<1> HIDE DEF j
<1> QED BY <1>2, <1>4, <1>6, <1>7, <1>8, SchemasKeeps

LEMMA OpenFileKeeps ==
    ASSUME SyncInv, NEW t \in {"schemas", "types"}, OpenFile(t)
    PROVE  SyncInv' /\ (Writing("schemas") => job'["schemas"] # Idle)
<1>1. PICK n \in job[t].todo :
        /\ copy' = [copy EXCEPT ![t] = With(copy[t], n, Torn)]
        /\ job' = [job EXCEPT ![t].open = {n}, ![t].todo = @ \ {n}]
  BY DEF OpenFile
<1>2. Writing(t) /\ Extras(t) = {} /\ job[t].open = {} /\ canonical' = canonical /\ released' = released
  BY DEF OpenFile
<1> DEFINE c == With(copy[t], n, Torn)
           i == job[t]
           j == [i EXCEPT !.open = {n}, !.todo = i.todo \ {n}]
<1>3. /\ IsCopy(c) /\ DOMAIN c = DOMAIN copy[t] \cup {n}
      /\ \A m \in DOMAIN copy[t] : m # n => c[m] = copy[t][m]
  BY DEF With, IsCopy
<1>4. job' = [job EXCEPT ![t] = j]
  <2>1. t \in Tool /\ job = [ s \in Tool |-> job[s] ]
    BY DEF Tool, SyncInv
  <2> QED BY <1>1, <2>1
<1>5. CASE t = "types"
  <2>1. t \in Tool \ {"schemas"}
    BY <1>5 DEF Tool
  <2> HIDE DEF c, j
  <2>2. copy' = [copy EXCEPT ![t] = c]
    BY <1>1 DEF c
  <2>3. SyncInv' /\ job'["schemas"] = job["schemas"]
    BY <1>2, <1>3, <1>4, <2>1, <2>2, ElsewhereKeeps
  <2> QED BY <2>3 DEF Writing
<1>6. CASE t = "schemas"
  <2>1. Mirroring(i, copy["schemas"], canonical) /\ i.unread = {}
    BY <1>2, <1>6 DEF SyncInv, Writing
  <2>2. DOMAIN copy["schemas"] \subseteq i.listed
    BY <1>2, <1>6, <2>1 DEF Extras, Mirroring
  <2>3. n \in i.todo /\ i.open = {}
    BY <1>1, <1>2
  <2>4. j = [ unread |-> i.unread, wanted |-> i.wanted, todo |-> i.todo \ {n}, open |-> {n},
              listed |-> i.listed, seen |-> i.seen ]
    <3> HIDE DEF i
    <3>1. i = [ unread |-> i.unread, wanted |-> i.wanted, todo |-> i.todo, open |-> i.open,
                listed |-> i.listed, seen |-> i.seen ]
      BY <2>1 DEF Mirroring
    <3> DEFINE left == i.todo \ {n}
               open == {n}
    <3> HIDE DEF left, open
    <3>2. [i EXCEPT !.open = open, !.todo = left] =
            [ unread |-> i.unread, wanted |-> i.wanted, todo |-> left, open |-> open, listed |-> i.listed, seen |-> i.seen ]
      BY <3>1, Opened
    <3> QED BY <3>2 DEF left, open
  <2>5. /\ j.unread = {} /\ j.wanted = i.wanted /\ j.todo = i.todo \ {n} /\ j.open = {n}
        /\ j.listed = i.listed /\ j.seen = i.seen /\ j # << >>
        /\ j = [ unread |-> j.unread, wanted |-> j.wanted, todo |-> j.todo, open |-> j.open,
                 listed |-> j.listed, seen |-> j.seen ]
    <3> HIDE DEF j, i
    <3> QED BY <2>1, <2>4
  <2> HIDE DEF c, j, i
  <2>6. Mirroring(j, c, canonical)
    <3>1. /\ j.todo \cup j.open \subseteq j.listed /\ j.todo \cap j.open = {} /\ \A m, k \in j.open : m = k
          /\ n \in j.listed
      BY <2>1, <2>3, <2>5 DEF Mirroring
    <3>2. DOMAIN c \subseteq j.listed
      BY <1>3, <1>6, <2>2, <2>5, <3>1
    <3>3. \A m \in j.listed \ (j.todo \cup j.open) : m \in DOMAIN c /\ c[m] = j.wanted[m]
      BY <1>3, <1>6, <2>1, <2>3, <2>5 DEF Mirroring
    <3> QED BY <2>1, <2>5, <3>1, <3>2, <3>3 DEF Mirroring
  <2>7. copy' = [copy EXCEPT !["schemas"] = c]
    BY <1>1, <1>6 DEF c
  <2>8. SyncInv' /\ job'["schemas"] = j
    BY <1>2, <1>3, <1>4, <1>6, <2>6, <2>7, SchemasKeeps
  <2> QED BY <2>5, <2>8 DEF Idle
<1> QED BY <1>5, <1>6

\* What a sync leaves when it finishes.
LeftAsRead ==
    /\ DOMAIN copy'["schemas"] = job["schemas"].listed
    /\ AsRead(copy'["schemas"], job["schemas"].seen)
    /\ \A docs \in job["schemas"].seen : job["schemas"].seen = {docs} => copy'["schemas"] = docs

\* The last file to be filled makes the copy what was read.
LEMMA FillFileKeeps ==
    ASSUME SyncInv, NEW t \in {"schemas", "types"}, FillFile(t)
    PROVE  SyncInv' /\ (Writing("schemas") /\ job'["schemas"] = Idle => LeftAsRead)
<1>1. PICK n \in job[t].open : copy' = [copy EXCEPT ![t] = With(copy[t], n, Content(t, n))]
  BY DEF FillFile
<1> DEFINE c == With(copy[t], n, Content(t, n))
           i == job[t]
           k == [i EXCEPT !.open = {}]
           j == IF i.todo = {} THEN Idle ELSE k
<1>2. job[t] # Idle /\ canonical' = canonical /\ released' = released
  BY DEF FillFile
<1>3. /\ IsCopy(c) /\ DOMAIN c = DOMAIN copy[t] \cup {n} /\ c[n] = i.wanted[n]
      /\ \A m \in DOMAIN copy[t] : m # n => c[m] = copy[t][m]
  BY DEF With, IsCopy, Content
<1>4. job' = [job EXCEPT ![t] = j]
  <2>1. t \in Tool /\ job = [ s \in Tool |-> job[s] ]
    BY DEF Tool, SyncInv
  <2> QED BY <2>1 DEF FillFile
<1>5. CASE t = "types"
  <2>1. t \in Tool \ {"schemas"}
    BY <1>5 DEF Tool
  <2>2. copy' = [copy EXCEPT ![t] = c]
    BY <1>1
  <2> HIDE DEF c, j, k, i
  <2>3. SyncInv' /\ job'["schemas"] = job["schemas"]
    BY <1>2, <1>3, <1>4, <2>1, <2>2, ElsewhereKeeps
  <2> QED BY <2>3 DEF Writing
<1>6. CASE t = "schemas"
  <2>1. Mirroring(i, copy["schemas"], canonical)
    BY <1>2, <1>6 DEF SyncInv
  <2>2. n \in i.open /\ i.open = {n} /\ n \notin i.todo /\ n \in i.listed /\ i.unread = {}
    BY <1>1, <2>1 DEF Mirroring
  <2>3. k = [ unread |-> i.unread, wanted |-> i.wanted, todo |-> i.todo, open |-> {},
              listed |-> i.listed, seen |-> i.seen ]
    <3> HIDE DEF i
    <3>1. i = [ unread |-> i.unread, wanted |-> i.wanted, todo |-> i.todo, open |-> i.open,
                listed |-> i.listed, seen |-> i.seen ]
      BY <2>1 DEF Mirroring
    <3> QED BY <3>1, Reshaped
  <2>4. /\ k.unread = {} /\ k.wanted = i.wanted /\ k.todo = i.todo /\ k.open = {}
        /\ k.listed = i.listed /\ k.seen = i.seen /\ k # << >>
        /\ k = [ unread |-> k.unread, wanted |-> k.wanted, todo |-> k.todo, open |-> k.open,
                 listed |-> k.listed, seen |-> k.seen ]
    <3> HIDE DEF k, i
    <3> QED BY <2>2, <2>3
  <2>5. copy' = [copy EXCEPT !["schemas"] = c]
    BY <1>1, <1>6
  <2>6. i = job["schemas"]
    BY <1>6
  <2> HIDE DEF c, k, i
  <2>7. DOMAIN c \subseteq i.listed /\ \A m \in i.listed \ i.todo : m \in DOMAIN c /\ c[m] = i.wanted[m]
    BY <1>3, <1>6, <2>1, <2>2 DEF Mirroring
  <2>8. i.todo # {} => Mirroring(k, c, canonical)
    BY <2>1, <2>2, <2>4, <2>7 DEF Mirroring
  <2>9. j # Idle => Mirroring(j, c, canonical)
    BY <2>8
  <2>10. j = Idle => i.todo = {}
    BY <2>4 DEF Idle
  <2> HIDE DEF j
  <2>11. SyncInv' /\ copy'["schemas"] = c /\ job'["schemas"] = j
    BY <1>2, <1>3, <1>4, <1>6, <2>5, <2>9, SchemasKeeps
  <2>12. ASSUME i.todo = {} PROVE LeftAsRead
    <3>1. c = i.wanted /\ DOMAIN i.wanted = i.listed
      BY <1>3, <2>1, <2>2, <2>7, <2>12 DEF Mirroring, IsCopy
    <3>2. AsRead(c, i.seen)
      BY <2>1, <3>1 DEF Mirroring
    <3>3. ASSUME NEW docs \in i.seen, i.seen = {docs} PROVE c = docs
      <4>1. IsCopy(docs) /\ DOMAIN docs = i.listed
        BY <2>1, <3>3 DEF Mirroring
      <4>2. \A m \in DOMAIN c : c[m] = docs[m]
        BY <3>2, <3>3 DEF AsRead
      <4> QED BY <1>3, <3>1, <4>1, <4>2 DEF IsCopy
    <3> QED BY <2>6, <2>11, <3>1, <3>2, <3>3 DEF LeftAsRead
  <2> QED BY <2>10, <2>11, <2>12
<1> QED BY <1>5, <1>6

LEMMA CrateKeeps ==
    ASSUME SyncInv, BeginCrate \/ WriteCrate \/ RemoveFromCrate
    PROVE  SyncInv' /\ job'["schemas"] = job["schemas"]
<1>1. "crate" \in Tool \ {"schemas"} /\ IsCopy(copy["crate"])
  BY DEF Tool, SyncInv
<1>2. CASE BeginCrate
  BY <1>1, <1>2, ElsewhereKeeps DEF BeginCrate
<1>3. CASE WriteCrate
  <2>1. PICK n \in job["crate"].todo :
          IF n \notin DOMAIN canonical
          THEN job' = [job EXCEPT !["crate"] = Idle] /\ UNCHANGED copy
          ELSE /\ copy' = [copy EXCEPT !["crate"] = With(copy["crate"], n, canonical[n])]
               /\ job' = [job EXCEPT !["crate"] =
                             IF job["crate"].todo = {n} THEN Idle ELSE [ todo |-> job["crate"].todo \ {n} ]]
    BY <1>3 DEF WriteCrate
  <2>2. canonical' = canonical /\ released' = released
    BY <1>3 DEF WriteCrate
  <2>3. IsCopy(With(copy["crate"], n, canonical[n]))
    BY WithIsCopy
  <2> QED BY <1>1, <2>1, <2>2, <2>3, ElsewhereKeeps
<1>4. CASE RemoveFromCrate
  <2>1. PICK n \in DOMAIN copy["crate"] \ DOMAIN canonical :
          copy' = [copy EXCEPT !["crate"] = Without(copy["crate"], n)]
    BY <1>4 DEF RemoveFromCrate
  <2>2. IsCopy(Without(copy["crate"], n))
    BY WithoutIsCopy
  <2>3. job' = job /\ canonical' = canonical /\ released' = released
    BY <1>4 DEF RemoveFromCrate
  <2> QED BY <1>1, <2>1, <2>2, <2>3, ElsewhereKeeps
<1> QED BY <1>2, <1>3, <1>4

LEMMA CrashKeeps ==
    ASSUME SyncInv, Crash
    PROVE  SyncInv'
<1>1. PICK t \in Tool :
        /\ job' = [job EXCEPT ![t] = Idle]
        /\ \/ copy' = copy
           \/ t = "crate" /\ \E n \in job[t].todo : copy' = [copy EXCEPT ![t] = With(copy[t], n, Torn)]
  BY DEF Crash
<1>2. canonical' = canonical /\ released' = released
  BY DEF Crash
<1>3. CASE t = "schemas"
  <2>1. copy = [ s \in Tool |-> copy[s] ] /\ IsCopy(copy["schemas"])
    BY DEF SyncInv, Tool
  <2>2. copy' = [copy EXCEPT !["schemas"] = copy["schemas"]]
    BY <1>1, <1>3, <2>1
  <2> QED BY <1>1, <1>2, <1>3, <2>1, <2>2, SchemasKeeps
<1>4. CASE t # "schemas"
  <2>1. t \in Tool \ {"schemas"} /\ IsCopy(copy[t])
    BY <1>4 DEF SyncInv
  <2>2. CASE copy' = copy
    BY <1>1, <1>2, <2>1, <2>2, ElsewhereKeeps
  <2>3. CASE \E n \in job[t].todo : copy' = [copy EXCEPT ![t] = With(copy[t], n, Torn)]
    <3>1. PICK n \in job[t].todo : copy' = [copy EXCEPT ![t] = With(copy[t], n, Torn)]
      BY <2>3
    <3>2. IsCopy(With(copy[t], n, Torn))
      BY WithIsCopy
    <3> QED BY <1>1, <1>2, <2>1, <3>1, <3>2, ElsewhereKeeps
  <2> QED BY <1>1, <2>2, <2>3
<1> QED BY <1>3, <1>4

\* Crashes are counted: a step that leaves their number is not one.
LEMMA CrashesCounted ==
    ASSUME crashes \in Nat, [SyncNext]_syncVars
    PROVE  crashes' \in Nat /\ (Crash => crashes' # crashes)
<1>1. CASE Crash
  BY <1>1 DEF Crash
<1>2. CASE Author \/ Release \/ BeginCrate \/ WriteCrate \/ RemoveFromCrate
  BY <1>2 DEF Author, Release, BeginCrate, WriteCrate, RemoveFromCrate, Crash
<1>3. CASE UNCHANGED syncVars
  BY <1>3 DEF syncVars, Crash
<1>4. CASE \E t \in {"schemas", "types"} : Begin(t) \/ ReadFile(t) \/ RemoveExtra(t) \/ OpenFile(t) \/ FillFile(t)
  <2>1. crashes' = crashes
    BY <1>4 DEF Begin, ReadFile, RemoveExtra, OpenFile, FillFile
  <2> QED BY <2>1 DEF Crash
<1> QED BY <1>1, <1>2, <1>3, <1>4 DEF SyncNext

\* Every step keeps the invariant, and a sync that finishes leaves what it read.
LEMMA SyncStepHolds ==
    ASSUME SyncInv, crashes \in Nat, [SyncNext]_syncVars
    PROVE  SyncInv' /\ (Writing("schemas") /\ job'["schemas"] = Idle /\ crashes' = crashes => LeftAsRead)
<1>1. Writing("schemas") => job["schemas"] # Idle /\ ~ Loading("schemas")
  BY DEF Writing, Loading
<1>2. CASE UNCHANGED syncVars
  <2>1. canonical' = canonical /\ copy' = copy /\ job' = job /\ released' = released
    BY <1>2 DEF syncVars
  <2> QED BY <1>1, <2>1 DEF SyncInv, ShippedWhole
<1>3. CASE Author
  <2>1. SyncInv'
    BY <1>3, AuthorKeeps
  <2>2. Writing("schemas") => job' = job
    BY <1>1, <1>3 DEF Author
  <2> QED BY <1>1, <2>1, <2>2
<1>4. CASE Crash
  BY <1>4, CrashKeeps, CrashesCounted
<1>5. CASE Release
  <2>1. SyncInv' /\ job' = job
    BY <1>5, ReleaseKeeps DEF Release
  <2> QED BY <1>1, <2>1
<1>6. CASE BeginCrate \/ WriteCrate \/ RemoveFromCrate
  <2>1. SyncInv' /\ job'["schemas"] = job["schemas"]
    BY <1>6, CrateKeeps
  <2> QED BY <1>1, <2>1
<1>7. ASSUME NEW t \in {"schemas", "types"}, Begin(t)
      PROVE  SyncInv' /\ (Writing("schemas") => job'["schemas"] = job["schemas"])
  <2>1. SyncInv' /\ (t # "schemas" => job'["schemas"] = job["schemas"])
    BY <1>7, BeginKeeps
  <2>2. ~ Writing("schemas")
    BY <1>7 DEF Begin, Free, Writing, Tool
  <2> QED BY <2>1, <2>2
<1>8. ASSUME NEW t \in {"schemas", "types"}, ReadFile(t)
      PROVE  SyncInv' /\ (Writing("schemas") => job'["schemas"] = job["schemas"])
  <2>1. SyncInv' /\ (t # "schemas" => job'["schemas"] = job["schemas"])
    BY <1>8, ReadFileKeeps
  <2>2. Loading(t)
    BY <1>8 DEF ReadFile
  <2> QED BY <1>1, <2>1, <2>2
<1>9. ASSUME NEW t \in {"schemas", "types"}, RemoveExtra(t)
      PROVE  SyncInv' /\ (Writing("schemas") => job'["schemas"] = job["schemas"])
  BY <1>9, RemoveExtraKeeps
<1>10. ASSUME NEW t \in {"schemas", "types"}, OpenFile(t)
       PROVE  SyncInv' /\ (Writing("schemas") => job'["schemas"] # Idle)
  BY <1>10, OpenFileKeeps
<1>11. ASSUME NEW t \in {"schemas", "types"}, FillFile(t)
       PROVE  SyncInv' /\ (Writing("schemas") /\ job'["schemas"] = Idle => LeftAsRead)
  BY <1>11, FillFileKeeps
<1>12. CASE \E t \in {"schemas", "types"} : Begin(t) \/ ReadFile(t) \/ RemoveExtra(t) \/ OpenFile(t) \/ FillFile(t)
  BY <1>1, <1>7, <1>8, <1>9, <1>10, <1>11, <1>12
<1>13. \/ Author \/ Crash \/ Release \/ BeginCrate \/ WriteCrate \/ RemoveFromCrate \/ UNCHANGED syncVars
       \/ \E t \in {"schemas", "types"} : Begin(t) \/ ReadFile(t) \/ RemoveExtra(t) \/ OpenFile(t) \/ FillFile(t)
  BY DEF SyncNext
<1> QED BY <1>2, <1>3, <1>4, <1>5, <1>6, <1>12, <1>13

\* What is known of the copies at any time: documents stay trees, a running sync has read what was there
\* and written what is neither open nor to do, and what shipped was whole (sync-schemas.ts,
\* check-vendored-schemas.ts).
THEOREM SyncInvariant == SyncSpec => [](SyncInv /\ crashes \in Nat)
<1>1. SyncInit => SyncInv /\ crashes \in Nat
  BY SyncInitHolds DEF SyncInit
<1>2. SyncInv /\ crashes \in Nat /\ [SyncNext]_syncVars => SyncInv' /\ (crashes \in Nat)'
  BY SyncStepHolds, CrashesCounted
<1> QED BY <1>1, <1>2, PTL DEF SyncSpec

\* Whatever the schemas are and however they refer to each other and to themselves, what the TypeScript
\* types say the Rust types say as well, unless the crate does not build or the path leads below a name
\* that is a skipped keyword; and what ships is whole and of the authority's schemas (generate-types.ts,
\* build.rs).
THEOREM LanguagesAlwaysAgree == SyncSpec => []LanguagesAgree
<1>1. SyncInv => LanguagesAgree
  BY SchemasCovered DEF SyncInv, ShippedWhole, LanguagesAgree
<1> QED BY <1>1, SyncInvariant, PTL

\* A sync that finishes leaves the files it listed as it read them, each from one moment of the reading,
\* with any number of files, authors in between and crashes of any tool (syncSchemaDirectories).
THEOREM SyncsAsRead == SyncSpec => CopyAsRead
<1>1. SyncInv /\ crashes \in Nat /\ [SyncNext]_syncVars =>
        [ (Writing("schemas") /\ job'["schemas"] = Idle /\ UNCHANGED crashes) =>
          /\ DOMAIN copy'["schemas"] = job["schemas"].listed
          /\ AsRead(copy'["schemas"], job["schemas"].seen)
          /\ \A docs \in job["schemas"].seen : job["schemas"].seen = {docs} => copy'["schemas"] = docs ]_syncVars
  BY SyncStepHolds DEF LeftAsRead
<1> QED BY <1>1, SyncInvariant, PTL DEF SyncSpec, CopyAsRead

==============================================================================
