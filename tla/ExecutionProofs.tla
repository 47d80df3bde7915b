--------------------------- MODULE ExecutionProofs ---------------------------
(***************************************************************************)
(* For any briefs, plans, graphs and lineages: missions are planned under  *)
(* the authority of that moment and one revision authorizes one execution  *)
(* (PlanAuthority); an erased package stays erased (BriefArchive); a run   *)
(* on an authorized graph has one way on, never enters a step twice and    *)
(* stays within what its plan binds (ExecutionGraph); the generations of a *)
(* lineage do not overlap, nor emit twice (ExecutionLineage); and nothing  *)
(* untrusted reaches an admitted call but through the fields its plan      *)
(* names (PlanQuarantine). Each model has an inductive invariant of its    *)
(* own.                                                                    *)
(***************************************************************************)
EXTENDS PlanAuthority, BriefArchive, ExecutionGraph, ExecutionLineage,
        SequenceTheorems, FiniteSetTheorems, WellFoundedInduction, TLAPS

------------------------------------------------------------------------------
(* Briefs, missions and plans (PlanAuthority)                              *)

Requested == [ receipt : Receipt, receipts : Seq(Receipt), expectedRevision : Nat,
             receiptState : {"identical", "conflicting", "new"} ]
Reading == [ handoff : Handoff, receipts : Seq(Receipt), membership : Nat, storeRevision : Nat ]

BriefTyped ==
    /\ now \in Nat /\ storeRevision \in Nat /\ membership \in Nat
    /\ accepted \in Seq(Receipt)
    /\ archive \in [ { h.id : h \in Handoff } -> Handoff \cup {Nobody} ]
    /\ requests \in [ Clerk -> Requested \cup {Nobody} ]
    /\ reading \in Reading \cup {Nobody}

\* A reading is old, or what is stored.
ReadingsTrue ==
    /\ \A c \in Clerk : requests[c] # Nobody =>
          /\ requests[c].expectedRevision <= storeRevision
          /\ requests[c].expectedRevision = storeRevision => requests[c].receipts = accepted
    /\ reading # Nobody =>
          /\ reading.storeRevision <= storeRevision
          /\ reading.storeRevision = storeRevision => reading.receipts = accepted

Bindings ==
    \A b \in bindings :
        /\ b.handoff \in Handoff
        /\ archive[b.handoff.id] = b.handoff
        /\ b = [ handoff |-> b.handoff, archived |-> b.handoff, body |-> Body,
                 receipt |-> b.handoff.receipt, criteria |-> Body.criteria ]

BriefInv == BriefTyped /\ ReadingsTrue /\ Bindings /\ AppendKeepsVerifiable

RecordFields == {"id", "revision", "binding", "bindingDigest", "criteria", "plan", "quorum"}

\* Every record derives from a binding, and each mission has a newest one.
Records ==
    /\ \A m \in records :
          /\ m.revision \in Nat /\ m.binding \in bindings
          /\ m = [ x \in RecordFields |-> m[x] ]
    /\ \A m, n \in records : m.id = n.id /\ m.revision = n.revision => m = n
    /\ \A m \in records : \E n \in records :
          n.id = m.id /\ \A k \in records : k.id = m.id => k.revision <= n.revision

PlanRecords == \A p \in plans : p = [ content |-> p.content, bodyDigest |-> p.bodyDigest ]

IInv == BriefInv /\ Records /\ PlanRecords

------------------------------------------------------------------------------
(* The package *)

\* The package verifies at a later time, while no key is revoked.
LEMMA PackageStays ==
    ASSUME NEW receipts \in Seq(Receipt), NEW s \in Nat, NEW t \in Nat, s <= t, PackageHolds(Body, receipts, s)
    PROVE  PackageHolds(Body, receipts, t)
  <1>1. \A i \in DOMAIN receipts : ReceiptHolds(receipts[i], Body, t)
    BY BriefAssumption DEF PackageHolds, ReceiptHolds
  <1> QED BY <1>1 DEF PackageHolds

LEMMA StateTyped ==
    ASSUME NEW r, NEW receipts
    PROVE  ReceiptState(r, receipts) \in {"identical", "conflicting", "new"}
  BY DEF ReceiptState

\* Another way to say that an append was granted.
LEMMA Appended ==
    ASSUME NEW request, AppendDecision(request) = "append"
    PROVE  /\ request.expectedRevision = storeRevision
           /\ PackageHolds(Body, Append(request.receipts, request.receipt), now)
  BY DEF AppendDecision

LEMMA PrepareKeeps ==
    ASSUME BriefInv, NEW c \in Clerk, NEW r \in Receipt, PrepareAppend(c, r)
    PROVE  BriefInv'
  <1> USE DEF BriefInv, PrepareAppend
  <1> DEFINE new == [ receipt |-> r, receipts |-> accepted, expectedRevision |-> storeRevision,
                      receiptState |-> ReceiptState(r, accepted) ]
  <1>1. new \in Requested
    BY StateTyped DEF Requested, BriefTyped
  <1>2. requests' = [requests EXCEPT ![c] = new]
    OBVIOUS
  <1> HIDE DEF new
  <1>3. BriefTyped'
    BY <1>1, <1>2 DEF BriefTyped
  <1>4. \A d \in Clerk : requests'[d] = IF d = c THEN new ELSE requests[d]
    BY <1>2 DEF BriefTyped
  <1>5. ReadingsTrue'
    BY <1>4 DEF ReadingsTrue, BriefTyped, new
  <1>6. Bindings' /\ AppendKeepsVerifiable'
    BY DEF Bindings, AppendKeepsVerifiable, PackageHolds, ReceiptHolds
  <1> QED BY <1>3, <1>5, <1>6

LEMMA CommitKeeps ==
    ASSUME BriefInv, NEW c \in Clerk, CommitAppend(c)
    PROVE  BriefInv'
  <1> USE DEF BriefInv
  <1> USE DEF CommitAppend
  <1>1. requests[c] \in Requested
    BY DEF BriefTyped
  <1>2. \A d \in Clerk : requests'[d] = IF d = c THEN Nobody ELSE requests[d]
    BY DEF BriefTyped
  <1>3. requests' \in [ Clerk -> Requested \cup {Nobody} ]
    BY DEF BriefTyped
  <1>4. Bindings'
    BY DEF Bindings
  <1>5. CASE AppendDecision(requests[c]) = "append"
    <2>1. /\ accepted' = Append(accepted, requests[c].receipt)
          /\ storeRevision' = storeRevision + 1
      BY <1>5
    <2>2. /\ requests[c].receipts = accepted
          /\ PackageHolds(Body, Append(accepted, requests[c].receipt), now)
      BY <1>5, Appended DEF ReadingsTrue
    <2>3. accepted' \in Seq(Receipt)
      BY <1>1, <2>1 DEF BriefTyped, Requested
    <2>4. BriefTyped'
      BY <1>3, <2>1, <2>3 DEF BriefTyped
    <2>5. ReadingsTrue'
      BY <1>2, <2>1 DEF ReadingsTrue, BriefTyped, Requested, Reading
    <2>6. AppendKeepsVerifiable'
      BY <2>1, <2>2 DEF AppendKeepsVerifiable, PackageHolds, ReceiptHolds
    <2> QED BY <1>4, <2>4, <2>5, <2>6
  <1>6. CASE AppendDecision(requests[c]) # "append"
    <2>1. UNCHANGED <<accepted, proofs, storeRevision>>
      BY <1>6
    <2>2. BriefTyped'
      BY <1>3, <2>1 DEF BriefTyped
    <2>3. ReadingsTrue'
      BY <1>2, <2>1 DEF ReadingsTrue
    <2>4. AppendKeepsVerifiable'
      BY <2>1 DEF AppendKeepsVerifiable, PackageHolds, ReceiptHolds
    <2> QED BY <1>4, <2>2, <2>3, <2>4
  <1> QED BY <1>5, <1>6

LEMMA ArchiveKeeps ==
    ASSUME BriefInv, NEW h \in Handoff, ArchiveHandoff(h)
    PROVE  BriefInv'
  <1> USE DEF BriefInv, ArchiveHandoff
  <1>1. BriefTyped'
    BY DEF BriefTyped
  <1>2. ReadingsTrue'
    BY DEF ReadingsTrue
  <1>3. Bindings'
    <2> SUFFICES ASSUME NEW b \in bindings PROVE archive'[b.handoff.id] = b.handoff
      BY DEF Bindings
    <2>1. archive[b.handoff.id] = b.handoff /\ b.handoff \in Handoff
      BY DEF Bindings
    <2>2. b.handoff.id # h.id
      BY <2>1, BriefAssumption
    <2> QED BY <2>1, <2>2 DEF BriefTyped
  <1>4. AppendKeepsVerifiable'
    BY DEF AppendKeepsVerifiable, PackageHolds, ReceiptHolds
  <1> QED BY <1>1, <1>2, <1>3, <1>4

LEMMA ReadKeeps ==
    ASSUME BriefInv, NEW h \in Handoff, ReadForPlan(h)
    PROVE  BriefInv'
  <1> USE DEF BriefInv, ReadForPlan
  <1>1. BriefTyped'
    BY DEF BriefTyped, Reading
  <1>2. ReadingsTrue'
    BY DEF ReadingsTrue, BriefTyped
  <1>3. Bindings' /\ AppendKeepsVerifiable'
    BY DEF Bindings, AppendKeepsVerifiable, PackageHolds, ReceiptHolds
  <1> QED BY <1>1, <1>2, <1>3

LEMMA PlanKeeps ==
    ASSUME BriefInv, PlanMission
    PROVE  BriefInv' /\ bindings \subseteq bindings'
  <1> USE DEF BriefInv, PlanMission
  <1>1. BriefTyped' /\ ReadingsTrue'
    BY DEF BriefTyped, ReadingsTrue
  <1>2. AppendKeepsVerifiable'
    BY DEF AppendKeepsVerifiable, PackageHolds, ReceiptHolds
  <1>3. Bindings' /\ bindings \subseteq bindings'
    <2>1. CASE ~BindingDerived(reading)
      BY <2>1 DEF Bindings
    <2>2. CASE BindingDerived(reading)
      <3>1. reading.handoff \in Handoff /\ archive[reading.handoff.id] = reading.handoff
        BY <2>2 DEF BindingDerived, BriefTyped, Reading
      <3>2. bindings' = bindings \cup {BindingOf(reading.handoff)}
        BY <2>2
      <3> DEFINE b == BindingOf(reading.handoff)
      <3>3. /\ b.handoff = reading.handoff
            /\ b = [ handoff |-> b.handoff, archived |-> b.handoff, body |-> Body,
                     receipt |-> b.handoff.receipt, criteria |-> Body.criteria ]
        BY <3>1 DEF BindingOf
      <3> HIDE DEF b
      <3> QED BY <3>1, <3>2, <3>3 DEF Bindings, b
    <2> QED BY <2>1, <2>2
  <1> QED BY <1>1, <1>2, <1>3

\* Time passes, a key is revoked, a membership changes, a proof is lost.
LEMMA UpsetKeeps ==
    ASSUME BriefInv,
           Tick \/ (\E k \in DOMAIN Registry : RevokeKey(k)) \/ ChangeMembership \/ (\E r \in Receipt : LoseProof(r))
    PROVE  BriefInv'
  <1> USE DEF BriefInv
  <1>1. /\ UNCHANGED <<accepted, storeRevision, archive, requests, reading, bindings>>
        /\ now' \in Nat /\ now <= now' /\ membership' \in Nat
    BY DEF Tick, RevokeKey, ChangeMembership, LoseProof, BriefTyped
  <1>2. revoked' = {} => revoked = {}
    BY DEF Tick, RevokeKey, ChangeMembership, LoseProof
  <1>3. BriefTyped' /\ ReadingsTrue' /\ Bindings'
    BY <1>1 DEF BriefTyped, ReadingsTrue, Bindings
  <1>4. ASSUME accepted # << >>, revoked' = {} PROVE PackageHolds(Body, accepted, now)'
    <2>1. PackageHolds(Body, accepted, now')
      BY <1>1, <1>2, <1>4, PackageStays DEF AppendKeepsVerifiable, BriefTyped
    <2> QED BY <1>1, <1>2, <1>4, <2>1 DEF PackageHolds, ReceiptHolds
  <1> QED BY <1>1, <1>3, <1>4 DEF AppendKeepsVerifiable

LEMMA BriefKeeps ==
    ASSUME BriefInv, BriefNext
    PROVE  BriefInv' /\ bindings \subseteq bindings'
  <1>1. ASSUME NEW c \in Clerk, NEW r \in Receipt, PrepareAppend(c, r) PROVE BriefInv' /\ bindings \subseteq bindings'
    BY <1>1, PrepareKeeps DEF PrepareAppend
  <1>2. ASSUME NEW c \in Clerk, CommitAppend(c) PROVE BriefInv' /\ bindings \subseteq bindings'
    BY <1>2, CommitKeeps DEF CommitAppend
  <1>3. ASSUME NEW h \in Handoff, ArchiveHandoff(h) PROVE BriefInv' /\ bindings \subseteq bindings'
    BY <1>3, ArchiveKeeps DEF ArchiveHandoff
  <1>4. ASSUME NEW h \in Handoff, ReadForPlan(h) PROVE BriefInv' /\ bindings \subseteq bindings'
    BY <1>4, ReadKeeps DEF ReadForPlan
  <1>5. CASE Tick \/ (\E k \in DOMAIN Registry : RevokeKey(k)) \/ ChangeMembership \/ (\E r \in Receipt : LoseProof(r))
    BY <1>5, UpsetKeeps DEF Tick, RevokeKey, ChangeMembership, LoseProof
  <1> QED BY <1>1, <1>2, <1>3, <1>4, <1>5, PlanKeeps DEF BriefNext

------------------------------------------------------------------------------
(* Records, plans and authorizations *)

\* The newest record of a mission that has one.
LEMMA LatestIsNewest ==
    ASSUME Records, NEW m \in records
    PROVE  /\ Latest(m.id) \in records /\ Latest(m.id).id = m.id
           /\ \A k \in records : k.id = m.id => k.revision <= Latest(m.id).revision
  <1>1. \E n \in records : n.id = m.id /\ \A k \in records : k.id = m.id => k.revision <= n.revision
    BY DEF Records
  <1> QED BY <1>1 DEF Latest

LEMMA RecordKeeps ==
    ASSUME Records, NEW id, NEW b \in bindings, NEW reordered, RecordMission(id, b, reordered), bindings' = bindings
    PROVE  Records'
  <1> DEFINE new == [ id |-> id, revision |-> 1, binding |-> b, bindingDigest |-> b,
                      criteria |-> InOrder(b.criteria, reordered), plan |-> NoPlan, quorum |-> NoPlan ]
  <1>1. records' = records \cup {new} /\ \A m \in records : m.id # id
    BY DEF RecordMission
  <1>2. /\ new.id = id /\ new.revision = 1 /\ new.binding = b
        /\ new = [ x \in RecordFields |-> new[x] ]
    BY DEF RecordFields
  <1> HIDE DEF new
  <1>3. \A m, n \in records' : m.id = n.id /\ m.revision = n.revision => m = n
    BY <1>1, <1>2 DEF Records
  <1>4. ASSUME NEW m \in records'
        PROVE  \E n \in records' : n.id = m.id /\ \A k \in records' : k.id = m.id => k.revision <= n.revision
    <2>1. CASE m = new
      BY <1>1, <1>2, <2>1
    <2>2. CASE m \in records
      BY <1>1, <1>2, <2>2 DEF Records
    <2> QED BY <1>1, <2>1, <2>2
  <1>5. ASSUME NEW m \in records'
        PROVE  /\ m.revision \in Nat /\ m.binding \in bindings'
               /\ m = [ x \in RecordFields |-> m[x] ]
    BY <1>1, <1>2 DEF Records
  <1> QED BY <1>3, <1>4, <1>5 DEF Records

LEMMA AttachKeeps ==
    ASSUME Records, NEW id, NEW p, NEW quorum, AttachPlan(id, p, quorum), bindings' = bindings
    PROVE  Records'
  <1> DEFINE old == Latest(id)
             new == [old EXCEPT !.revision = @ + 1, !.quorum = quorum,
                                !.plan = [ id |-> p.content.id, digest |-> p.bodyDigest ]]
  <1>1. old \in records /\ old.id = id /\ \A k \in records : k.id = id => k.revision <= old.revision
    BY LatestIsNewest DEF AttachPlan
  <1>2. records' = records \cup {new}
    BY DEF AttachPlan
  <1> HIDE DEF old
  <1>3. old = [ x \in RecordFields |-> old[x] ]
    BY <1>1 DEF Records
  <1>4. /\ new.id = id /\ new.revision = old.revision + 1 /\ new.binding = old.binding
        /\ new = [ x \in RecordFields |-> new[x] ]
    BY <1>1, <1>3 DEF RecordFields
  <1>5. old.revision \in Nat /\ old.binding \in bindings
    BY <1>1 DEF Records
  <1> HIDE DEF new
  <1>6. \A m \in records : m.revision \in Nat
    BY DEF Records
  <1>7. \A m, n \in records' : m.id = n.id /\ m.revision = n.revision => m = n
    BY <1>1, <1>2, <1>4, <1>5, <1>6 DEF Records
  <1>8. ASSUME NEW m \in records'
        PROVE  \E n \in records' : n.id = m.id /\ \A k \in records' : k.id = m.id => k.revision <= n.revision
    <2>1. CASE m.id = id
      BY <1>1, <1>2, <1>4, <1>5, <1>6, <2>1
    <2>2. CASE m.id # id
      BY <1>2, <1>4, <2>2 DEF Records
    <2> QED BY <2>1, <2>2
  <1>9. ASSUME NEW m \in records'
        PROVE  /\ m.revision \in Nat /\ m.binding \in bindings'
               /\ m = [ x \in RecordFields |-> m[x] ]
    BY <1>2, <1>4, <1>5 DEF Records
  <1> QED BY <1>7, <1>8, <1>9 DEF Records

LEMMA AuthorityKeeps ==
    ASSUME IInv, AuthorityNext, UNCHANGED briefVars
    PROVE  IInv'
  <1>1. BriefInv' /\ bindings' = bindings
    BY DEF IInv, BriefInv, BriefTyped, ReadingsTrue, Bindings, AppendKeepsVerifiable, PackageHolds, ReceiptHolds, briefVars
  <1>2. ASSUME NEW id \in MissionId, NEW b \in bindings, NEW reordered \in BOOLEAN, RecordMission(id, b, reordered)
        PROVE  Records' /\ PlanRecords'
    BY <1>1, <1>2, RecordKeeps DEF IInv, PlanRecords, RecordMission
  <1>3. ASSUME NEW m \in records, NEW draft \in Draft, NEW h \in Profile,
               SealPlan(m, draft, h) \/ \E p \in plans : EditPlan(p, m, draft, h)
        PROVE  Records' /\ PlanRecords'
    <2>1. Records'
      BY <1>1, <1>3 DEF IInv, Records, SealPlan, EditPlan
    <2>2. PlanRecords'
      BY <1>3 DEF IInv, PlanRecords, SealPlan, EditPlan
    <2> QED BY <2>1, <2>2
  <1>4. ASSUME NEW id \in MissionId, NEW p \in plans, NEW quorum \in Quorum, AttachPlan(id, p, quorum)
        PROVE  Records' /\ PlanRecords'
    BY <1>1, <1>4, AttachKeeps DEF IInv, PlanRecords, AttachPlan
  <1>5. ASSUME NEW m \in records, NEW p \in plans, NEW q \in plans, NEW h \in Profile, Issue(m, p, q, h)
        PROVE  Records' /\ PlanRecords'
    BY <1>1, <1>5 DEF IInv, Records, PlanRecords, Issue
  <1> QED BY <1>1, <1>2, <1>3, <1>4, <1>5 DEF IInv, AuthorityNext

LEMMA InitHolds == BriefInit /\ AuthorityInit => IInv
  <1> SUFFICES ASSUME BriefInit, AuthorityInit PROVE IInv
    OBVIOUS
  <1>1. BriefTyped
    BY DEF BriefInit, BriefTyped
  <1>2. ReadingsTrue /\ Bindings /\ AppendKeepsVerifiable
    BY DEF BriefInit, ReadingsTrue, Bindings, AppendKeepsVerifiable
  <1>3. Records /\ PlanRecords
    BY DEF AuthorityInit, Records, PlanRecords
  <1> QED BY <1>1, <1>2, <1>3 DEF IInv, BriefInv

\* The step of all owners.
AnyNext == (BriefNext /\ UNCHANGED authorityVars) \/ (AuthorityNext /\ UNCHANGED briefVars)

LEMMA StepPreserves ==
    ASSUME IInv, [AnyNext]_<<briefVars, authorityVars>>
    PROVE  IInv'
  <1>1. CASE BriefNext /\ UNCHANGED authorityVars
    <2>1. BriefInv' /\ bindings \subseteq bindings'
      BY <1>1, BriefKeeps DEF IInv
    <2>2. Records' /\ PlanRecords'
      BY <1>1, <2>1 DEF IInv, Records, PlanRecords, authorityVars
    <2> QED BY <2>1, <2>2 DEF IInv
  <1>2. CASE AuthorityNext /\ UNCHANGED briefVars
    BY <1>2, AuthorityKeeps
  <1>3. CASE UNCHANGED <<briefVars, authorityVars>>
    BY <1>3 DEF IInv, BriefInv, BriefTyped, ReadingsTrue, Bindings, AppendKeepsVerifiable, PackageHolds, ReceiptHolds,
                Records, PlanRecords, briefVars, authorityVars
  <1> QED BY <1>1, <1>2, <1>3 DEF AnyNext

\* Readings are true or recognisably old, and records are numbered.
THEOREM Invariant == AuthoritySpec => []IInv
  BY InitHolds, StepPreserves, PTL DEF AuthoritySpec, AnyNext

------------------------------------------------------------------------------
(* The properties *)

\* evaluateBriefStorage, kind append: racing clerks keep the package verifiable.
THEOREM AppendsKeepVerifiable == AuthoritySpec => []AppendKeepsVerifiable
  <1>1. IInv => AppendKeepsVerifiable
    BY DEF IInv, BriefInv
  <1> QED BY <1>1, Invariant, PTL

\* deriveMissionBinding: missions of one handoff identity stand on one document.
THEOREM OneDocument == AuthoritySpec => []OneDocumentPerHandoff
  <1>1. IInv => OneDocumentPerHandoff
    <2> SUFFICES ASSUME IInv, NEW a \in bindings, NEW b \in bindings, a.handoff.id = b.handoff.id PROVE a = b
      BY DEF OneDocumentPerHandoff
    <2>1. a.handoff = b.handoff
      BY DEF IInv, BriefInv, Bindings
    <2> QED BY <2>1 DEF IInv, BriefInv, Bindings
  <1> QED BY <1>1, Invariant, PTL

\* A binding that is derived is derived under the authority of that moment.
LEMMA DerivedIsCurrent ==
    ASSUME BriefInv, PlanMission, BindingDerived(reading)
    PROVE  /\ reading.membership = membership
           /\ reading.handoff.receipt \in Range(accepted)
           /\ \A r \in Range(accepted) : r.key \notin revoked /\ r \in proofs /\ r.approver \notin Range(Contributors)
           /\ now < reading.handoff.expiresAt
  <1>1. AuthorityCurrent(reading) /\ ProofsComplete(reading)
    BY DEF BindingDerived
  <1>2. reading.receipts = accepted
    BY <1>1 DEF BriefInv, ReadingsTrue, AuthorityCurrent, PlanMission
  <1>3. PackageHolds(Body, accepted, now) /\ HandoffHolds(reading.handoff, Body, accepted, now)
    BY <1>2 DEF BindingDerived
  <1>4. ASSUME NEW r \in Range(accepted) PROVE r.key \notin revoked /\ r \in proofs /\ r.approver \notin Range(Contributors)
    <2>1. ReceiptHolds(r, Body, now)
      BY <1>3 DEF PackageHolds, Range
    <2>2. Range(Body.contributors) = Range(Contributors)
      BY <1>3 DEF PackageHolds, SameSet
    <2>3. r \in proofs
      BY <1>1, <1>2 DEF ProofsComplete
    <2> QED BY <2>1, <2>2, <2>3 DEF ReceiptHolds
  <1> QED BY <1>1, <1>3, <1>4 DEF AuthorityCurrent, HandoffHolds

\* Bindings come from PlanMission alone.
LEMMA BindingIsPlanned ==
    ASSUME BriefInv, [AnyNext]_<<briefVars, authorityVars>>, NEW b \in bindings', b \notin bindings
    PROVE  /\ reading.membership = membership
           /\ b.receipt \in Range(accepted)
           /\ \A r \in Range(accepted) : r.key \notin revoked /\ r \in proofs /\ r.approver \notin Range(Contributors)
           /\ now < b.handoff.expiresAt
  <1>1. bindings' # bindings
    OBVIOUS
  <1>2. BriefNext
    BY <1>1 DEF AnyNext, briefVars
  <1>3. PlanMission
    BY <1>1, <1>2 DEF BriefNext, PrepareAppend, CommitAppend, ArchiveHandoff, ReadForPlan, Tick, RevokeKey, ChangeMembership, LoseProof
  <1>4. BindingDerived(reading) /\ b = BindingOf(reading.handoff)
    BY <1>3 DEF PlanMission
  <1>5. b.receipt = reading.handoff.receipt /\ b.handoff = reading.handoff
    BY <1>4 DEF BindingOf
  <1> QED BY <1>3, <1>4, <1>5, DerivedIsCurrent

\* deriveMissionBinding: a mission is planned only under the authority of the
\* moment it is committed in.
THEOREM PlannedUnderCurrent == AuthoritySpec => PlannedUnderCurrentAuthority
  <1>1. ASSUME IInv, [AnyNext]_<<briefVars, authorityVars>>
        PROVE  [ \A b \in bindings' \ bindings :
                    /\ reading.membership = membership
                    /\ b.receipt \in Range(accepted)
                    /\ \A r \in Range(accepted) : r.key \notin revoked /\ r \in proofs /\ r.approver \notin Range(Contributors)
                    /\ now < b.handoff.expiresAt ]_briefVars
    BY <1>1, BindingIsPlanned DEF IInv
  <1> QED BY <1>1, Invariant, PTL DEF AuthoritySpec, AnyNext, PlannedUnderCurrentAuthority

\* Two documents that bind with one revision share the record and the plan.
LEMMA OneRecordOnePlan ==
    ASSUME IInv, NEW d \in Bound, NEW e \in Bound, d[1].id = e[1].id, d[1].revision = e[1].revision
    PROVE  d[1] = e[1] /\ d[2] = e[2]
  <1>1. d[1] \in records /\ d[2] \in plans /\ e[1] \in records /\ e[2] \in plans
    BY DEF Bound
  <1>2. d[1] = e[1]
    BY <1>1 DEF IInv, Records
  <1>3. PlanBound(d[1], d[2]) /\ PlanBound(d[1], e[2])
    BY <1>2 DEF Bound, Binds3
  <1>4. d[2].bodyDigest = e[2].bodyDigest
    BY <1>3 DEF PlanBound
  <1>5. d[2].content = e[2].content
    BY <1>3, <1>4 DEF PlanBound, Sealed
  <1> QED BY <1>1, <1>2, <1>4, <1>5 DEF IInv, PlanRecords

\* A profile is what its digest says.
LEMMA OneProfile ==
    ASSUME NEW p, NEW a, NEW b, NEW h \in Profile, NEW k \in Profile, ProfileBound(p, h, a), ProfileBound(p, k, b),
           ProfileResolved(h), ProfileResolved(k)
    PROVE  h = k
  <1>1. h.digest = k.digest
    BY DEF ProfileBound
  <1>2. h.id = k.id /\ h.repeatThreshold = k.repeatThreshold /\ h.windowSize = k.windowSize
    BY <1>1 DEF ProfileResolved, ProfileDigest
  <1> QED BY <1>1, <1>2, ProfileAssumption

\* verifyMissionBindingDigests and authorizationV4BindingFailures: one revision
\* authorizes one execution.
THEOREM OneExecution == AuthoritySpec => []OneExecutionPerRevision
  <1>1. ASSUME IInv PROVE OneExecutionPerRevision
    <2> SUFFICES ASSUME NEW d \in Bound, NEW e \in Bound, d[1].id = e[1].id, d[1].revision = e[1].revision
                 PROVE  /\ d[2] = e[2]
                        /\ d[3].generation = e[3].generation /\ d[3].graph = e[3].graph /\ d[3].quorum = e[3].quorum
                        /\ \A h, k \in Profile : (Binds4(d[1], d[2], h, d[3]) /\ Binds4(e[1], e[2], k, e[3])) => h = k
      BY DEF OneExecutionPerRevision
    <2>1. d[1] = e[1] /\ d[2] = e[2]
      BY <1>1, OneRecordOnePlan
    <2>2. AuthorizationBound(d[1], d[2], d[3]) /\ AuthorizationBound(d[1], d[2], e[3])
      BY <2>1 DEF Bound, Binds3
    <2>3. ASSUME NEW h \in Profile, NEW k \in Profile, Binds4(d[1], d[2], h, d[3]), Binds4(e[1], e[2], k, e[3])
          PROVE  h = k
      BY <2>1, <2>3, OneProfile DEF Binds4
    <2> QED BY <2>1, <2>2, <2>3 DEF AuthorizationBound
  <1> QED BY <1>1, Invariant, PTL

\* From deriveMissionBinding to the authorization: the criteria are the accepted
\* ones, in their order.
THEOREM CriteriaFollow == AuthoritySpec => []CriteriaFollowTheBrief
  <1>1. ASSUME IInv PROVE CriteriaFollowTheBrief
    <2> SUFFICES ASSUME NEW d \in Bound
                 PROVE  d[2].content.criteria = Body.criteria /\ d[1].binding \in bindings
      BY DEF CriteriaFollowTheBrief
    <2>1. d[1] \in records /\ MissionHolds(d[1]) /\ PlanBound(d[1], d[2])
      BY DEF Bound, Binds3
    <2>2. d[1].binding \in bindings
      BY <1>1, <2>1 DEF IInv, Records
    <2>3. d[1].binding.criteria = Body.criteria
      BY <1>1, <2>2 DEF IInv, BriefInv, Bindings
    <2> QED BY <2>1, <2>2, <2>3 DEF MissionHolds, PlanBound
  <1> QED BY <1>1, Invariant, PTL

------------------------------------------------------------------------------
(* Erasure and restore (BriefArchive)                                      *)

Deletion == [ at : Nat, expiresAt : Nat ]

ArchiveTyped ==
    /\ day \in Nat
    /\ live \subseteq Package
    /\ \A b \in backups : b.holds \subseteq Package
    /\ erased \in [ Package -> Deletion \cup {Offline} ]
    /\ restore \in [ holds : SUBSET Package, proved : SUBSET Prerequisite ] \cup {Offline}

\* A backup that still holds an erased package is within the deadline of its
\* deletion, and a restore that has replayed the deletions holds none: nothing
\* is deleted while nothing is served.
DeadlinesKept ==
    /\ \A p \in Erased :
          /\ p \notin live
          /\ erased[p].expiresAt <= erased[p].at + Ceiling
          /\ \A b \in backups : p \in b.holds => day <= erased[p].expiresAt
    /\ restore # Offline =>
          /\ live = {}
          /\ Replay \in restore.proved => restore.holds \cap Erased = {}

ArchiveInv == ArchiveTyped /\ DeadlinesKept

LEMMA ArchiveInitHolds == ASSUME ArchiveInit PROVE ArchiveInv
BY ArchiveAssumption DEF ArchiveInit, ArchiveInv, ArchiveTyped, DeadlinesKept, Erased

LEMMA TakeBackupKeeps == ASSUME ArchiveInv, TakeBackup PROVE ArchiveInv'
<1> USE DEF ArchiveInv
<1>1. ArchiveTyped'
  BY DEF TakeBackup, ArchiveTyped
<1> QED
  BY <1>1 DEF TakeBackup, DeadlinesKept, Erased

LEMMA EraseKeeps ==
    ASSUME ArchiveInv, NEW p \in Package, NEW d \in 0 .. MaxDay, Erase(p, d)
    PROVE  ArchiveInv'
<1> USE DEF ArchiveInv
<1> DEFINE deletion == [ at |-> day, expiresAt |-> d ]
<1>1. d \in Nat /\ day \in Nat /\ day <= d /\ d <= day + Ceiling
  BY ArchiveAssumption DEF ArchiveTyped, Erase, BackupDecision
<1>2. deletion \in Deletion /\ deletion.at = day /\ deletion.expiresAt = d
  BY <1>1 DEF Deletion
<1>3. erased' = [ erased EXCEPT ![p] = deletion ] /\ live' = live \ {p} /\ p \in live
      /\ UNCHANGED <<day, backups, restore, storeLosses>>
  BY DEF Erase
<1> HIDE DEF deletion
<1>4. ArchiveTyped'
  BY <1>2, <1>3 DEF ArchiveTyped
<1>5. \A q \in Package : erased'[q] = IF q = p THEN deletion ELSE erased[q]
  BY <1>3 DEF ArchiveTyped
<1>6. restore = Offline
  BY <1>3 DEF DeadlinesKept
<1> QED
  BY <1>1, <1>2, <1>3, <1>4, <1>5, <1>6 DEF DeadlinesKept, Erased

LEMMA EndDayKeeps == ASSUME ArchiveInv, EndDay PROVE ArchiveInv'
<1> USE DEF ArchiveInv
<1>1. ArchiveTyped'
  BY DEF EndDay, ArchiveTyped
<1>2. \A p \in Erased : erased[p] \in Deletion
  BY DEF ArchiveTyped, Erased
<1> QED
  BY <1>1, <1>2 DEF EndDay, DeadlinesKept, Erased, ArchiveTyped, Deletion

LEMMA DropBackupKeeps ==
    ASSUME ArchiveInv, NEW b \in backups, DropBackup(b) PROVE ArchiveInv'
BY DEF ArchiveInv, DropBackup, ArchiveTyped, DeadlinesKept, Erased

LEMMA LoseStoreKeeps == ASSUME ArchiveInv, LoseStore PROVE ArchiveInv'
BY DEF ArchiveInv, LoseStore, ArchiveTyped, DeadlinesKept, Erased

LEMMA BeginRestoreKeeps ==
    ASSUME ArchiveInv, NEW b \in backups, BeginRestore(b) PROVE ArchiveInv'
BY DEF ArchiveInv, BeginRestore, ArchiveTyped, DeadlinesKept, Erased

LEMMA ProveKeeps ==
    ASSUME ArchiveInv, NEW step \in Prerequisite, Prove(step) PROVE ArchiveInv'
<1> USE DEF ArchiveInv
<1>1. ArchiveTyped'
  BY DEF Prove, ArchiveTyped
<1> QED
  BY <1>1 DEF Prove, DeadlinesKept, Erased, ArchiveTyped

LEMMA ServeKeeps == ASSUME ArchiveInv, Serve PROVE ArchiveInv'
<1> USE DEF ArchiveInv
<1>1. restore # Offline /\ Replay \in restore.proved
  BY ArchiveAssumption DEF Serve, RestoreDecision
<1>2. ArchiveTyped'
  BY <1>1 DEF Serve, ArchiveTyped
<1> QED
  BY <1>1, <1>2 DEF Serve, DeadlinesKept, Erased

LEMMA ArchiveStepPreserves == ASSUME ArchiveInv, [ArchiveNext]_archiveVars PROVE ArchiveInv'
<1>1. CASE UNCHANGED archiveVars
  BY <1>1 DEF ArchiveInv, archiveVars, ArchiveTyped, DeadlinesKept, Erased
<1> QED
  BY <1>1, TakeBackupKeeps, EraseKeeps, EndDayKeeps, DropBackupKeeps, LoseStoreKeeps,
     BeginRestoreKeeps, ProveKeeps, ServeKeeps DEF ArchiveNext

\* Backups, erasures and restores keep the deadlines.
THEOREM ArchiveInvariant == ArchiveSpec => []ArchiveInv
BY ArchiveInitHolds, ArchiveStepPreserves, PTL DEF ArchiveSpec

\* An erased package is never served again, whatever was lost and restored
\* since, and once the ceiling has passed no copy of it is left.
THEOREM ErasuresFinal == ArchiveSpec => []ErasureIsFinal
<1>1. ArchiveInv => ErasureIsFinal
  <2> SUFFICES ASSUME ArchiveInv, NEW p \in Erased
               PROVE  /\ p \notin live
                      /\ day > erased[p].at + Ceiling => \A b \in backups : p \notin b.holds
    BY DEF ErasureIsFinal
  <2>1. erased[p] \in Deletion
    BY DEF ArchiveInv, ArchiveTyped, Erased
  <2> QED
    BY <2>1, ArchiveAssumption DEF ArchiveInv, ArchiveTyped, DeadlinesKept, Deletion
<1> QED
  BY <1>1, ArchiveInvariant, PTL

------------------------------------------------------------------------------
(* Iteration *)

\* Induction over the naturals for a set of them, from the well-founded order.
LEMMA SetInduction ==
    ASSUME NEW T, 0 \in T, \A n \in Nat : n \in T => n + 1 \in T
    PROVE  Nat \subseteq T
<1> SUFFICES ASSUME Nat \ T # {} PROVE FALSE
  OBVIOUS
<1>1. PICK n \in Nat \ T : \A m \in Nat \ T : ~ (<<m, n>> \in OpToRel(<, Nat))
  BY NatLessThanWellFounded, WFMin
<1>2. n - 1 \in Nat \ T
  OBVIOUS
<1>3. <<n - 1, n>> \in OpToRel(<, Nat)
  BY <1>2 DEF OpToRel
<1> QED
  BY <1>1, <1>2, <1>3

\* Some natural of a set is below all others.
LEMMA Least ==
    ASSUME NEW T, T \subseteq Nat, T # {}
    PROVE  \E n \in T : \A m \in T : n <= m
<1>1. \E n \in T : \A m \in T : ~ (<<m, n>> \in OpToRel(<, Nat))
  BY NatLessThanWellFounded, WFMin
<1>2. PICK n \in T : \A m \in T : ~ (<<m, n>> \in OpToRel(<, Nat))
  BY <1>1
<1>3. \A m \in T : ~ (m < n)
  BY <1>2 DEF OpToRel
<1> QED
  BY <1>3

\* Rounds, each computed from the one before.
Unfolds(f, l, base, step) ==
    f[0] = base /\ \A n \in 1 .. l : f[n] = step[<<n, f[n - 1]>>]

\* What is computed in rounds exists.
LEMMA Rounds ==
    ASSUME NEW D, NEW base \in D, NEW step \in [Nat \X D -> D], NEW l \in Nat
    PROVE  \E f \in [0 .. l -> D] : Unfolds(f, l, base, step)
<1> DEFINE Ok(f, k) == f[0] = base /\ \A n \in 1 .. k : f[n] = step[<<n, f[n - 1]>>]
           T == { k \in Nat : \E f \in [0 .. k -> D] : Ok(f, k) }
<1>1. 0 \in T
  <2>1. [ n \in 0 .. 0 |-> base ] \in [ 0 .. 0 -> D ] /\ Ok([ n \in 0 .. 0 |-> base ], 0)
    OBVIOUS
  <2> QED
    BY <2>1
<1>2. ASSUME NEW k \in Nat, k \in T PROVE k + 1 \in T
  <2>1. PICK f \in [0 .. k -> D] : Ok(f, k)
    BY <1>2
  <2> DEFINE g == [ n \in 0 .. k + 1 |-> IF n = k + 1 THEN step[<<k + 1, f[k]>>] ELSE f[n] ]
  <2>2. g \in [ 0 .. k + 1 -> D ]
    <3>1. f[k] \in D
      OBVIOUS
    <3>2. step[<<k + 1, f[k]>>] \in D
      BY <3>1
    <3>3. ASSUME NEW n \in 0 .. k + 1 PROVE g[n] \in D
      BY <3>2, <3>3
    <3> QED BY <3>3
  <2>3. g[k + 1] = step[<<k + 1, f[k]>>] /\ \A n \in 0 .. k : g[n] = f[n]
    OBVIOUS
  <2>4. f[0] = base /\ \A n \in 1 .. k : f[n] = step[<<n, f[n - 1]>>]
    BY <2>1
  <2> HIDE DEF g
  <2>5. ASSUME NEW n \in 1 .. k + 1 PROVE g[n] = step[<<n, g[n - 1]>>]
    <3>1. CASE n = k + 1
      <4>1. n - 1 = k /\ k \in 0 .. k
        BY <3>1
      <4> QED BY <2>3, <3>1, <4>1
    <3>2. CASE n # k + 1
      <4>1. n \in 1 .. k /\ n \in 0 .. k /\ n - 1 \in 0 .. k
        BY <3>2
      <4> QED BY <2>3, <2>4, <4>1
    <3> QED BY <3>1, <3>2
  <2>6. g[0] = base
    BY <2>3, <2>4
  <2>7. Ok(g, k + 1)
    BY <2>5, <2>6
  <2> QED BY <2>2, <2>7
<1>3. Nat \subseteq T
  <2> HIDE DEF T
  <2> QED BY <1>1, <1>2, SetInduction
<1> QED
  BY <1>3 DEF Unfolds

------------------------------------------------------------------------------
(* Without a cycle, the steps can be ranked along the edges. *)

\* A ranking grows along every edge.
Ranking(g) ==
    { rank \in [Ids(g) -> Nat] : \A e \in Edges(g) : rank[e.from] < rank[e.to] }

Graphs == [ steps : StepLists, edges : EdgeLists, entry : Entries ]

LEMMA StepsAreLists ==
    ASSUME NEW g \in Graphs
    PROVE  /\ g.steps \in Seq(Steps(g)) /\ Len(g.steps) \in Nat
           /\ DOMAIN g.steps = 1 .. Len(g.steps)
<1>1. g.steps \in StepLists
  BY DEF Graphs
<1>2. g.steps \in Seq({ g.steps[i] : i \in DOMAIN g.steps })
  BY <1>1, GraphAssumption
<1> QED BY <1>2 DEF Steps

\* The rounds of the sort.
Layers(f, g) ==
    f = [ n \in 0 .. Len(g.steps) |->
            IF n = 0 THEN {}
            ELSE { id \in Ids(g) : \A e \in Edges(g) : e.to = id => e.from \in f[n - 1] } ]

LEMMA SortedInLayers ==
    ASSUME NEW g \in Graphs
    PROVE  \E f : Layers(f, g) /\ Sorted(g) = f[Len(g.steps)]
<1> DEFINE D == SUBSET Ids(g)
           L == Len(g.steps)
           step == [ p \in Nat \X D |->
                       { id \in Ids(g) : \A e \in Edges(g) : e.to = id => e.from \in p[2] } ]
           base == {}
<1>1. base \in D /\ step \in [ Nat \X D -> D ] /\ L \in Nat
  BY StepsAreLists
<1>2. \E f \in [0 .. L -> D] : Unfolds(f, L, base, step)
  <2> HIDE DEF D, step, L, base
  <2> QED BY <1>1, Rounds
<1>2a. PICK f \in [0 .. L -> D] :
              f[0] = {} /\ \A n \in 1 .. L : f[n] = step[<<n, f[n - 1]>>]
  BY <1>2 DEF Unfolds
<1>3. \A n \in 1 .. L : f[n] = { id \in Ids(g) : \A e \in Edges(g) : e.to = id => e.from \in f[n - 1] }
  <2> SUFFICES ASSUME NEW n \in 1 .. L
               PROVE  f[n] = { id \in Ids(g) : \A e \in Edges(g) : e.to = id => e.from \in f[n - 1] }
    OBVIOUS
  <2>1. f[n - 1] \in D /\ n \in Nat
    BY <1>1
  <2>2. f[n] = step[<<n, f[n - 1]>>]
    BY <1>2a
  <2> QED BY <2>1, <2>2
<1>4. Layers(f, g)
  BY <1>1, <1>2a, <1>3 DEF Layers
<1> DEFINE R == CHOOSE r : Layers(r, g)
<1>5. Layers(R, g)
  BY <1>4, Zenon
<1>6. Sorted(g) = R[Len(g.steps)]
  BY DEF Sorted, Layers
<1> QED BY <1>5, <1>6

LEMMA RankingExists ==
    ASSUME NEW g \in Graphs, Ids(g) \ Sorted(g) = {},
           \A e \in Edges(g) : {e.from, e.to} \ Ids(g) = {}
    PROVE  Ranking(g) # {}
<1> DEFINE L == Len(g.steps)
<1>1. PICK f : Layers(f, g) /\ Sorted(g) = f[L]
  BY SortedInLayers
<1>2. L \in Nat
  BY StepsAreLists
<1> DEFINE At(id) == { n \in 0 .. L : id \in f[n] }
           rank == [ id \in Ids(g) |-> CHOOSE n \in At(id) : \A m \in At(id) : n <= m ]
<1>3. ASSUME NEW id \in Ids(g) PROVE /\ rank[id] \in At(id)
                                     /\ \A m \in At(id) : rank[id] <= m
  <2>1. L \in At(id)
    BY <1>1, <1>2
  <2>2. At(id) \in SUBSET Nat
    BY <1>2
  <2> HIDE DEF At
  <2>3. \E n \in At(id) : \A m \in At(id) : n <= m
    BY <2>1, <2>2, Least
  <2> QED BY <2>3
<1>4. rank \in [Ids(g) -> Nat]
  <2> SUFFICES ASSUME NEW id \in Ids(g) PROVE rank[id] \in Nat
    OBVIOUS
  <2> QED BY <1>2, <1>3
<1>5. ASSUME NEW e \in Edges(g) PROVE rank[e.from] < rank[e.to]
  <2>1. e.from \in Ids(g) /\ e.to \in Ids(g)
    OBVIOUS
  <2> DEFINE n == rank[e.to]
  <2>2. n \in 0 .. L /\ e.to \in f[n]
    BY <1>3, <2>1
  <2> HIDE DEF n
  <2>3. n # 0 /\ e.from \in f[n - 1]
    BY <1>1, <1>2, <2>2 DEF Layers
  <2>4. n - 1 \in At(e.from)
    BY <1>2, <2>2, <2>3
  <2>5. rank[e.from] <= n - 1
    BY <1>3, <2>1, <2>4
  <2>6. rank[e.from] \in Nat /\ rank[e.to] = n
    BY <1>4, <2>1 DEF n
  <2> HIDE DEF rank
  <2> QED BY <1>2, <2>2, <2>5, <2>6
<1> HIDE DEF rank
<1>6. rank \in Ranking(g)
  BY <1>4, <1>5 DEF Ranking
<1> QED BY <1>6

------------------------------------------------------------------------------
(* What a valid graph and a valid plan promise *)

LEMMA FaultsAreNamed ==
    ASSUME NEW g
    PROVE  RouteFaults(g) \subseteq {"terminal-has-outgoing-edge", "route-missing", "route-ambiguous"}
<1>1. ASSUME NEW s
      PROVE  StepFaults(g, s) \subseteq {"terminal-has-outgoing-edge", "route-missing", "route-ambiguous"}
  BY DEF StepFaults
<1> QED BY <1>1 DEF RouteFaults

LEMMA VerdictsAreNamed ==
    ASSUME NEW g, NEW p
    PROVE  "valid" \notin GraphVerdicts(g) /\ AuthorityVerdict(g, p) # "valid"
<1>1. "valid" \notin GraphVerdicts(g)
  BY FaultsAreNamed DEF GraphVerdicts
<1>2. AuthorityVerdict(g, p) # "valid"
  BY DEF AuthorityVerdict
<1> QED BY <1>1, <1>2

LEMMA ValidGraph ==
    ASSUME NEW g, GraphVerdicts(g) = {"graph-valid"}
    PROVE  /\ g.entry \in Ids(g)
           /\ \A e \in Edges(g) : {e.from, e.to} \ Ids(g) = {}
           /\ RouteFaults(g) = {}
           /\ Ids(g) \ Sorted(g) = {}
<1>1. /\ ~ DuplicateStep(g) /\ ~ DuplicateEdge(g) /\ g.entry \in Ids(g)
      /\ ~ \E e \in Edges(g) : {e.from, e.to} \ Ids(g) # {}
  BY DEF GraphVerdicts
<1>2. RouteFaults(g) = {}
  <2>1. CASE RouteFaults(g) # {}
    <3>1. GraphVerdicts(g) = RouteFaults(g)
      BY <1>1, <2>1 DEF GraphVerdicts
    <3> QED BY <3>1, FaultsAreNamed
  <2> QED BY <2>1
<1>3. Ids(g) \ Sorted(g) = {}
  BY <1>1, <1>2 DEF GraphVerdicts
<1> QED BY <1>1, <1>2, <1>3

\* Every declared outcome of a step that is no terminal has exactly one route.
LEMMA Routed ==
    ASSUME NEW g, RouteFaults(g) = {}, NEW s \in Steps(g), s.kind # "terminal", NEW o \in s.outcomes
    PROVE  \E i \in DOMAIN g.edges : Routes(g, s.stepId, o) = {i}
<1>1. StepFaults(g, s) = {}
  BY DEF RouteFaults
<1>2. Routes(g, s.stepId, o) # {}
  BY <1>1 DEF StepFaults
<1>3. \A i, j \in Routes(g, s.stepId, o) : i = j
  BY <1>1 DEF StepFaults
<1>4. Routes(g, s.stepId, o) \subseteq DOMAIN g.edges
  BY DEF Routes
<1> QED BY <1>2, <1>3, <1>4

\* A plan that binds a graph lets each step yield only what it declares.
LEMMA YieldsDeclared ==
    ASSUME NEW g, NEW p, AuthorityVerdict(g, p) = "authority-valid",
           NEW s \in Steps(g), s.kind # "terminal"
    PROVE  Yields(s) \subseteq s.outcomes
<1>1. DecisionPolicyValid(s)
  BY DEF AuthorityVerdict
<1> QED BY <1>1 DEF DecisionPolicyValid, Yields

------------------------------------------------------------------------------
(* The digests collected over the steps *)

Collecting(f, g, kind) ==
    f = [ n \in 0 .. Len(g.steps) |->
            IF n = 0 THEN << >>
            ELSE IF g.steps[n].kind = kind THEN f[n - 1] \o g.steps[n].digests
            ELSE f[n - 1] ]

DigestsOf(g) == UNION { { s.digests[k] : k \in DOMAIN s.digests } : s \in Steps(g) }

LEMMA DigestsAreLists ==
    ASSUME NEW g \in Graphs, NEW n \in 1 .. Len(g.steps)
    PROVE  g.steps[n] \in Steps(g) /\ g.steps[n].digests \in Seq(DigestsOf(g))
<1>1. g.steps \in StepLists /\ n \in DOMAIN g.steps /\ g.steps[n] \in Steps(g)
  BY StepsAreLists DEF Graphs, Steps
<1>2. g.steps[n].digests \in Seq({ g.steps[n].digests[k] : k \in DOMAIN g.steps[n].digests })
  BY <1>1, GraphAssumption
<1>3. { g.steps[n].digests[k] : k \in DOMAIN g.steps[n].digests } \subseteq DigestsOf(g)
  BY <1>1 DEF DigestsOf
<1> QED BY <1>1, <1>2, <1>3, SeqMonotonic

LEMMA CollectedInRounds ==
    ASSUME NEW g \in Graphs, NEW kind
    PROVE  \E f : Collecting(f, g, kind) /\ Collected(g, kind) = f[Len(g.steps)]
<1> DEFINE D == Seq(DigestsOf(g))
           L == Len(g.steps)
           base == << >>
           Longer(n, list) == IF n \in 1 .. L /\ g.steps[n].kind = kind
                              THEN list \o g.steps[n].digests ELSE list
           step == [ p \in Nat \X D |-> Longer(p[1], p[2]) ]
<1>1. L \in Nat /\ base \in D
  BY StepsAreLists
<1>2. ASSUME NEW n \in Nat, NEW list \in D PROVE Longer(n, list) \in D
  BY DigestsAreLists, ConcatProperties
<1>3. step \in [ Nat \X D -> D ]
  <2> HIDE DEF Longer, D
  <2> QED BY <1>2
<1>4. PICK f \in [0 .. L -> D] : Unfolds(f, L, base, step)
  <2> HIDE DEF D, step, L, base
  <2> QED BY <1>1, <1>3, Rounds
<1>5. ASSUME NEW n \in 1 .. L PROVE f[n] = Longer(n, f[n - 1])
  <2>1. f[n - 1] \in D /\ n \in Nat
    BY <1>1
  <2>2. f[n] = step[<<n, f[n - 1]>>]
    BY <1>4 DEF Unfolds
  <2> HIDE DEF Longer, D
  <2> QED BY <2>1, <2>2
<1>6. f[0] = << >>
  BY <1>4 DEF Unfolds
<1>7. Collecting(f, g, kind)
  <2>1. ASSUME NEW n \in 0 .. L
        PROVE  f[n] = IF n = 0 THEN << >>
                      ELSE IF g.steps[n].kind = kind THEN f[n - 1] \o g.steps[n].digests
                      ELSE f[n - 1]
    <3>1. CASE n = 0
      BY <1>6, <3>1
    <3>2. CASE n # 0
      <4>1. n \in 1 .. L
        BY <1>1, <3>2
      <4>2. f[n] = IF g.steps[n].kind = kind THEN f[n - 1] \o g.steps[n].digests ELSE f[n - 1]
        BY <1>5, <4>1
      <4> QED BY <3>2, <4>2
    <3> QED BY <3>1, <3>2
  <2> HIDE DEF D
  <2>2. f = [ n \in 0 .. L |-> f[n] ]
    OBVIOUS
  <2>3. f = [ n \in 0 .. L |-> IF n = 0 THEN << >>
                                ELSE IF g.steps[n].kind = kind THEN f[n - 1] \o g.steps[n].digests
                                ELSE f[n - 1] ]
    BY <2>1, <2>2, Zenon
  <2> QED BY <2>3 DEF Collecting
<1> DEFINE R == CHOOSE r : Collecting(r, g, kind)
<1>8. Collecting(R, g, kind)
  BY <1>7, Zenon
<1>9. Collected(g, kind) = R[L]
  BY DEF Collected, Collecting
<1> QED BY <1>8, <1>9

\* A digest that a list holds.
Holds(list, digest) == \E j \in DOMAIN list : list[j] = digest

\* No digest of a step of the kind is left out.
LEMMA AllCollected ==
    ASSUME NEW g \in Graphs, NEW kind,
           NEW s \in Steps(g), s.kind = kind, NEW k \in DOMAIN s.digests
    PROVE  Holds(Collected(g, kind), s.digests[k])
<1> DEFINE D == Seq(DigestsOf(g))
           L == Len(g.steps)
           d == s.digests[k]
<1>1. PICK f : Collecting(f, g, kind) /\ Collected(g, kind) = f[L]
  BY CollectedInRounds
<1>2. PICK m \in 1 .. L : g.steps[m] = s
  BY StepsAreLists DEF Steps
<1>3. L \in Nat /\ m \in Nat
  BY StepsAreLists
<1>4. f[0] = << >>
  BY <1>1, <1>3 DEF Collecting
<1>5. ASSUME NEW n \in 1 .. L
      PROVE  f[n] = IF g.steps[n].kind = kind THEN f[n - 1] \o g.steps[n].digests ELSE f[n - 1]
  BY <1>1, <1>3 DEF Collecting
<1> DEFINE T == { n \in Nat : n <= L => f[n] \in D /\ (m <= n => Holds(f[n], d)) }
<1>6. 0 \in T
  <2>1. f[0] \in D
    BY <1>4
  <2>2. ~ (m <= 0)
    BY <1>3
  <2> HIDE DEF D
  <2> QED BY <2>1, <2>2
<1>7. ASSUME NEW n \in Nat, n \in T PROVE n + 1 \in T
  <2> SUFFICES ASSUME n + 1 <= L
               PROVE  f[n + 1] \in D /\ (m <= n + 1 => Holds(f[n + 1], d))
    OBVIOUS
  <2>1. n + 1 \in 1 .. L /\ (n + 1) - 1 = n
    BY <1>3
  <2>2. f[n] \in D /\ (m <= n => Holds(f[n], d))
    BY <1>3, <1>7
  <2>3. f[n + 1] = IF g.steps[n + 1].kind = kind THEN f[n] \o g.steps[n + 1].digests ELSE f[n]
    BY <1>5, <2>1
  <2> DEFINE more == g.steps[n + 1].digests
  <2>4. more \in D
    BY <2>1, DigestsAreLists
  <2> HIDE DEF D
  <2>5. CASE g.steps[n + 1].kind # kind
    <3>1. m # n + 1
      BY <1>2, <2>5
    <3> QED BY <1>3, <2>2, <2>3, <2>5, <3>1
  <2>6. CASE g.steps[n + 1].kind = kind
    <3> DEFINE a == f[n]
    <3>1. f[n + 1] = a \o more
      BY <2>3, <2>6
    <3>2. a \in D /\ (m <= n => Holds(a, d))
      BY <2>2
    <3>3. m = n + 1 => Holds(more, d)
      BY <1>2 DEF Holds
    <3> HIDE DEF a, more
    <3>4. a \o more \in D /\ Len(a) \in Nat /\ Len(more) \in Nat
          /\ DOMAIN a = 1 .. Len(a) /\ DOMAIN more = 1 .. Len(more)
      BY <3>2, <2>4 DEF D
    <3>5. DOMAIN (a \o more) = 1 .. Len(a) + Len(more)
      BY <3>2, <2>4 DEF D
    <3>6. ASSUME NEW j \in DOMAIN a
          PROVE  j \in DOMAIN (a \o more) /\ (a \o more)[j] = a[j]
      BY <3>2, <2>4, <3>4, <3>5 DEF D
    <3>7. ASSUME NEW j \in DOMAIN more
          PROVE  j + Len(a) \in DOMAIN (a \o more) /\ (a \o more)[j + Len(a)] = more[j]
      BY <3>2, <2>4, <3>4, <3>5 DEF D
    <3>8. Holds(a, d) => Holds(a \o more, d)
      BY <3>6 DEF Holds
    <3>9. Holds(more, d) => Holds(a \o more, d)
      BY <3>7 DEF Holds
    <3> QED BY <1>3, <3>1, <3>2, <3>3, <3>4, <3>8, <3>9
  <2> QED BY <2>5, <2>6
<1>8. Nat \subseteq T
  <2> HIDE DEF T
  <2> QED BY <1>6, <1>7, SetInduction
<1>9. L \in T /\ m <= L
  BY <1>3, <1>8
<1> QED BY <1>1, <1>9

------------------------------------------------------------------------------
(* The run (ExecutionGraph) *)

\* A valid verdict means that the graph was found valid and its plan binds it.
Judged ==
    /\ graph \in Graphs
    /\ binding \in Plans \cup {Nothing}
    /\ verdict = "valid" <=> path # << >>
    /\ verdict = "valid" => /\ binding \in Plans
                            /\ GraphVerdicts(graph) = {"graph-valid"}
                            /\ AuthorityVerdict(graph, binding) = "authority-valid"

\* Only a running step has yielded, and one of the outcomes it may yield.
Yielded == yielded # Nothing => Running /\ yielded \in Yields(Current)

\* Whatever grows along every edge has grown along the path.
Climbs ==
    \A rank \in Ranking(graph) : \A i, j \in DOMAIN path :
        i < j => rank[path[i]] < rank[path[j]]

RunInv == Judged /\ path \in Seq(Ids(graph)) /\ tried \in 0 .. RetryLimit /\ Yielded /\ Climbs

\* The step the run is at is a step of the graph.
LEMMA CurrentIsStep ==
    ASSUME path \in Seq(Ids(graph)), path # << >>
    PROVE  /\ Current \in Steps(graph) /\ Current.stepId = Position
           /\ Position = path[Len(path)] /\ Position \in Ids(graph)
<1>1. Position = path[Len(path)] /\ Len(path) \in DOMAIN path
  BY DEF Position
<1>2. Position \in Ids(graph)
  BY <1>1
<1>3. \E s \in Steps(graph) : s.stepId = Position
  BY <1>2 DEF Ids
<1> QED BY <1>1, <1>2, <1>3 DEF Current

LEMMA RunBegins == Init => RunInv
<1> SUFFICES ASSUME Init PROVE RunInv
  OBVIOUS
<1>1. graph \in Graphs
  BY DEF Init, Graphs
<1>2. path = << >> /\ DOMAIN path = {}
  BY DEF Init
<1>3. path \in Seq(Ids(graph))
  BY <1>2
<1>4. Judged /\ Yielded /\ Climbs /\ tried \in 0 .. RetryLimit
  BY <1>1, <1>2, RetryLimitAssumption DEF Init, Judged, Yielded, Climbs
<1> QED BY <1>3, <1>4 DEF RunInv

LEMMA RunStep == RunInv /\ [Next]_vars => RunInv'
<1> SUFFICES ASSUME RunInv, [Next]_vars PROVE RunInv'
  OBVIOUS
<1> USE DEF RunInv
<1>1. CASE RefuseGraph
  <2>1. /\ verdict = "pending" /\ verdict' \in GraphVerdicts(graph)
        /\ UNCHANGED <<graph, binding, path, tried, yielded>>
    BY <1>1 DEF RefuseGraph
  <2>2. verdict' # "valid" /\ verdict # "valid"
    BY <2>1, VerdictsAreNamed
  <2>3. yielded = Nothing
    BY <2>2 DEF Yielded, Running
  <2>4. Judged' /\ Yielded'
    BY <2>1, <2>2, <2>3 DEF Judged, Yielded
  <2>5. Climbs'
    BY <2>1 DEF Climbs
  <2> QED BY <2>1, <2>4, <2>5
<1>2. CASE JudgePlan
  <2>1. /\ verdict = "pending" /\ GraphVerdicts(graph) = {"graph-valid"} /\ binding' \in Plans
        /\ UNCHANGED <<graph, yielded>>
    BY <1>2 DEF JudgePlan
  <2>2. path = << >> /\ yielded = Nothing
    BY <2>1 DEF Judged, Yielded, Running
  <2>3. CASE AuthorityVerdict(graph, binding') = "authority-valid"
    <3>1. verdict' = "valid" /\ path' = <<graph.entry>> /\ tried' = 1
      BY <1>2, <2>3 DEF JudgePlan
    <3>2. graph.entry \in Ids(graph)
      BY <2>1, ValidGraph
    <3>3. path' \in Seq(Ids(graph)) /\ DOMAIN path' = 1 .. 1 /\ path' # << >>
      BY <3>1, <3>2
    <3>4. Climbs'
      BY <3>3 DEF Climbs
    <3>5. Judged' /\ Yielded'
      BY <2>1, <2>2, <2>3, <3>1, <3>3 DEF Judged, Yielded
    <3> QED BY <2>1, <3>1, <3>3, <3>4, <3>5, RetryLimitAssumption
  <2>4. CASE AuthorityVerdict(graph, binding') # "authority-valid"
    <3>1. verdict' = AuthorityVerdict(graph, binding') /\ UNCHANGED <<path, tried>>
      BY <1>2, <2>4 DEF JudgePlan
    <3>2. verdict' # "valid"
      BY <3>1, VerdictsAreNamed
    <3>3. Climbs'
      BY <2>1, <3>1 DEF Climbs
    <3>4. Judged' /\ Yielded'
      BY <2>1, <2>2, <3>1, <3>2 DEF Judged, Yielded
    <3> QED BY <2>1, <3>1, <3>3, <3>4
  <2> QED BY <2>3, <2>4
<1>3. CASE Yield
  <2>1. /\ Running /\ yielded' \in Yields(Current)
        /\ UNCHANGED <<graph, binding, verdict, path, tried>>
    BY <1>3 DEF Yield
  <2>2. Judged' /\ Climbs'
    BY <2>1 DEF Judged, Climbs
  <2>3. Current' = Current /\ Running'
    BY <2>1 DEF Current, Position, Running
  <2>4. Yielded'
    BY <2>1, <2>3 DEF Yielded
  <2> QED BY <2>1, <2>2, <2>4
<1>4. CASE Again
  <2>1. /\ Running /\ Retried /\ tried' = tried + 1 /\ yielded' = Nothing
        /\ UNCHANGED <<graph, binding, verdict, path>>
    BY <1>4 DEF Again
  <2>2. Judged' /\ Climbs' /\ Yielded'
    BY <2>1 DEF Judged, Climbs, Yielded
  <2>3. /\ Current \in Steps(graph) /\ Current.kind # "terminal"
        /\ AuthorityVerdict(graph, binding) = "authority-valid"
    BY <2>1, CurrentIsStep DEF Judged, Running
  <2>4. Current.maximumAttempts \in 1 .. RetryLimit
    BY <2>3 DEF AuthorityVerdict, RetryPolicyValid
  <2>5. tried < Current.maximumAttempts
    BY <2>1 DEF Retried
  <2>6. tried' \in 0 .. RetryLimit
    BY <2>1, <2>4, <2>5, RetryLimitAssumption
  <2> QED BY <2>1, <2>2, <2>6
<1>5. CASE Advance
  <2>1. /\ Running /\ yielded' = Nothing /\ tried' = 1
        /\ UNCHANGED <<graph, binding, verdict>>
    BY <1>5 DEF Advance
  <2>2. PICK k \in Routes(graph, Position, yielded) : path' = Append(path, graph.edges[k].to)
    BY <1>5 DEF Advance
  <2>3. graph.edges[k] \in Edges(graph) /\ graph.edges[k].from = Position
    BY <2>2 DEF Routes, Edges
  <2> DEFINE to == graph.edges[k].to
  <2>4. verdict = "valid" /\ path # << >>
    BY <2>1 DEF Running, Judged
  <2>5. to \in Ids(graph)
    BY <2>3, <2>4, ValidGraph DEF Judged
  <2>6. Position = path[Len(path)]
    BY <2>4, CurrentIsStep
  <2>7. \A rank \in Ranking(graph) : rank[path[Len(path)]] < rank[to]
    BY <2>3, <2>6 DEF Ranking
  <2> HIDE DEF to
  <2>8. path' = Append(path, to)
    BY <2>2 DEF to
  <2> DEFINE L == Len(path)
  <2>9. /\ L \in Nat /\ L > 0 /\ DOMAIN path = 1 .. L
        /\ DOMAIN path' = 1 .. L + 1
        /\ path'[L + 1] = to
        /\ \A i \in 1 .. L : path'[i] = path[i]
        /\ path' \in Seq(Ids(graph))
    BY <2>4, <2>5, <2>8
  <2>10. Climbs'
    <3> SUFFICES ASSUME NEW rank \in Ranking(graph),
                        NEW i \in 1 .. L + 1, NEW j \in 1 .. L + 1, i < j
                 PROVE  rank[path'[i]] < rank[path'[j]]
      BY <2>1, <2>9 DEF Climbs
    <3>1. i \in 1 .. L /\ (j \in 1 .. L \/ j = L + 1)
      BY <2>9
    <3>2. CASE j \in 1 .. L
      BY <2>9, <3>1, <3>2 DEF Climbs
    <3>3. CASE j = L + 1
      <4>1. rank[path[L]] < rank[to]
        BY <2>7
      <4>2. i = L \/ rank[path[i]] < rank[path[L]]
        BY <2>9, <3>1 DEF Climbs
      <4>3. rank[path[i]] \in Nat /\ rank[path[L]] \in Nat /\ rank[to] \in Nat
        <5>1. path[i] \in Ids(graph) /\ path[L] \in Ids(graph)
          BY <2>9, <3>1
        <5> QED BY <5>1, <2>5 DEF Ranking
      <4>4. path'[i] = path[i] /\ path'[j] = to
        BY <2>9, <3>1, <3>3
      <4> HIDE DEF L
      <4> QED BY <4>1, <4>2, <4>3, <4>4
    <3> QED BY <3>1, <3>2, <3>3
  <2>11. path' # << >>
    BY <2>9
  <2>12. Judged' /\ Yielded'
    BY <2>1, <2>4, <2>11 DEF Judged, Yielded
  <2> QED BY <2>1, <2>9, <2>10, <2>12, RetryLimitAssumption
<1>6. CASE UNCHANGED vars
  <2>1. UNCHANGED <<graph, binding, verdict, path, tried, yielded>>
    BY <1>6 DEF vars
  <2>2. Judged' /\ Climbs'
    BY <2>1 DEF Judged, Climbs
  <2>3. Current' = Current /\ (Running' <=> Running)
    BY <2>1 DEF Current, Position, Running
  <2>4. Yielded'
    BY <2>1, <2>3 DEF Yielded
  <2> QED BY <2>1, <2>2, <2>4
<1> QED
  BY <1>1, <1>2, <1>3, <1>4, <1>5, <1>6 DEF Next, Walk

LEMMA RunInvMeansSound == RunInv => RunSound
<1> SUFFICES ASSUME RunInv PROVE RunSound
  OBVIOUS
<1> USE DEF RunInv
<1>1. OneWayOn
  <2> SUFFICES ASSUME yielded # Nothing
               PROVE  \E i \in DOMAIN graph.edges : Routes(graph, Position, yielded) = {i}
    BY DEF OneWayOn
  <2>1. Running /\ yielded \in Yields(Current)
    BY DEF Yielded
  <2>2. /\ Current \in Steps(graph) /\ Current.stepId = Position
        /\ Current.kind # "terminal"
    BY <2>1, CurrentIsStep DEF Running, Judged
  <2>3. /\ AuthorityVerdict(graph, binding) = "authority-valid"
        /\ RouteFaults(graph) = {}
    BY <2>1, ValidGraph DEF Running, Judged
  <2>4. yielded \in Current.outcomes
    BY <2>1, <2>2, <2>3, YieldsDeclared
  <2> DEFINE here == Current
             out == yielded
  <2>5. /\ here \in Steps(graph) /\ here.kind # "terminal" /\ out \in here.outcomes
        /\ here.stepId = Position
    BY <2>2, <2>4
  <2> DEFINE g == graph
  <2> HIDE DEF here, out
  <2>6. RouteFaults(g) = {} /\ here \in Steps(g)
    BY <2>3, <2>5
  <2> HIDE DEF g
  <2>7. \E i \in DOMAIN g.edges : Routes(g, here.stepId, out) = {i}
    BY <2>5, <2>6, Routed
  <2> QED BY <2>5, <2>7 DEF out, g
<1>2. NoStepTwice
  <2> SUFFICES ASSUME NEW i \in DOMAIN path, NEW j \in DOMAIN path, i # j
               PROVE  path[i] # path[j]
    BY DEF NoStepTwice
  <2>1. path # << >> /\ i \in Nat /\ j \in Nat
    OBVIOUS
  <2>2. /\ \A e \in Edges(graph) : {e.from, e.to} \ Ids(graph) = {}
        /\ Ids(graph) \ Sorted(graph) = {} /\ graph \in Graphs
    BY <2>1, ValidGraph DEF Judged
  <2>3. Ranking(graph) # {}
    BY <2>2, RankingExists
  <2>4. PICK rank \in Ranking(graph) : TRUE
    BY <2>3
  <2>5. rank[path[i]] < rank[path[j]] \/ rank[path[j]] < rank[path[i]]
    BY <2>1, <2>4 DEF Climbs
  <2>6. path[i] \in Ids(graph) /\ path[j] \in Ids(graph)
    OBVIOUS
  <2>7. rank[path[i]] \in Nat /\ rank[path[j]] \in Nat
    BY <2>6 DEF Ranking
  <2> QED BY <2>5, <2>7
<1>3. OnlyBound
  <2> SUFFICES ASSUME Running PROVE OnlyBound
    BY DEF OnlyBound
  <2> DEFINE here == Current
  <2>1. /\ here \in Steps(graph) /\ here.kind # "terminal" /\ graph \in Graphs
        /\ AuthorityVerdict(graph, binding) = "authority-valid"
    BY CurrentIsStep DEF Running, Judged
  <2>2. /\ binding.namesGraph
        /\ SameStringSet(Collected(graph, "human-decision"), binding.decisionSchemas)
        /\ SameStringSet(Collected(graph, "external-effect"), binding.executorProfiles)
    BY <2>1 DEF AuthorityVerdict
  <2> HIDE DEF here
  <2>3. ASSUME NEW bound, NEW kind, here.kind = kind,
               SameStringSet(Collected(graph, kind), bound),
               NEW i \in DOMAIN here.digests
        PROVE  \E j \in DOMAIN bound : bound[j] = here.digests[i]
    <3>1. Holds(Collected(graph, kind), here.digests[i])
      BY <2>1, <2>3, AllCollected
    <3> DEFINE list == Collected(graph, kind)
               d == here.digests[i]
    <3>2. Holds(list, d) /\ SameStringSet(list, bound)
      BY <2>3, <3>1
    <3> HIDE DEF list, d
    <3>3. PICK k \in DOMAIN list : list[k] = d
      BY <3>2 DEF Holds
    <3>4. d \in { list[j] : j \in DOMAIN list }
      BY <3>3
    <3>5. d \in { bound[j] : j \in DOMAIN bound }
      BY <3>2, <3>4 DEF SameStringSet
    <3>6. \E j \in DOMAIN bound : bound[j] = d
      BY <3>5
    <3> QED BY <3>6 DEF d
  <2>4. here.kind = "human-decision" =>
            \A i \in DOMAIN here.digests :
                \E j \in DOMAIN binding.decisionSchemas : binding.decisionSchemas[j] = here.digests[i]
    BY <2>2, <2>3
  <2>5. here.kind = "external-effect" =>
            \A i \in DOMAIN here.digests :
                \E j \in DOMAIN binding.executorProfiles : binding.executorProfiles[j] = here.digests[i]
    BY <2>2, <2>3
  <2>6. "external-effect" # "human-decision"
    OBVIOUS
  <2> QED BY <2>2, <2>4, <2>5, <2>6 DEF OnlyBound, here
<1> QED BY <1>1, <1>2, <1>3 DEF RunSound

\* What was judged of the graph holds for the whole run, and whatever grows
\* along every edge grows along the path.
THEOREM RunInvariant == Spec => []RunInv
<1> QED BY RunBegins, RunStep, PTL DEF Spec

\* The run only enters steps of its graph, and never tries one more often than
\* allowed.
THEOREM RunTypeCorrect == Spec => []TypeOK
<1>1. RunInv => TypeOK
  BY DEF RunInv, Judged, TypeOK, Graphs
<1> QED BY <1>1, RunInvariant, PTL

\* evaluateGraph and evaluateAuthority: on every graph that they accept, of any
\* size, a run has one way on, never enters a step twice and stays within what
\* its plan binds.
THEOREM RunsSound == Spec => []RunSound
<1> QED BY RunInvMeansSound, RunInvariant, PTL

------------------------------------------------------------------------------
(* The lineage (ExecutionLineage)                                          *)

FinallyFailed(e) == e.status \in {"rejected-final", "not-committed-final"}

\* The inventory speaks of the past, and the last attempt of a generation is
\* the only one that may have had its effect.
InventoryPast ==
    /\ IsFiniteSet(inventory)
    /\ \A e \in inventory :
          /\ e.generation <= generation /\ e.attempt <= attempt
          /\ e.generation = generation /\ e.attempt < attempt => FinallyFailed(e)

\* A reading that found the earlier generations closed is true for ever.
SealTrue == sealed => \A e \in Earlier : ~ Open(e)

\* Accepted transfers differ in everything a lookup goes by.
AcceptedApart ==
    \A t, u \in transferred : (t.id = u.id \/ t.generation = u.generation) => t = u

\* A careful owner's transfer binds the revision at which everything was closed;
\* as long as the revision is that one, everything is.
TransfersClosed ==
    /\ \A t \in issued : t.revision <= revision
    /\ sealFirst =>
          /\ \A t \in issued :
                t.revision = revision => \A e \in inventory : ~ Open(e)
          /\ consumed => \A e \in inventory : ~ Open(e)

LineageInv ==
    /\ LineageTypeOK /\ InventoryPast /\ SealTrue /\ AcceptedApart /\ TransfersClosed
    /\ EmissionsIdentified /\ EffectAtMostOnce /\ GenerationsDoNotOverlap
    /\ SuccessorFindsSettled

------------------------------------------------------------------------------
(* Verdicts *)

\* What a valid transfer says about its inputs.
LEMMA ValidTransfer ==
    ASSUME NEW t, NEW c, NEW x, NEW s,
           TransferVerdict(t, c, x, s) = "transfer-valid"
    PROVE  /\ ~ Collides(t, c) /\ ~ s.generationConsumed
           /\ t.generation = s.generation /\ t.revision = s.revision
           /\ t.run = s.run /\ t.successor = s.successor
BY DEF TransferVerdict, ReplayVerdict, StateVerdict

\* What an emission that is entered in the inventory says about its inputs.
LEMMA EnteredEffect ==
    ASSUME NEW a, NEW v,
           EffectVerdict(a, v) \in {"effect-valid", "effect-state-unknown"}
    PROVE  /\ a.attempt = v.expectedAttempt /\ a.generation = v.currentGeneration
           /\ ~ v.generationConsumed /\ Prior(a, v) = {}
           /\ v.existingAttemptEmission \ {a.emission} = {}
           /\ EffectVerdict(a, v) = "effect-valid" => v.predecessorEffectsTerminal
BY DEF EffectVerdict, EmissionVerdict, PriorVerdict, AdmissionVerdict

\* A report on a known emission is heard only while its generation is current.
LEMMA KnownEffect ==
    ASSUME NEW a, NEW v, EffectVerdict(a, v) = "emission-duplicate"
    PROVE  ~ v.generationConsumed
BY DEF EffectVerdict, EmissionVerdict, PriorVerdict, AdmissionVerdict

------------------------------------------------------------------------------
(* The invariant *)

LEMMA BoundsPositive ==
    MaxGeneration \in Nat \ {0} /\ MaxAttempt \in Nat \ {0} /\ MaxFencing \in Nat \ {0}
BY LineageAssumption

LEMMA LineageBegins == ASSUME LineageInit PROVE LineageInv
<1>1. LineageTypeOK
  <2>1. 1 \in 1 .. MaxGeneration /\ 1 \in 1 .. MaxAttempt /\ 1 \in 1 .. MaxFencing
    BY BoundsPositive
  <2>2. Cardinality({}) = 0
    BY FS_EmptySet
  <2> QED
    BY <2>1, <2>2 DEF LineageInit, LineageTypeOK
<1> QED
  BY <1>1, FS_EmptySet
   DEF LineageInit, LineageInv, InventoryPast, SealTrue, AcceptedApart, TransfersClosed,
       EmissionsIdentified, EffectAtMostOnce, GenerationsDoNotOverlap,
       SuccessorFindsSettled, Earlier

\* What of the invariant speaks of the inventory and of what bounds it.
OfInventory ==
    /\ InventoryPast /\ SealTrue /\ EmissionsIdentified /\ EffectAtMostOnce
    /\ GenerationsDoNotOverlap /\ SuccessorFindsSettled

LEMMA InventoryUntouched ==
    ASSUME LineageInv, UNCHANGED <<generation, attempt, inventory, sealed, sealFirst>>
    PROVE  OfInventory'
BY DEF LineageInv, OfInventory, InventoryPast, SealTrue, EmissionsIdentified,
       EffectAtMostOnce, GenerationsDoNotOverlap, SuccessorFindsSettled, Earlier,
       Open, FinallyFailed

LEMMA IssuePreserves ==
    ASSUME LineageInv, NEW id \in TransferId, IssueTransfer(id) PROVE LineageInv'
<1> USE DEF LineageInv
<1> DEFINE t == [ id |-> id, run |-> generation, generation |-> generation,
                  revision |-> revision, successor |-> successor ]
<1>1. revision \in Nat
  BY FS_CardinalityType DEF LineageTypeOK, InventoryPast
<1>2. t \in Transfers
  BY <1>1 DEF LineageTypeOK, Transfers
<1>3. LineageTypeOK'
  BY <1>2 DEF IssueTransfer, LineageTypeOK
<1>4. OfInventory'
  BY InventoryUntouched DEF IssueTransfer
<1>5. AcceptedApart'
  BY DEF IssueTransfer, AcceptedApart
<1>6. TransfersClosed'
  BY <1>1 DEF IssueTransfer, TransfersClosed, Open
<1> QED
  BY <1>3, <1>4, <1>5, <1>6 DEF OfInventory

\* A transfer is accepted only if no accepted one has its id or generation.
LEMMA AcceptedIsNew ==
    ASSUME LineageTypeOK, NEW t \in issued, NEW c \in Collisions(t), ~ Collides(t, c)
    PROVE  \A u \in transferred : u.id # t.id /\ u.generation # t.generation
<1> SUFFICES ASSUME NEW u \in transferred, u.id = t.id \/ u.generation = t.generation
             PROVE  FALSE
  OBVIOUS
<1>1. c \in transferred /\ (c.id = t.id \/ c.generation = t.generation)
  BY DEF Collisions
<1>2. c # None
  BY <1>1, LineageAssumption DEF LineageTypeOK
<1> QED
  BY <1>1, <1>2 DEF Collides

LEMMA TransferPreserves ==
    ASSUME LineageInv, NEW t \in issued, Transfer(t) PROVE LineageInv'
<1> USE DEF LineageInv
<1>1. PICK c \in Collisions(t), x \in BOOLEAN :
          TransferVerdict(t, c, x, State) = "transfer-valid"
  BY DEF Transfer
<1>2. ~ Collides(t, c) /\ ~ consumed /\ t.generation = generation
      /\ t.revision = revision
  <2>1. /\ ~ Collides(t, c) /\ ~ State.generationConsumed
        /\ t.generation = State.generation /\ t.revision = State.revision
    BY <1>1, ValidTransfer
  <2> QED
    BY <2>1 DEF State
<1>3. \A u \in transferred : u.id # t.id /\ u.generation # t.generation
  <2>1. LineageTypeOK
    OBVIOUS
  <2> QED
    BY <1>2, <2>1, AcceptedIsNew
<1>4. LineageTypeOK'
  BY DEF Transfer, LineageTypeOK, lease
<1>5. OfInventory'
  BY InventoryUntouched DEF Transfer, lease
<1>6. AcceptedApart'
  BY <1>3 DEF Transfer, AcceptedApart
<1>7. TransfersClosed'
  BY <1>2 DEF Transfer, TransfersClosed, Open
<1> QED
  BY <1>4, <1>5, <1>6, <1>7 DEF OfInventory

LEMMA SucceedPreserves == ASSUME LineageInv, Succeed PROVE LineageInv'
<1> USE DEF LineageInv
<1>1. LineageTypeOK'
  <2>1. generation' \in 1 .. MaxGeneration /\ attempt' \in 1 .. MaxAttempt
        /\ fencing' \in 1 .. MaxFencing
    BY BoundsPositive DEF Succeed, LineageTypeOK
  <2> QED
    BY <2>1 DEF Succeed, LineageTypeOK
<1>2. InventoryPast'
  BY DEF Succeed, LineageTypeOK, InventoryPast, Emissions
<1>3. SealTrue' /\ EmissionsIdentified' /\ EffectAtMostOnce'
      /\ GenerationsDoNotOverlap' /\ AcceptedApart'
  BY DEF Succeed, SealTrue, EmissionsIdentified, EffectAtMostOnce,
         GenerationsDoNotOverlap, AcceptedApart, Open
<1>4. SuccessorFindsSettled'
  BY DEF Succeed, SuccessorFindsSettled, TransfersClosed, Earlier, Open
<1>5. TransfersClosed'
  BY DEF Succeed, TransfersClosed, Open
<1> QED
  BY <1>1, <1>2, <1>3, <1>4, <1>5

\* The steps that touch neither the inventory nor the transfers.
LEMMA ElsewherePreserves ==
    ASSUME LineageInv,
           \/ \E p \in Plan : Replan(p)
           \/ CloseLineage
           \/ Takeover
           \/ UNCHANGED lineageVars
    PROVE  LineageInv'
<1> USE DEF LineageInv
<1>1. UNCHANGED <<generation, attempt, inventory, sealed, sealFirst>>
      /\ UNCHANGED <<consumed, revision, issued, transferred>>
  BY DEF Replan, CloseLineage, Takeover, lineage, lease, lineageVars
<1>2. LineageTypeOK'
  <2>1. CASE \/ \E p \in Plan : Replan(p)
             \/ CloseLineage
             \/ UNCHANGED lineageVars
    BY <2>1 DEF LineageTypeOK, Replan, CloseLineage, lease, lineageVars
  <2>2. CASE Takeover
    BY <2>2, BoundsPositive DEF LineageTypeOK, Takeover, lineage
  <2> QED
    BY <2>1, <2>2
<1>3. OfInventory'
  BY <1>1, InventoryUntouched
<1>4. AcceptedApart' /\ TransfersClosed'
  BY <1>1 DEF AcceptedApart, TransfersClosed, Open
<1> QED
  BY <1>2, <1>3, <1>4 DEF OfInventory

LEMMA ReadInventoryPreserves == ASSUME LineageInv, ReadInventory PROVE LineageInv'
BY DEF LineageInv, ReadInventory, lease, LineageTypeOK, InventoryPast, SealTrue, AcceptedApart,
       TransfersClosed, EmissionsIdentified, EffectAtMostOnce,
       GenerationsDoNotOverlap, SuccessorFindsSettled, Earlier, Open, FinallyFailed

LEMMA RetryPreserves == ASSUME LineageInv, Retry PROVE LineageInv'
<1> USE DEF LineageInv
<1>1. LineageTypeOK'
  BY BoundsPositive DEF Retry, LineageTypeOK, lineage
<1>2. InventoryPast'
  BY DEF Retry, LineageTypeOK, lineage, InventoryPast, Emissions, FinallyFailed
<1> QED
  BY <1>1, <1>2
     DEF Retry, lineage, SealTrue, AcceptedApart, TransfersClosed,
         EmissionsIdentified, EffectAtMostOnce, GenerationsDoNotOverlap,
         SuccessorFindsSettled, Earlier, Open

------------------------------------------------------------------------------
(* Effects *)

\* A new emission is the only one of its id and of the attempt in progress.
LEMMA RecordPreserves ==
    ASSUME LineageInv, NEW a \in Attestations, NEW q \in BOOLEAN,
           LET answer == EffectVerdict(a, KnownFor(a, q))
           IN  /\ answer \in {"effect-valid", "effect-state-unknown"}
               /\ Record(a, answer)
    PROVE  LineageInv'
<1> USE DEF LineageInv
<1> DEFINE answer == EffectVerdict(a, KnownFor(a, q))
           n == Entered(a, answer)
<1>1. /\ a.attempt = attempt /\ a.generation = generation /\ ~ consumed
      /\ Prior(a, KnownFor(a, q)) = {}
      /\ { e.emission : e \in { x \in inventory : x.attempt = attempt } }
            \ {a.emission} = {}
      /\ answer = "effect-valid" => sealed
  <2> DEFINE v == KnownFor(a, q)
  <2>1. /\ a.attempt = v.expectedAttempt /\ a.generation = v.currentGeneration
        /\ ~ v.generationConsumed /\ Prior(a, v) = {}
        /\ v.existingAttemptEmission \ {a.emission} = {}
        /\ answer = "effect-valid" => v.predecessorEffectsTerminal
    BY EnteredEffect
  <2> QED
    BY <2>1 DEF KnownFor
<1>2. n.emission = a.emission /\ n.attempt = attempt /\ n.generation = generation
      /\ n.status = a.status /\ n.admitted = (answer = "effect-valid")
  BY <1>1 DEF Entered
<1>3. \A e \in inventory : e.emission # n.emission
  BY <1>1, <1>2 DEF Prior, KnownFor
<1>4. \A e \in inventory : e.attempt # attempt
  BY <1>1, <1>2, <1>3
<1>5. n \in Emissions
  BY <1>1, LineageAssumption DEF Entered, Attestations, Emissions, LineageTypeOK
<1>6. inventory' = inventory \cup {n} /\ revision' = revision + 1
      /\ UNCHANGED <<lineage, lease>>
  BY DEF Record
<1> HIDE DEF n, answer
<1>7. n \notin inventory /\ revision \in Nat
  BY <1>3, FS_CardinalityType DEF LineageTypeOK, InventoryPast
<1>8. /\ IsFiniteSet(inventory') /\ Cardinality(inventory') = revision + 1
  BY <1>6, <1>7, FS_AddElement DEF LineageTypeOK, InventoryPast
<1>9. \A e \in inventory : e.generation = generation => FinallyFailed(e)
  BY <1>4 DEF InventoryPast, LineageTypeOK, Emissions
<1>10. LineageTypeOK'
  BY <1>5, <1>6, <1>8 DEF LineageTypeOK, lineage, lease
<1>11. InventoryPast'
  BY <1>2, <1>6, <1>8 DEF InventoryPast, LineageTypeOK, lineage, lease, FinallyFailed
<1>12. SealTrue' /\ SuccessorFindsSettled' /\ AcceptedApart'
  BY <1>2, <1>6 DEF SealTrue, SuccessorFindsSettled, AcceptedApart, Earlier,
                    lineage, lease, Open, LineageTypeOK
<1>13. EmissionsIdentified'
  BY <1>2, <1>3, <1>4, <1>6 DEF EmissionsIdentified
<1>14. EffectAtMostOnce'
  BY <1>2, <1>6, <1>9 DEF EffectAtMostOnce, FinallyFailed
<1>15. GenerationsDoNotOverlap'
  BY <1>1, <1>2, <1>6
     DEF GenerationsDoNotOverlap, InventoryPast, SealTrue, Earlier, Open, LineageTypeOK,
         Emissions
<1>16. TransfersClosed'
  BY <1>1, <1>6, <1>7 DEF TransfersClosed, lineage, Open, LineageTypeOK, Transfers
<1> QED
  BY <1>10, <1>11, <1>12, <1>13, <1>14, <1>15, <1>16

\* A report on an open emission moves its status and nothing else; no conjunct
\* relies on an emission being open.
LEMMA MovePreserves ==
    ASSUME LineageInv, NEW a \in Attestations, NEW e \in inventory, Open(e), ~ consumed,
           inventory' = (inventory \ {e}) \cup {[ e EXCEPT !.status = a.status ]},
           UNCHANGED <<lineage, lease, revision>>
    PROVE  LineageInv'
<1> USE DEF LineageInv
<1> DEFINE n == [ e EXCEPT !.status = a.status ]
<1>1. e \in Emissions /\ a.status \in Status
  BY LineageAssumption DEF LineageTypeOK, Attestations
<1>2. n \in Emissions /\ n.emission = e.emission /\ n.attempt = e.attempt
      /\ n.generation = e.generation /\ n.admitted = e.admitted
  BY <1>1 DEF Emissions
<1> HIDE DEF n
<1>3. inventory' = (inventory \ {e}) \cup {n}
  BY DEF n
<1>4. \A f \in inventory \ {e} : f.emission # e.emission /\ f.attempt # e.attempt
  BY DEF EmissionsIdentified
<1>5. n \notin inventory \ {e}
  BY <1>2, <1>4
<1>6. /\ IsFiniteSet(inventory') /\ Cardinality(inventory') = revision
  <2>1. IsFiniteSet(inventory \ {e})
        /\ Cardinality(inventory \ {e}) = Cardinality(inventory) - 1
    BY FS_RemoveElement DEF InventoryPast
  <2> QED
    <3>1. Cardinality(inventory) \in Nat /\ Cardinality(inventory) = revision
      BY FS_CardinalityType DEF LineageTypeOK, InventoryPast
    <3> DEFINE rest == inventory \ {e}
    <3>2. /\ IsFiniteSet(rest \cup {n})
          /\ Cardinality(rest \cup {n}) = Cardinality(rest) + 1
      BY <1>5, <2>1, FS_AddElement
    <3>3. Cardinality(rest \cup {n}) = revision
      <4> HIDE DEF rest
      <4> QED
        BY <2>1, <3>1, <3>2 DEF rest
    <3> QED
      BY <1>3, <3>2, <3>3
<1>7. ~ FinallyFailed(e)
  BY DEF Open, Closing, FinallyFailed
<1>8. LineageTypeOK'
  BY <1>2, <1>3, <1>6 DEF LineageTypeOK, lineage, lease
<1>9. InventoryPast'
  BY <1>2, <1>3, <1>6, <1>7 DEF InventoryPast, lineage, lease, FinallyFailed
<1>10. SealTrue' /\ SuccessorFindsSettled'
  BY <1>2, <1>3 DEF SealTrue, SuccessorFindsSettled, Earlier, lineage, Open
<1>11. EmissionsIdentified'
  BY <1>2, <1>3, <1>4 DEF EmissionsIdentified
<1>12. EffectAtMostOnce'
  BY <1>2, <1>3, <1>7 DEF EffectAtMostOnce, FinallyFailed
<1>13. GenerationsDoNotOverlap'
  BY <1>2, <1>3 DEF GenerationsDoNotOverlap, Open
<1>14. AcceptedApart' /\ TransfersClosed'
  BY <1>2, <1>3 DEF AcceptedApart, TransfersClosed, lineage, Open
<1> QED
  BY <1>8, <1>9, <1>10, <1>11, <1>12, <1>13, <1>14

LEMMA AttestPreserves ==
    ASSUME LineageInv, NEW a \in Attestations, NEW q \in BOOLEAN, Attest(a, q)
    PROVE  LineageInv'
<1> DEFINE answer == EffectVerdict(a, KnownFor(a, q))
<1>1. CASE answer \in {"effect-valid", "effect-state-unknown"} /\ Record(a, answer)
  BY <1>1, RecordPreserves
<1>2. CASE /\ answer = "emission-duplicate"
           /\ \E e \in inventory :
                 /\ e.emission = a.emission /\ Open(e)
                 /\ inventory' = (inventory \ {e}) \cup
                                 {[ e EXCEPT !.status = a.status ]}
           /\ UNCHANGED <<lineage, lease, revision>>
  <2>1. ~ KnownFor(a, q).generationConsumed
    BY <1>2, KnownEffect
  <2> QED
    BY <1>2, <2>1, MovePreserves DEF KnownFor
<1> QED
  BY <1>1, <1>2 DEF Attest

LEMMA LineageStep == ASSUME LineageInv, [LineageNext]_lineageVars PROVE LineageInv'
BY IssuePreserves, TransferPreserves, SucceedPreserves, ElsewherePreserves,
   ReadInventoryPreserves, RetryPreserves, AttestPreserves DEF LineageNext

\* Generations, transfers and emissions keep the inductive invariant.
THEOREM LineageInvariant == LineageSpec => []LineageInv
BY LineageBegins, LineageStep, PTL DEF LineageSpec

------------------------------------------------------------------------------
(* Results *)

\* The lineage stays within its types, and its revision counts the inventory.
THEOREM LineageTypeCorrect == LineageSpec => []LineageTypeOK
<1>1. LineageInv => LineageTypeOK
  BY DEF LineageInv
<1> QED
  BY <1>1, LineageInvariant, PTL

\* evaluateEffect: an emission is admitted only after everything earlier
\* generations emitted is finally settled, for ever.
THEOREM GenerationsApart == LineageSpec => []GenerationsDoNotOverlap
<1>1. LineageInv => GenerationsDoNotOverlap
  BY DEF LineageInv
<1> QED
  BY <1>1, LineageInvariant, PTL

\* evaluateTransfer: an owner that issues transfers on a closed inventory hands
\* its successor a settled one.
THEOREM HandedOverSettled == LineageSpec => []SuccessorFindsSettled
<1>1. LineageInv => SuccessorFindsSettled
  BY DEF LineageInv
<1> QED
  BY <1>1, LineageInvariant, PTL

LEMMA AcceptedRecognised == ASSUME LineageInv PROVE TransferOneShot
<1> USE DEF LineageInv
<1> SUFFICES ASSUME NEW t \in transferred
             PROVE  /\ \A u \in transferred : u.generation = t.generation => u = t
                    /\ \A c \in Collisions(t), x \in BOOLEAN :
                          TransferVerdict(t, c, x, State) = "idempotent-duplicate"
  BY DEF TransferOneShot
<1>1. ASSUME NEW c \in Collisions(t) PROVE c = t /\ c # None
  BY LineageAssumption DEF Collisions, AcceptedApart, LineageTypeOK
<1> QED
  BY <1>1 DEF AcceptedApart, TransferVerdict, Collides, ReplayVerdict

\* evaluateTransfer and evaluateEffect: a lineage is consumed, and emits, once
\* at a time, and every accepted transfer is recognised for ever.
THEOREM OneShot == LineageSpec => []LineageOneShot
<1>1. LineageInv => LineageOneShot
  BY AcceptedRecognised DEF LineageInv, LineageOneShot
<1> QED
  BY <1>1, LineageInvariant, PTL

------------------------------------------------------------------------------
(* The isolation of a plan (PlanQuarantine)                                *)

\* What a value of a provenance is made from, before what it depends on.
Own(provenance) ==
    CASE provenance = <<"trusted-request">> -> {}
      [] provenance = <<"untrusted-content">> -> {Content}
      [] OTHER -> { <<provenance[2], provenance[3]>> }

\* The last record of a value.
IsLast(i) == i \in DOMAIN tracked /\ \A j \in (i + 1)..Len(tracked) : tracked[j].id # tracked[i].id

\* A value of a field is one of an accepted answer.
Genuine(answers, provenance) ==
    \/ provenance = <<"trusted-request">>
    \/ provenance = <<"untrusted-content">>
    \/ /\ provenance = <<"quarantine-field", provenance[2], provenance[3]>>
       /\ provenance[2] \in DOMAIN answers
       /\ answers[provenance[2]] # NoOutput
       /\ answers[provenance[2]].status = "ok"
       /\ provenance[3] \in DOMAIN answers[provenance[2]].values

\* The answers taken are accepted ones.
AnswersAccepted ==
    /\ plan \in ExecutionPlan
    /\ DOMAIN outputs = StepIds(plan)
    /\ \A id \in DOMAIN outputs : outputs[id] # NoOutput => AnswerAccepted(plan, id, outputs[id])

\* A record names values there are, of earlier records where they have one.
RecordsOrdered ==
    /\ tracked \in Seq({ tracked[i] : i \in DOMAIN tracked })
    /\ \A i \in DOMAIN tracked : /\ tracked[i].id \in DOMAIN truth
                                 /\ tracked[i].dependsOn \subseteq DOMAIN truth
                                 /\ Genuine(outputs, tracked[i].provenance)
    /\ \A i, j \in DOMAIN tracked : tracked[j].id \in tracked[i].dependsOn => j < i

\* The last record of a value tells all that went into it.
RecordsTrue ==
    \A i \in DOMAIN tracked : IsLast(i) =>
        truth[tracked[i].id] \subseteq
            Own(tracked[i].provenance) \cup UNION { truth[v] : v \in tracked[i].dependsOn }

\* The answer for a field is of its enumeration, or one of its pinned identifiers.
Pinned(answers, step, field) ==
    \/ field.kind = "enum" /\ \E v \in field.values : answers[step].values[field.name] = <<"string", v>>
    \/ field.kind = "identifier" /\ \E v \in Referential[field.referential] : answers[step].values[field.name] = <<"string", v>>

\* A source reaches a parameter of a call through a field that the plan names for it.
Through(p, answers, call, parameter, source) ==
    \E i, j \in DOMAIN p : \E k \in DOMAIN p[i].tools, f \in DOMAIN Fields(p[j]) :
        /\ p[i].id = call.step /\ p[i].tools[k].name = call.tool
        /\ [ parameter |-> parameter, step |-> p[j].id, field |-> Fields(p[j])[f].name ] \in p[i].tools[k].admissions
        /\ source = <<p[j].id, Fields(p[j])[f].name>>
        /\ j < i /\ p[j].role = "quarantine"
        /\ Pinned(answers, p[j].id, Fields(p[j])[f])

QuarantineInv == AnswersAccepted /\ RecordsOrdered /\ RecordsTrue /\ AdmittedArgumentsClosed

------------------------------------------------------------------------------
(* Records and positions *)

LEMMA TrackedIsList ==
    ASSUME RecordsOrdered
    PROVE  /\ Len(tracked) \in Nat /\ DOMAIN tracked = 1 .. Len(tracked)
BY DEF RecordsOrdered

\* Every known value has a last record, which is the one that is looked up.
LEMMA LastRecord ==
    ASSUME RecordsOrdered, NEW id \in Known
    PROVE  \E i \in DOMAIN tracked : IsLast(i) /\ tracked[i].id = id /\ RecordOf(id) = tracked[i]
<1> DEFINE L == Len(tracked)
           Back == { m \in Nat : L - m \in DOMAIN tracked /\ tracked[L - m].id = id }
<1>1. L \in Nat /\ DOMAIN tracked = 1 .. L
  BY TrackedIsList
<1>2. PICK i \in DOMAIN tracked : tracked[i].id = id
  BY DEF Known
<1>3. L - i \in Back
  <2>1. L - (L - i) = i /\ L - i \in Nat
    BY <1>1
  <2> QED BY <1>2, <2>1
<1>4. PICK m \in Back : \A k \in Back : m <= k
  <2>1. Back \subseteq Nat /\ Back # {}
    BY <1>3
  <2> HIDE DEF Back
  <2> QED BY <2>1, Least
<1> DEFINE n == L - m
<1>5. n \in DOMAIN tracked /\ tracked[n].id = id
  BY <1>4
<1>6. ASSUME NEW j \in (n + 1) .. L PROVE tracked[j].id # id
  <2>1. j \in 1 .. L /\ j > n
    BY <1>1, <1>5
  <2>2. L - (L - j) = j /\ L - j \in Nat
    BY <1>1, <2>1
  <2>3. CASE tracked[j].id = id
    <3>1. L - j \in Back
      BY <1>1, <2>1, <2>2, <2>3
    <3>2. m <= L - j
      BY <1>4, <3>1
    <3> QED BY <1>1, <1>4, <2>1, <3>2
  <2> QED BY <2>3
<1> HIDE DEF n, Back
<1>7. IsLast(n)
  BY <1>5, <1>6 DEF IsLast
<1>8. ASSUME NEW k \in DOMAIN tracked, tracked[k].id = id,
             \A j \in (k + 1) .. L : tracked[j].id # id
      PROVE  k = n
  <2>1. CASE k < n
    <3>1. n \in (k + 1) .. L
      BY <1>1, <1>5, <2>1
    <3> QED BY <1>5, <1>8, <3>1
  <2>2. CASE n < k
    <3>1. k \in (n + 1) .. L
      BY <1>1, <1>5, <2>2
    <3> QED BY <1>6, <1>8, <3>1
  <2> QED BY <1>1, <1>5, <2>1, <2>2
<1>9. n = CHOOSE k \in DOMAIN tracked : tracked[k].id = id /\ \A j \in (k + 1) .. L : tracked[j].id # id
  BY <1>5, <1>6, <1>8
<1>10. RecordOf(id) = tracked[n]
  BY <1>9 DEF RecordOf
<1> QED BY <1>5, <1>7, <1>10

------------------------------------------------------------------------------
(* The records that are left when a value's are lost *)

Keeping(f, id) ==
    f = [ n \in 0..Len(tracked) |->
            IF n = 0 THEN << >>
            ELSE IF tracked[n].id = id THEN f[n - 1]
            ELSE Append(f[n - 1], tracked[n]) ]

\* A list holds, in their order, the first n records without those of a value.
Embeds(e, list, n, id) ==
    /\ e \in [ 1..Len(list) -> 1..n ]
    /\ \A i \in 1..Len(list) : list[i] = tracked[e[i]] /\ list[i].id # id
    /\ \A i, j \in 1..Len(list) : i < j => e[i] < e[j]
    /\ \A j \in 1..n : tracked[j].id # id => \E i \in 1..Len(list) : e[i] = j

LEMMA KeptInRounds ==
    ASSUME RecordsOrdered, NEW id
    PROVE  \E f : Keeping(f, id) /\ Without(id) = f[Len(tracked)]
<1> DEFINE R == { tracked[i] : i \in DOMAIN tracked }
           D == Seq(R)
           L == Len(tracked)
           base == << >>
           Longer(n, list) == IF n \in 1 .. L /\ tracked[n].id # id THEN Append(list, tracked[n]) ELSE list
           step == [ p \in Nat \X D |-> Longer(p[1], p[2]) ]
<1>1. L \in Nat /\ base \in D /\ DOMAIN tracked = 1 .. L
  BY TrackedIsList
<1>2. ASSUME NEW n \in Nat, NEW list \in D PROVE Longer(n, list) \in D
  BY <1>1
<1>3. step \in [ Nat \X D -> D ]
  <2> HIDE DEF Longer, D
  <2> QED BY <1>2
<1>4. PICK f \in [0 .. L -> D] : Unfolds(f, L, base, step)
  <2> HIDE DEF D, step, L, base
  <2> QED BY <1>1, <1>3, Rounds
<1>5. ASSUME NEW n \in 1 .. L PROVE f[n] = Longer(n, f[n - 1])
  <2>1. f[n - 1] \in D /\ n \in Nat
    BY <1>1
  <2>2. f[n] = step[<<n, f[n - 1]>>]
    BY <1>4 DEF Unfolds
  <2> HIDE DEF Longer, D
  <2> QED BY <2>1, <2>2
<1>6. f[0] = << >>
  BY <1>4 DEF Unfolds
<1>7. Keeping(f, id)
  <2>1. ASSUME NEW n \in 0 .. L
        PROVE  f[n] = IF n = 0 THEN << >>
                      ELSE IF tracked[n].id = id THEN f[n - 1]
                      ELSE Append(f[n - 1], tracked[n])
    <3>1. CASE n = 0
      BY <1>6, <3>1
    <3>2. CASE n # 0
      <4>1. n \in 1 .. L
        BY <1>1, <3>2
      <4>2. f[n] = IF tracked[n].id = id THEN f[n - 1] ELSE Append(f[n - 1], tracked[n])
        BY <1>5, <4>1
      <4> QED BY <3>2, <4>2
    <3> QED BY <3>1, <3>2
  <2> HIDE DEF D
  <2>2. f = [ n \in 0 .. L |-> f[n] ]
    OBVIOUS
  <2>3. f = [ n \in 0 .. L |-> IF n = 0 THEN << >>
                                ELSE IF tracked[n].id = id THEN f[n - 1]
                                ELSE Append(f[n - 1], tracked[n]) ]
    BY <2>1, <2>2, Zenon
  <2> QED BY <2>3 DEF Keeping
<1> DEFINE K == CHOOSE r : Keeping(r, id)
<1>8. Keeping(K, id)
  BY <1>7, Zenon
<1>9. Without(id) = K[L]
  BY DEF Without, Keeping
<1> QED BY <1>8, <1>9

\* One more record extends the embedding, or leaves it.
LEMMA EmbedsOneMore ==
    ASSUME RecordsOrdered, NEW id, NEW n \in Nat, n + 1 <= Len(tracked),
           NEW list \in Seq({ tracked[i] : i \in DOMAIN tracked }), NEW e, Embeds(e, list, n, id)
    PROVE  IF tracked[n + 1].id = id
           THEN \E g : Embeds(g, list, n + 1, id)
           ELSE \E g : Embeds(g, Append(list, tracked[n + 1]), n + 1, id)
<1> DEFINE l == Len(list)
           R == { tracked[i] : i \in DOMAIN tracked }
<1>1. l \in Nat /\ Len(tracked) \in Nat /\ n + 1 \in DOMAIN tracked
  BY TrackedIsList
<1>2. /\ e \in [ 1..l -> 1..n ]
      /\ \A i \in 1..l : list[i] = tracked[e[i]] /\ list[i].id # id
      /\ \A i, j \in 1..l : i < j => e[i] < e[j]
      /\ \A j \in 1..n : tracked[j].id # id => \E i \in 1..l : e[i] = j
  BY DEF Embeds
<1>3. CASE tracked[n + 1].id = id
  <2>1. e \in [ 1..l -> 1..(n + 1) ]
    <3>1. 1..n \subseteq 1..(n + 1)
      OBVIOUS
    <3> QED BY <1>2, <3>1
  <2>2. ASSUME NEW j \in 1..(n + 1), tracked[j].id # id PROVE \E i \in 1..l : e[i] = j
    <3>1. j # n + 1
      BY <1>3, <2>2
    <3>2. j \in 1..n
      BY <3>1
    <3> QED BY <1>2, <2>2, <3>2
  <2>3. Embeds(e, list, n + 1, id)
    BY <1>2, <2>1, <2>2 DEF Embeds
  <2> QED BY <1>3, <2>3
<1>4. CASE tracked[n + 1].id # id
  <2> DEFINE more == Append(list, tracked[n + 1])
             g == [ i \in 1..(l + 1) |-> IF i = l + 1 THEN n + 1 ELSE e[i] ]
  <2>1. /\ Len(more) = l + 1
        /\ \A i \in 1..l : more[i] = list[i]
        /\ more[l + 1] = tracked[n + 1]
    BY <1>1
  <2>2. /\ g[l + 1] = n + 1
        /\ \A i \in 1..l : g[i] = e[i]
    BY <1>1
  <2>3. \A i \in 1..l : e[i] \in 1..n
    BY <1>2
  <2>4. g \in [ 1..(l + 1) -> 1..(n + 1) ]
    <3>1. ASSUME NEW i \in 1..(l + 1) PROVE (IF i = l + 1 THEN n + 1 ELSE e[i]) \in 1..(n + 1)
      <4>1. CASE i = l + 1
        BY <4>1
      <4>2. CASE i # l + 1
        <5>1. i \in 1..l
          BY <1>1, <4>2
        <5> QED BY <2>3, <4>2, <5>1
      <4> QED BY <4>1, <4>2
    <3> QED BY <3>1
  <2> HIDE DEF g, more, l
  <2>5. ASSUME NEW i \in 1..(l + 1) PROVE more[i] = tracked[g[i]] /\ more[i].id # id
    <3>1. CASE i = l + 1
      BY <1>4, <2>1, <2>2, <3>1
    <3>2. CASE i # l + 1
      <4>1. i \in 1..l
        BY <1>1, <3>2
      <4> QED BY <1>2, <2>1, <2>2, <4>1
    <3> QED BY <3>1, <3>2
  <2>6. ASSUME NEW i \in 1..(l + 1), NEW j \in 1..(l + 1), i < j PROVE g[i] < g[j]
    <3>1. i \in 1..l
      BY <1>1, <2>6
    <3>2. CASE j = l + 1
      <4>1. g[i] \in 1..n /\ g[j] = n + 1
        BY <2>2, <2>3, <3>1, <3>2
      <4> QED BY <4>1
    <3>3. CASE j # l + 1
      <4>1. j \in 1..l
        BY <1>1, <3>3
      <4> QED BY <1>2, <2>2, <2>6, <3>1, <4>1
    <3> QED BY <3>2, <3>3
  <2>7. ASSUME NEW j \in 1..(n + 1), tracked[j].id # id PROVE \E i \in 1..(l + 1) : g[i] = j
    <3>1. CASE j = n + 1
      <4>1. l + 1 \in 1..(l + 1)
        BY <1>1
      <4> QED BY <2>2, <3>1, <4>1
    <3>2. CASE j # n + 1
      <4>1. j \in 1..n
        BY <3>2
      <4>2. PICK i \in 1..l : e[i] = j
        BY <1>2, <2>7, <4>1
      <4>3. i \in 1..(l + 1)
        BY <1>1
      <4> QED BY <2>2, <4>2, <4>3
    <3> QED BY <3>1, <3>2
  <2>8. Embeds(g, more, n + 1, id)
    BY <2>1, <2>4, <2>5, <2>6, <2>7 DEF Embeds
  <2> QED BY <1>4, <2>8 DEF more
<1> QED BY <1>3, <1>4

LEMMA WithoutEmbeds ==
    ASSUME RecordsOrdered, NEW id
    PROVE  /\ Without(id) \in Seq({ tracked[i] : i \in DOMAIN tracked })
           /\ \E e : Embeds(e, Without(id), Len(tracked), id)
<1> DEFINE R == { tracked[i] : i \in DOMAIN tracked }
           L == Len(tracked)
<1>1. PICK f : Keeping(f, id) /\ Without(id) = f[L]
  BY KeptInRounds
<1>2. L \in Nat /\ DOMAIN tracked = 1 .. L
  BY TrackedIsList
<1>3. f[0] = << >>
  BY <1>1, <1>2 DEF Keeping
<1>4. ASSUME NEW n \in 1 .. L
      PROVE  f[n] = IF tracked[n].id = id THEN f[n - 1] ELSE Append(f[n - 1], tracked[n])
  <2>1. n \in 0 .. L /\ n # 0
    BY <1>2
  <2> HIDE DEF L
  <2>2. f[n] = IF n = 0 THEN << >>
               ELSE IF tracked[n].id = id THEN f[n - 1]
               ELSE Append(f[n - 1], tracked[n])
    BY <1>1, <2>1 DEF Keeping, L
  <2> QED BY <2>1, <2>2
<1> DEFINE Good == { n \in Nat : n <= L => f[n] \in Seq(R) /\ \E e : Embeds(e, f[n], n, id) }
<1>5. 0 \in Good
  <2> DEFINE e == [ i \in 1..0 |-> 0 ]
  <2>1. e \in [ 1..0 -> 1..0 ] /\ Len(f[0]) = 0 /\ f[0] \in Seq(R)
    BY <1>3
  <2>2. Embeds(e, f[0], 0, id)
    BY <2>1 DEF Embeds
  <2> QED BY <2>1, <2>2
<1>6. ASSUME NEW n \in Nat, n \in Good PROVE n + 1 \in Good
  <2> SUFFICES ASSUME n + 1 <= L
               PROVE  f[n + 1] \in Seq(R) /\ \E e : Embeds(e, f[n + 1], n + 1, id)
    OBVIOUS
  <2>1. n + 1 \in 1 .. L /\ (n + 1) - 1 = n /\ n <= L
    BY <1>2
  <2>2. f[n + 1] = IF tracked[n + 1].id = id THEN f[n] ELSE Append(f[n], tracked[n + 1])
    BY <1>4, <2>1
  <2> DEFINE list == f[n]
  <2>3. list \in Seq(R) /\ \E e : Embeds(e, list, n, id)
    BY <1>6, <2>1
  <2>4. tracked[n + 1] \in R
    BY <1>2, <2>1
  <2> HIDE DEF list
  <2>5. PICK e : Embeds(e, list, n, id)
    BY <2>3
  <2>6. IF tracked[n + 1].id = id
        THEN \E g : Embeds(g, list, n + 1, id)
        ELSE \E g : Embeds(g, Append(list, tracked[n + 1]), n + 1, id)
    BY <2>1, <2>3, <2>5, EmbedsOneMore
  <2>7. CASE tracked[n + 1].id = id
    BY <2>2, <2>3, <2>6, <2>7 DEF list
  <2>8. CASE tracked[n + 1].id # id
    <3>1. f[n + 1] = Append(list, tracked[n + 1])
      BY <2>2, <2>8 DEF list
    <3>2. Append(list, tracked[n + 1]) \in Seq(R)
      <4> HIDE DEF R
      <4> QED BY <2>3, <2>4
    <3> QED BY <2>6, <2>8, <3>1, <3>2
  <2> QED BY <2>7, <2>8
<1>7. Nat \subseteq Good
  <2> HIDE DEF Good
  <2> QED BY <1>5, <1>6, SetInduction
<1>8. f[L] \in Seq(R) /\ \E e : Embeds(e, f[L], L, id)
  <2>1. L \in Good
    <3> HIDE DEF Good
    <3> QED BY <1>2, <1>7
  <2>2. L <= L
    BY <1>2
  <2> HIDE DEF R, L
  <2> QED BY <2>1, <2>2
<1> QED BY <1>1, <1>8

------------------------------------------------------------------------------
(* What a call depends on *)

Reaching(f, roots) ==
    f = [ n \in 0..Len(tracked) |->
            IF n = 0 THEN roots
            ELSE f[n - 1] \cup UNION { RecordOf(v).dependsOn : v \in f[n - 1] \cap Known } ]

LEMMA ReachedInRounds ==
    ASSUME RecordsOrdered, NEW roots
    PROVE  \E f : Reaching(f, roots) /\ DependencyClosure(roots) = f[Len(tracked)]
<1> DEFINE U == roots \cup UNION { RecordOf(v).dependsOn : v \in Known }
           D == SUBSET U
           L == Len(tracked)
           base == roots
           Further(set) == set \cup UNION { RecordOf(v).dependsOn : v \in set \cap Known }
           step == [ p \in Nat \X D |-> Further(p[2]) ]
<1>1. L \in Nat /\ base \in D
  BY TrackedIsList
<1>2. ASSUME NEW set \in D PROVE Further(set) \in D
  OBVIOUS
<1>3. step \in [ Nat \X D -> D ]
  <2> HIDE DEF Further, D
  <2> QED BY <1>2
<1>4. PICK f \in [0 .. L -> D] : Unfolds(f, L, base, step)
  <2> HIDE DEF D, step, L, base
  <2> QED BY <1>1, <1>3, Rounds
<1>5. ASSUME NEW n \in 1 .. L PROVE f[n] = Further(f[n - 1])
  <2>1. f[n - 1] \in D /\ n \in Nat
    BY <1>1
  <2>2. f[n] = step[<<n, f[n - 1]>>]
    BY <1>4 DEF Unfolds
  <2> HIDE DEF Further, D
  <2> QED BY <2>1, <2>2
<1>6. f[0] = roots
  BY <1>4 DEF Unfolds
<1>7. Reaching(f, roots)
  <2>1. ASSUME NEW n \in 0 .. L
        PROVE  f[n] = IF n = 0 THEN roots ELSE Further(f[n - 1])
    <3>1. CASE n = 0
      BY <1>6, <3>1
    <3>2. CASE n # 0
      <4>1. n \in 1 .. L
        BY <1>1, <3>2
      <4>2. f[n] = Further(f[n - 1])
        BY <1>5, <4>1
      <4> HIDE DEF Further
      <4> QED BY <3>2, <4>2
    <3> QED BY <3>1, <3>2
  <2> HIDE DEF D, Further
  <2>2. f = [ n \in 0 .. L |-> f[n] ]
    OBVIOUS
  <2>3. f = [ n \in 0 .. L |-> IF n = 0 THEN roots ELSE Further(f[n - 1]) ]
    BY <2>1, <2>2, Zenon
  <2> QED BY <2>3 DEF Reaching, Further
<1> DEFINE K == CHOOSE r : Reaching(r, roots)
<1>8. Reaching(K, roots)
  BY <1>7, Zenon
<1>9. DependencyClosure(roots) = K[L]
  BY DEF DependencyClosure, Reaching
<1> QED BY <1>8, <1>9

\* As many rounds as there are records reach everything: with every round the
\* records reached for the first time are earlier ones.
LEMMA ClosureClosed ==
    ASSUME RecordsOrdered, NEW roots
    PROVE  /\ roots \subseteq DependencyClosure(roots)
           /\ \A v \in DependencyClosure(roots) \cap Known :
                 RecordOf(v).dependsOn \subseteq DependencyClosure(roots)
<1> DEFINE L == Len(tracked)
<1>1. PICK f : Reaching(f, roots) /\ DependencyClosure(roots) = f[L]
  BY ReachedInRounds
<1>2. L \in Nat /\ DOMAIN tracked = 1 .. L
  BY TrackedIsList
<1>3. f[0] = roots
  BY <1>1, <1>2 DEF Reaching
<1>4. ASSUME NEW n \in Nat, n + 1 <= L
      PROVE  f[n + 1] = f[n] \cup UNION { RecordOf(v).dependsOn : v \in f[n] \cap Known }
  <2>1. n + 1 \in 0 .. L /\ n + 1 # 0 /\ (n + 1) - 1 = n
    BY <1>2, <1>4
  <2> HIDE DEF L
  <2>2. f[n + 1] = IF n + 1 = 0 THEN roots
                   ELSE f[(n + 1) - 1] \cup UNION { RecordOf(v).dependsOn : v \in f[(n + 1) - 1] \cap Known }
    BY <1>1, <2>1 DEF Reaching, L
  <2> QED BY <2>1, <2>2
<1>5. ASSUME NEW a \in Nat, NEW b \in Nat, a <= b, b <= L PROVE f[a] \subseteq f[b]
  <2> DEFINE Good == { n \in Nat : a + n <= L => f[a] \subseteq f[a + n] }
  <2>1. 0 \in Good
    BY SMT
  <2>2. ASSUME NEW n \in Nat, n \in Good PROVE n + 1 \in Good
    <3> SUFFICES ASSUME a + (n + 1) <= L PROVE f[a] \subseteq f[a + (n + 1)]
      OBVIOUS
    <3>1. a + n \in Nat /\ (a + n) + 1 = a + (n + 1) /\ (a + n) + 1 <= L /\ a + n <= L
      BY <1>2
    <3>2. f[a] \subseteq f[a + n]
      BY <2>2, <3>1
    <3>3. f[a + n] \subseteq f[(a + n) + 1]
      BY <1>4, <3>1
    <3> QED BY <3>1, <3>2, <3>3
  <2>3. Nat \subseteq Good
    <3> HIDE DEF Good
    <3> QED BY <2>1, <2>2, SetInduction
  <2>4. b - a \in Nat /\ a + (b - a) = b
    BY <1>5
  <2>5. b - a \in Good
    <3> HIDE DEF Good
    <3> QED BY <2>3, <2>4
  <2> QED BY <1>5, <2>4, <2>5
<1>6. ASSUME NEW m \in Nat, m <= L, NEW i \in 1 .. L, tracked[i].id \in f[m]
      PROVE  tracked[i].id \in f[L - i]
  <2> DEFINE Good == { n \in Nat : n <= L => \A k \in 1 .. L : tracked[k].id \in f[n] => tracked[k].id \in f[L - k] }
  <2>1. 0 \in Good
    <3> SUFFICES ASSUME NEW k \in 1 .. L, tracked[k].id \in f[0] PROVE tracked[k].id \in f[L - k]
      OBVIOUS
    <3>1. L - k \in Nat /\ 0 <= L - k /\ L - k <= L
      BY <1>2
    <3> QED BY <1>5, <3>1
  <2>2. ASSUME NEW n \in Nat, n \in Good PROVE n + 1 \in Good
    <3> SUFFICES ASSUME n + 1 <= L, NEW k \in 1 .. L, tracked[k].id \in f[n + 1]
                 PROVE  tracked[k].id \in f[L - k]
      OBVIOUS
    <3>1. n <= L /\ \A j \in 1 .. L : tracked[j].id \in f[n] => tracked[j].id \in f[L - j]
      BY <1>2, <2>2
    <3>2. CASE tracked[k].id \in f[n]
      BY <3>1, <3>2
    <3>3. CASE tracked[k].id \notin f[n]
      <4>1. PICK w \in f[n] \cap Known : tracked[k].id \in RecordOf(w).dependsOn
        BY <1>4, <3>3
      <4>2. PICK j \in DOMAIN tracked : tracked[j].id = w /\ RecordOf(w) = tracked[j]
        BY <4>1, LastRecord
      <4>3. k < j /\ j \in 1 .. L
        BY <1>2, <4>1, <4>2 DEF RecordsOrdered
      <4>4. w \in f[L - j]
        BY <3>1, <4>1, <4>2, <4>3
      <4>5. /\ L - j \in Nat /\ (L - j) + 1 \in Nat /\ L - k \in Nat
            /\ (L - j) + 1 <= L - k /\ (L - j) + 1 <= L /\ L - k <= L
        BY <1>2, <4>3
      <4>6. tracked[k].id \in f[(L - j) + 1]
        <5>1. f[(L - j) + 1] = f[L - j] \cup UNION { RecordOf(v).dependsOn : v \in f[L - j] \cap Known }
          BY <1>4, <4>5
        <5> HIDE DEF L
        <5> QED BY <4>1, <4>4, <5>1
      <4>7. f[(L - j) + 1] \subseteq f[L - k]
        BY <1>5, <4>5
      <4> QED BY <4>6, <4>7
    <3> QED BY <3>2, <3>3
  <2>3. Nat \subseteq Good
    <3> HIDE DEF Good
    <3> QED BY <2>1, <2>2, SetInduction
  <2>4. m \in Good
    <3> HIDE DEF Good
    <3> QED BY <2>3
  <2> QED BY <1>6, <2>4
<1>7. roots \subseteq f[L]
  BY <1>2, <1>3, <1>5
<1>8. ASSUME NEW v \in f[L] \cap Known PROVE RecordOf(v).dependsOn \subseteq f[L]
  <2>1. PICK i \in DOMAIN tracked : tracked[i].id = v /\ RecordOf(v) = tracked[i]
    BY LastRecord
  <2>2. i \in 1 .. L /\ L <= L
    BY <1>2
  <2>3. v \in f[L - i]
    BY <1>2, <1>6, <2>1, <2>2
  <2>4. L - i \in Nat /\ (L - i) + 1 \in Nat /\ (L - i) + 1 <= L
    BY <1>2, <2>2
  <2>5. f[(L - i) + 1] = f[L - i] \cup UNION { RecordOf(x).dependsOn : x \in f[L - i] \cap Known }
    BY <1>4, <2>4
  <2>6. f[(L - i) + 1] \subseteq f[L]
    BY <1>2, <1>5, <2>4
  <2> HIDE DEF L
  <2>7. RecordOf(v).dependsOn \subseteq f[(L - i) + 1]
    BY <2>3, <2>5
  <2> QED BY <2>6, <2>7
<1> QED BY <1>1, <1>7, <1>8

------------------------------------------------------------------------------
(* What reaches a call *)

LEMMA OneLastRecord ==
    ASSUME RecordsOrdered, NEW i, NEW k, IsLast(i), IsLast(k), tracked[i].id = tracked[k].id
    PROVE  i = k
<1>1. Len(tracked) \in Nat /\ i \in 1 .. Len(tracked) /\ k \in 1 .. Len(tracked)
  BY TrackedIsList DEF IsLast
<1>2. CASE i < k
  <2>1. k \in (i + 1) .. Len(tracked)
    BY <1>1, <1>2
  <2> QED BY <2>1 DEF IsLast
<1>3. CASE k < i
  <2>1. i \in (k + 1) .. Len(tracked)
    BY <1>1, <1>3
  <2> QED BY <2>1 DEF IsLast
<1> QED BY <1>1, <1>2, <1>3

\* If a set of known values holds what they depend on, all that went into them is their own.
LEMMA TruthCarried ==
    ASSUME RecordsOrdered, RecordsTrue, NEW C, NEW A,
           \A v \in C : v \in Known /\ RecordOf(v).dependsOn \subseteq C /\ Own(RecordOf(v).provenance) \subseteq A
    PROVE  \A v \in C : truth[v] \subseteq A
<1> DEFINE Good == { n \in Nat : \A i \in DOMAIN tracked :
                        (IsLast(i) /\ tracked[i].id \in C /\ i <= n) => truth[tracked[i].id] \subseteq A }
<1>1. Len(tracked) \in Nat /\ DOMAIN tracked = 1 .. Len(tracked)
  BY TrackedIsList
<1>2. 0 \in Good
  BY <1>1
<1>3. ASSUME NEW n \in Nat, n \in Good PROVE n + 1 \in Good
  <2> SUFFICES ASSUME NEW i \in DOMAIN tracked, IsLast(i), tracked[i].id \in C, i <= n + 1
               PROVE  truth[tracked[i].id] \subseteq A
    OBVIOUS
  <2>1. PICK m \in DOMAIN tracked :
            IsLast(m) /\ tracked[m].id = tracked[i].id /\ RecordOf(tracked[i].id) = tracked[m]
    BY LastRecord
  <2>2. m = i
    BY <2>1, OneLastRecord
  <2>3. tracked[i].dependsOn \subseteq C /\ Own(tracked[i].provenance) \subseteq A
    BY <2>1, <2>2
  <2>4. ASSUME NEW v \in tracked[i].dependsOn PROVE truth[v] \subseteq A
    <3>1. v \in C /\ v \in Known
      BY <2>3
    <3>2. PICK k \in DOMAIN tracked : IsLast(k) /\ tracked[k].id = v
      BY <3>1, LastRecord
    <3>3. k < i
      BY <3>2 DEF RecordsOrdered
    <3>4. k <= n
      BY <1>1, <3>3
    <3> QED BY <1>3, <3>1, <3>2, <3>4
  <2>5. truth[tracked[i].id] \subseteq Own(tracked[i].provenance) \cup UNION { truth[v] : v \in tracked[i].dependsOn }
    BY DEF RecordsTrue
  <2> QED BY <2>3, <2>4, <2>5
<1>4. Nat \subseteq Good
  <2> HIDE DEF Good
  <2> QED BY <1>2, <1>3, SetInduction
<1>5. ASSUME NEW v \in C PROVE truth[v] \subseteq A
  <2>1. PICK i \in DOMAIN tracked : IsLast(i) /\ tracked[i].id = v
    BY LastRecord
  <2>2. i \in Nat /\ i <= i
    BY <1>1
  <2>3. i \in Good
    <3> HIDE DEF Good
    <3> QED BY <1>4, <2>2
  <2> QED BY <2>1, <2>2, <2>3
<1> QED BY <1>5

\* In a plan whose steps have distinct identities, the step of an identity is the one that has it.
LEMMA StepIsNamed ==
    ASSUME NEW p, p \in Seq({ p[i] : i \in DOMAIN p }), Distinct(p, Identified), NEW i \in DOMAIN p
    PROVE  StepOf(p, p[i].id) = p[i]
<1>1. Len(p) \in Nat /\ DOMAIN p = 1 .. Len(p)
  OBVIOUS
<1>2. \A k \in DOMAIN p : p[k].id = p[i].id => k = i
  BY DEF Distinct, IsInjective, Identified
<1>3. \A j \in 1 .. (i - 1) : j \in DOMAIN p /\ j # i
  BY <1>1
<1>4. i = CHOOSE k \in DOMAIN p : p[k].id = p[i].id /\ \A j \in 1 .. (k - 1) : p[j].id # p[i].id
  BY <1>2, <1>3
<1> QED BY <1>4 DEF StepOf

\* A parameter's value in an admitted call, and the controls of the call, carry only fields that
\* the tool admits for the parameter, of answers that were accepted.
LEMMA CarriedIsAdmitted ==
    ASSUME RecordsOrdered, RecordsTrue, NEW tool, NEW parameter, NEW roots,
           \A v \in DependencyClosure(roots) : Admits(tool, parameter, v)
    PROVE  \A v \in roots : \A source \in truth[v] : \E a \in tool.admissions :
               /\ a.parameter = parameter
               /\ source = <<a.step, a.field>>
               /\ Genuine(outputs, <<"quarantine-field", a.step, a.field>>)
<1> DEFINE C == DependencyClosure(roots)
           ok == { a \in tool.admissions : a.parameter = parameter /\ Genuine(outputs, <<"quarantine-field", a.step, a.field>>) }
           A == { <<a.step, a.field>> : a \in ok }
<1>1. roots \subseteq C /\ \A v \in C \cap Known : RecordOf(v).dependsOn \subseteq C
  BY ClosureClosed
<1>2. ASSUME NEW v \in C PROVE v \in Known /\ Own(RecordOf(v).provenance) \subseteq A
  <2>1. v \in Known
    <3> SUFFICES ASSUME v \notin Known PROVE FALSE
      OBVIOUS
    <3>1. ProvenanceOf(v) = <<"untrusted-content">>
      BY DEF ProvenanceOf
    <3> QED BY <3>1 DEF Admits
  <2>2. PICK i \in DOMAIN tracked : RecordOf(v) = tracked[i]
    BY <2>1, LastRecord
  <2>3. Genuine(outputs, RecordOf(v).provenance)
    BY <2>2 DEF RecordsOrdered
  <2>4. ProvenanceOf(v) = RecordOf(v).provenance
    BY <2>1 DEF ProvenanceOf
  <2>5. CASE RecordOf(v).provenance = <<"trusted-request">>
    <3>1. Own(RecordOf(v).provenance) = {}
      BY <2>5 DEF Own
    <3> QED BY <2>1, <3>1
  <2>6. CASE RecordOf(v).provenance # <<"trusted-request">>
    <3>1. PICK a \in tool.admissions : a.parameter = parameter
                 /\ RecordOf(v).provenance = <<"quarantine-field", a.step, a.field>>
      BY <2>4, <2>6 DEF Admits
    <3>2. Own(RecordOf(v).provenance) = { <<a.step, a.field>> }
      BY <3>1 DEF Own
    <3>3. a \in ok
      BY <2>3, <3>1
    <3> QED BY <2>1, <3>2, <3>3
  <2> QED BY <2>5, <2>6
<1> HIDE DEF C, A
<1>3. \A v \in C : truth[v] \subseteq A
  BY <1>1, <1>2, TruthCarried
<1> QED BY <1>1, <1>3 DEF A


------------------------------------------------------------------------------
(* The steps of a harness *)

LEMMA QuarantineStarts ==
    PlanInit => QuarantineInv
<1> SUFFICES ASSUME PlanInit PROVE QuarantineInv
  OBVIOUS
<1>1. AnswersAccepted
  BY DEF PlanInit, AnswersAccepted
<1>2. RecordsOrdered
  BY DEF PlanInit, RecordsOrdered
<1>3. RecordsTrue
  BY DEF PlanInit, RecordsTrue, IsLast
<1>4. AdmittedArgumentsClosed
  <2>1. DOMAIN NoCall.reached = {}
    BY DEF NoCall
  <2> QED BY <2>1 DEF PlanInit, AdmittedArgumentsClosed
<1> QED BY <1>1, <1>2, <1>3, <1>4 DEF QuarantineInv

LEMMA ClosedIsThrough ==
    /\ AdmittedArgumentsClosed <=>
           \A parameter \in DOMAIN admitted.reached : \A source \in admitted.reached[parameter] :
               Through(plan, outputs, admitted, parameter, source)
    /\ AdmittedArgumentsClosed' <=>
           \A parameter \in DOMAIN admitted'.reached : \A source \in admitted'.reached[parameter] :
               Through(plan', outputs', admitted', parameter, source)
BY DEF AdmittedArgumentsClosed, Through, Pinned

LEMMA NoCallIsClosed ==
    admitted' = NoCall => AdmittedArgumentsClosed'
<1>1. DOMAIN NoCall.reached = {}
  BY DEF NoCall
<1> QED BY <1>1, ClosedIsThrough

LEMMA TrackKeeps ==
    ASSUME QuarantineInv, NEW id, NEW provenance, NEW parents, NEW sources,
           Track(id, provenance, parents, sources),
           id \notin parents, parents \subseteq DOMAIN truth, Genuine(outputs, provenance),
           sources \subseteq Own(provenance) \cup UNION { truth[v] : v \in parents }
    PROVE  QuarantineInv'
<1> DEFINE L == Len(tracked)
           new == [ id |-> id, provenance |-> provenance, dependsOn |-> parents ]
<1> USE DEF QuarantineInv
<1>1. L \in Nat /\ DOMAIN tracked = 1 .. L
  BY TrackedIsList
<1>2. /\ \A i \in DOMAIN tracked : id \notin tracked[i].dependsOn
      /\ tracked' = Append(tracked, new)
      /\ truth' = [ v \in DOMAIN truth \cup {id} |-> IF v = id THEN sources ELSE truth[v] ]
      /\ admitted' = NoCall
      /\ plan' = plan /\ outputs' = outputs
  BY DEF Track
<1>3. /\ Len(tracked') = L + 1 /\ DOMAIN tracked' = 1 .. (L + 1)
      /\ \A i \in 1 .. L : tracked'[i] = tracked[i]
      /\ tracked'[L + 1] = new
  <2>1. tracked \in Seq({ tracked[i] : i \in DOMAIN tracked })
    BY DEF RecordsOrdered
  <2> HIDE DEF new
  <2> QED BY <1>1, <1>2, <2>1
<1>4. new.id = id /\ new.provenance = provenance /\ new.dependsOn = parents
  OBVIOUS
<1> HIDE DEF new
<1>5. AnswersAccepted'
  BY <1>2 DEF AnswersAccepted, AnswerAccepted
<1>6. tracked' \in Seq({ tracked'[i] : i \in DOMAIN tracked' })
  <2> DEFINE R == { tracked'[i] : i \in DOMAIN tracked' }
  <2>1. \A i \in 1 .. (L + 1) : tracked'[i] \in R
    BY <1>3
  <2>2. tracked' = [ i \in 1 .. (L + 1) |-> tracked'[i] ]
    <3>1. tracked' \in Seq({ tracked[i] : i \in DOMAIN tracked } \cup {new})
      BY <1>2 DEF RecordsOrdered
    <3> QED BY <1>3, <3>1
  <2> HIDE DEF R
  <2>3. L + 1 \in Nat
    BY <1>1
  <2> QED BY <2>1, <2>2, <2>3
<1>7. ASSUME NEW i \in DOMAIN tracked'
      PROVE  /\ tracked'[i].id \in DOMAIN truth'
             /\ tracked'[i].dependsOn \subseteq DOMAIN truth'
             /\ Genuine(outputs', tracked'[i].provenance)
  <2>1. DOMAIN truth \subseteq DOMAIN truth' /\ id \in DOMAIN truth'
    BY <1>2
  <2>2. outputs' = outputs
    BY <1>2
  <2>3. CASE i = L + 1
    BY <1>3, <1>4, <2>1, <2>2, <2>3
  <2>4. CASE i # L + 1
    <3>1. i \in 1 .. L
      BY <1>1, <1>3, <2>4
    <3>2. /\ tracked[i].id \in DOMAIN truth
          /\ tracked[i].dependsOn \subseteq DOMAIN truth
          /\ Genuine(outputs, tracked[i].provenance)
      BY <1>1, <3>1 DEF RecordsOrdered
    <3> QED BY <1>3, <2>1, <2>2, <3>1, <3>2
  <2> QED BY <2>3, <2>4
<1>8. ASSUME NEW i \in DOMAIN tracked', NEW j \in DOMAIN tracked', tracked'[j].id \in tracked'[i].dependsOn
      PROVE  j < i
  <2>1. CASE i \in 1 .. L /\ j \in 1 .. L
    BY <1>1, <1>3, <1>8, <2>1 DEF RecordsOrdered
  <2>2. CASE i \in 1 .. L /\ j = L + 1
    BY <1>1, <1>2, <1>3, <1>4, <1>8, <2>2
  <2>3. CASE i = L + 1 /\ j \in 1 .. L
    BY <1>1, <2>3
  <2>4. CASE i = L + 1 /\ j = L + 1
    BY <1>3, <1>4, <1>8, <2>4
  <2>5. i \in 1 .. (L + 1) /\ j \in 1 .. (L + 1)
    BY <1>3
  <2> QED BY <1>1, <2>1, <2>2, <2>3, <2>4, <2>5
<1>9. RecordsOrdered'
  BY <1>6, <1>7, <1>8 DEF RecordsOrdered
<1>10. ASSUME NEW i \in DOMAIN tracked', IsLast(i)'
       PROVE  truth'[tracked'[i].id] \subseteq
                  Own(tracked'[i].provenance) \cup UNION { truth'[v] : v \in tracked'[i].dependsOn }
  <2>1. CASE i = L + 1
    <3>1. truth'[id] = sources
      BY <1>2
    <3>2. \A v \in parents : truth'[v] = truth[v]
      BY <1>2
    <3> QED BY <1>3, <1>4, <2>1, <3>1, <3>2
  <2>2. CASE i # L + 1
    <3>1. i \in 1 .. L
      BY <1>1, <1>3, <2>2
    <3>2. \A j \in (i + 1) .. (L + 1) : tracked'[j].id # tracked'[i].id
      BY <1>3, <1>10 DEF IsLast
    <3>3. tracked[i].id # id
      <4>1. L + 1 \in (i + 1) .. (L + 1)
        BY <1>1, <3>1
      <4> QED BY <1>3, <1>4, <3>1, <3>2, <4>1
    <3>4. IsLast(i)
      <4>1. ASSUME NEW j \in (i + 1) .. L PROVE tracked[j].id # tracked[i].id
        <5>1. j \in (i + 1) .. (L + 1) /\ j \in 1 .. L
          BY <1>1, <3>1
        <5> QED BY <1>3, <3>1, <3>2, <5>1
      <4> QED BY <1>1, <3>1, <4>1 DEF IsLast
    <3>5. truth[tracked[i].id] \subseteq
              Own(tracked[i].provenance) \cup UNION { truth[v] : v \in tracked[i].dependsOn }
      BY <1>1, <3>1, <3>4 DEF RecordsTrue
    <3>6. \A v \in DOMAIN truth : v # id => truth'[v] = truth[v]
      BY <1>2
    <3>7. /\ tracked[i].id \in DOMAIN truth
          /\ tracked[i].dependsOn \subseteq DOMAIN truth /\ id \notin tracked[i].dependsOn
      BY <1>1, <1>2, <3>1 DEF RecordsOrdered
    <3>8. \A v \in tracked[i].dependsOn : truth'[v] = truth[v]
      BY <3>6, <3>7
    <3>9. truth'[tracked[i].id] = truth[tracked[i].id]
      BY <3>3, <3>6, <3>7
    <3>10. tracked'[i] = tracked[i]
      BY <1>3, <3>1
    <3> QED BY <3>5, <3>8, <3>9, <3>10
  <2> QED BY <2>1, <2>2
<1>11. RecordsTrue'
  BY <1>10 DEF RecordsTrue
<1> QED BY <1>2, <1>5, <1>9, <1>11, NoCallIsClosed

LEMMA AskKeeps ==
    ASSUME QuarantineInv, NEW id \in DOMAIN outputs, NEW answer, AskQuarantine(id, answer)
    PROVE  QuarantineInv'
<1> USE DEF QuarantineInv
<1>1. /\ outputs[id] = NoOutput /\ AnswerAccepted(plan, id, answer)
      /\ outputs' = [outputs EXCEPT ![id] = answer]
      /\ admitted' = NoCall
      /\ plan' = plan /\ tracked' = tracked /\ truth' = truth
  BY DEF AskQuarantine
<1>2. DOMAIN outputs' = DOMAIN outputs
  BY <1>1
<1>3. \A x \in DOMAIN outputs : outputs'[x] = IF x = id THEN answer ELSE outputs[x]
  BY <1>1
<1>4. AnswersAccepted'
  <2>1. ASSUME NEW x \in DOMAIN outputs', outputs'[x] # NoOutput PROVE AnswerAccepted(plan, x, outputs'[x])
    BY <1>1, <1>2, <1>3, <2>1 DEF AnswersAccepted
  <2> QED BY <1>1, <1>2, <2>1 DEF AnswersAccepted
<1>5. ASSUME NEW provenance, Genuine(outputs, provenance) PROVE Genuine(outputs', provenance)
  BY <1>1, <1>2, <1>3, <1>5 DEF Genuine
<1>6. RecordsOrdered'
  BY <1>1, <1>5 DEF RecordsOrdered
<1>7. RecordsTrue'
  BY <1>1 DEF RecordsTrue, IsLast, Own
<1> QED BY <1>1, <1>4, <1>6, <1>7, NoCallIsClosed

LEMMA LoseKeeps ==
    ASSUME QuarantineInv, NEW id, LoseRecord(id)
    PROVE  QuarantineInv'
<1> USE DEF QuarantineInv
<1> DEFINE left == Without(id)
           l == Len(left)
           L == Len(tracked)
<1>1. /\ tracked' = left /\ admitted' = NoCall
      /\ plan' = plan /\ outputs' = outputs /\ truth' = truth
  BY DEF LoseRecord
<1>2. L \in Nat /\ DOMAIN tracked = 1 .. L
  BY TrackedIsList
<1>3. left \in Seq({ tracked[i] : i \in DOMAIN tracked }) /\ \E e : Embeds(e, left, L, id)
  BY WithoutEmbeds
<1>4. PICK e : Embeds(e, left, L, id)
  BY <1>3
<1>5. l \in Nat /\ DOMAIN left = 1 .. l /\ left = [ i \in 1 .. l |-> left[i] ]
  <2> HIDE DEF left
  <2> QED BY <1>3
<1> HIDE DEF left
<1>6. /\ \A i \in 1 .. l : e[i] \in 1 .. L /\ left[i] = tracked[e[i]] /\ left[i].id # id
      /\ \A i, j \in 1 .. l : i < j => e[i] < e[j]
      /\ \A j \in 1 .. L : tracked[j].id # id => \E i \in 1 .. l : e[i] = j
  BY <1>4 DEF Embeds
<1>7. AnswersAccepted'
  BY <1>1 DEF AnswersAccepted, AnswerAccepted
<1>8. left \in Seq({ left[i] : i \in DOMAIN left })
  <2> DEFINE R == { left[i] : i \in DOMAIN left }
  <2>1. \A i \in 1 .. l : left[i] \in R
    BY <1>5
  <2> HIDE DEF R, l
  <2> QED BY <1>5, <2>1
<1>9. ASSUME NEW i \in 1 .. l
      PROVE  /\ left[i].id \in DOMAIN truth
             /\ left[i].dependsOn \subseteq DOMAIN truth
             /\ Genuine(outputs, left[i].provenance)
  BY <1>2, <1>6 DEF RecordsOrdered
<1>10. ASSUME NEW i \in 1 .. l, NEW j \in 1 .. l, left[j].id \in left[i].dependsOn PROVE j < i
  <2>1. e[j] < e[i]
    BY <1>2, <1>6, <1>10 DEF RecordsOrdered
  <2>2. CASE i = j
    BY <1>6, <2>1, <2>2
  <2>3. CASE i < j
    <3>1. e[i] < e[j] /\ e[i] \in 1 .. L /\ e[j] \in 1 .. L
      BY <1>6, <2>3
    <3> QED BY <1>2, <2>1, <3>1
  <2> QED BY <1>5, <2>2, <2>3
<1>11. RecordsOrdered'
  BY <1>1, <1>5, <1>8, <1>9, <1>10 DEF RecordsOrdered
<1>12. ASSUME NEW i \in 1 .. l, \A j \in (i + 1) .. l : left[j].id # left[i].id PROVE IsLast(e[i])
  <2>1. ASSUME NEW k \in (e[i] + 1) .. L PROVE tracked[k].id # tracked[e[i]].id
    <3> SUFFICES ASSUME tracked[k].id = tracked[e[i]].id PROVE FALSE
      OBVIOUS
    <3>1. k \in 1 .. L /\ tracked[k].id # id /\ e[i] < k
      BY <1>2, <1>6
    <3>2. PICK j \in 1 .. l : e[j] = k
      BY <1>6, <3>1
    <3>3. CASE i < j
      <4>1. j \in (i + 1) .. l
        BY <1>5, <3>3
      <4> QED BY <1>6, <1>12, <3>2, <4>1
    <3>4. CASE j < i
      <4>1. e[j] < e[i] /\ e[i] \in 1 .. L
        BY <1>6, <3>4
      <4> QED BY <1>2, <3>1, <3>2, <4>1
    <3>5. CASE i = j
      BY <1>2, <1>6, <3>1, <3>2, <3>5
    <3> QED BY <1>5, <3>3, <3>4, <3>5
  <2> QED BY <1>2, <1>6, <2>1 DEF IsLast
<1>13. RecordsTrue'
  <2>1. ASSUME NEW i \in DOMAIN tracked', IsLast(i)'
        PROVE  truth'[tracked'[i].id] \subseteq
                   Own(tracked'[i].provenance) \cup UNION { truth'[v] : v \in tracked'[i].dependsOn }
    <3>1. i \in 1 .. l /\ \A j \in (i + 1) .. l : left[j].id # left[i].id
      BY <1>1, <1>5, <2>1 DEF IsLast
    <3>2. IsLast(e[i]) /\ e[i] \in DOMAIN tracked /\ left[i] = tracked[e[i]]
      BY <1>2, <1>6, <1>12, <3>1
    <3>3. truth[left[i].id] \subseteq Own(left[i].provenance) \cup UNION { truth[v] : v \in left[i].dependsOn }
      BY <3>2 DEF RecordsTrue
    <3> QED BY <1>1, <3>3 DEF Own
  <2> QED BY <2>1 DEF RecordsTrue
<1> QED BY <1>1, <1>7, <1>11, <1>13, NoCallIsClosed


\* A field that a resolved plan admits for a parameter, out of an accepted answer, has a value of
\* the field's enumeration or one of its pinned identifiers.
LEMMA AdmittedField ==
    ASSUME AnswersAccepted, Resolvable(plan),
           NEW i \in DOMAIN plan, NEW k \in DOMAIN plan[i].tools, NEW a \in plan[i].tools[k].admissions,
           Genuine(outputs, <<"quarantine-field", a.step, a.field>>)
    PROVE  \E j \in DOMAIN plan : \E f \in DOMAIN Fields(plan[j]) :
               /\ plan[j].id = a.step /\ Fields(plan[j])[f].name = a.field
               /\ j < i /\ plan[j].role = "quarantine"
               /\ Pinned(outputs, a.step, Fields(plan[j])[f])
<1>1. plan \in Seq({ plan[n] : n \in DOMAIN plan })
  BY PlanAssumption DEF AnswersAccepted
<1>2. Len(plan) \in Nat /\ DOMAIN plan = 1 .. Len(plan)
  BY <1>1
<1>3. Distinct(plan, Identified) /\ AdmissionResolved(plan, i, a)
  BY DEF Resolvable, StepResolved
<1>4. PICK j \in 1 .. (i - 1) :
          /\ plan[j].id = a.step /\ plan[j].role = "quarantine"
          /\ \E field \in FieldOf(plan[j], a.field) : field.kind \in AdmissibleKinds
  BY <1>3 DEF AdmissionResolved
<1>5. j \in DOMAIN plan /\ j < i
  BY <1>2
<1>6. PICK f \in DOMAIN Fields(plan[j]) :
          Fields(plan[j])[f].name = a.field /\ Fields(plan[j])[f].kind \in AdmissibleKinds
  BY <1>4 DEF FieldOf, FirstNamed
<1>7. a.step \in DOMAIN outputs /\ outputs[a.step] # NoOutput /\ outputs[a.step].status = "ok"
  BY DEF Genuine
<1>8. AnswerAccepted(plan, a.step, outputs[a.step])
  BY <1>7 DEF AnswersAccepted
<1>9. StepOf(plan, a.step) = plan[j] /\ a.step \in StepIds(plan)
  BY <1>1, <1>3, <1>4, <1>5, StepIsNamed DEF StepIds
<1>10. plan[j].output # NoOutput /\ Answered(plan[j].output, outputs[a.step])
  BY <1>7, <1>8, <1>9 DEF AnswerAccepted, Failed
<1>11. Fields(plan[j]) = plan[j].output.fields
  BY <1>10 DEF Fields
<1> DEFINE field == Fields(plan[j])[f]
           value == outputs[a.step].values[a.field]
<1>12. value \in Vocabulary(field)
  BY <1>6, <1>10, <1>11 DEF Answered
<1>13. field.kind = "enum" \/ field.kind = "identifier"
  BY <1>6 DEF AdmissibleKinds
<1>14. Pinned(outputs, a.step, field)
  <2>1. field.name = a.field
    BY <1>6
  <2> HIDE DEF field
  <2> QED BY <1>12, <1>13, <2>1 DEF Vocabulary, Pinned
<1> QED BY <1>4, <1>5, <1>6, <1>14

LEMMA CallKeeps ==
    ASSUME QuarantineInv, NEW call, Call(call)
    PROVE  QuarantineInv'
<1> USE DEF QuarantineInv
<1> DEFINE Roots(parameter) == {call.arguments[parameter]} \cup call.control
<1>1. /\ CallAdmitted(call)
      /\ admitted' = [ step |-> call.step, tool |-> call.tool,
                       reached |-> [ p \in DOMAIN call.arguments |-> UNION { truth[v] : v \in Roots(p) } ] ]
      /\ plan' = plan /\ outputs' = outputs /\ tracked' = tracked /\ truth' = truth
  BY DEF Call
<1>2. AnswersAccepted' /\ RecordsOrdered' /\ RecordsTrue'
  BY <1>1 DEF AnswersAccepted, RecordsOrdered, RecordsTrue, IsLast
<1>3. plan \in Seq({ plan[n] : n \in DOMAIN plan })
  BY PlanAssumption DEF AnswersAccepted
<1>4. Resolvable(plan) /\ Distinct(plan, Identified) /\ call.step \in StepIds(plan)
  BY <1>1 DEF CallAdmitted, Resolvable
<1>5. PICK i \in DOMAIN plan : plan[i].id = call.step
  BY <1>4 DEF StepIds
<1>6. StepOf(plan, call.step) = plan[i]
  BY <1>3, <1>4, <1>5, StepIsNamed
<1>7. PICK k \in DOMAIN plan[i].tools :
          /\ plan[i].tools[k].name = call.tool
          /\ \A parameter \in DOMAIN call.arguments :
                \A v \in DependencyClosure(Roots(parameter)) : Admits(plan[i].tools[k], parameter, v)
  BY <1>1, <1>6 DEF CallAdmitted, FirstNamed
<1>8. admitted'.step = call.step /\ admitted'.tool = call.tool
  BY <1>1
<1>9. ASSUME NEW parameter \in DOMAIN admitted'.reached, NEW source \in admitted'.reached[parameter]
      PROVE  Through(plan, outputs, admitted', parameter, source)
  <2>1. parameter \in DOMAIN call.arguments /\ \E v \in Roots(parameter) : source \in truth[v]
    BY <1>1, <1>9
  <2> DEFINE roots == Roots(parameter)
             tool == plan[i].tools[k]
  <2>2. \A v \in DependencyClosure(roots) : Admits(tool, parameter, v)
    BY <1>7, <2>1
  <2> HIDE DEF roots, tool
  <2>3. \A v \in roots : \A x \in truth[v] : \E a \in tool.admissions :
            /\ a.parameter = parameter
            /\ x = <<a.step, a.field>>
            /\ Genuine(outputs, <<"quarantine-field", a.step, a.field>>)
    BY <2>2, CarriedIsAdmitted
  <2>4. PICK a \in plan[i].tools[k].admissions :
            /\ a.parameter = parameter
            /\ source = <<a.step, a.field>>
            /\ Genuine(outputs, <<"quarantine-field", a.step, a.field>>)
    BY <2>1, <2>3 DEF roots, tool
  <2>5. a = [ parameter |-> a.parameter, step |-> a.step, field |-> a.field ]
    BY PlanAssumption DEF AnswersAccepted
  <2>6. PICK j \in DOMAIN plan : \E f \in DOMAIN Fields(plan[j]) :
            /\ plan[j].id = a.step /\ Fields(plan[j])[f].name = a.field
            /\ j < i /\ plan[j].role = "quarantine"
            /\ Pinned(outputs, a.step, Fields(plan[j])[f])
    BY <1>4, <2>4, AdmittedField
  <2>7. PICK f \in DOMAIN Fields(plan[j]) :
            /\ plan[j].id = a.step /\ Fields(plan[j])[f].name = a.field
            /\ j < i /\ plan[j].role = "quarantine"
            /\ Pinned(outputs, a.step, Fields(plan[j])[f])
    BY <2>6
  <2>8. [ parameter |-> parameter, step |-> plan[j].id, field |-> Fields(plan[j])[f].name ] \in plan[i].tools[k].admissions
    BY <2>4, <2>5, <2>7
  <2>9. /\ plan[i].id = admitted'.step /\ plan[i].tools[k].name = admitted'.tool
        /\ source = <<plan[j].id, Fields(plan[j])[f].name>>
    BY <1>5, <1>7, <1>8, <2>4, <2>7
  <2> QED BY <2>7, <2>8, <2>9 DEF Through
<1>10. AdmittedArgumentsClosed'
  BY <1>1, <1>9, ClosedIsThrough
<1> QED BY <1>2, <1>10

\* What a harness keeps stays in step with what it did: the answers it took are accepted ones, its
\* records name values there are and point back in the order they were made, the last record of a
\* value tells all that went into it, and no admitted call was reached by anything else.
THEOREM QuarantineInvariant == PlanSpec => []QuarantineInv
<1>1. PlanInit => QuarantineInv
  BY QuarantineStarts
<1>2. QuarantineInv /\ [PlanNext]_planVars => QuarantineInv'
  <2> SUFFICES ASSUME QuarantineInv, [PlanNext]_planVars PROVE QuarantineInv'
    OBVIOUS
  <2>1. ASSUME NEW id \in ValueId, TakeTrusted(id) PROVE QuarantineInv'
    <3> DEFINE provenance == <<"trusted-request">>
               none == {}
    <3>1. Track(id, provenance, none, none) /\ Genuine(outputs, provenance)
      BY <2>1 DEF TakeTrusted, Genuine
    <3>2. none \subseteq DOMAIN truth /\ id \notin none
          /\ none \subseteq Own(provenance) \cup UNION { truth[v] : v \in none }
      OBVIOUS
    <3> HIDE DEF provenance, none
    <3> QED BY <3>1, <3>2, TrackKeeps
  <2>2. ASSUME NEW id \in ValueId, ReadContent(id) PROVE QuarantineInv'
    <3> DEFINE provenance == <<"untrusted-content">>
               none == {}
               sources == {Content}
    <3>1. Track(id, provenance, none, sources) /\ Genuine(outputs, provenance)
      BY <2>2 DEF ReadContent, Genuine
    <3>2. none \subseteq DOMAIN truth /\ id \notin none /\ Own(provenance) = sources
      BY DEF Own
    <3>3. sources \subseteq Own(provenance) \cup UNION { truth[v] : v \in none }
      BY <3>2
    <3> HIDE DEF provenance, none, sources
    <3> QED BY <3>1, <3>2, <3>3, TrackKeeps
  <2>3. ASSUME NEW id \in ValueId, NEW step \in DOMAIN outputs, NEW field, TakeField(id, step, field) PROVE QuarantineInv'
    <3> DEFINE provenance == <<"quarantine-field", step, field>>
               none == {}
               sources == { <<step, field>> }
    <3>1. Track(id, provenance, none, sources) /\ Genuine(outputs, provenance)
      BY <2>3 DEF TakeField, Genuine
    <3>2. none \subseteq DOMAIN truth /\ id \notin none /\ Own(provenance) = sources
      BY DEF Own
    <3>3. sources \subseteq Own(provenance) \cup UNION { truth[v] : v \in none }
      BY <3>2
    <3> HIDE DEF provenance, none, sources
    <3> QED BY <3>1, <3>2, <3>3, TrackKeeps
  <2>4. ASSUME NEW id \in ValueId, NEW parents \in SUBSET DOMAIN truth, Compute(id, parents) PROVE QuarantineInv'
    <3> DEFINE provenance == <<"trusted-request">>
               sources == UNION { truth[v] : v \in parents }
    <3>1. Track(id, provenance, parents, sources) /\ Genuine(outputs, provenance) /\ id \notin parents
      BY <2>4 DEF Compute, Genuine
    <3>2. sources \subseteq Own(provenance) \cup UNION { truth[v] : v \in parents }
      OBVIOUS
    <3> HIDE DEF provenance, sources
    <3> QED BY <3>1, <3>2, TrackKeeps
  <2>5. CASE UNCHANGED planVars
    <3>1. /\ plan' = plan /\ outputs' = outputs /\ tracked' = tracked
          /\ truth' = truth /\ admitted' = admitted
      BY <2>5 DEF planVars
    <3>2. AnswersAccepted' /\ RecordsOrdered'
      BY <3>1 DEF QuarantineInv, AnswersAccepted, RecordsOrdered
    <3>3. RecordsTrue'
      BY <3>1 DEF QuarantineInv, RecordsTrue, IsLast
    <3>4. AdmittedArgumentsClosed'
      BY <3>1, ClosedIsThrough DEF QuarantineInv
    <3> QED BY <3>2, <3>3, <3>4 DEF QuarantineInv
  <2> QED BY <2>1, <2>2, <2>3, <2>4, <2>5, LoseKeeps, AskKeeps, CallKeeps DEF PlanNext
<1> QED BY <1>1, <1>2, PTL DEF PlanSpec

\* Whatever a harness retries, loses or is answered, nothing of the untrusted content reaches a
\* parameter of an admitted call but through the fields that the plan names for it, of accepted
\* answers of earlier quarantined steps, each an enumeration or a pinned identifier
\* (evaluateArgumentCall over planV4ResolutionFailures and evaluateQuarantineOutput).
THEOREM ArgumentsClosed == PlanSpec => []AdmittedArgumentsClosed
BY QuarantineInvariant, PTL DEF QuarantineInv

==============================================================================
