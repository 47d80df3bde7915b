--------------------------- MODULE BriefAdmission ---------------------------
(***************************************************************************)
(* An accepted build brief, from its signed acceptances to the missions    *)
(* planned on it: verifyBuildBriefCandidate, the append and archive-use    *)
(* kinds of evaluateBriefStorage, and deriveMissionBinding.  The owners of *)
(* the package and of the missions are external: clerks append receipts,   *)
(* and planners read the package, then commit what they derived from it,   *)
(* while keys are revoked, memberships change and proofs are lost.         *)
(*                                                                         *)
(* A digest is what it was computed from: two are equal when their         *)
(* preimages are.                                                          *)
(***************************************************************************)
EXTENDS Integers, Sequences, Functions

CONSTANTS
    Body,           \* the content of the package: its contributors and its criteria, in order
    Contributors,   \* the contributors proven independently of the package
    Registry,       \* the acceptance keys: approver, membership revision, validity
    Receipt,        \* the signed acceptances that may be handed in
    Handoff,        \* the handoffs that may be produced
    Clerk,          \* who appends receipts
    Nobody,         \* no request, or no archived handoff
    MaxTime,        \* bound: the last moment
    MaxUpsets       \* bound: revocations, membership changes and lost proofs

ASSUME BriefAssumption ==
    /\ MaxTime \in Nat
    /\ \A r \in Receipt : r.acceptedAt \in Nat
    /\ Nobody \notin Handoff

VARIABLES
    now,            \* trusted time
    accepted,       \* the receipts of the stored package, in order
    proofs,         \* the receipts whose historical proof is stored
    storeRevision,  \* the revision of the stored package
    archive,        \* the archived handoff under each handoff identity
    revoked,        \* the keys revoked by now
    membership,     \* the planner's current membership revision
    upsets,         \* how many revocations, changes and losses happened
    requests,       \* the append each clerk has prepared
    reading,        \* what the planner has read
    bindings        \* the bindings of the missions planned so far

briefVars == <<now, accepted, proofs, storeRevision, archive, revoked, membership, upsets, requests, reading, bindings>>

------------------------------------------------------------------------------
(* verifyBuildBriefCandidate *)

SameSet(a, b) == IsInjective(a) /\ IsInjective(b) /\ Range(a) = Range(b)

\* One acceptance of a body, judged at a moment.
ReceiptHolds(r, body, at) ==
    /\ r.body = body
    /\ r.acceptedAt <= at
    /\ r.approver \notin Range(body.contributors)
    /\ r.key \in DOMAIN Registry \ revoked
    /\ Registry[r.key].approver = r.approver
    /\ Registry[r.key].revision = r.revision
    /\ Registry[r.key].from <= r.acceptedAt /\ r.acceptedAt < Registry[r.key].until
    /\ r.signed

\* Every receipt handed over must hold, and no statement may come twice.
PackageHolds(body, receipts, at) ==
    /\ receipts # << >>
    /\ SameSet(body.contributors, Contributors)
    /\ IsInjective(body.criteria)
    /\ IsInjective([ i \in DOMAIN receipts |-> receipts[i].id ])
    /\ \A i \in DOMAIN receipts : ReceiptHolds(receipts[i], body, at)

HandoffHolds(h, body, receipts, at) ==
    /\ h.body = body
    /\ SameSet(h.criteria, body.criteria)
    /\ h.receipt \in Range(receipts)
    /\ h.receipt.acceptedAt <= h.createdAt /\ h.createdAt <= at
    /\ at < h.expiresAt /\ h.createdAt < h.expiresAt

------------------------------------------------------------------------------
(* evaluateBriefStorage: the kinds append and archive-use *)

\* What a receipt is to the receipts already stored.
ReceiptState(r, receipts) ==
    IF r \in Range(receipts) THEN "identical"
    ELSE IF \E s \in Range(receipts) : s.id = r.id THEN "conflicting" ELSE "new"

\* Mutated: the expected revision is not compared.
AppendDecisionUncompared(request) ==
    IF ~PackageHolds(Body, IF request.receiptState = "identical" THEN request.receipts ELSE Append(request.receipts, request.receipt), now) THEN "deny"
    ELSE IF request.receiptState = "new" THEN "append" ELSE "deny"

\* The evidence holds when the whole package verifies with the receipt in it; an
\* append leaves the release anchors of the package alone.
AppendDecision(request) ==
    IF \/ ~PackageHolds(Body, IF request.receiptState = "identical" THEN request.receipts ELSE Append(request.receipts, request.receipt), now)
       \/ request.expectedRevision # storeRevision
    THEN "deny"
    ELSE CASE request.receiptState = "identical" -> "idempotent"
           [] request.receiptState = "new" -> "append"
           [] OTHER -> "deny"

ArchiveDecision(purpose, h) ==
    CASE purpose = "audit" -> "read-archive"
      [] purpose = "plan" /\ now < h.expiresAt -> "plan"
      [] OTHER -> "deny"

------------------------------------------------------------------------------
(* deriveMissionBinding, over what the planner read and what holds by now *)

BindingOf(h) == [ handoff |-> h, archived |-> archive[h.id], body |-> Body, receipt |-> h.receipt, criteria |-> Body.criteria ]

\* Mutated: the membership of the read is taken for the current one.
AuthorityCurrentAsRead(r) == r.storeRevision = storeRevision

\* The planner's authority and the source are still those it read.
AuthorityCurrent(r) == r.membership = membership /\ r.storeRevision = storeRevision

\* The proofs at hand are exactly those of the package's receipts.
ProofsComplete(r) == proofs = Range(r.receipts)

\* Mutated: the archived bytes are not compared.
BindingDerivedUnarchived(r) ==
    /\ PackageHolds(Body, r.receipts, now) /\ HandoffHolds(r.handoff, Body, r.receipts, now)
    /\ AuthorityCurrent(r) /\ ProofsComplete(r)

BindingDerived(r) ==
    /\ PackageHolds(Body, r.receipts, now)
    /\ HandoffHolds(r.handoff, Body, r.receipts, now)
    /\ AuthorityCurrent(r)
    /\ ProofsComplete(r)
    /\ archive[r.handoff.id] = r.handoff

------------------------------------------------------------------------------
(* The owners' steps *)

BriefInit ==
    /\ now = 0
    /\ accepted = << >>
    /\ proofs = {}
    /\ storeRevision = 1
    /\ archive = [ id \in { h.id : h \in Handoff } |-> Nobody ]
    /\ revoked = {}
    /\ membership = 1
    /\ upsets = 0
    /\ requests = [ c \in Clerk |-> Nobody ]
    /\ reading = Nobody
    /\ bindings = {}

\* A clerk verifies a receipt against the package it reads, and prepares the append.
PrepareAppend(c, r) ==
    /\ requests[c] = Nobody
    /\ requests' = [requests EXCEPT ![c] = [ receipt |-> r, receipts |-> accepted, expectedRevision |-> storeRevision,
                                             receiptState |-> ReceiptState(r, accepted) ]]
    /\ UNCHANGED <<now, accepted, proofs, storeRevision, archive, revoked, membership, upsets, reading, bindings>>

\* The transaction: the receipt and its proof are stored together, or nothing is.
CommitAppend(c) ==
    /\ requests[c] # Nobody
    /\ requests' = [requests EXCEPT ![c] = Nobody]
    /\ IF AppendDecision(requests[c]) = "append"
       THEN /\ accepted' = Append(accepted, requests[c].receipt)
            /\ proofs' = proofs \cup {requests[c].receipt}
            /\ storeRevision' = storeRevision + 1
       ELSE UNCHANGED <<accepted, proofs, storeRevision>>
    /\ UNCHANGED <<now, archive, revoked, membership, upsets, reading, bindings>>

\* A produced handoff is archived once under its identity.
ArchiveHandoff(h) ==
    /\ archive[h.id] = Nobody
    /\ h.createdAt <= now
    /\ archive' = [archive EXCEPT ![h.id] = h]
    /\ UNCHANGED <<now, accepted, proofs, storeRevision, revoked, membership, upsets, requests, reading, bindings>>

\* A planner reads the package and a handoff, from its producer or from the archive.
ReadForPlan(h) ==
    /\ reading = Nobody
    /\ h.createdAt <= now
    /\ archive[h.id] = h => ArchiveDecision("plan", h) = "plan"
    /\ reading' = [ handoff |-> h, receipts |-> accepted, membership |-> membership, storeRevision |-> storeRevision ]
    /\ UNCHANGED <<now, accepted, proofs, storeRevision, archive, revoked, membership, upsets, requests, bindings>>

\* It derives the binding and commits it, under the revisions of that moment, or gives up.
PlanMission ==
    /\ reading # Nobody
    /\ reading' = Nobody
    /\ bindings' = IF BindingDerived(reading) THEN bindings \cup {BindingOf(reading.handoff)} ELSE bindings
    /\ UNCHANGED <<now, accepted, proofs, storeRevision, archive, revoked, membership, upsets, requests>>

Tick ==
    /\ now < MaxTime
    /\ now' = now + 1
    /\ UNCHANGED <<accepted, proofs, storeRevision, archive, revoked, membership, upsets, requests, reading, bindings>>

RevokeKey(k) ==
    /\ upsets < MaxUpsets
    /\ upsets' = upsets + 1
    /\ k \notin revoked
    /\ revoked' = revoked \cup {k}
    /\ UNCHANGED <<now, accepted, proofs, storeRevision, archive, membership, requests, reading, bindings>>

ChangeMembership ==
    /\ upsets < MaxUpsets
    /\ upsets' = upsets + 1
    /\ membership' = membership + 1
    /\ UNCHANGED <<now, accepted, proofs, storeRevision, archive, revoked, requests, reading, bindings>>

LoseProof(r) ==
    /\ upsets < MaxUpsets
    /\ upsets' = upsets + 1
    /\ r \in proofs
    /\ proofs' = proofs \ {r}
    /\ UNCHANGED <<now, accepted, storeRevision, archive, revoked, membership, requests, reading, bindings>>

BriefNext ==
    \/ \E c \in Clerk : CommitAppend(c) \/ \E r \in Receipt : PrepareAppend(c, r)
    \/ \E h \in Handoff : ArchiveHandoff(h) \/ ReadForPlan(h)
    \/ PlanMission
    \/ Tick
    \/ \E k \in DOMAIN Registry : RevokeKey(k)
    \/ ChangeMembership
    \/ \E r \in Receipt : LoseProof(r)

------------------------------------------------------------------------------
(* Properties *)

\* What was appended stays verifiable: as long as no key is revoked, the stored package verifies at
\* any later time, however many clerks append to it at once (the compare-and-set of the append
\* kind, over verifyBuildBriefCandidate, which one bad receipt makes refuse the whole package).
AppendKeepsVerifiable ==
    (accepted # << >> /\ revoked = {}) => PackageHolds(Body, accepted, now)

\* An identity names one document: two missions planned on handoffs of the same identity were
\* planned on the same bytes (the archive digest that deriveMissionBinding compares).
OneDocumentPerHandoff ==
    \A a, b \in bindings : a.handoff.id = b.handoff.id => a = b

\* A mission is planned only while its planner is the member it was when it read, on receipts
\* whose keys are all unrevoked and whose proofs are all there, from an unexpired handoff that one
\* of those receipts stands behind (deriveMissionBinding, read and committed at different moments).
PlannedUnderCurrentAuthority ==
    [][ \A b \in bindings' \ bindings :
            /\ reading.membership = membership
            /\ b.receipt \in Range(accepted)
            /\ \A r \in Range(accepted) : r.key \notin revoked /\ r \in proofs /\ r.approver \notin Range(Contributors)
            /\ now < b.handoff.expiresAt ]_briefVars
==============================================================================
