-------------------------- MODULE ReferenceDecision --------------------------
(***************************************************************************)
(* The two lifecycle oracles for a durable handoff reference.  Missions    *)
(* asks referenceDecision (tools/quality/missions-v3.ts), Specifications   *)
(* asks evaluateBriefStorage for kind "reference"                          *)
(* (tools/quality/build-brief-storage-v1.ts).  They were written           *)
(* separately and must answer alike.                                       *)
(*                                                                         *)
(* An identity is the complete tuple (organization, mission, binding,      *)
(* archive, handoff digest, reference id) as one value; an evidence digest *)
(* is a value of Evidence, a malformed one any other value.                *)
(***************************************************************************)
CONSTANTS
    Identity,   \* the well-formed identity tuples
    Evidence,   \* the well-formed SHA-256 digests of owner evidence
    NoEvidence  \* null

ASSUME NoEvidenceAssumption == NoEvidence \notin Evidence

ReferenceAction  == {"reserve", "confirm", "reconcile", "release"}
ReferenceState   == {"missing", "reserved", "confirmed", "released"}
FinalOutcome     == {"not-committed-final", "removed-final"}
MissionOutcome   == {"absent", "unknown", "committed"} \cup FinalOutcome

ASSUME NullIsNoOutcome == NoEvidence \notin MissionOutcome

------------------------------------------------------------------------------
(* missions-v3.ts *)

\* Mutant: the observed tuple is well formed but not compared.
IdentityAcceptedAny(expected, observed) ==
    expected \in Identity /\ observed \in Identity

\* Both tuples are well formed and they are the same tuple.
IdentityAccepted(expected, observed) ==
    expected \in Identity /\ observed = expected

\* A released row names a terminal outcome and its evidence, and a reference
\* that was confirmed was not released as never committed.  Any other row has
\* no release history and is marked confirmed exactly when it is.
HistoryConsistent(state, history) ==
    IF state = "released"
    THEN /\ history.releasedBy \in FinalOutcome
         /\ history.releaseEvidenceDigest \in Evidence
         /\ ~ (history.everConfirmed
               /\ history.releasedBy = "not-committed-final")
    ELSE /\ history.releasedBy = NoEvidence
         /\ history.releaseEvidenceDigest = NoEvidence
         /\ history.everConfirmed = (state = "confirmed")

\* An absent or unknown outcome carries no evidence; every other one does.
ObservationConsistent(mission) ==
    IF mission.outcome \in {"unknown", "absent"}
    THEN mission.evidenceDigest = NoEvidence
    ELSE mission.evidenceDigest \in Evidence

\* The answer to a repeated release is fixed by the terminal evidence.
ReleasedAnswer(action, mission, history) ==
    IF /\ action \in {"release", "reconcile"}
       /\ mission.outcome = history.releasedBy
       /\ mission.evidenceDigest = history.releaseEvidenceDigest
    THEN "already-released"
    ELSE "refuse"

ReserveAnswer(state, outcome) ==
    IF outcome = "committed" \/ (state = "reserved" /\ outcome = "absent")
    THEN "protect" ELSE "refuse"

\* Mutants: absence taken for the end; a final outcome kept; a commit not
\* recovered.
ReconcileAnswerImpatient(outcome) ==
    IF outcome = "committed" THEN "confirm" ELSE "release"

ReconcileAnswerHoarding(outcome) ==
    IF outcome = "committed" THEN "confirm" ELSE "protect"

ReconcileAnswerDeaf(outcome) ==
    IF outcome \in {"committed", "absent"} THEN "protect" ELSE "release"

ReconcileAnswer(outcome) ==
    CASE outcome = "committed" -> "confirm"
      [] outcome = "absent"    -> "protect"
      [] OTHER                 -> "release"

\* Mutant: a release is granted without a final outcome.
LiveAnswerAbandoning(action, state, outcome) ==
    CASE action = "reserve"   -> ReserveAnswer(state, outcome)
      [] action = "confirm"   -> IF outcome = "committed" THEN "confirm"
                                 ELSE "refuse"
      [] action = "reconcile" -> ReconcileAnswer(outcome)
      [] OTHER                -> IF outcome = "committed" THEN "refuse"
                                 ELSE "release"

\* The answer for a reserved or a confirmed row.
LiveAnswer(action, state, outcome) ==
    CASE action = "reserve"   -> ReserveAnswer(state, outcome)
      [] action = "confirm"   -> IF outcome = "committed" THEN "confirm"
                                 ELSE "refuse"
      [] action = "reconcile" -> ReconcileAnswer(outcome)
      [] OTHER                -> IF outcome \in FinalOutcome THEN "release"
                                 ELSE "refuse"

\* "Never committed" contradicts a recorded confirmation.
Contradicts(mission, history) ==
    history.everConfirmed /\ mission.outcome = "not-committed-final"

ReferenceDecision(action, state, mission, expected, observed, history) ==
    IF ~ /\ IdentityAccepted(expected, observed)
         /\ history.everConfirmed \in BOOLEAN
         /\ action \in ReferenceAction
         /\ state \in ReferenceState
         /\ mission.outcome \in MissionOutcome
         /\ HistoryConsistent(state, history)
         /\ ObservationConsistent(mission)
    THEN "refuse"
    ELSE IF state = "released"
    THEN ReleasedAnswer(action, mission, history)
    ELSE IF mission.outcome = "unknown"
    THEN "protect"
    ELSE IF Contradicts(mission, history)
    THEN "refuse"
    ELSE IF state = "missing"
    THEN IF action = "reserve" /\ mission.outcome = "absent"
         THEN "reserve" ELSE "refuse"
    ELSE LiveAnswer(action, state, mission.outcome)

------------------------------------------------------------------------------
(* build-brief-storage-v1.ts, kind "reference" *)

\* The table of decisions for a live row, as <<action, outcome, answer>>.
StorageTable ==
    { <<"confirm",   "committed",           "confirm">>,
      <<"reconcile", "absent",              "retain">>,
      <<"reconcile", "committed",           "confirm">>,
      <<"reconcile", "removed-final",       "release">>,
      <<"reconcile", "not-committed-final", "release">>,
      <<"release",   "removed-final",       "release">>,
      <<"release",   "not-committed-final", "release">>,
      <<"reserve",   "committed",           "retain">> }

\* Mutant: a live row may carry a confirmation it does not have.
StorageHistoryRefusedUnconfirmed(v) ==
    IF v.state # "released"
    THEN v.releasedBy # NoEvidence \/ v.releaseEvidenceDigest # NoEvidence
    ELSE \/ v.releaseEvidenceDigest \notin Evidence
         \/ v.releasedBy \notin FinalOutcome
         \/ v.everConfirmed /\ v.releasedBy = "not-committed-final"

StorageHistoryRefused(v) ==
    IF v.state # "released"
    THEN \/ v.releasedBy # NoEvidence
         \/ v.releaseEvidenceDigest # NoEvidence
         \/ v.everConfirmed # (v.state = "confirmed")
    ELSE \/ v.releaseEvidenceDigest \notin Evidence
         \/ v.releasedBy \notin {"removed-final", "not-committed-final"}
         \/ v.everConfirmed /\ v.releasedBy = "not-committed-final"

StorageEvidenceRefused(v) ==
    IF v.sourceOutcome = "absent" \/ v.sourceOutcome = "unknown"
    THEN v.sourceEvidenceDigest # NoEvidence
    ELSE v.sourceEvidenceDigest \notin Evidence

StorageReferenceDecision(v) ==
    IF \/ ~ v.identityMatches
       \/ ~ v.currentPermission
       \/ v.everConfirmed \notin BOOLEAN
       \/ v.state \notin ReferenceState
       \/ v.action \notin ReferenceAction
       \/ v.sourceOutcome \notin MissionOutcome
       \/ StorageHistoryRefused(v)
       \/ StorageEvidenceRefused(v)
    THEN "deny"
    ELSE IF v.state = "released"
    THEN IF /\ v.action \in {"release", "reconcile"}
            /\ v.sourceOutcome = v.releasedBy
            /\ v.sourceEvidenceDigest = v.releaseEvidenceDigest
         THEN "idempotent" ELSE "deny"
    ELSE IF v.sourceOutcome = "unknown"
    THEN "retain"
    ELSE IF v.everConfirmed /\ v.sourceOutcome = "not-committed-final"
    THEN "deny"
    ELSE IF v.state = "missing"
    THEN IF v.action = "reserve" /\ v.sourceOutcome = "absent"
         THEN "reserve" ELSE "deny"
    ELSE IF /\ v.action = "reserve"
            /\ v.state = "reserved"
            /\ v.sourceOutcome = "absent"
    THEN "retain"
    ELSE IF \E rule \in StorageTable :
               rule[1] = v.action /\ rule[2] = v.sourceOutcome
    THEN (CHOOSE rule \in StorageTable :
               rule[1] = v.action /\ rule[2] = v.sourceOutcome)[3]
    ELSE "deny"
==============================================================================
