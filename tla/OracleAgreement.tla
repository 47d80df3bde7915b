--------------------------- MODULE OracleAgreement ---------------------------
(***************************************************************************)
(* One call of the reference lifecycle put to both owners' oracles, over   *)
(* every combination of admissible and malformed inputs, as                *)
(* reference-reconciliation.test.ts does for a fixture matrix.             *)
(***************************************************************************)
EXTENDS ReferenceDecision

CONSTANTS
    ForeignIdentity,  \* a malformed tuple
    Malformed         \* a string that is neither a digest nor an outcome

VARIABLES
    call,            \* the inputs of one call
    missionsAnswer,  \* the answer of each oracle, "pending" before the call
    storageAnswer

agreementVars == <<call, missionsAnswer, storageAnswer>>

\* Every input the two functions can be handed; "archive" stands for any
\* action outside the closed set.
Calls ==
    [ action   : ReferenceAction \cup {"archive"},
      state    : ReferenceState,
      mission  : [ outcome : MissionOutcome,
                   evidenceDigest : Evidence \cup {NoEvidence, Malformed} ],
      expected : Identity,
      observed : Identity \cup {ForeignIdentity},
      history  : [ everConfirmed : BOOLEAN,
                   releasedBy : FinalOutcome \cup {NoEvidence, Malformed},
                   releaseEvidenceDigest : Evidence \cup {NoEvidence, Malformed} ] ]

\* The same call as the Specifications oracle is given it.
StorageCall(c) ==
    [ action |-> c.action, state |-> c.state,
      everConfirmed |-> c.history.everConfirmed,
      releasedBy |-> c.history.releasedBy,
      releaseEvidenceDigest |-> c.history.releaseEvidenceDigest,
      identityMatches |-> IdentityAccepted(c.expected, c.observed),
      currentPermission |-> TRUE,
      sourceOutcome |-> c.mission.outcome,
      sourceEvidenceDigest |-> c.mission.evidenceDigest ]

\* The correspondence of the two answer vocabularies (the test's
\* storageResult).
StorageResult ==
    [ answer \in {"reserve", "confirm", "protect", "release", "refuse", "already-released"} |->
        CASE answer = "protect"          -> "retain"
          [] answer = "refuse"           -> "deny"
          [] answer = "already-released" -> "idempotent"
          [] OTHER                       -> answer ]

AgreementInit ==
    /\ call \in Calls
    /\ missionsAnswer = "pending"
    /\ storageAnswer = "pending"

Evaluate ==
    /\ missionsAnswer = "pending"
    /\ missionsAnswer' = ReferenceDecision(call.action, call.state, call.mission,
                             call.expected, call.observed, call.history)
    /\ storageAnswer' = StorageReferenceDecision(StorageCall(call))
    /\ UNCHANGED call

AgreementSpec == AgreementInit /\ [][Evaluate]_agreementVars

------------------------------------------------------------------------------
(* Property *)

\* The two oracles answer alike on every input: a reference one owner would
\* release or confirm is never one the other refuses.
OraclesAgree ==
    missionsAnswer # "pending" => storageAnswer = StorageResult[missionsAnswer]
==============================================================================
