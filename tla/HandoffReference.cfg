\* Two references that can be confused with each other, two evidence digests,
\* and every admissible and malformed input of the two oracles; liveness under
\* the reconciliation worker's fairness, so no symmetry.
CONSTANTS
    Identity = {r1, r2}
    Evidence = {e1, e2}
    NoEvidence = NoEvidence
    ForeignIdentity = ForeignIdentity
    Malformed = Malformed
SPECIFICATION MCSpec
INVARIANT OraclesAgree
INVARIANT LiveMissionProtected
INVARIANT HistorySound
PROPERTY PromiseKept
PROPERTY OrphanReleased
PROPERTY LostConfirmationRecovered
\* One call is evaluated and that scenario ends.
CHECK_DEADLOCK FALSE
