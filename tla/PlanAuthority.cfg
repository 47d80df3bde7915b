\* Two clerks, one upset, one lost record, two losses of the store.
SPECIFICATION Spec
SYMMETRY Names
CONSTANTS
    Body <- MCBody
    Contributors <- MCContributors
    Registry <- MCRegistry
    Receipt <- MCReceipts
    Handoff <- MCHandoffs
    Clerk = {c1, c2}
    Nobody = Nobody
    MaxTime = 2
    MaxUpsets = 1
    ExecutionPlan <- MCPlans
    Answer <- MCAnswers
    Referential <- MCReferential
    ValueId = {"v1", "v2"}
    NoOutput = NoOutput
    Content = Content
    MaxRecords = 3
    MaxLosses = 1
    MissionId = {"m1"}
    Draft <- MCDrafts
    Profile <- MCProfiles
    Quorum = {"q1", "q2"}
    NoPlan = NoPlan
    MaxRevision = 2
    MaxPlans = 2
    MaxIssued = 2
    Package = {"a", "b"}
    Prerequisite = {"deletions", "digests", "authorities"}
    Replay = "deletions"
    Ceiling = 2
    Offline = Offline
    MaxDay = 3
    MaxBackups = 2
    MaxLossesOfStore = 2
INVARIANT AppendKeepsVerifiable
INVARIANT OneDocumentPerHandoff
INVARIANT OneExecutionPerRevision
INVARIANT CriteriaFollowTheBrief
INVARIANT AdmittedArgumentsClosed
INVARIANT ErasureIsFinal
PROPERTY PlannedUnderCurrentAuthority
\* Edits, identities and clocks are bounded, and a verdict ends its scenario.
CHECK_DEADLOCK FALSE
