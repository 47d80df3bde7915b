\* Two protected documents and four catalogs; the sound tree and every tree with
\* one document altered or missing; the shared definitions and one schema. The
\* copies are checked for liveness under their tools' fairness, so no symmetry.
SPECIFICATION Spec
CONSTANTS
    Evidence = {"approved", "rewritten"}
    Approved = "approved"
    Order <- MCOrder
    Baseline = "catalog"
    Bytes = {"base", "other", "matrix"}
    Protected <- MCProtected
    Absent = Absent
    Row <- MCRow
    RowsOf <- MCRowsOf
    Transitions = {"missions"}
    NoReview = "none"
    Additions = {"later", "more"}
    PinnedAdditions = "later"
    AdditionRows <- MCAdditionRows
    Catalogs <- MCCatalogs
    Registries <- MCRegistries
    ApprovedSource <- MCSource
    Contract = "missions"
    Nothing = Nothing
    MaxChanges = 2
    File <- MCFile
    Missing = Missing
    RootOf <- MCRootOf
    AppOf <- MCAppOf
    MajorOf <- MCMajorOf
    NoReviewAsked <- NoRev
    Common = "common"
    Fixtures = "fixtures"
    Inventories <- MCInventories
    Graph = "graph"
    Plan = "plan"
    GraphOf <- MCGraphOf
    Vectors = {"golden"}
    Limit <- MCLimit
    Approval <- MCApproved
    Replayed = {"replays"}
    DigestVectors = {"digests"}
    RetentionExpected <- Decided
    Backup = "backup"
    Authorities = "authorities"
    Adopted = "missions3"
    AdoptedSource <- MCAdoptedSource
    HistoricalMajors = {1, 2}
    Candidates = "candidates"
    LocalOperations <- MCLocal
    ClosedRefusals = {"missions3"}
    Callback <- MCCallback
    WorldMajor <- MCWorldMajor
    RequiredFacts = {"user", "time"}
    AllowFacts = {"user", "tenant"}
    CatalogFile = "catalog"
    Trees <- MCTrees
    Contents <- MCContents
    MaxEdits = 1
    Shared = "common"
    NoRef = NoRef
    Schema = {"common", "brief"}
    Document <- MCDocument
    Torn = Torn
    MaxRewrites = 2
    MaxCrashes = 1
INVARIANT LockHonoured
INVARIANT AdoptedAsReviewed
INVARIANT FixturesBite
INVARIANT NothingDangles
INVARIANT LanguagesAgree
PROPERTY CopyAsRead
PROPERTY DriftRepaired
\* Edits, identities and clocks are bounded, and a verdict ends its scenario.
CHECK_DEADLOCK FALSE
