\* Two attempts, two requests and two responses.
CONSTANTS
    a1 = a1
    a2 = a2
    i1 = i1
    i2 = i2
    Graph <- SmallGraph
    Attempts = {a1, a2}
    Proposals <- SmallProposals
    ResponseIds = {i1, i2}
    Choices = {"approve", "reject", "unlisted"}
    RoleSets = {{"viewer"}, {"approver"}}
    Revisions = {1, 2}
    MaxRequests = 2
    MaxResponses = 2
    Window = 2
    MaxTime = 3
    None = None
SPECIFICATION Spec
INVARIANT DecisionSound
PROPERTY OutcomeOnce
SYMMETRY Interchangeable
\* Requests, responses and time are bounded.
CHECK_DEADLOCK FALSE
