\* Three agents on two providers edit and review two versions; a boundary
\* crashes and collects the same reviews again.
CONSTANTS
    a = a
    b = b
    c = c
    east = east
    west = west
    Agent <- Agents
    Provider <- Providers
    Nonce = {n1, n2}
    Evidence = {e1}
    Boundary = {p}
    Requirements = {"provider"}
    Defects = {}
    Resolution = 1
    Ahead = {0}
    Lifetime = {1}
    MaxVersion = 2
    MaxReviews = 2
    MaxTime = 1
SPECIFICATION Spec
INVARIANT QuorumSound
SYMMETRY Interchangeable
\* Versions, reviews and time are bounded, and a claimed nonce is never free again.
CHECK_DEADLOCK FALSE
