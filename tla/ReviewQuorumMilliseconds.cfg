\* Instants are half milliseconds: the evaluator sees whole ones only.
CONSTANTS
    a = a
    b = b
    c = c
    east = east
    west = west
    Agent <- Agents
    Provider <- Providers
    Nonce = {n1, n2}
    Evidence = {e1}
    Boundary = {p}
    Requirements = {"provider"}
    Defects = {"signature-invalid"}
    Resolution = 2
    Ahead = {0, 1}
    Lifetime = {2}
    MaxVersion = 1
    MaxReviews = 2
    MaxTime = 2
SPECIFICATION Spec
SYMMETRY Interchangeable
CHECK_DEADLOCK FALSE
INVARIANT InTime
