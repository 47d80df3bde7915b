\* Two organizations and keys, packings of up to three vectors, two media, one
\* rule over two destinations.
SPECIFICATION Spec
SYMMETRY Names
CONSTANTS
    Organizations = {o1, o2}
    KeyIds = {k1, k2}
    Paths = {p1}
    MaxTime = 2
    MaxSigned = 1
    MaxPublished = 3
    Widths = {1, 3}
    Budget = 6
    EntryHeader = 3
    PartHeader = 2
    NameWidth = 1
    MaxVectors = 3
    MaxEdits = 2
    Media = {1, 2}
    MaxInstant = 1
    MaxChanges = 2
    MaxFiles = 3
    MaxTotal = 4
    Ids = {i1, i2}
    MaxRules = 1
    MaxDestinations = 2
    MaxRevisions = 3
INVARIANT ValidMeansIssued
INVARIANT GenuineStaysValid
INVARIANT VerifiersAgree
INVARIANT PackingComplete
INVARIANT NothingLeftOut
INVARIANT ExportAsReviewed
INVARIANT DenialsBite
\* Edits, identities and clocks are bounded, and a verdict ends its scenario.
CHECK_DEADLOCK FALSE
