\* Every graph of three steps and four edges over two outcomes.
CONSTANTS
    StepLists <- SmallStepLists
    EdgeLists <- SmallEdgeLists
    Entries = {"s1"}
    Plans <- SmallPlans
    RetryLimit = 2
    Nothing = Nothing
    MaxSteps = 3
SPECIFICATION FairSpec
INVARIANT RunSound
PROPERTY RunEnds
\* A refused graph and a finished run have no further step.
CHECK_DEADLOCK FALSE
