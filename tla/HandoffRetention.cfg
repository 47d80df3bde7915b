\* One re-acquisition and one other package user; the clock passes two tails.
CONSTANTS
    Reference = {r1, r2}
    Consumer = {c1}
    Tail = 2
    MaxTime = 6
    NoTime = NoTime
SPECIFICATION FairRetentionSpec
INVARIANT PurgeSound
PROPERTY DueIsPurged
\* Time is bounded and every identity is used once.
CHECK_DEADLOCK FALSE
