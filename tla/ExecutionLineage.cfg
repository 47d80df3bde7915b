\* Two generations, attempts and leases that are overtaken; transfers issued
\* carelessly, or on a closed inventory only.  Two workers that fork the chain
\* of events, two counters, every kind of wrong field.
CONSTANTS
    TransferId = {t1, t2}
    Plan = {p1}
    Emission = {m1, m2}
    Request = {q1, q2}
    Reported = {"reserved", "not-committed-final", "state-unknown"}
    None = None
    MaxGeneration = 2
    MaxAttempt = 3
    MaxFencing = 2
    Worker = {w1, w2}
    Authority = {a1, a2}
    c1 = c1
    c2 = c2
    Counter <- BothCounters
    Delta <- Deltas
    Faults <- AllFaults
    MaxLength = 3
    MaxTry = 2
    MaxSent = 3
SPECIFICATION MCSpec
SYMMETRY Interchangeable
INVARIANT GenerationsDoNotOverlap
INVARIANT LineageOneShot
INVARIANT SuccessorFindsSettled
INVARIANT ChainSound
INVARIANT TotalsAccounted
