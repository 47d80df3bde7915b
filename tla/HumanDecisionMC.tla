--------------------------- MODULE HumanDecisionMC ---------------------------
(* A graph with one decision step, and requests that bend its policy.       *)
EXTENDS HumanDecision, TLC

CONSTANTS a1, a2, i1, i2

Partial  == [ approve |-> "approved" ]
Inverted == [ approve |-> "rejected", reject |-> "approved" ]
Offered  == [ approve |-> "approved", reject |-> "rejected" ]

SmallGraph ==
    [ digest |-> "g", organization |-> "o",
      steps |-> [ calculate |-> [ kind |-> "calculation" ],
                  decide |-> [ kind |-> "human-decision",
                               policy |-> [ choices |-> Offered,
                                            noResponse |-> "rejected",
                                            requiredRole |-> "approver" ] ] ] ]

SmallProposals ==
    { [ graphDigest |-> "g", organization |-> "o", step |-> "decide",
        choices |-> c, noResponse |-> n, requiredRole |-> l ] :
        c \in {Offered, Inverted, Partial}, n \in {"rejected", "approved"},
        l \in {"approver", "viewer"} }
    \cup { [ graphDigest |-> d, organization |-> o, step |-> s,
             choices |-> Inverted, noResponse |-> "rejected",
             requiredRole |-> "viewer" ] :
             d \in {"g", "h"}, o \in {"o", "p"}, s \in {"decide", "calculate", "other"} }

Interchangeable == Permutations({a1, a2}) \cup Permutations({i1, i2})
==============================================================================
