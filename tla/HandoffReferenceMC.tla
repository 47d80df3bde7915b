-------------------------- MODULE HandoffReferenceMC --------------------------
(***************************************************************************)
(* The reference lifecycle in one of two scenarios, chosen at the start:   *)
(* one call put to both owners' oracles, or the saga that runs the         *)
(* Missions oracle between the two owners.                                 *)
(***************************************************************************)
EXTENDS HandoffReference, OracleAgreement

VARIABLE scenario

mcVars == <<vars, agreementVars, scenario>>

NoCall == call = "none" /\ missionsAnswer = "pending" /\ storageAnswer = "pending"

MCInit ==
    /\ scenario \in {"oracles", "saga"}
    /\ Init
    /\ IF scenario = "oracles" THEN AgreementInit ELSE NoCall

MCNext ==
    /\ UNCHANGED scenario
    /\ \/ scenario = "oracles" /\ Evaluate /\ UNCHANGED vars
       \/ scenario = "saga" /\ Next /\ UNCHANGED agreementVars

\* The fairness of the saga's reconciliation worker.
MCFairness ==
    \A r \in Identity :
        /\ WF_mcVars(scenario = "saga" /\ Observe(r) /\ UNCHANGED <<agreementVars, scenario>>)
        /\ \A m \in Observations :
              WF_mcVars(/\ scenario = "saga" /\ <<r, m>> \in observed
                        /\ Handle("reconcile", r, r, m)
                        /\ UNCHANGED <<agreementVars, scenario>>)

MCSpec == MCInit /\ [][MCNext]_mcVars /\ MCFairness
==============================================================================
