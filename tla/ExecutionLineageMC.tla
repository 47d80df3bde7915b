-------------------------- MODULE ExecutionLineageMC --------------------------
(***************************************************************************)
(* One mission's execution in one of two scenarios, chosen at the start:   *)
(* the generations of its plan and the transfers between them, or the      *)
(* chain of events its workers send.  Identifiers are interchangeable.     *)
(***************************************************************************)
EXTENDS ExecutionLineage, EventChain, TLC

CONSTANTS c1, c2

BothCounters == {c1, c2}

\* One step costs either one unit of one counter or two of the other.
Deltas == { (c1 :> 1) @@ (c2 :> 0), (c1 :> 0) @@ (c2 :> 2) }

AllFaults == {"id", "authority", "sequence", "previousEventDigest", "attempt",
              "budgetTotal"}

Interchangeable ==
    Permutations(TransferId) \cup Permutations(Plan)
    \cup Permutations(Emission) \cup Permutations(Request)
    \cup Permutations(Worker) \cup Permutations(Authority)

------------------------------------------------------------------------------
VARIABLE scenario

mcVars == <<lineageVars, vars, scenario>>

\* Where no generation runs, one beginning stands for all.
MCInit ==
    /\ scenario \in {"lineage", "events"}
    /\ LineageInit
    /\ scenario = "events" => sealFirst /\ successor = CHOOSE p \in Plan : TRUE
    /\ Init

MCNext ==
    /\ UNCHANGED scenario
    /\ \/ scenario = "lineage" /\ LineageNext /\ UNCHANGED vars
       \/ scenario = "events" /\ Next /\ UNCHANGED lineageVars

MCSpec == MCInit /\ [][MCNext]_mcVars
==============================================================================
