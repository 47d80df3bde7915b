-------------------------- MODULE ArchiveProtection --------------------------
(***************************************************************************)
(* What the reference lifecycle promises, without rows, evidence or        *)
(* messages: an archived handoff is held from before its mission can go    *)
(* live until after that mission is closed for good, and a hold that was   *)
(* let go never comes back.                                                *)
(***************************************************************************)
CONSTANT Identity   \* the reference identities

VARIABLES
    protection,   \* "none", "held" or "let-go", for each reference
    usage         \* "open" (may still go live), "live" or "closed"

vars == <<protection, usage>>

TypeOK ==
    /\ protection \in [Identity -> {"none", "held", "let-go"}]
    /\ usage \in [Identity -> {"open", "live", "closed"}]

Init ==
    /\ protection = [r \in Identity |-> "none"]
    /\ usage = [r \in Identity |-> "open"]

Hold(r) ==
    /\ protection[r] = "none"
    /\ protection' = [protection EXCEPT ![r] = "held"]
    /\ UNCHANGED usage

GoLive(r) ==
    /\ usage[r] = "open"
    /\ protection[r] = "held"
    /\ usage' = [usage EXCEPT ![r] = "live"]
    /\ UNCHANGED protection

\* The mission owner comes back from a backup older than the commit.
Forget(r) ==
    /\ usage[r] = "live"
    /\ usage' = [usage EXCEPT ![r] = "open"]
    /\ UNCHANGED protection

Close(r) ==
    /\ usage[r] # "closed"
    /\ usage' = [usage EXCEPT ![r] = "closed"]
    /\ UNCHANGED protection

LetGo(r) ==
    /\ protection[r] = "held"
    /\ usage[r] = "closed"
    /\ protection' = [protection EXCEPT ![r] = "let-go"]
    /\ UNCHANGED usage

Next == \E r \in Identity :
            Hold(r) \/ GoLive(r) \/ Forget(r) \/ Close(r) \/ LetGo(r)

Spec == Init /\ [][Next]_vars
==============================================================================
