-------------------------- MODULE PlanAuthorityMC --------------------------
(***************************************************************************)
(* A small instance of the way from an accepted brief to an isolated plan, *)
(* in one of four scenarios, chosen at the start: the admission of a brief *)
(* and its planning, the erasure and restore of packages, the authority    *)
(* of a plan over a mission planned on the brief, and a harness run.       *)
(***************************************************************************)
EXTENDS PlanAuthority, BriefArchive, TLC

------------------------------------------------------------------------------
(* The brief: two criteria, an author, two approvers *)

MCBody == [ contributors |-> << "author" >>, criteria |-> << "c1", "c2" >> ]
MCContributors == << "author" >>
Held(approver, revision, from, until) == [ approver |-> approver, revision |-> revision, from |-> from, until |-> until ]
MCRegistry == [ k1 |-> Held("ann", 1, 0, 2), k2 |-> Held("author", 1, 0, 3) ]
Signed(id, approver, key, at) ==
    [ id |-> id, body |-> MCBody, approver |-> approver, key |-> key, revision |-> 1, acceptedAt |-> at, signed |-> TRUE ]
First == Signed("s1", "ann", "k1", 0)
Second == Signed("s2", "ann", "k1", 1)
MCReceipts == { First, Second, Signed("s1", "ann", "k1", 1), Signed("s3", "author", "k2", 0) }
Produced(id, receipt, criteria, created, expires) ==
    [ id |-> id, body |-> MCBody, receipt |-> receipt, criteria |-> criteria, createdAt |-> created, expiresAt |-> expires ]
MCHandoffs ==
    { Produced("h1", First, << "c2", "c1" >>, 0, 2), Produced("h1", First, << "c1", "c2" >>, 1, 3),
      Produced("h2", Second, << "c1" >>, 1, 3) }

------------------------------------------------------------------------------
(* The plans *)

Field(name, kind) ==
    [ name |-> name, kind |-> kind, values |-> {"pay", "hold"}, referential |-> "accounts", minimum |-> 0, maximum |-> 1 ]
Admission(parameter, field) == [ parameter |-> parameter, step |-> "read", field |-> field ]
Input(kind, step) == [ id |-> "in", kind |-> kind, step |-> step ]
Read ==
    [ id |-> "read", role |-> "quarantine", tools |-> << >>, inputs |-> << Input("untrusted-content", "") >>,
      output |-> [ fields |-> << Field("verdict", "enum"), Field("account", "identifier"), Field("amount", "integer") >>,
                   failureCodes |-> {"unclear"} ] ]
Pay(admissions) ==
    [ id |-> "pay", role |-> "privileged", inputs |-> << Input("step-output", "read") >>, output |-> NoOutput,
      tools |-> << [ name |-> "transfer", admissions |-> admissions, parameters |-> { a.parameter : a \in admissions } ] >> ]
ToAccount == Admission("to", "account")
Isolated == << Read, Pay({ ToAccount, Admission("why", "verdict") }) >>
Unresolved == << Read, Pay({ Admission("to", "amount") }) >>
MCPlans == { Isolated, Unresolved, << Pay({ToAccount}), Read >> }
Ok(verdict, account, amount) ==
    [ status |-> "ok", values |-> [ verdict |-> <<"string", verdict>>, account |-> <<"string", account>>, amount |-> <<"integer", amount>> ] ]
MCAnswers ==
    { Ok("pay", "acc", 1), Ok("pay", "elsewhere", 1), Ok("text", "acc", 1), Ok("pay", "acc", 7),
      [ status |-> "failed", failureCode |-> "unclear" ], [ status |-> "failed", failureCode |-> "text" ] }
MCReferential == [ accounts |-> {"acc"} ]
Drafted(id, reordered, generation, graph, steps) ==
    [ id |-> id, reordered |-> reordered, generation |-> generation, graph |-> graph, steps |-> steps ]
MCDrafts == { Drafted("p1", FALSE, 1, "g1", Isolated), Drafted("p1", TRUE, 2, "g2", Unresolved) }
Harness(k, w) == [ id |-> "h", repeatThreshold |-> k, windowSize |-> w, digest |-> <<"h", k, w>> ]
MCProfiles == { Harness(2, 3), Harness(3, 3), Harness(4, 3) }
Names == Permutations(Clerk)

------------------------------------------------------------------------------
VARIABLE scenario

vars == <<briefVars, archiveVars, planVars, authorityVars, scenario>>

\* The authority starts on a brief accepted by one receipt, with its handoff archived and read.
Accepted ==
    /\ now = 1 /\ accepted = << First >> /\ proofs = {First} /\ storeRevision = 2
    /\ archive = [ id \in {"h1", "h2"} |-> IF id = "h1" THEN Produced("h1", First, << "c2", "c1" >>, 0, 2) ELSE Nobody ]
    /\ revoked = {} /\ membership = 1 /\ upsets = 0 /\ requests = [ c \in Clerk |-> Nobody ] /\ bindings = {}
    /\ reading = [ handoff |-> archive["h1"], receipts |-> accepted, membership |-> 1, storeRevision |-> 2 ]

Init ==
    /\ scenario \in {"admission", "archive", "authority", "harness"}
    /\ IF scenario = "authority" THEN Accepted ELSE BriefInit
    /\ ArchiveInit /\ AuthorityInit /\ PlanInit
    /\ scenario # "harness" => plan = Isolated

Next ==
    /\ UNCHANGED scenario
    /\ \/ scenario = "admission" /\ BriefNext /\ UNCHANGED <<archiveVars, planVars, authorityVars>>
       \/ scenario = "archive" /\ ArchiveNext /\ UNCHANGED <<briefVars, planVars, authorityVars>>
       \/ scenario = "authority" /\ PlanMission /\ UNCHANGED <<archiveVars, planVars, authorityVars>>
       \/ scenario = "authority" /\ AuthorityNext /\ UNCHANGED <<briefVars, archiveVars, planVars>>
       \/ scenario = "harness" /\ PlanNext /\ UNCHANGED <<briefVars, archiveVars, authorityVars>>

Spec == Init /\ [][Next]_vars
==============================================================================
