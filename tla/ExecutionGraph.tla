---------------------------- MODULE ExecutionGraph ----------------------------
(***************************************************************************)
(* The execution graph of an authorized plan and a run on it.              *)
(* evaluateGraph and evaluateAuthority                                     *)
(* (tools/quality/authorized-execution.ts) judge the graph once; the run   *)
(* then walks it without any further check: a step yields an outcome, is   *)
(* tried again while its retry policy allows it, and otherwise the edge of *)
(* its outcome is taken.  Steps, edges, choices and digests are lists, as  *)
(* in the documents, so repetitions are seen.                              *)
(***************************************************************************)
EXTENDS Naturals, Sequences

CONSTANTS
    StepLists, EdgeLists, Entries,  \* the parts of the graphs presented
    Plans,       \* what plans bind: lists of schema and of profile digests, and
                 \* whether the plan names this graph and its organization
    RetryLimit,  \* the greatest maximum of attempts (32 in the code)
    Nothing      \* no position and no plan yet

ASSUME RetryLimitAssumption == RetryLimit \in Nat \ {0}

\* The steps of a graph are a list, and so are the digests that a step names.
ASSUME GraphAssumption ==
    \A steps \in StepLists :
        /\ steps \in Seq({ steps[i] : i \in DOMAIN steps })
        /\ \A i \in DOMAIN steps :
              steps[i].digests \in Seq({ steps[i].digests[k] : k \in DOMAIN steps[i].digests })

Steps(g) == { g.steps[i] : i \in DOMAIN g.steps }
Edges(g) == { g.edges[i] : i \in DOMAIN g.edges }
Ids(g)   == { s.stepId : s \in Steps(g) }

Terminals(g) == { s.stepId : s \in { x \in Steps(g) : x.kind = "terminal" } }

------------------------------------------------------------------------------
(* evaluateGraph *)

\* The edges, by their place in the list, that leave a step with an outcome.
Routes(g, id, outcome) ==
    { i \in DOMAIN g.edges : g.edges[i].from = id /\ g.edges[i].outcome = outcome }

\* What is wrong with the routes of one step.
StepFaults(g, s) ==
    LET out   == { i \in DOMAIN g.edges : g.edges[i].from = s.stepId }
        stray == { i \in out : g.edges[i].outcome \notin s.outcomes }
    IN  IF s.kind = "terminal"
        THEN IF out # {} THEN {"terminal-has-outgoing-edge"} ELSE {}
        ELSE { "route-missing" : o \in { x \in s.outcomes :
                                           Routes(g, s.stepId, x) = {} } }
             \cup { "route-ambiguous" : o \in { x \in s.outcomes :
                        \E i, j \in Routes(g, s.stepId, x) : i # j } }
             \cup { "route-ambiguous" : i \in stray }

RouteFaults(g) == UNION { StepFaults(g, s) : s \in Steps(g) }

\* The queue that grows backwards from the terminals, in rounds.
CoReachable(g) ==
    LET f[n \in 0 .. Len(g.steps)] ==
          IF n = 0 THEN Terminals(g)
          ELSE f[n - 1] \cup { e.from : e \in { x \in Edges(g) : x.to \in f[n - 1] } }
    IN  f[Len(g.steps)]

\* The queue that grows forwards from the entry.
Reachable(g) ==
    LET f[n \in 0 .. Len(g.steps)] ==
          IF n = 0 THEN {g.entry}
          ELSE f[n - 1] \cup { e.to : e \in { x \in Edges(g) : x.from \in f[n - 1] } }
    IN  f[Len(g.steps)]

\* Mutant: one visited predecessor is enough.
SortedEager(g) ==
    LET f[n \in 0 .. Len(g.steps)] ==
          IF n = 0 THEN { id \in Ids(g) : \A e \in Edges(g) : e.to # id }
          ELSE f[n - 1] \cup { e.to : e \in { x \in Edges(g) : x.from \in f[n - 1] } }
    IN  f[Len(g.steps)]

\* The steps whose indegree falls to zero: without a cycle, all of them.
Sorted(g) ==
    LET f[n \in 0 .. Len(g.steps)] ==
          IF n = 0 THEN {}
          ELSE { id \in Ids(g) : \A e \in Edges(g) : e.to = id => e.from \in f[n - 1] }
    IN  f[Len(g.steps)]

DuplicateStep(g) ==
    \E i, j \in DOMAIN g.steps : i # j /\ g.steps[i].stepId = g.steps[j].stepId

DuplicateEdge(g) ==
    \E i, j \in DOMAIN g.edges : i # j /\ g.edges[i].edgeId = g.edges[j].edgeId

\* The order of the steps only decides which of the route faults is named.
GraphVerdicts(g) ==
    IF DuplicateStep(g) THEN {"duplicate-step"}
    ELSE IF DuplicateEdge(g) THEN {"duplicate-edge"}
    ELSE IF g.entry \notin Ids(g) THEN {"entry-missing"}
    ELSE IF \E e \in Edges(g) : {e.from, e.to} \ Ids(g) # {}
    THEN {"dangling-edge"}
    ELSE IF RouteFaults(g) # {} THEN RouteFaults(g)
    ELSE IF Ids(g) \ CoReachable(g) # {} THEN {"terminal-unreachable"}
    ELSE IF Ids(g) \ Reachable(g) # {} THEN {"unreachable-step"}
    ELSE IF Ids(g) \ Sorted(g) # {} THEN {"cycle-forbidden"}
    ELSE {"graph-valid"}

------------------------------------------------------------------------------
(* evaluateAuthority *)

RetryPolicyValid(s) ==
    /\ s.maximumAttempts \in 1 .. RetryLimit
    /\ s.retryable \subseteq s.outcomes

\* Mutant: what happens without an answer is not looked at.
DecisionPolicyAnswered(s) ==
    s.kind = "human-decision" =>
        \A i \in DOMAIN s.choices : s.choices[i].outcome \in s.outcomes

DecisionPolicyValid(s) ==
    s.kind = "human-decision" =>
        /\ \A i, j \in DOMAIN s.choices :
              s.choices[i].choiceId = s.choices[j].choiceId => i = j
        /\ \A i \in DOMAIN s.choices : s.choices[i].outcome \in s.outcomes
        /\ s.noResponse \in s.outcomes

\* The two lists have the same members, and neither repeats one.
SameStringSet(left, right) ==
    /\ \A i, j \in DOMAIN left : left[i] = left[j] => i = j
    /\ \A i, j \in DOMAIN right : right[i] = right[j] => i = j
    /\ { left[i] : i \in DOMAIN left } = { right[i] : i \in DOMAIN right }

\* The digests the steps name, in the order of the steps.
Collected(g, kind) ==
    LET f[n \in 0 .. Len(g.steps)] ==
          IF n = 0 THEN << >>
          ELSE IF g.steps[n].kind = kind THEN f[n - 1] \o g.steps[n].digests
          ELSE f[n - 1]
    IN  f[Len(g.steps)]

AuthorityVerdict(g, p) ==
    IF \E s \in Steps(g) : /\ s.kind # "terminal"
                           /\ ~ (RetryPolicyValid(s) /\ DecisionPolicyValid(s))
    THEN "graph-policy-invalid"
    ELSE IF /\ p.namesGraph
            /\ SameStringSet(Collected(g, "human-decision"), p.decisionSchemas)
            /\ SameStringSet(Collected(g, "external-effect"), p.executorProfiles)
    THEN "authority-valid"
    ELSE "authority-binding-mismatch"

------------------------------------------------------------------------------
VARIABLES
    graph,     \* the graph presented
    binding,      \* what the plan binds
    verdict,   \* "pending", a refusal, or "valid"
    path,      \* the steps the run has entered, in order
    tried,   \* the attempt of the last of them
    yielded    \* the outcome of that attempt

vars == <<graph, binding, verdict, path, tried, yielded>>

Position == IF path = << >> THEN Nothing ELSE path[Len(path)]

\* The step the run is at.
Current == CHOOSE s \in Steps(graph) : s.stepId = Position

TypeOK ==
    /\ graph.entry \in Entries
    /\ binding \in Plans \cup {Nothing}
    /\ verdict = "valid" <=> path # << >>
    /\ path \in Seq(Ids(graph))
    /\ tried \in 0 .. RetryLimit

Init ==
    /\ \E s \in StepLists, e \in EdgeLists, id \in Entries :
          graph = [ steps |-> s, edges |-> e, entry |-> id ]
    /\ binding = Nothing
    /\ verdict = "pending"
    /\ path = << >>
    /\ tried = 0
    /\ yielded = Nothing

\* The graph is refused.
RefuseGraph ==
    /\ verdict = "pending"
    /\ verdict' \in GraphVerdicts(graph) \ {"graph-valid"}
    /\ UNCHANGED <<graph, binding, path, tried, yielded>>

\* The graph is valid, and a plan that binds it is refused or starts a run.
JudgePlan ==
    /\ verdict = "pending"
    /\ GraphVerdicts(graph) = {"graph-valid"}
    /\ binding' \in Plans
    /\ IF AuthorityVerdict(graph, binding') = "authority-valid"
       THEN verdict' = "valid" /\ path' = <<graph.entry>> /\ tried' = 1
       ELSE /\ verdict' = AuthorityVerdict(graph, binding')
            /\ UNCHANGED <<path, tried>>
    /\ UNCHANGED <<graph, yielded>>

\* What a step may yield: a decision step what its choices lead to or the
\* outcome without an answer, any other step what it declares.
Yields(s) ==
    IF s.kind = "human-decision"
    THEN { s.choices[i].outcome : i \in DOMAIN s.choices } \cup {s.noResponse}
    ELSE s.outcomes

Running == verdict = "valid" /\ Current.kind # "terminal"

\* The attempt yields an outcome.
Yield ==
    /\ Running /\ yielded = Nothing
    /\ yielded' \in Yields(Current)
    /\ UNCHANGED <<graph, binding, verdict, path, tried>>

Retried == yielded \in Current.retryable /\ tried < Current.maximumAttempts

\* A retryable outcome with attempts left is tried again.
Again ==
    /\ Running /\ yielded # Nothing /\ Retried
    /\ tried' = tried + 1
    /\ yielded' = Nothing
    /\ UNCHANGED <<graph, binding, verdict, path>>

\* Any other outcome takes a route of its own.
Advance ==
    /\ Running /\ yielded # Nothing /\ ~ Retried
    /\ \E i \in Routes(graph, Position, yielded) :
          path' = Append(path, graph.edges[i].to)
    /\ tried' = 1
    /\ yielded' = Nothing
    /\ UNCHANGED <<graph, binding, verdict>>

Walk == Yield \/ Again \/ Advance

Next == RefuseGraph \/ JudgePlan \/ Walk

Spec == Init /\ [][Next]_vars

\* The runtime that walks the graph does not abandon a run.
FairSpec == Spec /\ WF_vars(Walk)

------------------------------------------------------------------------------
(* Properties *)

\* evaluateGraph and evaluateAuthority together: whatever a step has yielded
\* has exactly one way on; no choice and no missing answer leads nowhere or to
\* two places.
OneWayOn ==
    yielded # Nothing =>
        \E i \in DOMAIN graph.edges : Routes(graph, Position, yielded) = {i}

\* evaluateGraph: no run enters a step twice, so no effect is emitted twice for
\* want of a loop check.
NoStepTwice ==
    \A i, j \in DOMAIN path : path[i] = path[j] => i = j

\* evaluateAuthority: a run only reaches decisions and effects whose schemas
\* and profiles its plan binds, of the graph its plan names.
OnlyBound ==
    Running =>
        /\ binding.namesGraph
        /\ LET bound == IF Current.kind = "human-decision"
                        THEN binding.decisionSchemas ELSE binding.executorProfiles
           IN  Current.kind \in {"human-decision", "external-effect"} =>
                   \A i \in DOMAIN Current.digests :
                       \E j \in DOMAIN bound : bound[j] = Current.digests[i]

\* The three together: a run always has one way on, and takes it once, within
\* what its plan binds.
RunSound == OneWayOn /\ NoStepTwice /\ OnlyBound

\* Every run ends in a terminal: no cycle, no dead end, no endless retry.
RunEnds == verdict = "valid" ~> Position \in Terminals(graph)
==============================================================================
