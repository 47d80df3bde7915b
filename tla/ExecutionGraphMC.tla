--------------------------- MODULE ExecutionGraphMC ---------------------------
(* Graphs of up to three steps and four edges  over two outcomes.          *)
EXTENDS ExecutionGraph

CONSTANTS MaxSteps

Id      == <<"s1", "s2", "s3">>
Outcome == <<"done", "failed">>

Shape(kind, outcomes, retryable, maximum, choices, noResponse, digests) ==
    [ kind |-> kind, outcomes |-> outcomes, retryable |-> retryable,
      maximumAttempts |-> maximum, choices |-> choices,
      noResponse |-> noResponse, digests |-> digests ]

Choice(id, outcome) == [ choiceId |-> id, outcome |-> outcome ]

\* The fourth shape may try too often; the last one may yield an outcome it
\* does not declare.
Shapes ==
    << Shape("terminal", {}, {}, 1, << >>, "done", << >>),
       Shape("calculation", {"done"}, {}, 1, << >>, "done", << >>),
       Shape("external-effect", {"done", "failed"}, {"failed"}, 2, << >>,
             "done", <<"profile">>),
       Shape("calculation", {"done", "failed"}, {"failed"}, 3, << >>,
             "done", << >>),
       Shape("human-decision", {"done", "failed"}, {}, 1,
             <<Choice("yes", "done"), Choice("no", "failed")>>, "failed",
             <<"request", "response">>),
       Shape("human-decision", {"done"}, {"done"}, 2,
             <<Choice("yes", "done"), Choice("no", "done")>>, "failed",
             <<"request", "response">>) >>

StepAt(id, s) ==
    [ stepId |-> id, kind |-> s.kind, outcomes |-> s.outcomes,
      retryable |-> s.retryable, maximumAttempts |-> s.maximumAttempts,
      choices |-> s.choices, noResponse |-> s.noResponse, digests |-> s.digests ]

\* Steps but the entry are interchangeable: their shapes are in order, a
\* terminal at the end.  Last, a list that repeats a step, and one without
\* the entry.
SmallStepLists ==
    UNION { { [ i \in 1 .. n |-> StepAt(Id[i], Shapes[f[i]]) ] :
              f \in { x \in [1 .. n -> DOMAIN Shapes] :
                       \A i \in 2 .. n - 1 : x[i] >= x[i + 1] } } :
            n \in 1 .. MaxSteps }
    \cup { <<StepAt("s1", Shapes[2]), StepAt("s1", Shapes[1])>>,
           <<StepAt("s2", Shapes[1])>> }

EdgeAt(n) ==
    [ edgeId |-> n, from |-> Id[(n \div 6) + 1],
      outcome |-> Outcome[((n \div 3) % 2) + 1], to |-> Id[(n % 3) + 1] ]

\* Pairs are ordered or repeat an edge; longer lists are ordered, and
\* four edges leave the first two steps only.
SmallEdgeLists ==
    { << >> } \cup { <<EdgeAt(i)>> : i \in 0 .. 17 }
    \cup { <<EdgeAt(i), EdgeAt(j)>> : i, j \in 0 .. 17 }
    \cup UNION { { <<EdgeAt(i), EdgeAt(j), EdgeAt(k)>> :
                    i \in 0 .. j - 1, k \in j + 1 .. 17 } : j \in 1 .. 16 }
    \cup UNION { UNION { { <<EdgeAt(h), EdgeAt(i), EdgeAt(j), EdgeAt(k)>> :
                            h \in 0 .. i - 1, k \in j + 1 .. 11 } :
                          i \in 1 .. j - 1 } : j \in 2 .. 10 }

Plan(names, schemas, profiles) ==
    [ namesGraph |-> names, decisionSchemas |-> schemas,
      executorProfiles |-> profiles ]

SmallPlans ==
    { Plan(TRUE, s, p) : s \in {<< >>, <<"request", "response">>},
                         p \in {<< >>, <<"profile">>, <<"other">>} }
    \cup { Plan(FALSE, << >>, <<"profile">>) }
==============================================================================
