--------------------------- MODULE PlanQuarantine ---------------------------
(***************************************************************************)
(* The isolation rules of a version 4 execution plan (ADR-0045) over the   *)
(* run of a harness.  A harness follows a plan, collects values, tells the *)
(* argument policy what each value depends on, and asks it about each      *)
(* call.  The oracle's rules are the code's; the harness is external: it   *)
(* may retry a step, lose the record of a value, and get any answer from a *)
(* quarantined model.                                                      *)
(***************************************************************************)
EXTENDS Integers, Sequences, Functions

CONSTANTS
    ExecutionPlan,  \* the plans a harness may be handed, each a sequence of steps
    Answer,         \* what a quarantined model may answer
    Referential,    \* the pinned identifiers, by referential
    ValueId,        \* the names the harness gives to values
    NoOutput,       \* a step without quarantine output, or one that has not answered
    Content,        \* untrusted content, as a source
    MaxRecords,     \* bound: how many records of values the harness keeps
    MaxLosses       \* bound: how many of them it loses

\* Plans are lists of steps, and admissions name a parameter, a step and a field.
ASSUME PlanAssumption ==
    \A p \in ExecutionPlan :
        /\ p \in Seq({ p[i] : i \in DOMAIN p })
        /\ \A i \in DOMAIN p : \A k \in DOMAIN p[i].tools : \A a \in p[i].tools[k].admissions :
              a = [ parameter |-> a.parameter, step |-> a.step, field |-> a.field ]

VARIABLES
    plan,       \* the plan the harness follows
    outputs,    \* the accepted answer of each step
    tracked,    \* the records of values given to the policy, in order
    truth,      \* what really went into each value: its sources outside the trusted request
    losses,     \* how many records were lost
    admitted    \* the call admitted in the last step, with what really reached each parameter

planVars == <<plan, outputs, tracked, truth, losses, admitted>>

------------------------------------------------------------------------------
(* The plan: planV4ResolutionFailures *)

StepIds(p) == { p[i].id : i \in DOMAIN p }
StepOf(p, id) == p[CHOOSE i \in DOMAIN p : p[i].id = id /\ \A j \in 1..(i - 1) : p[j].id # id]
Distinct(list, name(_)) == IsInjective([ i \in DOMAIN list |-> name(list[i]) ])
Named(x) == x.name
Identified(x) == x.id
Fields(step) == IF step.output = NoOutput THEN << >> ELSE step.output.fields

\* The first of a list that has the name, if any.
FirstNamed(list, name) == { list[k] : k \in { n \in DOMAIN list : list[n].name = name /\ \A l \in 1..(n - 1) : list[l].name # name } }
FieldOf(step, name) == FirstNamed(Fields(step), name)

\* Only an enumeration or a pinned identifier may carry an untrusted value into an argument.
AdmissibleKinds == {"enum", "identifier"}

AdmissionResolved(p, i, admission) ==
    \E j \in 1..(i - 1) :
        /\ p[j].id = admission.step
        /\ p[j].role = "quarantine"
        /\ \E field \in FieldOf(p[j], admission.field) : field.kind \in AdmissibleKinds

StepResolved(p, i) ==
    /\ Distinct(p[i].tools, Named) /\ Distinct(p[i].inputs, Identified) /\ Distinct(Fields(p[i]), Named)
    /\ \A k \in DOMAIN p[i].inputs :
           p[i].inputs[k].kind = "step-output" => \E j \in 1..(i - 1) : p[j].id = p[i].inputs[k].step
    /\ \A k \in DOMAIN Fields(p[i]) :
           Fields(p[i])[k].kind = "integer" => Fields(p[i])[k].minimum <= Fields(p[i])[k].maximum
    /\ \A k \in DOMAIN p[i].tools : \A a \in p[i].tools[k].admissions : AdmissionResolved(p, i, a)

Resolvable(p) == Distinct(p, Identified) /\ \A i \in DOMAIN p : StepResolved(p, i)

------------------------------------------------------------------------------
(* The answer of a quarantined model: evaluateQuarantineOutput *)

\* The values a field admits, each with its JSON type.
Vocabulary(field) ==
    CASE field.kind = "enum" -> { <<"string", v>> : v \in field.values }
      [] field.kind = "identifier" -> { <<"string", v>> : v \in Referential[field.referential] }
      [] field.kind = "boolean" -> { <<"boolean", b>> : b \in BOOLEAN }
      [] field.kind = "integer" -> { <<"integer", n>> : n \in field.minimum..field.maximum }

Failed(output, answer) ==
    /\ answer.status = "failed"
    /\ DOMAIN answer = {"status", "failureCode"}
    /\ answer.failureCode \in output.failureCodes

Answered(output, answer) ==
    /\ answer.status = "ok"
    /\ DOMAIN answer = {"status", "values"}
    /\ Distinct(output.fields, Named)
    /\ DOMAIN answer.values = { output.fields[i].name : i \in DOMAIN output.fields }
    /\ \A i \in DOMAIN output.fields : answer.values[output.fields[i].name] \in Vocabulary(output.fields[i])

AnswerAccepted(p, id, answer) ==
    LET output == IF id \in StepIds(p) THEN StepOf(p, id).output ELSE NoOutput
    IN  output # NoOutput /\ (Failed(output, answer) \/ Answered(output, answer))

------------------------------------------------------------------------------
(* A proposed call: evaluateArgumentCall *)

\* The records by identity: a later record of a value replaces an earlier one.
Known == { tracked[i].id : i \in DOMAIN tracked }
RecordOf(id) == tracked[CHOOSE i \in DOMAIN tracked : tracked[i].id = id /\ \A j \in (i + 1)..Len(tracked) : tracked[j].id # id]

\* Mutated: what a root was computed from is not followed.
DependencyClosureRoots(roots) == roots

\* Everything the roots depend on, unknown values included.
DependencyClosure(roots) ==
    LET reach[n \in 0..Len(tracked)] ==
            IF n = 0 THEN roots
            ELSE reach[n - 1] \cup UNION { RecordOf(v).dependsOn : v \in reach[n - 1] \cap Known }
    IN  reach[Len(tracked)]

\* An unknown value has no provenance, and an unknown provenance is untrusted.
ProvenanceOf(id) == IF id \in Known THEN RecordOf(id).provenance ELSE <<"untrusted-content">>

\* What a parameter admits: its trusted values, and the fields its tool names for it.
Admits(tool, parameter, id) ==
    \/ ProvenanceOf(id) = <<"trusted-request">>
    \/ \E a \in tool.admissions : a.parameter = parameter /\ ProvenanceOf(id) = <<"quarantine-field", a.step, a.field>>

CallAdmitted(call) ==
    /\ call.step \in StepIds(plan)
    /\ StepOf(plan, call.step).role = "privileged"
    /\ \E tool \in FirstNamed(StepOf(plan, call.step).tools, call.tool) : \A parameter \in DOMAIN call.arguments :
           \A v \in DependencyClosure({call.arguments[parameter]} \cup call.control) : Admits(tool, parameter, v)
    /\ Resolvable(plan)

------------------------------------------------------------------------------
(* The harness: each action is one step of its run *)

NoCall == [ step |-> "", tool |-> "", reached |-> << >> ]

PlanInit ==
    /\ plan \in ExecutionPlan
    /\ outputs = [ id \in StepIds(plan) |-> NoOutput ]
    /\ tracked = << >>
    /\ truth = << >>
    /\ losses = 0
    /\ admitted = NoCall

\* A record of a value.  A retried step records its value again, as long as nothing was derived from it.
Track(id, provenance, parents, sources) ==
    /\ Len(tracked) < MaxRecords
    /\ \A i \in DOMAIN tracked : id \notin tracked[i].dependsOn
    /\ tracked' = Append(tracked, [ id |-> id, provenance |-> provenance, dependsOn |-> parents ])
    /\ truth' = [ v \in DOMAIN truth \cup {id} |-> IF v = id THEN sources ELSE truth[v] ]
    /\ admitted' = NoCall
    /\ UNCHANGED <<plan, outputs, losses>>

TakeTrusted(id) == Track(id, <<"trusted-request">>, {}, {})
ReadContent(id) == Track(id, <<"untrusted-content">>, {}, {Content})

\* The quarantined model of a step answers; an answer outside its vocabulary is dropped.
AskQuarantine(id, answer) ==
    /\ outputs[id] = NoOutput
    /\ AnswerAccepted(plan, id, answer)
    /\ outputs' = [outputs EXCEPT ![id] = answer]
    /\ admitted' = NoCall
    /\ UNCHANGED <<plan, tracked, truth, losses>>

\* A field of an accepted answer becomes a value.
TakeField(id, step, field) ==
    /\ outputs[step] # NoOutput
    /\ outputs[step].status = "ok"
    /\ field \in DOMAIN outputs[step].values
    /\ Track(id, <<"quarantine-field", step, field>>, {}, { <<step, field>> })

\* The plan computes a value from others.
Compute(id, parents) ==
    /\ id \notin parents /\ parents # {}
    /\ Track(id, <<"trusted-request">>, parents, UNION { truth[v] : v \in parents })

\* The records of all values but one.
Without(id) ==
    LET kept[n \in 0..Len(tracked)] ==
            IF n = 0 THEN << >>
            ELSE IF tracked[n].id = id THEN kept[n - 1]
            ELSE Append(kept[n - 1], tracked[n])
    IN  kept[Len(tracked)]

\* A restart keeps a value and loses its record.
LoseRecord(id) ==
    /\ losses < MaxLosses
    /\ id \in Known
    /\ losses' = losses + 1
    /\ admitted' = NoCall
    /\ tracked' = Without(id)
    /\ UNCHANGED <<plan, outputs, truth>>

\* A call that the policy admits reaches the tool.
Call(call) ==
    /\ CallAdmitted(call)
    /\ admitted' =
           [ step |-> call.step, tool |-> call.tool,
             reached |-> [ p \in DOMAIN call.arguments |-> UNION { truth[v] : v \in {call.arguments[p]} \cup call.control } ] ]
    /\ UNCHANGED <<plan, outputs, tracked, truth, losses>>

ToolsOf(step) == { step.tools[k] : k \in DOMAIN step.tools }
Calls(step, tool) ==
    { [ step |-> step.id, tool |-> tool.name, arguments |-> a, control |-> c ] :
          a \in UNION { [ps -> DOMAIN truth] : ps \in SUBSET tool.parameters },
          c \in { {} } \cup { {v} : v \in DOMAIN truth } }

PlanNext ==
    \/ \E id \in ValueId : TakeTrusted(id) \/ ReadContent(id) \/ LoseRecord(id)
    \/ \E id \in DOMAIN outputs, answer \in Answer : AskQuarantine(id, answer)
    \/ \E id \in ValueId, s \in DOMAIN outputs : \E i \in DOMAIN Fields(StepOf(plan, s)) : TakeField(id, s, Fields(StepOf(plan, s))[i].name)
    \/ \E id \in ValueId, parents \in SUBSET DOMAIN truth : Compute(id, parents)
    \/ \E step \in Range(plan) : \E tool \in ToolsOf(step) : \E call \in Calls(step, tool) : Call(call)

PlanSpec == PlanInit /\ [][PlanNext]_planVars

------------------------------------------------------------------------------
(* Properties *)

\* Whatever the harness retried or lost, nothing of the untrusted content reached a parameter of
\* an admitted call except through fields of accepted answers of earlier quarantined steps, each
\* an enumeration or a pinned identifier that the tool names for that very parameter
\* (evaluateArgumentCall over planV4ResolutionFailures and evaluateQuarantineOutput).
AdmittedArgumentsClosed ==
    \A parameter \in DOMAIN admitted.reached : \A source \in admitted.reached[parameter] :
        \E i, j \in DOMAIN plan : \E k \in DOMAIN plan[i].tools, f \in DOMAIN Fields(plan[j]) :
            /\ plan[i].id = admitted.step /\ plan[i].tools[k].name = admitted.tool
            /\ [ parameter |-> parameter, step |-> plan[j].id, field |-> Fields(plan[j])[f].name ] \in plan[i].tools[k].admissions
            /\ source = <<plan[j].id, Fields(plan[j])[f].name>>
            /\ j < i /\ plan[j].role = "quarantine"
            /\ \/ Fields(plan[j])[f].kind = "enum" /\ \E v \in Fields(plan[j])[f].values :
                      outputs[plan[j].id].values[Fields(plan[j])[f].name] = <<"string", v>>
               \/ Fields(plan[j])[f].kind = "identifier" /\ \E v \in Referential[Fields(plan[j])[f].referential] :
                      outputs[plan[j].id].values[Fields(plan[j])[f].name] = <<"string", v>>
==============================================================================
