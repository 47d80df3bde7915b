---------------------------- MODULE PlanAuthority ----------------------------
(***************************************************************************)
(* From the binding of a planned mission to a bound execution              *)
(* authorization: verifyMissionBindingDigests (version 3) and              *)
(* authorizationV4BindingFailures (version 4).  Missions keeps every       *)
(* revision of a record; plans are drafted, sealed and attached;           *)
(* authorizations are issued on what their issuer read, possibly before    *)
(* the mission moved on; and a verifier is shown any documents that were   *)
(* ever stored.                                                            *)
(***************************************************************************)
EXTENDS BriefAdmission, PlanQuarantine, FiniteSets
S == INSTANCE SequencesExt

CONSTANTS
    MissionId,      \* the missions
    Draft,          \* what a planner may fill in: plan id, order of the criteria, generation, graph, steps
    Profile,        \* harness profiles: id, repeat threshold, window size, and the digest they carry
    Quorum,         \* references of plan quorums
    NoPlan,         \* a record without a plan, or without a quorum
    MaxRevision,    \* bound: revisions of a mission
    MaxPlans,       \* bound: plans stored
    MaxIssued       \* bound: authorizations issued

ASSUME ProfileAssumption ==
    \A h \in Profile : h = [ id |-> h.id, repeatThreshold |-> h.repeatThreshold, windowSize |-> h.windowSize, digest |-> h.digest ]

VARIABLES
    records,        \* every revision of every mission record
    plans,          \* the plans, sealed or edited since
    authorizations  \* the authorizations issued

authorityVars == <<records, plans, authorizations>>

------------------------------------------------------------------------------
(* The rules both majors share.  A digest is its preimage. *)

\* Mutated: the record's criteria are not compared with the binding's.
MissionHoldsRestated(m) == m.bindingDigest = m.binding /\ m.binding.archived = m.binding.handoff

MissionHolds(m) ==
    /\ m.bindingDigest = m.binding
    /\ m.binding.archived = m.binding.handoff
    /\ m.criteria = m.binding.criteria

\* Mutated: the digest is not recomputed.
SealedUnread(p) == TRUE

\* The plan's own digest, which covers everything it says.
Sealed(p) == p.bodyDigest = p.content

PlanBound(m, p) ==
    /\ p.content.criteria = m.criteria
    /\ p.content.bindingDigest = m.bindingDigest
    /\ p.content.mission = m.id
    /\ Sealed(p)
    /\ m.plan = [ id |-> p.content.id, digest |-> p.bodyDigest ]

AuthorizationBound(m, p, a) ==
    /\ a.bindingDigest = m.bindingDigest
    /\ a.mission = m.id
    /\ a.revision = m.revision
    /\ a.recordDigest = m
    /\ a.quorum = m.quorum
    /\ a.planId = p.content.id
    /\ a.planDigest = p.bodyDigest
    /\ a.generation = p.content.generation
    /\ a.graph = p.content.graph

Binds3(m, p, a) == MissionHolds(m) /\ PlanBound(m, p) /\ AuthorizationBound(m, p, a)

------------------------------------------------------------------------------
(* New in version 4: plan and harness profile resolve, and both sides bind the profile *)

ProfileDigest(h) == <<h.id, h.repeatThreshold, h.windowSize>>
ProfileResolved(h) == h.repeatThreshold <= h.windowSize /\ h.digest = ProfileDigest(h)

ProfileBound(p, h, a) ==
    /\ p.content.profile = [ id |-> h.id, digest |-> h.digest ]
    /\ a.profileDigest = h.digest

Binds4(m, p, h, a) ==
    /\ Binds3(m, p, a)
    /\ ProfileBound(p, h, a)
    /\ Resolvable(p.content.steps)
    /\ ProfileResolved(h)

------------------------------------------------------------------------------
(* The owners' steps *)

AuthorityInit == records = {} /\ plans = {} /\ authorizations = {}

InOrder(criteria, reordered) == IF reordered THEN S!Reverse(criteria) ELSE criteria
Latest(id) == CHOOSE m \in records : m.id = id /\ \A n \in records : n.id = id => n.revision <= m.revision

\* Missions records a planned mission; it may have its own idea of the order of the criteria.
RecordMission(id, binding, reordered) ==
    /\ \A m \in records : m.id # id /\ m.binding # binding
    /\ records' = records \cup { [ id |-> id, revision |-> 1, binding |-> binding, bindingDigest |-> binding,
                                    criteria |-> InOrder(binding.criteria, reordered), plan |-> NoPlan, quorum |-> NoPlan ] }
    /\ UNCHANGED <<plans, authorizations>>

ContentOf(m, draft, h) ==
    [ id |-> draft.id, mission |-> m.id, bindingDigest |-> m.bindingDigest, criteria |-> InOrder(m.criteria, draft.reordered),
      generation |-> draft.generation, graph |-> draft.graph, steps |-> draft.steps, profile |-> [ id |-> h.id, digest |-> h.digest ] ]

\* A plan is drafted on a record and sealed.
SealPlan(m, draft, h) ==
    /\ Cardinality(plans) < MaxPlans
    /\ plans' = plans \cup { [ content |-> ContentOf(m, draft, h), bodyDigest |-> ContentOf(m, draft, h) ] }
    /\ UNCHANGED <<records, authorizations>>

\* A sealed plan is edited and keeps its digest.
EditPlan(p, m, draft, h) ==
    /\ Cardinality(plans) < MaxPlans
    /\ plans' = plans \cup { [ content |-> ContentOf(m, draft, h), bodyDigest |-> p.bodyDigest ] }
    /\ UNCHANGED <<records, authorizations>>

\* A reviewed plan is attached: the next revision of the record.
AttachPlan(id, p, quorum) ==
    /\ \E m \in records : m.id = id
    /\ Latest(id).revision < MaxRevision
    /\ records' = records \cup { [Latest(id) EXCEPT !.revision = @ + 1, !.quorum = quorum,
                                                   !.plan = [ id |-> p.content.id, digest |-> p.bodyDigest ]] }
    /\ UNCHANGED <<plans, authorizations>>

\* An authorization is issued on a record, a plan and a profile, read at different moments: the
\* generation and the graph may be those of another plan than the one it names.
Issue(m, p, q, h) ==
    /\ Cardinality(authorizations) < MaxIssued
    /\ authorizations' = authorizations \cup
           { [ mission |-> m.id, revision |-> m.revision, recordDigest |-> m, bindingDigest |-> m.bindingDigest, quorum |-> m.quorum,
               planId |-> p.content.id, planDigest |-> p.bodyDigest, generation |-> q.content.generation, graph |-> q.content.graph,
               profileDigest |-> h.digest ] }
    /\ UNCHANGED <<records, plans>>

AuthorityNext ==
    \/ \E id \in MissionId, b \in bindings, reordered \in BOOLEAN : RecordMission(id, b, reordered)
    \/ \E m \in records, draft \in Draft, h \in Profile : SealPlan(m, draft, h) \/ \E p \in plans : EditPlan(p, m, draft, h)
    \/ \E id \in MissionId, p \in plans, quorum \in Quorum : AttachPlan(id, p, quorum)
    \/ \E m \in records, p, q \in plans, h \in Profile : Issue(m, p, q, h)

\* From the brief to the authorization, the steps of all owners in any order.
AuthoritySpec ==
    /\ BriefInit /\ AuthorityInit
    /\ [][ \/ BriefNext /\ UNCHANGED authorityVars
           \/ AuthorityNext /\ UNCHANGED briefVars ]_<<briefVars, authorityVars>>

------------------------------------------------------------------------------
(* Properties *)

\* The documents that bind under the rules both majors share, of all those ever stored: a verifier
\* may be shown any of them.  Version 4 binds some of these.
Bound == { d \in records \X plans \X authorizations : Binds3(d[1], d[2], d[3]) }

\* One revision of a mission authorizes one execution: whatever was drafted, edited or attached
\* since, any two authorizations that bind with it bind the same plan, down to its content, the
\* same generation, graph and quorum, and in version 4 the same harness profile, however many
\* profiles share an identity (verifyMissionBindingDigests and authorizationV4BindingFailures).
OneExecutionPerRevision ==
    \A d, e \in Bound :
        (d[1].id = e[1].id /\ d[1].revision = e[1].revision) =>
            /\ d[2] = e[2]
            /\ d[3].generation = e[3].generation /\ d[3].graph = e[3].graph /\ d[3].quorum = e[3].quorum
            /\ \A h, k \in Profile : (Binds4(d[1], d[2], h, d[3]) /\ Binds4(e[1], e[2], k, e[3])) => h = k

\* An authorized plan is held to the criteria that were accepted, all of them and in the order of
\* the accepted body, and its mission was planned on it (deriveMissionBinding, then both verifiers).
CriteriaFollowTheBrief ==
    \A d \in Bound : d[2].content.criteria = Body.criteria /\ d[1].binding \in bindings
==============================================================================
