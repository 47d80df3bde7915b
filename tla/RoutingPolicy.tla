--------------------------- MODULE RoutingPolicy ---------------------------
(***************************************************************************)
(* The routing policy an organization edits, revision after revision, and  *)
(* the admission every revision passes (signalement-routing-policy-v1.ts), *)
(* over the connector profiles (signalement-connector-profile-v1.ts) and   *)
(* the observed origins (signalement-delivery-envelope-v1.ts) the other    *)
(* verifiers admit.  Which rules match an origin is SEMANTICS text: the    *)
(* evaluator is the consumer's.                                            *)
(***************************************************************************)
EXTENDS Integers, Sequences

CONSTANTS Ids,            \* identifiers of destinations and rules, in one space
          MaxRules, MaxDestinations, MaxRevisions   \* bounds

ASSUME PolicyAssumption ==
  /\ Ids # {}
  /\ MaxRules \in Nat /\ MaxDestinations \in Nat /\ MaxRevisions \in Nat

VARIABLES draft,      \* the policy being edited
          admitted,   \* the last revision admitted
          revisions   \* edits so far

policyVars == <<draft, admitted, revisions>>

Families == {"github-issues", "jira-cloud", "other"}
Schemes == {"https", "http"}
NoPort == 0
Ports == {NoPort, 80, 443}

\* The only target, and the source of visibility, of each profile family; the
\* other two families differ from these two only by name.
TargetKindByFamily ==
  [f \in Families |-> CASE f = "github-issues" -> "github-repository"
                        [] f = "jira-cloud" -> "jira-project"
                        [] OTHER -> "none"]
VisibilitySourceByFamily ==
  [f \in Families |-> CASE f = "github-issues" -> "discovered"
                        [] f = "jira-cloud" -> "declared"
                        [] OTHER -> "none"]
DefaultPortByScheme == [s \in Schemes |-> IF s = "https" THEN 443 ELSE 80]

\* A profile is named after its family and claims no lookup it has not.
ProfileHolds(p) ==
  /\ p.profileId = p.family
  /\ p.lookup.method = "none" => p.lookup.status = "unsupported"

Profiles ==
  {p \in [profileId : Families, family : Families,
          lookup : [method : {"none", "search"}, status : {"unsupported", "proved"}]] :
     ProfileHolds(p)}

\* host: "exact" as the URL serializer writes it, or rewritten by it.
Origins == [scheme : Schemes, host : {"exact", "rewritten"}, port : Ports]

IsCanonicalOrigin(origin) ==
  origin.host = "exact" /\ origin.port # DefaultPortByScheme[origin.scheme]

\* The origins a delivery envelope can carry: a canonical one, or none.
Absent == [kind |-> "absent"]
Observed == {[kind |-> "origin", origin |-> o] : o \in {o \in Origins : IsCanonicalOrigin(o)}}
            \cup {Absent}

Matches ==
  Observed
  \cup {[kind |-> "origin", origin |-> o] : o \in Origins}
  \cup {[kind |-> "pattern", scheme |-> s, port |-> p] : s \in Schemes, p \in Ports}

\* SEMANTICS, "Evaluation": an exact origin, a subdomain on the same scheme
\* and written port, or the absence of an origin.
RuleMatches(match, observed) ==
  IF match.kind = "pattern"
  THEN observed # Absent /\ observed.origin.scheme = match.scheme
                         /\ observed.origin.port = match.port
  ELSE observed = match

-----------------------------------------------------------------------------
(* Admission.                                                              *)

\* Variant: only origins are compared with what the URL serializer writes.
IsDeadMatchOriginOnly(match) == match.kind = "origin" /\ ~IsCanonicalOrigin(match.origin)

IsDeadMatch(match) ==
  \/ match.kind = "origin" /\ ~IsCanonicalOrigin(match.origin)
  \/ match.kind = "pattern" /\ match.port = DefaultPortByScheme[match.scheme]

RulesOf(policy) == {policy.rules[i] : i \in DOMAIN policy.rules}
DestinationsOf(policy) == {policy.destinations[i] : i \in DOMAIN policy.destinations}
IdsOf(list) == [i \in DOMAIN list |-> list[i].id]
Lists(rule) == <<rule.imposed, rule.optional, rule.selectable, rule.denied>>

NoDeadRule(policy) == \A rule \in RulesOf(policy) : ~IsDeadMatch(rule.match)

\* Destinations and rules of both kinds share one identifier space.
IdsDistinct(policy) ==
  LET all == IdsOf(policy.destinations) \o IdsOf(policy.rules) \o policy.disclosures
  IN  \A i, j \in DOMAIN all : all[i] = all[j] => i = j

DestinationsKnown(policy) ==
  \A rule \in RulesOf(policy) : \A i \in DOMAIN Lists(rule) :
    Lists(rule)[i] \subseteq {d.id : d \in DestinationsOf(policy)}

NoOverlap(policy) ==
  \A rule \in RulesOf(policy) : \A i, j \in DOMAIN Lists(rule) :
    i # j => Lists(rule)[i] \cap Lists(rule)[j] = {}

TargetsMatch(policy) ==
  \A d \in DestinationsOf(policy) :
    /\ TargetKindByFamily[d.profileId] # "none"
    /\ TargetKindByFamily[d.profileId] = d.target

VisibilityMatches(policy) ==
  \A d \in DestinationsOf(policy) : VisibilitySourceByFamily[d.profileId] = d.visibilitySource

PolicyAdmitted(policy) ==
  /\ NoDeadRule(policy)
  /\ IdsDistinct(policy)
  /\ DestinationsKnown(policy)
  /\ NoOverlap(policy)
  /\ TargetsMatch(policy)
  /\ VisibilityMatches(policy)

-----------------------------------------------------------------------------
(* The organization.                                                       *)

Revise == revisions < MaxRevisions /\ revisions' = revisions + 1

AddDestination(id, profile, target, visibility) ==
  /\ Revise
  /\ Len(draft.destinations) < MaxDestinations
  /\ draft' = [draft EXCEPT !.destinations =
       Append(@, [id |-> id, profileId |-> profile, target |-> target,
                  visibilitySource |-> visibility])]
  /\ UNCHANGED admitted

RemoveDestination ==
  /\ Revise
  /\ draft.destinations # << >>
  /\ draft' = [draft EXCEPT !.destinations = Tail(@)]
  /\ UNCHANGED admitted

AddDisclosure(id) ==
  /\ Revise
  /\ draft.disclosures = << >>
  /\ draft' = [draft EXCEPT !.disclosures = <<id>>]
  /\ UNCHANGED admitted

AddRule(id, match, routed, list, denied) ==
  /\ Revise
  /\ Len(draft.rules) < MaxRules
  /\ draft' = [draft EXCEPT !.rules =
       Append(@, [l \in {"id", "match", "imposed", "optional", "selectable", "denied"} |->
                    CASE l = "id" -> id [] l = "match" -> match [] l = "denied" -> denied
                      [] l = list -> routed [] OTHER -> {}])]
  /\ UNCHANGED admitted

\* A revision that the verifier refuses leaves the admitted one in force.
Admit ==
  /\ PolicyAdmitted(draft)
  /\ admitted' = draft
  /\ UNCHANGED <<draft, revisions>>

PolicyInit ==
  /\ draft = [destinations |-> << >>, rules |-> << >>, disclosures |-> << >>]
  /\ admitted = draft
  /\ revisions = 0

PolicyNext ==
  \/ \E id \in Ids, profile \in {p.profileId : p \in Profiles}, visibility \in {"discovered", "declared"},
        target \in {"github-repository", "jira-project"} :
       AddDestination(id, profile, target, visibility)
  \/ RemoveDestination
  \/ \E id \in Ids : AddDisclosure(id)
  \/ \E id \in Ids, match \in Matches, routed \in {{}} \cup {{i} : i \in Ids},
        denied \in {{i} : i \in Ids}, list \in {"imposed", "optional", "selectable"} :
       AddRule(id, match, routed, list, denied)
  \/ Admit

PolicySpec == PolicyInit /\ [][PolicyNext]_policyVars

-----------------------------------------------------------------------------
\* Every denial of the admitted policy bites: some origin that a delivery
\* envelope can carry matches its rule, what it denies is one destination
\* the policy has, and the rule itself does not also route there.
DenialsBite ==
  \A rule \in RulesOf(admitted) : \A denied \in rule.denied :
    /\ \E observed \in Observed : RuleMatches(rule.match, observed)
    /\ \E d \in DestinationsOf(admitted) : d.id = denied
    /\ \A i, j \in DOMAIN admitted.destinations :
         admitted.destinations[i].id = denied /\ admitted.destinations[j].id = denied => i = j
    /\ denied \notin rule.imposed \cup rule.optional \cup rule.selectable
=============================================================================
