----------------------------- MODULE HumanDecision -----------------------------
(***************************************************************************)
(* Human decisions of an authorized execution.  A request restates the     *)
(* decision policy of its step and is bound to it by                       *)
(* evaluateDecisionBinding (tools/quality/decision-binding.ts); a response *)
(* is judged by evaluateDecision (authorized-execution.ts).  No code       *)
(* composes the two: here an owner does, who issues bound requests only,   *)
(* replaces them, applies the first valid response or, when the time is    *)
(* over, the outcome without a response.  A digest is what it identifies.  *)
(* Responses arrive at any time, any number of times, at any request.      *)
(***************************************************************************)
EXTENDS Naturals, FiniteSets

CONSTANTS
    Graph,       \* digest, organization and steps: step id -> kind and policy
    Attempts,    \* attempts of decision steps
    Proposals,   \* what an asker puts into a request
    ResponseIds, Choices, RoleSets, Revisions,  \* what actors put into responses
    MaxRequests, MaxResponses, Window, MaxTime, \* bounds
    None

\* What a step that a proposal describes can end with.
Outcomes ==
    { p.noResponse : p \in Proposals }
    \cup (UNION { { p.choices[c] : c \in DOMAIN p.choices } : p \in Proposals })

ASSUME DecisionAssumption ==
    /\ MaxTime \in Nat /\ Window \in Nat
    /\ \A p \in Proposals :
          p.choices = [ c \in DOMAIN p.choices |-> p.choices[c] ]
    /\ None \notin Outcomes

\* The policy of the step a request names.
PolicyOf(q) == Graph.steps[q.step].policy

------------------------------------------------------------------------------
(* evaluateDecisionBinding: p is the request.  Choices are functions, so a  *)
(* repeated choice id, which the code refuses, cannot be written.           *)

\* Mutant: the mappings are compared by the choices they offer.
PolicyRestatedChoices(p, policy) ==
    /\ DOMAIN p.choices = DOMAIN policy.choices
    /\ p.noResponse = policy.noResponse
    /\ p.requiredRole = policy.requiredRole

PolicyRestated(p, policy) ==
    /\ p.choices = policy.choices
    /\ p.noResponse = policy.noResponse
    /\ p.requiredRole = policy.requiredRole

BindingVerdict(p, g) ==
    IF p.graphDigest # g.digest \/ p.organization # g.organization
    THEN "graph-binding-mismatch"
    ELSE IF p.step \notin DOMAIN g.steps THEN "step-not-decision"
    ELSE IF g.steps[p.step].kind # "human-decision" THEN "step-not-decision"
    ELSE IF ~ PolicyRestated(p, g.steps[p.step].policy)
    THEN "decision-policy-mismatch"
    ELSE "decision-binding-valid"

------------------------------------------------------------------------------
(* evaluateDecision: q is a request, r a response, prior the response the   *)
(* store already has for the request, if any, as a set.                     *)

\* Mutant: the last moment of a request belongs to it.
ExpiredLater(q, time) == time > q.expires

Expired(q, time) == time >= q.expires

Replayed(r, prior) == \E p \in prior : p.id = r.id

ReplayVerdict(r, prior) ==
    IF r \in prior THEN "idempotent-duplicate" ELSE "duplicate-divergent"

ResponseVerdict(q, r, prior, time, replaced, consumed) ==
    IF r.organization # q.organization THEN "organization-mismatch"
    ELSE IF r.attempt # q.attempt THEN "attempt-mismatch"
    ELSE IF r.request # q THEN "request-replaced"
    ELSE IF Replayed(r, prior) THEN ReplayVerdict(r, prior)
    ELSE IF Expired(q, time) THEN "request-expired"
    ELSE IF replaced THEN "request-replaced"
    ELSE IF consumed THEN "request-consumed"
    ELSE IF r.choice \notin DOMAIN q.choices THEN "choice-unknown"
    ELSE IF q.requiredRole \notin r.roles THEN "actor-unauthorized"
    ELSE IF r.revision # q.revision THEN "revision-stale"
    ELSE "decision-valid"

------------------------------------------------------------------------------
VARIABLES
    requests,   \* every request issued
    standing,   \* those that are not replaced
    sent,       \* every response actors have sent
    accepted,   \* <<request, response>>: what consumed a request
    outcome,    \* attempt -> the outcome it went on with, or None
    now

vars == <<requests, standing, sent, accepted, outcome, now>>

Response ==
    [ id : ResponseIds, request : requests, attempt : Attempts,
      organization : {Graph.organization}, choice : Choices, roles : RoleSets,
      revision : Revisions ]

TypeOK ==
    /\ \A q \in requests : q.choices \in [DOMAIN PolicyOf(q).choices -> Outcomes]
    /\ standing \subseteq requests
    /\ sent \subseteq Response
    /\ accepted \subseteq requests \X sent
    /\ outcome \in [Attempts -> Outcomes \cup {None}]
    /\ now \in 0 .. MaxTime

Init ==
    /\ requests = {} /\ standing = {} /\ sent = {} /\ accepted = {}
    /\ outcome = [ a \in Attempts |-> None ]
    /\ now = 0

Replaced(q) == q \notin standing

\* What the store finds under the request.
Prior(q) == { r \in sent : <<q, r>> \in accepted }

Consumed(q) == Prior(q) # {}

\* A bound request for an attempt without an outcome; it replaces another one.
Issue(p, a) ==
    /\ Cardinality(requests) < MaxRequests
    /\ outcome[a] = None
    /\ BindingVerdict(p, Graph) = "decision-binding-valid"
    /\ \E v \in Revisions, d \in 1 .. Window :
          LET q == [ number |-> Cardinality(requests), attempt |-> a,
                     organization |-> p.organization, step |-> p.step,
                     choices |-> p.choices,
                     noResponse |-> p.noResponse, requiredRole |-> p.requiredRole,
                     revision |-> v, expires |-> now + d ]
          IN  /\ requests' = requests \cup {q}
              /\ standing' = { s \in standing : s.attempt # a } \cup {q}
    /\ UNCHANGED <<sent, accepted, outcome, now>>

\* An actor answers a request it has seen, in whatever way.
Respond ==
    /\ Cardinality(sent) < MaxResponses
    /\ \E r \in Response : sent' = sent \cup {r}
    /\ UNCHANGED <<requests, standing, accepted, outcome, now>>

\* A response is judged against a request, in the transaction that applies it.
Judge(q, r) ==
    /\ ResponseVerdict(q, r, Prior(q), now, Replaced(q), Consumed(q))
         = "decision-valid"
    /\ accepted' = accepted \cup {<<q, r>>}
    /\ outcome' = [outcome EXCEPT ![q.attempt] = q.choices[r.choice]]
    /\ UNCHANGED <<requests, standing, sent, now>>

\* The time of the request that stands is over and no response was applied.
NoResponse(q) ==
    /\ q \in standing /\ outcome[q.attempt] = None
    /\ now >= q.expires
    /\ outcome' = [outcome EXCEPT ![q.attempt] = q.noResponse]
    /\ UNCHANGED <<requests, standing, sent, accepted, now>>

Tick ==
    /\ now < MaxTime
    /\ now' = now + 1
    /\ UNCHANGED <<requests, standing, sent, accepted, outcome>>

Next ==
    \/ \E p \in Proposals, a \in Attempts : Issue(p, a)
    \/ Respond
    \/ \E q \in requests : NoResponse(q) \/ \E r \in sent : Judge(q, r)
    \/ Tick

Spec == Init /\ [][Next]_vars

------------------------------------------------------------------------------
(* Properties *)

\* evaluateDecision: an attempt goes on with one outcome.  A late response does
\* not overrule the outcome without one, nor a second response the first.
OutcomeOnce ==
    [][\A a \in Attempts : outcome[a] # None => outcome'[a] = outcome[a]]_vars

\* The outcome is what the policy gives to an actor's choice, or to silence.
AuthorizedBy(q) ==
    \/ /\ outcome[q.attempt] = PolicyOf(q).noResponse
       /\ now >= q.expires /\ ~ Consumed(q)
    \/ \E r \in Prior(q) :
          /\ r.request = q /\ r.choice \in DOMAIN PolicyOf(q).choices
          /\ PolicyOf(q).requiredRole \in r.roles
          /\ outcome[q.attempt] = PolicyOf(q).choices[r.choice]

\* Binding and decision together: the outcome of an attempt is the one the
\* step's policy gives to what an actor of the policy's role chose on the
\* request that stood, or to silence until its time was over.
OutcomeAuthorized ==
    \A a \in Attempts :
        outcome[a] # None => \E q \in standing : q.attempt = a /\ AuthorizedBy(q)

\* evaluateDecision: the accepted response is recognised whenever it comes
\* again, and another response under its id is refused.
ReplayRecognised ==
    \A p \in accepted, r \in sent :
        LET verdict == ResponseVerdict(p[1], r, Prior(p[1]), now, Replaced(p[1]),
                                       Consumed(p[1]))
        IN  /\ r = p[2] => verdict = "idempotent-duplicate"
            /\ r # p[2] => verdict \notin {"idempotent-duplicate", "decision-valid"}

\* Both together: an attempt's outcome is authorized, and what gave it is
\* recognised for ever.
DecisionSound == OutcomeAuthorized /\ ReplayRecognised
==============================================================================
