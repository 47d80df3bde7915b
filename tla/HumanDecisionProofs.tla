-------------------------- MODULE HumanDecisionProofs --------------------------
(***************************************************************************)
(* The safety of HumanDecision for any graph, proposals, actors and bounds. *)
(* What carries the proofs: every issued request restates its policy, one   *)
(* request stands for an attempt, and an accepted response was given to the *)
(* request it consumed.                                                     *)
(***************************************************************************)
EXTENDS HumanDecision, TLAPS

\* Every issued request is bound.
Bound ==
    \A q \in requests :
        /\ q.attempt \in Attempts /\ q.expires \in Nat
        /\ q.choices = PolicyOf(q).choices
        /\ q.noResponse = PolicyOf(q).noResponse
        /\ q.requiredRole = PolicyOf(q).requiredRole
        /\ q.choices \in [DOMAIN q.choices -> Outcomes]
        /\ q.noResponse \in Outcomes

OneStands == \A q1, q2 \in standing : q1.attempt = q2.attempt => q1 = q2

\* An accepted response answers the request it is filed under.
Answers(q, r) ==
    /\ r.organization = q.organization /\ r.attempt = q.attempt /\ r.request = q
    /\ r.choice \in DOMAIN q.choices /\ q.requiredRole \in r.roles

\* What consumed a request gave an outcome to its attempt, and was alone.
Answered ==
    /\ \A p \in accepted : Answers(p[1], p[2]) /\ outcome[p[1].attempt] # None
    /\ \A p1, p2 \in accepted : p1[1] = p2[1] => p1 = p2

IInv == TypeOK /\ Bound /\ OneStands /\ Answered /\ OutcomeAuthorized

------------------------------------------------------------------------------
(* Verdicts *)

\* What a valid decision says about its inputs.
LEMMA ValidDecision ==
    ASSUME NEW q, NEW r, NEW prior, NEW time, NEW replaced \in BOOLEAN,
           NEW consumed \in BOOLEAN,
           ResponseVerdict(q, r, prior, time, replaced, consumed) = "decision-valid"
    PROVE  Answers(q, r) /\ ~ Expired(q, time) /\ ~ replaced /\ ~ consumed
<1>1. ReplayVerdict(r, prior) # "decision-valid"
  BY DEF ReplayVerdict
<1> QED
  BY <1>1 DEF ResponseVerdict, Answers

\* What a bound proposal says about itself.
LEMMA BoundProposal ==
    ASSUME NEW p, BindingVerdict(p, Graph) = "decision-binding-valid"
    PROVE  PolicyRestated(p, PolicyOf(p))
BY DEF BindingVerdict, PolicyOf

------------------------------------------------------------------------------
(* The invariant *)

LEMMA InitIInv == ASSUME Init PROVE IInv
BY DecisionAssumption
   DEF Init, IInv, TypeOK, Bound, OneStands, Answered, OutcomeAuthorized

\* Nothing that was accepted is forgotten, and nothing is added.
LEMMA PriorKept ==
    ASSUME accepted \subseteq requests \X sent, accepted' = accepted,
           sent \subseteq sent', NEW q
    PROVE  Prior(q)' = Prior(q)
BY DEF Prior

LEMMA IssueIInv ==
    ASSUME IInv, NEW p \in Proposals, NEW a \in Attempts, Issue(p, a)
    PROVE  IInv'
<1> USE DEF IInv
<1>1. PICK v \in Revisions, d \in 1 .. Window :
        LET q == [ number |-> Cardinality(requests), attempt |-> a,
                   organization |-> p.organization, step |-> p.step,
                   choices |-> p.choices,
                   noResponse |-> p.noResponse, requiredRole |-> p.requiredRole,
                   revision |-> v, expires |-> now + d ]
        IN  /\ requests' = requests \cup {q}
            /\ standing' = { s \in standing : s.attempt # a } \cup {q}
  BY DEF Issue
<1> DEFINE q == [ number |-> Cardinality(requests), attempt |-> a,
                  organization |-> p.organization, step |-> p.step,
                  choices |-> p.choices,
                  noResponse |-> p.noResponse, requiredRole |-> p.requiredRole,
                  revision |-> v, expires |-> now + d ]
<1>2. /\ requests' = requests \cup {q}
      /\ standing' = { s \in standing : s.attempt # a } \cup {q}
      /\ UNCHANGED <<sent, accepted, outcome, now>>
      /\ outcome[a] = None
  BY <1>1 DEF Issue
<1>3. q.attempt = a /\ q.step = p.step /\ q.choices = p.choices
      /\ q.noResponse = p.noResponse /\ q.requiredRole = p.requiredRole
      /\ q.expires = now + d
  OBVIOUS
<1> HIDE DEF q
<1>4. q.expires \in Nat
  BY <1>3, DecisionAssumption DEF TypeOK
<1>5. /\ q.choices = PolicyOf(q).choices
      /\ q.noResponse = PolicyOf(q).noResponse
      /\ q.requiredRole = PolicyOf(q).requiredRole
  BY <1>3, BoundProposal DEF Issue, PolicyRestated, PolicyOf
<1>6. p.choices \in [DOMAIN p.choices -> Outcomes] /\ p.noResponse \in Outcomes
  <2>1. p.choices = [ c \in DOMAIN p.choices |-> p.choices[c] ]
    BY DecisionAssumption
  <2>2. ASSUME NEW c \in DOMAIN p.choices PROVE p.choices[c] \in Outcomes
    <3> DEFINE M(x) == { x.choices[k] : k \in DOMAIN x.choices }
    <3>1. p.choices[c] \in M(p)
      OBVIOUS
    <3>2. M(p) \in { M(x) : x \in Proposals }
      OBVIOUS
    <3> QED
      BY <3>1, <3>2, Zenon DEF Outcomes
  <2>3. p.noResponse \in Outcomes
    BY DEF Outcomes
  <2> QED
    BY <2>1, <2>2, <2>3
<1>7. Bound'
  BY <1>2, <1>3, <1>4, <1>5, <1>6 DEF Bound, PolicyOf
<1>8. TypeOK'
  <2>1. q.choices \in [DOMAIN PolicyOf(q).choices -> Outcomes]
    BY <1>3, <1>5, <1>6
  <2>2. \A x \in requests' : x.choices \in [DOMAIN PolicyOf(x).choices -> Outcomes]
    BY <1>2, <2>1 DEF TypeOK
  <2>3. sent' \subseteq Response'
    BY <1>2 DEF TypeOK, Response
  <2> QED
    BY <1>2, <2>2, <2>3 DEF TypeOK, PolicyOf
<1>9. OneStands'
  BY <1>2, <1>3 DEF OneStands
<1>10. Answered'
  BY <1>2 DEF Answered
<1>11. OutcomeAuthorized'
  <2>1. ASSUME NEW b \in Attempts, outcome[b] # None
        PROVE  \E x \in standing' : x.attempt = b /\ AuthorizedBy(x)'
    <3>1. PICK x \in standing : x.attempt = b /\ AuthorizedBy(x)
      BY <2>1 DEF OutcomeAuthorized
    <3>2. x \in standing'
      BY <1>2, <2>1, <3>1
    <3>3. Prior(x)' = Prior(x)
      BY <1>2, PriorKept DEF TypeOK
    <3>4. AuthorizedBy(x)'
      BY <1>2, <3>1, <3>3 DEF AuthorizedBy, Consumed, PolicyOf
    <3> QED
      BY <3>1, <3>2, <3>4
  <2> QED
    BY <1>2, <2>1 DEF OutcomeAuthorized
<1> QED
  BY <1>7, <1>8, <1>9, <1>10, <1>11

LEMMA RespondIInv == ASSUME IInv, Respond PROVE IInv'
<1> USE DEF IInv
<1>1. PICK r \in Response : sent' = sent \cup {r}
  BY DEF Respond
<1>2. UNCHANGED <<requests, standing, accepted, outcome, now>>
  BY DEF Respond
<1>3. TypeOK'
  BY <1>1, <1>2 DEF TypeOK, Response, PolicyOf
<1>4. Bound' /\ OneStands' /\ Answered'
  BY <1>2 DEF Bound, OneStands, Answered, PolicyOf
<1>5. \A q : Prior(q)' = Prior(q)
  BY <1>1, <1>2, PriorKept DEF TypeOK
<1>6. \A q : AuthorizedBy(q) => AuthorizedBy(q)'
  BY <1>2, <1>5 DEF AuthorizedBy, Consumed, PolicyOf
<1>7. OutcomeAuthorized'
  BY <1>2, <1>6 DEF OutcomeAuthorized
<1> QED
  BY <1>3, <1>4, <1>7

LEMMA NoResponseIInv ==
    ASSUME IInv, NEW q \in requests, NoResponse(q) PROVE IInv'
<1> USE DEF IInv
<1>1. /\ q \in standing /\ outcome[q.attempt] = None /\ now >= q.expires
      /\ outcome' = [outcome EXCEPT ![q.attempt] = q.noResponse]
      /\ UNCHANGED <<requests, standing, sent, accepted, now>>
  BY DEF NoResponse
<1>2. q.attempt \in Attempts /\ q.noResponse \in Outcomes
  BY DEF Bound
<1>3. TypeOK'
  BY <1>1, <1>2 DEF TypeOK, Response, PolicyOf
<1>4. Bound' /\ OneStands' /\ Answered'
  BY <1>1 DEF Bound, OneStands, Answered, PolicyOf
<1>5. \A x : Prior(x)' = Prior(x)
  BY <1>1 DEF Prior
<1>6. ~ Consumed(q)
  BY <1>1 DEF Answered, Consumed, Prior
<1>7. Answered'
  BY <1>1, <1>2, DecisionAssumption DEF Answered, Answers, Bound, TypeOK
<1>8. AuthorizedBy(q)'
  BY <1>1, <1>2, <1>5, <1>6 DEF AuthorizedBy, Consumed, PolicyOf, Bound, TypeOK
<1>9. OutcomeAuthorized'
  <2>1. ASSUME NEW b \in Attempts, outcome'[b] # None
        PROVE  \E x \in standing' : x.attempt = b /\ AuthorizedBy(x)'
    <3>1. CASE b = q.attempt
      BY <1>1, <1>8, <3>1
    <3>2. CASE b # q.attempt
      <4>1. outcome'[b] = outcome[b]
        BY <1>1, <3>2 DEF TypeOK
      <4>2. PICK x \in standing : x.attempt = b /\ AuthorizedBy(x)
        BY <2>1, <4>1 DEF OutcomeAuthorized
      <4>3. AuthorizedBy(x)'
        BY <1>1, <1>5, <4>1, <4>2 DEF AuthorizedBy, Consumed, PolicyOf
      <4> QED
        BY <1>1, <4>2, <4>3
    <3> QED
      BY <3>1, <3>2
  <2> QED
    BY <2>1 DEF OutcomeAuthorized
<1> QED
  BY <1>3, <1>4, <1>7, <1>9

\* What an applied response says about the request it was applied to.
LEMMA Judged ==
    ASSUME IInv, NEW q \in requests, NEW r \in sent, Judge(q, r)
    PROVE  /\ Answers(q, r) /\ q \in standing /\ ~ Consumed(q)
           /\ ~ (now >= q.expires) /\ outcome[q.attempt] = None
<1>1. Replaced(q) \in BOOLEAN /\ Consumed(q) \in BOOLEAN
  BY DEF Replaced, Consumed
<1>2. /\ Answers(q, r) /\ ~ Expired(q, now) /\ ~ Replaced(q) /\ ~ Consumed(q)
  BY <1>1, ValidDecision DEF Judge
<1>3. q \in standing /\ ~ (now >= q.expires)
  BY <1>2 DEF Replaced, Expired
<1>4. ~ AuthorizedBy(q)
  BY <1>2, <1>3 DEF AuthorizedBy, Consumed
<1>5. outcome[q.attempt] = None
  BY <1>3, <1>4 DEF IInv, OutcomeAuthorized, OneStands, Bound
<1> QED
  BY <1>2, <1>3, <1>5

LEMMA JudgeIInv ==
    ASSUME IInv, NEW q \in requests, NEW r \in sent, Judge(q, r)
    PROVE  IInv'
<1> USE DEF IInv
<1>1. /\ accepted' = accepted \cup {<<q, r>>}
      /\ outcome' = [outcome EXCEPT ![q.attempt] = q.choices[r.choice]]
      /\ UNCHANGED <<requests, standing, sent, now>>
  BY DEF Judge
<1>2. /\ Answers(q, r) /\ q \in standing /\ outcome[q.attempt] = None
  BY Judged
<1>3. q.attempt \in Attempts /\ q.choices[r.choice] \in Outcomes
  BY <1>2 DEF Bound, Answers
<1>4. TypeOK'
  BY <1>1, <1>3 DEF TypeOK, Response, PolicyOf
<1>5. Bound' /\ OneStands'
  BY <1>1 DEF Bound, OneStands, PolicyOf
<1>6. outcome'[q.attempt] = q.choices[r.choice] /\ outcome'[q.attempt] # None
  BY <1>1, <1>3, DecisionAssumption DEF TypeOK
<1>7. \A b \in Attempts : b # q.attempt => outcome'[b] = outcome[b]
  BY <1>1 DEF TypeOK
<1>8. Answered'
  <2>1. \A p \in accepted : p[1] # q
    BY Judged DEF Consumed, Prior, TypeOK
  <2>2. \A p1, p2 \in accepted' : p1[1] = p2[1] => p1 = p2
    BY <1>1, <2>1 DEF Answered
  <2>3. \A p \in accepted' : Answers(p[1], p[2])
    BY <1>1, <1>2 DEF Answered
  <2>4. \A p \in accepted' : outcome'[p[1].attempt] # None
    BY <1>1, <1>6, <1>7 DEF Answered, Bound, TypeOK
  <2> QED
    BY <2>2, <2>3, <2>4 DEF Answered, Answers
<1>9. \A x : x # q => Prior(x)' = Prior(x)
  BY <1>1 DEF Prior
<1>10. r \in Prior(q)'
  BY <1>1 DEF Prior
<1>11. AuthorizedBy(q)'
  BY <1>1, <1>2, <1>6, <1>10 DEF AuthorizedBy, Answers, Bound, PolicyOf
<1>12. OutcomeAuthorized'
  <2>1. ASSUME NEW b \in Attempts, outcome'[b] # None
        PROVE  \E x \in standing' : x.attempt = b /\ AuthorizedBy(x)'
    <3>1. CASE b = q.attempt
      BY <1>1, <1>2, <1>11, <3>1
    <3>2. CASE b # q.attempt
      <4>1. PICK x \in standing : x.attempt = b /\ AuthorizedBy(x)
        BY <1>7, <2>1, <3>2 DEF OutcomeAuthorized
      <4>2. AuthorizedBy(x)'
        BY <1>1, <1>7, <1>9, <3>2, <4>1 DEF AuthorizedBy, Consumed, PolicyOf
      <4> QED
        BY <1>1, <4>1, <4>2
    <3> QED
      BY <3>1, <3>2
  <2> QED
    BY <2>1 DEF OutcomeAuthorized
<1> QED
  BY <1>4, <1>5, <1>8, <1>12

LEMMA TickIInv == ASSUME IInv, Tick PROVE IInv'
<1> USE DEF IInv
<1>1. /\ now < MaxTime /\ now' = now + 1
      /\ UNCHANGED <<requests, standing, sent, accepted, outcome>>
  BY DEF Tick
<1>2. TypeOK'
  BY <1>1, DecisionAssumption DEF TypeOK, Response, PolicyOf
<1>3. Bound' /\ OneStands' /\ Answered'
  BY <1>1 DEF Bound, OneStands, Answered, PolicyOf
<1>4. \A x : Prior(x)' = Prior(x)
  BY <1>1 DEF Prior
<1>5. \A x \in standing : AuthorizedBy(x) => AuthorizedBy(x)'
  <2> SUFFICES ASSUME NEW x \in standing, AuthorizedBy(x) PROVE AuthorizedBy(x)'
    OBVIOUS
  <2>1. now >= x.expires => now' >= x.expires
    BY <1>1 DEF TypeOK, Bound
  <2> QED
    BY <1>1, <1>4, <2>1 DEF AuthorizedBy, Consumed, PolicyOf
<1>6. OutcomeAuthorized'
  BY <1>1, <1>5 DEF OutcomeAuthorized
<1> QED
  BY <1>2, <1>3, <1>6

LEMMA StutterIInv == ASSUME IInv, UNCHANGED vars PROVE IInv'
<1>1. UNCHANGED <<requests, standing, sent, accepted, outcome, now>>
  BY DEF vars
<1>2. TypeOK' /\ Bound' /\ OneStands' /\ Answered'
  BY <1>1 DEF IInv, TypeOK, Response, Bound, OneStands, Answered, PolicyOf
<1>3. \A x : Prior(x)' = Prior(x)
  BY <1>1 DEF Prior
<1>4. OutcomeAuthorized'
  BY <1>1, <1>3 DEF IInv, OutcomeAuthorized, AuthorizedBy, Consumed, PolicyOf
<1> QED
  BY <1>2, <1>4 DEF IInv

LEMMA NextIInv == ASSUME IInv, [Next]_vars PROVE IInv'
BY IssueIInv, RespondIInv, JudgeIInv, NoResponseIInv, TickIInv, StutterIInv
   DEF Next

\* The inductive invariant holds in every reachable state.
THEOREM Invariant == Spec => []IInv
<1>1. Init => IInv
  BY InitIInv
<1>2. IInv /\ [Next]_vars => IInv'
  BY NextIInv
<1> QED
  BY <1>1, <1>2, PTL DEF Spec

------------------------------------------------------------------------------
(* Theorems *)

\* Type correctness; issued requests offer what their policy maps.
THEOREM TypeCorrect == Spec => []TypeOK
<1>1. IInv => TypeOK
  BY DEF IInv
<1> QED
  BY <1>1, Invariant, PTL

\* The outcome of an attempt is the one the policy gives to an authorized
\* choice on the request that stood, or to silence.
THEOREM OutcomesAuthorized == Spec => []OutcomeAuthorized
<1>1. IInv => OutcomeAuthorized
  BY DEF IInv
<1> QED
  BY <1>1, Invariant, PTL

\* An attempt never changes its outcome.
THEOREM OutcomesOnce == Spec => OutcomeOnce
<1> DEFINE Once == \A a \in Attempts : outcome[a] # None => outcome'[a] = outcome[a]
<1>1. ASSUME IInv, [Next]_vars PROVE [Once]_vars
  <2>1. ASSUME NEW q \in requests, NEW r \in sent, Judge(q, r) PROVE Once
    BY <1>1, <2>1, Judged DEF Judge, IInv, TypeOK
  <2>2. ASSUME NEW q \in requests, NoResponse(q) PROVE Once
    BY <1>1, <2>2 DEF NoResponse, IInv, TypeOK
  <2>3. ASSUME NEW p \in Proposals, NEW a \in Attempts, Issue(p, a) PROVE Once
    BY <2>3 DEF Issue
  <2>4. CASE Respond
    BY <2>4 DEF Respond
  <2>5. CASE Tick
    BY <2>5 DEF Tick
  <2> QED
    BY <1>1, <2>1, <2>2, <2>3, <2>4, <2>5 DEF Next
<1> QED
  BY <1>1, Invariant, PTL DEF Spec, OutcomeOnce

\* A response that was accepted is recognised for ever, and no other response
\* to its request is.
THEOREM ReplaysRecognised == Spec => []ReplayRecognised
<1>1. ASSUME IInv, NEW p \in accepted, NEW r \in sent
      PROVE  LET verdict == ResponseVerdict(p[1], r, Prior(p[1]), now,
                                            Replaced(p[1]), Consumed(p[1]))
             IN  /\ r = p[2] => verdict = "idempotent-duplicate"
                 /\ r # p[2] => verdict \notin {"idempotent-duplicate",
                                                "decision-valid"}
  <2>1. PICK q, x : p = <<q, x>> /\ x \in sent /\ q \in requests
    BY <1>1 DEF IInv, TypeOK
  <2>2. Prior(q) = {x} /\ Consumed(q)
    BY <1>1, <2>1 DEF Prior, Consumed, IInv, Answered
  <2>3. Answers(q, x)
    BY <1>1, <2>1 DEF IInv, Answered
  <2>4. p[1] = q /\ p[2] = x
    BY <2>1
  <2>5. r = x => ResponseVerdict(q, r, Prior(q), now, Replaced(q), Consumed(q))
                 = "idempotent-duplicate"
    BY <2>2, <2>3 DEF ResponseVerdict, Replayed, ReplayVerdict, Answers
  <2>6. r # x => ResponseVerdict(q, r, Prior(q), now, Replaced(q), Consumed(q))
                 \notin {"idempotent-duplicate", "decision-valid"}
    BY <2>2 DEF ResponseVerdict, ReplayVerdict
  <2> QED
    BY <2>4, <2>5, <2>6
<1>2. IInv => ReplayRecognised
  BY <1>1 DEF ReplayRecognised
<1> QED
  BY <1>2, Invariant, PTL

\* Outcomes are authorized, and the responses that gave them recognised.
THEOREM DecisionsSound == Spec => []DecisionSound
<1>1. OutcomeAuthorized /\ ReplayRecognised => DecisionSound
  BY DEF DecisionSound
<1> QED
  BY <1>1, OutcomesAuthorized, ReplaysRecognised, PTL
==============================================================================
