---------------------------- MODULE ReviewQuorum -----------------------------
(***************************************************************************)
(* Two agents review what other agents wrote (packages/sdk-ts,             *)
(* agent-review-quorum.ts, and its Rust twin quorum.rs).  The subject is   *)
(* edited while it is reviewed; the harness observes who edits it and who  *)
(* reads a sibling's review.  Boundaries, which may crash at any time,     *)
(* collect two reviews, read the lineage, claim the nonces one by one and  *)
(* put the facts to evaluateAgentReviewQuorum.                             *)
(*                                                                         *)
(* A digest of a subject is its version; a lineage digest is the version   *)
(* whose contributors it lists.  Instants are counted in the finest unit a *)
(* timestamp can have; Resolution of them make the unit that the evaluator *)
(* compares: Date.parse keeps milliseconds, chrono everything.             *)
(***************************************************************************)
EXTENDS Naturals, Sequences, FiniteSets, Functions

CONSTANTS
    Agent, Nonce,
    Evidence,              \* the sets of evidence digests one may refer to
    Boundary,              \* the processes that collect quorums
    Provider,              \* agent |-> whose model it runs on
    Requirements,          \* the diversity requirements of the policy
    Defects,               \* the refusals a review may deserve by itself
    Resolution,            \* instants in one unit of the evaluator's clock
    Ahead,                 \* how far ahead a review may be dated
    Lifetime,              \* the lifetimes a review may have
    MaxVersion, MaxReviews, MaxTime    \* bounds of the model

ASSUME QuorumAssumption ==
    /\ Resolution \in Nat \ {0}
    /\ Ahead \subseteq Nat
    /\ Lifetime \subseteq Nat
    /\ {MaxVersion, MaxReviews, MaxTime} \subseteq Nat
    /\ Requirements \subseteq {"provider"}

VARIABLES
    contributors,  \* version |-> the agents whose bytes it contains
    reviews,       \* every review submitted
    work,          \* what each boundary has collected, none or one job
    claimed,       \* the replay store
    quorums,       \* the quorums found valid, in order
    now

vars == <<contributors, reviews, work, claimed, quorums, now>>

Version == Len(contributors)

------------------------------------------------------------------------------
(* evaluateAgentReviewQuorum *)

\* Date.parse, or the instants of chrono when Resolution is one.
Parsed(t) == t \div Resolution

\* The checks of one review that need nothing but the review.
Attested == << "review-rejected", "reviewer-identity-invalid",
               "review-isolation-invalid", "non-disclosure-invalid",
               "signing-key-invalid" >>

FirstDefect(review) ==
    LET found == { i \in DOMAIN Attested : Attested[i] \in review.defects }
    IN  IF found = {} THEN "none"
        ELSE Attested[CHOOSE i \in found : \A j \in found : i <= j]

\* The review against the subject and the lineage of the quorum.
BindingVerdict(review, facts) ==
    IF review.reviewer \in facts.lineage.contributors
    THEN "reviewer-is-contributor"
    ELSE IF review.subject # facts.subject THEN "subject-mismatch"
    ELSE IF review.evidence # facts.evidence THEN "evidence-mismatch"
    ELSE IF review.lineage # facts.lineage.digest THEN "lineage-mismatch"
    ELSE IF review.contributors # facts.lineage.contributors
    THEN "lineage-contributors-mismatch"
    ELSE "none"

TimeVerdict(review, at) ==
    IF Parsed(review.issuedAt) >= Parsed(review.expiresAt)
    THEN "review-time-invalid"
    ELSE IF Parsed(at) < Parsed(review.issuedAt) THEN "review-time-invalid"
    ELSE IF Parsed(at) >= Parsed(review.expiresAt) THEN "review-expired"
    ELSE "none"

ReviewVerdict(review, nonceClaimed, facts) ==
    IF FirstDefect(review) # "none" THEN FirstDefect(review)
    ELSE IF BindingVerdict(review, facts) # "none"
    THEN BindingVerdict(review, facts)
    ELSE IF review.disclosed THEN "blind-review-violated"
    ELSE IF "signature-invalid" \in review.defects THEN "signature-invalid"
    ELSE IF ~ nonceClaimed THEN "nonce-replayed"
    ELSE TimeVerdict(review, facts.at)

\* The two reviews against each other.
PairVerdict(first, second) ==
    IF first.reviewer = second.reviewer THEN "duplicate-reviewer"
    ELSE IF first.run = second.run THEN "duplicate-review-run"
    ELSE IF first.nonce = second.nonce THEN "duplicate-nonce"
    ELSE IF first = second THEN "duplicate-signature"
    ELSE IF "provider" \in Requirements
            /\ Provider[first.reviewer] = Provider[second.reviewer]
    THEN "diversity-requirement-violated"
    ELSE "valid"

\* Mutant: the lineage may be of another version.
QuorumVerdictAnyLineage(facts) ==
    LET verdict(i) == ReviewVerdict(facts.reviews[i], facts.claims[i], facts)
    IN  IF Len(facts.reviews) # 2 THEN "review-count-invalid"
        ELSE IF ~ facts.lineage.trusted THEN "lineage-invalid"
        ELSE IF verdict(1) # "none" THEN verdict(1)
        ELSE IF verdict(2) # "none" THEN verdict(2)
        ELSE PairVerdict(facts.reviews[1], facts.reviews[2])

QuorumVerdict(facts) ==
    LET verdict(i) == ReviewVerdict(facts.reviews[i], facts.claims[i], facts)
    IN  IF Len(facts.reviews) # 2 THEN "review-count-invalid"
        ELSE IF ~ facts.lineage.trusted THEN "lineage-invalid"
        ELSE IF facts.lineage.digest # facts.subject
        THEN "lineage-subject-mismatch"
        ELSE IF verdict(1) # "none" THEN verdict(1)
        ELSE IF verdict(2) # "none" THEN verdict(2)
        ELSE PairVerdict(facts.reviews[1], facts.reviews[2])

------------------------------------------------------------------------------
(* The subject, its authors and its reviewers *)

\* A new version: an editor may keep what others wrote, or rewrite it.
Edit(agent) ==
    /\ Version < MaxVersion
    /\ \E kept \in SUBSET contributors[Version] :
           contributors' = Append(contributors, kept \cup {agent})
    /\ UNCHANGED <<reviews, work, claimed, quorums, now>>

SubmittedTo(subject, agent) ==
    \E sibling \in reviews : sibling.subject = subject /\ sibling.reviewer # agent

\* A reviewer reads the subject and the lineage at different times, may leave
\* itself out of the contributors and may date its review in the future; it has
\* one run for each nonce it chooses.  The harness records whether it has read
\* a sibling's review.
Submit(agent) ==
    /\ Cardinality(reviews) < MaxReviews
    /\ \E subject, lineage \in 1 .. Version, nonce \in Nonce,
          evidence \in Evidence, ahead \in Ahead, lifetime \in Lifetime,
          disclosed \in BOOLEAN,
          defects \in { D \in SUBSET Defects : Cardinality(D) <= 1 } :
         \E listed \in {contributors[lineage], contributors[lineage] \ {agent}} :
            /\ disclosed => SubmittedTo(subject, agent)
            /\ reviews' = reviews \cup
                {[ reviewer |-> agent, run |-> <<agent, nonce>>, nonce |-> nonce,
                   subject |-> subject, evidence |-> evidence,
                   lineage |-> lineage, contributors |-> listed,
                   disclosed |-> disclosed, defects |-> defects,
                   issuedAt |-> now + ahead,
                   expiresAt |-> now + ahead + lifetime ]}
    /\ UNCHANGED <<contributors, work, claimed, quorums, now>>

------------------------------------------------------------------------------
(* The boundary *)

\* It takes reviews, of whatever version and perhaps one twice.
Collect(b) ==
    /\ work[b] = {}
    /\ \E first, second \in reviews :
         \E chosen \in {<<first>>, <<first, second>>} :
            work' = [ work EXCEPT ![b] =
                {[ reviews |-> chosen, claims |-> << >> ]} ]
    /\ UNCHANGED <<contributors, reviews, claimed, quorums, now>>

\* One atomic claim; an outage of the replay store claims nothing.
Claim(b) ==
    \E job \in work[b], reached \in BOOLEAN :
        LET next == Len(job.claims) + 1
        IN  /\ next <= Len(job.reviews)
            /\ LET nonce == job.reviews[next].nonce
                   won   == reached /\ nonce \notin claimed
               IN  /\ work' = [ work EXCEPT ![b] =
                          {[ job EXCEPT !.claims = Append(@, won) ]} ]
                   /\ claimed' = IF won THEN claimed \cup {nonce} ELSE claimed
            /\ UNCHANGED <<contributors, reviews, quorums, now>>

\* The subject and the lineage were read at different times since it started
\* or before; a lineage that the harness did not sign may list anyone.
Reading(subject, lineage, trusted, evidence, job) ==
    [ subject |-> subject, evidence |-> evidence,
      lineage |-> [ trusted |-> trusted, digest |-> lineage,
                    contributors |-> IF trusted THEN contributors[lineage]
                                     ELSE {} ],
      reviews |-> job.reviews, claims |-> job.claims, at |-> now ]

Evaluate(b) ==
    \E job \in work[b] :
        /\ Len(job.claims) = Len(job.reviews)
        /\ \E subject, lineage \in 1 .. Version, trusted \in BOOLEAN,
              evidence \in Evidence :
             LET facts == Reading(subject, lineage, trusted, evidence, job)
             IN  quorums' = IF QuorumVerdict(facts) = "valid"
                            THEN Append(quorums, facts) ELSE quorums
        /\ work' = [ work EXCEPT ![b] = {} ]
        /\ UNCHANGED <<contributors, reviews, claimed, now>>

\* The claims it has made stay made.
Crash(b) ==
    /\ work[b] # {}
    /\ work' = [ work EXCEPT ![b] = {} ]
    /\ UNCHANGED <<contributors, reviews, claimed, quorums, now>>

Tick ==
    /\ now < MaxTime
    /\ now' = now + 1
    /\ UNCHANGED <<contributors, reviews, work, claimed, quorums>>

\* Only a deterministically compiled plan has no contributor.
Init ==
    /\ \E first \in { C \in SUBSET Agent : Cardinality(C) <= 1 } :
           contributors = <<first>>
    /\ reviews = {}
    /\ work = [ b \in Boundary |-> {} ]
    /\ claimed = {}
    /\ quorums = << >>
    /\ now = 0

Next ==
    \/ \E agent \in Agent : Edit(agent) \/ Submit(agent)
    \/ \E b \in Boundary :
           Collect(b) \/ Claim(b) \/ Evaluate(b) \/ Crash(b)
    \/ Tick

Spec == Init /\ [][Next]_vars

------------------------------------------------------------------------------
(* Properties *)

Review ==
    [ reviewer : Agent, run : Agent \X Nonce, nonce : Nonce,
      subject : Nat \ {0}, evidence : Evidence, lineage : Nat \ {0},
      contributors : SUBSET Agent, disclosed : BOOLEAN,
      defects : SUBSET Defects, issuedAt : Nat, expiresAt : Nat ]

Lineage == [ trusted : BOOLEAN, digest : Nat, contributors : SUBSET Agent ]

Job == [ reviews : Seq(Review), claims : Seq(BOOLEAN) ]

Facts == [ subject : Nat \ {0}, evidence : Evidence, lineage : Lineage,
           reviews : Seq(Review), claims : Seq(BOOLEAN), at : Nat ]

\* Type correctness of the reviews, of what the boundaries have collected and of
\* the quorums found: a quorum counts exactly two reviews.
TypeOK ==
    /\ contributors \in Seq(SUBSET Agent)
    /\ reviews \subseteq Review
    /\ work \in [Boundary -> SUBSET Job]
    /\ claimed \subseteq Nonce
    /\ quorums \in Seq(Facts)
    /\ \A q \in Range(quorums) : Len(q.reviews) = 2
    /\ now \in Nat

\* The two reviews of a quorum are those of two different agents, neither of
\* whom wrote a byte of the subject, on two providers where the policy asks for
\* it; whatever lineage the boundary read, and however often the subject was
\* edited since it and the reviewers looked at it.
TwoOutsiders ==
    \A q \in Range(quorums) :
        LET first  == q.reviews[1].reviewer
            second == q.reviews[2].reviewer
        IN  /\ first # second
            /\ {first, second} \cap contributors[q.subject] = {}
            /\ "provider" \in Requirements => Provider[first] # Provider[second]

\* No nonce counts in two quorums, nor twice in one, however often boundaries
\* crash and collect the same reviews again.
CountedOnce ==
    \A i, j \in DOMAIN quorums : \A k, l \in {1, 2} :
        quorums[i].reviews[k].nonce = quorums[j].reviews[l].nonce
            => i = j /\ k = l

\* Both together: every quorum is the approval of two outsiders, counted once.
QuorumSound == TwoOutsiders /\ CountedOnce

\* contracts/agent-orchestration/SEMANTICS.md:59 of an eligible review:
\* "issuedAt <= evaluation time < expiresAt".
InTime ==
    \A q \in Range(quorums) : \A k \in {1, 2} :
        /\ q.reviews[k].issuedAt <= q.at
        /\ q.at < q.reviews[k].expiresAt

==============================================================================
