-------------------------- MODULE ReviewQuorumProofs --------------------------
(***************************************************************************)
(* The safety of ReviewQuorum for any agents, nonces, boundaries and        *)
(* bounds.  What carries the proofs: versions keep their contributors, and  *)
(* a claimed nonce is held by one claim of one boundary or counted in one   *)
(* place of one quorum, never both.                                         *)
(***************************************************************************)
EXTENDS ReviewQuorum, TLAPS

\* Boundary b holds nonce n by its claim for review i.
Holds(b, i, n) ==
    \E job \in work[b] :
        /\ i \in 1 .. Len(job.claims)
        /\ job.claims[i] = TRUE
        /\ job.reviews[i].nonce = n

\* Nonce n counts as review k of quorum m.
Counts(m, k, n) ==
    m \in DOMAIN quorums /\ k \in {1, 2} /\ quorums[m].reviews[k].nonce = n

\* A boundary has one job, and claims for the reviews it took.
OneJob ==
    \A b \in Boundary : \A job \in work[b] :
        Len(job.claims) <= Len(job.reviews) /\ work[b] = {job}

HeldOnce ==
    \A b, c \in Boundary : \A i, j \in Nat : \A n \in Nonce :
        Holds(b, i, n) /\ Holds(c, j, n) => b = c /\ i = j

HeldClaimed ==
    \A b \in Boundary : \A i \in Nat : \A n \in Nonce :
        Holds(b, i, n) => n \in claimed

\* What is counted was claimed, and is no longer held.
CountedClaimed ==
    \A m, k \in Nat : \A n \in Nonce : Counts(m, k, n) =>
        n \in claimed /\ \A b \in Boundary : \A i \in Nat : ~ Holds(b, i, n)

CountedAtOnePlace ==
    \A m, p, k, l \in Nat : \A n \in Nonce :
        Counts(m, k, n) /\ Counts(p, l, n) => m = p /\ k = l

\* There is a version, and the subject of a quorum is one.
SubjectKnown ==
    Version # 0 /\ \A q \in Range(quorums) : q.subject \in 1 .. Version

IInv == /\ TypeOK /\ OneJob /\ HeldOnce /\ HeldClaimed /\ CountedClaimed
        /\ CountedAtOnePlace /\ SubjectKnown /\ TwoOutsiders

------------------------------------------------------------------------------
(* The verdict *)

\* What a review that is found good says about its nonce and its reviewer.
LEMMA GoodReview ==
    ASSUME NEW review, NEW won \in BOOLEAN, NEW facts,
           ReviewVerdict(review, won, facts) = "none"
    PROVE  /\ won = TRUE
           /\ review.reviewer \notin facts.lineage.contributors
BY DEF ReviewVerdict, BindingVerdict

\* What a pair that is found good says about its reviewers and its nonces.
LEMMA GoodPair ==
    ASSUME NEW first, NEW second, PairVerdict(first, second) = "valid"
    PROVE  /\ first.reviewer # second.reviewer
           /\ first.nonce # second.nonce
           /\ "provider" \in Requirements =>
                  Provider[first.reviewer] # Provider[second.reviewer]
BY DEF PairVerdict

\* A verdict on one review is none of the verdicts on a quorum.
LEMMA ValidQuorum ==
    ASSUME NEW facts \in Facts, QuorumVerdict(facts) = "valid"
    PROVE  /\ Len(facts.reviews) = 2
           /\ facts.lineage.trusted = TRUE
           /\ facts.lineage.digest = facts.subject
           /\ ReviewVerdict(facts.reviews[1], facts.claims[1], facts) = "none"
           /\ ReviewVerdict(facts.reviews[2], facts.claims[2], facts) = "none"
           /\ PairVerdict(facts.reviews[1], facts.reviews[2]) = "valid"
<1>1. ASSUME NEW r, NEW w PROVE ReviewVerdict(r, w, facts) # "valid"
  <2>1. FirstDefect(r) # "valid"
    <3>1. \A i \in DOMAIN Attested : Attested[i] # "valid"
      BY DEF Attested
    <3> DEFINE found == { i \in DOMAIN Attested : Attested[i] \in r.defects }
    <3>2. CASE found = {}
      BY <3>2 DEF FirstDefect
    <3>3. CASE found # {}
      <4>1. found \subseteq {1, 2, 3, 4, 5}
        BY DEF Attested
      <4>2. \E i \in found : \A j \in found : i <= j
        BY <3>3, <4>1
      <4>3. (CHOOSE i \in found : \A j \in found : i <= j) \in DOMAIN Attested
        BY <4>2
      <4> QED
        BY <3>1, <3>3, <4>3 DEF FirstDefect
    <3> QED
      BY <3>2, <3>3
  <2> QED
    BY <2>1 DEF ReviewVerdict, BindingVerdict, TimeVerdict
<1> QED
  BY <1>1 DEF QuorumVerdict, Facts, Lineage

------------------------------------------------------------------------------
(* What the steps do to the nonces held *)

\* A boundary that drops its job, or takes one up, holds nothing.
LEMMA HandsEmptied ==
    ASSUME TypeOK, NEW b \in Boundary, NEW W,
           \A job \in W : job.claims = << >>,
           work' = [ work EXCEPT ![b] = W ],
           NEW c \in Boundary, NEW i \in Nat, NEW n, Holds(c, i, n)'
    PROVE  c # b /\ Holds(c, i, n)
<1>1. CASE c = b
  <2>1. work'[c] = W
    BY <1>1 DEF TypeOK
  <2>2. \A job \in W : Len(job.claims) = 0
    OBVIOUS
  <2> QED
    BY <2>1, <2>2 DEF Holds
<1>2. CASE c # b
  <2>1. work'[c] = work[c]
    BY <1>2 DEF TypeOK
  <2> QED
    BY <1>2, <2>1 DEF Holds
<1> QED
  BY <1>1, <1>2

\* A claim adds at most its own nonce, which nobody had claimed.
LEMMA HandGrows ==
    ASSUME TypeOK, NEW b \in Boundary, NEW job \in work[b], NEW won \in BOOLEAN,
           Len(job.claims) + 1 <= Len(job.reviews),
           work' = [ work EXCEPT ![b] =
                       {[ job EXCEPT !.claims = Append(@, won) ]} ],
           NEW c \in Boundary, NEW i \in Nat, NEW n, Holds(c, i, n)'
    PROVE  \/ Holds(c, i, n)
           \/ /\ won = TRUE /\ c = b /\ i = Len(job.claims) + 1
              /\ n = job.reviews[i].nonce
<1> DEFINE grown == [ job EXCEPT !.claims = Append(@, won) ]
<1>1. job \in Job /\ job.claims \in Seq(BOOLEAN)
  BY DEF TypeOK, Job
<1>2. grown.claims = Append(job.claims, won) /\ grown.reviews = job.reviews
  BY <1>1 DEF Job
<1>3. CASE c = b
  <2>1. work'[b] = {grown}
    BY DEF TypeOK
  <2>2. /\ i \in 1 .. Len(grown.claims)
        /\ grown.claims[i] = TRUE
        /\ grown.reviews[i].nonce = n
    BY <1>3, <2>1 DEF Holds
  <2> HIDE DEF grown
  <2>5. Len(grown.claims) = Len(job.claims) + 1 /\ Len(job.claims) \in Nat
    BY <1>1, <1>2
  <2>3. CASE i \in 1 .. Len(job.claims)
    <3>1. job.claims[i] = TRUE /\ job.reviews[i].nonce = n
      BY <1>1, <1>2, <2>2, <2>3
    <3> QED
      BY <1>3, <2>3, <3>1 DEF Holds
  <2>4. CASE i = Len(job.claims) + 1
    BY <1>1, <1>2, <1>3, <2>2, <2>4
  <2>6. i \in 1 .. Len(job.claims) \/ i = Len(job.claims) + 1
    BY <2>2, <2>5
  <2> QED
    BY <2>3, <2>4, <2>6
<1>4. CASE c # b
  <2>1. work'[c] = work[c]
    BY <1>4 DEF TypeOK
  <2> QED
    BY <2>1 DEF Holds
<1> QED
  BY <1>3, <1>4

\* While quorums and claims stay and nothing more is held, the nonces stay
\* where they are.
NonceInv == HeldOnce /\ HeldClaimed /\ CountedClaimed /\ CountedAtOnePlace

LEMMA NothingMoreHeld ==
    ASSUME NonceInv, UNCHANGED <<quorums, claimed>>,
           \A c \in Boundary : \A i \in Nat : \A n \in Nonce :
               Holds(c, i, n)' => Holds(c, i, n)
    PROVE  NonceInv'
<1>1. \A m, k, n : Counts(m, k, n)' = Counts(m, k, n)
  BY DEF Counts
<1>2. HeldOnce' /\ HeldClaimed'
  BY DEF NonceInv, HeldOnce, HeldClaimed
<1>3. CountedClaimed' /\ CountedAtOnePlace'
  BY <1>1 DEF NonceInv, CountedClaimed, CountedAtOnePlace
<1> QED
  BY <1>2, <1>3 DEF NonceInv

------------------------------------------------------------------------------
(* The invariant *)

LEMMA InitIInv == ASSUME Init PROVE IInv
<1>1. TypeOK
  <2>1. PICK first \in SUBSET Agent : contributors = <<first>>
    BY DEF Init
  <2>2. quorums \in Seq(Facts) /\ Range(quorums) = {}
    BY DEF Init, Range
  <2>3. work \in [Boundary -> SUBSET Job]
    BY DEF Init
  <2> QED
    BY <2>1, <2>2, <2>3 DEF Init, TypeOK
<1>2. \A b \in Boundary : work[b] = {}
  BY DEF Init
<1>3. quorums = << >> /\ DOMAIN quorums = {}
  BY DEF Init
<1>4. \A b \in Boundary : \A i, n : ~ Holds(b, i, n)
  BY <1>2 DEF Holds
<1>5. \A m, k, n : ~ Counts(m, k, n)
  BY <1>3 DEF Counts
<1>6. OneJob
  BY <1>2 DEF OneJob
<1>7. HeldOnce /\ HeldClaimed
  BY <1>4 DEF HeldOnce, HeldClaimed
<1>8. CountedClaimed /\ CountedAtOnePlace
  BY <1>5 DEF CountedClaimed, CountedAtOnePlace
<1>9. SubjectKnown /\ TwoOutsiders
  <2>1. Version = 1
    BY DEF Init, Version
  <2> QED
    BY <1>3, <2>1 DEF SubjectKnown, TwoOutsiders, Range
<1> QED
  BY <1>1, <1>6, <1>7, <1>8, <1>9 DEF IInv

LEMMA EditIInv == ASSUME IInv, NEW agent \in Agent, Edit(agent) PROVE IInv'
<1> USE DEF IInv
<1>1. PICK kept \in SUBSET contributors[Version] :
        contributors' = Append(contributors, kept \cup {agent})
  BY DEF Edit
<1>2. UNCHANGED <<reviews, work, claimed, quorums, now>>
  BY DEF Edit
<1>3. contributors \in Seq(SUBSET Agent) /\ Len(contributors) \in Nat
  BY DEF TypeOK
<1>4. kept \cup {agent} \subseteq Agent
  <2>1. contributors[Version] \subseteq Agent
    BY <1>3 DEF SubjectKnown, Version
  <2> QED
    BY <2>1
<1>5. /\ contributors' \in Seq(SUBSET Agent)
      /\ Len(contributors') = Len(contributors) + 1
      /\ \A v \in 1 .. Len(contributors) : contributors'[v] = contributors[v]
  BY <1>1, <1>3, <1>4
<1>6. TypeOK'
  BY <1>2, <1>5 DEF TypeOK
<1>7. SubjectKnown' /\ TwoOutsiders'
  BY <1>2, <1>3, <1>5 DEF SubjectKnown, TwoOutsiders, Version
<1>8. OneJob'
  BY <1>2 DEF OneJob
<1>9. NonceInv'
  BY <1>2, NothingMoreHeld DEF NonceInv, Holds
<1> QED
  BY <1>6, <1>7, <1>8, <1>9 DEF NonceInv

LEMMA SubmitIInv == ASSUME IInv, NEW agent \in Agent, Submit(agent) PROVE IInv'
<1> USE DEF IInv
<1>1. UNCHANGED <<contributors, work, claimed, quorums, now>>
  BY DEF Submit
<1>2. reviews' \subseteq Review
  <2>1. PICK subject \in 1 .. Version, lineage \in 1 .. Version,
             nonce \in Nonce, evidence \in Evidence, ahead \in Ahead,
             lifetime \in Lifetime, disclosed \in BOOLEAN,
             defects \in { D \in SUBSET Defects : Cardinality(D) <= 1 } :
          \E listed \in {contributors[lineage], contributors[lineage] \ {agent}} :
             /\ disclosed => SubmittedTo(subject, agent)
             /\ reviews' = reviews \cup
                {[ reviewer |-> agent, run |-> <<agent, nonce>>, nonce |-> nonce,
                   subject |-> subject, evidence |-> evidence,
                   lineage |-> lineage, contributors |-> listed,
                   disclosed |-> disclosed, defects |-> defects,
                   issuedAt |-> now + ahead,
                   expiresAt |-> now + ahead + lifetime ]}
    BY Zenon DEF Submit
  <2>2. /\ contributors \in Seq(SUBSET Agent) /\ now \in Nat
        /\ ahead \in Nat /\ lifetime \in Nat
    BY QuorumAssumption DEF TypeOK
  <2>3. /\ contributors[lineage] \subseteq Agent
        /\ subject \in Nat \ {0} /\ lineage \in Nat \ {0}
    BY <2>2 DEF Version
  <2>4. PICK listed \in {contributors[lineage], contributors[lineage] \ {agent}} :
          reviews' = reviews \cup
                {[ reviewer |-> agent, run |-> <<agent, nonce>>, nonce |-> nonce,
                   subject |-> subject, evidence |-> evidence,
                   lineage |-> lineage, contributors |-> listed,
                   disclosed |-> disclosed, defects |-> defects,
                   issuedAt |-> now + ahead,
                   expiresAt |-> now + ahead + lifetime ]}
    BY <2>1
  <2>5. listed \in SUBSET Agent /\ defects \in SUBSET Defects
        /\ <<agent, nonce>> \in Agent \X Nonce
        /\ now + ahead \in Nat /\ now + ahead + lifetime \in Nat
    BY <2>2, <2>3, <2>4
  <2>6. [ reviewer |-> agent, run |-> <<agent, nonce>>, nonce |-> nonce,
          subject |-> subject, evidence |-> evidence,
          lineage |-> lineage, contributors |-> listed,
          disclosed |-> disclosed, defects |-> defects,
          issuedAt |-> now + ahead,
          expiresAt |-> now + ahead + lifetime ] \in Review
    BY <2>3, <2>5 DEF Review
  <2> QED
    BY <2>4, <2>6 DEF TypeOK
<1>3. TypeOK'
  BY <1>1, <1>2 DEF TypeOK
<1>4. OneJob' /\ SubjectKnown' /\ TwoOutsiders'
  BY <1>1 DEF OneJob, SubjectKnown, TwoOutsiders, Version
<1>5. NonceInv'
  BY <1>1, NothingMoreHeld DEF NonceInv, Holds
<1> QED
  BY <1>3, <1>4, <1>5 DEF NonceInv

LEMMA CollectIInv == ASSUME IInv, NEW b \in Boundary, Collect(b) PROVE IInv'
<1> USE DEF IInv
<1>1. UNCHANGED <<contributors, reviews, claimed, quorums, now>>
  BY DEF Collect
<1>2. PICK first \in reviews, second \in reviews :
        \E chosen \in {<<first>>, <<first, second>>} :
          work' = [ work EXCEPT ![b] =
                      {[ reviews |-> chosen, claims |-> << >> ]} ]
  BY DEF Collect
<1>3. PICK chosen \in {<<first>>, <<first, second>>} :
        work' = [ work EXCEPT ![b] = {[ reviews |-> chosen, claims |-> << >> ]} ]
  BY <1>2
<1>4. chosen \in Seq(Review)
  <2>1. first \in Review /\ second \in Review
    BY DEF TypeOK
  <2>2. <<first>> \in Seq(Review) /\ <<first, second>> \in Seq(Review)
    BY <2>1
  <2> QED
    BY <2>2
<1> DEFINE job == [ reviews |-> chosen, claims |-> << >> ]
<1>5. job \in Job /\ Len(job.claims) = 0 /\ job.claims = << >>
  BY <1>4 DEF Job
<1>6. TypeOK'
  BY <1>1, <1>3, <1>5 DEF TypeOK
<1>7. OneJob'
  BY <1>3, <1>5 DEF OneJob, TypeOK
<1>8. SubjectKnown' /\ TwoOutsiders'
  BY <1>1 DEF SubjectKnown, TwoOutsiders, Version
<1>9. NonceInv'
  <2>1. \A c \in Boundary : \A i \in Nat : \A n \in Nonce :
          Holds(c, i, n)' => Holds(c, i, n)
    <3>1. work' = [ work EXCEPT ![b] = {job} ]
          /\ \A j \in {job} : j.claims = << >>
      BY <1>3, <1>5
    <3> HIDE DEF job
    <3> QED
      BY <3>1, HandsEmptied
  <2> QED
    BY <1>1, <2>1, NothingMoreHeld DEF NonceInv
<1> QED
  BY <1>6, <1>7, <1>8, <1>9 DEF NonceInv

LEMMA CrashIInv == ASSUME IInv, NEW b \in Boundary, Crash(b) PROVE IInv'
<1> USE DEF IInv
<1>1. UNCHANGED <<contributors, reviews, claimed, quorums, now>>
  BY DEF Crash
<1>2. work' = [ work EXCEPT ![b] = {} ]
  BY DEF Crash
<1>3. TypeOK'
  BY <1>1, <1>2 DEF TypeOK
<1>4. OneJob' /\ SubjectKnown' /\ TwoOutsiders'
  BY <1>1, <1>2 DEF OneJob, SubjectKnown, TwoOutsiders, Version, TypeOK
<1>5. NonceInv'
  <2>1. \A c \in Boundary : \A i \in Nat : \A n \in Nonce :
          Holds(c, i, n)' => Holds(c, i, n)
    BY <1>2, HandsEmptied
  <2> QED
    BY <1>1, <2>1, NothingMoreHeld DEF NonceInv
<1> QED
  BY <1>3, <1>4, <1>5 DEF NonceInv

LEMMA TickIInv == ASSUME IInv, Tick PROVE IInv'
<1> USE DEF IInv
<1>1. UNCHANGED <<contributors, reviews, work, claimed, quorums>>
  BY DEF Tick
<1>2. TypeOK'
  BY <1>1 DEF Tick, TypeOK
<1>3. OneJob' /\ SubjectKnown' /\ TwoOutsiders'
  BY <1>1 DEF OneJob, SubjectKnown, TwoOutsiders, Version
<1>4. NonceInv'
  BY <1>1, NothingMoreHeld DEF NonceInv, Holds
<1> QED
  BY <1>2, <1>3, <1>4 DEF NonceInv

LEMMA ClaimIInv == ASSUME IInv, NEW b \in Boundary, Claim(b) PROVE IInv'
<1> USE DEF IInv
<1>1. UNCHANGED <<contributors, reviews, quorums, now>>
  BY DEF Claim
<1>2. PICK job \in work[b], reached \in BOOLEAN :
        /\ Len(job.claims) + 1 <= Len(job.reviews)
        /\ LET nonce == job.reviews[Len(job.claims) + 1].nonce
               won   == reached /\ nonce \notin claimed
           IN  /\ work' = [ work EXCEPT ![b] =
                              {[ job EXCEPT !.claims = Append(@, won) ]} ]
               /\ claimed' = IF won THEN claimed \cup {nonce} ELSE claimed
  BY DEF Claim
<1> DEFINE next  == Len(job.claims) + 1
           nonce == job.reviews[next].nonce
           won   == reached /\ nonce \notin claimed
           grown == [ job EXCEPT !.claims = Append(@, won) ]
<1>3. /\ work' = [ work EXCEPT ![b] = {grown} ]
      /\ claimed' = IF won THEN claimed \cup {nonce} ELSE claimed
      /\ next <= Len(job.reviews) /\ won \in BOOLEAN
  BY <1>2
<1>4. job \in Job /\ job.claims \in Seq(BOOLEAN) /\ job.reviews \in Seq(Review)
  BY DEF TypeOK, Job
<1>5. next \in 1 .. Len(job.reviews) /\ job.reviews[next] \in Review
  BY <1>3, <1>4
<1>6. nonce \in Nonce
  BY <1>5 DEF Review
<1>7. /\ grown \in Job /\ grown.reviews = job.reviews
      /\ grown.claims = Append(job.claims, won)
      /\ Len(grown.claims) = next
  <2>1. Append(job.claims, won) \in Seq(BOOLEAN)
        /\ Len(Append(job.claims, won)) = next
    BY <1>3, <1>4
  <2> QED
    BY <1>4, <2>1 DEF Job
<1>8. TypeOK'
  BY <1>1, <1>3, <1>6, <1>7 DEF TypeOK
<1>9. OneJob'
  BY <1>3, <1>7 DEF OneJob, TypeOK
<1>10. SubjectKnown' /\ TwoOutsiders'
  BY <1>1 DEF SubjectKnown, TwoOutsiders, Version
<1>11. ASSUME NEW c \in Boundary, NEW i \in Nat, NEW n \in Nonce, Holds(c, i, n)'
       PROVE  \/ Holds(c, i, n)
              \/ won /\ c = b /\ i = next /\ n = nonce
  <2>1. work' = [ work EXCEPT ![b] =
                    {[ job EXCEPT !.claims = Append(@, won) ]} ]
        /\ won \in BOOLEAN /\ Len(job.claims) + 1 <= Len(job.reviews)
    BY <1>3
  <2>2. \A k : k = next => job.reviews[k].nonce = nonce
    OBVIOUS
  <2>3. next = Len(job.claims) + 1
    OBVIOUS
  <2> HIDE DEF next, won, nonce
  <2>4. \/ Holds(c, i, n)
        \/ /\ won = TRUE /\ c = b /\ i = Len(job.claims) + 1
           /\ n = job.reviews[i].nonce
    BY <1>11, <2>1, HandGrows
  <2> QED
    BY <2>2, <2>3, <2>4
<1>12. \A m, k, n : Counts(m, k, n)' = Counts(m, k, n)
  BY <1>1 DEF Counts
<1>13. won => nonce \notin claimed
  OBVIOUS
<1> HIDE DEF next, nonce, won, grown
<1>14. HeldOnce'
  BY <1>11, <1>13 DEF HeldOnce, HeldClaimed
<1>15. HeldClaimed'
  BY <1>3, <1>11 DEF HeldClaimed
<1>16. CountedClaimed'
  BY <1>3, <1>11, <1>12, <1>13 DEF CountedClaimed
<1>17. CountedAtOnePlace'
  BY <1>12 DEF CountedAtOnePlace
<1> QED
  BY <1>8, <1>9, <1>10, <1>14, <1>15, <1>16, <1>17

LEMMA EvaluateIInv == ASSUME IInv, NEW b \in Boundary, Evaluate(b) PROVE IInv'
<1> USE DEF IInv
<1>1. UNCHANGED <<contributors, reviews, claimed, now>>
  BY DEF Evaluate
<1>2. PICK job \in work[b], subject \in 1 .. Version, lineage \in 1 .. Version,
           trusted \in BOOLEAN, evidence \in Evidence :
        LET facts == Reading(subject, lineage, trusted, evidence, job)
        IN  quorums' = IF QuorumVerdict(facts) = "valid"
                       THEN Append(quorums, facts) ELSE quorums
  BY DEF Evaluate
<1>3. work' = [ work EXCEPT ![b] = {} ] /\ Len(job.claims) = Len(job.reviews)
  BY <1>2 DEF Evaluate, OneJob
<1> DEFINE facts == Reading(subject, lineage, trusted, evidence, job)
<1>4. OneJob'
  BY <1>3 DEF OneJob, TypeOK
<1>5. ASSUME NEW c \in Boundary, NEW i \in Nat, NEW n \in Nonce, Holds(c, i, n)'
      PROVE  c # b /\ Holds(c, i, n)
  BY <1>3, <1>5, HandsEmptied
<1>6. CASE QuorumVerdict(facts) # "valid"
  <2>1. quorums' = quorums
    BY <1>2, <1>6
  <2>2. TypeOK' /\ SubjectKnown' /\ TwoOutsiders'
    BY <1>1, <1>3, <2>1 DEF TypeOK, SubjectKnown, TwoOutsiders, Version
  <2>3. NonceInv'
    BY <1>1, <1>5, <2>1, NothingMoreHeld DEF NonceInv
  <2> QED
    BY <1>4, <2>2, <2>3 DEF NonceInv
<1>7. CASE QuorumVerdict(facts) = "valid"
  <2>1. quorums' = Append(quorums, facts)
    BY <1>2, <1>7
  <2>2. contributors \in Seq(SUBSET Agent) /\ job \in Job /\ quorums \in Seq(Facts)
    BY DEF TypeOK
  <2>3. /\ facts \in Facts
        /\ facts.reviews = job.reviews /\ facts.claims = job.claims
        /\ facts.subject = subject /\ facts.lineage.digest = lineage
        /\ facts.lineage.trusted = trusted
        /\ trusted => facts.lineage.contributors = contributors[lineage]
    BY <2>2 DEF Reading, Facts, Lineage, Job, TypeOK, Version
  <2> HIDE DEF facts
  <2>4. /\ Len(job.reviews) = 2 /\ trusted = TRUE /\ lineage = subject
        /\ ReviewVerdict(job.reviews[1], job.claims[1], facts) = "none"
        /\ ReviewVerdict(job.reviews[2], job.claims[2], facts) = "none"
        /\ PairVerdict(job.reviews[1], job.reviews[2]) = "valid"
    BY <1>7, <2>3, ValidQuorum
  <2>5. /\ Len(job.claims) = 2 /\ job.reviews \in Seq(Review)
        /\ job.claims[1] \in BOOLEAN /\ job.claims[2] \in BOOLEAN
        /\ job.reviews[1] \in Review /\ job.reviews[2] \in Review
    BY <1>3, <2>2, <2>4 DEF Job
  <2>6. /\ job.claims[1] = TRUE /\ job.claims[2] = TRUE
        /\ job.reviews[1].reviewer \notin contributors[subject]
        /\ job.reviews[2].reviewer \notin contributors[subject]
    BY <2>3, <2>4, <2>5, GoodReview
  <2>7. /\ Len(quorums') = Len(quorums) + 1 /\ quorums' \in Seq(Facts)
        /\ quorums'[Len(quorums) + 1] = facts
        /\ \A m \in 1 .. Len(quorums) : quorums'[m] = quorums[m]
        /\ DOMAIN quorums = 1 .. Len(quorums) /\ Len(quorums) \in Nat
        /\ DOMAIN quorums' = 1 .. Len(quorums) + 1
    BY <2>1, <2>2, <2>3
  <2>8. Range(quorums') = Range(quorums) \cup {facts}
    BY <2>7 DEF Range
  <2>9. TypeOK'
    BY <1>1, <1>3, <2>3, <2>4, <2>7, <2>8 DEF TypeOK
  <2>10. SubjectKnown'
    BY <1>1, <2>3, <2>8 DEF SubjectKnown, Version
  <2>11. TwoOutsiders'
    <3>1. ASSUME NEW q \in Range(quorums')
          PROVE  /\ q.reviews[1].reviewer # q.reviews[2].reviewer
                 /\ q.reviews[1].reviewer \notin contributors[q.subject]
                 /\ q.reviews[2].reviewer \notin contributors[q.subject]
                 /\ "provider" \in Requirements =>
                        Provider[q.reviews[1].reviewer]
                            # Provider[q.reviews[2].reviewer]
      <4>1. CASE q = facts
        BY <2>3, <2>4, <2>6, <4>1, GoodPair
      <4>2. CASE q \in Range(quorums)
        BY <4>2 DEF TwoOutsiders
      <4> QED
        BY <2>8, <4>1, <4>2
    <3> QED
      BY <1>1, <3>1 DEF TwoOutsiders
  <2>12. ASSUME NEW m \in Nat, NEW k \in Nat, NEW n \in Nonce, Counts(m, k, n)'
         PROVE  \/ Counts(m, k, n)
                \/ m = Len(quorums) + 1 /\ Holds(b, k, n)
    <3>1. m \in 1 .. Len(quorums) + 1 /\ k \in {1, 2}
          /\ quorums'[m].reviews[k].nonce = n
      BY <2>7, <2>12 DEF Counts
    <3>2. CASE m \in 1 .. Len(quorums)
      BY <2>7, <3>1, <3>2 DEF Counts
    <3>3. CASE m = Len(quorums) + 1
      <4>1. job.reviews[k].nonce = n
        BY <2>3, <2>7, <3>1, <3>3
      <4> QED
        BY <2>5, <2>6, <3>1, <3>3, <4>1 DEF Holds
    <3> QED
      BY <2>7, <3>1, <3>2, <3>3
  <2>13. \A m, k, n : Counts(m, k, n) => m \in 1 .. Len(quorums)
    BY <2>7 DEF Counts
  <2>14. HeldOnce' /\ HeldClaimed'
    BY <1>1, <1>5 DEF HeldOnce, HeldClaimed
  <2>15. CountedClaimed'
    BY <1>1, <1>5, <2>12 DEF CountedClaimed, HeldOnce, HeldClaimed
  <2>16. CountedAtOnePlace'
    BY <2>7, <2>12, <2>13 DEF CountedAtOnePlace, CountedClaimed, HeldOnce
  <2> QED
    BY <1>4, <2>9, <2>10, <2>11, <2>14, <2>15, <2>16
<1> QED
  BY <1>6, <1>7

LEMMA StepIInv == ASSUME IInv, [Next]_vars PROVE IInv'
<1>1. ASSUME NEW agent \in Agent, Edit(agent) PROVE IInv'
  BY <1>1, EditIInv
<1>2. ASSUME NEW agent \in Agent, Submit(agent) PROVE IInv'
  BY <1>2, SubmitIInv
<1>3. ASSUME NEW b \in Boundary, Collect(b) PROVE IInv'
  BY <1>3, CollectIInv
<1>4. ASSUME NEW b \in Boundary, Claim(b) PROVE IInv'
  BY <1>4, ClaimIInv
<1>5. ASSUME NEW b \in Boundary, Evaluate(b) PROVE IInv'
  BY <1>5, EvaluateIInv
<1>6. ASSUME NEW b \in Boundary, Crash(b) PROVE IInv'
  BY <1>6, CrashIInv
<1>7. ASSUME Tick PROVE IInv'
  BY <1>7, TickIInv
<1>8. ASSUME UNCHANGED vars PROVE IInv'
  <2>1. TypeOK' /\ OneJob' /\ SubjectKnown' /\ TwoOutsiders'
    BY <1>8 DEF IInv, vars, TypeOK, OneJob, SubjectKnown, TwoOutsiders, Version
  <2>2. NonceInv'
    BY <1>8, NothingMoreHeld DEF IInv, vars, NonceInv, Holds
  <2> QED
    BY <2>1, <2>2 DEF IInv, NonceInv
<1> QED
  BY <1>1, <1>2, <1>3, <1>4, <1>5, <1>6, <1>7, <1>8 DEF Next

LEMMA Invariance == Spec => []IInv
<1>1. Init => IInv
  BY InitIInv
<1>2. IInv /\ [Next]_vars => IInv'
  BY StepIInv
<1> QED
  BY <1>1, <1>2, PTL DEF Spec

------------------------------------------------------------------------------
(* The theorems *)

\* Every state of the quorum is well formed, and a quorum counts exactly two
\* reviews.
THEOREM TypeCorrect == Spec => []TypeOK
<1>1. IInv => TypeOK
  BY DEF IInv
<1> QED
  BY <1>1, Invariance, PTL

\* The reviewers of a quorum are two, and outsiders, for any number of edits,
\* agents and boundaries.
THEOREM OutsidersReview == Spec => []TwoOutsiders
<1>1. IInv => TwoOutsiders
  BY DEF IInv
<1> QED
  BY <1>1, Invariance, PTL

\* A nonce counts once, for any number of boundaries that crash at any time.
THEOREM NoncesCountOnce == Spec => []CountedOnce
<1>1. IInv => CountedOnce
  <2> SUFFICES ASSUME IInv, NEW i \in DOMAIN quorums, NEW j \in DOMAIN quorums,
                      NEW k \in {1, 2}, NEW l \in {1, 2},
                      quorums[i].reviews[k].nonce = quorums[j].reviews[l].nonce
               PROVE  i = j /\ k = l
    BY DEF CountedOnce
  <2>1. quorums \in Seq(Facts) /\ \A q \in Range(quorums) : Len(q.reviews) = 2
    BY DEF IInv, TypeOK
  <2>2. i \in Nat /\ j \in Nat /\ k \in Nat /\ l \in Nat
    BY <2>1
  <2>3. quorums[i] \in Facts /\ Len(quorums[i].reviews) = 2
    BY <2>1 DEF Range
  <2>4. quorums[i].reviews[k].nonce \in Nonce
    <3>1. quorums[i].reviews \in Seq(Review) /\ k \in 1 .. 2
      BY <2>3 DEF Facts
    <3>2. quorums[i].reviews[k] \in Review
      BY <2>3, <3>1
    <3> QED
      BY <3>2 DEF Review
  <2> QED
    BY <2>2, <2>4 DEF IInv, CountedAtOnePlace, Counts
<1> QED
  BY <1>1, Invariance, PTL

\* A quorum is the approval of two outsiders, and no nonce counts twice.
THEOREM QuorumsSound == Spec => []QuorumSound
<1>1. TwoOutsiders /\ CountedOnce => QuorumSound
  BY DEF QuorumSound
<1> QED
  BY <1>1, OutsidersReview, NoncesCountOnce, PTL
==============================================================================
