-------------------------- MODULE HandoffRetention ---------------------------
(***************************************************************************)
(* Retention of one archived handoff and of the accepted package it was    *)
(* made from.  Handoff references protect both, other consumers only the   *)
(* package.  The owner's transactions propose new release anchors and      *)
(* commit what the joint-reference oracle does not deny; a purge worker    *)
(* scans an object, has a deadline computed from what it saw, and compacts *)
(* later, asking the retention oracle.                                     *)
(*                                                                         *)
(* The two oracles are evaluateBriefStorage for kinds "retention" and      *)
(* "joint-reference" (tools/quality/build-brief-storage-v1.ts); the owner  *)
(* and the worker are modelled from the observations they must supply.     *)
(***************************************************************************)
EXTENDS Naturals, FiniteSets

CONSTANTS
    Reference,   \* handoff reference identities, each used once
    Consumer,    \* other legitimate users of the package
    Tail,        \* the policy's retention after release (P5Y), in ticks
    MaxTime,     \* bound of the clock
    NoTime       \* null

ASSUME RetentionAssumption ==
    /\ IsFiniteSet(Reference)
    /\ IsFiniteSet(Consumer)
    /\ Tail \in Nat \ {0}
    /\ MaxTime \in Nat
    /\ NoTime \notin Nat

Object == {"archive", "package"}

------------------------------------------------------------------------------
(* evaluateBriefStorage *)

\* Mutants: the deadline's anchor is not compared; an object without references
\* counts as referenced.
RetentionDecisionUnanchored(v) ==
    IF ~ v.referencesCurrent
    THEN "deny"
    ELSE IF v.activeReferences > 0 \/ v.uncertainReferences > 0
    THEN "retain"
    ELSE IF \/ ~ v.deadlineVerified
            \/ v.releasedAt \notin Nat
            \/ v.policyDeadline \notin Nat
    THEN "deny"
    ELSE IF v.now >= v.policyDeadline THEN "purge" ELSE "retain"

RetentionDecisionHoarding(v) ==
    IF v.activeReferences >= 0 THEN "retain" ELSE RetentionDecisionUnanchored(v)

\* kind "retention": v is one observation of an object and its deadline.
RetentionDecision(v) ==
    IF ~ v.referencesCurrent
    THEN "deny"
    ELSE IF v.activeReferences > 0 \/ v.uncertainReferences > 0
    THEN "retain"
    ELSE IF \/ ~ v.deadlineVerified
            \/ v.releasedAt \notin Nat
            \/ v.policyDeadline \notin Nat
            \/ v.deadlineAnchor # v.releasedAt
            \/ v.policyDeadline <= v.releasedAt
            \/ v.now < v.releasedAt
    THEN "deny"
    ELSE IF v.now >= v.policyDeadline THEN "purge" ELSE "retain"

\* kind "joint-reference": the references and anchors a transaction leaves.
JointDecision(archiveRefs, packageRefs, archiveAt, packageAt) ==
    IF archiveRefs > 0
    THEN IF /\ packageRefs > 0
            /\ archiveAt = NoTime
            /\ packageAt = NoTime
         THEN "retain" ELSE "deny"
    ELSE IF archiveAt \notin Nat
    THEN "deny"
    ELSE IF packageRefs > 0
    THEN IF packageAt = NoTime THEN "retain" ELSE "deny"
    ELSE IF packageAt \in Nat /\ packageAt >= archiveAt
    THEN "release" ELSE "deny"

------------------------------------------------------------------------------
VARIABLES
    now,         \* the clock
    live,        \* handoff references reserved or confirmed
    uncertain,   \* those whose mission outcome is not known yet
    spent,       \* released identities, which can never be used again
    users,       \* consumers that use the package
    releasedAt,  \* the release anchor of each object, or NoTime
    lastUse,     \* when the last reference to each object was dropped
    stored,      \* objects whose bytes are still there
    scan         \* the purge worker's last look at each object

retentionVars == <<now, live, uncertain, spent, users, releasedAt, lastUse, stored, scan>>

Time == Nat \cup {NoTime}

\* What the worker remembers of a look: the counts and the anchor it saw, and
\* the deadline computed from that anchor, verified or not.
NoScan == [ active |-> 0, uncertain |-> 0, anchor |-> NoTime,
            deadline |-> NoTime, verified |-> FALSE ]

Scans == [ active : Nat, uncertain : Nat, anchor : Time,
           deadline : Time, verified : BOOLEAN ]

RetentionTypeOK ==
    /\ now \in Nat
    /\ live \subseteq Reference
    /\ uncertain \subseteq live
    /\ spent \subseteq Reference
    /\ users \subseteq Consumer
    /\ releasedAt \in [Object -> Time]
    /\ lastUse \in [Object -> Nat]
    /\ stored \subseteq Object
    /\ scan \in [Object -> Scans]

\* The archive comes into being with its first reservation.
RetentionInit ==
    /\ now = 0
    /\ \E r \in Reference : live = {r} /\ uncertain = {r}
    /\ spent = {}
    /\ users = {}
    /\ releasedAt = [o \in Object |-> NoTime]
    /\ lastUse = [o \in Object |-> 0]
    /\ stored = Object
    /\ scan = [o \in Object |-> NoScan]

\* References that protect an object, certain and uncertain together.
Protectors(o) == IF o = "archive" THEN Cardinality(live)
                 ELSE Cardinality(live) + Cardinality(users)

------------------------------------------------------------------------------
(* The owner's transactions *)

\* The anchors a transaction might write for an object: none, the one it
\* found, or the time of the transaction.
Proposals(o) == {NoTime, releasedAt[o], now}

\* One atomic commit of the references and of the two anchors.
OwnerCommit(references, consumers, archiveAnchors) ==
    /\ live' = references
    /\ users' = consumers
    /\ \E a \in archiveAnchors, p \in Proposals("package") :
          /\ JointDecision(Cardinality(references),
                           Cardinality(references) + Cardinality(consumers),
                           a, p) # "deny"
          /\ releasedAt' = [releasedAt EXCEPT !["archive"] = a, !["package"] = p]

\* A new mission reserves the archive.  It cancels a purge that is under way.
Acquire(r) ==
    /\ r \notin live \cup spent
    /\ stored = Object
    /\ OwnerCommit(live \cup {r}, users, Proposals("archive"))
    /\ uncertain' = uncertain \cup {r}
    /\ UNCHANGED <<now, spent, lastUse, stored, scan>>

\* The mission's commit is confirmed.
Confirm(r) ==
    /\ r \in uncertain
    /\ uncertain' = uncertain \ {r}
    /\ UNCHANGED <<now, live, spent, users, releasedAt, lastUse, stored, scan>>

\* The mission is finally over, whether it was confirmed or never committed.
Release(r) ==
    /\ r \in live
    /\ OwnerCommit(live \ {r}, users, Proposals("archive"))
    /\ uncertain' = uncertain \ {r}
    /\ spent' = spent \cup {r}
    /\ lastUse' = [o \in Object |-> now]
    /\ UNCHANGED <<now, stored, scan>>

UsePackage(c) ==
    /\ c \notin users
    /\ "package" \in stored
    /\ OwnerCommit(live, users \cup {c}, {releasedAt["archive"]})
    /\ UNCHANGED <<now, uncertain, spent, lastUse, stored, scan>>

DropPackage(c) ==
    /\ c \in users
    /\ OwnerCommit(live, users \ {c}, {releasedAt["archive"]})
    /\ lastUse' = [lastUse EXCEPT !["package"] = now]
    /\ UNCHANGED <<now, uncertain, spent, stored, scan>>

------------------------------------------------------------------------------
(* The purge worker *)

\* The worker looks at an object and has its deadline computed: by the policy
\* adapter, which verifies it, or by a shorter rule of its own.
Look(o, verified) ==
    /\ o \in stored
    /\ scan' = [scan EXCEPT ![o] =
          [ active    |-> Protectors(o) - Cardinality(uncertain),
            uncertain |-> Cardinality(uncertain),
            anchor    |-> releasedAt[o],
            deadline  |-> IF releasedAt[o] = NoTime THEN NoTime
                          ELSE IF verified THEN releasedAt[o] + Tail
                          ELSE releasedAt[o] + 1,
            verified  |-> verified ] ]
    /\ UNCHANGED <<now, live, uncertain, spent, users, releasedAt, lastUse, stored>>

\* The worker compacts an object: with references read in the compaction
\* transaction itself, or, when the transaction does not recheck, with those of
\* its last look, which it then has to present as not current.
Compact(o, rechecked) ==
    /\ o \in stored
    /\ RetentionDecision(
          [ referencesCurrent   |-> rechecked,
            activeReferences    |-> IF rechecked
                                    THEN Protectors(o) - Cardinality(uncertain)
                                    ELSE scan[o].active,
            uncertainReferences |-> IF rechecked THEN Cardinality(uncertain)
                                    ELSE scan[o].uncertain,
            releasedAt          |-> IF rechecked THEN releasedAt[o]
                                    ELSE scan[o].anchor,
            policyDeadline      |-> scan[o].deadline,
            deadlineAnchor      |-> scan[o].anchor,
            deadlineVerified    |-> scan[o].verified,
            now                 |-> now ]) = "purge"
    /\ stored' = stored \ {o}
    /\ UNCHANGED <<now, live, uncertain, spent, users, releasedAt, lastUse, scan>>

Tick ==
    /\ now < MaxTime
    /\ now' = now + 1
    /\ UNCHANGED <<live, uncertain, spent, users, releasedAt, lastUse, stored, scan>>

------------------------------------------------------------------------------
RetentionNext ==
    \/ \E r \in Reference : Acquire(r) \/ Confirm(r) \/ Release(r)
    \/ \E c \in Consumer : UsePackage(c) \/ DropPackage(c)
    \/ \E o \in Object, b \in BOOLEAN : Look(o, b) \/ Compact(o, b)
    \/ Tick

RetentionSpec == RetentionInit /\ [][RetentionNext]_retentionVars

\* The worker keeps having verified deadlines computed, and compacts with the
\* references rechecked whenever it keeps being allowed to.  Strong fairness:
\* its own unverified looks may stand in the way again and again.
FairRetentionSpec ==
    /\ RetentionSpec
    /\ \A o \in Object : WF_retentionVars(Look(o, TRUE)) /\ SF_retentionVars(Compact(o, TRUE))

------------------------------------------------------------------------------
(* Properties *)

\* evaluateBriefStorage, retention: bytes are purged only when nothing refers
\* to them and the whole tail has passed since the last reference was dropped,
\* although the deadline was computed from an earlier look.
PurgeRespectsTail ==
    \A o \in Object \ stored : Protectors(o) = 0 /\ now >= lastUse[o] + Tail

\* evaluateBriefStorage, joint-reference: the anchor of an object is the moment
\* its last reference was dropped, and there is none while it is referenced;
\* re-acquisition removes it and nothing else moves it.
AnchorExact ==
    \A o \in Object :
        releasedAt[o] = IF Protectors(o) > 0 THEN NoTime ELSE lastUse[o]

\* Both oracles: a package is never purged before the archive that needs it is
\* itself due.
PackageOutlivesArchive ==
    "package" \notin stored => live = {} /\ now >= lastUse["archive"] + Tail

\* The three together: nothing is purged early, by whatever anchors and looks.
PurgeSound == PurgeRespectsTail /\ AnchorExact /\ PackageOutlivesArchive

\* retention: an object that is due does not stay for ever, unless somebody
\* refers to it again.
DueIsPurged ==
    \A o \in Object :
        (o \in stored /\ Protectors(o) = 0 /\ now >= lastUse[o] + Tail)
        ~> (o \notin stored \/ Protectors(o) > 0)
==============================================================================
