-------------------------- MODULE HandoffReference ---------------------------
(***************************************************************************)
(* The reference saga between Missions and Specifications, driven by the   *)
(* oracle referenceDecision.  Specifications keeps one durable row per     *)
(* reference identity; Missions keeps one durable idempotent operation per *)
(* identity and its outcome.  Neither reads the other's store: Missions'   *)
(* outcome reaches Specifications as an authenticated observation that may *)
(* be lost, late, repeated or presented under the wrong identity, and a    *)
(* timeout is the observation "unknown", possible at any time.             *)
(*                                                                         *)
(* Only the decision is code of this repository; both owners are modelled  *)
(* from what its oracles and tests take from them.                         *)
(***************************************************************************)
EXTENDS ReferenceDecision

VARIABLES
    row,       \* Specifications: the durable reference row of each identity
    op,        \* Missions: the outcome of each operation and its evidence
    observed,  \* every observation of Missions' outcome ever sent
    replies,   \* identities for which an answer naming a protected row was sent
    lost       \* identities whose commit Missions lost by coming back from a
               \* backup; each loses it at most once

vars == <<row, op, observed, replies, lost>>

NoRow ==
    [ state |-> "missing", everConfirmed |-> FALSE,
      releasedBy |-> NoEvidence, releaseEvidenceDigest |-> NoEvidence ]

Observation(outcome, digest) ==
    [ outcome |-> outcome, evidenceDigest |-> digest ]

Absent  == Observation("absent", NoEvidence)
Unknown == Observation("unknown", NoEvidence)

Observations ==
    [ outcome : MissionOutcome, evidenceDigest : Evidence \cup {NoEvidence} ]

Protecting == {"reserved", "confirmed"}

TypeOK ==
    /\ row \in [ Identity ->
                   [ state : ReferenceState, everConfirmed : BOOLEAN,
                     releasedBy : FinalOutcome \cup {NoEvidence},
                     releaseEvidenceDigest : Evidence \cup {NoEvidence} ] ]
    /\ op \in [Identity -> Observations]
    /\ observed \subseteq (Identity \X Observations)
    /\ replies \subseteq Identity
    /\ lost \subseteq Identity

Init ==
    /\ row = [r \in Identity |-> NoRow]
    /\ op = [r \in Identity |-> Absent]
    /\ observed = {}
    /\ replies = {}
    /\ lost = {}

------------------------------------------------------------------------------
(* Missions *)

\* Missions commits mission, binding and reference id in one transaction, once
\* it has been told that the row protects the archive.
MissionCommit(r) ==
    /\ op[r].outcome = "absent"
    /\ r \in replies
    /\ \E e \in Evidence : op' = [op EXCEPT ![r] = Observation("committed", e)]
    /\ UNCHANGED <<row, observed, replies, lost>>

\* The operation is sealed: it can never commit any more.
MissionSeal(r) ==
    /\ op[r].outcome = "absent"
    /\ \E e \in Evidence :
          op' = [op EXCEPT ![r] = Observation("not-committed-final", e)]
    /\ UNCHANGED <<row, observed, replies, lost>>

\* The mission is detached or deleted and leaves a durable tombstone.
MissionRemove(r) ==
    /\ op[r].outcome = "committed"
    /\ \E e \in Evidence :
          op' = [op EXCEPT ![r] = Observation("removed-final", e)]
    /\ UNCHANGED <<row, observed, replies, lost>>

\* Missions is restored from a backup taken before the commit.  Final outcomes
\* are tombstones, which a restore replays before it opens a record.
MissionRestore(r) ==
    /\ op[r].outcome = "committed"
    /\ r \notin lost
    /\ op' = [op EXCEPT ![r] = Absent]
    /\ lost' = lost \cup {r}
    /\ UNCHANGED <<row, observed, replies>>

\* Missions answers a query with its outcome of this moment.
Observe(r) ==
    /\ observed' = observed \cup {<<r, op[r]>>}
    /\ UNCHANGED <<row, op, replies, lost>>

------------------------------------------------------------------------------
(* Specifications *)

\* What the owner's transaction writes for an answer of the oracle.
RowAfter(answer, old, mission) ==
    CASE answer = "reserve" -> [old EXCEPT !.state = "reserved"]
      [] answer = "confirm" -> [old EXCEPT !.state = "confirmed",
                                           !.everConfirmed = TRUE]
      [] answer = "release" -> [old EXCEPT !.state = "released",
                                  !.releasedBy = mission.outcome,
                                  !.releaseEvidenceDigest = mission.evidenceDigest]
      [] OTHER -> old

\* One request on row r, with an observation made under identity s.  The
\* caller is told the row as the transaction left it.
Handle(action, r, s, mission) ==
    /\ <<s, mission>> \in observed \/ mission = Unknown
    /\ row' = [row EXCEPT ![r] =
                 RowAfter(ReferenceDecision(action, @.state, mission, r, s, @),
                          @, mission)]
    /\ replies' = IF row'[r].state \in Protecting THEN replies \cup {r}
                  ELSE replies
    /\ UNCHANGED <<op, observed, lost>>

------------------------------------------------------------------------------
Missions(r) ==
    \/ MissionCommit(r) \/ MissionSeal(r) \/ MissionRemove(r)
    \/ MissionRestore(r) \/ Observe(r)

Specifications(r) ==
    \E action \in ReferenceAction, s \in Identity :
        \/ Handle(action, r, s, Unknown)
        \/ \E o \in observed : o[1] = s /\ Handle(action, r, s, o[2])

Next == \E r \in Identity : Missions(r) \/ Specifications(r)

Spec == Init /\ [][Next]_vars

\* The reconciliation worker keeps asking for the outcome of every identity and
\* keeps presenting what it was told; nothing makes a mission commit or end.
Reconciliation ==
    \A r \in Identity :
        /\ WF_vars(Observe(r))
        /\ \A m \in Observations :
              WF_vars(<<r, m>> \in observed /\ Handle("reconcile", r, r, m))

FairSpec == Spec /\ Reconciliation

------------------------------------------------------------------------------
(* Properties *)

\* referenceDecision: a live mission's archive is protected at every moment,
\* whatever was lost, delayed, repeated or misdirected in between.
LiveMissionProtected ==
    \A r \in Identity :
        op[r].outcome = "committed" => row[r].state \in Protecting

\* referenceDecision: a released row records the true and final outcome of its
\* own mission and that outcome's own evidence, so a released archive can have
\* no present or future user.
ReleaseIsFinal ==
    \A r \in Identity : row[r].state = "released" =>
        /\ op[r].outcome \in FinalOutcome
        /\ op[r] = Observation(row[r].releasedBy, row[r].releaseEvidenceDigest)

\* referenceDecision: the rows its answers lead to are rows it accepts as
\* consistent; it never writes itself into a history that it then refuses for
\* ever, and a confirmed reference is never released as never committed, not
\* even when Missions lost the commit and says so.
RowAdmissible ==
    \A r \in Identity : HistoryConsistent(row[r].state, row[r])

\* Both together: what a row says of its reference's history is true, final and
\* never a dead end.
HistorySound == ReleaseIsFinal /\ RowAdmissible

\* referenceDecision: confirmation is never forgotten, and a released row is
\* neither re-opened nor given another reason or other evidence.
HistoryMonotone ==
    [][\A r \in Identity :
          /\ row[r].everConfirmed => row'[r].everConfirmed
          /\ row[r].state = "released" => row'[r] = row[r]]_vars

\* referenceDecision: once its mission is over, a reference does not stay
\* protected for ever (an orphan), unless Missions lost the commit that
\* confirmed it.
OrphanReleased ==
    \A r \in Identity :
        (op[r].outcome \in FinalOutcome /\ row[r].state \in Protecting
            /\ r \notin lost)
        ~> row[r].state = "released"

\* referenceDecision: a commit whose confirmation was lost is confirmed by
\* reconciliation, unless the mission ends or its owner forgets it first.
LostConfirmationRecovered ==
    \A r \in Identity :
        (op[r].outcome = "committed" /\ row[r].state = "reserved")
        ~> (row[r].everConfirmed \/ op[r].outcome # "committed")

------------------------------------------------------------------------------
(* The saga implements the protection promise. *)

AbstractProtection(state) ==
    CASE state \in Protecting -> "held"
      [] state = "released"   -> "let-go"
      [] OTHER                -> "none"

AbstractUsage(outcome) ==
    CASE outcome = "committed"    -> "live"
      [] outcome \in FinalOutcome -> "closed"
      [] OTHER                    -> "open"

Promise == INSTANCE ArchiveProtection WITH
    protection <- [r \in Identity |-> AbstractProtection(row[r].state)],
    usage      <- [r \in Identity |-> AbstractUsage(op[r].outcome)]

\* referenceDecision and the two owners keep the promise of ArchiveProtection.
PromiseKept == Promise!Spec
==============================================================================
