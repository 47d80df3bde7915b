---------------------------- MODULE HandoffProofs ----------------------------
(***************************************************************************)
(* For any set of identities, evidence digests, references and objects:    *)
(* the saga of HandoffReference is type correct, protects every live       *)
(* mission, releases only on the true final outcome, never writes a        *)
(* history its oracle would refuse, never forgets, and implements          *)
(* ArchiveProtection; the two reference oracles give the same answer to    *)
(* every call; and the retention of HandoffRetention never deletes an      *)
(* object that is in use or recently was.                                  *)
(***************************************************************************)
EXTENDS HandoffReference, OracleAgreement, HandoffRetention, FiniteSetTheorems, TLAPS

------------------------------------------------------------------------------
(* The saga (HandoffReference)                                             *)

\* What Missions can have recorded for an operation.
OpConsistent ==
    \A r \in Identity :
        op[r].outcome # "unknown" /\ ObservationConsistent(op[r])

\* An observation in flight is stale at worst: a final one is still true.
ObservedTrue ==
    \A o \in observed : o[2].outcome \in FinalOutcome => op[o[1]] = o[2]

\* A commit follows an answer, and an answer follows a reservation.
AnswerTrue ==
    \A r \in Identity :
        /\ op[r].outcome = "committed" => r \in replies
        /\ r \in replies => row[r].state # "missing"

IInv == TypeOK /\ OpConsistent /\ ObservedTrue /\ AnswerTrue
        /\ ReleaseIsFinal /\ RowAdmissible

------------------------------------------------------------------------------
(* The oracle. *)

\* referenceDecision reserves only a missing row, and confirms or releases only
\* a protecting row of the same identity on evidence of that outcome; it never
\* releases a confirmed row as never committed.
LEMMA DecisionJustified ==
    ASSUME NEW action, NEW state \in ReferenceState, NEW m, NEW r, NEW s, NEW h,
           NEW d, d = ReferenceDecision(action, state, m, r, s, h)
    PROVE  /\ d \in {"reserve", "confirm", "protect", "release",
                     "already-released", "refuse"}
           /\ d = "reserve" => state = "missing" /\ HistoryConsistent(state, h)
           /\ d = "confirm" => /\ state \in Protecting
                               /\ m.outcome = "committed"
           /\ d = "release" => /\ state \in Protecting
                               /\ r = s
                               /\ m.outcome \in FinalOutcome
                               /\ m.evidenceDigest \in Evidence
                               /\ ~ (h.everConfirmed
                                     /\ m.outcome = "not-committed-final")
  <1>1. CASE d = "refuse"
    BY <1>1
  <1>2. CASE d # "refuse" /\ state = "released"
    BY <1>2 DEF ReferenceDecision, ReleasedAnswer
  <1>3. CASE d # "refuse" /\ state # "released"
    <2>1. /\ IdentityAccepted(r, s)
          /\ action \in ReferenceAction
          /\ m.outcome \in MissionOutcome
          /\ HistoryConsistent(state, h)
          /\ ObservationConsistent(m)
      BY <1>3 DEF ReferenceDecision
    <2>2. r = s
      BY <2>1 DEF IdentityAccepted
    <2>3. CASE m.outcome = "unknown"
      BY <2>1, <2>3, <1>3 DEF ReferenceDecision
    <2>4. CASE m.outcome # "unknown" /\ state = "missing"
      BY <2>1, <2>4, <1>3 DEF ReferenceDecision
    <2>5. CASE m.outcome # "unknown" /\ state # "missing"
      <3>1. d = LiveAnswer(action, state, m.outcome)
        BY <2>1, <2>5, <1>3 DEF ReferenceDecision
      <3>2. ~ (h.everConfirmed /\ m.outcome = "not-committed-final")
        BY <2>1, <2>5, <1>3 DEF ReferenceDecision, Contradicts
      <3>3. state \in Protecting
        BY <2>5, <1>3 DEF ReferenceState, Protecting
      <3>4. d = "release" => m.outcome \in FinalOutcome
        BY <3>1, <2>1, <2>5 DEF LiveAnswer, ReserveAnswer, ReconcileAnswer,
              MissionOutcome, ReferenceAction
      <3>5. d = "release" => m.evidenceDigest \in Evidence
        BY <3>4, <2>1 DEF ObservationConsistent, FinalOutcome
      <3>6. d = "confirm" => m.outcome = "committed"
        BY <3>1, <2>1, <2>5 DEF LiveAnswer, ReserveAnswer, ReconcileAnswer,
              MissionOutcome, ReferenceAction
      <3>7. d \in {"confirm", "protect", "release", "refuse"}
        BY <3>1, <2>1 DEF LiveAnswer, ReserveAnswer, ReconcileAnswer,
              ReferenceAction
      <3>. QED
        BY <3>2, <3>3, <3>4, <3>5, <3>6, <3>7, <2>2
    <2>. QED
      BY <2>3, <2>4, <2>5
  <1>. QED
    BY <1>1, <1>2, <1>3

\* The three writes of the row: reserve, confirm and release.
Reserved(r) ==
    /\ row[r].state = "missing"
    /\ HistoryConsistent(row[r].state, row[r])
    /\ row'[r] = [row[r] EXCEPT !.state = "reserved"]

Confirmed(r) ==
    /\ row[r].state \in Protecting
    /\ row'[r] = [row[r] EXCEPT !.state = "confirmed", !.everConfirmed = TRUE]

Released(r, s, m) ==
    /\ row[r].state \in Protecting
    /\ r = s
    /\ m.outcome \in FinalOutcome
    /\ m.evidenceDigest \in Evidence
    /\ ~ (row[r].everConfirmed /\ m.outcome = "not-committed-final")
    /\ row'[r] = [row[r] EXCEPT !.state = "released", !.releasedBy = m.outcome,
                               !.releaseEvidenceDigest = m.evidenceDigest]

\* A request leaves the row alone or makes one of these justified writes.
LEMMA RowWritten ==
    ASSUME NEW r \in Identity, NEW s \in Identity, NEW action, NEW m,
           TypeOK, Handle(action, r, s, m)
    PROVE  /\ \A i \in Identity \ {r} : row'[i] = row[i]
           /\ row'[r] = row[r] \/ Reserved(r) \/ Confirmed(r) \/ Released(r, s, m)
           /\ row' \in [Identity ->
                   [ state : ReferenceState, everConfirmed : BOOLEAN,
                     releasedBy : FinalOutcome \cup {NoEvidence},
                     releaseEvidenceDigest : Evidence \cup {NoEvidence} ] ]
  <1> DEFINE d == ReferenceDecision(action, row[r].state, m, r, s, row[r])
  <1>1. row' = [row EXCEPT ![r] = RowAfter(d, row[r], m)]
    BY DEF Handle
  <1>2. /\ row[r].state \in ReferenceState
        /\ row[r] \in [ state : ReferenceState, everConfirmed : BOOLEAN,
                        releasedBy : FinalOutcome \cup {NoEvidence},
                        releaseEvidenceDigest : Evidence \cup {NoEvidence} ]
    BY DEF TypeOK
  <1>3. row'[r] = RowAfter(d, row[r], m) /\ \A i \in Identity \ {r} : row'[i] = row[i]
    BY <1>1 DEF TypeOK
  <1> HIDE DEF d
  <1>4. /\ d \in {"reserve", "confirm", "protect", "release",
                  "already-released", "refuse"}
        /\ d = "reserve" => /\ row[r].state = "missing"
                            /\ HistoryConsistent(row[r].state, row[r])
        /\ d = "confirm" => row[r].state \in Protecting
        /\ d = "release" => /\ row[r].state \in Protecting
                            /\ r = s
                            /\ m.outcome \in FinalOutcome
                            /\ m.evidenceDigest \in Evidence
                            /\ ~ (row[r].everConfirmed
                                  /\ m.outcome = "not-committed-final")
    BY <1>2, DecisionJustified DEF d
  <1>5. CASE d = "reserve"
    <2>1. row'[r] = [row[r] EXCEPT !.state = "reserved"]
      BY <1>3, <1>5 DEF RowAfter
    <2>. QED
      BY <1>1, <1>2, <1>3, <1>4, <1>5, <2>1 DEF TypeOK, ReferenceState, Reserved
  <1>6. CASE d = "confirm"
    <2>1. row'[r] = [row[r] EXCEPT !.state = "confirmed", !.everConfirmed = TRUE]
      BY <1>3, <1>6 DEF RowAfter
    <2>. QED
      BY <1>1, <1>2, <1>3, <1>4, <1>6, <2>1 DEF TypeOK, ReferenceState, Confirmed
  <1>7. CASE d = "release"
    <2>1. row'[r] = [row[r] EXCEPT !.state = "released", !.releasedBy = m.outcome,
                                   !.releaseEvidenceDigest = m.evidenceDigest]
      BY <1>3, <1>7 DEF RowAfter
    <2>. QED
      BY <1>1, <1>2, <1>3, <1>4, <1>7, <2>1 DEF TypeOK, ReferenceState, Released
  <1>8. CASE d \notin {"reserve", "confirm", "release"}
    <2>1. row'[r] = row[r]
      BY <1>3, <1>8 DEF RowAfter
    <2>. QED
      BY <1>1, <1>2, <1>3, <2>1 DEF TypeOK
  <1>. QED
    BY <1>5, <1>6, <1>7, <1>8

------------------------------------------------------------------------------
(* The saga. *)

LEMMA InitHolds == Init => IInv
  <1> SUFFICES ASSUME Init PROVE IInv
    OBVIOUS
  <1>1. /\ \A r \in Identity : row[r] = NoRow /\ op[r] = Absent
        /\ observed = {} /\ replies = {} /\ lost = {}
    BY DEF Init
  <1>2. TypeOK
    <2>1. NoRow \in [ state : ReferenceState, everConfirmed : BOOLEAN,
                      releasedBy : FinalOutcome \cup {NoEvidence},
                      releaseEvidenceDigest : Evidence \cup {NoEvidence} ]
      BY DEF NoRow, ReferenceState
    <2>2. Absent \in Observations
      BY DEF Absent, Observation, Observations, MissionOutcome
    <2>. QED
      BY <1>1, <2>1, <2>2 DEF Init, TypeOK
  <1>3. \A r \in Identity : /\ row[r].state = "missing"
                            /\ row[r].everConfirmed = FALSE
                            /\ row[r].releasedBy = NoEvidence
                            /\ row[r].releaseEvidenceDigest = NoEvidence
                            /\ op[r].outcome = "absent"
                            /\ op[r].evidenceDigest = NoEvidence
    <2>1. /\ NoRow.state = "missing"
          /\ NoRow.everConfirmed = FALSE
          /\ NoRow.releasedBy = NoEvidence
          /\ NoRow.releaseEvidenceDigest = NoEvidence
          /\ Absent.outcome = "absent"
          /\ Absent.evidenceDigest = NoEvidence
      BY DEF NoRow, Absent, Observation
    <2>. QED
      BY <1>1, <2>1
  <1>4. OpConsistent
    BY <1>3 DEF OpConsistent, ObservationConsistent
  <1>5. ObservedTrue /\ AnswerTrue
    BY <1>1 DEF ObservedTrue, AnswerTrue, Absent, Observation
  <1>6. ReleaseIsFinal /\ RowAdmissible
    BY <1>3 DEF ReleaseIsFinal, RowAdmissible, HistoryConsistent
  <1>. QED
    BY <1>2, <1>4, <1>5, <1>6 DEF IInv

\* A step of Missions changes one outcome and never a final one.
LEMMA MissionsPreserves ==
    ASSUME IInv, NEW r \in Identity, Missions(r)
    PROVE  IInv'
  <1> USE DEF IInv
  <1>1. CASE MissionCommit(r)
    BY <1>1 DEF MissionCommit, TypeOK, OpConsistent, ObservedTrue, AnswerTrue,
          ReleaseIsFinal, RowAdmissible, Observation, Observations,
          MissionOutcome, FinalOutcome, ObservationConsistent
  <1>2. CASE MissionSeal(r)
    BY <1>2 DEF MissionSeal, TypeOK, OpConsistent, ObservedTrue, AnswerTrue,
          ReleaseIsFinal, RowAdmissible, Observation, Observations,
          MissionOutcome, FinalOutcome, ObservationConsistent
  <1>3. CASE MissionRemove(r)
    BY <1>3 DEF MissionRemove, TypeOK, OpConsistent, ObservedTrue, AnswerTrue,
          ReleaseIsFinal, RowAdmissible, Observation, Observations,
          MissionOutcome, FinalOutcome, ObservationConsistent
  <1>4. CASE MissionRestore(r)
    BY <1>4 DEF MissionRestore, TypeOK, OpConsistent, ObservedTrue, AnswerTrue,
          ReleaseIsFinal, RowAdmissible, Observation, Observations, Absent,
          MissionOutcome, FinalOutcome, ObservationConsistent
  <1>5. CASE Observe(r)
    BY <1>5 DEF Observe, TypeOK, OpConsistent, ObservedTrue, AnswerTrue,
          ReleaseIsFinal, RowAdmissible
  <1>. QED
    BY <1>1, <1>2, <1>3, <1>4, <1>5 DEF Missions

\* A request changes one row, by a justified answer.
LEMMA SpecificationsPreserves ==
    ASSUME IInv, NEW r \in Identity, NEW s \in Identity, NEW action, NEW m,
           Handle(action, r, s, m)
    PROVE  IInv'
  <1> USE DEF IInv
  <1>1. UNCHANGED <<op, observed, lost>>
    BY DEF Handle
  <1>2. /\ \A i \in Identity \ {r} : row'[i] = row[i]
        /\ row'[r] = row[r] \/ Reserved(r) \/ Confirmed(r) \/ Released(r, s, m)
        /\ row' \in [Identity ->
                [ state : ReferenceState, everConfirmed : BOOLEAN,
                  releasedBy : FinalOutcome \cup {NoEvidence},
                  releaseEvidenceDigest : Evidence \cup {NoEvidence} ] ]
    BY RowWritten
  <1>3. row[r] \in [ state : ReferenceState, everConfirmed : BOOLEAN,
                    releasedBy : FinalOutcome \cup {NoEvidence},
                    releaseEvidenceDigest : Evidence \cup {NoEvidence} ]
    BY DEF TypeOK
  <1>4. TypeOK'
    <2>1. replies' \subseteq Identity
      BY DEF TypeOK, Handle
    <2>. QED
      BY <1>1, <1>2, <2>1 DEF TypeOK
  <1>5. OpConsistent' /\ ObservedTrue'
    BY <1>1 DEF OpConsistent, ObservedTrue
  <1>6. AnswerTrue'
    <2>1. row[r].state # "missing" => row'[r].state # "missing"
      BY <1>2, <1>3 DEF Reserved, Confirmed, Released
    <2>2. replies' = IF row'[r].state \in Protecting THEN replies \cup {r}
                     ELSE replies
      BY DEF Handle
    <2>. QED
      BY <1>1, <1>2, <2>1, <2>2 DEF AnswerTrue, Protecting
  <1>7. ReleaseIsFinal'
    <2>1. ASSUME row'[r].state = "released"
          PROVE  /\ op[r].outcome \in FinalOutcome
                 /\ op[r] = Observation(row'[r].releasedBy,
                                       row'[r].releaseEvidenceDigest)
      <3>1. CASE row'[r] = row[r]
        BY <2>1, <3>1 DEF ReleaseIsFinal
      <3>2. CASE Reserved(r) \/ Confirmed(r)
        BY <2>1, <3>2, <1>3 DEF Reserved, Confirmed
      <3>3. CASE Released(r, s, m)
        <4>1. <<r, m>> \in observed
          BY <3>3 DEF Handle, Unknown, Observation, Released, FinalOutcome
        <4>2. op[r] = m /\ m \in Observations
          BY <3>3, <4>1 DEF ObservedTrue, TypeOK, Released
        <4>3. /\ row'[r].releasedBy = m.outcome
              /\ row'[r].releaseEvidenceDigest = m.evidenceDigest
          BY <3>3, <1>3 DEF Released
        <4>. QED
          BY <3>3, <4>2, <4>3 DEF Observation, Observations, Released
      <3>. QED
        BY <1>2, <3>1, <3>2, <3>3
    <2>. QED
      BY <1>1, <1>2, <2>1 DEF ReleaseIsFinal
  <1>8. RowAdmissible'
    <2>1. HistoryConsistent(row[r].state, row[r])
      BY DEF RowAdmissible
    <2>2. HistoryConsistent(row'[r].state, row'[r])
      <3>1. CASE row'[r] = row[r]
        BY <2>1, <3>1
      <3>2. CASE Reserved(r)
        BY <2>1, <3>2, <1>3 DEF Reserved, HistoryConsistent
      <3>3. CASE Confirmed(r)
        BY <2>1, <3>3, <1>3 DEF Confirmed, HistoryConsistent, Protecting
      <3>4. CASE Released(r, s, m)
        BY <2>1, <3>4, <1>3 DEF Released, HistoryConsistent, FinalOutcome
      <3>. QED
        BY <1>2, <3>1, <3>2, <3>3, <3>4
    <2>. QED
      BY <1>2, <2>2 DEF RowAdmissible
  <1>. QED
    BY <1>4, <1>5, <1>6, <1>7, <1>8

LEMMA NextPreserves == IInv /\ [Next]_vars => IInv'
  <1> SUFFICES ASSUME IInv, [Next]_vars
               PROVE  IInv'
    OBVIOUS
  <1>1. CASE UNCHANGED vars
    BY <1>1 DEF IInv, vars, TypeOK, OpConsistent, ObservedTrue, AnswerTrue,
          ReleaseIsFinal, RowAdmissible
  <1>2. ASSUME NEW r \in Identity, Missions(r)
        PROVE  IInv'
    BY <1>2, MissionsPreserves
  <1>3. ASSUME NEW r \in Identity, Specifications(r)
        PROVE  IInv'
    <2>1. PICK action \in ReferenceAction, s \in Identity :
               \/ Handle(action, r, s, Unknown)
               \/ \E o \in observed : o[1] = s /\ Handle(action, r, s, o[2])
      BY <1>3 DEF Specifications
    <2>. QED
      BY <2>1, SpecificationsPreserves
  <1>. QED
    BY <1>1, <1>2, <1>3 DEF Next

\* The inductive invariant holds in every behaviour of the saga.
THEOREM InductiveInvariant == Spec => []IInv
  BY InitHolds, NextPreserves, PTL DEF Spec

\* Every variable of the saga keeps its type.
THEOREM TypeCorrect == Spec => []TypeOK
  BY InductiveInvariant, PTL DEF IInv

\* A live mission's archive is protected at every moment.
THEOREM LiveMissionsProtected == Spec => []LiveMissionProtected
  <1>1. IInv => LiveMissionProtected
    BY DEF IInv, TypeOK, AnswerTrue, ReleaseIsFinal, LiveMissionProtected,
          ReferenceState, Protecting, FinalOutcome
  <1>. QED
    BY <1>1, InductiveInvariant, PTL

\* A released row carries the true final outcome and evidence of its mission.
THEOREM ReleasesFinal == Spec => []ReleaseIsFinal
  BY InductiveInvariant, PTL DEF IInv

\* The oracle never writes a row whose history it would refuse.
THEOREM RowsAdmissible == Spec => []RowAdmissible
  BY InductiveInvariant, PTL DEF IInv

------------------------------------------------------------------------------
(* What a step may never do. *)

\* A request never forgets a confirmation and never touches a released row.
LEMMA RequestMonotone ==
    ASSUME IInv, NEW r \in Identity, NEW s \in Identity, NEW action, NEW m,
           Handle(action, r, s, m), NEW i \in Identity
    PROVE  /\ row[i].everConfirmed => row'[i].everConfirmed
           /\ row[i].state = "released" => row'[i] = row[i]
  <1>1. /\ i # r => row'[i] = row[i]
        /\ row'[r] = row[r] \/ Reserved(r) \/ Confirmed(r) \/ Released(r, s, m)
    BY RowWritten DEF IInv
  <1>2. row[r] \in [ state : ReferenceState, everConfirmed : BOOLEAN,
                    releasedBy : FinalOutcome \cup {NoEvidence},
                    releaseEvidenceDigest : Evidence \cup {NoEvidence} ]
    BY DEF IInv, TypeOK
  <1>. QED
    BY <1>1, <1>2 DEF Reserved, Confirmed, Released, Protecting

\* Confirmation is never forgotten and a released row never changes again.
THEOREM NeverForgets == Spec => HistoryMonotone
  <1>1. ASSUME IInv, [Next]_vars, NEW i \in Identity
        PROVE  /\ row[i].everConfirmed => row'[i].everConfirmed
               /\ row[i].state = "released" => row'[i] = row[i]
    <2>1. CASE row' = row
      BY <2>1
    <2>2. ASSUME NEW r \in Identity, Missions(r)
          PROVE  row' = row
      BY <2>2 DEF Missions, MissionCommit, MissionSeal, MissionRemove,
            MissionRestore, Observe
    <2>3. ASSUME NEW r \in Identity, Specifications(r)
          PROVE  /\ row[i].everConfirmed => row'[i].everConfirmed
                 /\ row[i].state = "released" => row'[i] = row[i]
      <3>1. PICK action \in ReferenceAction, s \in Identity :
                 \/ Handle(action, r, s, Unknown)
                 \/ \E o \in observed : o[1] = s /\ Handle(action, r, s, o[2])
        BY <2>3 DEF Specifications
      <3>. QED
        BY <1>1, <3>1, RequestMonotone
    <2>. QED
      BY <1>1, <2>1, <2>2, <2>3 DEF Next, vars
  <1>2. IInv /\ [Next]_vars =>
           [\A r \in Identity :
              /\ row[r].everConfirmed => row'[r].everConfirmed
              /\ row[r].state = "released" => row'[r] = row[r]]_vars
    BY <1>1
  <1>. QED
    BY <1>2, InductiveInvariant, PTL DEF Spec, HistoryMonotone

------------------------------------------------------------------------------
(* The saga implements ArchiveProtection. *)

\* A row and an operation at the start stand for an unprotected open archive.
LEMMA PromiseInit == Init => Promise!Init
  <1> SUFFICES ASSUME Init PROVE Promise!Init
    OBVIOUS
  <1>1. NoRow.state = "missing" /\ Absent.outcome = "absent"
    BY DEF NoRow, Absent, Observation
  <1>2. \A r \in Identity : row[r].state = "missing" /\ op[r].outcome = "absent"
    BY <1>1 DEF Init
  <1>. QED
    BY <1>2 DEF Promise!Init, AbstractProtection, AbstractUsage, Protecting,
          FinalOutcome

\* A step of Missions opens, forgets or closes one abstract mission.
LEMMA MissionsStep ==
    ASSUME IInv, NEW r \in Identity, Missions(r)
    PROVE  [Promise!Next]_(Promise!vars)
  <1> DEFINE use == [i \in Identity |-> AbstractUsage(op[i].outcome)]
             prot == [i \in Identity |-> AbstractProtection(row[i].state)]
  <1>1. row' = row
    BY DEF Missions, MissionCommit, MissionSeal, MissionRemove, MissionRestore,
          Observe
  <1>2. prot' = prot
    BY <1>1
  <1>3. CASE MissionCommit(r)
    <2>1. /\ op[r].outcome = "absent"
          /\ op'[r].outcome = "committed"
          /\ \A i \in Identity \ {r} : op'[i] = op[i]
          /\ row[r].state # "missing"
      BY <1>3 DEF MissionCommit, Observation, IInv, TypeOK, AnswerTrue
    <2>2. row[r].state \in Protecting
      BY <2>1 DEF IInv, TypeOK, ReleaseIsFinal, ReferenceState, Protecting,
            FinalOutcome
    <2>3. use[r] = "open" /\ prot[r] = "held"
      BY <2>1, <2>2 DEF AbstractUsage, AbstractProtection, FinalOutcome, Protecting
    <2>4. use' = [use EXCEPT ![r] = "live"]
      BY <2>1 DEF AbstractUsage, FinalOutcome
    <2>. QED
      BY <1>2, <2>3, <2>4 DEF Promise!Next, Promise!GoLive
  <1>4. CASE MissionSeal(r) \/ MissionRemove(r)
    <2>1. /\ op[r].outcome \in {"absent", "committed"}
          /\ op'[r].outcome \in FinalOutcome
          /\ \A i \in Identity \ {r} : op'[i] = op[i]
      BY <1>4 DEF MissionSeal, MissionRemove, Observation, IInv, TypeOK, FinalOutcome
    <2>2. use[r] # "closed"
      BY <2>1 DEF AbstractUsage, FinalOutcome
    <2>3. use' = [use EXCEPT ![r] = "closed"]
      BY <2>1 DEF AbstractUsage, FinalOutcome
    <2>. QED
      BY <1>2, <2>2, <2>3 DEF Promise!Next, Promise!Close
  <1>5. CASE MissionRestore(r)
    <2>1. /\ op[r].outcome = "committed"
          /\ op'[r].outcome = "absent"
          /\ \A i \in Identity \ {r} : op'[i] = op[i]
      BY <1>5 DEF MissionRestore, Absent, Observation, IInv, TypeOK
    <2>2. use[r] = "live"
      BY <2>1 DEF AbstractUsage, FinalOutcome
    <2>3. use' = [use EXCEPT ![r] = "open"]
      BY <2>1 DEF AbstractUsage, FinalOutcome
    <2>. QED
      BY <1>2, <2>2, <2>3 DEF Promise!Next, Promise!Forget
  <1>6. CASE Observe(r)
    BY <1>1, <1>6 DEF Observe, Promise!vars
  <1>. QED
    BY <1>3, <1>4, <1>5, <1>6 DEF Missions

\* A request holds, lets go, or changes nothing the promise sees.
LEMMA RequestStep ==
    ASSUME IInv, IInv', NEW r \in Identity, NEW s \in Identity, NEW action, NEW m,
           Handle(action, r, s, m)
    PROVE  [Promise!Next]_(Promise!vars)
  <1> DEFINE use == [i \in Identity |-> AbstractUsage(op[i].outcome)]
             prot == [i \in Identity |-> AbstractProtection(row[i].state)]
  <1>1. op' = op
    BY DEF Handle
  <1>2. use' = use
    BY <1>1
  <1>3. /\ \A i \in Identity \ {r} : row'[i] = row[i]
        /\ row'[r] = row[r] \/ Reserved(r) \/ Confirmed(r) \/ Released(r, s, m)
    BY RowWritten DEF IInv
  <1>4. row[r] \in [ state : ReferenceState, everConfirmed : BOOLEAN,
                    releasedBy : FinalOutcome \cup {NoEvidence},
                    releaseEvidenceDigest : Evidence \cup {NoEvidence} ]
    BY DEF IInv, TypeOK
  <1>5. CASE row'[r].state = row[r].state \/ Confirmed(r)
    <2>1. AbstractProtection(row'[r].state) = AbstractProtection(row[r].state)
      BY <1>4, <1>5 DEF Confirmed, AbstractProtection, Protecting
    <2>2. prot' = prot
      BY <1>3, <2>1
    <2>. QED
      BY <1>2, <2>2 DEF Promise!vars
  <1>6. CASE Reserved(r)
    <2>1. prot[r] = "none" /\ row'[r].state = "reserved"
      BY <1>4, <1>6 DEF Reserved, AbstractProtection, Protecting
    <2>2. prot' = [prot EXCEPT ![r] = "held"]
      BY <1>3, <2>1 DEF AbstractProtection, Protecting
    <2>. QED
      BY <1>2, <2>1, <2>2 DEF Promise!Next, Promise!Hold
  <1>7. CASE Released(r, s, m)
    <2>1. prot[r] = "held" /\ row'[r].state = "released"
      BY <1>4, <1>7 DEF Released, AbstractProtection, Protecting
    <2>2. prot' = [prot EXCEPT ![r] = "let-go"]
      BY <1>3, <2>1 DEF AbstractProtection, Protecting
    <2>3. op[r].outcome \in FinalOutcome
      BY <1>1, <2>1 DEF IInv, ReleaseIsFinal
    <2>4. use[r] = "closed"
      BY <2>3 DEF AbstractUsage, FinalOutcome
    <2>. QED
      BY <1>2, <2>1, <2>2, <2>4 DEF Promise!Next, Promise!LetGo
  <1>. QED
    BY <1>3, <1>5, <1>6, <1>7

\* The saga, for any number of references, implements the protection promise.
THEOREM ImplementsPromise == Spec => PromiseKept
  <1>1. ASSUME IInv, IInv', [Next]_vars
        PROVE  [Promise!Next]_(Promise!vars)
    <2>1. CASE UNCHANGED vars
      BY <2>1 DEF vars, Promise!vars
    <2>2. ASSUME NEW r \in Identity, Missions(r)
          PROVE  [Promise!Next]_(Promise!vars)
      BY <1>1, <2>2, MissionsStep
    <2>3. ASSUME NEW r \in Identity, Specifications(r)
          PROVE  [Promise!Next]_(Promise!vars)
      <3>1. PICK action \in ReferenceAction, s \in Identity :
                 \/ Handle(action, r, s, Unknown)
                 \/ \E o \in observed : o[1] = s /\ Handle(action, r, s, o[2])
        BY <2>3 DEF Specifications
      <3>. QED
        BY <1>1, <3>1, RequestStep
    <2>. QED
      BY <1>1, <2>1, <2>2, <2>3 DEF Next
  <1>. QED
    BY <1>1, PromiseInit, InductiveInvariant, PTL
       DEF Spec, PromiseKept, Promise!Spec

\* What a row records of its reference is true, final and admissible.
THEOREM HistoriesSound == Spec => []HistorySound
<1>1. ReleaseIsFinal /\ RowAdmissible => HistorySound
  BY DEF HistorySound
<1> QED
  BY <1>1, ReleasesFinal, RowsAdmissible, PTL

------------------------------------------------------------------------------
(* The two oracles (OracleAgreement)                                       *)

\* The storage oracle's checks of the input are those of the other oracle.
StorageAdmits(v) ==
    /\ v.identityMatches /\ v.currentPermission
    /\ v.everConfirmed \in BOOLEAN
    /\ v.state \in ReferenceState
    /\ v.action \in ReferenceAction
    /\ v.sourceOutcome \in MissionOutcome
    /\ ~ StorageHistoryRefused(v)
    /\ ~ StorageEvidenceRefused(v)

MissionsAdmits(c) ==
    /\ IdentityAccepted(c.expected, c.observed)
    /\ c.history.everConfirmed \in BOOLEAN
    /\ c.action \in ReferenceAction
    /\ c.state \in ReferenceState
    /\ c.mission.outcome \in MissionOutcome
    /\ HistoryConsistent(c.state, c.history)
    /\ ObservationConsistent(c.mission)

LEMMA StorageCallFields ==
    ASSUME NEW c
    PROVE  /\ StorageCall(c).action = c.action
           /\ StorageCall(c).state = c.state
           /\ StorageCall(c).everConfirmed = c.history.everConfirmed
           /\ StorageCall(c).releasedBy = c.history.releasedBy
           /\ StorageCall(c).releaseEvidenceDigest = c.history.releaseEvidenceDigest
           /\ StorageCall(c).identityMatches = IdentityAccepted(c.expected, c.observed)
           /\ StorageCall(c).currentPermission = TRUE
           /\ StorageCall(c).sourceOutcome = c.mission.outcome
           /\ StorageCall(c).sourceEvidenceDigest = c.mission.evidenceDigest
  BY DEF StorageCall

LEMMA SameAdmission ==
    ASSUME NEW c \in Calls
    PROVE  StorageAdmits(StorageCall(c)) <=> MissionsAdmits(c)
<1> DEFINE v == StorageCall(c)
<1>0. c.history.everConfirmed \in BOOLEAN
  BY DEF Calls
<1>1. StorageHistoryRefused(v) <=> ~ HistoryConsistent(c.state, c.history)
  <2>1. StorageHistoryRefused(v) <=>
          IF c.state # "released"
          THEN \/ c.history.releasedBy # NoEvidence
               \/ c.history.releaseEvidenceDigest # NoEvidence
               \/ c.history.everConfirmed # (c.state = "confirmed")
          ELSE \/ c.history.releaseEvidenceDigest \notin Evidence
               \/ c.history.releasedBy \notin {"removed-final", "not-committed-final"}
               \/ c.history.everConfirmed /\ c.history.releasedBy = "not-committed-final"
    BY StorageCallFields DEF StorageHistoryRefused
  <2> QED BY <2>1 DEF HistoryConsistent, FinalOutcome
<1>2. StorageEvidenceRefused(v) <=> ~ ObservationConsistent(c.mission)
  <2>1. v.sourceOutcome = c.mission.outcome /\ v.sourceEvidenceDigest = c.mission.evidenceDigest
    BY StorageCallFields
  <2> QED BY <2>1 DEF StorageEvidenceRefused, ObservationConsistent
<1>3. /\ v.action = c.action /\ v.state = c.state /\ v.everConfirmed = c.history.everConfirmed
      /\ v.identityMatches = IdentityAccepted(c.expected, c.observed)
      /\ v.currentPermission = TRUE /\ v.sourceOutcome = c.mission.outcome
  BY StorageCallFields
<1> HIDE DEF v
<1>4. StorageAdmits(v) <=> MissionsAdmits(c)
  BY <1>1, <1>2, <1>3 DEF StorageAdmits, MissionsAdmits
<1> QED BY <1>4 DEF v

\* The correspondence of the answers, read off its table.
LEMMA StorageResults ==
    /\ StorageResult["reserve"] = "reserve"
    /\ StorageResult["confirm"] = "confirm"
    /\ StorageResult["protect"] = "retain"
    /\ StorageResult["release"] = "release"
    /\ StorageResult["refuse"] = "deny"
    /\ StorageResult["already-released"] = "idempotent"
  BY DEF StorageResult

\* The storage oracle's table answers a live row as the nested rules do.
LEMMA SameTable ==
    ASSUME NEW action \in ReferenceAction, NEW state \in {"reserved", "confirmed"},
           NEW outcome \in MissionOutcome \ {"unknown"}
    PROVE  (IF action = "reserve" /\ state = "reserved" /\ outcome = "absent" THEN "retain"
            ELSE IF \E rule \in StorageTable : rule[1] = action /\ rule[2] = outcome
            THEN (CHOOSE rule \in StorageTable : rule[1] = action /\ rule[2] = outcome)[3]
            ELSE "deny")
           = StorageResult[LiveAnswer(action, state, outcome)]
<1> DEFINE Rules == { rule \in StorageTable : rule[1] = action /\ rule[2] = outcome }
           rule == CHOOSE r \in StorageTable : r[1] = action /\ r[2] = outcome
<1>1. CASE \E r \in StorageTable : r[1] = action /\ r[2] = outcome
  <2>1. rule \in StorageTable /\ rule[1] = action /\ rule[2] = outcome
    BY <1>1
  <2> HIDE DEF rule
  <2>2. ~ (action = "reserve" /\ outcome = "absent")
    BY <2>1 DEF StorageTable
  <2>3. rule[3] = StorageResult[LiveAnswer(action, state, outcome)]
    BY <2>1, StorageResults DEF StorageTable, LiveAnswer, ReserveAnswer, ReconcileAnswer, FinalOutcome
  <2> QED BY <1>1, <2>2, <2>3 DEF rule
<1>2. CASE ~ \E r \in StorageTable : r[1] = action /\ r[2] = outcome
  <2>1. \A r \in StorageTable : ~ (r[1] = action /\ r[2] = outcome)
    BY <1>2
  <2>2. /\ ~ (action = "confirm" /\ outcome = "committed")
        /\ action # "reconcile"
        /\ ~ (action = "release" /\ outcome \in FinalOutcome)
        /\ ~ (action = "reserve" /\ outcome = "committed")
    BY <2>1 DEF StorageTable, MissionOutcome, FinalOutcome
  <2>3. CASE action = "reserve"
    BY <1>2, <2>2, <2>3, StorageResults DEF LiveAnswer, ReserveAnswer
  <2>4. CASE action \in {"confirm", "release"}
    BY <1>2, <2>2, <2>4, StorageResults DEF LiveAnswer
  <2> QED BY <2>2, <2>3, <2>4 DEF ReferenceAction
<1> QED BY <1>1, <1>2

\* One call, both answers.
LEMMA SameAnswer ==
    ASSUME NEW c \in Calls
    PROVE  StorageReferenceDecision(StorageCall(c)) =
             StorageResult[ReferenceDecision(c.action, c.state, c.mission, c.expected, c.observed, c.history)]
<1> DEFINE v == StorageCall(c)
           d == ReferenceDecision(c.action, c.state, c.mission, c.expected, c.observed, c.history)
<1>1. /\ v.action = c.action /\ v.state = c.state /\ v.everConfirmed = c.history.everConfirmed
      /\ v.releasedBy = c.history.releasedBy
      /\ v.releaseEvidenceDigest = c.history.releaseEvidenceDigest
      /\ v.sourceOutcome = c.mission.outcome /\ v.sourceEvidenceDigest = c.mission.evidenceDigest
  BY StorageCallFields
<1>2. StorageAdmits(v) <=> MissionsAdmits(c)
  BY SameAdmission
<1> HIDE DEF v
<1>3. CASE ~ MissionsAdmits(c)
  <2>1. d = "refuse"
    BY <1>3 DEF MissionsAdmits, ReferenceDecision
  <2>2. StorageReferenceDecision(v) = "deny"
    BY <1>2, <1>3 DEF StorageAdmits, StorageReferenceDecision
  <2> QED BY <2>1, <2>2, StorageResults DEF v
<1>4. CASE MissionsAdmits(c)
  <2>1. /\ c.action \in ReferenceAction /\ c.state \in ReferenceState
        /\ c.mission.outcome \in MissionOutcome /\ c.history.everConfirmed \in BOOLEAN
    BY <1>4 DEF MissionsAdmits
  <2>2. CASE c.state = "released"
    <3>1. d = ReleasedAnswer(c.action, c.mission, c.history)
      BY <1>4, <2>2 DEF MissionsAdmits, ReferenceDecision
    <3>2. StorageReferenceDecision(v) =
            IF /\ c.action \in {"release", "reconcile"}
               /\ c.mission.outcome = c.history.releasedBy
               /\ c.mission.evidenceDigest = c.history.releaseEvidenceDigest
            THEN "idempotent" ELSE "deny"
      BY <1>1, <1>2, <1>4, <2>2 DEF StorageAdmits, StorageReferenceDecision
    <3> QED BY <3>1, <3>2, StorageResults DEF ReleasedAnswer, v
  <2>3. CASE c.state # "released" /\ c.mission.outcome = "unknown"
    <3>1. d = "protect"
      BY <1>4, <2>3 DEF MissionsAdmits, ReferenceDecision
    <3>2. StorageReferenceDecision(v) = "retain"
      BY <1>1, <1>2, <1>4, <2>3 DEF StorageAdmits, StorageReferenceDecision
    <3> QED BY <3>1, <3>2, StorageResults DEF v
  <2>4. CASE c.state # "released" /\ c.mission.outcome # "unknown" /\ Contradicts(c.mission, c.history)
    <3>1. d = "refuse"
      BY <1>4, <2>4 DEF MissionsAdmits, ReferenceDecision
    <3>2. StorageReferenceDecision(v) = "deny"
      BY <1>1, <1>2, <1>4, <2>4 DEF StorageAdmits, StorageReferenceDecision, Contradicts
    <3> QED BY <3>1, <3>2, StorageResults DEF v
  <2>5. CASE /\ c.state = "missing" /\ c.mission.outcome # "unknown" /\ ~ Contradicts(c.mission, c.history)
    <3>1. d = IF c.action = "reserve" /\ c.mission.outcome = "absent" THEN "reserve" ELSE "refuse"
      BY <1>4, <2>5 DEF MissionsAdmits, ReferenceDecision
    <3>2. StorageReferenceDecision(v) =
            IF c.action = "reserve" /\ c.mission.outcome = "absent" THEN "reserve" ELSE "deny"
      BY <1>1, <1>2, <1>4, <2>5 DEF StorageAdmits, StorageReferenceDecision, Contradicts
    <3> QED BY <3>1, <3>2, StorageResults DEF v
  <2>6. CASE /\ c.state \in {"reserved", "confirmed"} /\ c.mission.outcome # "unknown"
             /\ ~ Contradicts(c.mission, c.history)
    <3>1. d = LiveAnswer(c.action, c.state, c.mission.outcome)
      BY <1>4, <2>6 DEF MissionsAdmits, ReferenceDecision
    <3>2. StorageReferenceDecision(v) =
            IF c.action = "reserve" /\ c.state = "reserved" /\ c.mission.outcome = "absent" THEN "retain"
            ELSE IF \E rule \in StorageTable : rule[1] = c.action /\ rule[2] = c.mission.outcome
            THEN (CHOOSE rule \in StorageTable : rule[1] = c.action /\ rule[2] = c.mission.outcome)[3]
            ELSE "deny"
      BY <1>1, <1>2, <1>4, <2>6 DEF StorageAdmits, StorageReferenceDecision, Contradicts
    <3>3. StorageReferenceDecision(v) = StorageResult[LiveAnswer(c.action, c.state, c.mission.outcome)]
      BY <2>1, <2>6, <3>2, SameTable
    <3> QED BY <3>1, <3>3 DEF v
  <2> QED BY <2>1, <2>2, <2>3, <2>4, <2>5, <2>6 DEF ReferenceState
<1> QED BY <1>3, <1>4

\* The call is one of those considered, and both answers are to it.
AgreementInv ==
    /\ call \in Calls
    /\ missionsAnswer # "pending" =>
         /\ missionsAnswer = ReferenceDecision(call.action, call.state, call.mission,
                                 call.expected, call.observed, call.history)
         /\ storageAnswer = StorageReferenceDecision(StorageCall(call))

\* Both oracles answer the call they are put.
THEOREM AgreementInvariant == AgreementSpec => []AgreementInv
<1>1. AgreementInit => AgreementInv
  BY DEF AgreementInit, AgreementInv
<1>2. AgreementInv /\ [Evaluate]_agreementVars => AgreementInv'
  BY DEF AgreementInv, Evaluate, agreementVars
<1> QED BY <1>1, <1>2, PTL DEF AgreementSpec

\* referenceDecision and evaluateBriefStorage: for any identities and evidence, the
\* two owners' oracles answer every call alike.
THEOREM OraclesAlwaysAgree == AgreementSpec => []OraclesAgree
<1>1. AgreementInv => OraclesAgree
  BY SameAnswer DEF AgreementInv, OraclesAgree
<1> QED BY <1>1, AgreementInvariant, PTL

------------------------------------------------------------------------------
(* Retention (HandoffRetention)                                            *)

\* A verified deadline belongs to the anchor it was computed from.
ScanTrue ==
    \A o \in Object : scan[o].verified /\ scan[o].anchor \in Nat
                      => scan[o].deadline = scan[o].anchor + Tail

\* Drops lie in the past, and whoever drops the archive drops the package too.
PastUse ==
    /\ \A o \in Object : lastUse[o] <= now
    /\ lastUse["archive"] <= lastUse["package"]

RetentionInv == RetentionTypeOK /\ ScanTrue /\ PastUse /\ AnchorExact /\ PurgeRespectsTail

------------------------------------------------------------------------------
(* The two oracles *)

\* What has to hold of an observation for the retention oracle to say "purge".
LEMMA PurgeJustified ==
    ASSUME NEW v, RetentionDecision(v) = "purge"
    PROVE  /\ v.referencesCurrent
           /\ ~ (v.activeReferences > 0)
           /\ ~ (v.uncertainReferences > 0)
           /\ v.deadlineVerified
           /\ v.releasedAt \in Nat
           /\ v.policyDeadline \in Nat
           /\ v.deadlineAnchor = v.releasedAt
           /\ v.now >= v.policyDeadline
  BY DEF RetentionDecision

\* What the joint oracle lets a transaction write: no anchor on a referenced
\* object, one on an object without references.
LEMMA JointJustified ==
    ASSUME NEW a, NEW p, NEW m \in Nat, NEW n \in Nat, n >= m,
           JointDecision(m, n, a, p) # "deny"
    PROVE  /\ m > 0 => a = NoTime /\ p = NoTime
           /\ m = 0 => a \in Nat
           /\ n > 0 => p = NoTime
           /\ n = 0 => p \in Nat
  BY DEF JointDecision

------------------------------------------------------------------------------
(* Counting references *)

LEMMA FiniteParts ==
    ASSUME NEW S, NEW T, S \subseteq Reference, T \subseteq Consumer
    PROVE  /\ Cardinality(S) \in Nat
           /\ Cardinality(T) \in Nat
           /\ (Cardinality(S) = 0) = (S = {})
           /\ (Cardinality(T) = 0) = (T = {})
<1>1. IsFiniteSet(S) /\ IsFiniteSet(T)
  BY FS_Subset, RetentionAssumption DEF RetentionAssumption
<1> QED
  BY <1>1, FS_EmptySet, FS_CardinalityType

\* Protectors counts live references and, for the package, its other users.
LEMMA ProtectorsCount ==
    ASSUME RetentionTypeOK, NEW o \in Object
    PROVE  /\ Protectors(o) \in Nat
           /\ (Protectors(o) = 0) =
                 (live = {} /\ (o = "package" => users = {}))
           /\ Cardinality(uncertain) \in Nat
<1>1. live \subseteq Reference /\ users \subseteq Consumer
      /\ uncertain \subseteq Reference
  BY DEF RetentionTypeOK
<1>2. /\ Cardinality(live) \in Nat
      /\ Cardinality(users) \in Nat
      /\ (Cardinality(live) = 0) = (live = {})
      /\ (Cardinality(users) = 0) = (users = {})
  BY <1>1, FiniteParts
<1>3. Cardinality(uncertain) \in Nat
  BY <1>1, FiniteParts
<1>4. CASE o = "archive"
  BY <1>2, <1>3, <1>4 DEF Protectors
<1>5. CASE o = "package"
  <2>1. Protectors(o) = Cardinality(live) + Cardinality(users)
    BY <1>5 DEF Protectors
  <2>2. (Cardinality(live) + Cardinality(users) = 0)
        = (Cardinality(live) = 0 /\ Cardinality(users) = 0)
    BY <1>2
  <2> QED
    BY <1>2, <1>3, <1>5, <2>1, <2>2
<1> QED
  BY <1>4, <1>5 DEF Object

\* An owner's commit leaves an anchor exactly on the objects without
\* references, and takes it from the proposals.
LEMMA CommitAnchors ==
    ASSUME RetentionTypeOK, NEW S, NEW T, NEW A,
           S \subseteq Reference, T \subseteq Consumer,
           A \subseteq Time, now \in Nat, OwnerCommit(S, T, A)
    PROVE  /\ live' = S /\ users' = T
           /\ releasedAt' \in [Object -> Time]
           /\ releasedAt'["archive"] \in A
           /\ releasedAt'["package"] \in Proposals("package")
           /\ S # {} => /\ releasedAt'["archive"] = NoTime
                        /\ releasedAt'["package"] = NoTime
           /\ S = {} => releasedAt'["archive"] \in Nat
           /\ T # {} => releasedAt'["package"] = NoTime
           /\ S = {} /\ T = {} => releasedAt'["package"] \in Nat
<1>1. PICK a \in A, p \in Proposals("package") :
          /\ JointDecision(Cardinality(S), Cardinality(S) + Cardinality(T),
                           a, p) # "deny"
          /\ releasedAt' = [releasedAt EXCEPT !["archive"] = a,
                                              !["package"] = p]
  BY DEF OwnerCommit
<1>2. /\ Cardinality(S) \in Nat
      /\ Cardinality(T) \in Nat
      /\ (Cardinality(S) = 0) = (S = {})
      /\ (Cardinality(T) = 0) = (T = {})
  BY FiniteParts
<1>3. /\ Cardinality(S) > 0 => a = NoTime /\ p = NoTime
      /\ Cardinality(S) = 0 => a \in Nat
      /\ Cardinality(S) + Cardinality(T) > 0 => p = NoTime
      /\ Cardinality(S) + Cardinality(T) = 0 => p \in Nat
  <2> DEFINE m == Cardinality(S)
             n == Cardinality(S) + Cardinality(T)
  <2>1. m \in Nat /\ n \in Nat /\ n >= m
    BY <1>2
  <2>2. JointDecision(m, n, a, p) # "deny"
    BY <1>1
  <2> QED
    BY <2>1, <2>2, JointJustified
<1>4. releasedAt \in [Object -> Time] /\ a \in Time /\ p \in Time
  BY DEF RetentionTypeOK, Proposals, Time, Object
<1>5. /\ releasedAt' \in [Object -> Time]
      /\ releasedAt'["archive"] = a
      /\ releasedAt'["package"] = p
  BY <1>1, <1>4 DEF Object
<1>6. live' = S /\ users' = T
  BY DEF OwnerCommit
<1>7. /\ S # {} => Cardinality(S) > 0
      /\ S = {} => Cardinality(S) = 0
      /\ T # {} => Cardinality(S) + Cardinality(T) > 0
      /\ S = {} /\ T = {} => Cardinality(S) + Cardinality(T) = 0
  BY <1>2
<1> QED
  BY <1>3, <1>5, <1>6, <1>7

------------------------------------------------------------------------------
(* The invariant *)

\* AnchorExact and PurgeRespectsTail object by object, without counting.
PlainAnchors ==
    /\ releasedAt["archive"] =
         IF live # {} THEN NoTime ELSE lastUse["archive"]
    /\ releasedAt["package"] =
         IF live # {} \/ users # {} THEN NoTime ELSE lastUse["package"]

PlainPurge ==
    /\ "archive" \notin stored =>
         live = {} /\ now >= lastUse["archive"] + Tail
    /\ "package" \notin stored =>
         live = {} /\ users = {} /\ now >= lastUse["package"] + Tail

LEMMA Plainly ==
    RetentionTypeOK => /\ AnchorExact <=> PlainAnchors
                       /\ PurgeRespectsTail <=> PlainPurge
<1> SUFFICES ASSUME RetentionTypeOK
             PROVE  /\ AnchorExact <=> PlainAnchors
                    /\ PurgeRespectsTail <=> PlainPurge
  OBVIOUS
<1>1. /\ "archive" \in Object /\ "package" \in Object
      /\ \A o \in Object : o = "archive" \/ o = "package"
      /\ "archive" # "package"
  BY DEF Object
<1>2. /\ Protectors("archive") \in Nat
      /\ (Protectors("archive") = 0) = (live = {})
  BY <1>1, ProtectorsCount
<1>3. /\ Protectors("package") \in Nat
      /\ (Protectors("package") = 0) = (live = {} /\ users = {})
  BY <1>1, ProtectorsCount
<1>4. /\ (Protectors("archive") > 0) = (live # {})
      /\ (Protectors("package") > 0) = (live # {} \/ users # {})
  BY <1>2, <1>3
<1> QED
  BY <1>1, <1>2, <1>3, <1>4
  DEF AnchorExact, PurgeRespectsTail, PlainAnchors, PlainPurge

\* The same in the next state.
LEMMA PlainlyNext ==
    RetentionTypeOK' => /\ AnchorExact' <=> PlainAnchors'
                        /\ PurgeRespectsTail' <=> PlainPurge'
  BY Plainly, PTL

LEMMA RetentionBegins == ASSUME RetentionInit PROVE RetentionInv
<1>1. PICK r \in Reference : live = {r} /\ uncertain = {r}
  BY DEF RetentionInit
<1>2. NoScan \in Scans /\ NoScan.verified = FALSE
  BY DEF NoScan, Scans, Time
<1>3. RetentionTypeOK
  BY <1>1, <1>2 DEF RetentionInit, RetentionTypeOK, Time
<1>4. ScanTrue
  BY <1>2 DEF RetentionInit, ScanTrue
<1>5. PastUse
  BY DEF RetentionInit, PastUse, Object
<1>6. AnchorExact /\ PurgeRespectsTail
  BY <1>1, <1>3, Plainly DEF RetentionInit, Object, PlainAnchors, PlainPurge
<1> QED
  BY <1>3, <1>4, <1>5, <1>6 DEF RetentionInv

LEMMA ProposalsAreTimes ==
    ASSUME RetentionTypeOK, NEW o \in Object
    PROVE  Proposals(o) \subseteq Time
  BY DEF RetentionTypeOK, Proposals, Time

LEMMA AcquirePreserves ==
    ASSUME RetentionInv, NEW r \in Reference, Acquire(r)
    PROVE  RetentionInv'
<1>1. RetentionTypeOK /\ now \in Nat /\ Proposals("archive") \subseteq Time
  BY ProposalsAreTimes DEF RetentionInv, RetentionTypeOK, Object
<1>2. live \cup {r} \subseteq Reference /\ users \subseteq Consumer
  BY DEF RetentionInv, RetentionTypeOK
<1>3. OwnerCommit(live \cup {r}, users, Proposals("archive"))
  BY DEF Acquire
<1>4. /\ live' = live \cup {r} /\ users' = users
      /\ releasedAt' \in [Object -> Time]
      /\ releasedAt'["archive"] = NoTime
      /\ releasedAt'["package"] = NoTime
  BY <1>1, <1>2, <1>3, CommitAnchors
<1>5. RetentionTypeOK'
  BY <1>2, <1>4 DEF RetentionInv, Acquire, RetentionTypeOK
<1>6. PlainAnchors' /\ PlainPurge'
  BY <1>4 DEF Acquire, PlainAnchors, PlainPurge, Object
<1>7. ScanTrue' /\ PastUse'
  BY DEF RetentionInv, Acquire, ScanTrue, PastUse
<1> QED
  BY <1>5, <1>6, <1>7, PlainlyNext DEF RetentionInv

LEMMA ReleasePreserves ==
    ASSUME RetentionInv, NEW r \in Reference, Release(r)
    PROVE  RetentionInv'
<1>1. /\ RetentionTypeOK /\ now \in Nat
      /\ Proposals("archive") \subseteq Time
      /\ "archive" \in Object /\ "package" \in Object
  BY ProposalsAreTimes DEF RetentionInv, RetentionTypeOK, Object
<1>2. live \ {r} \subseteq Reference /\ users \subseteq Consumer /\ live # {}
  BY DEF RetentionInv, RetentionTypeOK, Release
<1>3. OwnerCommit(live \ {r}, users, Proposals("archive"))
  BY DEF Release
<1>4. /\ releasedAt["archive"] = NoTime /\ releasedAt["package"] = NoTime
      /\ "archive" \in stored /\ "package" \in stored
  BY <1>1, <1>2, Plainly DEF RetentionInv, PlainAnchors, PlainPurge
<1>5. /\ live' = live \ {r} /\ users' = users
      /\ releasedAt' \in [Object -> Time]
      /\ releasedAt'["archive"] \in {NoTime, now}
      /\ releasedAt'["package"] \in {NoTime, now}
      /\ live' # {} => /\ releasedAt'["archive"] = NoTime
                       /\ releasedAt'["package"] = NoTime
      /\ live' = {} => releasedAt'["archive"] \in Nat
      /\ users' # {} => releasedAt'["package"] = NoTime
      /\ live' = {} /\ users' = {} => releasedAt'["package"] \in Nat
  <2>1. /\ Proposals("archive") = {NoTime, now}
        /\ Proposals("package") = {NoTime, now}
    BY <1>4 DEF Proposals
  <2> QED
    BY <1>1, <1>2, <1>3, <2>1, CommitAnchors
<1>6. /\ lastUse' = [o \in Object |-> now]
      /\ lastUse'["archive"] = now /\ lastUse'["package"] = now
      /\ now' = now /\ stored' = stored /\ scan' = scan
  BY <1>1 DEF Release
<1>7. RetentionTypeOK'
  BY <1>1, <1>2, <1>5, <1>6 DEF RetentionInv, Release, RetentionTypeOK
<1>8. PlainAnchors'
  BY <1>1, <1>5, <1>6, RetentionAssumption
  DEF PlainAnchors, RetentionAssumption
<1>9. PlainPurge'
  BY <1>4, <1>6 DEF PlainPurge
<1>10. ScanTrue' /\ PastUse'
  BY <1>1, <1>6 DEF RetentionInv, ScanTrue, PastUse
<1> QED
  BY <1>7, <1>8, <1>9, <1>10, PlainlyNext DEF RetentionInv

LEMMA UsePreserves ==
    ASSUME RetentionInv, NEW c \in Consumer, UsePackage(c)
    PROVE  RetentionInv'
<1>1. /\ RetentionTypeOK /\ now \in Nat /\ live \subseteq Reference
      /\ users \cup {c} \subseteq Consumer
      /\ {releasedAt["archive"]} \subseteq Time
  BY DEF RetentionInv, RetentionTypeOK, Object
<1>2. OwnerCommit(live, users \cup {c}, {releasedAt["archive"]})
  BY DEF UsePackage
<1>3. /\ live' = live /\ users' = users \cup {c}
      /\ releasedAt' \in [Object -> Time]
      /\ releasedAt'["archive"] = releasedAt["archive"]
      /\ releasedAt'["package"] = NoTime
  BY <1>1, <1>2, CommitAnchors
<1>4. PlainAnchors /\ PlainPurge
  BY <1>1, Plainly DEF RetentionInv
<1>5. RetentionTypeOK'
  BY <1>1, <1>3 DEF RetentionInv, UsePackage, RetentionTypeOK
<1>6. PlainAnchors' /\ PlainPurge'
  BY <1>3, <1>4 DEF UsePackage, PlainAnchors, PlainPurge
<1>7. ScanTrue' /\ PastUse'
  BY DEF RetentionInv, UsePackage, ScanTrue, PastUse
<1> QED
  BY <1>5, <1>6, <1>7, PlainlyNext DEF RetentionInv

LEMMA DropPreserves ==
    ASSUME RetentionInv, NEW c \in Consumer, DropPackage(c)
    PROVE  RetentionInv'
<1>1. /\ RetentionTypeOK /\ now \in Nat /\ live \subseteq Reference
      /\ users \ {c} \subseteq Consumer
      /\ {releasedAt["archive"]} \subseteq Time
      /\ "archive" \in Object /\ "package" \in Object
      /\ "archive" # "package"
      /\ lastUse \in [Object -> Nat]
  BY DEF RetentionInv, RetentionTypeOK, Object
<1>2. OwnerCommit(live, users \ {c}, {releasedAt["archive"]})
  BY DEF DropPackage
<1>3. PlainAnchors /\ PlainPurge
  BY <1>1, Plainly DEF RetentionInv
<1>4. users # {} /\ releasedAt["package"] = NoTime /\ "package" \in stored
  BY <1>3 DEF DropPackage, PlainAnchors, PlainPurge
<1>5. /\ live' = live /\ users' = users \ {c}
      /\ releasedAt' \in [Object -> Time]
      /\ releasedAt'["archive"] = releasedAt["archive"]
      /\ releasedAt'["package"] \in {NoTime, now}
      /\ live # {} \/ users' # {} => releasedAt'["package"] = NoTime
      /\ live = {} /\ users' = {} => releasedAt'["package"] \in Nat
  <2>1. Proposals("package") = {NoTime, now}
    BY <1>4 DEF Proposals
  <2> QED
    BY <1>1, <1>2, <2>1, CommitAnchors
<1>6. /\ lastUse'["archive"] = lastUse["archive"]
      /\ lastUse'["package"] = now
      /\ lastUse' \in [Object -> Nat]
      /\ now' = now /\ stored' = stored /\ scan' = scan
  BY <1>1 DEF DropPackage
<1>7. RetentionTypeOK'
  BY <1>1, <1>5, <1>6 DEF RetentionInv, DropPackage, RetentionTypeOK
<1>8. PlainAnchors'
  BY <1>3, <1>5, <1>6, RetentionAssumption
  DEF PlainAnchors, RetentionAssumption
<1>9. PlainPurge'
  BY <1>3, <1>4, <1>5, <1>6 DEF PlainPurge
<1>10. ScanTrue' /\ PastUse'
  BY <1>1, <1>6 DEF RetentionInv, ScanTrue, PastUse, Object
<1> QED
  BY <1>7, <1>8, <1>9, <1>10, PlainlyNext DEF RetentionInv

\* A look writes true facts about this moment into the scan.
LEMMA LookPreserves ==
    ASSUME RetentionInv, NEW o \in Object, NEW b \in BOOLEAN, Look(o, b)
    PROVE  RetentionInv'
<1>1. /\ RetentionTypeOK
      /\ uncertain \subseteq live /\ live \subseteq Reference
      /\ scan \in [Object -> Scans]
      /\ releasedAt[o] \in Time
  BY DEF RetentionInv, RetentionTypeOK
<1>2. /\ Cardinality(uncertain) \in Nat
      /\ Protectors(o) - Cardinality(uncertain) \in Nat
  <2>1. IsFiniteSet(live) /\ users \subseteq Consumer
    BY <1>1, FS_Subset, RetentionAssumption DEF RetentionAssumption, RetentionTypeOK
  <2>2. /\ Cardinality(uncertain) <= Cardinality(live)
        /\ Cardinality(live) \in Nat
        /\ Cardinality(uncertain) \in Nat
    BY <1>1, <2>1, FS_Subset, FS_CardinalityType
  <2>3. Cardinality(users) \in Nat
    BY <2>1, FiniteParts
  <2> QED
    BY <2>2, <2>3 DEF Protectors
<1> DEFINE s == [ active    |-> Protectors(o) - Cardinality(uncertain),
                  uncertain |-> Cardinality(uncertain),
                  anchor    |-> releasedAt[o],
                  deadline  |-> IF releasedAt[o] = NoTime THEN NoTime
                                ELSE IF b THEN releasedAt[o] + Tail
                                ELSE releasedAt[o] + 1,
                  verified  |-> b ]
<1>3. scan' = [scan EXCEPT ![o] = s]
  BY DEF Look
<1>4. s.deadline \in Time
  BY <1>1, RetentionAssumption DEF RetentionAssumption, Time
<1>5. s \in Scans
  BY <1>1, <1>2, <1>4 DEF Scans
<1>6. b /\ releasedAt[o] \in Nat => s.deadline = releasedAt[o] + Tail
  BY RetentionAssumption DEF RetentionAssumption
<1>7. s.verified = b /\ s.anchor = releasedAt[o]
  OBVIOUS
<1> HIDE DEF s
<1>8. RetentionTypeOK'
  BY <1>1, <1>3, <1>5 DEF Look, RetentionTypeOK
<1>9. ScanTrue'
  BY <1>1, <1>3, <1>6, <1>7 DEF RetentionInv, ScanTrue
<1>10. PastUse' /\ AnchorExact' /\ PurgeRespectsTail'
  BY DEF RetentionInv, Look, PastUse, AnchorExact, PurgeRespectsTail, Protectors
<1> QED
  BY <1>8, <1>9, <1>10 DEF RetentionInv

\* A purge meets an object without references, after the tail of its current
\* anchor: the only anchor whose deadline the oracle accepts.
LEMMA CompactPreserves ==
    ASSUME RetentionInv, NEW o \in Object, NEW b \in BOOLEAN, Compact(o, b)
    PROVE  RetentionInv'
<1>1. /\ RetentionTypeOK /\ now \in Nat /\ scan \in [Object -> Scans]
      /\ releasedAt \in [Object -> Time]
  BY DEF RetentionInv, RetentionTypeOK
<1> DEFINE v == [ referencesCurrent   |-> b,
                  activeReferences    |-> IF b
                                    THEN Protectors(o) - Cardinality(uncertain)
                                    ELSE scan[o].active,
                  uncertainReferences |-> IF b THEN Cardinality(uncertain)
                                    ELSE scan[o].uncertain,
                  releasedAt          |-> IF b THEN releasedAt[o]
                                    ELSE scan[o].anchor,
                  policyDeadline      |-> scan[o].deadline,
                  deadlineAnchor      |-> scan[o].anchor,
                  deadlineVerified    |-> scan[o].verified,
                  now                 |-> now ]
<1>2. RetentionDecision(v) = "purge"
  BY DEF Compact
<1>3. /\ v.referencesCurrent
      /\ ~ (v.activeReferences > 0)
      /\ ~ (v.uncertainReferences > 0)
      /\ v.deadlineVerified
      /\ v.releasedAt \in Nat
      /\ v.policyDeadline \in Nat
      /\ v.deadlineAnchor = v.releasedAt
      /\ v.now >= v.policyDeadline
  <2> HIDE DEF v
  <2> QED BY <1>2, PurgeJustified
<1>4. /\ b
      /\ ~ (Protectors(o) - Cardinality(uncertain) > 0)
      /\ ~ (Cardinality(uncertain) > 0)
      /\ scan[o].verified
      /\ releasedAt[o] \in Nat
      /\ scan[o].anchor = releasedAt[o]
      /\ now >= scan[o].deadline
  BY <1>3
<1>5. Protectors(o) = 0
  BY <1>1, <1>4, ProtectorsCount
<1>6. releasedAt[o] = lastUse[o]
  BY <1>5 DEF RetentionInv, AnchorExact
<1>7. now >= lastUse[o] + Tail
  BY <1>4, <1>6 DEF RetentionInv, ScanTrue
<1>8. RetentionTypeOK'
  BY DEF RetentionInv, Compact, RetentionTypeOK
<1>9. PurgeRespectsTail'
  BY <1>5, <1>7 DEF RetentionInv, Compact, PurgeRespectsTail, Protectors
<1>10. ScanTrue' /\ PastUse' /\ AnchorExact'
  BY DEF RetentionInv, Compact, ScanTrue, PastUse, AnchorExact, Protectors
<1> QED
  BY <1>8, <1>9, <1>10 DEF RetentionInv

LEMMA RetentionStep == ASSUME RetentionInv, [RetentionNext]_retentionVars PROVE RetentionInv'
<1>1. ASSUME NEW r \in Reference, Acquire(r) PROVE RetentionInv'
  BY <1>1, AcquirePreserves
<1>2. ASSUME NEW r \in Reference, Confirm(r) PROVE RetentionInv'
  BY <1>2 DEF Confirm, RetentionInv, RetentionTypeOK, ScanTrue, PastUse, AnchorExact,
              PurgeRespectsTail, Protectors
<1>3. ASSUME NEW r \in Reference, Release(r) PROVE RetentionInv'
  BY <1>3, ReleasePreserves
<1>4. ASSUME NEW c \in Consumer, UsePackage(c) PROVE RetentionInv'
  BY <1>4, UsePreserves
<1>5. ASSUME NEW c \in Consumer, DropPackage(c) PROVE RetentionInv'
  BY <1>5, DropPreserves
<1>6. ASSUME NEW o \in Object, NEW b \in BOOLEAN, Look(o, b) PROVE RetentionInv'
  BY <1>6, LookPreserves
<1>7. ASSUME NEW o \in Object, NEW b \in BOOLEAN, Compact(o, b) PROVE RetentionInv'
  BY <1>7, CompactPreserves
<1>8. CASE Tick
  <2>1. /\ now' = now + 1 /\ now \in Nat
        /\ lastUse \in [Object -> Nat] /\ Tail \in Nat
    BY <1>8, RetentionAssumption DEF Tick, RetentionInv, RetentionTypeOK, RetentionAssumption
  <2>2. RetentionTypeOK' /\ ScanTrue' /\ AnchorExact'
    BY <1>8, <2>1 DEF Tick, RetentionInv, RetentionTypeOK, ScanTrue, AnchorExact, Protectors
  <2>3. PastUse' /\ PurgeRespectsTail'
    BY <1>8, <2>1 DEF Tick, RetentionInv, PastUse, PurgeRespectsTail, Protectors
  <2> QED
    BY <2>2, <2>3 DEF RetentionInv
<1>9. CASE UNCHANGED retentionVars
  BY <1>9 DEF retentionVars, RetentionInv, RetentionTypeOK, ScanTrue, PastUse, AnchorExact,
              PurgeRespectsTail, Protectors
<1> QED
  BY <1>1, <1>2, <1>3, <1>4, <1>5, <1>6, <1>7, <1>8, <1>9 DEF RetentionNext

------------------------------------------------------------------------------
(* The theorems *)

\* The strengthened invariant holds in every reachable state.
THEOREM RetentionInvariant == RetentionSpec => []RetentionInv
  BY RetentionBegins, RetentionStep, PTL DEF RetentionSpec

\* Types: in particular, uncertain references are always among the live ones.
THEOREM RetentionTypeCorrect == RetentionSpec => []RetentionTypeOK
<1>1. RetentionInv => RetentionTypeOK
  BY DEF RetentionInv
<1> QED
  BY <1>1, RetentionInvariant, PTL

\* evaluateBriefStorage, retention: whatever the worker saw and however long it
\* waited, a purged object has no references and its whole tail is over.
THEOREM PurgesRespectTail == RetentionSpec => []PurgeRespectsTail
<1>1. RetentionInv => PurgeRespectsTail
  BY DEF RetentionInv
<1> QED
  BY <1>1, RetentionInvariant, PTL

\* evaluateBriefStorage, joint-reference: whatever anchors the owner proposes,
\* those it commits are the moments of the last drop.
THEOREM AnchorsExact == RetentionSpec => []AnchorExact
<1>1. RetentionInv => AnchorExact
  BY DEF RetentionInv
<1> QED
  BY <1>1, RetentionInvariant, PTL

\* Both oracles: the package is still there as long as the archive needs it.
THEOREM PackagesOutliveArchives == RetentionSpec => []PackageOutlivesArchive
<1>1. RetentionInv => PackageOutlivesArchive
  <2> SUFFICES ASSUME RetentionInv, "package" \notin stored
               PROVE  live = {} /\ now >= lastUse["archive"] + Tail
    BY DEF PackageOutlivesArchive
  <2>1. live = {} /\ now >= lastUse["package"] + Tail
    BY Plainly DEF RetentionInv, PlainPurge
  <2>2. /\ lastUse["archive"] \in Nat /\ lastUse["package"] \in Nat
        /\ lastUse["archive"] <= lastUse["package"]
        /\ Tail \in Nat /\ now \in Nat
    BY RetentionAssumption
    DEF RetentionInv, RetentionTypeOK, PastUse, Object, RetentionAssumption
  <2> QED
    BY <2>1, <2>2
<1> QED
  BY <1>1, RetentionInvariant, PTL

\* Nothing is purged early, for any tail, consumers and interleaving.
THEOREM PurgesSound == RetentionSpec => []PurgeSound
<1>1. PurgeRespectsTail /\ AnchorExact /\ PackageOutlivesArchive => PurgeSound
  BY DEF PurgeSound
<1> QED
  BY <1>1, PurgesRespectTail, AnchorsExact, PackagesOutliveArchives, PTL
==============================================================================
