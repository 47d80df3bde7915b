--------------------------- MODULE EventChainProofs ---------------------------
(***************************************************************************)
(* The safety of EventChain for any workers, counters, deltas, faults and  *)
(* bounds.  The invariant that carries the proofs is OneChain itself: with *)
(* sequences equal to positions, every position below the head is taken,   *)
(* so the collision rule alone keeps replays and forks out, although the   *)
(* lookup hands it a single accepted event.                                *)
(***************************************************************************)
EXTENDS EventChain, SequenceTheorems, FiniteSetTheorems, WellFoundedInduction, TLAPS

\* Every event is linked to one that was emitted or accepted.
Linked ==
    \A e \in Range(journal) \cup sent :
        e.previousEventDigest \in sent \cup Range(journal) \cup {NoEvent}

IInv == TypeOK /\ Linked /\ OneChain

Hits(e) == { x \in Range(journal) : x.id = e.id \/ x.sequence = e.sequence }

------------------------------------------------------------------------------
(* Events *)

LEMMA NoEventIsNone == ASSUME NEW e, IsEvent(e) PROVE e # NoEvent
  BY DEF IsEvent, NoEvent

\* The event a worker builds is well formed and follows its belief.
LEMMA AfterIsEvent ==
    ASSUME NEW w \in Worker, NEW p, IsEvent(p) \/ p = NoEvent,
           NEW a \in Authority, NEW d \in Delta, NEW n \in 1 .. MaxTry,
           After(w, p, a, d, n).sequence <= MaxLength
    PROVE  /\ IsEvent(After(w, p, a, d, n))
           /\ After(w, p, a, d, n).previousEventDigest = p
<1> DEFINE s == IF p = NoEvent THEN 1 ELSE p.sequence + 1
           t == IF p = NoEvent THEN d
                ELSE [ c \in Counter |-> p.budgetTotal[c] + d[c] ]
<1>1. After(w, p, a, d, n) =
        [ id |-> <<w, s>>, authority |-> a, sequence |-> s,
          previousEventDigest |-> p, attempt |-> n,
          budgetDelta |-> d, budgetTotal |-> t ]
  BY DEF After
<1>2. d \in [Counter -> Nat] /\ n \in Nat
  BY ChainAssumption DEF ChainAssumption
<1>3. p # NoEvent => /\ p.sequence \in Nat \ {0}
                     /\ p.budgetTotal \in [Counter -> Nat]
  BY DEF IsEvent
<1>4. s \in Nat \ {0}
  BY <1>3
<1>5. s <= MaxLength /\ MaxLength \in Nat
  BY <1>1, ChainAssumption DEF ChainAssumption
<1>6. <<w, s>> \in Id
  BY <1>4, <1>5 DEF Id
<1>7. t \in [Counter -> Nat]
  BY <1>2, <1>3
<1> HIDE DEF s, t
<1> QED
  BY <1>1, <1>2, <1>4, <1>6, <1>7 DEF IsEvent

\* An event that arrives wrong in one field is still schema-valid.
LEMMA ArrivalIsEvent ==
    ASSUME TypeOK, Linked, NEW e \in Arrivals
    PROVE  /\ IsEvent(e)
           /\ e.previousEventDigest \in sent \cup Range(journal) \cup {NoEvent}
<1>1. CASE e \in sent
  BY <1>1 DEF TypeOK, Linked
<1>2. CASE e \notin sent
  <2>1. PICK f \in sent : e \in Distorted(f)
    BY <1>2 DEF Arrivals
  <2>2. /\ IsEvent(f)
        /\ f.previousEventDigest \in sent \cup Range(journal) \cup {NoEvent}
        /\ \A x \in sent : x.id \in Id
    BY DEF TypeOK, Linked, IsEvent
  <2>3. CASE \E x \in sent : e = [f EXCEPT !.id = x.id]
    BY <2>2, <2>3 DEF IsEvent
  <2>4. CASE \E a \in Authority : e = [f EXCEPT !.authority = a]
    BY <2>2, <2>4 DEF IsEvent
  <2>5. CASE \E n \in 1 .. MaxLength : e = [f EXCEPT !.sequence = n]
    BY <2>2, <2>5, ChainAssumption DEF IsEvent, ChainAssumption
  <2>6. CASE \E p \in Range(journal) \cup {NoEvent} :
                e = [f EXCEPT !.previousEventDigest = p]
    BY <2>2, <2>6 DEF IsEvent
  <2>7. CASE \E n \in 1 .. MaxTry : e = [f EXCEPT !.attempt = n]
    BY <2>2, <2>7, ChainAssumption DEF IsEvent, ChainAssumption
  <2>8. CASE \E t \in {f.budgetDelta} \cup Delta :
                e = [f EXCEPT !.budgetTotal = t]
    BY <2>2, <2>8, ChainAssumption DEF IsEvent, ChainAssumption
  <2> QED
    BY <2>1, <2>3, <2>4, <2>5, <2>6, <2>7, <2>8 DEF Distorted
<1> QED
  BY <1>1, <1>2

------------------------------------------------------------------------------
(* The verdict *)

\* An event that collides with an accepted one is never valid.
LEMMA HitIsNotValid ==
    ASSUME TypeOK, NEW e, Hits(e) # {}
    PROVE  /\ Found(e) = Hits(e)
           /\ \A c \in Hits(e) : ChainVerdicts(Last, e, c) =
                 IF e.id = c.id /\ e.sequence = c.sequence /\ e = c
                 THEN {"idempotent-duplicate"} ELSE {"duplicate-divergent"}
           /\ "valid" \notin Verdicts(e)
<1>1. Found(e) = Hits(e)
  BY DEF Found, Hits
<1>2. ASSUME NEW c \in Hits(e)
      PROVE  ChainVerdicts(Last, e, c) =
                IF e.id = c.id /\ e.sequence = c.sequence /\ e = c
                THEN {"idempotent-duplicate"} ELSE {"duplicate-divergent"}
  <2>1. c # NoEvent
    BY NoEventIsNone DEF Hits, TypeOK
  <2>2. e.id = c.id \/ e.sequence = c.sequence
    BY DEF Hits
  <2>3. CollisionVerdict(e, c) =
           IF e.id = c.id /\ e.sequence = c.sequence /\ e = c
           THEN "idempotent-duplicate" ELSE "duplicate-divergent"
    BY <2>2 DEF CollisionVerdict
  <2> QED
    BY <2>1, <2>3 DEF ChainVerdicts
<1> QED
  BY <1>1, <1>2 DEF Verdicts

\* What the verdict on an event without a collision says.
LEMMA NoHit ==
    ASSUME NEW e, Hits(e) = {}
    PROVE  Verdicts(e) = IF Last = NoEvent THEN {GenesisVerdict(e)}
                         ELSE SuccessorVerdicts(Last, e)
<1>1. Found(e) = {NoEvent}
  BY DEF Found, Hits
<1>2. Verdicts(e) = ChainVerdicts(Last, e, NoEvent)
  BY <1>1 DEF Verdicts
<1> QED
  BY <1>2 DEF ChainVerdicts

LEMMA ValidSuccessor ==
    ASSUME NEW p, NEW e, "valid" \in SuccessorVerdicts(p, e)
    PROVE  /\ e.authority = p.authority
           /\ e.sequence = p.sequence + 1
           /\ e.previousEventDigest = p
  BY DEF SuccessorVerdicts, SameAuthority

------------------------------------------------------------------------------
(* The journal *)

\* What appending does to a sequence, its elements and its positions.
LEMMA Appended ==
    ASSUME NEW s, s \in Seq(Range(s)), NEW e
    PROVE  /\ Append(s, e) \in Seq(Range(Append(s, e)))
           /\ Range(Append(s, e)) = Range(s) \cup {e}
           /\ Len(s) \in Nat
           /\ Len(Append(s, e)) = Len(s) + 1
           /\ DOMAIN s = 1 .. Len(s)
           /\ DOMAIN Append(s, e) = 1 .. Len(s) + 1
           /\ \A i \in 1 .. Len(s) : Append(s, e)[i] = s[i]
           /\ Append(s, e)[Len(s) + 1] = e
<1> DEFINE S == Range(s) \cup {e}
<1>1. s \in Seq(S) /\ e \in S
  BY SeqMonotonic
<1>2. /\ Append(s, e) \in Seq(S)
      /\ Len(Append(s, e)) = Len(s) + 1
      /\ \A i \in 1 .. Len(s) : Append(s, e)[i] = s[i]
      /\ Append(s, e)[Len(s) + 1] = e
  BY <1>1, AppendProperties
<1>3. /\ Len(s) \in Nat /\ DOMAIN s = 1 .. Len(s)
      /\ DOMAIN Append(s, e) = 1 .. Len(s) + 1
  BY <1>1, <1>2
<1>4. Range(Append(s, e)) = Range(s) \cup {e}
  BY <1>2, <1>3 DEF Range
<1> QED
  BY <1>2, <1>3, <1>4

\* The last event, in terms of positions.
LEMMA LastEvent ==
    ASSUME TypeOK
    PROVE  /\ Len(journal) \in Nat
           /\ DOMAIN journal = 1 .. Len(journal)
           /\ Range(journal) = { journal[i] : i \in 1 .. Len(journal) }
           /\ \A i \in 1 .. Len(journal) : IsEvent(journal[i])
           /\ Len(journal) = 0 => Last = NoEvent
           /\ Len(journal) > 0 => /\ Last = journal[Len(journal)]
                                  /\ Last # NoEvent
                                  /\ Last \in Range(journal)
<1>1. /\ journal \in Seq(Range(journal))
      /\ Len(journal) \in Nat /\ DOMAIN journal = 1 .. Len(journal)
      /\ Len(journal) = 0 <=> journal = << >>
  BY EmptySeq DEF TypeOK
<1>2. Range(journal) = { journal[i] : i \in 1 .. Len(journal) }
  BY <1>1 DEF Range
<1>3. \A i \in 1 .. Len(journal) : IsEvent(journal[i])
  BY <1>2 DEF TypeOK
<1>4. Len(journal) > 0 => /\ Last = journal[Len(journal)]
                          /\ Len(journal) \in 1 .. Len(journal)
  BY <1>1 DEF Last
<1> QED
  BY <1>1, <1>2, <1>3, <1>4, NoEventIsNone DEF Last

\* A valid event belongs at the end of the chain and nowhere else.
LEMMA ValidFollows ==
    ASSUME TypeOK, OneChain, NEW e, "valid" \in Verdicts(e)
    PROVE  /\ Hits(e) = {}
           /\ e.sequence = Len(journal) + 1
           /\ Len(journal) > 0 => /\ e.authority = Last.authority
                                  /\ e.previousEventDigest = Last
<1>1. Hits(e) = {}
  BY HitIsNotValid
<1>2. CASE Len(journal) = 0
  <2>1. GenesisVerdict(e) = "valid"
    BY <1>1, <1>2, NoHit, LastEvent
  <2>2. e.sequence = 1
    BY <2>1 DEF GenesisVerdict
  <2> QED
    BY <1>1, <1>2, <2>2
<1>3. CASE Len(journal) > 0
  <2>1. Last # NoEvent /\ Last = journal[Len(journal)]
    BY <1>3, LastEvent
  <2>2. "valid" \in SuccessorVerdicts(Last, e)
    BY <1>1, <2>1, NoHit
  <2>3. Last.sequence = Len(journal)
    BY <1>3, <2>1, LastEvent DEF OneChain
  <2> QED
    BY <1>1, <2>2, <2>3, ValidSuccessor
<1> QED
  BY <1>2, <1>3, LastEvent

------------------------------------------------------------------------------
(* The invariant *)

LEMMA InitHolds == ASSUME Init PROVE IInv
<1>1. journal = << >> /\ Len(journal) = 0 /\ DOMAIN journal = {}
      /\ Range(journal) = {} /\ sent = {}
  BY DEF Init, Range
<1>2. journal \in Seq(Range(journal))
  BY <1>1, EmptySeq
<1> QED
  BY <1>1, <1>2, ChainAssumption
  DEF Init, IInv, TypeOK, Linked, OneChain, ChainAssumption

LEMMA EmitPreserves ==
    ASSUME IInv, NEW w \in Worker, Emit(w)
    PROVE  IInv'
<1>1. PICK d \in Delta, a \in Authority, n \in 1 .. MaxTry :
          /\ After(w, head[w], a, d, n).sequence <= MaxLength
          /\ sent' = sent \cup {After(w, head[w], a, d, n)}
          /\ head' = [head EXCEPT ![w] = After(w, head[w], a, d, n)]
  BY DEF Emit
<1> DEFINE e == After(w, head[w], a, d, n)
<1>2. /\ head[w] \in sent \cup Range(journal) \cup {NoEvent}
      /\ IsEvent(head[w]) \/ head[w] = NoEvent
  BY DEF IInv, TypeOK
<1>3. IsEvent(e) /\ e.previousEventDigest = head[w]
  BY <1>1, <1>2, AfterIsEvent
<1>4. journal' = journal /\ sent' = sent \cup {e}
      /\ head' = [head EXCEPT ![w] = e]
  BY <1>1 DEF Emit
<1> HIDE DEF e
<1>5. TypeOK'
  BY <1>3, <1>4 DEF IInv, TypeOK
<1>6. Linked'
  BY <1>2, <1>3, <1>4 DEF IInv, Linked
<1>7. OneChain'
  BY <1>4 DEF IInv, OneChain
<1> QED
  BY <1>5, <1>6, <1>7 DEF IInv

LEMMA HeadPreserves ==
    ASSUME IInv, NEW w \in Worker, Restart(w) \/ Resync(w)
    PROVE  IInv'
<1>1. PICK h \in sent \cup Range(journal) \cup {NoEvent} :
          head' = [head EXCEPT ![w] = h]
  <2>1. CASE Restart(w)
    BY <2>1 DEF Restart, IInv, TypeOK, Linked
  <2>2. CASE Resync(w)
    <3>1. Last \in Range(journal) \cup {NoEvent}
      BY LastEvent DEF IInv
    <3> QED
      BY <2>2, <3>1 DEF Resync
  <2> QED
    BY <2>1, <2>2
<1>2. journal' = journal /\ sent' = sent
  BY DEF Restart, Resync
<1> QED
  BY <1>1, <1>2 DEF IInv, TypeOK, Linked, OneChain

LEMMA ReceivePreserves ==
    ASSUME IInv, NEW e \in Arrivals, Receive(e)
    PROVE  IInv'
<1>1. TypeOK /\ Linked /\ OneChain
  BY DEF IInv
<1>2. /\ journal' = Append(journal, e) /\ sent' = sent /\ head' = head
      /\ Len(journal) < MaxLength /\ "valid" \in Verdicts(e)
  BY DEF Receive
<1>3. /\ journal' \in Seq(Range(journal'))
      /\ Range(journal') = Range(journal) \cup {e}
      /\ Len(journal) \in Nat /\ Len(journal') = Len(journal) + 1
      /\ DOMAIN journal = 1 .. Len(journal)
      /\ DOMAIN journal' = 1 .. Len(journal) + 1
      /\ \A i \in 1 .. Len(journal) : journal'[i] = journal[i]
      /\ journal'[Len(journal) + 1] = e
  BY <1>1, <1>2, Appended DEF TypeOK
<1>4. /\ IsEvent(e)
      /\ e.previousEventDigest \in sent \cup Range(journal) \cup {NoEvent}
  BY <1>1, ArrivalIsEvent
<1>5. TypeOK'
  BY <1>1, <1>2, <1>3, <1>4, ChainAssumption DEF TypeOK, ChainAssumption
<1>6. Linked'
  BY <1>1, <1>2, <1>3, <1>4 DEF Linked
<1>7. /\ Hits(e) = {}
      /\ e.sequence = Len(journal) + 1
      /\ Len(journal) > 0 => /\ e.authority = Last.authority
                             /\ e.previousEventDigest = Last
                             /\ Last = journal[Len(journal)]
  BY <1>1, <1>2, ValidFollows, LastEvent
<1>8. \A i \in 1 .. Len(journal) : e.id # journal[i].id
  BY <1>1, <1>7, LastEvent DEF Hits
<1>9. OneChain'
  <2> SUFFICES ASSUME NEW i \in 1 .. Len(journal) + 1,
                      NEW j \in 1 .. Len(journal) + 1
               PROVE  /\ journal'[i].sequence = i
                      /\ journal'[i].authority = journal'[j].authority
                      /\ j = i + 1 =>
                           journal'[j].previousEventDigest = journal'[i]
                      /\ i # j => journal'[i].id # journal'[j].id
    BY <1>3 DEF OneChain
  <2>1. CASE i \in 1 .. Len(journal) /\ j \in 1 .. Len(journal)
    BY <1>1, <1>3, <2>1 DEF OneChain
  <2>2. CASE i = Len(journal) + 1 /\ j \in 1 .. Len(journal)
    <3>1. Len(journal) \in 1 .. Len(journal) /\ j # i + 1
      BY <1>3, <2>2
    <3>2. journal[j].authority = journal[Len(journal)].authority
      BY <1>1, <1>3, <2>2, <3>1 DEF OneChain
    <3> QED
      BY <1>3, <1>7, <1>8, <2>2, <3>1, <3>2
  <2>3. CASE i \in 1 .. Len(journal) /\ j = Len(journal) + 1
    <3>1. Len(journal) \in 1 .. Len(journal)
      BY <1>3, <2>3
    <3>2. /\ journal[i].authority = journal[Len(journal)].authority
          /\ journal[i].sequence = i
      BY <1>1, <1>3, <2>3, <3>1 DEF OneChain
    <3>3. i \in Nat /\ Len(journal) \in Nat /\ j = Len(journal) + 1
      BY <1>3, <2>3
    <3>4. j = i + 1 => i = Len(journal)
      BY <3>3
    <3>5. journal'[i] = journal[i] /\ journal'[j] = e
      BY <1>3, <2>3
    <3>6. Len(journal) > 0
      BY <1>3, <2>3
    <3>7. /\ e.authority = journal[Len(journal)].authority
          /\ e.previousEventDigest = journal[Len(journal)]
      BY <1>7, <3>6
    <3>8. j = i + 1 => journal'[j].previousEventDigest = journal'[i]
      BY <3>4, <3>5, <3>7
    <3>9. i # j
      BY <3>3, <2>3
    <3>10. journal'[i].id # journal'[j].id
      BY <1>8, <2>3, <3>5
    <3> QED
      BY <3>2, <3>5, <3>7, <3>8, <3>9, <3>10
  <2>4. CASE i = Len(journal) + 1 /\ j = Len(journal) + 1
    BY <1>3, <1>7, <2>4
  <2> QED
    BY <1>3, <2>1, <2>2, <2>3, <2>4
<1> QED
  BY <1>5, <1>6, <1>9 DEF IInv

LEMMA NextPreserves == ASSUME IInv, [Next]_vars PROVE IInv'
<1>1. ASSUME NEW w \in Worker, Emit(w) PROVE IInv'
  BY <1>1, EmitPreserves
<1>2. ASSUME NEW w \in Worker, Restart(w) \/ Resync(w) PROVE IInv'
  BY <1>2, HeadPreserves
<1>3. ASSUME NEW e \in Arrivals, Receive(e) PROVE IInv'
  BY <1>3, ReceivePreserves
<1>4. CASE UNCHANGED vars
  BY <1>4 DEF vars, IInv, TypeOK, Linked, OneChain
<1> QED
  BY <1>1, <1>2, <1>3, <1>4 DEF Next

------------------------------------------------------------------------------
(* Replays and refusals *)

\* With one chain, an accepted event can only collide with itself.
LEMMA ReplayHitsItself ==
    ASSUME IInv PROVE ReplaysRecognised
<1> SUFFICES ASSUME NEW e \in Range(journal)
             PROVE  Verdicts(e) = {"idempotent-duplicate"}
  BY DEF ReplaysRecognised
<1>1. TypeOK /\ OneChain
  BY DEF IInv
<1>2. PICK i \in 1 .. Len(journal) : e = journal[i]
  BY <1>1, LastEvent
<1>3. ASSUME NEW x \in Hits(e) PROVE x = e
  <2>1. PICK j \in 1 .. Len(journal) : x = journal[j]
    BY <1>1, LastEvent DEF Hits
  <2>2. x.id = e.id \/ x.sequence = e.sequence
    BY DEF Hits
  <2>3. i \in DOMAIN journal /\ j \in DOMAIN journal
    BY <1>1, LastEvent
  <2> QED
    BY <1>1, <1>2, <2>1, <2>2, <2>3 DEF OneChain
<1>4. e \in Hits(e)
  BY DEF Hits
<1>5. Hits(e) = {e}
  BY <1>3, <1>4
<1>6. ChainVerdicts(Last, e, e) = {"idempotent-duplicate"}
  BY <1>1, <1>4, HitIsNotValid
<1>7. Found(e) = {e}
  BY <1>1, <1>5, HitIsNotValid
<1> QED
  BY <1>6, <1>7 DEF Verdicts

\* HitIsNotValid and NoHit in the next state.
LEMMA NeverValidNext ==
    ASSUME NEW CONSTANT e
    PROVE  (TypeOK /\ Hits(e) # {} => "valid" \notin Verdicts(e))'
<1>1. TypeOK /\ Hits(e) # {} => "valid" \notin Verdicts(e)
  BY HitIsNotValid
<1> QED
  BY <1>1, PTL

LEMMA NoHitNext ==
    ASSUME NEW CONSTANT e
    PROVE  (Hits(e) = {} =>
              Verdicts(e) = IF Last = NoEvent THEN {GenesisVerdict(e)}
                            ELSE SuccessorVerdicts(Last, e))'
<1>1. Hits(e) = {} =>
        Verdicts(e) = IF Last = NoEvent THEN {GenesisVerdict(e)}
                      ELSE SuccessorVerdicts(Last, e)
  BY NoHit
<1> QED
  BY <1>1, PTL

LEMMA RefusalStep ==
    ASSUME IInv, [Next]_vars,
           NEW e \in sent, Verdicts(e) \cap EarlyCodes = {}
    PROVE  "valid" \notin Verdicts(e)'
<1>0. TypeOK /\ Linked /\ OneChain /\ TypeOK'
  BY NextPreserves DEF IInv
<1>1. CASE journal' = journal
  <2>1. Verdicts(e)' = Verdicts(e)
    BY <1>1 DEF Verdicts, Found, Last
  <2> QED
    BY <2>1 DEF EarlyCodes
<1>2. CASE \E x \in Arrivals : Receive(x)
  <2>1. PICK x \in Arrivals : Receive(x)
    BY <1>2
  <2>2. /\ journal' = Append(journal, x)
        /\ "valid" \in Verdicts(x)
        /\ journal \in Seq(Range(journal))
    BY <1>0, <2>1 DEF Receive, TypeOK
  <2>3. /\ Range(journal') = Range(journal) \cup {x}
        /\ Len(journal) \in Nat /\ Len(journal') = Len(journal) + 1
        /\ journal'[Len(journal) + 1] = x
        /\ DOMAIN journal' = 1 .. Len(journal) + 1
    BY <2>2, Appended
  <2>4. IsEvent(x) /\ x # NoEvent
    BY <1>0, ArrivalIsEvent, NoEventIsNone
  <2>5. Last' = x
    <3>1. journal' # << >>
      BY <2>2, <2>3, AppendProperties
    <3> QED
      BY <2>3, <3>1 DEF Last
  <2>6. /\ x.sequence = Len(journal) + 1
        /\ Len(journal) > 0 => x.authority = Last.authority
    BY <1>0, <2>2, ValidFollows
  <2>7. CASE Hits(e) # {}
    <3>1. Hits(e)' # {}
      BY <2>3, <2>7 DEF Hits
    <3> QED
      BY <1>0, <3>1, NeverValidNext
  <2>8. CASE Hits(e) = {} /\ Len(journal) = 0
    <3>1. Verdicts(e) = {GenesisVerdict(e)}
      BY <1>0, <2>8, NoHit, LastEvent
    <3>2. GenesisVerdict(e) \notin EarlyCodes
      BY <3>1
    <3>3. e.sequence = 1
      BY <3>2 DEF GenesisVerdict, EarlyCodes
    <3>4. e.sequence = x.sequence
      BY <2>6, <2>8, <3>3
    <3>5. Hits(e)' # {}
      BY <2>3, <3>4 DEF Hits
    <3> QED
      BY <1>0, <3>5, NeverValidNext
  <2>9. CASE Hits(e) = {} /\ Len(journal) > 0
    <3>1. /\ Last # NoEvent
          /\ Last.sequence = Len(journal)
      BY <1>0, <2>9, LastEvent DEF OneChain
    <3>2. Verdicts(e) = SuccessorVerdicts(Last, e)
      BY <2>9, <3>1, NoHit
    <3>3. \/ e.authority # Last.authority
          \/ e.sequence = x.sequence
      BY <2>6, <3>1, <3>2 DEF SuccessorVerdicts, SameAuthority, EarlyCodes
    <3>4. CASE Hits(e)' # {}
      BY <1>0, <3>4, NeverValidNext
    <3>5. CASE Hits(e)' = {}
      <4>1. e.sequence # x.sequence
        BY <2>3, <3>5 DEF Hits
      <4>2. e.authority # x.authority
        BY <2>6, <2>9, <3>3, <4>1
      <4>3. Verdicts(e)' = SuccessorVerdicts(x, e)
        BY <2>4, <2>5, <3>5, NoHitNext
      <4> QED
        BY <4>2, <4>3 DEF SuccessorVerdicts, SameAuthority
    <3> QED
      BY <3>4, <3>5
  <2> QED
    BY <1>0, <2>7, <2>8, <2>9, LastEvent
<1> QED
  BY <1>1, <1>2 DEF Next, Emit, Restart, Resync, vars

------------------------------------------------------------------------------
(* What FoldFunction(+, 0, f) is: the sum of the values of f, in whatever  *)
(* order the fold takes them.                                              *)

Total(f) == FoldFunction(+, 0, f)

\* Induction over the naturals for a set of them, from the well-founded order.
LEMMA SetInduction ==
    ASSUME NEW S, 0 \in S, \A n \in Nat : n \in S => n + 1 \in S
    PROVE  Nat \subseteq S
<1> SUFFICES ASSUME Nat \ S # {} PROVE FALSE
  OBVIOUS
<1>1. PICK n \in Nat \ S : \A m \in Nat \ S : ~ (<<m, n>> \in OpToRel(<, Nat))
  BY NatLessThanWellFounded, WFMin
<1>2. n - 1 \in Nat \ S
  OBVIOUS
<1>3. <<n - 1, n>> \in OpToRel(<, Nat)
  BY <1>2 DEF OpToRel
<1> QED
  BY <1>1, <1>2, <1>3

\* The element that is added last, and a table of the sums of all subsets.
Chosen(s) == CHOOSE x \in s : TRUE

Sums(r, f) ==
    r = [ s \in SUBSET DOMAIN f |->
            IF s = {} THEN 0 ELSE f[Chosen(s)] + r[s \ {Chosen(s)}] ]

LEMMA ChosenOne == ASSUME NEW s, s # {} PROVE Chosen(s) \in s
  BY DEF Chosen

\* A set loses one element.
LEMMA OneLess ==
    ASSUME NEW s, IsFiniteSet(s), NEW x \in s
    PROVE  /\ IsFiniteSet(s \ {x})
           /\ Cardinality(s) \in Nat /\ Cardinality(s \ {x}) \in Nat
           /\ Cardinality(s \ {x}) = Cardinality(s) - 1
  BY FS_RemoveElement, FS_CardinalityType

\* There is such a table.
LEMMA SumsExist ==
    ASSUME NEW T, IsFiniteSet(T), NEW f \in [T -> Nat]
    PROVE  \E r \in [SUBSET T -> Nat] : Sums(r, f)
<1> DEFINE Upto(k) == { s \in SUBSET T : Cardinality(s) <= k }
           Table(r, k) ==
               \A s \in Upto(k) :
                   r[s] = IF s = {} THEN 0 ELSE f[Chosen(s)] + r[s \ {Chosen(s)}]
           S == { k \in Nat : \E r \in [SUBSET T -> Nat] : Table(r, k) }
<1>0. \A s \in SUBSET T : IsFiniteSet(s) /\ Cardinality(s) \in Nat
  BY FS_Subset, FS_CardinalityType
<1>1. 0 \in S
  <2> DEFINE r == [ s \in SUBSET T |-> 0 ]
  <2>1. ASSUME NEW s \in Upto(0) PROVE s = {}
    BY <1>0, FS_EmptySet
  <2>2. r \in [SUBSET T -> Nat] /\ Table(r, 0)
    BY <2>1
  <2> HIDE DEF r, Table
  <2> QED BY <2>2
<1>2. ASSUME NEW k \in Nat, k \in S PROVE k + 1 \in S
  <2>1. PICK r \in [SUBSET T -> Nat] : Table(r, k)
    BY <1>2
  <2> DEFINE g == [ s \in SUBSET T |-> IF s = {} THEN 0 ELSE f[Chosen(s)] + r[s \ {Chosen(s)}] ]
  <2>2. ASSUME NEW s \in SUBSET T, s # {}
        PROVE  f[Chosen(s)] \in Nat /\ s \ {Chosen(s)} \in SUBSET T
    BY <2>2, ChosenOne
  <2>3. g \in [SUBSET T -> Nat]
    BY <2>2
  <2>4. ASSUME NEW s \in Upto(k) PROVE g[s] = r[s]
    BY <2>1, <2>4
  <2>5. ASSUME NEW s \in Upto(k + 1), s # {}
        PROVE  g[s] = f[Chosen(s)] + g[s \ {Chosen(s)}]
    <3>1. s \ {Chosen(s)} \in Upto(k)
      BY <1>0, <2>5, ChosenOne, OneLess
    <3> QED BY <2>4, <2>5, <3>1
  <2>6. {} \in SUBSET T /\ g[{}] = 0
    OBVIOUS
  <2> HIDE DEF g
  <2>7. Table(g, k + 1)
    BY <2>5, <2>6
  <2> HIDE DEF Table
  <2> QED BY <2>3, <2>7
<1>3. Cardinality(T) \in S
  <2> HIDE DEF S
  <2> QED BY <1>0, <1>1, <1>2, SetInduction
<1>4. PICK r \in [SUBSET T -> Nat] : Table(r, Cardinality(T))
  BY <1>3
<1>5. Upto(Cardinality(T)) = SUBSET T
  BY FS_Subset
<1>6. \A s \in SUBSET T :
          r[s] = IF s = {} THEN 0 ELSE f[Chosen(s)] + r[s \ {Chosen(s)}]
  <2> HIDE DEF Upto
  <2> QED BY <1>4, <1>5
<1>7. r = [ s \in SUBSET T |-> IF s = {} THEN 0 ELSE f[Chosen(s)] + r[s \ {Chosen(s)}] ]
  BY <1>6
<1> QED BY <1>7 DEF Sums

Splits(r, f, T) == \A s \in SUBSET T : \A x \in s : r[s] = f[x] + r[s \ {x}]

\* Every such table is of naturals, and splits any element off, not only the chosen one.
LEMMA SumSplits ==
    ASSUME NEW T, IsFiniteSet(T), NEW f \in [T -> Nat], NEW r, Sums(r, f)
    PROVE  r \in [SUBSET T -> Nat] /\ Splits(r, f, T)
<1> DEFINE Good(s) == r[s] \in Nat /\ \A x \in s : r[s] = f[x] + r[s \ {x}]
           S == { k \in Nat : \A s \in SUBSET T : Cardinality(s) <= k => Good(s) }
<1>0. \A s \in SUBSET T : IsFiniteSet(s) /\ Cardinality(s) \in Nat
  BY FS_Subset, FS_CardinalityType
<1>1. \A s \in SUBSET T :
          r[s] = IF s = {} THEN 0 ELSE f[Chosen(s)] + r[s \ {Chosen(s)}]
  BY DEF Sums
<1>2. 0 \in S
  <2>1. ASSUME NEW s \in SUBSET T, Cardinality(s) <= 0 PROVE s = {}
    BY <1>0, <2>1, FS_EmptySet
  <2>2. r[{}] = 0
    BY <1>1
  <2>3. Good({})
    BY <2>2
  <2> HIDE DEF Good
  <2> QED BY <2>1, <2>3
<1>3. ASSUME NEW k \in Nat, k \in S PROVE k + 1 \in S
  <2> SUFFICES ASSUME NEW s \in SUBSET T, Cardinality(s) <= k + 1, s # {} PROVE Good(s)
    BY <1>1
  <2> DEFINE y == Chosen(s)
  <2>1. y \in s
    BY ChosenOne
  <2>2. r[s] = f[y] + r[s \ {y}]
    BY <1>1
  <2> HIDE DEF y, Good
  <2>3. ASSUME NEW x \in s PROVE s \ {x} \in SUBSET T /\ Cardinality(s \ {x}) <= k
    BY <1>0, OneLess
  <2>4. ASSUME NEW x \in s PROVE Good(s \ {x})
    BY <1>3, <2>3
  <2>5. r[s] \in Nat
    <3>1. r[s \ {y}] \in Nat
      BY <2>1, <2>4 DEF Good
    <3>2. f[y] \in Nat
      BY <2>1
    <3> QED BY <2>2, <3>1, <3>2
  <2>6. ASSUME NEW x \in s, x # y PROVE r[s] = f[x] + r[s \ {x}]
    <3> DEFINE rest == (s \ {x}) \ {y}
    <3>1. r[s \ {y}] = f[x] + r[(s \ {y}) \ {x}]
      BY <2>1, <2>4, <2>6 DEF Good
    <3>2. r[s \ {x}] = f[y] + r[rest]
      BY <2>1, <2>4, <2>6 DEF Good
    <3>3. (s \ {y}) \ {x} = rest
      OBVIOUS
    <3>4. r[rest] \in Nat
      <4>1. rest \in SUBSET T /\ Cardinality(rest) <= k
        <5>1. IsFiniteSet(s \ {x}) /\ y \in s \ {x} /\ Cardinality(s \ {x}) \in Nat
          BY <1>0, <2>1, <2>3, <2>6
        <5>2. Cardinality(rest) = Cardinality(s \ {x}) - 1
          BY <5>1, OneLess
        <5> QED BY <2>3, <5>1, <5>2
      <4> HIDE DEF rest
      <4>2. Good(rest)
        BY <1>3, <4>1
      <4> QED BY <4>2 DEF Good
    <3>5. f[x] \in Nat /\ f[y] \in Nat
      BY <2>1
    <3> HIDE DEF rest
    <3> QED BY <2>2, <3>1, <3>2, <3>3, <3>4, <3>5
  <2> QED BY <2>2, <2>5, <2>6 DEF Good
<1>4. Nat \subseteq S
  <2> HIDE DEF S
  <2> QED BY <1>2, <1>3, SetInduction
<1>5. \A s \in SUBSET T : Good(s)
  <2> HIDE DEF Good
  <2> QED BY <1>0, <1>4
<1>6. DOMAIN r = SUBSET T /\ r = [ s \in SUBSET T |-> r[s] ]
  BY DEF Sums
<1> QED BY <1>5, <1>6 DEF Splits

\* The fold is read off such a table.
LEMMA FoldIsSum ==
    ASSUME NEW T, IsFiniteSet(T), NEW f \in [T -> Nat]
    PROVE  \E r \in [SUBSET T -> Nat] : Sums(r, f) /\ Total(f) = r[T]
<1> DEFINE R == CHOOSE r : Sums(r, f)
<1>1. Sums(R, f)
  <2>1. \E r : Sums(r, f)
    BY SumsExist, Zenon
  <2> QED BY <2>1, Zenon
<1>2. Total(f) = R[DOMAIN f]
  BY DEF Total, FoldFunction, FoldFunctionOnSet, MapThenFoldSet, Sums, Chosen
<1> HIDE DEF R
<1>3. R \in [SUBSET T -> Nat]
  BY <1>1, SumSplits
<1> QED BY <1>1, <1>2, <1>3

\* Two tables agree where what they sum does.
LEMMA SumsAgree ==
    ASSUME NEW T, IsFiniteSet(T), NEW f \in [T -> Nat], NEW r, Sums(r, f),
           NEW U, IsFiniteSet(U), NEW g \in [U -> Nat], NEW q, Sums(q, g),
           T \subseteq U, \A x \in T : f[x] = g[x]
    PROVE  r[T] = q[T]
<1> DEFINE S == { k \in Nat : \A s \in SUBSET T : Cardinality(s) <= k => r[s] = q[s] }
<1>0. \A s \in SUBSET T : IsFiniteSet(s) /\ Cardinality(s) \in Nat
  BY FS_Subset, FS_CardinalityType
<1>1. \A s \in SUBSET T :
          /\ r[s] = IF s = {} THEN 0 ELSE f[Chosen(s)] + r[s \ {Chosen(s)}]
          /\ q[s] = IF s = {} THEN 0 ELSE g[Chosen(s)] + q[s \ {Chosen(s)}]
  BY DEF Sums
<1>2. 0 \in S
  <2>1. ASSUME NEW s \in SUBSET T, Cardinality(s) <= 0 PROVE s = {}
    BY <1>0, <2>1, FS_EmptySet
  <2> QED BY <1>1, <2>1
<1>3. ASSUME NEW k \in Nat, k \in S PROVE k + 1 \in S
  <2> SUFFICES ASSUME NEW s \in SUBSET T, Cardinality(s) <= k + 1, s # {} PROVE r[s] = q[s]
    BY <1>1
  <2>1. Chosen(s) \in s
    BY ChosenOne
  <2>2. s \ {Chosen(s)} \in SUBSET T /\ Cardinality(s \ {Chosen(s)}) <= k
    BY <1>0, <2>1, OneLess
  <2> QED BY <1>1, <1>3, <2>1, <2>2
<1>4. Cardinality(T) \in S
  <2> HIDE DEF S
  <2> QED BY <1>0, <1>2, <1>3, SetInduction
<1> QED BY <1>0, <1>4

\* A sum is that of all but one and that one.
LEMMA AddOne ==
    ASSUME NEW U, IsFiniteSet(U), NEW x \in U, NEW g \in [U -> Nat],
           NEW f \in [U \ {x} -> Nat], \A y \in U \ {x} : f[y] = g[y]
    PROVE  Total(f) \in Nat /\ Total(g) = Total(f) + g[x]
<1> DEFINE T == U \ {x}
<1>1. IsFiniteSet(T) /\ T \subseteq U /\ f \in [T -> Nat] /\ \A y \in T : f[y] = g[y]
  BY FS_Subset
<1>2. U \in SUBSET U
  OBVIOUS
<1>3. \E q \in [SUBSET U -> Nat] : Sums(q, g) /\ Total(g) = q[U]
  BY FoldIsSum
<1>4. PICK q \in [SUBSET U -> Nat] : Sums(q, g) /\ Total(g) = q[U]
  BY <1>3, Zenon
<1>5. Splits(q, g, U)
  BY <1>4, SumSplits
<1>6. q[U] = g[x] + q[T]
  BY <1>2, <1>5 DEF Splits
<1> HIDE DEF T
<1>7. PICK r \in [SUBSET T -> Nat] : Sums(r, f) /\ Total(f) = r[T]
  BY <1>1, FoldIsSum
<1>8. r[T] = q[T]
  BY <1>1, <1>4, <1>7, SumsAgree
<1>9. r[T] \in Nat /\ g[x] \in Nat
  OBVIOUS
<1> QED BY <1>4, <1>6, <1>7, <1>8, <1>9

\* Nothing sums to zero.
LEMMA EmptySum == ASSUME NEW f \in [{} -> Nat] PROVE Total(f) = 0
<1>1. PICK r \in [SUBSET {} -> Nat] : Sums(r, f) /\ Total(f) = r[{}]
  BY FS_EmptySet, FoldIsSum
<1> QED BY <1>1 DEF Sums

------------------------------------------------------------------------------
(* The budget loop *)

\* Each accepted event adds what it reports to the totals of the one before it.
Accounted ==
    /\ Len(journal) > 0 => journal[1].budgetTotal = journal[1].budgetDelta
    /\ \A i \in 1 .. Len(journal), c \in Counter :
          i + 1 <= Len(journal) =>
              journal[i + 1].budgetTotal[c] =
                  journal[i].budgetTotal[c] + journal[i + 1].budgetDelta[c]

\* The budget rule: a valid event's totals are the last ones and its deltas.
LEMMA ValidAddsUp ==
    ASSUME IInv, NEW e, "valid" \in Verdicts(e)
    PROVE  /\ Len(journal) = 0 => e.budgetTotal = e.budgetDelta
           /\ Len(journal) > 0 =>
                \A c \in Counter :
                    e.budgetTotal[c] = journal[Len(journal)].budgetTotal[c] + e.budgetDelta[c]
<1>1. TypeOK /\ OneChain /\ Hits(e) = {}
  BY HitIsNotValid DEF IInv
<1>2. CASE Len(journal) = 0
  <2>1. GenesisVerdict(e) = "valid"
    BY <1>1, <1>2, NoHit, LastEvent
  <2> QED BY <1>2, <2>1 DEF GenesisVerdict
<1>3. CASE Len(journal) > 0
  <2>1. Last # NoEvent /\ Last = journal[Len(journal)]
    BY <1>1, <1>3, LastEvent
  <2>2. "valid" \in SuccessorVerdicts(Last, e)
    BY <1>1, <2>1, NoHit
  <2>3. "valid" \in BudgetVerdicts(Last, e)
    BY <2>2 DEF SuccessorVerdicts
  <2>4. \A c \in Counter : Last.budgetTotal[c] + e.budgetDelta[c] = e.budgetTotal[c]
    BY <2>3 DEF BudgetVerdicts
  <2> QED BY <1>3, <2>1, <2>4
<1> QED
  BY <1>1, <1>2, <1>3, LastEvent

LEMMA AccountedInit == ASSUME Init PROVE Accounted
<1>1. Len(journal) = 0
  BY DEF Init
<1> QED BY <1>1 DEF Accounted

LEMMA AccountedStep == ASSUME IInv, Accounted, [Next]_vars PROVE Accounted'
<1>1. CASE UNCHANGED journal
  BY <1>1 DEF Accounted
<1>2. ASSUME NEW e \in Arrivals, Receive(e) PROVE Accounted'
  <2>1. journal' = Append(journal, e) /\ "valid" \in Verdicts(e)
    BY <1>2 DEF Receive
  <2>2. /\ Len(journal) \in Nat /\ Len(journal') = Len(journal) + 1
        /\ \A i \in 1 .. Len(journal) : journal'[i] = journal[i]
        /\ journal'[Len(journal) + 1] = e
    BY <2>1, Appended DEF IInv, TypeOK
  <2>3. Len(journal') > 0 => journal'[1].budgetTotal = journal'[1].budgetDelta
    BY <2>1, <2>2, ValidAddsUp DEF Accounted
  <2>4. ASSUME NEW i \in 1 .. Len(journal'), NEW c \in Counter, i + 1 <= Len(journal')
        PROVE  journal'[i + 1].budgetTotal[c] =
                   journal'[i].budgetTotal[c] + journal'[i + 1].budgetDelta[c]
    <3>1. CASE i = Len(journal)
      <4>1. journal'[i] = journal[i] /\ journal'[i + 1] = e /\ Len(journal) > 0
        BY <2>2, <2>4, <3>1
      <4> QED BY <2>1, <3>1, <4>1, ValidAddsUp
    <3>2. CASE i # Len(journal)
      <4>1. /\ i \in 1 .. Len(journal) /\ i + 1 \in 1 .. Len(journal)
            /\ i + 1 <= Len(journal)
        BY <2>2, <2>4, <3>2
      <4> QED BY <2>2, <4>1 DEF Accounted
    <3> QED BY <3>1, <3>2
  <2> QED BY <2>3, <2>4 DEF Accounted
<1> QED
  BY <1>1, <1>2 DEF Next, Emit, Restart, Resync, vars

\* Link by link, the totals are the sums of everything reported so far.
LEMMA AccountedSums ==
    ASSUME IInv, Accounted, NEW c \in Counter
    PROVE  \A n \in 1 .. Len(journal) :
              journal[n].budgetTotal[c] = Total([ i \in 1 .. n |-> journal[i].budgetDelta[c] ])
<1> DEFINE L == Len(journal)
           delta(n) == [ i \in 1 .. n |-> journal[i].budgetDelta[c] ]
           S == { n \in Nat : n \in 1 .. L =>
                    /\ Total(delta(n)) \in Nat
                    /\ journal[n].budgetTotal[c] = Total(delta(n)) }
<1>1. L \in Nat /\ \A i \in 1 .. L : IsEvent(journal[i])
  BY LastEvent DEF IInv
<1>2. \A i \in 1 .. L : journal[i].budgetDelta[c] \in Nat /\ journal[i].budgetTotal[c] \in Nat
  <2> SUFFICES ASSUME NEW i \in 1 .. L
               PROVE  journal[i].budgetDelta[c] \in Nat /\ journal[i].budgetTotal[c] \in Nat
    OBVIOUS
  <2>1. journal[i].budgetDelta \in [Counter -> Nat] /\ journal[i].budgetTotal \in [Counter -> Nat]
    BY <1>1 DEF IsEvent
  <2> QED BY <2>1
<1> HIDE DEF L
<1>3. ASSUME NEW n \in 0 .. L PROVE delta(n) \in [1 .. n -> Nat]
  BY <1>1, <1>2
<1>4. ASSUME NEW n \in Nat, n + 1 \in 1 .. L
      PROVE  /\ Total(delta(n + 1)) = Total(delta(n)) + journal[n + 1].budgetDelta[c]
             /\ Total(delta(n)) \in Nat
  <2> DEFINE U == 1 .. n + 1
             x == n + 1
             f == delta(n)
             g == delta(n + 1)
  <2>1. U \ {x} = 1 .. n /\ x \in U /\ n \in 0 .. L /\ n + 1 \in 0 .. L
    BY <1>1, <1>4
  <2>2. IsFiniteSet(U)
    BY FS_Interval
  <2>3. g \in [U -> Nat] /\ f \in [1 .. n -> Nat]
    BY <1>3, <2>1
  <2>4. (\A y \in 1 .. n : f[y] = g[y]) /\ g[x] = journal[n + 1].budgetDelta[c]
    BY <2>1
  <2> HIDE DEF U, x, f, g
  <2>5. f \in [U \ {x} -> Nat] /\ \A y \in U \ {x} : f[y] = g[y]
    BY <2>1, <2>3, <2>4
  <2>6. Total(f) \in Nat /\ Total(g) = Total(f) + g[x]
    BY <2>1, <2>2, <2>3, <2>5, AddOne
  <2> QED BY <2>4, <2>6 DEF f, g
<1>5. 0 \in S
  OBVIOUS
<1>6. ASSUME NEW n \in Nat, n \in S PROVE n + 1 \in S
  <2> SUFFICES ASSUME n + 1 \in 1 .. L
               PROVE  /\ Total(delta(n + 1)) \in Nat
                      /\ journal[n + 1].budgetTotal[c] = Total(delta(n + 1))
    OBVIOUS
  <2>1. /\ Total(delta(n + 1)) = Total(delta(n)) + journal[n + 1].budgetDelta[c]
        /\ Total(delta(n)) \in Nat /\ journal[n + 1].budgetDelta[c] \in Nat
    BY <1>2, <1>4
  <2>2. CASE n = 0
    <3>1. delta(0) \in [{} -> Nat]
      BY <1>1, <1>3
    <3>2. Total(delta(0)) = 0
      BY <3>1, EmptySum
    <3>3. journal[1].budgetTotal = journal[1].budgetDelta
      BY <1>1, <2>2 DEF Accounted, L
    <3> QED BY <2>1, <2>2, <3>2, <3>3
  <2>3. CASE n # 0
    <3>1. n \in 1 .. L /\ n + 1 <= L
      BY <1>1, <2>3
    <3>2. journal[n + 1].budgetTotal[c] = journal[n].budgetTotal[c] + journal[n + 1].budgetDelta[c]
      BY <3>1 DEF Accounted, L
    <3>3. journal[n].budgetTotal[c] = Total(delta(n))
      BY <1>6, <3>1
    <3> QED BY <2>1, <3>2, <3>3
  <2> QED BY <2>2, <2>3
<1>7. Nat \subseteq S
  <2> HIDE DEF S
  <2> QED BY <1>5, <1>6, SetInduction
<1> QED BY <1>1, <1>7 DEF L

------------------------------------------------------------------------------
(* The theorems *)

\* The strengthened invariant holds in every reachable state.
THEOREM InductiveInvariant == Spec => []IInv
  BY InitHolds, NextPreserves, PTL DEF Spec

\* Types: whatever arrives, the store holds schema-valid events within bounds.
THEOREM TypeCorrect == Spec => []TypeOK
<1>1. IInv => TypeOK
  BY DEF IInv
<1> QED
  BY <1>1, InductiveInvariant, PTL

\* evaluateOrchestratorEventChain: the accepted events of a run are one chain
\* of one authority without a repeated id, for any workers and faults.
THEOREM AcceptedIsOneChain == Spec => []OneChain
<1>1. IInv => OneChain
  BY DEF IInv
<1> QED
  BY <1>1, InductiveInvariant, PTL

\* The collision rule: every accepted event is recognised for ever, although
\* the lookup hands the validator one accepted event only.
THEOREM ReplaysAlwaysRecognised == Spec => []ReplaysRecognised
<1>1. IInv => ReplaysRecognised
  BY ReplayHitsItself
<1> QED
  BY <1>1, InductiveInvariant, PTL

\* A refusal for any reason but a place too early in the sequence is final.
THEOREM RefusalsFinal == Spec => RefusalFinal
<1>1. IInv /\ [Next]_vars
      => [\A e \in sent : Verdicts(e) \cap EarlyCodes = {}
                          => "valid" \notin Verdicts(e)']_vars
  BY RefusalStep
<1> QED
  BY <1>1, InductiveInvariant, PTL DEF Spec, RefusalFinal

\* What is accepted is one chain of events that stay recognised.
THEOREM ChainsSound == Spec => []ChainSound
<1>1. OneChain /\ ReplaysRecognised => ChainSound
  BY DEF ChainSound
<1> QED
  BY <1>1, AcceptedIsOneChain, ReplaysAlwaysRecognised, PTL

\* Each accepted event continues the totals of the one before it.
THEOREM AccountsContinue == Spec => []Accounted
<1>1. Init => Accounted
  BY AccountedInit
<1>2. IInv /\ Accounted /\ [Next]_vars => Accounted'
  BY AccountedStep
<1> QED
  BY <1>1, <1>2, InductiveInvariant, PTL DEF Spec

\* The budget loop: for any counters and any length, the totals of every accepted
\* event are the sums of all deltas accepted up to it; no retry, fork or replaced
\* worker makes a unit vanish or count twice.
THEOREM NothingUnaccounted == Spec => []TotalsAccounted
<1>1. IInv /\ Accounted => TotalsAccounted
  <2> SUFFICES ASSUME IInv, Accounted PROVE TotalsAccounted
    OBVIOUS
  <2>1. DOMAIN journal = 1 .. Len(journal)
    BY LastEvent DEF IInv
  <2>2. \A c \in Counter, n \in DOMAIN journal :
            journal[n].budgetTotal[c] = Total([ i \in 1 .. n |-> journal[i].budgetDelta[c] ])
    BY <2>1, AccountedSums
  <2> QED
    BY <2>2, Zenon DEF TotalsAccounted, Total
<1> QED
  BY <1>1, InductiveInvariant, AccountsContinue, PTL
==============================================================================
