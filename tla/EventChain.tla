----------------------------- MODULE EventChain ------------------------------
(***************************************************************************)
(* The causal event chain of one run (packages/sdk-ts,                     *)
(* orchestrator-event-chain.ts, and its Rust twin event_chain.rs).         *)
(* Orchestrator workers emit events, each after the event it believes to   *)
(* be the last accepted one; a worker that is replaced or restarted may    *)
(* believe in an old one and fork the chain.  Events reach the causal      *)
(* store late, repeatedly, in any order and sometimes wrong in one field,  *)
(* and the store accepts what evaluateOrchestratorEventChain finds valid.  *)
(*                                                                         *)
(* An event's digest is collision-free: it is modelled by the event.       *)
(* Counters and sequences stay far below the range where doubles and u64   *)
(* differ, because events are schema-validated first.                      *)
(***************************************************************************)
EXTENDS Naturals, Sequences, FiniteSets, Functions

CONSTANTS
    Worker,      \* orchestrator workers
    Authority,   \* (tenant, mission, run, orchestrator, plan, authorization)
    Counter,     \* the budget counters
    Delta,       \* the budget deltas one event may report
    Faults,      \* the fields in which an event may arrive wrong
    MaxLength, MaxTry, MaxSent   \* bounds of sequence, attempt, sent

ASSUME ChainAssumption ==
    /\ Delta \subseteq [Counter -> Nat]
    /\ {MaxLength, MaxTry, MaxSent} \subseteq Nat

\* null; no event has sequence 0.
NoEvent == [ sequence |-> 0 ]

------------------------------------------------------------------------------
(* evaluateOrchestratorEventChain *)

SameAuthority(previous, current) == previous.authority = current.authority

\* Mutant: an id that is used again at another place is not a collision.
CollisionVerdictBySequence(current, collision) ==
    IF current = collision THEN "idempotent-duplicate"
    ELSE IF current.sequence = collision.sequence THEN "duplicate-divergent"
    ELSE "none"

\* The event against the one accepted event the store found with its id or
\* its sequence.
CollisionVerdict(current, collision) ==
    LET sameId       == current.id = collision.id
        sameSequence == current.sequence = collision.sequence
    IN  IF sameId /\ sameSequence /\ current = collision
        THEN "idempotent-duplicate"
        ELSE IF sameId \/ sameSequence THEN "duplicate-divergent"
        ELSE "none"

GenesisVerdict(current) ==
    IF current.sequence # 1 \/ current.previousEventDigest # NoEvent
    THEN "genesis-invalid"
    ELSE IF current.budgetTotal # current.budgetDelta
    THEN "budget-arithmetic-invalid"
    ELSE "valid"

\* Mutant: totals must not decrease, but need not add up.
BudgetVerdictsMonotone(previous, current) ==
    IF \E c \in Counter : current.budgetTotal[c] < previous.budgetTotal[c]
    THEN {"budget-decreased"} ELSE {"valid"}

\* The first counter that is wrong decides; the order of the counters only
\* tells the two budget codes apart, so either is possible when several are.
BudgetVerdicts(previous, current) ==
    LET decreased == { c \in Counter :
                         current.budgetTotal[c] < previous.budgetTotal[c] }
        wrong     == { c \in Counter \ decreased :
                         previous.budgetTotal[c] + current.budgetDelta[c]
                           # current.budgetTotal[c] }
    IN  IF decreased \cup wrong = {} THEN {"valid"}
        ELSE { IF c \in decreased THEN "budget-decreased"
               ELSE "budget-arithmetic-invalid" : c \in decreased \cup wrong }

SuccessorVerdicts(previous, current) ==
    IF ~ SameAuthority(previous, current)
    THEN {"identity-mismatch"}
    ELSE IF current.sequence # previous.sequence + 1
    THEN {"sequence-invalid"}
    ELSE IF current.previousEventDigest # previous
    THEN {"previous-digest-mismatch"}
    ELSE IF current.attempt < previous.attempt
    THEN {"attempt-decreased"}
    ELSE BudgetVerdicts(previous, current)

ChainVerdicts(previous, current, collision) ==
    IF collision # NoEvent /\ CollisionVerdict(current, collision) # "none"
    THEN {CollisionVerdict(current, collision)}
    ELSE IF previous = NoEvent THEN {GenesisVerdict(current)}
    ELSE SuccessorVerdicts(previous, current)

------------------------------------------------------------------------------
VARIABLES
    journal,   \* the causal store: the accepted events in order
    sent,      \* every event emitted so far
    head       \* the event each worker believes to be the last

vars == <<journal, sent, head>>

Id == Worker \X (1 .. MaxLength)

\* The predecessor's digest may be any.
IsEvent(e) ==
    e \in [ id : Id, authority : Authority, sequence : Nat \ {0},
            previousEventDigest : {e.previousEventDigest}, attempt : Nat,
            budgetDelta : [Counter -> Nat], budgetTotal : [Counter -> Nat] ]

Last == IF journal = << >> THEN NoEvent ELSE journal[Len(journal)]

TypeOK ==
    /\ journal \in Seq(Range(journal))
    /\ Len(journal) <= MaxLength
    /\ \A e \in Range(journal) \cup sent : IsEvent(e)
    /\ head \in [Worker -> sent \cup Range(journal) \cup {NoEvent}]

Init ==
    /\ journal = << >>
    /\ sent = {}
    /\ head = [w \in Worker |-> NoEvent]

\* What the store's lookup can find: an accepted event with the same id or the
\* same sequence, any one of them if there are several.
Found(e) ==
    LET hits == { x \in Range(journal) :
                    x.id = e.id \/ x.sequence = e.sequence }
    IN  IF hits = {} THEN {NoEvent} ELSE hits

Verdicts(e) ==
    UNION { ChainVerdicts(Last, e, c) : c \in Found(e) }

------------------------------------------------------------------------------
(* The workers *)

After(w, previous, authority, delta, attempt) ==
    LET sequence == IF previous = NoEvent THEN 1 ELSE previous.sequence + 1
    IN  [ id |-> <<w, sequence>>,
          authority |-> authority,
          sequence |-> sequence,
          previousEventDigest |-> previous,
          attempt |-> attempt,
          budgetDelta |-> delta,
          budgetTotal |-> IF previous = NoEvent THEN delta
                          ELSE [ c \in Counter |->
                                   previous.budgetTotal[c] + delta[c] ] ]

\* A worker reports its next step, possibly in a new attempt.
Emit(w) ==
    /\ Cardinality(sent) < MaxSent
    /\ \E delta \in Delta, a \in Authority, attempt \in 1 .. MaxTry :
          LET e == After(w, head[w], a, delta, attempt)
          IN  /\ e.sequence <= MaxLength
              /\ head[w] # NoEvent =>
                   attempt >= head[w].attempt /\ a = head[w].authority
              /\ sent' = sent \cup {e}
              /\ head' = [head EXCEPT ![w] = e]
    /\ UNCHANGED journal

\* A worker crashes before it recorded its last emission, or is replaced by one
\* that never heard of it.
Restart(w) ==
    /\ head[w] # NoEvent
    /\ head' = [head EXCEPT ![w] = head[w].previousEventDigest]
    /\ UNCHANGED <<journal, sent>>

\* A worker takes over the last accepted event.
Resync(w) ==
    /\ head' = [head EXCEPT ![w] = Last]
    /\ UNCHANGED <<journal, sent>>

------------------------------------------------------------------------------
(* The causal store *)

\* An emitted event with one field wrong.
Distorted(e) ==
    (IF "id" \in Faults
     THEN { [e EXCEPT !.id = x.id] : x \in sent } ELSE {})
    \cup (IF "authority" \in Faults
     THEN { [e EXCEPT !.authority = a] : a \in Authority } ELSE {})
    \cup (IF "sequence" \in Faults
     THEN { [e EXCEPT !.sequence = n] : n \in 1 .. MaxLength } ELSE {})
    \cup (IF "previousEventDigest" \in Faults
     THEN { [e EXCEPT !.previousEventDigest = p] :
              p \in Range(journal) \cup {NoEvent} } ELSE {})
    \cup (IF "attempt" \in Faults
     THEN { [e EXCEPT !.attempt = n] : n \in 1 .. MaxTry } ELSE {})
    \cup (IF "budgetTotal" \in Faults
     THEN { [e EXCEPT !.budgetTotal = t] :
              t \in {e.budgetDelta} \cup Delta } ELSE {})

Arrivals == sent \cup UNION { Distorted(e) : e \in sent }

\* An event arrives and is accepted.  A refusal changes nothing.
Receive(e) ==
    /\ "valid" \in Verdicts(e)
    /\ Len(journal) < MaxLength
    /\ journal' = Append(journal, e)
    /\ UNCHANGED <<sent, head>>

------------------------------------------------------------------------------
Next ==
    \/ \E w \in Worker : Emit(w) \/ Restart(w) \/ Resync(w)
    \/ \E e \in Arrivals : Receive(e)

Spec == Init /\ [][Next]_vars

------------------------------------------------------------------------------
(* Properties *)

\* evaluateOrchestratorEventChain: however forks, replays and wrong fields
\* interleave, the accepted events are one chain of one authority in which no
\* id, and so no event, occurs twice.
OneChain ==
    \A i, j \in DOMAIN journal :
        /\ journal[i].sequence = i
        /\ journal[i].authority = journal[j].authority
        /\ j = i + 1 => journal[j].previousEventDigest = journal[i]
        /\ i # j => journal[i].id # journal[j].id

\* The budget loop: every unit of every counter ever reported is in the total,
\* over retries, forks and replaced workers.
TotalsAccounted ==
    \A c \in Counter, n \in DOMAIN journal :
        journal[n].budgetTotal[c] =
            FoldFunction(+, 0, [i \in 1 .. n |-> journal[i].budgetDelta[c]])

\* The collision rule: an accepted event that arrives again is recognised,
\* whichever accepted event the lookup finds for it.
ReplaysRecognised ==
    \A e \in Range(journal) : Verdicts(e) = {"idempotent-duplicate"}

\* Both together: what is accepted is one chain, and stays recognised.
ChainSound == OneChain /\ ReplaysRecognised

\* An event refused for any reason but its place in the sequence is refused for
\* ever: only events that came too early are worth sending again.
EarlyCodes == {"valid", "sequence-invalid", "genesis-invalid"}

RefusalFinal ==
    [][\A e \in sent : Verdicts(e) \cap EarlyCodes = {}
                       => "valid" \notin Verdicts(e)']_vars

==============================================================================
