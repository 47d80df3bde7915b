--------------------------- MODULE ExecutionLineage ---------------------------
(***************************************************************************)
(* The one-shot lineage of authorized execution: a mission runs in         *)
(* generations, a transfer consumes a generation once, and executors       *)
(* attest the external effects of the current attempt.  Executors of old   *)
(* generations, attempts and leases keep reporting; transfers are issued   *)
(* concurrently and arrive late or again.                                  *)
(*                                                                         *)
(* The two evaluators are evaluateTransfer and evaluateEffect              *)
(* (tools/quality/authorized-execution.ts); the orchestrator that keeps    *)
(* the facts they are given is modelled from those facts.  Digests are     *)
(* collision-free; a transfer's digest is the transfer itself.             *)
(***************************************************************************)
EXTENDS Naturals, FiniteSets

CONSTANTS
    TransferId, Plan,       \* transfers and the successor plans they bind
    Emission, Request,      \* emission ids, and digests of what is emitted
    Reported,               \* the statuses executors attest
    None,                   \* a lookup that finds nothing
    MaxGeneration, MaxAttempt, MaxFencing   \* bounds of the counters

Status == {"reserved", "started", "committed", "rejected-final",
           "not-committed-final", "state-unknown"}

\* The statuses that close the effect inventory.
Closing == {"committed", "rejected-final", "not-committed-final"}

Transfers ==
    [ id : TransferId, run : 1 .. MaxGeneration, generation : 1 .. MaxGeneration,
      revision : Nat, successor : Plan ]

ASSUME LineageAssumption ==
    /\ Reported \subseteq Status
    /\ {MaxGeneration, MaxAttempt, MaxFencing} \subseteq Nat \ {0}
    /\ None \notin Transfers

------------------------------------------------------------------------------
(* authorized-execution.ts *)

StateVerdictAnyRevision(t, state) ==   \* mutant: the revision is not compared
    IF state.generationConsumed THEN "generation-consumed"
    ELSE IF t.run # state.run THEN "identity-mismatch"
    ELSE IF t.generation < state.generation THEN "generation-stale"
    ELSE IF t.generation # state.generation THEN "identity-mismatch"
    ELSE IF t.successor # state.successor THEN "identity-mismatch"
    ELSE "transfer-valid"

\* A new transfer t against what the owner knows of the lineage.
StateVerdict(t, state) ==
    IF state.generationConsumed THEN "generation-consumed"
    ELSE IF t.run # state.run THEN "identity-mismatch"
    ELSE IF t.generation < state.generation THEN "generation-stale"
    ELSE IF t.generation # state.generation THEN "identity-mismatch"
    ELSE IF t.revision # state.revision THEN "revision-stale"
    ELSE IF t.successor # state.successor THEN "identity-mismatch"
    ELSE "transfer-valid"

Collides(t, collision) ==
    /\ collision # None
    /\ collision.id = t.id \/ collision.generation = t.generation

ReplayVerdict(t, collision) ==
    IF collision = t THEN "idempotent-duplicate" ELSE "duplicate-divergent"

\* evaluateTransfer: collision is an accepted transfer with the id or the
\* generation of t, or none.
TransferVerdict(t, collision, expired, state) ==
    IF Collides(t, collision) THEN ReplayVerdict(t, collision)
    ELSE IF expired THEN "transfer-expired"
    ELSE StateVerdict(t, state)

AdmissionVerdictUnbarred(a, v) ==   \* mutant: the predecessor barrier is gone
    IF a.fencing # v.activeFencing THEN "fencing-stale"
    ELSE IF ~ v.executorQualified THEN "executor-unqualified"
    ELSE IF a.status = "state-unknown" THEN "effect-state-unknown"
    ELSE "effect-valid"

\* The end of evaluateEffect: a new emission of the current attempt.
AdmissionVerdict(a, v) ==
    IF a.fencing # v.activeFencing THEN "fencing-stale"
    ELSE IF ~ v.executorQualified THEN "executor-unqualified"
    ELSE IF a.status = "state-unknown" THEN "effect-state-unknown"
    ELSE IF ~ v.predecessorEffectsTerminal
    THEN "predecessor-effects-nonterminal"
    ELSE "effect-valid"

Prior(a, v) == { p \in v.priorEmission : p.emission = a.emission }

PriorVerdict(a, v) ==
    IF \E p \in Prior(a, v) : p.request = a.request
    THEN "emission-duplicate" ELSE "emission-divergent"

\* The middle of evaluateEffect: the emission against those on record.  Each of
\* the owner's two lookups is empty or a singleton.
EmissionVerdict(a, v) ==
    IF Prior(a, v) # {} THEN PriorVerdict(a, v)
    ELSE IF v.existingAttemptEmission \ {a.emission} # {}
    THEN "second-emission-for-attempt"
    ELSE AdmissionVerdict(a, v)

EffectVerdictAnyAttempt(a, v) ==   \* mutant: the attempt is not compared
    IF a.run # v.expectedRun THEN "identity-mismatch"
    ELSE IF v.lineageClosed THEN "lineage-administratively-closed"
    ELSE IF v.generationConsumed THEN "generation-consumed"
    ELSE IF a.generation # v.currentGeneration THEN "generation-stale"
    ELSE EmissionVerdict(a, v)

\* evaluateEffect: a is the attestation, v what the owner knows.
EffectVerdict(a, v) ==
    IF a.run # v.expectedRun THEN "identity-mismatch"
    ELSE IF a.attempt # v.expectedAttempt THEN "attempt-mismatch"
    ELSE IF v.lineageClosed THEN "lineage-administratively-closed"
    ELSE IF v.generationConsumed THEN "generation-consumed"
    ELSE IF a.generation # v.currentGeneration THEN "generation-stale"
    ELSE EmissionVerdict(a, v)

------------------------------------------------------------------------------
VARIABLES
    generation,  \* the current generation; its run has the same number
    consumed,    \* whether a transfer has consumed it
    closed,      \* whether the lineage was closed administratively
    revision,    \* grows with every emission entered in the inventory
    successor,   \* the plan prepared to succeed this generation
    attempt,     \* the attempt in progress
    fencing,     \* the fencing value of the active lease
    inventory,   \* the emissions of all generations
    sealed,      \* the owner's last reading: earlier generations are closed
    sealFirst,   \* this owner issues transfers on a closed inventory only
    issued,      \* transfers ever issued
    transferred     \* transfers accepted

lineageVars == <<generation, consumed, closed, revision, successor, attempt, fencing,
          inventory, sealed, sealFirst, issued, transferred>>

lineage ==
    <<generation, consumed, closed, successor, sealed, sealFirst, issued, transferred>>
lease   == <<attempt, fencing>>

Emissions ==
    [ emission : Emission, request : Request, generation : 1 .. MaxGeneration,
      attempt : 1 .. MaxAttempt, status : Status, admitted : BOOLEAN ]

LineageTypeOK ==
    /\ generation \in 1 .. MaxGeneration
    /\ consumed \in BOOLEAN /\ closed \in BOOLEAN
    /\ sealed \in BOOLEAN /\ sealFirst \in BOOLEAN
    /\ revision = Cardinality(inventory)
    /\ successor \in Plan
    /\ attempt \in 1 .. MaxAttempt
    /\ fencing \in 1 .. MaxFencing
    /\ inventory \subseteq Emissions
    /\ transferred \subseteq issued /\ issued \subseteq Transfers

LineageInit ==
    /\ generation = 1 /\ attempt = 1 /\ fencing = 1
    /\ consumed = FALSE /\ closed = FALSE /\ sealed = TRUE
    /\ sealFirst \in BOOLEAN
    /\ revision = 0
    /\ successor \in Plan
    /\ inventory = {} /\ issued = {} /\ transferred = {}

Open(e) == e.status \notin Closing

Earlier == { e \in inventory : e.generation < generation }

------------------------------------------------------------------------------
(* Transfers *)

\* A transfer is prepared from what the owner sees now.
IssueTransfer(id) ==
    /\ sealFirst => \A e \in inventory : ~ Open(e)
    /\ issued' = issued \cup
          {[ id |-> id, run |-> generation, generation |-> generation,
             revision |-> revision, successor |-> successor ]}
    /\ UNCHANGED <<generation, consumed, closed, revision, successor, attempt,
                   fencing, inventory, sealed, sealFirst, transferred>>

\* What the owner's lookup can find for a transfer.
Collisions(t) ==
    LET hits == { x \in transferred : x.id = t.id \/ x.generation = t.generation }
    IN  IF hits = {} THEN {None} ELSE hits

State == [ generationConsumed |-> consumed, run |-> generation,
           generation |-> generation, revision |-> revision,
           successor |-> successor ]

\* An issued transfer arrives, perhaps after it expired, and is accepted.
Transfer(t) ==
    /\ \E c \in Collisions(t), expired \in BOOLEAN :
          TransferVerdict(t, c, expired, State) = "transfer-valid"
    /\ consumed' = TRUE
    /\ transferred' = transferred \cup {t}
    /\ UNCHANGED <<generation, closed, revision, successor, inventory, sealed,
                   sealFirst, issued, lease>>

\* The successor's run starts, with a fresh attempt under a fresh lease.
Succeed ==
    /\ consumed
    /\ generation < MaxGeneration /\ attempt < MaxAttempt /\ fencing < MaxFencing
    /\ generation' = generation + 1
    /\ attempt' = attempt + 1
    /\ fencing' = fencing + 1
    /\ consumed' = FALSE
    /\ sealed' = FALSE
    /\ UNCHANGED <<closed, revision, successor, inventory, sealFirst, issued,
                   transferred>>

\* The next generation is planned anew.
Replan(p) ==
    /\ successor' = p
    /\ UNCHANGED <<generation, consumed, closed, revision, inventory, sealed,
                   sealFirst, issued, transferred, lease>>

\* The owner reads the inventory of the earlier generations.
ReadInventory ==
    /\ sealed' = (\A e \in Earlier : ~ Open(e))
    /\ UNCHANGED <<generation, consumed, closed, revision, successor, inventory,
                   sealFirst, issued, transferred, lease>>

CloseLineage ==
    /\ closed' = TRUE
    /\ UNCHANGED <<generation, consumed, revision, successor, inventory, sealed,
                   sealFirst, issued, transferred, lease>>

------------------------------------------------------------------------------
(* Attempts and effects *)

\* The lease moves to another executor; the old one may not have noticed.
Takeover ==
    /\ fencing < MaxFencing
    /\ fencing' = fencing + 1
    /\ UNCHANGED <<lineage, revision, attempt, inventory>>

\* A new attempt, when the last one emitted nothing or finally failed.
Retry ==
    /\ attempt < MaxAttempt
    /\ \A e \in inventory : e.attempt = attempt =>
          e.status \in {"rejected-final", "not-committed-final"}
    /\ attempt' = attempt + 1
    /\ UNCHANGED <<lineage, revision, fencing, inventory>>

\* What executors report: the run and the generation of the plan they work on.
Attestations ==
    { a \in [ run : 1 .. MaxGeneration, generation : 1 .. MaxGeneration,
              attempt : 1 .. MaxAttempt, emission : Emission,
              request : Request, fencing : 1 .. MaxFencing, status : Reported ] :
      a.run = a.generation }

KnownFor(a, qualified) ==
    [ expectedRun |-> generation, expectedAttempt |-> attempt,
      lineageClosed |-> closed, generationConsumed |-> consumed,
      currentGeneration |-> generation,
      priorEmission |-> { e \in inventory : e.emission = a.emission },
      existingAttemptEmission |->
          { e.emission : e \in { x \in inventory : x.attempt = attempt } },
      activeFencing |-> fencing, executorQualified |-> qualified,
      predecessorEffectsTerminal |-> sealed ]

Entered(a, verdict) ==
    [ emission |-> a.emission, request |-> a.request,
      generation |-> a.generation, attempt |-> a.attempt,
      status |-> a.status, admitted |-> verdict = "effect-valid" ]

Record(a, verdict) ==
    /\ inventory' = inventory \cup {Entered(a, verdict)}
    /\ revision' = revision + 1
    /\ UNCHANGED <<lineage, lease>>

\* An attestation arrives.  A new emission enters the inventory, admitted or,
\* when its state is unknown, as a barrier; a report on a known emission that
\* is still open moves its status.  Any other answer changes nothing.
Attest(a, qualified) ==
    LET verdict == EffectVerdict(a, KnownFor(a, qualified))
    IN  \/ /\ verdict \in {"effect-valid", "effect-state-unknown"}
           /\ Record(a, verdict)
        \/ /\ verdict = "emission-duplicate"
           /\ \E e \in inventory :
                 /\ e.emission = a.emission /\ Open(e)
                 /\ inventory' = (inventory \ {e}) \cup
                                 {[ e EXCEPT !.status = a.status ]}
           /\ UNCHANGED <<lineage, lease, revision>>

LineageNext ==
    \/ \E id \in TransferId : IssueTransfer(id)
    \/ \E t \in issued : Transfer(t)
    \/ \E p \in Plan : Replan(p)
    \/ Succeed \/ ReadInventory \/ CloseLineage \/ Takeover \/ Retry
    \/ \E a \in Attestations, qualified \in BOOLEAN : Attest(a, qualified)

LineageSpec == LineageInit /\ [][LineageNext]_lineageVars

------------------------------------------------------------------------------
(* Properties *)

\* evaluateEffect: an emission is admitted only after everything earlier
\* generations emitted is finally settled, and nothing of theirs comes later,
\* although the owner's reading of the inventory may be old.
GenerationsDoNotOverlap ==
    \A e, f \in inventory :
        (e.generation < f.generation /\ f.admitted) => ~ Open(e)

\* evaluateEffect: over retries, lost leases and executors that do not know of
\* them, a generation never has two emissions that may both have happened.
EffectAtMostOnce ==
    \A e, f \in inventory :
        (e.generation = f.generation /\ e # f)
        => \/ e.status \in {"rejected-final", "not-committed-final"}
           \/ f.status \in {"rejected-final", "not-committed-final"}

\* evaluateEffect: an emission id stands for one request of one attempt, and an
\* attempt for one emission.
EmissionsIdentified ==
    \A e, f \in inventory :
        (e.emission = f.emission \/ e.attempt = f.attempt) => e = f

\* evaluateTransfer: a generation is consumed by one transfer only, and that
\* transfer is recognised for ever, expired or not, whatever was issued since.
TransferOneShot ==
    \A t \in transferred :
        /\ \A u \in transferred : u.generation = t.generation => u = t
        /\ \A c \in Collisions(t), expired \in BOOLEAN :
              TransferVerdict(t, c, expired, State) = "idempotent-duplicate"

\* evaluateTransfer: what its predecessors left can be settled by nobody once a
\* transfer is accepted, so an owner that issues transfers on a closed inventory
\* hands its successor a settled one, or the successor waits for ever.  It is
\* the revision the transfer binds that keeps the inventory closed meanwhile.
SuccessorFindsSettled == sealFirst => \A e \in Earlier : ~ Open(e)

\* The three together: a lineage is consumed, and emits, once at a time.
LineageOneShot == EffectAtMostOnce /\ EmissionsIdentified /\ TransferOneShot
==============================================================================
