--------------------------- MODULE SignalementMC ---------------------------
(***************************************************************************)
(* A small instance of the signalement verifiers, in one of four           *)
(* scenarios, chosen at the start: signed receipts under key rotation, the *)
(* generated corpus they are tested with, a dossier exported after its     *)
(* approval, and a routing policy under revision.  The scenarios share no  *)
(* state.                                                                  *)
(***************************************************************************)
EXTENDS ReceiptVerification, SignatureCorpus, LocalExport, RoutingPolicy, TLC

Names == Permutations(Organizations) \cup Permutations(KeyIds) \cup Permutations(Ids)

VARIABLE scenario

vars == <<receiptVars, corpusVars, exportVars, policyVars, scenario>>

\* Only the scenario's own module starts from each of its initial states.
Idle == corpus = << >> /\ directory = [i \in Files |-> NoFile] /\ writing = << >> /\ corpusEdits = 0

Init ==
  /\ scenario \in {"receipts", "corpus", "dossier", "policy"}
  /\ ReceiptInit /\ ExportInit /\ PolicyInit
  /\ IF scenario = "corpus" THEN CorpusInit ELSE Idle

Next ==
  /\ UNCHANGED scenario
  /\ \/ scenario = "receipts" /\ ReceiptNext /\ UNCHANGED <<corpusVars, exportVars, policyVars>>
     \/ scenario = "corpus" /\ CorpusNext /\ UNCHANGED <<receiptVars, exportVars, policyVars>>
     \/ scenario = "dossier" /\ ExportNext /\ UNCHANGED <<receiptVars, corpusVars, policyVars>>
     \/ scenario = "policy" /\ PolicyNext /\ UNCHANGED <<receiptVars, corpusVars, exportVars>>

Spec == Init /\ [][Next]_vars
=============================================================================
