----------------------------- MODULE MlsReceiver -----------------------------
(***************************************************************************)
(* A receiver of MLS application messages                                  *)
(* (tools/quality/mls-sender-authentication.ts, evaluateSymbolicReceipt).  *)
(* The group goes from epoch to epoch, each with a tree that says which    *)
(* member holds which leaf; members send in an epoch they may have been    *)
(* left behind in; frames reach the receiver late, again, in any order and *)
(* with any departure of the red vectors.  The receiver follows the epochs *)
(* at its own pace and applies what the oracle finds good.                 *)
(*                                                                         *)
(* Messages are the symbolic facts of the oracle, not bytes.  A signature  *)
(* is the author, the epoch, the leaf and the content it covers, and is    *)
(* one that its author really made.                                        *)
(***************************************************************************)
EXTENDS Naturals, Sequences, FiniteSets, Functions

CONSTANTS
    Member, Leaf, Content,
    Blank,         \* what an unused leaf holds
    Departures,    \* the facts in which a frame may depart from the rules
    MaxEpoch, MaxGeneration, MaxSent     \* bounds of the model

ASSUME ReceiverAssumption ==
    /\ Blank \notin Member
    /\ MaxEpoch \in Nat \ {0}
    /\ {MaxGeneration, MaxSent} \subseteq Nat

------------------------------------------------------------------------------
(* evaluateSymbolicReceipt *)

\* Mutant: any complete signature will do.
SignedByAnyone(receiver, message) ==
    /\ message.signature # << >>
    /\ "signature-truncated" \notin message.departures
    /\ message.signature[1].content = message.content

\* The member whose key is at a leaf signed this content in this epoch; the
\* generation is not part of what is signed.
Signed(receiver, message) ==
    /\ message.signature # << >>
    /\ "signature-truncated" \notin message.departures
    /\ message.signature[1].author = receiver.leaves[message.leafIndex]
    /\ message.signature[1].leafIndex = message.leafIndex
    /\ message.signature[1].epoch = message.epoch
    /\ message.signature[1].content = message.content

Consumed(receiver, message) ==
    <<message.leafIndex, message.generation>> \in receiver.consumed

Resealed == {"derived-key", "sealed-by-relay", "altered"}

\* Every check is enabled: those the vectors disable stand for an implementation
\* without them.
SymbolicReceipt(receiver, message) ==
    IF "framing" \in message.departures THEN "refused-not-mls-private-message"
    ELSE IF message.epoch < receiver.epoch THEN "refused-stale-epoch"
    ELSE IF message.epoch > receiver.epoch THEN "refused-future-epoch"
    ELSE IF message.departures \cap Resealed # {}
    THEN "refused-group-authentication"
    ELSE IF receiver.leaves[message.leafIndex] = Blank
    THEN "refused-unknown-sender-leaf"
    ELSE IF Consumed(receiver, message) THEN "refused-replay"
    ELSE IF ~ Signed(receiver, message) THEN "refused-signature-invalid"
    ELSE "applied"

------------------------------------------------------------------------------
VARIABLES
    tree,       \* epoch |-> leaf |-> member or Blank
    sent,       \* every message a member sealed and signed
    receiver,   \* what the oracle is given: epoch, leaves, consumed keys
    document    \* the contents applied, in order

vars == <<tree, sent, receiver, document>>

Epoch == Len(tree)

Message ==
    [ author : Member, epoch : 1 .. MaxEpoch, leafIndex : Leaf,
      generation : 0 .. MaxGeneration, content : Content ]

Entry ==
    [ epoch : 1 .. MaxEpoch, leafIndex : Leaf,
      generation : 0 .. MaxGeneration, content : Content ]

Tree == [ Leaf -> Member \cup {Blank} ]

\* Types.  The receiver knows the tree of its epoch, and consumed keys are of
\* that epoch.
TypeOK ==
    /\ tree \in Seq(Tree) /\ Epoch \in 1 .. MaxEpoch
    /\ sent \subseteq Message
    /\ receiver.epoch \in 1 .. Epoch
    /\ receiver.leaves = tree[receiver.epoch]
    /\ receiver.consumed \subseteq Leaf \X (0 .. MaxGeneration)
    /\ document \in Seq(Entry)

------------------------------------------------------------------------------
(* The group *)

\* A commit changes who holds one leaf: a member is added, removed or replaced,
\* and holds at most one leaf.
Commit(leaf, holder) ==
    /\ Epoch < MaxEpoch
    /\ holder # tree[Epoch][leaf]
    /\ holder # Blank => holder \notin Range(tree[Epoch])
    /\ tree' = Append(tree, [ tree[Epoch] EXCEPT ![leaf] = holder ])
    /\ UNCHANGED <<sent, receiver, document>>

\* A member sends in any epoch in which it holds a leaf, and after a restore it
\* may use a generation again.
Send(member, epoch, leaf) ==
    /\ Cardinality(sent) < MaxSent
    /\ tree[epoch][leaf] = member
    /\ \E generation \in 0 .. MaxGeneration, content \in Content :
          sent' = sent \cup {[ author |-> member, epoch |-> epoch,
             leafIndex |-> leaf, generation |-> generation,
             content |-> content ]}
    /\ UNCHANGED <<tree, receiver, document>>

\* The receiver processes the next commit: new secrets, nothing consumed.
Follow ==
    /\ receiver.epoch < Epoch
    /\ receiver' = [ epoch    |-> receiver.epoch + 1,
                     leaves   |-> tree[receiver.epoch + 1],
                     consumed |-> {} ]
    /\ UNCHANGED <<tree, sent, document>>

------------------------------------------------------------------------------
(* The receiver *)

\* A frame carries a signature that was made, perhaps for another message, or
\* none.
Frames ==
    [ epoch : 1 .. Epoch, leafIndex : Leaf, generation : 0 .. MaxGeneration,
      content : Content, signature : { << >> } \cup { <<m>> : m \in sent },
      departures : { D \in SUBSET Departures : Cardinality(D) <= 1 } ]

EntryOf(frame) ==
    [ epoch |-> frame.epoch, leafIndex |-> frame.leafIndex,
      generation |-> frame.generation, content |-> frame.content ]

\* Applying consumes the key of the generation, in one transaction; a refusal
\* leaves everything as it is.
Receive(frame) ==
    /\ SymbolicReceipt(receiver, frame) = "applied"
    /\ document' = Append(document, EntryOf(frame))
    /\ receiver' = [ receiver EXCEPT !.consumed =
                       @ \cup {<<frame.leafIndex, frame.generation>>} ]
    /\ UNCHANGED <<tree, sent>>

Init ==
    /\ tree \in { <<first>> : first \in { t \in Tree :
          \A k, l \in Leaf : t[k] = t[l] /\ t[k] # Blank => k = l } }
    /\ sent = {}
    /\ receiver = [ epoch |-> 1, leaves |-> tree[1], consumed |-> {} ]
    /\ document = << >>

Next ==
    \/ \E leaf \in Leaf, holder \in Member \cup {Blank} : Commit(leaf, holder)
    \/ \E member \in Member, epoch \in 1 .. Epoch, leaf \in Leaf :
           Send(member, epoch, leaf)
    \/ Follow
    \/ \E frame \in Frames : Receive(frame)

Spec == Init /\ [][Next]_vars

------------------------------------------------------------------------------
(* Properties *)

\* What is applied under a leaf was signed, in that epoch, by the member who
\* held the leaf in that epoch, whoever sealed the frame and whoever holds the
\* leaf now.
Authored ==
    \A entry \in Range(document) : \E m \in sent :
        /\ m.epoch = entry.epoch /\ m.leafIndex = entry.leafIndex
        /\ m.content = entry.content
        /\ m.author = tree[entry.epoch][entry.leafIndex]

\* No generation of a leaf is applied twice in an epoch, although the receiver
\* forgets the consumed keys of an epoch when it leaves it.
AppliedOnce ==
    \A i, j \in DOMAIN document :
        /\ document[i].epoch = document[j].epoch
        /\ document[i].leafIndex = document[j].leafIndex
        /\ document[i].generation = document[j].generation
        => i = j

\* Both together: the document holds what the leaves' holders wrote, once.
ReceiptSound == Authored /\ AppliedOnce
==============================================================================
