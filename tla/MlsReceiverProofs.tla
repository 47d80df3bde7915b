-------------------------- MODULE MlsReceiverProofs --------------------------
(***************************************************************************)
(* Proofs about MlsReceiver, for every group, number of epochs and         *)
(* messages.  A receiver forgets what it consumed when it leaves an epoch, *)
(* so that nothing is applied twice rests on two facts: nothing of a later *)
(* epoch is in the document, and what is there of the current one is still *)
(* remembered as consumed.                                                 *)
(***************************************************************************)
EXTENDS MlsReceiver, TLAPS, SequenceTheorems

\* The keys of the receiver's epoch are remembered, and it is never behind its
\* document.
Remembered ==
    \A i \in DOMAIN document :
        /\ document[i].epoch <= receiver.epoch
        /\ document[i].epoch = receiver.epoch =>
              <<document[i].leafIndex, document[i].generation>>
                  \in receiver.consumed

ReceiverRecord ==
    receiver \in [ epoch : Nat, leaves : Tree,
                   consumed : SUBSET (Leaf \X (0 .. MaxGeneration)) ]

IInv == TypeOK /\ ReceiverRecord /\ Remembered /\ AppliedOnce /\ Authored

\* What a received frame is, in the epoch of the receiver.
LEMMA Received ==
    ASSUME IInv, NEW frame \in Frames, Receive(frame)
    PROVE  /\ EntryOf(frame) \in Entry
           /\ frame.epoch = receiver.epoch
           /\ <<frame.leafIndex, frame.generation>> \notin receiver.consumed
           /\ Signed(receiver, frame)
<1>1. SymbolicReceipt(receiver, frame) = "applied"
  BY DEF Receive
<1>2. Signed(receiver, frame) /\ ~ Consumed(receiver, frame)
      /\ ~ (frame.epoch < receiver.epoch) /\ ~ (frame.epoch > receiver.epoch)
  BY <1>1 DEF SymbolicReceipt
<1>3. frame.epoch \in 1 .. Epoch /\ Epoch \in 1 .. MaxEpoch
      /\ frame.leafIndex \in Leaf /\ frame.generation \in 0 .. MaxGeneration
      /\ frame.content \in Content
  BY DEF Frames, IInv, TypeOK
<1>4. receiver.epoch \in Nat /\ MaxEpoch \in Nat
  BY ReceiverAssumption DEF IInv, ReceiverRecord
<1>5. frame.epoch = receiver.epoch /\ frame.epoch \in 1 .. MaxEpoch
  BY <1>2, <1>3, <1>4
<1>6. EntryOf(frame) \in Entry
  BY <1>3, <1>5 DEF EntryOf, Entry
<1> QED
  BY <1>2, <1>5, <1>6 DEF Consumed

\* A commit adds an epoch and leaves the trees of the others alone.
LEMMA Committed ==
    ASSUME IInv, NEW leaf \in Leaf, NEW holder \in Member \cup {Blank},
           Commit(leaf, holder)
    PROVE  /\ tree' \in Seq(Tree)
           /\ Epoch' = Epoch + 1 /\ Epoch' \in 1 .. MaxEpoch
           /\ \A e \in 1 .. Epoch : tree'[e] = tree[e]
<1> DEFINE next == [ tree[Epoch] EXCEPT ![leaf] = holder ]
<1>1. tree \in Seq(Tree) /\ Epoch \in 1 .. MaxEpoch /\ Epoch = Len(tree)
      /\ Epoch < MaxEpoch /\ MaxEpoch \in Nat
  BY ReceiverAssumption DEF IInv, TypeOK, Commit, Epoch
<1>2. tree[Epoch] \in Tree
  BY <1>1, ElementOfSeq
<1>3. next \in Tree
  BY <1>2 DEF Tree
<1>4. tree' = Append(tree, next)
  BY DEF Commit
<1> HIDE DEF next
<1>5. /\ tree' \in Seq(Tree) /\ Len(tree') = Len(tree) + 1
      /\ \A e \in 1 .. Len(tree) : tree'[e] = tree[e]
  BY <1>1, <1>3, <1>4, AppendProperties
<1> QED
  BY <1>1, <1>5 DEF Epoch

\* The first epoch.
LEMMA InitHolds == Init => IInv
<1> SUFFICES ASSUME Init PROVE IInv
  OBVIOUS
<1>1. PICK first \in Tree : tree = <<first>>
  BY DEF Init
<1>2. /\ tree \in Seq(Tree) /\ Len(tree) = 1 /\ tree[1] = first
  BY <1>1
<1>3. receiver = [ epoch |-> 1, leaves |-> first, consumed |-> {} ]
  BY <1>2 DEF Init
<1>4. sent = {} /\ document = << >>
  BY DEF Init
<1>5. TypeOK
  BY <1>2, <1>3, <1>4, ReceiverAssumption DEF TypeOK, Epoch
<1>6. ReceiverRecord
  BY <1>3 DEF ReceiverRecord
<1> QED
  BY <1>4, <1>5, <1>6 DEF IInv, Remembered, AppliedOnce, Authored, Range

\* A step of the group or of the receiver keeps the invariant.
LEMMA CommitPreserves ==
    ASSUME IInv, NEW leaf \in Leaf, NEW holder \in Member \cup {Blank},
           Commit(leaf, holder)
    PROVE  IInv'
<1>1. /\ tree' \in Seq(Tree)
      /\ Epoch' = Epoch + 1 /\ Epoch' \in 1 .. MaxEpoch
      /\ \A e \in 1 .. Epoch : tree'[e] = tree[e]
  BY Committed
<1>2. UNCHANGED <<sent, receiver, document>>
  BY DEF Commit
<1>3. Epoch \in 1 .. MaxEpoch /\ receiver.epoch \in 1 .. Epoch
      /\ receiver.leaves = tree[receiver.epoch]
  BY DEF IInv, TypeOK
<1>4. TypeOK'
  <2>1. receiver.epoch \in 1 .. Epoch'
    BY <1>1, <1>3
  <2> QED
    BY <1>1, <1>2, <1>3, <2>1 DEF IInv, TypeOK, Message
<1>5. Authored'
  <2> SUFFICES ASSUME NEW entry \in Range(document)
               PROVE  \E m \in sent : /\ m.epoch = entry.epoch
                                      /\ m.leafIndex = entry.leafIndex
                                      /\ m.content = entry.content
                                      /\ m.author =
                                            tree'[entry.epoch][entry.leafIndex]
    BY <1>2 DEF Authored, Range
  <2>1. PICK i \in DOMAIN document : entry = document[i]
    BY DEF Range
  <2>2. document \in Seq(Entry) /\ document[i].epoch <= receiver.epoch
    BY DEF IInv, TypeOK, Remembered
  <2>3. entry \in Entry
    BY <2>1, <2>2, ElementOfSeq
  <2>4. entry.epoch \in 1 .. Epoch
    BY <1>3, <2>1, <2>2, <2>3 DEF Entry
  <2>5. tree'[entry.epoch] = tree[entry.epoch]
    BY <1>1, <2>4
  <2> QED
    BY <2>5 DEF IInv, Authored
<1> QED
  BY <1>2, <1>4, <1>5 DEF IInv, ReceiverRecord, Remembered, AppliedOnce

LEMMA SendPreserves ==
    ASSUME IInv, NEW member \in Member, NEW epoch \in 1 .. Epoch,
           NEW leaf \in Leaf, Send(member, epoch, leaf)
    PROVE  IInv'
<1>1. PICK generation \in 0 .. MaxGeneration, content \in Content :
         sent' = sent \cup {[ author |-> member, epoch |-> epoch,
            leafIndex |-> leaf, generation |-> generation,
            content |-> content ]}
  BY DEF Send
<1>2. UNCHANGED <<tree, receiver, document>>
  BY DEF Send
<1>3. epoch \in 1 .. MaxEpoch
  BY ReceiverAssumption DEF IInv, TypeOK
<1>4. sent' \subseteq Message
  BY <1>1, <1>3 DEF IInv, TypeOK, Message
<1>5. TypeOK'
  BY <1>2, <1>4 DEF IInv, TypeOK, Epoch
<1>6. Authored'
  BY <1>1, <1>2 DEF IInv, Authored, Range
<1> QED
  BY <1>2, <1>5, <1>6 DEF IInv, ReceiverRecord, Remembered, AppliedOnce

LEMMA FollowPreserves ==
    ASSUME IInv, Follow
    PROVE  IInv'
<1>1. UNCHANGED <<tree, sent, document>>
  BY DEF Follow
<1>2. receiver' = [ epoch    |-> receiver.epoch + 1,
                    leaves   |-> tree[receiver.epoch + 1],
                    consumed |-> {} ]
  BY DEF Follow
<1>3. receiver.epoch \in 1 .. Epoch /\ Epoch \in 1 .. MaxEpoch
      /\ Epoch = Len(tree) /\ tree \in Seq(Tree) /\ receiver.epoch < Epoch
  BY DEF IInv, TypeOK, Follow, Epoch
<1>4. receiver'.epoch = receiver.epoch + 1 /\ receiver'.consumed = {}
      /\ receiver'.leaves = tree[receiver'.epoch]
  BY <1>2
<1>5. receiver'.epoch \in 1 .. Epoch
  BY <1>3, <1>4
<1>6. TypeOK'
  BY <1>1, <1>4, <1>5 DEF IInv, TypeOK, Epoch
<1>7. ReceiverRecord'
  <2>1. tree[receiver.epoch + 1] \in Tree
    BY <1>3, <1>4, <1>5, ElementOfSeq
  <2> QED
    BY <1>2, <1>3, <2>1 DEF ReceiverRecord
<1>8. Remembered'
  <2> SUFFICES ASSUME NEW i \in DOMAIN document
               PROVE  /\ document[i].epoch <= receiver'.epoch
                      /\ document[i].epoch # receiver'.epoch
    BY <1>1 DEF Remembered
  <2>1. document[i].epoch <= receiver.epoch /\ document \in Seq(Entry)
    BY DEF IInv, TypeOK, Remembered
  <2>2. document[i] \in Entry
    BY <2>1, ElementOfSeq
  <2> QED
    BY <1>3, <1>4, <2>1, <2>2 DEF Entry
<1> QED
  BY <1>1, <1>6, <1>7, <1>8 DEF IInv, AppliedOnce, Authored, Range

LEMMA ReceivePreserves ==
    ASSUME IInv, NEW frame \in Frames, Receive(frame)
    PROVE  IInv'
<1> DEFINE entry == EntryOf(frame)
           key   == <<frame.leafIndex, frame.generation>>
           n     == Len(document)
<1>1. /\ entry \in Entry
      /\ frame.epoch = receiver.epoch
      /\ key \notin receiver.consumed
      /\ Signed(receiver, frame)
  BY Received
<1>2. /\ document' = Append(document, entry)
      /\ receiver' = [ receiver EXCEPT !.consumed = @ \cup {key} ]
      /\ UNCHANGED <<tree, sent>>
  BY DEF Receive
<1>3. /\ entry.epoch = receiver.epoch
      /\ <<entry.leafIndex, entry.generation>> = key
      /\ key \in Leaf \X (0 .. MaxGeneration)
  BY <1>1 DEF EntryOf, Entry
<1>4. document \in Seq(Entry) /\ n \in Nat
  BY DEF IInv, TypeOK
<1>5. /\ receiver'.epoch = receiver.epoch
      /\ receiver'.leaves = receiver.leaves
      /\ receiver'.consumed = receiver.consumed \cup {key}
      /\ ReceiverRecord'
  BY <1>2, <1>3 DEF IInv, ReceiverRecord
<1> HIDE DEF entry, key
<1>6. /\ document' \in Seq(Entry)
      /\ DOMAIN document' = 1 .. n + 1
      /\ document'[n + 1] = entry
      /\ DOMAIN document = 1 .. n
      /\ \A i \in 1 .. n : document'[i] = document[i]
  BY <1>1, <1>2, <1>4, AppendProperties
<1> HIDE DEF n
<1>7. TypeOK'
  BY <1>2, <1>3, <1>5, <1>6 DEF IInv, TypeOK, Epoch
<1>8. Remembered'
  <2> SUFFICES ASSUME NEW i \in DOMAIN document'
               PROVE  /\ document'[i].epoch <= receiver'.epoch
                      /\ document'[i].epoch = receiver'.epoch =>
                            <<document'[i].leafIndex, document'[i].generation>>
                                \in receiver'.consumed
    BY DEF Remembered
  <2>1. CASE i \in 1 .. n
    BY <1>5, <1>6, <2>1 DEF IInv, Remembered
  <2>2. CASE i = n + 1
    <3>1. receiver.epoch \in Nat
      BY DEF IInv, ReceiverRecord
    <3> QED
      BY <1>3, <1>5, <1>6, <2>2, <3>1
  <2> QED
    BY <1>4, <1>6, <2>1, <2>2
<1>9. AppliedOnce'
  <2>1. ASSUME NEW i \in 1 .. n,
               document[i].epoch = entry.epoch,
               document[i].leafIndex = entry.leafIndex,
               document[i].generation = entry.generation
        PROVE  FALSE
    BY <1>1, <1>3, <1>6, <2>1 DEF IInv, Remembered
  <2> SUFFICES ASSUME NEW i \in DOMAIN document', NEW j \in DOMAIN document',
                      document'[i].epoch = document'[j].epoch,
                      document'[i].leafIndex = document'[j].leafIndex,
                      document'[i].generation = document'[j].generation
               PROVE  i = j
    BY DEF AppliedOnce
  <2>2. CASE i \in 1 .. n /\ j \in 1 .. n
    BY <1>6, <2>2 DEF IInv, AppliedOnce
  <2>3. CASE i \in 1 .. n /\ j = n + 1
    BY <1>6, <2>1, <2>3
  <2>4. CASE i = n + 1 /\ j \in 1 .. n
    BY <1>6, <2>1, <2>4
  <2> QED
    BY <1>4, <1>6, <2>2, <2>3, <2>4
<1>10. Authored'
  <2> SUFFICES ASSUME NEW i \in DOMAIN document'
               PROVE  \E m \in sent :
                        /\ m.epoch = document'[i].epoch
                        /\ m.leafIndex = document'[i].leafIndex
                        /\ m.content = document'[i].content
                        /\ m.author =
                             tree[document'[i].epoch][document'[i].leafIndex]
    BY <1>2 DEF Authored, Range
  <2>1. CASE i \in 1 .. n
    BY <1>6, <2>1 DEF IInv, Authored, Range
  <2>2. CASE i = n + 1
    <3>1. frame.signature # << >>
          /\ frame.signature \in {<< >>} \cup { <<m>> : m \in sent }
      BY <1>1 DEF Signed, Frames
    <3>2. PICK m \in sent : frame.signature = <<m>>
      BY <3>1
    <3>3. /\ m.author = receiver.leaves[frame.leafIndex]
          /\ m.leafIndex = frame.leafIndex
          /\ m.epoch = frame.epoch
          /\ m.content = frame.content
      BY <1>1, <3>2 DEF Signed
    <3>4. receiver.leaves = tree[receiver.epoch]
      BY DEF IInv, TypeOK
    <3>5. entry.epoch = frame.epoch /\ entry.leafIndex = frame.leafIndex
          /\ entry.content = frame.content
      BY DEF entry, EntryOf
    <3> QED
      BY <1>1, <1>6, <2>2, <3>3, <3>4, <3>5
  <2> QED
    BY <1>4, <1>6, <2>1, <2>2
<1> QED
  BY <1>5, <1>7, <1>8, <1>9, <1>10 DEF IInv

LEMMA StepPreserves == IInv /\ [Next]_vars => IInv'
<1> SUFFICES ASSUME IInv, [Next]_vars PROVE IInv'
  OBVIOUS
<1>1. ASSUME NEW leaf \in Leaf, NEW holder \in Member \cup {Blank},
             Commit(leaf, holder)
      PROVE  IInv'
  BY <1>1, CommitPreserves
<1>2. ASSUME NEW member \in Member, NEW epoch \in 1 .. Epoch, NEW leaf \in Leaf,
             Send(member, epoch, leaf)
      PROVE  IInv'
  BY <1>2, SendPreserves
<1>3. CASE Follow
  BY <1>3, FollowPreserves
<1>4. ASSUME NEW frame \in Frames, Receive(frame)
      PROVE  IInv'
  BY <1>4, ReceivePreserves
<1>5. CASE UNCHANGED vars
  BY <1>5 DEF vars, IInv, TypeOK, ReceiverRecord, Remembered, AppliedOnce,
              Authored, Epoch, Range
<1> QED
  BY <1>1, <1>2, <1>3, <1>4, <1>5 DEF Next

\* The strengthened invariant holds throughout.
THEOREM Invariant == Spec => []IInv
  BY InitHolds, StepPreserves, PTL DEF Spec

\* Type correctness: the receiver knows the tree of its epoch.
THEOREM TypeCorrect == Spec => []TypeOK
<1>1. IInv => TypeOK
  BY DEF IInv
<1> QED
  BY <1>1, Invariant, PTL

\* What is applied under a leaf was signed by the member who held the leaf in
\* that epoch (Authored), for every group and however frames are resealed.
THEOREM AppliedIsAuthored == Spec => []Authored
<1>1. IInv => Authored
  BY DEF IInv
<1> QED
  BY <1>1, Invariant, PTL

\* No generation of a leaf is applied twice in an epoch (AppliedOnce), for any
\* number of epochs and frames.
THEOREM NothingAppliedTwice == Spec => []AppliedOnce
<1>1. IInv => AppliedOnce
  BY DEF IInv
<1> QED
  BY <1>1, Invariant, PTL

\* The document holds what the leaves' holders wrote, once each.
THEOREM ReceiptsSound == Spec => []ReceiptSound
<1>1. Authored /\ AppliedOnce => ReceiptSound
  BY DEF ReceiptSound
<1> QED
  BY <1>1, AppliedIsAuthored, NothingAppliedTwice, PTL
==============================================================================
