------------------------ MODULE ReceiptVerification ------------------------
(***************************************************************************)
(* The signed receipts of a delivered dossier and the two programs that    *)
(* judge them offline: the TypeScript verifier                             *)
(* (signalement-projection-receipt-v1.ts) and the Rust oracle              *)
(* (signalement-receipt-crypto-oracle).  The control plane that issues     *)
(* receipts, rotates keys and publishes key sets is outside the            *)
(* repository: its actions follow SEMANTICS "Signing key set".  Documents  *)
(* circulate: a copy may be edited or written again by another tool, and a *)
(* key set may be copied by hand.                                          *)
(***************************************************************************)
EXTENDS Integers, Sequences, FiniteSets

CONSTANTS Organizations,   \* organizations that publish a key set
          KeyIds,          \* key names; a name stands for one key pair too
          Paths,           \* paths of the files of the dossier
          MaxTime,         \* bound on the clock
          MaxSigned,       \* bound on signatures made
          MaxPublished     \* bound on key sets published

ASSUME ReceiptAssumption ==
  /\ Organizations # {} /\ KeyIds # {} /\ Paths # {}
  /\ MaxTime \in Nat /\ MaxSigned \in Nat /\ MaxPublished \in Nat

VARIABLES time,          \* the clock
          keyring,       \* the keys of the current set of each organization
          published,     \* every key set published: [organization, keys, body, at]
          issued,        \* the signed receipts the control plane has issued
          elsewhere      \* documents it signed for another family

receiptVars == <<time, keyring, published, issued, elsewhere>>

NoEnd == MaxTime + 9     \* a null notAfter: no end

\* The first step of an ordered list that does not hold names the outcome.
FirstFailure(steps) ==
  LET failing == {i \in DOMAIN steps : ~steps[i].holds}
  IN  IF failing = {} THEN "none"
      ELSE steps[CHOOSE i \in failing : \A j \in failing : i <= j].code
Step(code, holds) == [code |-> code, holds |-> holds]

-----------------------------------------------------------------------------
(* The receipt as a document.                                              *)

Repeats(list) == \E i, j \in DOMAIN list : i < j /\ list[i] = list[j]
PathsOf(files) == [i \in DOMAIN files |-> files[i].path]
Members(list) == {list[i] : i \in DOMAIN list}
Linked(files) == {files[i].path : i \in {k \in DOMAIN files : files[k].via = "link"}}

\* A path appears once in each of the three lists.
PathsDistinct(r) ==
  ~ (Repeats(PathsOf(r.transmitted)) \/ Repeats(r.withheld) \/ Repeats(r.mediaLinks))

\* No file is both transmitted and withheld.
FilesDisjoint(r) == Members(PathsOf(r.transmitted)) \cap Members(r.withheld) = {}

\* A media link names a file transmitted as a link ...
LinksTransmitted(r) == Members(r.mediaLinks) \subseteq Linked(r.transmitted)

\* ... and every file transmitted as a link has its media link.
LinkedFilesLinked(r) == Linked(r.transmitted) \subseteq Members(r.mediaLinks)

StructureSteps(r) ==
  << Step("receipt.duplicate_path", PathsDistinct(r)),
     Step("receipt.file_overlap", FilesDisjoint(r)),
     Step("receipt.media_link_untransmitted", LinksTransmitted(r)),
     Step("receipt.media_link_missing", LinkedFilesLinked(r)),
     Step("receipt.timestamp_order", r.deliveredAt <= r.issuedAt) >>

\* form: how the octets are written.  "fraction" holds a number the
\* canonicalizer cannot write, so it reaches the schema check instead.  body: the
\* signed members not named here.  "off schema" is a revision above 2147483647 or
\* a missing exportDigest; "oversized" takes the octets over the cap.
ReceiptSteps(r) ==
  << Step("receipt.size_limit", r.body # "oversized"),
     Step("receipt.raw_json", r.form # "repeated member"),
     Step("receipt.non_canonical", r.form # "spaced"),
     Step("receipt.schema", r.form # "fraction" /\ r.body # "off schema") >> \o StructureSteps(r)

KeyNamesDistinct(d) ==
  \A first, second \in d.keys : first.keyId = second.keyId => first = second

\* A key set has a key, and no member but those of its schema.
KeySetInSchema(d) == d.keys # {} /\ d.body = "sound"

KeySetSteps(d) ==
  << Step("keys.schema", KeySetInSchema(d)),
     Step("keys.duplicate_key_id", KeyNamesDistinct(d)),
     Step("keys.retired_without_end",
          \A key \in d.keys : key.status = "retired" => key.notAfter # NoEnd),
     Step("keys.window_order", \A key \in d.keys : key.notAfter > key.notBefore),
     Step("keys.encoding", \A key \in d.keys : key.written = "exactly") >>

-----------------------------------------------------------------------------
(* Signatures.  A key or the R of a signature is a point of prime order, or *)
(* of mixed order once a torsion point is added to it; S is reduced, or     *)
(* written with the group order added.                                      *)

Unsigned(r) == [member \in DOMAIN r \ {"form", "signature"} |-> r[member]]

\* The signed octets bind the domain of this family and the unsigned receipt.
ReceiptSigningMessage(unsigned) == [domain |-> "projection-receipt", document |-> unsigned]

\* Variant: only a point of small order is refused, as a plain check does.
AdmissibleSmallOrderOnly(point) == point # "small order"

Admissible(point) == point = "prime order"

\* The cofactored equation: torsion in A or in R and an unreduced S all cancel.
EquationHolds(signature, message, key) ==
  /\ signature.by = key.keyId
  /\ signature.over = message

\* Variant: a retired key verifies nothing.
InWindowActive(r, key) ==
  key.status = "active" /\ key.notBefore <= r.issuedAt /\ r.issuedAt < key.notAfter

InWindow(r, key) == key.notBefore <= r.issuedAt /\ r.issuedAt < key.notAfter

Named(r, d) == {key \in d.keys : key.keyId = r.keyId}

SignatureSteps(r, d) ==
  << Step("key.organization_mismatch", r.organization = d.organization),
     Step("key.unknown", Named(r, d) # {}),
     Step("key.outside_validity", \A key \in Named(r, d) : InWindow(r, key)),
     Step("key.not_admissible", \A key \in Named(r, d) : Admissible(key.point)),
     Step("signature.r_not_admissible", Admissible(r.signature.point)),
     Step("signature.s_non_canonical", r.signature.scalar = "reduced"),
     Step("signature.mismatch",
          \A key \in Named(r, d) :
             EquationHolds(r.signature, ReceiptSigningMessage(Unsigned(r)), key)) >>

\* verifyProjectionReceiptSignature: the first step that fails, in the
\* normative order, or "none".
VerifyProjectionReceiptSignature(r, d) ==
  FirstFailure(ReceiptSteps(r)
                 \o << Step("signature.encoding", r.signature.written = "exactly") >>
                 \o KeySetSteps(d) \o SignatureSteps(r, d))

Codes(steps) == {steps[i].code : i \in DOMAIN steps}

Verdict(r, d) ==
  LET code == VerifyProjectionReceiptSignature(r, d)
  IN  IF code = "none" THEN "valid"
      ELSE IF code \in Codes(ReceiptSteps(r)) \cup {"signature.encoding"} THEN "unreadable"
      ELSE IF code \in Codes(KeySetSteps(d)) THEN "refused"
      ELSE IF code = "key.unknown" THEN "unknown-key"
      ELSE "invalid"

-----------------------------------------------------------------------------
(* The Rust oracle, no schema validator: it reads only the members that     *)
(* verification needs, not the size, the path lists or the schema of a      *)
(* receipt, nor how many keys a set has.                                    *)

OracleReadsReceipt(r) ==
  /\ r.form \notin {"repeated member", "spaced", "fraction"}
  /\ r.signature.written = "exactly"

\* Variant: a retired key without an end is read.
OracleReadsKeyUnended(key) == key.written = "exactly" /\ key.notAfter > key.notBefore

OracleReadsKey(key) ==
  /\ key.written = "exactly"
  /\ key.notAfter > key.notBefore
  /\ key.status = "active" \/ key.notAfter # NoEnd

OracleReadsKeySet(d) == (\A key \in d.keys : OracleReadsKey(key)) /\ KeyNamesDistinct(d)

\* verify_strict is cofactorless: it also refuses a torsion component of R
\* and an S that is not reduced.
VerifyStrict(signature, message, key) ==
  /\ signature.point = "prime order"
  /\ signature.scalar = "reduced"
  /\ signature.by = key.keyId
  /\ signature.over = message

OracleAccepts(r, key) ==
  /\ InWindow(r, key)
  /\ Admissible(key.point) /\ Admissible(r.signature.point)
  /\ VerifyStrict(r.signature, ReceiptSigningMessage(Unsigned(r)), key)

Classify(r, d) ==
  IF ~OracleReadsReceipt(r) THEN "unreadable"
  ELSE IF ~OracleReadsKeySet(d) THEN "refused"
  ELSE IF r.organization # d.organization THEN "invalid"
  ELSE IF Named(r, d) = {} THEN "unknown-key"
  ELSE IF \A key \in Named(r, d) : OracleAccepts(r, key) THEN "valid"
  ELSE "invalid"

-----------------------------------------------------------------------------
(* The control plane.                                                      *)

Key(k) == [keyId |-> k, point |-> "prime order", written |-> "exactly",
           status |-> "active", notBefore |-> time, notAfter |-> NoEnd]

\* The lists of a receipt account for every file once, media by link.
Deliveries ==
  {[transmitted |-> sent, withheld |-> kept, mediaLinks |-> links] :
     sent \in {<< >>} \cup {<<[path |-> p, via |-> v]>> : p \in Paths, v \in {"content", "link"}},
     kept \in {<< >>} \cup {<<p>> : p \in Paths},
     links \in {<< >>} \cup {<<p>> : p \in Paths}}

SoundDeliveries ==
  {d \in Deliveries :
     /\ FilesDisjoint(d) /\ LinksTransmitted(d) /\ LinkedFilesLinked(d)
     /\ Members(PathsOf(d.transmitted)) \cup Members(d.withheld) = Paths}

ReceiptOf(o, k, delivery, delivered) ==
  [organization |-> o, keyId |-> k, deliveredAt |-> delivered, issuedAt |-> time, body |-> "sound",
   transmitted |-> delivery.transmitted, withheld |-> delivery.withheld,
   mediaLinks |-> delivery.mediaLinks]

Sign(unsigned, k, message) ==
  [member \in DOMAIN unsigned \cup {"form", "signature"} |->
     CASE member = "form" -> "canonical"
       [] member = "signature" ->
            [by |-> k, over |-> message, point |-> "prime order",
             scalar |-> "reduced", written |-> "exactly"]
       [] OTHER -> unsigned[member]]

Signing(o) == {key \in keyring[o] : key.notBefore <= time /\ time < key.notAfter}

\* A receipt is issued at the present instant by a key whose window is open.
Issue(o, k, delivery, delivered) ==
  /\ Cardinality(issued \cup elsewhere) < MaxSigned
  /\ \E key \in Signing(o) : key.keyId = k
  /\ delivered <= time
  /\ LET unsigned == ReceiptOf(o, k, delivery, delivered)
     IN  issued' = issued \cup {Sign(unsigned, k, ReceiptSigningMessage(unsigned))}
  /\ UNCHANGED <<time, keyring, published, elsewhere>>

\* The same key signs a statement of another family over the same document.
SignElsewhere(o, k, delivery) ==
  /\ Cardinality(issued \cup elsewhere) < MaxSigned
  /\ \E key \in Signing(o) : key.keyId = k
  /\ LET unsigned == ReceiptOf(o, k, delivery, time)
     IN  elsewhere' = elsewhere \cup
           {Sign(unsigned, k, [domain |-> "acceptance-statement", document |-> unsigned])}
  /\ UNCHANGED <<time, keyring, published, issued>>

Publish(o, keys) ==
  /\ Cardinality(published) < MaxPublished
  /\ keyring' = [keyring EXCEPT ![o] = keys]
  /\ published' = published \cup {[organization |-> o, keys |-> keys, body |-> "sound", at |-> time]}
  /\ UNCHANGED <<time, issued, elsewhere>>

\* Two organizations may be served by one signing key.
AddKey(o, k) ==
  /\ \A key \in keyring[o] : key.keyId # k
  /\ Publish(o, keyring[o] \cup {Key(k)})

\* A retired key stays in the set; its window ends after everything it signed.
RetireKey(o, key) ==
  /\ key.status = "active"
  /\ Publish(o, (keyring[o] \ {key}) \cup
                {[key EXCEPT !.status = "retired", !.notAfter = time + 1]})

Tick ==
  /\ time < MaxTime
  /\ time' = time + 1
  /\ UNCHANGED <<keyring, published, issued, elsewhere>>

-----------------------------------------------------------------------------
(* Documents travel: a holder has what was signed and published, or a copy  *)
(* that was edited or written again by another tool.                        *)

EditedReceipts(r) ==
     {[r EXCEPT !.form = f] : f \in {"spaced", "repeated member", "fraction"}}
  \cup {[r EXCEPT !.signature.written = "aliased"], [r EXCEPT !.signature.point = "mixed order"],
        [r EXCEPT !.signature.scalar = "unreduced"]}
  \cup {[r EXCEPT !.body = b] : b \in {"off schema", "oversized"}}
  \cup {[r EXCEPT !.organization = o] : o \in Organizations}
  \cup {[r EXCEPT !.keyId = k] : k \in KeyIds}
  \cup {[r EXCEPT !.issuedAt = t] : t \in 0..MaxTime}
  \cup {[r EXCEPT !.transmitted = r.transmitted \o r.transmitted],
        [r EXCEPT !.withheld = PathsOf(r.transmitted)],
        [r EXCEPT !.mediaLinks = r.withheld], [r EXCEPT !.mediaLinks = << >>]}

HeldReceipts ==
  LET signed == issued \cup elsewhere
  IN  signed \cup UNION {EditedReceipts(r) : r \in signed}

EditedKeys(key) ==
  {[key EXCEPT !.point = "mixed order"], [key EXCEPT !.written = "aliased"],
   [key EXCEPT !.notAfter = NoEnd], [key EXCEPT !.notAfter = key.notBefore]}

\* A key of the set is changed, or the changed key is listed beside it; or the
\* set is emptied, or given a member its schema does not have.
EditedKeySets(d) ==
  {[d EXCEPT !.keys = {}], [d EXCEPT !.body = "off schema"]} \cup
  UNION {UNION {{[d EXCEPT !.keys = (d.keys \ {key}) \cup {edited}],
                 [d EXCEPT !.keys = d.keys \cup {edited}]} :
                   edited \in EditedKeys(key)} : key \in d.keys}

HeldKeySets == published \cup UNION {EditedKeySets(d) : d \in published}

-----------------------------------------------------------------------------
ReceiptInit ==
  /\ time = 0
  /\ keyring = [o \in Organizations |-> {}]
  /\ published = {}
  /\ issued = {}
  /\ elsewhere = {}

ReceiptNext ==
  \/ \E o \in Organizations, k \in KeyIds, delivery \in SoundDeliveries, t \in 0..MaxTime :
       Issue(o, k, delivery, t)
  \/ \E o \in Organizations, k \in KeyIds, delivery \in SoundDeliveries :
       SignElsewhere(o, k, delivery)
  \/ \E o \in Organizations, k \in KeyIds : AddKey(o, k)
  \/ \E o \in Organizations : \E key \in keyring[o] : RetireKey(o, key)
  \/ Tick

ReceiptSpec == ReceiptInit /\ [][ReceiptNext]_receiptVars

-----------------------------------------------------------------------------
\* A receipt judged valid against a set an organization really published is,
\* octet for octet, one that organization issued: no edit, second encoding,
\* signature of another family or set of another organization passes for it.
ValidMeansIssued ==
  \A r \in HeldReceipts, d \in published :
    Verdict(r, d) = "valid" => r \in issued /\ r.organization = d.organization

\* A receipt stays valid against every set its organization publishes from
\* then on, whatever keys are added or retired; an older set may only say
\* that it does not know the key.
GenuineStaysValid ==
  \A r \in issued, d \in published :
    r.organization = d.organization =>
      \/ Verdict(r, d) = "valid"
      \/ Verdict(r, d) = "unknown-key" /\ d.at <= r.issuedAt

\* The two verifiers, which share no code, reach the same class on every receipt
\* and key set within their schemas, size and path lists.  Outside them the oracle
\* may name another class ("not a schema validator", SEMANTICS, lines 402-403), and yet
\* a receipt it calls valid is valid unless the key set is outside its schema.
InContract(r) == FirstFailure(StructureSteps(r)) = "none" /\ r.body = "sound"

VerifiersAgree ==
  \A r \in HeldReceipts, d \in HeldKeySets :
    /\ InContract(r) /\ KeySetInSchema(d) => Verdict(r, d) = Classify(r, d)
    /\ Classify(r, d) = "valid" => Verdict(r, d) = "valid" \/ ~KeySetInSchema(d)
=============================================================================
