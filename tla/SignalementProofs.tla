-------------------------- MODULE SignalementProofs --------------------------
(***************************************************************************)
(* For any organizations, keys, media and policies: a receipt judged valid *)
(* was issued, what was issued stays valid and the two verifiers agree; a  *)
(* corpus always packs and none of it is left out unread; an export that   *)
(* is admitted is what the reviewer was shown; and every denial of an      *)
(* admitted routing policy bites. Each of the four models has an inductive *)
(* invariant of its own.                                                   *)
(***************************************************************************)
EXTENDS ReceiptVerification, SignatureCorpus, LocalExport, RoutingPolicy,
        FiniteSetTheorems, SequenceTheorems, WellFoundedInduction, TLAPS

------------------------------------------------------------------------------
(* Receipts (ReceiptVerification)                                          *)

------------------------------------------------------------------------------
(* Ordered steps *)

FormCodes ==
  {"receipt.size_limit", "receipt.raw_json", "receipt.non_canonical", "receipt.schema"}
StructureCodes ==
  {"receipt.duplicate_path", "receipt.file_overlap", "receipt.media_link_untransmitted",
   "receipt.media_link_missing", "receipt.timestamp_order"}
KeySetCodes ==
  {"keys.schema", "keys.duplicate_key_id", "keys.retired_without_end",
   "keys.window_order", "keys.encoding"}
SignatureCodes ==
  {"key.organization_mismatch", "key.unknown", "key.outside_validity", "key.not_admissible",
   "signature.r_not_admissible", "signature.s_non_canonical", "signature.mismatch"}
StepCodes ==
  FormCodes \cup StructureCodes \cup {"signature.encoding"} \cup KeySetCodes \cup SignatureCodes

NamedStep == [ code : StepCodes, holds : BOOLEAN ]
OrderedSteps == Seq(NamedStep)
AllHold(steps) == \A i \in DOMAIN steps : steps[i].holds

LEMMA CodesApart ==
    /\ "none" \notin StepCodes
    /\ SignatureCodes \cap (KeySetCodes \cup FormCodes \cup StructureCodes) = {}
    /\ KeySetCodes \cap (FormCodes \cup StructureCodes) = {}
    /\ "signature.encoding" \notin SignatureCodes \cup KeySetCodes
BY DEF StepCodes, FormCodes, StructureCodes, KeySetCodes, SignatureCodes

LEMMA NatMinimum ==
    ASSUME NEW T, T \subseteq Nat, T # {}
    PROVE  \E n \in T : \A m \in T : n <= m
<1>1. \E n \in T : \A m \in T : ~ (<<m, n>> \in OpToRel(<, Nat))
  BY NatLessThanWellFounded, WFMin
<1>2. PICK n \in T : \A m \in T : ~ (<<m, n>> \in OpToRel(<, Nat))
  BY <1>1
<1>3. \A m \in T : ~ (m < n)
  BY <1>2 DEF OpToRel
<1> QED
  BY <1>3

\* The outcome names the first step that does not hold.
LEMMA FirstIs ==
    ASSUME NEW steps \in OrderedSteps, NEW i \in DOMAIN steps, ~ steps[i].holds,
           \A j \in 1 .. i - 1 : steps[j].holds
    PROVE  FirstFailure(steps) = steps[i].code /\ steps[i].code # "none"
<1> DEFINE failing == { k \in DOMAIN steps : ~ steps[k].holds }
           First(k) == k \in failing /\ \A j \in failing : k <= j
<1>1. DOMAIN steps = 1 .. Len(steps) /\ Len(steps) \in Nat
  BY DEF OrderedSteps
<1>2. \A k : First(k) <=> k = i
  BY <1>1
<1> DEFINE first == CHOOSE k \in failing : \A j \in failing : k <= j
<1>3. first \in failing /\ \A j \in failing : first <= j
  BY <1>2
<1>4. first = i
  BY <1>2, <1>3
<1>5. FirstFailure(steps) = steps[first].code
  BY <1>2 DEF FirstFailure
<1>6. steps[i].code # "none"
  <2>1. steps[i] \in NamedStep
    BY <1>1 DEF OrderedSteps
  <2> QED
    BY <2>1, CodesApart DEF NamedStep
<1> HIDE DEF first
<1> QED
  BY <1>4, <1>5, <1>6

LEMMA FirstExists ==
    ASSUME NEW steps \in OrderedSteps, ~ AllHold(steps)
    PROVE  \E i \in DOMAIN steps :
              ~ steps[i].holds /\ \A j \in 1 .. i - 1 : steps[j].holds
<1> DEFINE failing == { k \in DOMAIN steps : ~ steps[k].holds }
<1>1. failing \subseteq Nat /\ failing # {}
  BY DEF OrderedSteps, AllHold
<1>2. PICK i \in failing : \A j \in failing : i <= j
  BY <1>1, NatMinimum
<1>3. \A j \in 1 .. i - 1 : j \in DOMAIN steps
  BY DEF OrderedSteps
<1> QED
  BY <1>1, <1>2, <1>3

LEMMA NoneMeansAll ==
    ASSUME NEW steps \in OrderedSteps
    PROVE  /\ FirstFailure(steps) = "none" <=> AllHold(steps)
           /\ ~ AllHold(steps) => FirstFailure(steps) \in Codes(steps)
<1>1. AllHold(steps) => FirstFailure(steps) = "none"
  BY DEF AllHold, FirstFailure
<1>2. ASSUME ~ AllHold(steps)
      PROVE  FirstFailure(steps) # "none" /\ FirstFailure(steps) \in Codes(steps)
  BY <1>2, FirstExists, FirstIs DEF Codes
<1> QED
  BY <1>1, <1>2

\* The outcome of two lists in sequence.
LEMMA FirstOfBoth ==
    ASSUME NEW a \in OrderedSteps, NEW b \in OrderedSteps
    PROVE  /\ a \o b \in OrderedSteps
           /\ AllHold(a \o b) <=> AllHold(a) /\ AllHold(b)
           /\ Codes(a \o b) = Codes(a) \cup Codes(b)
           /\ FirstFailure(a \o b)
                = IF AllHold(a) THEN FirstFailure(b) ELSE FirstFailure(a)
<1> DEFINE c == a \o b
<1>1. /\ c \in OrderedSteps /\ Len(a) \in Nat /\ Len(b) \in Nat /\ Len(c) = Len(a) + Len(b)
      /\ DOMAIN a = 1 .. Len(a) /\ DOMAIN b = 1 .. Len(b) /\ DOMAIN c = 1 .. Len(a) + Len(b)
      /\ \A i \in 1 .. Len(a) : c[i] = a[i]
      /\ \A i \in 1 .. Len(b) : c[Len(a) + i] = b[i]
  BY DEF OrderedSteps
<1> HIDE DEF c
<1>2. \A i \in DOMAIN c : i \in DOMAIN a \/ \E j \in DOMAIN b : i = Len(a) + j
  <2> SUFFICES ASSUME NEW i \in DOMAIN c, i \notin DOMAIN a
               PROVE  \E j \in DOMAIN b : i = Len(a) + j
    OBVIOUS
  <2>1. i - Len(a) \in DOMAIN b /\ i = Len(a) + (i - Len(a))
    BY <1>1
  <2> QED
    BY <2>1
<1>3. AllHold(c) <=> AllHold(a) /\ AllHold(b)
  <2>1. ASSUME AllHold(c) PROVE AllHold(a) /\ AllHold(b)
    <3>1. \A i \in DOMAIN b : Len(a) + i \in DOMAIN c /\ c[Len(a) + i] = b[i]
      BY <1>1
    <3> QED
      BY <1>1, <2>1, <3>1 DEF AllHold
  <2>2. ASSUME AllHold(a), AllHold(b) PROVE AllHold(c)
    BY <1>1, <1>2, <2>2 DEF AllHold
  <2> QED
    BY <2>1, <2>2
<1>4. Codes(c) = Codes(a) \cup Codes(b)
  <2>1. \A i \in DOMAIN b : Len(a) + i \in DOMAIN c /\ c[Len(a) + i] = b[i]
    BY <1>1
  <2>2. Codes(a) \subseteq Codes(c) /\ Codes(b) \subseteq Codes(c)
    BY <1>1, <2>1 DEF Codes
  <2>3. ASSUME NEW i \in DOMAIN c PROVE c[i].code \in Codes(a) \cup Codes(b)
    BY <1>1, <1>2 DEF Codes
  <2> QED
    BY <2>2, <2>3 DEF Codes
<1>5. CASE ~ AllHold(a)
  <2>1. PICK i \in DOMAIN a : ~ a[i].holds /\ \A j \in 1 .. i - 1 : a[j].holds
    BY <1>5, FirstExists
  <2>2. i \in DOMAIN c /\ ~ c[i].holds /\ c[i].code = a[i].code
        /\ \A j \in 1 .. i - 1 : c[j].holds
    BY <1>1, <2>1
  <2>3. FirstFailure(c) = a[i].code /\ FirstFailure(a) = a[i].code
    BY <1>1, <2>1, <2>2, FirstIs
  <2> QED
    BY <1>1, <1>3, <1>4, <1>5, <2>3 DEF c
<1>6. CASE AllHold(a) /\ ~ AllHold(b)
  <2>1. PICK i \in DOMAIN b : ~ b[i].holds /\ \A j \in 1 .. i - 1 : b[j].holds
    BY <1>6, FirstExists
  <2>2. Len(a) + i \in DOMAIN c /\ c[Len(a) + i] = b[i]
    BY <1>1
  <2>3. ASSUME NEW j \in 1 .. Len(a) + i - 1 PROVE c[j].holds
    <3>1. CASE j \in 1 .. Len(a)
      BY <1>1, <1>6, <3>1 DEF AllHold
    <3>2. CASE j \notin 1 .. Len(a)
      <4>1. j - Len(a) \in 1 .. i - 1 /\ j = Len(a) + (j - Len(a))
            /\ j - Len(a) \in 1 .. Len(b)
        BY <1>1, <3>2
      <4> QED
        BY <1>1, <2>1, <4>1
    <3> QED
      BY <3>1, <3>2
  <2>4. FirstFailure(c) = b[i].code /\ FirstFailure(b) = b[i].code
    BY <1>1, <2>1, <2>2, <2>3, FirstIs
  <2> QED
    BY <1>1, <1>3, <1>4, <1>6, <2>4 DEF c
<1>7. CASE AllHold(a) /\ AllHold(b)
  <2>1. FirstFailure(c) = "none" /\ FirstFailure(b) = "none"
    BY <1>1, <1>3, <1>7, NoneMeansAll
  <2> QED
    BY <1>1, <1>3, <1>4, <1>7, <2>1 DEF c
<1> QED
  BY <1>5, <1>6, <1>7

------------------------------------------------------------------------------
(* The lists of the two verifiers *)

LEMMA StepNamed ==
    ASSUME NEW code \in StepCodes, NEW holds \in BOOLEAN
    PROVE  /\ Step(code, holds) \in NamedStep
           /\ Step(code, holds).code = code
           /\ Step(code, holds).holds = holds
BY DEF Step, NamedStep

LEMMA OneStep ==
    ASSUME NEW a \in NamedStep
    PROVE  /\ <<a>> \in OrderedSteps
           /\ AllHold(<<a>>) <=> a.holds
           /\ Codes(<<a>>) = {a.code}
<1>1. <<a>> \in OrderedSteps
  BY DEF OrderedSteps
<1>2. AllHold(<<a>>) <=> a.holds
  BY DEF AllHold
<1>3. Codes(<<a>>) = {a.code}
  BY DEF Codes
<1> QED
  BY <1>1, <1>2, <1>3

LEMMA FourSteps ==
    ASSUME NEW a \in NamedStep, NEW b \in NamedStep, NEW c \in NamedStep, NEW d \in NamedStep
    PROVE  /\ <<a, b, c, d>> \in OrderedSteps
           /\ AllHold(<<a, b, c, d>>) <=> a.holds /\ b.holds /\ c.holds /\ d.holds
           /\ Codes(<<a, b, c, d>>) = {a.code, b.code, c.code, d.code}
<1>1. <<a, b, c, d>> \in OrderedSteps
  BY DEF OrderedSteps
<1>2. AllHold(<<a, b, c, d>>) <=> a.holds /\ b.holds /\ c.holds /\ d.holds
  BY DEF AllHold
<1>3. Codes(<<a, b, c, d>>) = {a.code, b.code, c.code, d.code}
  BY DEF Codes
<1> QED
  BY <1>1, <1>2, <1>3

LEMMA FiveSteps ==
    ASSUME NEW a \in NamedStep, NEW b \in NamedStep, NEW c \in NamedStep, NEW d \in NamedStep,
           NEW e \in NamedStep
    PROVE  /\ <<a, b, c, d, e>> \in OrderedSteps
           /\ AllHold(<<a, b, c, d, e>>)
                <=> a.holds /\ b.holds /\ c.holds /\ d.holds /\ e.holds
           /\ Codes(<<a, b, c, d, e>>) = {a.code, b.code, c.code, d.code, e.code}
<1>1. <<a, b, c, d, e>> \in OrderedSteps
  BY DEF OrderedSteps
<1>2. AllHold(<<a, b, c, d, e>>) <=> a.holds /\ b.holds /\ c.holds /\ d.holds /\ e.holds
  BY DEF AllHold
<1>3. Codes(<<a, b, c, d, e>>) = {a.code, b.code, c.code, d.code, e.code}
  BY DEF Codes
<1> QED
  BY <1>1, <1>2, <1>3

FormSteps(r) ==
  << Step("receipt.size_limit", r.body # "oversized"),
     Step("receipt.raw_json", r.form # "repeated member"),
     Step("receipt.non_canonical", r.form # "spaced"),
     Step("receipt.schema", r.form # "fraction" /\ r.body # "off schema") >>

\* What the checks of the octets and of the schema leave.
WellFormed(r) ==
  /\ r.form \notin {"repeated member", "spaced", "fraction"}
  /\ r.body \notin {"oversized", "off schema"}

LEMMA FormList ==
    ASSUME NEW r
    PROVE  /\ FormSteps(r) \in OrderedSteps
           /\ AllHold(FormSteps(r)) <=> WellFormed(r)
           /\ Codes(FormSteps(r)) = FormCodes
<1> DEFINE a == Step("receipt.size_limit", r.body # "oversized")
           b == Step("receipt.raw_json", r.form # "repeated member")
           c == Step("receipt.non_canonical", r.form # "spaced")
           e == Step("receipt.schema", r.form # "fraction" /\ r.body # "off schema")
<1>1. FormSteps(r) = <<a, b, c, e>>
  BY DEF FormSteps
<1>2. a \in NamedStep /\ a.code = "receipt.size_limit" /\ (a.holds <=> r.body # "oversized")
  <2>1. "receipt.size_limit" \in StepCodes
    BY DEF StepCodes, FormCodes
  <2>2. (r.body # "oversized") \in BOOLEAN
    OBVIOUS
  <2> QED
    BY <2>1, <2>2, StepNamed
<1>3. b \in NamedStep /\ b.code = "receipt.raw_json" /\ (b.holds <=> r.form # "repeated member")
  <2>1. "receipt.raw_json" \in StepCodes
    BY DEF StepCodes, FormCodes
  <2>2. (r.form # "repeated member") \in BOOLEAN
    OBVIOUS
  <2> QED
    BY <2>1, <2>2, StepNamed
<1>4. c \in NamedStep /\ c.code = "receipt.non_canonical" /\ (c.holds <=> r.form # "spaced")
  <2>1. "receipt.non_canonical" \in StepCodes
    BY DEF StepCodes, FormCodes
  <2>2. (r.form # "spaced") \in BOOLEAN
    OBVIOUS
  <2> QED
    BY <2>1, <2>2, StepNamed
<1>5. e \in NamedStep /\ e.code = "receipt.schema" /\ (e.holds <=> r.form # "fraction" /\ r.body # "off schema")
  <2>1. "receipt.schema" \in StepCodes
    BY DEF StepCodes, FormCodes
  <2>2. (r.form # "fraction" /\ r.body # "off schema") \in BOOLEAN
    OBVIOUS
  <2> QED
    BY <2>1, <2>2, StepNamed
<1> HIDE DEF a, b, c, e
<1>6. /\ FormSteps(r) \in OrderedSteps
      /\ AllHold(FormSteps(r)) <=> a.holds /\ b.holds /\ c.holds /\ e.holds
      /\ Codes(FormSteps(r)) = {a.code, b.code, c.code, e.code}
  <2>1. a \in NamedStep /\ b \in NamedStep /\ c \in NamedStep /\ e \in NamedStep
    BY <1>2, <1>3, <1>4, <1>5
  <2> QED
    BY <1>1, <2>1, FourSteps
<1>7. Codes(FormSteps(r)) = FormCodes
  <2>1. FormCodes = {a.code, b.code, c.code, e.code}
    BY <1>2, <1>3, <1>4, <1>5 DEF FormCodes
  <2> QED
    BY <1>6, <2>1
<1>8. AllHold(FormSteps(r)) <=> WellFormed(r)
  BY <1>2, <1>3, <1>4, <1>5, <1>6 DEF WellFormed
<1> QED
  BY <1>6, <1>7, <1>8

LEMMA StructureList ==
    ASSUME NEW r
    PROVE  /\ StructureSteps(r) \in OrderedSteps
           /\ AllHold(StructureSteps(r))
                <=> /\ PathsDistinct(r) /\ FilesDisjoint(r)
                    /\ LinksTransmitted(r) /\ LinkedFilesLinked(r)
                    /\ r.deliveredAt <= r.issuedAt
           /\ Codes(StructureSteps(r)) = StructureCodes
<1> DEFINE a == Step("receipt.duplicate_path", PathsDistinct(r))
           b == Step("receipt.file_overlap", FilesDisjoint(r))
           c == Step("receipt.media_link_untransmitted", LinksTransmitted(r))
           d == Step("receipt.media_link_missing", LinkedFilesLinked(r))
           e == Step("receipt.timestamp_order", r.deliveredAt <= r.issuedAt)
<1>1. StructureSteps(r) = <<a, b, c, d, e>>
  BY DEF StructureSteps
<1>2. a \in NamedStep /\ a.code = "receipt.duplicate_path" /\ (a.holds <=> PathsDistinct(r))
  <2>1. "receipt.duplicate_path" \in StepCodes
    BY DEF StepCodes, StructureCodes
  <2>2. (PathsDistinct(r)) \in BOOLEAN
    BY DEF PathsDistinct
  <2> QED
    BY <2>1, <2>2, StepNamed
<1>3. b \in NamedStep /\ b.code = "receipt.file_overlap" /\ (b.holds <=> FilesDisjoint(r))
  <2>1. "receipt.file_overlap" \in StepCodes
    BY DEF StepCodes, StructureCodes
  <2>2. (FilesDisjoint(r)) \in BOOLEAN
    BY DEF FilesDisjoint
  <2> QED
    BY <2>1, <2>2, StepNamed
<1>4. c \in NamedStep /\ c.code = "receipt.media_link_untransmitted" /\ (c.holds <=> LinksTransmitted(r))
  <2>1. "receipt.media_link_untransmitted" \in StepCodes
    BY DEF StepCodes, StructureCodes
  <2>2. (LinksTransmitted(r)) \in BOOLEAN
    BY DEF LinksTransmitted
  <2> QED
    BY <2>1, <2>2, StepNamed
<1>5. d \in NamedStep /\ d.code = "receipt.media_link_missing" /\ (d.holds <=> LinkedFilesLinked(r))
  <2>1. "receipt.media_link_missing" \in StepCodes
    BY DEF StepCodes, StructureCodes
  <2>2. (LinkedFilesLinked(r)) \in BOOLEAN
    BY DEF LinkedFilesLinked
  <2> QED
    BY <2>1, <2>2, StepNamed
<1>6. e \in NamedStep /\ e.code = "receipt.timestamp_order" /\ (e.holds <=> r.deliveredAt <= r.issuedAt)
  <2>1. "receipt.timestamp_order" \in StepCodes
    BY DEF StepCodes, StructureCodes
  <2>2. (r.deliveredAt <= r.issuedAt) \in BOOLEAN
    OBVIOUS
  <2> QED
    BY <2>1, <2>2, StepNamed
<1> HIDE DEF a, b, c, d, e
<1> QED
  BY <1>1, <1>2, <1>3, <1>4, <1>5, <1>6, FiveSteps DEF StructureCodes

LEMMA ReceiptList ==
    ASSUME NEW r
    PROVE  /\ ReceiptSteps(r) \in OrderedSteps
           /\ AllHold(ReceiptSteps(r))
                <=> WellFormed(r) /\ AllHold(StructureSteps(r))
           /\ Codes(ReceiptSteps(r)) = FormCodes \cup StructureCodes
<1>1. ReceiptSteps(r) = FormSteps(r) \o StructureSteps(r)
  BY DEF ReceiptSteps, FormSteps
<1>2. FormSteps(r) \in OrderedSteps /\ StructureSteps(r) \in OrderedSteps
  BY FormList, StructureList
<1>3. /\ ReceiptSteps(r) \in OrderedSteps
      /\ AllHold(ReceiptSteps(r)) <=> AllHold(FormSteps(r)) /\ AllHold(StructureSteps(r))
      /\ Codes(ReceiptSteps(r)) = Codes(FormSteps(r)) \cup Codes(StructureSteps(r))
  BY <1>1, <1>2, FirstOfBoth
<1> QED
  BY <1>3, FormList, StructureList

LEMMA KeySetList ==
    ASSUME NEW d
    PROVE  /\ KeySetSteps(d) \in OrderedSteps
           /\ AllHold(KeySetSteps(d))
                <=> /\ KeySetInSchema(d)
                    /\ KeyNamesDistinct(d)
                    /\ \A key \in d.keys : key.status = "retired" => key.notAfter # NoEnd
                    /\ \A key \in d.keys : key.notAfter > key.notBefore
                    /\ \A key \in d.keys : key.written = "exactly"
           /\ Codes(KeySetSteps(d)) = KeySetCodes
<1> DEFINE ended == \A key \in d.keys : key.status = "retired" => key.notAfter # NoEnd
           windows == \A key \in d.keys : key.notAfter > key.notBefore
           exact == \A key \in d.keys : key.written = "exactly"
<1> DEFINE s1 == Step("keys.schema", KeySetInSchema(d))
           s2 == Step("keys.duplicate_key_id", KeyNamesDistinct(d))
           s3 == Step("keys.retired_without_end", ended)
           s4 == Step("keys.window_order", windows)
           s5 == Step("keys.encoding", exact)
<1>1. KeySetSteps(d) = <<s1, s2, s3, s4, s5>>
  BY DEF KeySetSteps
<1>2. s1 \in NamedStep /\ s1.code = "keys.schema" /\ (s1.holds <=> KeySetInSchema(d))
  <2>1. "keys.schema" \in StepCodes
    BY DEF StepCodes, KeySetCodes
  <2>2. (KeySetInSchema(d)) \in BOOLEAN
    BY DEF KeySetInSchema
  <2> QED
    BY <2>1, <2>2, StepNamed
<1>3. s2 \in NamedStep /\ s2.code = "keys.duplicate_key_id" /\ (s2.holds <=> KeyNamesDistinct(d))
  <2>1. "keys.duplicate_key_id" \in StepCodes
    BY DEF StepCodes, KeySetCodes
  <2>2. (KeyNamesDistinct(d)) \in BOOLEAN
    BY DEF KeyNamesDistinct
  <2> QED
    BY <2>1, <2>2, StepNamed
<1>4. s3 \in NamedStep /\ s3.code = "keys.retired_without_end" /\ (s3.holds <=> ended)
  <2>1. "keys.retired_without_end" \in StepCodes
    BY DEF StepCodes, KeySetCodes
  <2>2. (ended) \in BOOLEAN
    OBVIOUS
  <2> QED
    BY <2>1, <2>2, StepNamed
<1>5. s4 \in NamedStep /\ s4.code = "keys.window_order" /\ (s4.holds <=> windows)
  <2>1. "keys.window_order" \in StepCodes
    BY DEF StepCodes, KeySetCodes
  <2>2. (windows) \in BOOLEAN
    OBVIOUS
  <2> QED
    BY <2>1, <2>2, StepNamed
<1>6. s5 \in NamedStep /\ s5.code = "keys.encoding" /\ (s5.holds <=> exact)
  <2>1. "keys.encoding" \in StepCodes
    BY DEF StepCodes, KeySetCodes
  <2>2. (exact) \in BOOLEAN
    OBVIOUS
  <2> QED
    BY <2>1, <2>2, StepNamed
<1> HIDE DEF s1, s2, s3, s4, s5, ended, windows, exact
<1>7. /\ KeySetSteps(d) \in OrderedSteps
      /\ AllHold(KeySetSteps(d))
           <=> KeySetInSchema(d) /\ KeyNamesDistinct(d) /\ ended /\ windows /\ exact
      /\ Codes(KeySetSteps(d)) = KeySetCodes
  BY <1>1, <1>2, <1>3, <1>4, <1>5, <1>6, FiveSteps DEF KeySetCodes
<1> QED
  BY <1>7 DEF ended, windows, exact

LEMMA SignatureList ==
    ASSUME NEW r, NEW d
    PROVE  /\ SignatureSteps(r, d) \in OrderedSteps
           /\ AllHold(SignatureSteps(r, d))
                <=> /\ r.organization = d.organization
                    /\ Named(r, d) # {}
                    /\ \A key \in Named(r, d) : InWindow(r, key)
                    /\ \A key \in Named(r, d) : Admissible(key.point)
                    /\ Admissible(r.signature.point)
                    /\ r.signature.scalar = "reduced"
                    /\ \A key \in Named(r, d) :
                         EquationHolds(r.signature, ReceiptSigningMessage(Unsigned(r)), key)
           /\ Codes(SignatureSteps(r, d)) = SignatureCodes
           /\ FirstFailure(SignatureSteps(r, d)) = "key.unknown"
                <=> r.organization = d.organization /\ Named(r, d) = {}
<1> DEFINE open == \A key \in Named(r, d) : InWindow(r, key)
           points == \A key \in Named(r, d) : Admissible(key.point)
           equation == \A key \in Named(r, d) :
                         EquationHolds(r.signature, ReceiptSigningMessage(Unsigned(r)), key)
           s == SignatureSteps(r, d)
<1> DEFINE t == Step("key.organization_mismatch", r.organization = d.organization)
           u == Step("key.unknown", Named(r, d) # {})
           v == Step("key.outside_validity", open)
           w == Step("key.not_admissible", points)
           x == Step("signature.r_not_admissible", Admissible(r.signature.point))
           y == Step("signature.s_non_canonical", r.signature.scalar = "reduced")
           z == Step("signature.mismatch", equation)
<1>1. s = <<t, u, v, w, x, y, z>>
  BY DEF SignatureSteps
<1>2. t \in NamedStep /\ t.code = "key.organization_mismatch" /\ (t.holds <=> r.organization = d.organization)
  <2>1. "key.organization_mismatch" \in StepCodes
    BY DEF StepCodes, SignatureCodes
  <2>2. (r.organization = d.organization) \in BOOLEAN
    OBVIOUS
  <2> QED
    BY <2>1, <2>2, StepNamed
<1>3. u \in NamedStep /\ u.code = "key.unknown" /\ (u.holds <=> Named(r, d) # {})
  <2>1. "key.unknown" \in StepCodes
    BY DEF StepCodes, SignatureCodes
  <2>2. (Named(r, d) # {}) \in BOOLEAN
    OBVIOUS
  <2> QED
    BY <2>1, <2>2, StepNamed
<1>4. v \in NamedStep /\ v.code = "key.outside_validity" /\ (v.holds <=> open)
  <2>1. "key.outside_validity" \in StepCodes
    BY DEF StepCodes, SignatureCodes
  <2>2. (open) \in BOOLEAN
    OBVIOUS
  <2> QED
    BY <2>1, <2>2, StepNamed
<1>5. w \in NamedStep /\ w.code = "key.not_admissible" /\ (w.holds <=> points)
  <2>1. "key.not_admissible" \in StepCodes
    BY DEF StepCodes, SignatureCodes
  <2>2. (points) \in BOOLEAN
    OBVIOUS
  <2> QED
    BY <2>1, <2>2, StepNamed
<1>6. x \in NamedStep /\ x.code = "signature.r_not_admissible" /\ (x.holds <=> Admissible(r.signature.point))
  <2>1. "signature.r_not_admissible" \in StepCodes
    BY DEF StepCodes, SignatureCodes
  <2>2. (Admissible(r.signature.point)) \in BOOLEAN
    BY DEF Admissible
  <2> QED
    BY <2>1, <2>2, StepNamed
<1>7. y \in NamedStep /\ y.code = "signature.s_non_canonical" /\ (y.holds <=> r.signature.scalar = "reduced")
  <2>1. "signature.s_non_canonical" \in StepCodes
    BY DEF StepCodes, SignatureCodes
  <2>2. (r.signature.scalar = "reduced") \in BOOLEAN
    OBVIOUS
  <2> QED
    BY <2>1, <2>2, StepNamed
<1>8. z \in NamedStep /\ z.code = "signature.mismatch" /\ (z.holds <=> equation)
  <2>1. "signature.mismatch" \in StepCodes
    BY DEF StepCodes, SignatureCodes
  <2>2. (equation) \in BOOLEAN
    OBVIOUS
  <2> QED
    BY <2>1, <2>2, StepNamed
<1> HIDE DEF t, u, v, w, x, y, z
<1> HIDE DEF open, points, equation, s
<1>9. s \in OrderedSteps
  BY <1>1, <1>2, <1>3, <1>4, <1>5, <1>6, <1>7, <1>8 DEF OrderedSteps
<1>10. /\ DOMAIN s = 1 .. 7
       /\ s[1] = t /\ s[2] = u /\ s[3] = v /\ s[4] = w /\ s[5] = x /\ s[6] = y /\ s[7] = z
  BY <1>1
<1>11. AllHold(s)
         <=> /\ r.organization = d.organization /\ Named(r, d) # {} /\ open /\ points
             /\ Admissible(r.signature.point) /\ r.signature.scalar = "reduced" /\ equation
  <2>1. AllHold(s) <=> /\ t.holds /\ u.holds /\ v.holds /\ w.holds
                       /\ x.holds /\ y.holds /\ z.holds
    BY <1>10 DEF AllHold
  <2> QED
    BY <1>2, <1>3, <1>4, <1>5, <1>6, <1>7, <1>8, <2>1
<1>12. Codes(s) = SignatureCodes
  <2>1. Codes(s) = {t.code, u.code, v.code, w.code, x.code, y.code, z.code}
    BY <1>10 DEF Codes
  <2> QED
    BY <1>2, <1>3, <1>4, <1>5, <1>6, <1>7, <1>8, <2>1 DEF SignatureCodes
<1>13. FirstFailure(s) = "key.unknown" <=> r.organization = d.organization /\ Named(r, d) = {}
  <2>1. CASE AllHold(s)
    BY <1>9, <1>11, <2>1, NoneMeansAll
  <2>2. CASE ~ AllHold(s)
    <3>1. PICK i \in DOMAIN s : ~ s[i].holds /\ \A j \in 1 .. i - 1 : s[j].holds
      BY <1>9, <2>2, FirstExists
    <3>2. FirstFailure(s) = s[i].code
      BY <1>9, <3>1, FirstIs
    <3>3. i \in 1 .. 7
      BY <1>10
    <3>4. s[i].code = "key.unknown" <=> i = 2
      BY <1>2, <1>3, <1>4, <1>5, <1>6, <1>7, <1>8, <1>10, <3>3
    <3>5. i = 2 => t.holds /\ ~ u.holds
      BY <1>10, <3>1
    <3>6. t.holds /\ ~ u.holds => i = 2
      BY <1>10, <3>1, <3>3
    <3> QED
      BY <1>2, <1>3, <3>2, <3>4, <3>5, <3>6
  <2> QED
    BY <2>1, <2>2
<1> QED
  BY <1>9, <1>11, <1>12, <1>13 DEF s, open, points, equation

\* The class a receipt is given, by the first of the four lists that fails.
Readable(r) == AllHold(ReceiptSteps(r)) /\ r.signature.written = "exactly"

LEMMA VerdictIs ==
    ASSUME NEW r, NEW d
    PROVE  Verdict(r, d)
             = IF ~ Readable(r) THEN "unreadable"
               ELSE IF ~ AllHold(KeySetSteps(d)) THEN "refused"
               ELSE IF AllHold(SignatureSteps(r, d)) THEN "valid"
               ELSE IF r.organization = d.organization /\ Named(r, d) = {} THEN "unknown-key"
               ELSE "invalid"
<1> DEFINE encoding == << Step("signature.encoding", r.signature.written = "exactly") >>
           receipt == ReceiptSteps(r)
           set == KeySetSteps(d)
           signature == SignatureSteps(r, d)
           code == VerifyProjectionReceiptSignature(r, d)
<1>1. /\ encoding \in OrderedSteps
      /\ AllHold(encoding) <=> r.signature.written = "exactly"
      /\ Codes(encoding) = {"signature.encoding"}
  <2>1. "signature.encoding" \in StepCodes
    BY DEF StepCodes
  <2> QED
    BY <2>1, StepNamed, OneStep
<1>2. code = FirstFailure(((receipt \o encoding) \o set) \o signature)
  BY DEF VerifyProjectionReceiptSignature
<1>3. receipt \in OrderedSteps /\ set \in OrderedSteps /\ signature \in OrderedSteps
  BY ReceiptList, KeySetList, SignatureList
<1> HIDE DEF encoding, code
<1>4. /\ receipt \o encoding \in OrderedSteps
      /\ AllHold(receipt \o encoding) <=> Readable(r)
      /\ Codes(receipt \o encoding) = Codes(receipt) \cup {"signature.encoding"}
  BY <1>1, <1>3, FirstOfBoth DEF Readable
<1>5. /\ (receipt \o encoding) \o set \in OrderedSteps
      /\ AllHold((receipt \o encoding) \o set) <=> Readable(r) /\ AllHold(set)
      /\ FirstFailure((receipt \o encoding) \o set)
           = IF Readable(r) THEN FirstFailure(set) ELSE FirstFailure(receipt \o encoding)
  BY <1>3, <1>4, FirstOfBoth
<1>6. code = IF ~ Readable(r) THEN FirstFailure(receipt \o encoding)
             ELSE IF ~ AllHold(set) THEN FirstFailure(set)
             ELSE FirstFailure(signature)
  BY <1>2, <1>3, <1>5, FirstOfBoth
<1>7. Verdict(r, d)
        = IF code = "none" THEN "valid"
          ELSE IF code \in Codes(receipt) \cup {"signature.encoding"} THEN "unreadable"
          ELSE IF code \in Codes(set) THEN "refused"
          ELSE IF code = "key.unknown" THEN "unknown-key"
          ELSE "invalid"
  BY DEF Verdict, code
<1>8. /\ Codes(receipt) = FormCodes \cup StructureCodes
      /\ Codes(set) = KeySetCodes
      /\ Codes(signature) = SignatureCodes
  BY ReceiptList, KeySetList, SignatureList
<1> HIDE DEF receipt, set, signature
<1>9. CASE ~ Readable(r)
  <2>1. code # "none" /\ code \in Codes(receipt) \cup {"signature.encoding"}
    BY <1>4, <1>6, <1>9, NoneMeansAll
  <2> QED
    BY <1>7, <1>9, <2>1
<1>10. CASE Readable(r) /\ ~ AllHold(set)
  <2>1. code # "none" /\ code \in Codes(set)
    BY <1>3, <1>6, <1>10, NoneMeansAll
  <2>2. code \notin Codes(receipt) \cup {"signature.encoding"}
    BY <1>8, <2>1, CodesApart
  <2> QED
    BY <1>7, <1>10, <2>1, <2>2 DEF set
<1>11. CASE Readable(r) /\ AllHold(set) /\ AllHold(signature)
  <2>1. code = "none"
    BY <1>3, <1>6, <1>11, NoneMeansAll
  <2> QED
    BY <1>7, <1>11, <2>1 DEF set, signature
<1>12. CASE Readable(r) /\ AllHold(set) /\ ~ AllHold(signature)
  <2>1. code = FirstFailure(signature) /\ code # "none" /\ code \in Codes(signature)
    BY <1>3, <1>6, <1>12, NoneMeansAll
  <2>2. code \notin Codes(receipt) \cup {"signature.encoding"} /\ code \notin Codes(set)
    BY <1>8, <2>1, CodesApart
  <2>3. code = "key.unknown" <=> r.organization = d.organization /\ Named(r, d) = {}
    BY <2>1, SignatureList DEF signature
  <2> QED
    BY <1>7, <1>12, <2>1, <2>2, <2>3 DEF set, signature
<1> QED
  BY <1>9, <1>10, <1>11, <1>12 DEF set, signature

------------------------------------------------------------------------------
(* Signed documents and their edits *)

ReceiptMembers ==
  {"organization", "keyId", "deliveredAt", "issuedAt", "body", "transmitted", "withheld", "mediaLinks"}

SignatureOf(r, family) ==
  [ by |-> r.keyId, over |-> [ domain |-> family, document |-> Unsigned(r) ],
    point |-> "prime order", scalar |-> "reduced", written |-> "exactly" ]

\* A document of a family as its organization signed it.
SignedAs(r, family) ==
  /\ r = [ member \in ReceiptMembers \cup {"form", "signature"} |-> r[member] ]
  /\ r.form = "canonical"
  /\ r.signature = SignatureOf(r, family)

LEMMA SignedIs ==
    ASSUME NEW o, NEW k, NEW delivery, NEW delivered, NEW family,
           NEW u, u = ReceiptOf(o, k, delivery, delivered),
           NEW r, r = Sign(u, k, [ domain |-> family, document |-> u ])
    PROVE  /\ SignedAs(r, family)
           /\ r.organization = o /\ r.keyId = k
           /\ r.deliveredAt = delivered /\ r.issuedAt = time /\ r.body = "sound"
           /\ r.transmitted = delivery.transmitted
           /\ r.withheld = delivery.withheld
           /\ r.mediaLinks = delivery.mediaLinks
<1>1. /\ DOMAIN u = ReceiptMembers
      /\ u = [ member \in ReceiptMembers |-> u[member] ]
      /\ u.organization = o /\ u.keyId = k /\ u.deliveredAt = delivered /\ u.issuedAt = time
      /\ u.body = "sound"
      /\ u.transmitted = delivery.transmitted /\ u.withheld = delivery.withheld
      /\ u.mediaLinks = delivery.mediaLinks
  BY DEF ReceiptOf, ReceiptMembers
<1>2. /\ "form" \notin ReceiptMembers /\ "signature" \notin ReceiptMembers
      /\ (ReceiptMembers \cup {"form", "signature"}) \ {"form", "signature"} = ReceiptMembers
  BY DEF ReceiptMembers
<1> DEFINE signature == [ by |-> k, over |-> [ domain |-> family, document |-> u ],
                          point |-> "prime order", scalar |-> "reduced",
                          written |-> "exactly" ]
<1>3. r = [ member \in ReceiptMembers \cup {"form", "signature"} |->
              CASE member = "form" -> "canonical"
                [] member = "signature" -> signature
                [] OTHER -> u[member] ]
  BY <1>1 DEF Sign
<1> HIDE DEF signature
<1>4. /\ r = [ member \in ReceiptMembers \cup {"form", "signature"} |-> r[member] ]
      /\ DOMAIN r = ReceiptMembers \cup {"form", "signature"}
      /\ r["form"] = "canonical" /\ r["signature"] = signature
      /\ \A member \in ReceiptMembers : r[member] = u[member]
  BY <1>2, <1>3
<1>5. Unsigned(r) = [ member \in ReceiptMembers |-> u[member] ]
  BY <1>2, <1>4 DEF Unsigned
<1>6. Unsigned(r) = u
  BY <1>1, <1>5
<1>7. /\ r.organization = o /\ r.keyId = k
      /\ r.deliveredAt = delivered /\ r.issuedAt = time /\ r.body = "sound"
      /\ r.transmitted = delivery.transmitted
      /\ r.withheld = delivery.withheld
      /\ r.mediaLinks = delivery.mediaLinks
  BY <1>1, <1>4 DEF ReceiptMembers
<1>8. r.signature = SignatureOf(r, family)
  BY <1>4, <1>6, <1>7 DEF signature, SignatureOf
<1> QED
  BY <1>4, <1>7, <1>8 DEF SignedAs

\* What an edit does: the octets no longer read as a receipt, the signature
\* itself is spoiled, or a signed member is written over.
Spoiled(e) ==
  \/ e.form \in {"spaced", "repeated member", "fraction"}
  \/ e.signature.written # "exactly"
  \/ e.signature.point # "prime order"
  \/ e.signature.scalar # "reduced"

Overwritten(e, r) ==
  /\ e = [ member \in ReceiptMembers \cup {"form", "signature"} |-> e[member] ]
  /\ e.form = r.form
  /\ e.signature = r.signature

LEMMA OverwrittenMember ==
    ASSUME NEW r, NEW family, SignedAs(r, family), NEW v, NEW m \in ReceiptMembers
    PROVE  Overwritten([ r EXCEPT ![m] = v ], r)
<1>1. m # "form" /\ m # "signature"
  BY DEF ReceiptMembers
<1> QED
  BY <1>1 DEF SignedAs, Overwritten

LEMMA EditsSpoilOrOverwrite ==
    ASSUME NEW r, NEW family, SignedAs(r, family), NEW e \in EditedReceipts(r)
    PROVE  Spoiled(e) \/ Overwritten(e, r)
<1>1. ASSUME NEW f \in {"spaced", "repeated member", "fraction"},
             e = [ r EXCEPT !.form = f ]
      PROVE  Spoiled(e)
  BY <1>1 DEF Spoiled, SignedAs
<1>2. CASE e \in { [ r EXCEPT !.signature.written = "aliased" ],
                   [ r EXCEPT !.signature.point = "mixed order" ],
                   [ r EXCEPT !.signature.scalar = "unreduced" ] }
  <2>1. "signature" \in DOMAIN r
    BY DEF SignedAs
  <2>2. /\ "written" \in DOMAIN r.signature /\ "point" \in DOMAIN r.signature
        /\ "scalar" \in DOMAIN r.signature
    BY DEF SignedAs, SignatureOf
  <2>3. CASE e = [ r EXCEPT !.signature.written = "aliased" ]
    <3>1. e.signature.written = "aliased"
      BY <2>1, <2>2, <2>3
    <3> QED
      BY <3>1 DEF Spoiled
  <2>4. CASE e = [ r EXCEPT !.signature.point = "mixed order" ]
    <3>1. e.signature.point = "mixed order"
      BY <2>1, <2>2, <2>4
    <3> QED
      BY <3>1 DEF Spoiled
  <2>5. CASE e = [ r EXCEPT !.signature.scalar = "unreduced" ]
    <3>1. e.signature.scalar = "unreduced"
      BY <2>1, <2>2, <2>5
    <3> QED
      BY <3>1 DEF Spoiled
  <2> QED
    BY <1>2, <2>3, <2>4, <2>5
<1>3. \A v :
        /\ Overwritten([ r EXCEPT !.body = v ], r)
        /\ Overwritten([ r EXCEPT !.organization = v ], r)
        /\ Overwritten([ r EXCEPT !.keyId = v ], r)
        /\ Overwritten([ r EXCEPT !.issuedAt = v ], r)
        /\ Overwritten([ r EXCEPT !.transmitted = v ], r)
        /\ Overwritten([ r EXCEPT !.withheld = v ], r)
        /\ Overwritten([ r EXCEPT !.mediaLinks = v ], r)
  BY OverwrittenMember DEF ReceiptMembers
<1>5. CASE e \in { [ r EXCEPT !.transmitted = r.transmitted \o r.transmitted ],
                   [ r EXCEPT !.withheld = PathsOf(r.transmitted) ],
                   [ r EXCEPT !.mediaLinks = r.withheld ],
                   [ r EXCEPT !.mediaLinks = << >> ] }
  BY <1>3, <1>5
<1> DEFINE forms == { [ r EXCEPT !.form = f ] :
                        f \in {"spaced", "repeated member", "fraction"} }
           spoilt == { [ r EXCEPT !.signature.written = "aliased" ],
                       [ r EXCEPT !.signature.point = "mixed order" ],
                       [ r EXCEPT !.signature.scalar = "unreduced" ] }
           bodies == { [ r EXCEPT !.body = b ] : b \in {"off schema", "oversized"} }
           organizations == { [ r EXCEPT !.organization = o ] : o \in Organizations }
           names == { [ r EXCEPT !.keyId = k ] : k \in KeyIds }
           instants == { [ r EXCEPT !.issuedAt = t ] : t \in 0 .. MaxTime }
           lists == { [ r EXCEPT !.transmitted = r.transmitted \o r.transmitted ],
                      [ r EXCEPT !.withheld = PathsOf(r.transmitted) ],
                      [ r EXCEPT !.mediaLinks = r.withheld ],
                      [ r EXCEPT !.mediaLinks = << >> ] }
<1>6. EditedReceipts(r)
        = (((((forms \cup spoilt) \cup bodies) \cup organizations) \cup names) \cup instants) \cup lists
  BY DEF EditedReceipts
<1>7. e \in forms => Spoiled(e)
  BY <1>1
<1>8. /\ e \in bodies => Overwritten(e, r)
      /\ e \in organizations => Overwritten(e, r)
      /\ e \in names => Overwritten(e, r)
      /\ e \in instants => Overwritten(e, r)
  BY <1>3
<1>9. e \in spoilt => Spoiled(e) \/ Overwritten(e, r)
  BY <1>2
<1>10. e \in lists => Spoiled(e) \/ Overwritten(e, r)
  BY <1>5
<1> HIDE DEF forms, spoilt, bodies, organizations, names, instants, lists
<1> QED
  BY <1>6, <1>7, <1>8, <1>9, <1>10

\* A signed member written over leaves the signature over another document.
LEMMA OverwrittenSame ==
    ASSUME NEW r, NEW family, SignedAs(r, family), NEW e, Overwritten(e, r),
           e.signature.over = ReceiptSigningMessage(Unsigned(e))
    PROVE  family = "projection-receipt" /\ e = r
<1>1. e.signature.over = [ domain |-> family, document |-> Unsigned(r) ]
  <2>1. e.signature = SignatureOf(r, family)
    BY DEF SignedAs, Overwritten
  <2>2. SignatureOf(r, family).over = [ domain |-> family, document |-> Unsigned(r) ]
    BY DEF SignatureOf
  <2> QED
    BY <2>1, <2>2
<1>2. family = "projection-receipt" /\ Unsigned(r) = Unsigned(e)
  BY <1>1 DEF ReceiptSigningMessage
<1>3. DOMAIN r = ReceiptMembers \cup {"form", "signature"}
      /\ DOMAIN e = ReceiptMembers \cup {"form", "signature"}
  BY DEF SignedAs, Overwritten
<1>4. \A member \in ReceiptMembers \ {"form", "signature"} : r[member] = e[member]
  BY <1>2, <1>3 DEF Unsigned
<1>5. \A member \in ReceiptMembers \cup {"form", "signature"} : r[member] = e[member]
  BY <1>4 DEF Overwritten
<1>6. e = r
  BY <1>5 DEF SignedAs, Overwritten
<1> QED
  BY <1>2, <1>6

------------------------------------------------------------------------------
(* The inductive invariant *)

KeyRecords ==
  [ keyId : KeyIds, point : {"prime order"}, written : {"exactly"},
    status : {"active", "retired"}, notBefore : 0 .. MaxTime, notAfter : Nat ]

\* An active key has no end, a retired one ends after it began.
Windowed(key) ==
  IF key.status = "active" THEN key.notAfter = NoEnd
  ELSE key.notBefore < key.notAfter /\ key.notAfter <= MaxTime + 1

KeySetSound(keys) ==
  /\ keys \in SUBSET KeyRecords
  /\ \A key \in keys : Windowed(key)
  /\ \A first, second \in keys : first.keyId = second.keyId => first = second

KeysSound ==
  /\ time \in 0 .. MaxTime
  /\ keyring \in [ Organizations -> SUBSET KeyRecords ]
  /\ \A o \in Organizations : KeySetSound(keyring[o])
  /\ \A o \in Organizations : \A key \in keyring[o] : key.notBefore <= time

PublishedSound ==
  \A d \in published :
    /\ d \in [ organization : Organizations, keys : SUBSET KeyRecords, body : {"sound"}, at : 0 .. time ]
    /\ d.keys # {}
    /\ KeySetSound(d.keys)

\* A published key is still in the ring, at most with its end brought forward.
PublishedKept ==
  \A d \in published : \A key \in d.keys : \E now \in keyring[d.organization] :
    /\ now.keyId = key.keyId
    /\ now.notBefore = key.notBefore
    /\ key.notAfter \in {now.notAfter, NoEnd}

IssuedSound ==
  \A r \in issued :
    /\ SignedAs(r, "projection-receipt")
    /\ Readable(r) /\ r.body = "sound"
    /\ r.organization \in Organizations
    /\ r.issuedAt \in 0 .. time

ElsewhereSound == \A r \in elsewhere : SignedAs(r, "acceptance-statement")

\* The key of a receipt stays in the ring, with the receipt in its window.
SignerKept ==
  \A r \in issued : \E key \in keyring[r.organization] :
    key.keyId = r.keyId /\ InWindow(r, key)

IssuedInWindow ==
  \A r \in issued, d \in published :
    r.organization = d.organization =>
      /\ \A key \in Named(r, d) : InWindow(r, key)
      /\ Named(r, d) = {} => d.at <= r.issuedAt

ReceiptInv ==
  /\ KeysSound /\ PublishedSound /\ PublishedKept /\ IssuedSound /\ ElsewhereSound
  /\ SignerKept /\ IssuedInWindow

LEMMA KeyTyped ==
    ASSUME NEW key \in KeyRecords
    PROVE  /\ key.notBefore \in 0 .. MaxTime /\ key.notBefore \in Int
           /\ key.notAfter \in Nat
           /\ key.status \in {"active", "retired"}
           /\ key.point = "prime order" /\ key.written = "exactly"
<1>1. key.notBefore \in 0 .. MaxTime
  BY DEF KeyRecords
<1>2. key.notAfter \in Nat /\ key.status \in {"active", "retired"}
  BY DEF KeyRecords
<1>3. key.point \in {"prime order"} /\ key.written \in {"exactly"}
  BY DEF KeyRecords
<1>4. key.notBefore \in Int
  BY <1>1
<1>5. key.point = "prime order" /\ key.written = "exactly"
  BY <1>3
<1> QED
  BY <1>1, <1>2, <1>4, <1>5

Ended(key, n) == [ key EXCEPT !.status = "retired", !.notAfter = n ]

LEMMA KeyEnded ==
    ASSUME NEW key \in KeyRecords, NEW n \in Nat, NEW ended, ended = Ended(key, n)
    PROVE  /\ ended \in KeyRecords
           /\ ended.status = "retired" /\ ended.keyId = key.keyId
           /\ ended.notBefore = key.notBefore /\ ended.notAfter = n
<1>1. /\ ended.keyId = key.keyId /\ ended.point = key.point /\ ended.written = key.written
      /\ ended.status = "retired" /\ ended.notBefore = key.notBefore /\ ended.notAfter = n
  BY DEF KeyRecords, Ended
<1>2. \A k \in KeyRecords, s \in {"active", "retired"} : [ k EXCEPT !.status = s ] \in KeyRecords
  BY DEF KeyRecords
<1>3. \A k \in KeyRecords : [ k EXCEPT !.notAfter = n ] \in KeyRecords
  BY DEF KeyRecords
<1>4. ended = [ [ key EXCEPT !.status = "retired" ] EXCEPT !.notAfter = n ]
  BY DEF Ended
<1>5. ended \in KeyRecords
  BY <1>2, <1>3, <1>4
<1> QED
  BY <1>1, <1>5

LEMMA ReceiptInitHolds ==
    ReceiptInit => ReceiptInv
<1> SUFFICES ASSUME ReceiptInit PROVE ReceiptInv
  OBVIOUS
<1>1. KeysSound
  BY ReceiptAssumption DEF ReceiptInit, KeysSound, KeySetSound
<1>2. PublishedSound /\ PublishedKept /\ IssuedSound /\ ElsewhereSound
      /\ SignerKept /\ IssuedInWindow
  BY DEF ReceiptInit, PublishedSound, PublishedKept, IssuedSound, ElsewhereSound,
         SignerKept, IssuedInWindow
<1> QED
  BY <1>1, <1>2 DEF ReceiptInv

LEMMA DeliveryReadable ==
    ASSUME NEW delivery \in SoundDeliveries, NEW r,
           r.transmitted = delivery.transmitted, r.withheld = delivery.withheld,
           r.mediaLinks = delivery.mediaLinks, r.deliveredAt <= r.issuedAt, r.body = "sound",
           SignedAs(r, "projection-receipt")
    PROVE  Readable(r)
<1>1. /\ FilesDisjoint(r) /\ LinksTransmitted(r) /\ LinkedFilesLinked(r)
  BY DEF SoundDeliveries, FilesDisjoint, LinksTransmitted, LinkedFilesLinked
<1>2. /\ r.transmitted \in {<< >>} \cup {<<[path |-> p, via |-> v]>> :
                                           p \in Paths, v \in {"content", "link"}}
      /\ r.withheld \in {<< >>} \cup {<<p>> : p \in Paths}
      /\ r.mediaLinks \in {<< >>} \cup {<<p>> : p \in Paths}
  BY DEF SoundDeliveries, Deliveries
<1>3. \A list : DOMAIN list \subseteq {1} => ~ Repeats(list)
  BY DEF Repeats
<1>4. /\ DOMAIN r.transmitted \subseteq {1} /\ DOMAIN r.withheld \subseteq {1}
      /\ DOMAIN r.mediaLinks \subseteq {1}
  BY <1>2
<1>5. DOMAIN PathsOf(r.transmitted) \subseteq {1}
  BY <1>4 DEF PathsOf
<1>6. PathsDistinct(r)
  BY <1>3, <1>4, <1>5 DEF PathsDistinct
<1>7. AllHold(StructureSteps(r))
  BY <1>1, <1>6, StructureList
<1>8. r.form = "canonical" /\ r.signature.written = "exactly"
  <2>1. r.form = "canonical" /\ r.signature = SignatureOf(r, "projection-receipt")
    BY DEF SignedAs
  <2>2. SignatureOf(r, "projection-receipt").written = "exactly"
    BY DEF SignatureOf
  <2> QED
    BY <2>1, <2>2
<1> QED
  BY <1>7, <1>8, ReceiptList DEF Readable, WellFormed

LEMMA IssueKeeps ==
    ASSUME ReceiptInv, NEW o \in Organizations, NEW k \in KeyIds,
           NEW delivery \in SoundDeliveries, NEW delivered \in 0 .. MaxTime,
           Issue(o, k, delivery, delivered)
    PROVE  ReceiptInv'
<1> DEFINE u == ReceiptOf(o, k, delivery, delivered)
           r == Sign(u, k, ReceiptSigningMessage(u))
<1>1. /\ issued' = issued \cup {r}
      /\ UNCHANGED <<time, keyring, published, elsewhere>>
      /\ delivered <= time
  BY DEF Issue
<1>2. PICK key \in keyring[o] : key.keyId = k /\ key.notBefore <= time /\ time < key.notAfter
  BY DEF Issue, Signing
<1>3. /\ SignedAs(r, "projection-receipt")
      /\ r.organization = o /\ r.keyId = k
      /\ r.deliveredAt = delivered /\ r.issuedAt = time /\ r.body = "sound"
      /\ r.transmitted = delivery.transmitted
      /\ r.withheld = delivery.withheld
      /\ r.mediaLinks = delivery.mediaLinks
  BY SignedIs DEF ReceiptSigningMessage
<1> HIDE DEF u, r
<1>4. Readable(r)
  BY <1>1, <1>3, DeliveryReadable
<1>5. InWindow(r, key)
  BY <1>2, <1>3 DEF InWindow
<1>6. /\ time \in 0 .. MaxTime
      /\ KeySetSound(keyring[o])
      /\ keyring[o] \subseteq KeyRecords
  BY DEF ReceiptInv, KeysSound
<1>7. ASSUME NEW d \in published, d.organization = o
      PROVE  /\ \A old \in Named(r, d) : InWindow(r, old)
             /\ d.at <= r.issuedAt
  <2>1. d \in [ organization : Organizations, keys : SUBSET KeyRecords, body : {"sound"}, at : 0 .. time ]
    BY DEF ReceiptInv, PublishedSound
  <2>2. ASSUME NEW old \in Named(r, d) PROVE InWindow(r, old)
    <3>1. old \in d.keys /\ old.keyId = k
      BY <1>3 DEF Named
    <3>2. PICK now \in keyring[o] : /\ now.keyId = k
                                    /\ now.notBefore = old.notBefore
                                    /\ old.notAfter \in {now.notAfter, NoEnd}
      BY <1>7, <3>1 DEF ReceiptInv, PublishedKept
    <3>3. now = key
      BY <1>2, <1>6, <3>2 DEF KeySetSound
    <3>4. time < NoEnd
      BY <1>6, ReceiptAssumption DEF NoEnd
    <3> QED
      BY <1>2, <1>3, <3>2, <3>3, <3>4 DEF InWindow
  <2> QED
    BY <1>3, <2>1, <2>2
<1>8. KeysSound' /\ PublishedSound' /\ PublishedKept' /\ ElsewhereSound'
  BY <1>1 DEF ReceiptInv, KeysSound, PublishedSound, PublishedKept, ElsewhereSound
<1>9. IssuedSound'
  <2>1. r.issuedAt \in 0 .. time
    BY <1>3, <1>6
  <2> QED
    BY <1>1, <1>3, <1>4, <2>1 DEF ReceiptInv, IssuedSound
<1>10. SignerKept'
  BY <1>1, <1>2, <1>3, <1>5 DEF ReceiptInv, SignerKept
<1>11. IssuedInWindow'
  BY <1>1, <1>3, <1>7 DEF ReceiptInv, IssuedInWindow
<1> QED
  BY <1>8, <1>9, <1>10, <1>11 DEF ReceiptInv

LEMMA SignElsewhereKeeps ==
    ASSUME ReceiptInv, NEW o \in Organizations, NEW k \in KeyIds,
           NEW delivery \in SoundDeliveries, SignElsewhere(o, k, delivery)
    PROVE  ReceiptInv'
<1> DEFINE u == ReceiptOf(o, k, delivery, time)
           r == Sign(u, k, [ domain |-> "acceptance-statement", document |-> u ])
<1>1. /\ elsewhere' = elsewhere \cup {r}
      /\ UNCHANGED <<time, keyring, published, issued>>
  BY DEF SignElsewhere
<1>2. SignedAs(r, "acceptance-statement")
  BY SignedIs
<1> HIDE DEF u, r
<1>3. ElsewhereSound'
  BY <1>1, <1>2 DEF ReceiptInv, ElsewhereSound
<1> QED
  BY <1>1, <1>3
     DEF ReceiptInv, KeysSound, PublishedSound, PublishedKept, IssuedSound, SignerKept,
         IssuedInWindow

\* A new set keeps every key, or brings its end forward to after the present.
LEMMA PublishKeeps ==
    ASSUME ReceiptInv, NEW o \in Organizations, NEW keys, Publish(o, keys),
           keys # {}, KeySetSound(keys), \A key \in keys : key.notBefore <= time,
           \A old \in keyring[o] : \E now \in keys :
             /\ now.keyId = old.keyId /\ now.notBefore = old.notBefore
             /\ old.notAfter \in {now.notAfter, NoEnd}
             /\ now = old \/ now.notAfter = time + 1
    PROVE  ReceiptInv'
<1> DEFINE new == [ organization |-> o, keys |-> keys, body |-> "sound", at |-> time ]
<1>1. /\ keyring' = [ keyring EXCEPT ![o] = keys ]
      /\ published' = published \cup {new}
      /\ UNCHANGED <<time, issued, elsewhere>>
  BY DEF Publish
<1>2. /\ keyring \in [ Organizations -> SUBSET KeyRecords ]
      /\ time \in 0 .. MaxTime
      /\ keys \in SUBSET KeyRecords
  BY DEF ReceiptInv, KeysSound, KeySetSound
<1>3. keyring'[o] = keys /\ \A p \in Organizations : p # o => keyring'[p] = keyring[p]
  BY <1>1, <1>2
<1>4. KeysSound'
  <2>1. keyring' \in [ Organizations -> SUBSET KeyRecords ]
    BY <1>1, <1>2
  <2>2. \A p \in Organizations : KeySetSound(keyring'[p])
    BY <1>3 DEF ReceiptInv, KeysSound
  <2>3. \A p \in Organizations : \A key \in keyring'[p] : key.notBefore <= time
    BY <1>3 DEF ReceiptInv, KeysSound
  <2> QED
    BY <1>1, <1>2, <2>1, <2>2, <2>3 DEF KeysSound
<1>5. PublishedSound'
  <2>1. new \in [ organization : Organizations, keys : SUBSET KeyRecords, body : {"sound"}, at : 0 .. time ]
        /\ new.keys = keys
    BY <1>2
  <2> HIDE DEF new
  <2> QED
    BY <1>1, <2>1 DEF ReceiptInv, PublishedSound
<1>6. PublishedKept'
  <2> SUFFICES ASSUME NEW d \in published', NEW key \in d.keys
               PROVE  \E now \in keyring'[d.organization] :
                        /\ now.keyId = key.keyId
                        /\ now.notBefore = key.notBefore
                        /\ key.notAfter \in {now.notAfter, NoEnd}
    BY DEF PublishedKept
  <2>1. CASE d = new
    BY <1>3, <2>1
  <2>2. CASE d \in published
    <3>1. PICK old \in keyring[d.organization] :
            /\ old.keyId = key.keyId
            /\ old.notBefore = key.notBefore
            /\ key.notAfter \in {old.notAfter, NoEnd}
      BY <2>2 DEF ReceiptInv, PublishedKept
    <3>2. CASE d.organization = o
      <4>1. PICK now \in keys : /\ now.keyId = old.keyId /\ now.notBefore = old.notBefore
                                /\ old.notAfter \in {now.notAfter, NoEnd}
        BY <3>1, <3>2
      <4> QED
        BY <1>3, <3>1, <3>2, <4>1
    <3>3. CASE d.organization # o
      <4>1. d.organization \in Organizations
        BY <2>2 DEF ReceiptInv, PublishedSound
      <4> QED
        BY <1>3, <3>1, <3>3, <4>1
    <3> QED
      BY <3>2, <3>3
  <2> QED
    BY <1>1, <2>1, <2>2
<1>7. IssuedSound' /\ ElsewhereSound'
  BY <1>1 DEF ReceiptInv, IssuedSound, ElsewhereSound
<1>8. ASSUME NEW r \in issued, r.organization = o
      PROVE  \E now \in keys : now.keyId = r.keyId /\ InWindow(r, now)
  <2>1. PICK old \in keyring[o] : old.keyId = r.keyId /\ InWindow(r, old)
    BY <1>8 DEF ReceiptInv, SignerKept
  <2>2. PICK now \in keys : /\ now.keyId = old.keyId /\ now.notBefore = old.notBefore
                            /\ now = old \/ now.notAfter = time + 1
    BY <2>1
  <2>3. r.issuedAt \in 0 .. time
    BY DEF ReceiptInv, IssuedSound
  <2>4. InWindow(r, now)
    BY <1>2, <2>1, <2>2, <2>3 DEF InWindow
  <2> QED
    BY <2>1, <2>2, <2>4
<1>9. SignerKept'
  <2> SUFFICES ASSUME NEW r \in issued
               PROVE  \E key \in keyring'[r.organization] : key.keyId = r.keyId /\ InWindow(r, key)
    BY <1>1 DEF SignerKept
  <2>1. CASE r.organization = o
    BY <1>3, <1>8, <2>1
  <2>2. CASE r.organization # o
    BY <1>3, <2>2 DEF ReceiptInv, SignerKept, IssuedSound
  <2> QED
    BY <2>1, <2>2
<1>10. IssuedInWindow'
  <2> SUFFICES ASSUME NEW r \in issued, NEW d \in published', r.organization = d.organization
               PROVE  /\ \A key \in Named(r, d) : InWindow(r, key)
                      /\ Named(r, d) = {} => d.at <= r.issuedAt
    BY <1>1 DEF IssuedInWindow
  <2>1. CASE d \in published
    BY <2>1 DEF ReceiptInv, IssuedInWindow
  <2>2. CASE d = new
    <3>1. d.organization = o /\ d.keys = keys
      BY <2>2
    <3>2. PICK now \in keys : now.keyId = r.keyId /\ InWindow(r, now)
      BY <1>8, <3>1
    <3>3. now \in Named(r, d)
      BY <3>1, <3>2 DEF Named
    <3>4. \A key \in Named(r, d) : key = now
      BY <3>1, <3>2 DEF Named, KeySetSound
    <3> QED
      BY <3>2, <3>3, <3>4
  <2> QED
    BY <1>1, <2>1, <2>2
<1> QED
  BY <1>4, <1>5, <1>6, <1>7, <1>9, <1>10 DEF ReceiptInv

LEMMA AddKeyKeeps ==
    ASSUME ReceiptInv, NEW o \in Organizations, NEW k \in KeyIds, AddKey(o, k)
    PROVE  ReceiptInv'
<1> DEFINE keys == keyring[o] \cup {Key(k)}
<1>1. /\ time \in 0 .. MaxTime
      /\ KeySetSound(keyring[o])
      /\ \A key \in keyring[o] : key.notBefore <= time
  BY DEF ReceiptInv, KeysSound
<1>2. /\ \A key \in keyring[o] : key.keyId # k
      /\ Publish(o, keys)
  BY DEF AddKey
<1>3. NoEnd \in Nat
  BY ReceiptAssumption DEF NoEnd
<1>4. /\ Key(k) \in KeyRecords /\ Windowed(Key(k))
      /\ Key(k).keyId = k /\ Key(k).notBefore <= time
  BY <1>1, <1>3 DEF Key, KeyRecords, Windowed
<1>5. KeySetSound(keys)
  BY <1>1, <1>2, <1>4 DEF KeySetSound
<1>6. \A key \in keys : key.notBefore <= time
  BY <1>1, <1>4
<1>7. keys # {} /\ \A old \in keyring[o] : old \in keys
  OBVIOUS
<1> HIDE DEF keys
<1> QED
  BY <1>2, <1>5, <1>6, <1>7, PublishKeeps

LEMMA RetireKeyKeeps ==
    ASSUME ReceiptInv, NEW o \in Organizations, NEW key \in keyring[o], RetireKey(o, key)
    PROVE  ReceiptInv'
<1> DEFINE ended == [ key EXCEPT !.status = "retired", !.notAfter = time + 1 ]
           keys == (keyring[o] \ {key}) \cup {ended}
<1>1. /\ time \in 0 .. MaxTime
      /\ KeySetSound(keyring[o])
      /\ \A old \in keyring[o] : old.notBefore <= time
      /\ key \in KeyRecords
  BY DEF ReceiptInv, KeysSound, KeySetSound
<1>2. key.status = "active" /\ Publish(o, keys)
  BY DEF RetireKey
<1>3. /\ ended \in KeyRecords
      /\ ended.status = "retired" /\ ended.keyId = key.keyId
      /\ ended.notBefore = key.notBefore /\ ended.notAfter = time + 1
  <2>1. time + 1 \in Nat
    BY <1>1, ReceiptAssumption
  <2>2. ended = Ended(key, time + 1)
    BY DEF Ended
  <2> HIDE DEF ended
  <2> QED
    BY <1>1, <2>1, <2>2, KeyEnded
<1> HIDE DEF ended
<1>4. MaxTime \in Nat /\ key.notBefore \in 0 .. MaxTime
  BY <1>1, ReceiptAssumption, KeyTyped
<1>5. Windowed(ended) /\ ended.notBefore <= time
  BY <1>1, <1>3, <1>4 DEF Windowed
<1>6. KeySetSound(keys)
  BY <1>1, <1>3, <1>5 DEF KeySetSound
<1>7. \A old \in keys : old.notBefore <= time
  BY <1>1, <1>5
<1>8. key.notAfter = NoEnd
  BY <1>1, <1>2 DEF KeySetSound, Windowed
<1>9. ASSUME NEW old \in keyring[o]
      PROVE  \E now \in keys :
               /\ now.keyId = old.keyId /\ now.notBefore = old.notBefore
               /\ old.notAfter \in {now.notAfter, NoEnd}
               /\ now = old \/ now.notAfter = time + 1
  <2>1. CASE old = key
    BY <1>3, <1>8, <2>1
  <2>2. CASE old # key
    BY <2>2
  <2> QED
    BY <2>1, <2>2
<1>10. keys # {}
  OBVIOUS
<1> HIDE DEF keys
<1> QED
  BY <1>2, <1>6, <1>7, <1>9, <1>10, PublishKeeps

LEMMA TickKeeps ==
    ASSUME ReceiptInv, Tick
    PROVE  ReceiptInv'
<1>1. /\ time < MaxTime /\ time' = time + 1 /\ time \in 0 .. MaxTime
      /\ UNCHANGED <<keyring, published, issued, elsewhere>>
  BY DEF Tick, ReceiptInv, KeysSound
<1>2. time' \in 0 .. MaxTime /\ \A n \in Int : n <= time => n <= time'
      /\ 0 .. time \subseteq 0 .. time'
  BY <1>1, ReceiptAssumption
<1>3. KeysSound'
  <2>1. \A o \in Organizations : \A key \in keyring[o] : key.notBefore \in Int
    BY KeyTyped DEF ReceiptInv, KeysSound
  <2> QED
    BY <1>1, <1>2, <2>1 DEF ReceiptInv, KeysSound
<1>4. PublishedSound'
  BY <1>1, <1>2 DEF ReceiptInv, PublishedSound
<1>5. IssuedSound'
  BY <1>1, <1>2 DEF ReceiptInv, IssuedSound
<1> QED
  BY <1>1, <1>3, <1>4, <1>5
     DEF ReceiptInv, PublishedKept, ElsewhereSound, SignerKept, IssuedInWindow

\* The keys, the receipts issued and the verdicts of the verifiers keep the
\* inductive invariant.
THEOREM ReceiptInvariant == ReceiptSpec => []ReceiptInv
<1>1. ReceiptInit => ReceiptInv
  BY ReceiptInitHolds
<1>2. ReceiptInv /\ [ReceiptNext]_receiptVars => ReceiptInv'
  <2> SUFFICES ASSUME ReceiptInv, [ReceiptNext]_receiptVars PROVE ReceiptInv'
    OBVIOUS
  <2>1. CASE \E o \in Organizations, k \in KeyIds, delivery \in SoundDeliveries,
                t \in 0..MaxTime : Issue(o, k, delivery, t)
    BY <2>1, IssueKeeps
  <2>2. CASE \E o \in Organizations, k \in KeyIds, delivery \in SoundDeliveries :
               SignElsewhere(o, k, delivery)
    BY <2>2, SignElsewhereKeeps
  <2>3. CASE \E o \in Organizations, k \in KeyIds : AddKey(o, k)
    BY <2>3, AddKeyKeeps
  <2>4. CASE \E o \in Organizations : \E key \in keyring[o] : RetireKey(o, key)
    BY <2>4, RetireKeyKeeps
  <2>5. CASE Tick
    BY <2>5, TickKeeps
  <2>6. CASE UNCHANGED receiptVars
    BY <2>6 DEF receiptVars, ReceiptInv, KeysSound, PublishedSound, PublishedKept, IssuedSound,
                ElsewhereSound, SignerKept, IssuedInWindow
  <2> QED
    BY <2>1, <2>2, <2>3, <2>4, <2>5, <2>6 DEF ReceiptNext
<1> QED
  BY <1>1, <1>2, PTL DEF ReceiptSpec

------------------------------------------------------------------------------
(* The three properties *)

LEMMA PublishedListHolds ==
    ASSUME ReceiptInv, NEW d \in published
    PROVE  /\ AllHold(KeySetSteps(d))
           /\ \A key \in d.keys : key \in KeyRecords
<1>1. d.keys \in SUBSET KeyRecords /\ KeySetInSchema(d) /\ KeySetSound(d.keys)
  BY DEF ReceiptInv, PublishedSound, KeySetInSchema
<1>2. ASSUME NEW key \in d.keys
      PROVE  /\ key.status = "retired" => key.notAfter # NoEnd
             /\ key.notAfter > key.notBefore
             /\ key.written = "exactly"
  <2>1. key \in KeyRecords /\ Windowed(key)
    BY <1>1 DEF KeySetSound
  <2>2. /\ key.notBefore \in 0 .. MaxTime
        /\ key.notAfter \in Nat
        /\ key.status \in {"active", "retired"}
        /\ key.written = "exactly"
    BY <2>1, KeyTyped
  <2>3. MaxTime \in Nat
    BY ReceiptAssumption
  <2> QED
    BY <2>1, <2>2, <2>3 DEF Windowed, NoEnd
<1>3. KeyNamesDistinct(d)
  BY <1>1 DEF KeySetSound, KeyNamesDistinct
<1> QED
  BY <1>1, <1>2, <1>3, KeySetList

\* A held receipt whose signature is unspoiled and over its own octets was issued.
LEMMA UnspoiledIssued ==
    ASSUME ReceiptInv, NEW e \in HeldReceipts, ~ Spoiled(e),
           e.signature.over = ReceiptSigningMessage(Unsigned(e))
    PROVE  e \in issued
<1>1. ASSUME NEW r, NEW family, SignedAs(r, family), e = r \/ e \in EditedReceipts(r)
      PROVE  family = "projection-receipt" /\ e = r
  <2>1. Overwritten(e, r)
    BY <1>1, EditsSpoilOrOverwrite DEF SignedAs, Overwritten
  <2>2. SignedAs(r, family) /\ e.signature.over = ReceiptSigningMessage(Unsigned(e))
    BY <1>1
  <2> QED
    BY <2>1, <2>2, OverwrittenSame
<1>2. PICK r \in issued \cup elsewhere : e = r \/ e \in EditedReceipts(r)
  BY DEF HeldReceipts
<1>3. CASE r \in issued
  <2>1. SignedAs(r, "projection-receipt")
    BY <1>3 DEF ReceiptInv, IssuedSound
  <2>2. e = r
    BY <1>1, <1>2, <2>1
  <2> QED
    BY <1>3, <2>2
<1>4. CASE r \in elsewhere
  <2>1. SignedAs(r, "acceptance-statement")
    BY <1>4 DEF ReceiptInv, ElsewhereSound
  <2>2. "acceptance-statement" = "projection-receipt"
    BY <1>1, <1>2, <2>1
  <2> QED
    BY <2>2
<1> QED
  BY <1>2, <1>3, <1>4

LEMMA ReceiptInvValid ==
    ReceiptInv => ValidMeansIssued
<1> SUFFICES ASSUME ReceiptInv, NEW e \in HeldReceipts, NEW d \in published,
                    Verdict(e, d) = "valid"
             PROVE  e \in issued /\ e.organization = d.organization
  BY DEF ValidMeansIssued
<1>1. Readable(e) /\ AllHold(SignatureSteps(e, d))
  BY VerdictIs
<1>2. WellFormed(e) /\ e.signature.written = "exactly"
  BY <1>1, ReceiptList DEF Readable
<1>3. /\ e.organization = d.organization
      /\ e.signature.point = "prime order"
      /\ e.signature.scalar = "reduced"
      /\ e.signature.over = ReceiptSigningMessage(Unsigned(e))
  BY <1>1, SignatureList DEF Admissible, EquationHolds
<1>4. ~ Spoiled(e)
  BY <1>2, <1>3 DEF Spoiled, WellFormed
<1> QED
  BY <1>3, <1>4, UnspoiledIssued

LEMMA ReceiptInvStays ==
    ReceiptInv => GenuineStaysValid
<1> SUFFICES ASSUME ReceiptInv, NEW r \in issued, NEW d \in published,
                    r.organization = d.organization
             PROVE  \/ Verdict(r, d) = "valid"
                    \/ Verdict(r, d) = "unknown-key" /\ d.at <= r.issuedAt
  BY DEF GenuineStaysValid
<1>1. Readable(r) /\ SignedAs(r, "projection-receipt")
  BY DEF ReceiptInv, IssuedSound
<1>2. AllHold(KeySetSteps(d)) /\ \A key \in d.keys : key \in KeyRecords
  BY PublishedListHolds
<1>3. /\ \A key \in Named(r, d) : InWindow(r, key)
      /\ Named(r, d) = {} => d.at <= r.issuedAt
  BY DEF ReceiptInv, IssuedInWindow
<1>4. /\ r.signature.by = r.keyId
      /\ r.signature.over = ReceiptSigningMessage(Unsigned(r))
      /\ r.signature.point = "prime order"
      /\ r.signature.scalar = "reduced"
  <2>1. r.signature = SignatureOf(r, "projection-receipt")
    BY <1>1 DEF SignedAs
  <2>2. LET s == SignatureOf(r, "projection-receipt")
        IN  /\ s.by = r.keyId
            /\ s.over = ReceiptSigningMessage(Unsigned(r))
            /\ s.point = "prime order"
            /\ s.scalar = "reduced"
    BY DEF SignatureOf, ReceiptSigningMessage
  <2> QED
    BY <2>1, <2>2
<1>5. \A key \in Named(r, d) :
        /\ Admissible(key.point)
        /\ EquationHolds(r.signature, ReceiptSigningMessage(Unsigned(r)), key)
  BY <1>2, <1>4, KeyTyped DEF Named, Admissible, EquationHolds
<1>6. CASE Named(r, d) = {}
  <2>1. ~ AllHold(SignatureSteps(r, d))
    BY <1>6, SignatureList
  <2> QED
    BY <1>1, <1>2, <1>3, <1>6, <2>1, VerdictIs
<1>7. CASE Named(r, d) # {}
  <2>1. AllHold(SignatureSteps(r, d))
    BY <1>3, <1>4, <1>5, <1>7, SignatureList DEF Admissible
  <2> QED
    BY <1>1, <1>2, <2>1, VerdictIs
<1> QED
  BY <1>6, <1>7

\* The keys of a copied or edited key set are each active or retired.
LEMMA HeldKeySet ==
    ASSUME ReceiptInv, NEW d \in HeldKeySets
    PROVE  \A key \in d.keys : key.status \in {"active", "retired"}
<1>1. ASSUME NEW p \in published
      PROVE  /\ p \in [ organization : Organizations, keys : SUBSET KeyRecords, body : {"sound"}, at : 0 .. time ]
             /\ \A key \in p.keys : key \in KeyRecords /\ key.status \in {"active", "retired"}
  <2>1. /\ p \in [ organization : Organizations, keys : SUBSET KeyRecords, body : {"sound"}, at : 0 .. time ]
        /\ KeySetSound(p.keys)
    BY DEF ReceiptInv, PublishedSound
  <2>2. \A key \in p.keys : key \in KeyRecords
    BY <2>1 DEF KeySetSound
  <2> QED
    BY <2>1, <2>2, KeyTyped
<1>2. CASE d \in published
  BY <1>1, <1>2
<1>3. CASE d \in UNION { EditedKeySets(p) : p \in published }
  <2>1. PICK p \in published : d \in EditedKeySets(p)
    BY <1>3
  <2>2. "keys" \in DOMAIN p /\ p = [ organization |-> p.organization, keys |-> p.keys, body |-> p.body, at |-> p.at ]
    BY <1>1
  <2>3. CASE d \in { [ p EXCEPT !.keys = {} ], [ p EXCEPT !.body = "off schema" ] }
    <3>1. d.keys \subseteq p.keys
      BY <2>2, <2>3
    <3> QED
      BY <1>1, <3>1
  <2>4. CASE d \in UNION { UNION { { [ p EXCEPT !.keys = (p.keys \ {key}) \cup {edited} ],
                                    [ p EXCEPT !.keys = p.keys \cup {edited} ] } :
                                  edited \in EditedKeys(key) } : key \in p.keys }
    <3>1. PICK key \in p.keys : \E edited \in EditedKeys(key) :
            \/ d = [ p EXCEPT !.keys = (p.keys \ {key}) \cup {edited} ]
            \/ d = [ p EXCEPT !.keys = p.keys \cup {edited} ]
      BY <2>4
    <3>2. PICK edited \in EditedKeys(key) :
            \/ d = [ p EXCEPT !.keys = (p.keys \ {key}) \cup {edited} ]
            \/ d = [ p EXCEPT !.keys = p.keys \cup {edited} ]
      BY <3>1
    <3>3. d.keys \in {(p.keys \ {key}) \cup {edited}, p.keys \cup {edited}}
      BY <2>2, <3>2
    <3>4. edited.status = key.status
      BY <1>1 DEF EditedKeys, KeyRecords
    <3> QED
      BY <1>1, <3>3, <3>4
  <2> QED
    BY <2>1, <2>3, <2>4 DEF EditedKeySets
<1> QED
  BY <1>2, <1>3 DEF HeldKeySets

\* Within the contract both verifiers read the same and check the same.
LEMMA SameClass ==
    ASSUME ReceiptInv, NEW r \in HeldReceipts, NEW d \in HeldKeySets, InContract(r), KeySetInSchema(d)
    PROVE  Verdict(r, d) = Classify(r, d)
<1>1. AllHold(StructureSteps(r))
  BY StructureList, NoneMeansAll DEF InContract
<1>2. Readable(r) <=> OracleReadsReceipt(r)
  BY <1>1, ReceiptList DEF Readable, OracleReadsReceipt, WellFormed, InContract
<1>3. AllHold(KeySetSteps(d)) <=> OracleReadsKeySet(d)
  <2>1. \A key \in d.keys : key.status \in {"active", "retired"}
    BY HeldKeySet
  <2> QED
    BY <2>1, KeySetList DEF OracleReadsKeySet, OracleReadsKey
<1>4. AllHold(SignatureSteps(r, d))
        <=> /\ r.organization = d.organization
            /\ Named(r, d) # {}
            /\ \A key \in Named(r, d) : OracleAccepts(r, key)
  <2>1. \A key : OracleAccepts(r, key)
          <=> /\ InWindow(r, key)
              /\ Admissible(key.point) /\ Admissible(r.signature.point)
              /\ r.signature.scalar = "reduced"
              /\ EquationHolds(r.signature, ReceiptSigningMessage(Unsigned(r)), key)
    BY DEF OracleAccepts, VerifyStrict, EquationHolds, Admissible
  <2> QED
    BY <2>1, SignatureList
<1> QED
  BY <1>2, <1>3, <1>4, VerdictIs DEF Classify

\* What the oracle calls valid was issued, so it is within the contract.
LEMMA ReceiptInvAgree ==
    ReceiptInv => VerifiersAgree
<1> SUFFICES ASSUME ReceiptInv, NEW r \in HeldReceipts, NEW d \in HeldKeySets,
                    Classify(r, d) = "valid", KeySetInSchema(d)
             PROVE  InContract(r)
  BY SameClass DEF VerifiersAgree
<1>1. OracleReadsReceipt(r) /\ Named(r, d) # {} /\ \A key \in Named(r, d) : OracleAccepts(r, key)
  BY DEF Classify
<1>2. PICK key \in Named(r, d) : OracleAccepts(r, key)
  BY <1>1
<1>3. ~ Spoiled(r) /\ r.signature.over = ReceiptSigningMessage(Unsigned(r))
  BY <1>1, <1>2 DEF OracleAccepts, VerifyStrict, OracleReadsReceipt, Spoiled
<1>4. r \in issued
  BY <1>3, UnspoiledIssued
<1>5. Readable(r) /\ r.body = "sound"
  BY <1>4 DEF ReceiptInv, IssuedSound
<1>6. AllHold(StructureSteps(r))
  BY <1>5, ReceiptList DEF Readable
<1> QED
  BY <1>5, <1>6, StructureList, NoneMeansAll DEF InContract

\* A receipt judged valid against a key set its organization really published is
\* one that organization issued, whatever was edited, re-encoded or signed for
\* another family.
THEOREM ValidReceiptsIssued == ReceiptSpec => []ValidMeansIssued
  BY ReceiptInvariant, ReceiptInvValid, PTL

\* A receipt issued stays valid against every key set its organization publishes
\* from then on, whatever keys are added or retired.
THEOREM GenuineReceiptsStay == ReceiptSpec => []GenuineStaysValid
  BY ReceiptInvariant, ReceiptInvStays, PTL

\* The two verifiers, which share no code, put every receipt and key set within
\* their contract in the same class; whatever a receipt holds outside it, the
\* oracle calls it valid only if the other does, or the key set is outside its
\* schema.
THEOREM TwoVerifiersAgree == ReceiptSpec => []VerifiersAgree
  BY ReceiptInvariant, ReceiptInvAgree, PTL

------------------------------------------------------------------------------
(* The corpus (SignatureCorpus)                                            *)

------------------------------------------------------------------------------
(* Recursion over numbers *)

\* What holds for zero, and for a successor when it holds before, holds for
\* every number.
LEMMA SetInduction ==
    ASSUME NEW T, 0 \in T, \A n \in Nat : n \in T => n + 1 \in T
    PROVE  \A n \in Nat : n \in T
<1> SUFFICES ASSUME Nat \ T # {} PROVE FALSE
  OBVIOUS
<1>1. PICK n \in Nat \ T : \A m \in Nat \ T : n <= m
  BY NatMinimum
<1>2. n # 0 /\ n - 1 \in Nat /\ n - 1 \in T
  BY <1>1
<1>3. (n - 1) + 1 \in T
  BY <1>2
<1> QED
  BY <1>1, <1>3

\* The same up to a bound.
LEMMA Upwards ==
    ASSUME NEW l \in Nat, NEW T, 0 \in T, \A n \in 0 .. l - 1 : n \in T => n + 1 \in T
    PROVE  \A n \in 0 .. l : n \in T
<1> DEFINE U == { n \in Nat : n <= l => n \in T }
<1>1. 0 \in U
  OBVIOUS
<1>2. ASSUME NEW n \in Nat, n \in U PROVE n + 1 \in U
  <2> SUFFICES ASSUME n + 1 <= l PROVE n + 1 \in T
    OBVIOUS
  <2>1. n \in 0 .. l - 1 /\ n \in T
    BY <1>2
  <2> QED
    BY <2>1
<1> HIDE DEF U
<1>3. \A n \in Nat : n \in U
  BY <1>1, <1>2, SetInduction
<1> QED
  BY <1>3 DEF U

Iterates(f, start, step, l) ==
  f = [ i \in 0 .. l |-> IF i = 0 THEN start ELSE step[i][f[i - 1]] ]

\* A step from each value to the next is iterated by some function.
LEMMA Iteration ==
    ASSUME NEW l \in Nat, NEW D, NEW start \in D, NEW step,
           \A i \in 1 .. l : \A d \in D : step[i][d] \in D
    PROVE  \E f \in [ 0 .. l -> D ] : Iterates(f, start, step, l)
<1> DEFINE Upto(g, n) == g[0] = start /\ \A i \in 1 .. n : g[i] = step[i][g[i - 1]]
           T == { n \in Nat : n <= l => \E g \in [ 0 .. l -> D ] : Upto(g, n) }
<1>1. 0 \in T
  <2> DEFINE g == [ i \in 0 .. l |-> start ]
  <2>1. g \in [ 0 .. l -> D ] /\ Upto(g, 0)
    OBVIOUS
  <2> QED
    BY <2>1
<1>2. ASSUME NEW n \in Nat, n \in T PROVE n + 1 \in T
  <2> SUFFICES ASSUME n + 1 <= l PROVE \E g \in [ 0 .. l -> D ] : Upto(g, n + 1)
    OBVIOUS
  <2>1. PICK g \in [ 0 .. l -> D ] : Upto(g, n)
    BY <1>2
  <2> DEFINE next == step[n + 1][g[n]]
             h == [ g EXCEPT ![n + 1] = next ]
  <2>2. n + 1 \in 1 .. l /\ n \in 0 .. l /\ next \in D
    OBVIOUS
  <2>3. h \in [ 0 .. l -> D ] /\ \A i \in 0 .. n : h[i] = g[i]
    BY <2>2
  <2>4. h[n + 1] = step[n + 1][h[n]]
    BY <2>2, <2>3
  <2>5. ASSUME NEW i \in 1 .. n + 1 PROVE h[i] = step[i][h[i - 1]]
    <3>1. CASE i = n + 1
      BY <2>4, <3>1
    <3>2. CASE i # n + 1
      <4>1. i \in 1 .. n /\ i \in 0 .. n /\ i - 1 \in 0 .. n
        BY <3>2
      <4> HIDE DEF h
      <4> QED
        BY <2>1, <2>3, <4>1
    <3> QED
      BY <3>1, <3>2
  <2>6. h[0] = start
    BY <2>1, <2>3
  <2> QED
    BY <2>3, <2>5, <2>6
<1> HIDE DEF T
<1>3. l \in T
  BY <1>1, <1>2, SetInduction
<1> USE DEF T
<1>4. PICK f \in [ 0 .. l -> D ] : Upto(f, l)
  BY <1>3
<1>5. \A i \in 0 .. l : f[i] = IF i = 0 THEN start ELSE step[i][f[i - 1]]
  BY <1>4
<1> QED
  BY <1>5 DEF Iterates

------------------------------------------------------------------------------
Vectors == [ id : Nat, width : Widths ]

LEMMA VectorWidth == \A v \in Vectors : v.width \in Nat \ {0} /\ v.width \in Widths
BY CorpusAssumption DEF Vectors

Sums(r, vectors) ==
  r = [ i \in 0 .. Len(vectors) |-> IF i = 0 THEN 0 ELSE r[i - 1] + vectors[i].width ]

LEMMA WidthSums ==
    ASSUME NEW vectors \in Seq(Vectors)
    PROVE  \E r \in [ 0 .. Len(vectors) -> Nat ] :
              Sums(r, vectors) /\ VectorsWidth(vectors) = r[Len(vectors)]
<1> DEFINE l == Len(vectors)
           step == [ i \in 1 .. l |-> [ n \in Nat |-> n + vectors[i].width ] ]
           K == CHOOSE r : Sums(r, vectors)
<1>1. \A i \in 1 .. l : vectors[i] \in Vectors
  OBVIOUS
<1>2. \A i \in 1 .. l : \A n \in Nat : step[i][n] = n + vectors[i].width /\ step[i][n] \in Nat
  BY <1>1, VectorWidth
<1>3. PICK f \in [ 0 .. l -> Nat ] : Iterates(f, 0, step, l)
  <2> HIDE DEF step
  <2>1. l \in Nat /\ \A i \in 1 .. l : \A n \in Nat : step[i][n] \in Nat
    BY <1>2
  <2> HIDE DEF l
  <2> QED
    BY <2>1, Iteration
<1>4. Sums(f, vectors)
  <2>1. \A i \in 0 .. l : f[i] = IF i = 0 THEN 0 ELSE f[i - 1] + vectors[i].width
    <3> HIDE DEF step
    <3>1. f = [ i \in 0 .. l |-> IF i = 0 THEN 0 ELSE step[i][f[i - 1]] ]
      BY <1>3 DEF Iterates
    <3>2. \A i \in 0 .. l : f[i] = IF i = 0 THEN 0 ELSE step[i][f[i - 1]]
      BY <3>1
    <3>3. \A i \in 0 .. l : i # 0 => step[i][f[i - 1]] = f[i - 1] + vectors[i].width
      BY <1>2
    <3> QED
      BY <3>2, <3>3
  <2> QED
    BY <2>1 DEF Sums
<1>5. Sums(K, vectors)
  BY <1>4, Zenon
<1>6. VectorsWidth(vectors) = K[l]
  BY DEF VectorsWidth, Sums
<1> HIDE DEF K
<1>7. K[0] = 0 /\ \A i \in 1 .. l : K[i] = K[i - 1] + vectors[i].width
  BY <1>5 DEF Sums
<1>8. \A i \in 0 .. l : K[i] \in Nat
  <2> DEFINE T == { n \in 0 .. l : K[n] \in Nat }
  <2>1. 0 \in T
    BY <1>7
  <2>2. ASSUME NEW n \in 0 .. l - 1, n \in T PROVE n + 1 \in T
    <3>1. n + 1 \in 1 .. l /\ n + 1 \in 0 .. l /\ (n + 1) - 1 = n
      OBVIOUS
    <3>2. vectors[n + 1].width \in Nat
      BY <1>1, <3>1, VectorWidth
    <3>3. K[n + 1] = K[n] + vectors[n + 1].width
      BY <1>7, <3>1
    <3> HIDE DEF l
    <3>4. K[n] \in Nat
      BY <2>2
    <3>5. K[n + 1] \in Nat
      BY <3>2, <3>3, <3>4
    <3> QED
      BY <3>1, <3>5
  <2> HIDE DEF T
  <2>3. \A n \in 0 .. l : n \in T
    <3>1. l \in Nat
      OBVIOUS
    <3> HIDE DEF l
    <3> QED
      BY <2>1, <2>2, <3>1, Upwards
  <2> QED
    BY <2>3 DEF T
<1>9. K \in [ 0 .. l -> Nat ]
  BY <1>5, <1>8 DEF Sums
<1> QED
  BY <1>5, <1>6, <1>9

\* The width of no vectors is zero, and each vector adds its own.
LEMMA WidthGrows ==
    /\ VectorsWidth(<< >>) = 0
    /\ \A vectors \in Seq(Vectors) : VectorsWidth(vectors) \in Nat
    /\ \A vectors \in Seq(Vectors) : \A v \in Vectors :
         VectorsWidth(Append(vectors, v)) = VectorsWidth(vectors) + v.width
<1>1. VectorsWidth(<< >>) = 0
  <2>1. << >> \in Seq(Vectors) /\ Len(<< >>) = 0
    OBVIOUS
  <2>2. PICK r \in [ 0 .. Len(<< >>) -> Nat ] : Sums(r, << >>) /\ VectorsWidth(<< >>) = r[Len(<< >>)]
    BY <2>1, WidthSums
  <2> QED
    BY <2>1, <2>2 DEF Sums
<1>2. \A vectors \in Seq(Vectors) : VectorsWidth(vectors) \in Nat
  BY WidthSums
<1>3. ASSUME NEW vectors \in Seq(Vectors), NEW v \in Vectors
      PROVE  VectorsWidth(Append(vectors, v)) = VectorsWidth(vectors) + v.width
  <2> DEFINE more == Append(vectors, v)
             l == Len(vectors)
  <2>1. more \in Seq(Vectors) /\ Len(more) = l + 1 /\ l \in Nat
        /\ more[l + 1] = v /\ \A i \in 1 .. l : more[i] = vectors[i]
    OBVIOUS
  <2> HIDE DEF more
  <2>2. PICK r \in [ 0 .. l -> Nat ] : Sums(r, vectors) /\ VectorsWidth(vectors) = r[l]
    BY WidthSums
  <2>3. PICK q \in [ 0 .. l + 1 -> Nat ] : Sums(q, more) /\ VectorsWidth(more) = q[l + 1]
    BY <2>1, WidthSums
  <2>4. r[0] = 0 /\ \A i \in 1 .. l : r[i] = r[i - 1] + vectors[i].width
    BY <2>2 DEF Sums
  <2>5. q[0] = 0 /\ \A i \in 1 .. l + 1 : q[i] = q[i - 1] + more[i].width
    BY <2>1, <2>3 DEF Sums
  <2> DEFINE T == { n \in 0 .. l : q[n] = r[n] }
  <2>6. 0 \in T
    BY <2>1, <2>4, <2>5
  <2>7. ASSUME NEW n \in 0 .. l - 1, n \in T PROVE n + 1 \in T
    <3> HIDE DEF l
    <3>1. n + 1 \in 1 .. l /\ n + 1 \in 0 .. l /\ n + 1 \in 1 .. l + 1 /\ (n + 1) - 1 = n
      BY <2>1
    <3>2. q[n + 1] = q[n] + more[n + 1].width /\ r[n + 1] = r[n] + vectors[n + 1].width
      BY <2>4, <2>5, <3>1
    <3> QED
      BY <2>1, <2>7, <3>1, <3>2
  <2>8. l \in T
    <3> HIDE DEF T, l
    <3>1. \A n \in 0 .. l : n \in T
      BY <2>1, <2>6, <2>7, Upwards
    <3> QED
      BY <2>1, <3>1
  <2>9. q[l + 1] = q[l] + v.width
    BY <2>1, <2>5
  <2> QED
    BY <2>1, <2>2, <2>3, <2>8, <2>9 DEF more
<1> QED
  BY <1>1, <1>2, <1>3

------------------------------------------------------------------------------
(* Concatenation *)

Flattens(r, seqs) ==
  r = [ i \in 1 .. Len(seqs) |-> IF i = 1 THEN seqs[i] ELSE r[i - 1] \o seqs[i] ]

\* A list of sequences is flattened by appending each to those before it.
LEMMA FlattenSteps ==
    ASSUME NEW S, NEW seqs \in Seq(Seq(S)), Len(seqs) # 0
    PROVE  \E r : /\ FlattenSeq(seqs) = r[Len(seqs)]
                  /\ r[1] = seqs[1]
                  /\ \A i \in 2 .. Len(seqs) : r[i] = r[i - 1] \o seqs[i]
                  /\ \A i \in 1 .. Len(seqs) : r[i] \in Seq(S)
<1> DEFINE l == Len(seqs)
           step == [ i \in 1 .. l - 1 |-> [ s \in Seq(S) |-> s \o seqs[i + 1] ] ]
           K == CHOOSE r : Flattens(r, seqs)
<1>1. l \in Nat /\ l >= 1 /\ l - 1 \in Nat /\ \A i \in 1 .. l : seqs[i] \in Seq(S)
  OBVIOUS
<1> HIDE DEF l
<1>2. \A i \in 1 .. l - 1 : \A s \in Seq(S) :
        step[i][s] = s \o seqs[i + 1] /\ step[i][s] \in Seq(S)
  <2> SUFFICES ASSUME NEW i \in 1 .. l - 1, NEW s \in Seq(S)
               PROVE  s \o seqs[i + 1] \in Seq(S)
    OBVIOUS
  <2>1. seqs[i + 1] \in Seq(S)
    BY <1>1
  <2> QED
    BY <2>1
<1>3. PICK f \in [ 0 .. l - 1 -> Seq(S) ] : Iterates(f, seqs[1], step, l - 1)
  <2> HIDE DEF step
  <2>1. seqs[1] \in Seq(S) /\ \A i \in 1 .. l - 1 : \A s \in Seq(S) : step[i][s] \in Seq(S)
    BY <1>1, <1>2
  <2> DEFINE m == l - 1
  <2>2. m \in Nat /\ \A i \in 1 .. m : \A s \in Seq(S) : step[i][s] \in Seq(S)
    BY <1>1, <2>1
  <2> HIDE DEF m
  <2>3. \E f \in [ 0 .. m -> Seq(S) ] : Iterates(f, seqs[1], step, m)
    BY <2>1, <2>2, Iteration
  <2> QED
    BY <2>3 DEF m
<1> DEFINE g == [ i \in 1 .. l |-> f[i - 1] ]
<1>4. Flattens(g, seqs)
  <2> SUFFICES ASSUME NEW i \in 1 .. l
               PROVE  g[i] = IF i = 1 THEN seqs[i] ELSE g[i - 1] \o seqs[i]
    <3>1. g = [ i \in 1 .. l |-> IF i = 1 THEN seqs[i] ELSE g[i - 1] \o seqs[i] ]
      OBVIOUS
    <3> QED
      BY <3>1 DEF Flattens, l
  <2> HIDE DEF step
  <2>1. f = [ j \in 0 .. l - 1 |-> IF j = 0 THEN seqs[1] ELSE step[j][f[j - 1]] ]
    BY <1>3 DEF Iterates
  <2>2. CASE i = 1
    BY <1>1, <2>1, <2>2
  <2>3. CASE i # 1
    <3>1. i - 1 \in 0 .. l - 1 /\ i - 1 \in 1 .. l - 1 /\ i - 1 # 0 /\ i - 1 \in 1 .. l
          /\ (i - 1) - 1 \in 0 .. l - 1 /\ (i - 1) + 1 = i
      BY <1>1, <2>3
    <3>2. g[i] = step[i - 1][f[(i - 1) - 1]]
      BY <2>1, <3>1
    <3>3. f[(i - 1) - 1] \in Seq(S) /\ g[i - 1] = f[(i - 1) - 1]
      BY <1>3, <3>1
    <3> HIDE DEF g
    <3>4. step[i - 1][f[(i - 1) - 1]] = f[(i - 1) - 1] \o seqs[(i - 1) + 1]
      BY <1>2, <3>1, <3>3
    <3> QED
      BY <2>3, <3>1, <3>2, <3>3, <3>4
  <2> QED
    BY <2>2, <2>3
<1>5. Flattens(K, seqs)
  <2> HIDE DEF g
  <2> QED BY <1>4, Zenon
<1>6. FlattenSeq(seqs) = K[l]
  BY <1>1 DEF FlattenSeq, Flattens, l
<1> HIDE DEF K
<1>7. K[1] = seqs[1] /\ \A i \in 2 .. l : K[i] = K[i - 1] \o seqs[i]
  <2>1. K = [ i \in 1 .. l |-> IF i = 1 THEN seqs[i] ELSE K[i - 1] \o seqs[i] ]
    BY <1>5 DEF Flattens, l
  <2>2. \A i \in 1 .. l : K[i] = IF i = 1 THEN seqs[i] ELSE K[i - 1] \o seqs[i]
    BY <2>1
  <2>3. 1 \in 1 .. l /\ \A i \in 2 .. l : i \in 1 .. l /\ i # 1
    BY <1>1
  <2> QED
    BY <2>2, <2>3
<1>8. \A i \in 1 .. l : K[i] \in Seq(S)
  <2> DEFINE T == { n \in 0 .. l - 1 : K[n + 1] \in Seq(S) }
  <2>1. 0 \in T
    BY <1>1, <1>7
  <2>2. ASSUME NEW n \in 0 .. (l - 1) - 1, n \in T PROVE n + 1 \in T
    <3>1. n + 1 \in 0 .. l - 1 /\ (n + 1) + 1 \in 2 .. l /\ ((n + 1) + 1) - 1 = n + 1
          /\ (n + 1) + 1 \in 1 .. l
      BY <1>1
    <3>2. K[(n + 1) + 1] = K[n + 1] \o seqs[(n + 1) + 1]
      BY <1>7, <3>1
    <3>3. K[n + 1] \in Seq(S) /\ seqs[(n + 1) + 1] \in Seq(S)
      BY <1>1, <2>2, <3>1
    <3>4. K[(n + 1) + 1] \in Seq(S)
      BY <3>2, <3>3
    <3> QED
      BY <3>1, <3>4
  <2>3. \A n \in 0 .. l - 1 : n \in T
    <3> HIDE DEF T
    <3> DEFINE m == l - 1
    <3>1. m \in Nat /\ \A n \in 0 .. m - 1 : n \in T => n + 1 \in T
      BY <1>1, <2>2
    <3> HIDE DEF m
    <3>2. \A n \in 0 .. m : n \in T
      BY <2>1, <3>1, Upwards
    <3> QED
      BY <3>2 DEF m
  <2> HIDE DEF T
  <2>4. \A i \in 1 .. l : i - 1 \in 0 .. l - 1 /\ (i - 1) + 1 = i
    BY <1>1
  <2>5. \A i \in 1 .. l : i - 1 \in T
    BY <2>3, <2>4
  <2> QED
    BY <2>4, <2>5 DEF T
<1> QED
  BY <1>6, <1>7, <1>8 DEF l

\* One more sequence is one more concatenation.
LEMMA FlattenMore ==
    ASSUME NEW S, NEW seqs \in Seq(Seq(S)), NEW s \in Seq(S)
    PROVE  /\ seqs = << >> => FlattenSeq(Append(seqs, s)) = s
           /\ seqs # << >> => FlattenSeq(Append(seqs, s)) = FlattenSeq(seqs) \o s
           /\ FlattenSeq(seqs) \in Seq(S)
<1> DEFINE more == Append(seqs, s)
           l == Len(seqs)
<1>1. /\ more \in Seq(Seq(S)) /\ Len(more) = l + 1 /\ l \in Nat
      /\ more[l + 1] = s /\ \A i \in 1 .. l : more[i] = seqs[i]
      /\ l = 0 <=> seqs = << >>
  OBVIOUS
<1> HIDE DEF more
<1>2. PICK q : /\ FlattenSeq(more) = q[Len(more)]
               /\ q[1] = more[1]
               /\ \A i \in 2 .. Len(more) : q[i] = q[i - 1] \o more[i]
               /\ \A i \in 1 .. Len(more) : q[i] \in Seq(S)
  <2>1. Len(more) # 0
    BY <1>1
  <2> QED
    BY <1>1, <2>1, FlattenSteps
<1>3. CASE l = 0
  <2>1. FlattenSeq(seqs) = seqs
    BY <1>3 DEF FlattenSeq
  <2> QED
    BY <1>1, <1>2, <1>3, <2>1 DEF more
<1>4. CASE l # 0
  <2>1. PICK r : /\ FlattenSeq(seqs) = r[l]
                 /\ r[1] = seqs[1]
                 /\ \A i \in 2 .. l : r[i] = r[i - 1] \o seqs[i]
                 /\ \A i \in 1 .. l : r[i] \in Seq(S)
    BY <1>4, FlattenSteps
  <2> HIDE DEF l
  <2> DEFINE T == { n \in 0 .. l - 1 : q[n + 1] = r[n + 1] }
             m == l - 1
  <2>2. 0 \in T
    BY <1>1, <1>2, <1>4, <2>1
  <2>3. ASSUME NEW n \in 0 .. m - 1, n \in T PROVE n + 1 \in T
    <3>1. n + 1 \in 0 .. l - 1 /\ (n + 1) + 1 \in 2 .. l /\ ((n + 1) + 1) - 1 = n + 1
          /\ (n + 1) + 1 \in 2 .. Len(more) /\ (n + 1) + 1 \in 1 .. l
      BY <1>1
    <3>2. q[(n + 1) + 1] = q[n + 1] \o more[(n + 1) + 1]
      BY <1>2, <3>1
    <3>3. r[(n + 1) + 1] = r[n + 1] \o seqs[(n + 1) + 1]
      BY <2>1, <3>1
    <3>4. q[n + 1] = r[n + 1] /\ more[(n + 1) + 1] = seqs[(n + 1) + 1]
      BY <1>1, <2>3, <3>1
    <3>5. q[(n + 1) + 1] = r[(n + 1) + 1]
      BY <3>2, <3>3, <3>4
    <3> QED
      BY <3>1, <3>5
  <2>4. m \in Nat
    BY <1>1, <1>4
  <2>5. m \in T
    <3> HIDE DEF T, m
    <3>1. \A n \in 0 .. m : n \in T
      BY <2>2, <2>3, <2>4, Upwards
    <3> QED
      BY <2>4, <3>1
  <2>6. m + 1 = l
    BY <1>1
  <2>7. q[l] = r[l]
    BY <2>5, <2>6
  <2>8. l + 1 \in 2 .. Len(more) /\ (l + 1) - 1 = l
    BY <1>1, <1>4
  <2>9. q[l + 1] = q[l] \o s
    BY <1>1, <1>2, <2>8
  <2>10. r[l] \in Seq(S)
    BY <1>1, <1>4, <2>1
  <2> QED
    BY <1>1, <1>2, <1>4, <2>1, <2>7, <2>9, <2>10 DEF more
<1> QED
  BY <1>3, <1>4

------------------------------------------------------------------------------
(* Packing *)

Parcels == Seq(Seq(Vectors)) \ {<< >>}
Packs(r, declared, vectors) ==
  r = [ i \in 0 .. Len(vectors) |->
          IF i = 0 THEN << << >> >> ELSE Place(declared, r[i - 1], vectors[i]) ]
LastWidth(declared, files) == FileWidth(Len(files), declared, files[Len(files)])

LEMMA ProductGrows ==
    ASSUME NEW d \in Nat, NEW e \in Nat, NEW n \in Nat, d <= e
    PROVE  d * n \in Nat /\ d * n <= e * n
<1>1. e * n = d * n + (e - d) * n
  BY Z3
<1>2. d * n \in Nat /\ e - d \in Nat /\ (e - d) * n \in Nat
  OBVIOUS
<1> QED
  BY <1>1, <1>2

LEMMA Parcel ==
    ASSUME NEW files \in Parcels
    PROVE  /\ Len(files) \in Nat \ {0} /\ DOMAIN files = 1 .. Len(files)
           /\ \A i \in 1 .. Len(files) : files[i] \in Seq(Vectors)
BY DEF Parcels

LEMMA HeaderNumbers ==
    /\ Budget \in Nat /\ EntryHeader \in Nat /\ PartHeader \in Nat /\ NameWidth \in Nat
    /\ MaxVectors \in Nat \ {0}
    /\ \A w \in Widths : PartHeader + w <= Budget
    /\ PartHeader <= EntryHeader
    /\ EntryHeader + MaxVectors * NameWidth <= Budget
BY CorpusAssumption

LEMMA FileWidths ==
    ASSUME NEW i \in Nat \ {0}, NEW declared \in Nat, NEW vectors \in Seq(Vectors)
    PROVE  /\ FileWidth(i, declared, vectors) \in Nat
           /\ FileWidth(i, declared, vectors) >= PartHeader
           /\ \A v \in Vectors : FileWidth(i, declared, Append(vectors, v))
                                   = FileWidth(i, declared, vectors) + v.width
           /\ i # 1 => FileWidth(i, declared, vectors) = PartHeader + VectorsWidth(vectors)
<1>1. declared * NameWidth \in Nat
  BY HeaderNumbers
<1>2. VectorsWidth(vectors) \in Nat
  BY WidthGrows
<1>3. ASSUME NEW v \in Vectors
      PROVE  VectorsWidth(Append(vectors, v)) = VectorsWidth(vectors) + v.width /\ v.width \in Nat
  BY WidthGrows, VectorWidth
<1> DEFINE product == declared * NameWidth
<1> HIDE DEF product
<1>4. FileWidth(i, declared, vectors)
        = (IF i = 1 THEN EntryHeader + product ELSE PartHeader) + VectorsWidth(vectors)
  BY DEF FileWidth, product
<1>5. ASSUME NEW v \in Vectors
      PROVE  FileWidth(i, declared, Append(vectors, v))
        = (IF i = 1 THEN EntryHeader + product ELSE PartHeader) + VectorsWidth(Append(vectors, v))
  BY DEF FileWidth, product
<1>6. product \in Nat
  BY <1>1 DEF product
<1> QED
  BY <1>2, <1>3, <1>4, <1>5, <1>6, HeaderNumbers

Leading(files) == [ i \in 1 .. Len(files) - 1 |-> files[i] ]
WithLast(files, x) == [files EXCEPT ![Len(files)] = x]

\* A sequence is what precedes its last member, and that member.
LEMMA LastReplaced ==
    ASSUME NEW S, NEW files \in Seq(S), files # << >>, NEW x \in S
    PROVE  /\ Leading(files) \in Seq(S)
           /\ files = Append(Leading(files), files[Len(files)])
           /\ WithLast(files, x) = Append(Leading(files), x)
<1> DEFINE n == Len(files)
           front == [ i \in 1 .. n - 1 |-> files[i] ]
<1>1. n \in Nat /\ n >= 1 /\ \A i \in 1 .. n : files[i] \in S
  OBVIOUS
<1>2. files = [ i \in 1 .. n |-> files[i] ]
  OBVIOUS
<1> HIDE DEF n
<1>3. front \in Seq(S) /\ Len(front) = n - 1
  <2>1. n - 1 \in Nat /\ front \in [ 1 .. n - 1 -> S ]
    BY <1>1
  <2> QED
    BY <2>1
<1>4. ASSUME NEW y \in S PROVE Append(front, y) = [ i \in 1 .. n |-> IF i = n THEN y ELSE files[i] ]
  <2> DEFINE more == Append(front, y)
             same == [ i \in 1 .. n |-> IF i = n THEN y ELSE files[i] ]
  <2>1. same \in Seq(S) /\ Len(same) = n
    <3>1. same \in [ 1 .. n -> S ] /\ n \in Nat
      BY <1>1
    <3> QED
      BY <3>1
  <2>2. more \in Seq(S) /\ Len(more) = n /\ \A i \in 1 .. n - 1 : more[i] = front[i]
        /\ more[n] = y
    <3> HIDE DEF front
    <3> QED
      BY <1>1, <1>3
  <2>3. ASSUME NEW i \in 1 .. n PROVE more[i] = same[i]
    <3>1. CASE i = n
      BY <2>2, <3>1
    <3>2. CASE i # n
      <4>1. i \in 1 .. n - 1
        BY <1>1, <3>2
      <4> HIDE DEF more
      <4>2. more[i] = front[i] /\ front[i] = files[i]
        BY <2>2, <4>1
      <4> QED
        BY <3>2, <4>2
    <3> QED
      BY <3>1, <3>2
  <2> HIDE DEF more, same
  <2>4. more = same
    BY <2>1, <2>2, <2>3, SeqEqual
  <2> QED
    BY <2>4 DEF more, same
<1>5. files[n] \in S
  BY <1>1
<1>6. files = Append(front, files[n])
  BY <1>2, <1>4, <1>5
<1>7. [files EXCEPT ![n] = x] = Append(front, x)
  BY <1>2, <1>4
<1> QED
  BY <1>3, <1>6, <1>7 DEF n, Leading, WithLast

\* A vector widens the last file or, when that is full, begins another; no
\* other file changes and the vectors keep their order.
LEMMA Placed ==
    ASSUME NEW declared \in Nat, NEW files \in Parcels, NEW v \in Vectors
    PROVE  LET placed == Place(declared, files, v)
               n == Len(files)
               full == LastWidth(declared, files) + v.width > Budget
           IN  /\ placed \in Parcels
               /\ FlattenSeq(placed) = Append(FlattenSeq(files), v)
               /\ FlattenSeq(files) \in Seq(Vectors)
               /\ ~ full => /\ Len(placed) = n
                            /\ \A i \in 1 .. n - 1 : placed[i] = files[i]
                            /\ LastWidth(declared, placed) = LastWidth(declared, files) + v.width
               /\ full => /\ Len(placed) = n + 1
                          /\ \A i \in 1 .. n : placed[i] = files[i]
                          /\ LastWidth(declared, placed) = PartHeader + v.width
<1> DEFINE n == Len(files)
           filled == Append(files[n], v)
           placed == Place(declared, files, v)
           full == LastWidth(declared, files) + v.width > Budget
<1>1. /\ n \in Nat \ {0} /\ files[n] \in Seq(Vectors) /\ filled \in Seq(Vectors)
      /\ files \in Seq(Seq(Vectors)) /\ DOMAIN files = 1 .. n
      /\ \A i \in 1 .. n : files[i] \in Seq(Vectors)
  BY Parcel DEF Parcels
<1>2. /\ LastWidth(declared, files) \in Nat
      /\ FileWidth(n, declared, filled) = LastWidth(declared, files) + v.width
  BY <1>1, FileWidths DEF LastWidth
<1>3. placed = IF full THEN Append(files, << v >>) ELSE [ files EXCEPT ![n] = filled ]
  <2>1. LastWidth(declared, files) + v.width \in Nat /\ Budget \in Nat
    BY <1>2, VectorWidth, HeaderNumbers
  <2>2. full <=> ~ (FileWidth(n, declared, filled) <= Budget)
    BY <1>2, <2>1
  <2> QED
    BY <2>2 DEF Place
<1> DEFINE front == Leading(files)
<1>4. /\ front \in Seq(Seq(Vectors))
      /\ files = Append(front, files[n])
      /\ [files EXCEPT ![n] = filled] = Append(front, filled)
  <2> HIDE DEF filled
  <2>1. files # << >>
    BY DEF Parcels
  <2> HIDE DEF n
  <2>2. /\ Leading(files) \in Seq(Seq(Vectors))
        /\ files = Append(Leading(files), files[Len(files)])
        /\ WithLast(files, filled) = Append(Leading(files), filled)
    BY <1>1, <2>1, LastReplaced
  <2> QED
    BY <2>2 DEF n, WithLast
<1> HIDE DEF front
<1>6. CASE full
  <2>1. placed = Append(files, << v >>) /\ << v >> \in Seq(Vectors)
    BY <1>3, <1>6
  <2> HIDE DEF placed
  <2>2. placed \in Parcels /\ Len(placed) = n + 1 /\ placed[n + 1] = << v >>
        /\ \A i \in 1 .. n : placed[i] = files[i]
    BY <1>1, <2>1 DEF Parcels
  <2>3. FlattenSeq(placed) = FlattenSeq(files) \o << v >> /\ FlattenSeq(files) \in Seq(Vectors)
    <3>1. files # << >>
      BY DEF Parcels
    <3> QED
      BY <1>1, <2>1, <3>1, FlattenMore
  <2>4. FlattenSeq(placed) = Append(FlattenSeq(files), v)
    BY <2>3
  <2>5. LastWidth(declared, placed) = PartHeader + v.width
    <3>1. n + 1 \in Nat \ {0} /\ n + 1 # 1
      BY <1>1
    <3>2. FileWidth(n + 1, declared, << v >>) = PartHeader + VectorsWidth(<< v >>)
      BY <2>1, <3>1, FileWidths
    <3>3. VectorsWidth(<< v >>) = v.width
      <4>1. << >> \in Seq(Vectors) /\ Append(<< >>, v) = << v >> /\ v.width \in Nat
        BY VectorWidth
      <4>2. VectorsWidth(Append(<< >>, v)) = VectorsWidth(<< >>) + v.width
        BY <4>1, WidthGrows
      <4> QED
        BY <4>1, <4>2, WidthGrows
    <3> QED
      BY <2>2, <3>2, <3>3 DEF LastWidth
  <2> QED
    BY <1>6, <2>2, <2>3, <2>4, <2>5 DEF placed
<1>7. CASE ~ full
  <2>1. placed = [ files EXCEPT ![n] = filled ]
    BY <1>3, <1>7
  <2> HIDE DEF placed
  <2>2. placed \in Seq(Seq(Vectors)) /\ Len(placed) = n /\ placed[n] = filled
        /\ \A i \in 1 .. n - 1 : placed[i] = files[i]
    <3> HIDE DEF filled, n
    <3>1. n \in 1 .. Len(files)
      BY <1>1 DEF n
    <3>2. /\ placed \in Seq(Seq(Vectors)) /\ Len(placed) = Len(files)
          /\ \A j \in 1 .. Len(files) : placed[j] = IF j = n THEN filled ELSE files[j]
      BY <1>1, <2>1, <3>1, ExceptSeq
    <3>3. \A i \in 1 .. n - 1 : i \in 1 .. n /\ i # n
      BY <1>1
    <3> QED
      BY <3>1, <3>2, <3>3 DEF n
  <2>3. placed \in Parcels
    BY <1>1, <2>2 DEF Parcels
  <2>4. placed = Append(front, filled)
    BY <1>4, <2>1
  <2>5. FlattenSeq(placed) = Append(FlattenSeq(files), v) /\ FlattenSeq(files) \in Seq(Vectors)
    <3> HIDE DEF n, filled
    <3>1. /\ front = << >> => FlattenSeq(files) = files[n]
          /\ front # << >> => FlattenSeq(files) = FlattenSeq(front) \o files[n]
          /\ FlattenSeq(front) \in Seq(Vectors)
      BY <1>1, <1>4, FlattenMore
    <3>2. /\ front = << >> => FlattenSeq(placed) = filled
          /\ front # << >> => FlattenSeq(placed) = FlattenSeq(front) \o filled
      BY <1>1, <1>4, <2>4, FlattenMore
    <3> DEFINE last == files[n]
               one == << v >>
               before == FlattenSeq(front)
    <3>9. last \in Seq(Vectors) /\ filled = Append(last, v)
      BY <1>1 DEF filled
    <3> HIDE DEF last
    <3>3. filled = last \o one /\ one \in Seq(Vectors) /\ last \in Seq(Vectors)
      BY <3>9
    <3>4. before \in Seq(Vectors)
      BY <3>1
    <3> HIDE DEF last, one, before
    <3>5. before \o (last \o one) = (before \o last) \o one /\ before \o last \in Seq(Vectors)
      BY <3>3, <3>4, ConcatAssociative
    <3>6. FlattenSeq(placed) = FlattenSeq(files) \o one /\ FlattenSeq(files) \in Seq(Vectors)
      <4>1. CASE front = << >>
        BY <3>1, <3>2, <3>3, <4>1 DEF last
      <4>2. CASE front # << >>
        BY <3>1, <3>2, <3>3, <3>5, <4>2 DEF last, before
      <4> QED
        BY <4>1, <4>2
    <3>7. FlattenSeq(placed) = FlattenSeq(files) \o << v >>
      BY <3>6 DEF one
    <3>8. FlattenSeq(files) \o << v >> = Append(FlattenSeq(files), v)
      BY <3>6
    <3> QED
      BY <3>6, <3>7, <3>8
  <2>6. LastWidth(declared, placed) = LastWidth(declared, files) + v.width
    BY <1>2, <2>2 DEF LastWidth
  <2> QED
    BY <1>7, <2>2, <2>3, <2>5, <2>6 DEF placed
<1> QED
  BY <1>6, <1>7

\* Packing places the vectors one by one.
LEMMA PackingRounds ==
    ASSUME NEW declared \in Nat, NEW vectors \in Seq(Vectors)
    PROVE  \E r \in [ 0 .. Len(vectors) -> Parcels ] :
              /\ Packing(declared, vectors) = r[Len(vectors)]
              /\ r[0] = << << >> >>
              /\ \A i \in 1 .. Len(vectors) : r[i] = Place(declared, r[i - 1], vectors[i])
<1> DEFINE l == Len(vectors)
           empty == << << >> >>
           step == [ i \in 1 .. l |-> [ files \in Parcels |-> Place(declared, files, vectors[i]) ] ]
           K == CHOOSE r : Packs(r, declared, vectors)
<1>1. l \in Nat /\ \A i \in 1 .. l : vectors[i] \in Vectors
  OBVIOUS
<1>2. empty \in Parcels
  BY DEF Parcels
<1>3. \A i \in 1 .. l : \A files \in Parcels :
        /\ step[i][files] = Place(declared, files, vectors[i])
        /\ step[i][files] \in Parcels
        /\ Place(declared, files, vectors[i]) \in Parcels
  <2> HIDE DEF l
  <2> SUFFICES ASSUME NEW i \in 1 .. l, NEW files \in Parcels
               PROVE  Place(declared, files, vectors[i]) \in Parcels
    OBVIOUS
  <2> DEFINE v == vectors[i]
  <2>1. v \in Vectors
    BY <1>1
  <2> HIDE DEF v
  <2>2. Place(declared, files, v) \in Parcels
    BY <2>1, Placed
  <2> QED
    BY <2>2 DEF v
<1> HIDE DEF l, step, empty
<1>4. PICK f \in [ 0 .. l -> Parcels ] : Iterates(f, empty, step, l)
  <2>1. \A i \in 1 .. l : \A files \in Parcels : step[i][files] \in Parcels
    BY <1>3
  <2> QED
    BY <1>1, <1>2, <2>1, Iteration
<1>5. Packs(f, declared, vectors)
  <2>1. f = [ i \in 0 .. l |-> IF i = 0 THEN empty ELSE step[i][f[i - 1]] ]
    BY <1>4 DEF Iterates
  <2>2. ASSUME NEW i \in 0 .. l, i # 0
        PROVE  step[i][f[i - 1]] = Place(declared, f[i - 1], vectors[i])
    <3>1. i \in 1 .. l /\ i - 1 \in 0 .. l
      BY <1>1, <2>2
    <3>2. f[i - 1] \in Parcels
      BY <1>4, <3>1
    <3> QED
      BY <1>3, <3>1, <3>2
  <2>3. f = [ i \in 0 .. l |-> IF i = 0 THEN empty ELSE Place(declared, f[i - 1], vectors[i]) ]
    BY <2>1, <2>2
  <2> QED
    BY <2>3 DEF Packs, l, empty
<1>6. Packs(K, declared, vectors)
  BY <1>5, Zenon
<1>7. Packing(declared, vectors) = K[l]
  BY DEF Packing, Packs, l
<1> HIDE DEF K
<1>8. K = [ i \in 0 .. l |-> IF i = 0 THEN empty ELSE Place(declared, K[i - 1], vectors[i]) ]
  BY <1>6 DEF Packs, l, empty
<1>9. \A i \in 0 .. l : K[i] = IF i = 0 THEN empty ELSE Place(declared, K[i - 1], vectors[i])
  BY <1>8
<1>10. K[0] = empty /\ \A i \in 1 .. l : K[i] = Place(declared, K[i - 1], vectors[i])
  <2>1. 0 \in 0 .. l /\ \A i \in 1 .. l : i \in 0 .. l /\ i # 0
    BY <1>1
  <2> QED
    BY <1>9, <2>1
<1>11. \A i \in 0 .. l : K[i] \in Parcels
  <2> DEFINE T == { n \in 0 .. l : K[n] \in Parcels }
  <2>1. 0 \in T
    BY <1>1, <1>2, <1>10
  <2>2. ASSUME NEW n \in 0 .. l - 1, n \in T PROVE n + 1 \in T
    <3>1. n + 1 \in 1 .. l /\ n + 1 \in 0 .. l /\ (n + 1) - 1 = n
      BY <1>1
    <3>2. K[n + 1] = Place(declared, K[n], vectors[n + 1])
      BY <1>10, <3>1
    <3>3. K[n] \in Parcels
      BY <2>2
    <3>4. Place(declared, K[n], vectors[n + 1]) \in Parcels
      BY <1>3, <3>1, <3>3
    <3> QED
      BY <3>1, <3>2, <3>4
  <2> HIDE DEF T
  <2>3. \A n \in 0 .. l : n \in T
    BY <1>1, <2>1, <2>2, Upwards
  <2> QED
    BY <2>3 DEF T
<1>12. K \in [ 0 .. l -> Parcels ]
  BY <1>8, <1>11
<1> QED
  BY <1>7, <1>10, <1>12 DEF l, empty

FitsEach(declared, files) ==
  \A i \in 1 .. Len(files) : FileWidth(i, declared, files[i]) <= Budget

\* Packing keeps the budget of every file and the order of the vectors, and
\* uses at most one file more than there are vectors.
LEMMA PackingSound ==
    ASSUME NEW declared \in 0 .. MaxVectors, NEW vectors \in Seq(Vectors)
    PROVE  /\ Packing(declared, vectors) \in Parcels
           /\ Len(Packing(declared, vectors)) \in 1 .. Len(vectors) + 1
           /\ FitsEach(declared, Packing(declared, vectors))
           /\ FlattenSeq(Packing(declared, vectors)) = vectors
<1> DEFINE l == Len(vectors)
<1>0. declared \in Nat /\ l \in Nat /\ \A i \in 1 .. l : vectors[i] \in Vectors
  BY HeaderNumbers
<1> HIDE DEF l
<1>1. PICK r \in [ 0 .. l -> Parcels ] :
        /\ Packing(declared, vectors) = r[l]
        /\ r[0] = << << >> >>
        /\ \A i \in 1 .. l : r[i] = Place(declared, r[i - 1], vectors[i])
  BY <1>0, PackingRounds DEF l
<1> DEFINE Good(i) == /\ Len(r[i]) \in 1 .. i + 1
                      /\ FitsEach(declared, r[i])
                      /\ FlattenSeq(r[i]) = SubSeq(vectors, 1, i)
           T == { i \in 0 .. l : Good(i) }
<1>2. 0 \in T
  <2> DEFINE e == << << >> >>
  <2>1. Len(e) = 1 /\ e[1] = << >> /\ e \in Seq(Seq(Vectors))
    OBVIOUS
  <2>2. FitsEach(declared, e)
    <3>1. declared * NameWidth <= MaxVectors * NameWidth /\ declared * NameWidth \in Nat
          /\ MaxVectors * NameWidth \in Nat
      <4>1. declared <= MaxVectors /\ MaxVectors \in Nat /\ NameWidth \in Nat
        BY HeaderNumbers
      <4> QED
        BY <1>0, <4>1, ProductGrows
    <3>2. EntryHeader + declared * NameWidth <= Budget
      BY <3>1, HeaderNumbers
    <3>3. FileWidth(1, declared, << >>) = EntryHeader + declared * NameWidth + 0
      BY WidthGrows DEF FileWidth
    <3>4. FileWidth(1, declared, << >>) <= Budget
      BY <3>1, <3>2, <3>3, HeaderNumbers
    <3> HIDE DEF e
    <3> QED
      BY <2>1, <3>4 DEF FitsEach
  <2>3. FlattenSeq(e) = << >>
    <3>1. << >> \in Seq(Seq(Vectors)) /\ << >> \in Seq(Vectors) /\ e = Append(<< >>, << >>)
      OBVIOUS
    <3> HIDE DEF e
    <3>2. FlattenSeq(Append(<< >>, << >>)) = << >>
      BY <3>1, FlattenMore
    <3> QED
      BY <3>1, <3>2
  <2>4. SubSeq(vectors, 1, 0) = << >>
    OBVIOUS
  <2> HIDE DEF e
  <2>5. r[0] = e
    BY <1>1 DEF e
  <2>6. Good(0)
    BY <2>1, <2>2, <2>3, <2>4, <2>5
  <2> QED
    BY <1>0, <2>6
<1>3. ASSUME NEW i \in 0 .. l - 1, i \in T PROVE i + 1 \in T
  <2>1. i + 1 \in 1 .. l /\ i + 1 \in 0 .. l /\ i \in 0 .. l /\ (i + 1) - 1 = i /\ i \in Nat
    BY <1>0
  <2> DEFINE files == r[i]
             v == vectors[i + 1]
             placed == Place(declared, files, v)
             n == Len(files)
             full == LastWidth(declared, files) + v.width > Budget
  <2>2. files \in Parcels /\ v \in Vectors /\ r[i + 1] = placed
    BY <1>0, <1>1, <2>1
  <2>3. n \in 1 .. i + 1 /\ FitsEach(declared, files) /\ FlattenSeq(files) = SubSeq(vectors, 1, i)
    BY <1>3
  <2> HIDE DEF files, v
  <2>4. /\ placed \in Parcels
        /\ FlattenSeq(placed) = Append(FlattenSeq(files), v)
        /\ ~ full => /\ Len(placed) = n
                     /\ \A j \in 1 .. n - 1 : placed[j] = files[j]
                     /\ LastWidth(declared, placed) = LastWidth(declared, files) + v.width
        /\ full => /\ Len(placed) = n + 1
                   /\ \A j \in 1 .. n : placed[j] = files[j]
                   /\ LastWidth(declared, placed) = PartHeader + v.width
    BY <1>0, <2>2, Placed
  <2> HIDE DEF placed
  <2>5. /\ LastWidth(declared, files) \in Nat /\ v.width \in Nat /\ Budget \in Nat
        /\ PartHeader + v.width <= Budget
    <3>1. n \in Nat \ {0} /\ files[n] \in Seq(Vectors)
      BY <2>2, Parcel
    <3> QED
      BY <1>0, <2>2, <3>1, FileWidths, VectorWidth, HeaderNumbers DEF LastWidth
  <2>6. LastWidth(declared, placed) <= Budget
    <3> HIDE DEF n
    <3> QED
      BY <2>4, <2>5
  <2>7. FitsEach(declared, placed)
    <3> SUFFICES ASSUME NEW j \in 1 .. Len(placed)
                 PROVE  FileWidth(j, declared, placed[j]) <= Budget
      BY DEF FitsEach
    <3>1. CASE j = Len(placed)
      BY <2>6, <3>1 DEF LastWidth
    <3>2. CASE j # Len(placed)
      <4>1. j \in 1 .. n /\ placed[j] = files[j]
        <5> HIDE DEF n, full
        <5>1. n \in Nat
          BY <2>1, <2>3
        <5>2. CASE full
          <6>1. Len(placed) = n + 1 /\ \A k \in 1 .. n : placed[k] = files[k]
            BY <2>4, <5>2
          <6>2. j \in 1 .. n
            BY <3>2, <5>1, <6>1
          <6> QED
            BY <6>1, <6>2
        <5>3. CASE ~ full
          <6>1. Len(placed) = n /\ \A k \in 1 .. n - 1 : placed[k] = files[k]
            BY <2>4, <5>3
          <6>2. j \in 1 .. n /\ j \in 1 .. n - 1
            BY <3>2, <5>1, <6>1
          <6> QED
            BY <6>1, <6>2
        <5> QED
          BY <5>2, <5>3
      <4> QED
        BY <2>3, <4>1 DEF FitsEach
    <3> QED
      BY <3>1, <3>2
  <2>8. Append(SubSeq(vectors, 1, i), v) = SubSeq(vectors, 1, i + 1)
    <3>1. 1 \in 1 .. Len(vectors) /\ i + 1 \in 1 .. Len(vectors)
      BY <2>1 DEF l
    <3>2. SubSeq(vectors, 1, i + 1) = SubSeq(vectors, 1, (i + 1) - 1) \o << vectors[i + 1] >>
      BY <3>1, SubSeqRecursiveSecond
    <3> DEFINE s == SubSeq(vectors, 1, i)
    <3>3. s \in Seq(Vectors)
      <4>1. \A k \in 1 .. i : vectors[k] \in Vectors
        BY <1>0, <2>1
      <4>2. 1 \in Int /\ i \in Int
        BY <2>1
      <4> QED
        BY <4>1, <4>2, SubSeqProperties
    <3>4. SubSeq(vectors, 1, i + 1) = s \o << v >>
      BY <2>1, <3>2 DEF v
    <3> HIDE DEF s
    <3>5. s \o << v >> = Append(s, v)
      BY <3>3
    <3> QED
      BY <3>4, <3>5 DEF s
  <2>9. FlattenSeq(placed) = SubSeq(vectors, 1, i + 1)
    BY <2>3, <2>4, <2>8
  <2>10. Len(placed) \in 1 .. (i + 1) + 1
    <3> HIDE DEF n
    <3> QED
      BY <2>1, <2>3, <2>4
  <2>11. Good(i + 1)
    BY <2>2, <2>7, <2>9, <2>10
  <2> QED
    BY <2>1, <2>11
<1>4. l \in T
  <2> HIDE DEF T
  <2>1. \A i \in 0 .. l : i \in T
    BY <1>0, <1>2, <1>3, Upwards
  <2> QED
    BY <1>0, <2>1
<1>5. Good(l)
  BY <1>4
<1>6. SubSeq(vectors, 1, l) = vectors
  BY SubSeqFull DEF l
<1>7. r[l] \in Parcels
  BY <1>0, <1>1
<1> QED
  BY <1>1, <1>5, <1>6, <1>7 DEF l

\* The first packing is no further than the second: fewer files or, with as
\* many, a last file that is no wider.
NoFurther(d, files, e, others) ==
  \/ Len(files) < Len(others)
  \/ Len(files) = Len(others) /\ LastWidth(d, files) <= LastWidth(e, others)

LEMMA PlacedNoFurther ==
    ASSUME NEW d \in Nat, NEW e \in Nat, NEW files \in Parcels, NEW others \in Parcels,
           NEW v \in Vectors, NoFurther(d, files, e, others)
    PROVE  NoFurther(d, Place(d, files, v), e, Place(e, others, v))
<1> DEFINE n == Len(files)
           m == Len(others)
           a == LastWidth(d, files)
           b == LastWidth(e, others)
           p == Place(d, files, v)
           q == Place(e, others, v)
<1>1. /\ n \in Nat \ {0} /\ m \in Nat \ {0} /\ a \in Nat /\ b \in Nat
      /\ b >= PartHeader
  <2>1. n \in Nat \ {0} /\ m \in Nat \ {0} /\ files[n] \in Seq(Vectors) /\ others[m] \in Seq(Vectors)
    BY Parcel
  <2> QED
    BY <2>1, FileWidths DEF LastWidth
<1>2. /\ a + v.width <= Budget => Len(p) = n /\ LastWidth(d, p) = a + v.width
      /\ a + v.width > Budget => Len(p) = n + 1 /\ LastWidth(d, p) = PartHeader + v.width
      /\ b + v.width <= Budget => Len(q) = m /\ LastWidth(e, q) = b + v.width
      /\ b + v.width > Budget => Len(q) = m + 1 /\ LastWidth(e, q) = PartHeader + v.width
  <2>1. v.width \in Nat /\ Budget \in Nat
    BY VectorWidth, HeaderNumbers
  <2>2. /\ ~ (a + v.width > Budget) => Len(p) = n /\ LastWidth(d, p) = a + v.width
        /\ a + v.width > Budget => Len(p) = n + 1 /\ LastWidth(d, p) = PartHeader + v.width
    BY Placed
  <2>3. /\ ~ (b + v.width > Budget) => Len(q) = m /\ LastWidth(e, q) = b + v.width
        /\ b + v.width > Budget => Len(q) = m + 1 /\ LastWidth(e, q) = PartHeader + v.width
    BY Placed
  <2> HIDE DEF a, b, p, q, n, m
  <2> QED
    BY <1>1, <2>1, <2>2, <2>3
<1>3. v.width \in Nat /\ Budget \in Nat /\ PartHeader \in Nat
  BY VectorWidth, HeaderNumbers
<1>4. n < m \/ (n = m /\ a <= b)
  BY DEF NoFurther
<1> HIDE DEF a, b, p, q, n, m
<1>5. Len(p) < Len(q) \/ (Len(p) = Len(q) /\ LastWidth(d, p) <= LastWidth(e, q))
  <2>1. CASE a + v.width <= Budget /\ b + v.width <= Budget
    BY <1>1, <1>2, <1>3, <1>4, <2>1
  <2>2. CASE a + v.width <= Budget /\ b + v.width > Budget
    BY <1>1, <1>2, <1>3, <1>4, <2>2
  <2>3. CASE a + v.width > Budget /\ b + v.width <= Budget
    <3>1. n < m
      BY <1>1, <1>3, <1>4, <2>3
    <3>2. Len(p) = n + 1 /\ LastWidth(d, p) = PartHeader + v.width
          /\ Len(q) = m /\ LastWidth(e, q) = b + v.width
      BY <1>2, <2>3
    <3> QED
      BY <1>1, <1>3, <3>1, <3>2
  <2>4. CASE a + v.width > Budget /\ b + v.width > Budget
    BY <1>1, <1>2, <1>3, <1>4, <2>4
  <2>5. a + v.width <= Budget \/ a + v.width > Budget
    BY <1>1, <1>3
  <2>6. b + v.width <= Budget \/ b + v.width > Budget
    BY <1>1, <1>3
  <2> QED
    BY <2>1, <2>2, <2>3, <2>4, <2>5, <2>6
<1> QED
  BY <1>5 DEF NoFurther, p, q

\* An entry that declares more parts leaves less room for vectors.
LEMMA PackingMonotone ==
    ASSUME NEW d \in Nat, NEW e \in Nat, d <= e, NEW vectors \in Seq(Vectors)
    PROVE  Len(Packing(d, vectors)) <= Len(Packing(e, vectors))
<1> DEFINE l == Len(vectors)
<1>0. l \in Nat /\ \A i \in 1 .. l : vectors[i] \in Vectors
  OBVIOUS
<1> HIDE DEF l
<1>1. PICK r \in [ 0 .. l -> Parcels ] :
        /\ Packing(d, vectors) = r[l]
        /\ r[0] = << << >> >>
        /\ \A i \in 1 .. l : r[i] = Place(d, r[i - 1], vectors[i])
  BY <1>0, PackingRounds DEF l
<1>2. PICK s \in [ 0 .. l -> Parcels ] :
        /\ Packing(e, vectors) = s[l]
        /\ s[0] = << << >> >>
        /\ \A i \in 1 .. l : s[i] = Place(e, s[i - 1], vectors[i])
  BY <1>0, PackingRounds DEF l
<1> DEFINE T == { i \in 0 .. l : NoFurther(d, r[i], e, s[i]) }
<1>3. 0 \in T
  <2> DEFINE o == << << >> >>
  <2>1. Len(o) = 1 /\ o[1] = << >>
    OBVIOUS
  <2> HIDE DEF o
  <2>2. d * NameWidth <= e * NameWidth /\ d * NameWidth \in Nat /\ e * NameWidth \in Nat
    <3>1. NameWidth \in Nat /\ e <= e
      BY HeaderNumbers
    <3> QED
      BY <3>1, ProductGrows
  <2> DEFINE dw == d * NameWidth
             ew == e * NameWidth
  <2>3. LastWidth(d, o) = EntryHeader + dw + 0 /\ LastWidth(e, o) = EntryHeader + ew + 0
    BY <2>1, WidthGrows DEF LastWidth, FileWidth
  <2>4. dw <= ew /\ dw \in Nat /\ ew \in Nat /\ EntryHeader \in Nat
    BY <2>2, HeaderNumbers
  <2> HIDE DEF dw, ew
  <2>5. NoFurther(d, o, e, o)
    <3>1. EntryHeader + dw + 0 <= EntryHeader + ew + 0
      BY <2>4
    <3>2. LastWidth(d, o) <= LastWidth(e, o)
      BY <2>3, <3>1
    <3> QED
      BY <3>2 DEF NoFurther
  <2> QED
    <3>1. r[0] = o /\ s[0] = o
      BY <1>1, <1>2 DEF o
    <3>2. 0 \in 0 .. l
      BY <1>0
    <3> QED
      BY <2>5, <3>1, <3>2
<1>4. ASSUME NEW i \in 0 .. l - 1, i \in T PROVE i + 1 \in T
  <2>1. i + 1 \in 1 .. l /\ i + 1 \in 0 .. l /\ i \in 0 .. l /\ (i + 1) - 1 = i
    BY <1>0
  <2>2. /\ r[i + 1] = Place(d, r[i], vectors[i + 1])
        /\ s[i + 1] = Place(e, s[i], vectors[i + 1])
        /\ vectors[i + 1] \in Vectors /\ r[i] \in Parcels /\ s[i] \in Parcels
    BY <1>0, <1>1, <1>2, <2>1
  <2>3. NoFurther(d, r[i], e, s[i])
    BY <1>4
  <2>4. NoFurther(d, r[i + 1], e, s[i + 1])
    BY <2>2, <2>3, PlacedNoFurther
  <2> QED
    BY <2>1, <2>4
<1>5. l \in T
  <2> HIDE DEF T
  <2>1. \A i \in 0 .. l : i \in T
    BY <1>0, <1>3, <1>4, Upwards
  <2> QED
    BY <1>0, <2>1
<1>6. NoFurther(d, r[l], e, s[l])
  BY <1>5
<1>7. Len(r[l]) \in Nat /\ Len(s[l]) \in Nat
  <2>1. r[l] \in Parcels /\ s[l] \in Parcels
    BY <1>0, <1>1, <1>2
  <2> QED
    BY <2>1, Parcel
<1> QED
  BY <1>1, <1>2, <1>6, <1>7 DEF NoFurther

\* The search for an entry that declares the parts it needs always succeeds:
\* among the numbers of parts that are at least what they need, the least one
\* is exactly what it needs.
LEMMA SelfDeclaringExists ==
    ASSUME NEW vectors \in Seq(Vectors), Len(vectors) <= MaxVectors
    PROVE  SelfDeclaring(vectors) # {}
<1> DEFINE l == Len(vectors)
           needs == [ d \in 0 .. l |-> Len(Packing(d, vectors)) - 1 ]
           T == { d \in 0 .. l : needs[d] <= d }
<1>1. l \in Nat /\ l <= MaxVectors /\ MaxVectors \in Nat
  BY HeaderNumbers
<1> HIDE DEF l
<1>2. \A d \in 0 .. l : needs[d] \in 0 .. l /\ needs[d] = Len(Packing(d, vectors)) - 1
                        /\ Len(Packing(d, vectors)) \in Nat
  <2> SUFFICES ASSUME NEW d \in 0 .. l
               PROVE  Len(Packing(d, vectors)) \in 1 .. l + 1
    BY <1>1
  <2>1. d \in 0 .. MaxVectors
    BY <1>1
  <2> QED
    BY <2>1, PackingSound DEF l
<1>3. \A d, e \in 0 .. l : d <= e => needs[d] <= needs[e]
  <2> SUFFICES ASSUME NEW d \in 0 .. l, NEW e \in 0 .. l, d <= e PROVE needs[d] <= needs[e]
    OBVIOUS
  <2>1. d \in Nat /\ e \in Nat
    BY <1>1
  <2>2. Len(Packing(d, vectors)) <= Len(Packing(e, vectors))
    BY <2>1, PackingMonotone
  <2> HIDE DEF needs
  <2> QED
    BY <1>2, <2>2
<1> HIDE DEF needs
<1>4. T \subseteq Nat /\ T # {}
  <2>1. l \in 0 .. l /\ needs[l] <= l
    BY <1>1, <1>2
  <2> QED
    BY <1>1, <2>1
<1>5. PICK d \in T : \A e \in T : d <= e
  <2> HIDE DEF T
  <2> QED
    BY <1>4, NatMinimum
<1>6. d \in 0 .. l /\ needs[d] \in 0 .. l /\ needs[d] <= d
  BY <1>2
<1>7. needs[needs[d]] <= needs[d]
  BY <1>3, <1>6
<1>8. d <= needs[d]
  BY <1>5, <1>6, <1>7
<1>9. needs[d] = d
  BY <1>1, <1>6, <1>8
<1>10. Len(Packing(d, vectors)) = d + 1
  BY <1>1, <1>2, <1>6, <1>9
<1> QED
  BY <1>6, <1>10 DEF SelfDeclaring, l

\* What is packed declares its own number of parts, in files that keep the
\* budget and hold every vector once, in order.
LEMMA PackSound ==
    ASSUME NEW vectors \in Seq(Vectors), Len(vectors) <= MaxVectors
    PROVE  /\ Pack(vectors) \in Parcels
           /\ Len(Pack(vectors)) \in 1 .. Len(vectors) + 1
           /\ FlattenSeq(Pack(vectors)) = vectors
           /\ \A i \in DOMAIN Pack(vectors) :
                FileWidth(i, Len(Pack(vectors)) - 1, Pack(vectors)[i]) <= Budget
<1> DEFINE S == SelfDeclaring(vectors)
           d == CHOOSE d \in S : \A e \in S : d <= e
           packed == Packing(d, vectors)
<1>1. S \subseteq Nat /\ S # {}
  BY SelfDeclaringExists DEF SelfDeclaring
<1> HIDE DEF S
<1>2. d \in S
  <2>1. \E c \in S : \A e \in S : c <= e
    BY <1>1, NatMinimum
  <2> QED
    BY <2>1
<1>3. Pack(vectors) = packed
  BY DEF Pack, S
<1> HIDE DEF d
<1>4. d \in 0 .. Len(vectors) /\ Len(packed) = d + 1
  BY <1>2 DEF SelfDeclaring, S
<1>5. d \in 0 .. MaxVectors /\ d \in Nat
  BY <1>4, HeaderNumbers
<1>6. /\ packed \in Parcels
      /\ Len(packed) \in 1 .. Len(vectors) + 1
      /\ FitsEach(d, packed)
      /\ FlattenSeq(packed) = vectors
  BY <1>5, PackingSound
<1> HIDE DEF packed
<1>7. Len(packed) - 1 = d /\ DOMAIN packed = 1 .. Len(packed)
  BY <1>4, <1>5, <1>6, Parcel
<1>8. \A i \in DOMAIN packed : FileWidth(i, Len(packed) - 1, packed[i]) <= Budget
  BY <1>6, <1>7 DEF FitsEach
<1> QED
  BY <1>3, <1>6, <1>8

------------------------------------------------------------------------------
(* The inductive invariant *)

CorpusFile ==
  [ state : {"written"}, vectors : Seq(Vectors), parts : Seq(Files),
    version : {"v1", "v2"}, extra : {"none", "list", "conflict"},
    recipe : {"none", "recorded", "stale"}, oversized : BOOLEAN ]

\* What the directory may hold, and what a writer may still have to write.
CorpusInv ==
  /\ corpus \in Seq(Vectors) /\ Len(corpus) <= MaxVectors
  /\ directory \in [ Files -> {NoFile, Torn} \cup CorpusFile ]
  /\ writing \in Seq([ name : Files, file : CorpusFile ])
  /\ corpusEdits \in Nat

LEMMA FileStates ==
    /\ NoFile.state # "written" /\ Torn.state # "written"
    /\ \A f \in CorpusFile : f.state = "written" /\ f # NoFile
    /\ \A f \in {NoFile, Torn} \cup CorpusFile : f.state = "written" => f \in CorpusFile
BY DEF NoFile, Torn, CorpusFile

\* Every generated file is a well-formed one.
LEMMA GeneratedTyped ==
    ASSUME corpus \in Seq(Vectors), Len(corpus) <= MaxVectors
    PROVE  /\ DOMAIN Generated = 1 .. Len(Pack(corpus))
           /\ Len(Pack(corpus)) \in 1 .. MaxVectors + 1
           /\ \A i \in DOMAIN Generated :
                /\ i \in Files
                /\ Generated[i] \in CorpusFile
                /\ Generated[i].vectors = Pack(corpus)[i]
           /\ Generated[1].parts = PartsOf(Pack(corpus))
<1> DEFINE packed == Pack(corpus)
           n == Len(packed)
<1>1. packed \in Parcels /\ n \in 1 .. Len(corpus) + 1
  BY PackSound
<1>2. n \in 1 .. MaxVectors + 1 /\ MaxVectors \in Nat
  BY <1>1, HeaderNumbers
<1>3. DOMAIN packed = 1 .. n /\ \A i \in 1 .. n : packed[i] \in Seq(Vectors)
  BY <1>1, Parcel
<1>4. Generated = [ i \in DOMAIN packed |->
                      File(packed[i], IF i = 1 THEN PartsOf(packed) ELSE << >>) ]
  BY DEF Generated
<1> HIDE DEF packed
<1>5. PartsOf(packed) \in Seq(Files)
  <2>1. \A i \in 1 .. n - 1 : i + 1 \in Files
    BY <1>2 DEF Files
  <2>2. PartsOf(packed) = [ i \in 1 .. n - 1 |-> i + 1 ] /\ n - 1 \in Nat
    BY <1>2 DEF PartsOf
  <2> HIDE DEF n
  <2> QED
    BY <2>1, <2>2
<1>6. << >> \in Seq(Files)
  OBVIOUS
<1>7. ASSUME NEW i \in 1 .. n
      PROVE  i \in Files /\ Generated[i] \in CorpusFile /\ Generated[i].vectors = packed[i]
  <2> DEFINE parts == IF i = 1 THEN PartsOf(packed) ELSE << >>
  <2>1. Generated[i] = File(packed[i], parts)
    BY <1>3, <1>4
  <2>2. parts \in Seq(Files) /\ packed[i] \in Seq(Vectors)
    BY <1>3, <1>5, <1>6
  <2>3. i \in Files
    BY <1>2 DEF Files
  <2> HIDE DEF parts
  <2> QED
    BY <2>1, <2>2, <2>3 DEF File, CorpusFile
<1>8. Generated[1].parts = PartsOf(packed)
  <2>1. 1 \in DOMAIN packed
    BY <1>2, <1>3
  <2> QED
    BY <1>4, <2>1 DEF File
<1>9. DOMAIN Generated = 1 .. n
  BY <1>3, <1>4
<1> QED
  BY <1>2, <1>7, <1>8, <1>9 DEF packed

LEMMA CorpusInitHolds == ASSUME CorpusInit PROVE CorpusInv
<1>1. PICK n \in 1 .. MaxVectors, w \in [ 1 .. MaxVectors -> Widths ] :
        corpus = [ i \in 1 .. n |-> [ id |-> i, width |-> w[i] ] ]
  BY DEF CorpusInit
<1>2. corpus \in Seq(Vectors) /\ Len(corpus) <= MaxVectors
  <2>1. MaxVectors \in Nat /\ n \in Nat
    BY HeaderNumbers
  <2>2. corpus \in [ 1 .. n -> Vectors ]
    BY <1>1, <2>1 DEF Vectors
  <2>3. corpus \in Seq(Vectors) /\ Len(corpus) = n
    BY <2>1, <2>2
  <2> QED
    BY <2>1, <2>3
<1>3. directory \in [ Files -> {NoFile, Torn} \cup CorpusFile ]
  <2>1. directory = [ i \in Files |-> IF i \in DOMAIN Generated THEN Generated[i] ELSE NoFile ]
    BY DEF CorpusInit
  <2> QED
    BY <1>2, <2>1, GeneratedTyped
<1>4. writing \in Seq([ name : Files, file : CorpusFile ]) /\ corpusEdits \in Nat
  BY DEF CorpusInit
<1> QED
  BY <1>2, <1>3, <1>4 DEF CorpusInv

LEMMA BeginWriteKeeps == ASSUME CorpusInv, BeginWrite PROVE CorpusInv'
<1>1. UNCHANGED << corpus, directory, corpusEdits >>
  BY DEF BeginWrite
<1>2. writing' = [ i \in DOMAIN Generated |-> [ name |-> i, file |-> Generated[i] ] ]
  BY DEF BeginWrite
<1>3. writing' \in Seq([ name : Files, file : CorpusFile ])
  <2> DEFINE n == Len(Pack(corpus))
  <2>1. /\ DOMAIN Generated = 1 .. n /\ n \in Nat
        /\ \A i \in DOMAIN Generated : i \in Files /\ Generated[i] \in CorpusFile
    BY GeneratedTyped, HeaderNumbers DEF CorpusInv
  <2> HIDE DEF n
  <2> DEFINE Pending == [ name : Files, file : CorpusFile ]
  <2>2. writing' \in [ 1 .. n -> Pending ]
    BY <1>2, <2>1
  <2> HIDE DEF Pending
  <2>3. writing' \in Seq(Pending)
    BY <2>1, <2>2
  <2> QED
    BY <2>3 DEF Pending
<1> QED
  BY <1>1, <1>3 DEF CorpusInv

LEMMA WriteFileKeeps == ASSUME CorpusInv, WriteFile PROVE CorpusInv'
<1> DEFINE next == Head(writing)
           Pending == [ name : Files, file : CorpusFile ]
<1>1. writing \in Seq(Pending) /\ writing # << >>
  BY DEF CorpusInv, WriteFile
<1>2. next \in Pending /\ Tail(writing) \in Seq(Pending)
  BY <1>1, HeadTailProperties
<1>3. next.name \in Files /\ next.file \in CorpusFile
  BY <1>2
<1>4. directory' \in [ Files -> {NoFile, Torn} \cup CorpusFile ]
  BY <1>3 DEF CorpusInv, WriteFile
<1>5. writing' \in Seq(Pending)
  BY <1>1, <1>2 DEF WriteFile
<1> QED
  BY <1>4, <1>5 DEF CorpusInv, WriteFile

LEMMA EditGeneratorKeeps == ASSUME CorpusInv, EditGenerator PROVE CorpusInv'
<1>1. UNCHANGED << directory, writing >> /\ corpusEdits' = corpusEdits + 1
  BY DEF EditGenerator
<1>2. corpus' \in Seq(Vectors) /\ Len(corpus') <= MaxVectors
  <2>0. corpus \in Seq(Vectors) /\ Len(corpus) \in Nat /\ Len(corpus) <= MaxVectors /\ MaxVectors \in Nat
    BY HeaderNumbers DEF CorpusInv
  <2>1. ASSUME NEW w \in Widths, Len(corpus) < MaxVectors,
               corpus' = Append(corpus, [ id |-> MaxVectors + corpusEdits + 1, width |-> w ])
        PROVE  corpus' \in Seq(Vectors) /\ Len(corpus') <= MaxVectors
    <3> DEFINE v == [ id |-> MaxVectors + corpusEdits + 1, width |-> w ]
    <3>1. v \in Vectors
      BY <2>0 DEF CorpusInv, Vectors
    <3> HIDE DEF v
    <3>2. corpus' = Append(corpus, v)
      BY <2>1 DEF v
    <3> QED
      BY <2>0, <2>1, <3>1, <3>2
  <2>2. ASSUME Len(corpus) > 1, corpus' = Tail(corpus)
        PROVE  corpus' \in Seq(Vectors) /\ Len(corpus') <= MaxVectors
    <3>1. corpus # << >>
      BY <2>2
    <3>2. Tail(corpus) \in Seq(Vectors) /\ Len(Tail(corpus)) = Len(corpus) - 1
      BY <2>0, <3>1, HeadTailProperties
    <3> QED
      BY <2>0, <2>2, <3>2
  <2> QED
    BY <2>1, <2>2 DEF EditGenerator
<1> QED
  BY <1>1, <1>2 DEF CorpusInv

LEMMA EditFileKeeps == ASSUME CorpusInv, NEW i \in Files, EditFile(i) PROVE CorpusInv'
<1>1. /\ UNCHANGED << corpus, writing >> /\ corpusEdits' = corpusEdits + 1
      /\ directory[i].state = "written"
  BY DEF EditFile
<1>2. PICK edited \in EditedFiles(i) : directory' = [ directory EXCEPT ![i] = edited ]
  BY DEF EditFile
<1> DEFINE f == directory[i]
<1>3. f \in CorpusFile
  BY <1>1, FileStates DEF CorpusInv
<1> HIDE DEF f
<1>4. edited \in {NoFile} \cup CorpusFile
  <2>1. \/ edited = NoFile
        \/ edited = [ f EXCEPT !.version = "v2" ]
        \/ edited = [ f EXCEPT !.oversized = TRUE ]
        \/ \E e \in {"list", "conflict"} : edited = [ f EXCEPT !.extra = e ]
        \/ \E s \in {"recorded", "stale"} : edited = [ f EXCEPT !.recipe = s ]
        \/ \E p \in { << 2 >>, << 2, 2 >>, << 1 >>, << >> } : edited = [ f EXCEPT !.parts = p ]
    BY <1>2 DEF EditedFiles, f
  <2>2. \A p \in { << 2 >>, << 2, 2 >>, << 1 >>, << >> } : p \in Seq(Files)
    <3>1. 1 \in Files /\ 2 \in Files
      BY HeaderNumbers DEF Files
    <3>2. << 2 >> \in Seq(Files)
      BY <3>1
    <3>3. << 2, 2 >> \in Seq(Files)
      BY <3>1
    <3>4. << 1 >> \in Seq(Files)
      BY <3>1
    <3>5. << >> \in Seq(Files)
      OBVIOUS
    <3> QED
      BY <3>2, <3>3, <3>4, <3>5
  <2>3. /\ [ f EXCEPT !.version = "v2" ] \in CorpusFile
        /\ [ f EXCEPT !.oversized = TRUE ] \in CorpusFile
    BY <1>3 DEF CorpusFile
  <2>4. \A e \in {"list", "conflict"} : [ f EXCEPT !.extra = e ] \in CorpusFile
    BY <1>3 DEF CorpusFile
  <2>5. \A s \in {"recorded", "stale"} : [ f EXCEPT !.recipe = s ] \in CorpusFile
    BY <1>3 DEF CorpusFile
  <2>6. ASSUME NEW p \in Seq(Files) PROVE [ f EXCEPT !.parts = p ] \in CorpusFile
    BY <1>3 DEF CorpusFile
  <2> QED
    BY <2>1, <2>2, <2>3, <2>4, <2>5, <2>6
<1> QED
  BY <1>1, <1>2, <1>4 DEF CorpusInv

LEMMA CorpusStepPreserves == ASSUME CorpusInv, [CorpusNext]_corpusVars PROVE CorpusInv'
<1>1. CASE BeginWrite
  BY <1>1, BeginWriteKeeps
<1>2. CASE WriteFile
  BY <1>2, WriteFileKeeps
<1>3. CASE InterruptWrite
  BY <1>3 DEF CorpusInv, InterruptWrite
<1>4. CASE EditGenerator
  BY <1>4, EditGeneratorKeeps
<1>5. ASSUME NEW i \in Files, EditFile(i) PROVE CorpusInv'
  BY <1>5, EditFileKeeps
<1>6. ASSUME NEW i \in Files, NEW j \in Files, CopyFile(i, j) PROVE CorpusInv'
  BY <1>6 DEF CorpusInv, CopyFile
<1>7. CASE UNCHANGED corpusVars
  BY <1>7 DEF CorpusInv, corpusVars
<1> QED
  BY <1>1, <1>2, <1>3, <1>4, <1>5, <1>6, <1>7 DEF CorpusNext

\* The corpus, its files and what is still to be written stay well formed.
THEOREM CorpusInvariant == CorpusSpec => []CorpusInv
<1>1. CorpusInit => CorpusInv
  BY CorpusInitHolds
<1>2. CorpusInv /\ [CorpusNext]_corpusVars => CorpusInv'
  BY CorpusStepPreserves
<1> QED
  BY <1>1, <1>2, PTL DEF CorpusSpec

Merges(r, parts) ==
  r = [ i \in 0 .. Len(parts) |->
          IF i = 0 THEN directory[1].vectors ELSE r[i - 1] \o directory[parts[i]].vectors ]

\* Every reader begins with a written entry whose parts are written files.
LEMMA ReadFiles ==
    ASSUME CorpusInv, NEW tool, Reads(tool)
    PROVE  /\ directory[1] \in CorpusFile
           /\ \A i \in DOMAIN directory[1].parts : directory[directory[1].parts[i]] \in CorpusFile
           /\ \A i \in Files : directory[i].state = "written" =>
                i = 1 \/ \E k \in 1 .. Len(directory[1].parts) : directory[1].parts[k] = i
<1> DEFINE parts == directory[1].parts
<1>1. 1 \in Files
  BY HeaderNumbers DEF Files
<1>2. directory[1].state = "written" /\ directory[1] \in {NoFile, Torn} \cup CorpusFile
  BY <1>1 DEF CorpusInv, Reads, EntryRead
<1>3. directory[1] \in CorpusFile
  BY <1>2, FileStates
<1>4. parts \in Seq(Files)
  BY <1>3 DEF CorpusFile
<1>5. DOMAIN parts = 1 .. Len(parts) /\ \A i \in 1 .. Len(parts) : parts[i] \in Files
  BY <1>4
<1>6. ASSUME NEW i \in DOMAIN parts PROVE directory[parts[i]] \in CorpusFile
  <2>1. parts[i] \in ToSet(parts) /\ parts[i] \in Files
    BY <1>5 DEF ToSet
  <2>2. PartRead(tool, directory[parts[i]])
    BY <2>1 DEF Reads
  <2>3. directory[parts[i]].state = "written" /\ directory[parts[i]] \in {NoFile, Torn} \cup CorpusFile
    BY <2>1, <2>2 DEF PartRead, CorpusInv
  <2> QED
    BY <2>3, FileStates
<1>7. ASSUME NEW i \in Files, directory[i].state = "written", i # 1
      PROVE  \E k \in 1 .. Len(parts) : parts[k] = i
  <2>1. directory[i] # NoFile
    BY <1>7 DEF NoFile
  <2>2. i \in Listed
    BY <1>7, <2>1 DEF Listed
  <2>3. i \in ToSet(parts)
    BY <2>2 DEF Reads, NoOrphan
  <2> QED
    BY <1>5, <2>3 DEF ToSet
<1> QED
  BY <1>3, <1>6, <1>7

\* The vectors merged are appended part by part.
LEMMA MergedSteps ==
    ASSUME CorpusInv, NEW tool, Reads(tool)
    PROVE  LET parts == directory[1].parts
               l == Len(parts)
           IN  \E r : /\ Merged = r[l]
                      /\ r[0] = directory[1].vectors
                      /\ \A i \in 1 .. l : r[i] = r[i - 1] \o directory[parts[i]].vectors
                      /\ \A i \in 0 .. l : r[i] \in Seq(Vectors)
<1> DEFINE parts == directory[1].parts
           l == Len(parts)
           first == directory[1].vectors
           step == [ i \in 1 .. l |-> [ s \in Seq(Vectors) |-> s \o directory[parts[i]].vectors ] ]
           K == CHOOSE r : Merges(r, parts)
<1>1. /\ l \in Nat /\ first \in Seq(Vectors)
      /\ \A i \in 1 .. l : directory[parts[i]].vectors \in Seq(Vectors)
  <2>1. parts \in Seq(Files) /\ first \in Seq(Vectors)
    BY ReadFiles DEF CorpusFile
  <2>2. DOMAIN parts = 1 .. l /\ l \in Nat
    BY <2>1
  <2>3. \A i \in DOMAIN parts : directory[parts[i]].vectors \in Seq(Vectors)
    BY ReadFiles DEF CorpusFile
  <2> QED
    BY <2>1, <2>2, <2>3
<1> HIDE DEF l, first
<1>2. \A i \in 1 .. l : \A s \in Seq(Vectors) :
        /\ step[i][s] = s \o directory[parts[i]].vectors
        /\ step[i][s] \in Seq(Vectors)
  <2> SUFFICES ASSUME NEW i \in 1 .. l, NEW s \in Seq(Vectors)
               PROVE  s \o directory[parts[i]].vectors \in Seq(Vectors)
    OBVIOUS
  <2>1. directory[parts[i]].vectors \in Seq(Vectors)
    BY <1>1
  <2> QED
    BY <2>1
<1> HIDE DEF step, parts
<1>3. PICK f \in [ 0 .. l -> Seq(Vectors) ] : Iterates(f, first, step, l)
  <2>1. \A i \in 1 .. l : \A s \in Seq(Vectors) : step[i][s] \in Seq(Vectors)
    BY <1>2
  <2> QED
    BY <1>1, <2>1, Iteration
<1>4. Merges(f, parts)
  <2>1. f = [ i \in 0 .. l |-> IF i = 0 THEN first ELSE step[i][f[i - 1]] ]
    BY <1>3 DEF Iterates
  <2>2. ASSUME NEW i \in 0 .. l, i # 0
        PROVE  step[i][f[i - 1]] = f[i - 1] \o directory[parts[i]].vectors
    <3>1. i \in 1 .. l /\ i - 1 \in 0 .. l
      BY <1>1, <2>2
    <3>2. f[i - 1] \in Seq(Vectors)
      BY <1>3, <3>1
    <3> QED
      BY <1>2, <3>1, <3>2
  <2>3. f = [ i \in 0 .. l |-> IF i = 0 THEN first ELSE f[i - 1] \o directory[parts[i]].vectors ]
    BY <2>1, <2>2
  <2> QED
    BY <2>3 DEF Merges, l, first
<1>5. Merges(K, parts)
  BY <1>4, Zenon
<1>6. Merged = K[l]
  BY DEF Merged, Merges, l, parts
<1> HIDE DEF K
<1>7. K = [ i \in 0 .. l |-> IF i = 0 THEN first ELSE K[i - 1] \o directory[parts[i]].vectors ]
  BY <1>5 DEF Merges, l, first
<1>8. \A i \in 0 .. l : K[i] = IF i = 0 THEN first ELSE K[i - 1] \o directory[parts[i]].vectors
  BY <1>7
<1>9. K[0] = first /\ \A i \in 1 .. l : K[i] = K[i - 1] \o directory[parts[i]].vectors
  <2>1. 0 \in 0 .. l /\ \A i \in 1 .. l : i \in 0 .. l /\ i # 0
    BY <1>1
  <2> QED
    BY <1>8, <2>1
<1>10. \A i \in 0 .. l : K[i] \in Seq(Vectors)
  <2> DEFINE T == { n \in 0 .. l : K[n] \in Seq(Vectors) }
  <2>1. 0 \in T
    BY <1>1, <1>9
  <2>2. ASSUME NEW n \in 0 .. l - 1, n \in T PROVE n + 1 \in T
    <3>1. n + 1 \in 1 .. l /\ n + 1 \in 0 .. l /\ (n + 1) - 1 = n
      BY <1>1
    <3> DEFINE more == directory[parts[n + 1]].vectors
    <3>2. K[n + 1] = K[n] \o more
      BY <1>9, <3>1
    <3>3. K[n] \in Seq(Vectors) /\ more \in Seq(Vectors)
      BY <1>1, <2>2, <3>1
    <3> HIDE DEF more
    <3>4. K[n + 1] \in Seq(Vectors)
      BY <3>2, <3>3
    <3> QED
      BY <3>1, <3>4
  <2> HIDE DEF T
  <2>3. \A n \in 0 .. l : n \in T
    BY <1>1, <2>1, <2>2, Upwards
  <2> QED
    BY <2>3 DEF T
<1> QED
  BY <1>6, <1>9, <1>10 DEF l, first, parts

LEMMA MembersJoined ==
    ASSUME NEW S, NEW s \in Seq(S), NEW t \in Seq(S)
    PROVE  ToSet(s) \subseteq ToSet(s \o t) /\ ToSet(t) \subseteq ToSet(s \o t)
<1>1. /\ DOMAIN s = 1 .. Len(s) /\ DOMAIN t = 1 .. Len(t)
      /\ Len(s) \in Nat /\ Len(t) \in Nat
      /\ s \o t \in Seq(S) /\ Len(s \o t) = Len(s) + Len(t)
  OBVIOUS
<1>2. \A i \in 1 .. Len(s) + Len(t) : (s \o t)[i] = IF i <= Len(s) THEN s[i] ELSE t[i - Len(s)]
  BY ConcatProperties
<1>3. DOMAIN (s \o t) = 1 .. Len(s) + Len(t)
  BY <1>1
<1>4. ASSUME NEW i \in DOMAIN s PROVE s[i] \in ToSet(s \o t)
  <2>1. i \in 1 .. Len(s) + Len(t) /\ i <= Len(s)
    BY <1>1
  <2>2. (s \o t)[i] = s[i]
    BY <1>2, <2>1
  <2> QED
    BY <1>3, <2>1, <2>2 DEF ToSet
<1>5. ASSUME NEW i \in DOMAIN t PROVE t[i] \in ToSet(s \o t)
  <2> DEFINE j == Len(s) + i
  <2>1. j \in 1 .. Len(s) + Len(t) /\ ~ (j <= Len(s)) /\ j - Len(s) = i
    BY <1>1
  <2> HIDE DEF j
  <2>2. (s \o t)[j] = t[i]
    BY <1>2, <2>1
  <2> QED
    BY <1>3, <2>1, <2>2 DEF ToSet
<1> QED
  BY <1>4, <1>5 DEF ToSet

\* No vector of a written file is left out of what a reader accepts.
LEMMA MergedHoldsAll ==
    ASSUME CorpusInv, NEW tool, Reads(tool), NEW i \in Files, directory[i].state = "written"
    PROVE  ToSet(directory[i].vectors) \subseteq ToSet(Merged)
<1> DEFINE parts == directory[1].parts
           l == Len(parts)
           part(k) == directory[parts[k]].vectors
<1>1. PICK r : /\ Merged = r[l]
               /\ r[0] = directory[1].vectors
               /\ \A k \in 1 .. l : r[k] = r[k - 1] \o part(k)
               /\ \A k \in 0 .. l : r[k] \in Seq(Vectors)
  BY MergedSteps
<1>2. /\ l \in Nat
      /\ \A k \in 1 .. l : part(k) \in Seq(Vectors)
  <2>1. parts \in Seq(Files)
    BY ReadFiles DEF CorpusFile
  <2>2. DOMAIN parts = 1 .. l /\ l \in Nat
    BY <2>1
  <2>3. \A k \in DOMAIN parts : directory[parts[k]].vectors \in Seq(Vectors)
    BY ReadFiles DEF CorpusFile
  <2> QED
    BY <2>2, <2>3
<1>3. i = 1 \/ \E k \in 1 .. l : parts[k] = i
  BY ReadFiles
<1> HIDE DEF l, parts, part
<1> DEFINE T == { n \in 0 .. l : /\ ToSet(r[0]) \subseteq ToSet(r[n])
                               /\ \A k \in 1 .. n : ToSet(part(k)) \subseteq ToSet(r[n]) }
<1>4. 0 \in T
  BY <1>2
<1>5. ASSUME NEW n \in 0 .. l - 1, n \in T PROVE n + 1 \in T
  <2>1. n + 1 \in 1 .. l /\ n + 1 \in 0 .. l /\ (n + 1) - 1 = n /\ n \in 0 .. l /\ n \in Nat
    BY <1>2
  <2>2. r[n + 1] = r[n] \o part(n + 1) /\ r[n] \in Seq(Vectors) /\ part(n + 1) \in Seq(Vectors)
    BY <1>1, <1>2, <2>1
  <2>3. ToSet(r[n]) \subseteq ToSet(r[n + 1]) /\ ToSet(part(n + 1)) \subseteq ToSet(r[n + 1])
    BY <2>2, MembersJoined
  <2>4. \A k \in 1 .. n + 1 : k \in 1 .. n \/ k = n + 1
    BY <2>1
  <2> QED
    BY <1>5, <2>1, <2>3, <2>4
<1>6. l \in T
  <2> HIDE DEF T
  <2>1. \A n \in 0 .. l : n \in T
    BY <1>2, <1>4, <1>5, Upwards
  <2> QED
    BY <1>2, <2>1
<1> QED
  BY <1>1, <1>3, <1>6 DEF part

\* What is read where the check passes is what the generator builds.
LEMMA MergedIsCorpus ==
    ASSUME CorpusInv, NEW tool, Reads(tool), CheckReceiptVectors
    PROVE  Merged = corpus
<1> DEFINE packed == Pack(corpus)
           n == Len(packed)
           parts == directory[1].parts
<1>0. corpus \in Seq(Vectors) /\ Len(corpus) <= MaxVectors
  BY DEF CorpusInv
<1>1. /\ packed \in Seq(Seq(Vectors)) /\ n \in Nat /\ n >= 1
      /\ FlattenSeq(packed) = corpus
  BY <1>0, PackSound, HeaderNumbers DEF Parcels
<1>2. PICK q : /\ FlattenSeq(packed) = q[n]
               /\ q[1] = packed[1]
               /\ \A i \in 2 .. n : q[i] = q[i - 1] \o packed[i]
  <2>1. Len(packed) # 0
    BY <1>1
  <2> HIDE DEF packed
  <2>2. \E q : /\ FlattenSeq(packed) = q[Len(packed)]
               /\ q[1] = packed[1]
               /\ \A i \in 2 .. Len(packed) : q[i] = q[i - 1] \o packed[i]
               /\ \A i \in 1 .. Len(packed) : q[i] \in Seq(Vectors)
    BY <1>1, <2>1, FlattenSteps
  <2> QED
    BY <2>2
<1>3. /\ \A i \in 1 .. n : directory[i] = Generated[i] /\ directory[i].vectors = packed[i]
      /\ parts = PartsOf(packed)
  <2>1. /\ DOMAIN Generated = 1 .. n
        /\ \A i \in DOMAIN Generated : Generated[i].vectors = packed[i]
        /\ Generated[1].parts = PartsOf(packed)
    BY <1>0, GeneratedTyped
  <2>2. \A i \in DOMAIN Generated : directory[i] = Generated[i]
    BY DEF CheckReceiptVectors, SameText
  <2>3. 1 \in 1 .. n
    BY <1>1
  <2> HIDE DEF packed, n
  <2> QED
    BY <2>1, <2>2, <2>3
<1>4. Len(parts) = n - 1 /\ \A i \in 1 .. n - 1 : parts[i] = i + 1
  <2>1. parts = [ i \in 1 .. n - 1 |-> i + 1 ]
    BY <1>3 DEF PartsOf
  <2>2. n - 1 \in Nat
    BY <1>1
  <2> HIDE DEF n, parts
  <2> QED
    BY <2>1, <2>2
<1>5. PICK r : /\ Merged = r[Len(parts)]
               /\ r[0] = directory[1].vectors
               /\ \A k \in 1 .. Len(parts) : r[k] = r[k - 1] \o directory[parts[k]].vectors
  BY MergedSteps
<1> HIDE DEF packed, n, parts
<1> DEFINE m == n - 1
           T == { k \in 0 .. m : r[k] = q[k + 1] }
<1>6. 0 \in T
  <2>1. 1 \in 1 .. n /\ 0 \in 0 .. m /\ 0 + 1 = 1
    BY <1>1
  <2> QED
    BY <1>2, <1>3, <1>5, <2>1
<1>7. ASSUME NEW k \in 0 .. m - 1, k \in T PROVE k + 1 \in T
  <2>1. /\ k + 1 \in 1 .. m /\ k + 1 \in 0 .. m /\ (k + 1) - 1 = k
        /\ (k + 1) + 1 \in 2 .. n /\ (k + 1) + 1 \in 1 .. n /\ ((k + 1) + 1) - 1 = k + 1
        /\ k + 1 \in 1 .. Len(parts)
    BY <1>1, <1>4
  <2>2. r[k + 1] = r[k] \o directory[(k + 1) + 1].vectors
    BY <1>4, <1>5, <2>1
  <2>3. q[(k + 1) + 1] = q[k + 1] \o packed[(k + 1) + 1]
    BY <1>2, <2>1
  <2>4. directory[(k + 1) + 1].vectors = packed[(k + 1) + 1]
    BY <1>3, <2>1
  <2>5. r[k] = q[k + 1]
    BY <1>7
  <2>6. r[k + 1] = q[(k + 1) + 1]
    BY <2>2, <2>3, <2>4, <2>5
  <2> QED
    BY <2>1, <2>6
<1>8. m \in Nat /\ m + 1 = n
  BY <1>1
<1>9. m \in T
  <2> HIDE DEF T, m
  <2>1. \A k \in 0 .. m : k \in T
    BY <1>6, <1>7, <1>8, Upwards
  <2> QED
    BY <1>8, <2>1
<1>10. r[m] = q[n]
  BY <1>8, <1>9
<1> QED
  BY <1>1, <1>2, <1>4, <1>5, <1>10

LEMMA CorpusInvComplete == CorpusInv => PackingComplete
<1> SUFFICES ASSUME CorpusInv PROVE PackingComplete
  OBVIOUS
<1>1. corpus \in Seq(Vectors) /\ Len(corpus) <= MaxVectors
  BY DEF CorpusInv
<1> QED
  BY <1>1, SelfDeclaringExists, PackSound DEF PackingComplete

LEMMA CorpusInvNothingLeft == CorpusInv => NothingLeftOut
<1> SUFFICES ASSUME CorpusInv, NEW tool \in Readers, Accepts(tool)
             PROVE  /\ \A i \in Files : directory[i].state = "written" =>
                         ToSet(directory[i].vectors) \subseteq ToSet(Merged)
                    /\ Merged = corpus \/ ~CheckReceiptVectors
  BY DEF NothingLeftOut
<1>1. Reads(tool)
  BY DEF Accepts
<1> QED
  BY <1>1, MergedHoldsAll, MergedIsCorpus

\* Some entry always declares the parts its packing uses: the generator never
\* runs out of packings, and its files keep the budget and every vector.
THEOREM SomePackingFits == CorpusSpec => []PackingComplete
  BY CorpusInvariant, CorpusInvComplete, PTL

\* No reader accepts a directory with a vector it does not read; where the
\* check passes, what is read is what was generated.
THEOREM NoVectorLeftOut == CorpusSpec => []NothingLeftOut
  BY CorpusInvariant, CorpusInvNothingLeft, PTL

------------------------------------------------------------------------------
(* Exports (LocalExport)                                                   *)

------------------------------------------------------------------------------
(* The inductive invariant *)

Places == {0} \cup Media
Contents == [ path : Nat, edition : Nat ]
Present(content) == { p \in Places : content[p] # Nowhere }

\* A file has its path and an edition, or is not there yet; few are there.
Content(content) ==
  /\ content \in [ Places -> {Nowhere} \cup Contents ]
  /\ \A p \in Present(content) : content[p].path = p
  /\ IsFiniteSet(Present(content))

\* An inventory names the files there are, each as it is or as it once was.
Tracks(files, content) ==
  /\ Len(files) \in Nat /\ DOMAIN files = 1 .. Len(files)
  /\ { files[i].path : i \in DOMAIN files } = Present(content)
  /\ \A i \in DOMAIN files : \E e \in 0 .. content[files[i].path].edition :
       files[i].sha256 = Digest(Bytes(files[i].path, e))

DossierSound ==
  /\ Content(bytes)
  /\ bytes[0] # Nowhere
  /\ DOMAIN payload = {"createdAt", "reviewedAt", "text", "observations", "cited", "files"}
  /\ payload.text = bytes[0].edition
  /\ Tracks(payload.files, bytes)

\* What was shown is history, and the files have only moved on since.
ShownSound ==
  shown # Nowhere =>
    /\ approval = [ payloadDigest |-> Digest(shown.payload), approvedAt |-> shown.at ]
    /\ Content(shown.bytes)
    /\ Tracks(shown.payload.files, shown.bytes)
    /\ \A p \in Present(shown.bytes) :
         bytes[p] # Nowhere /\ bytes[p].edition >= shown.bytes[p].edition

DeliveredFiles == [ path : Places, kind : {"file", "symlink"}, bytes : Contents ]

\* A file delivered under a path shown is no older than what was shown.
NoOlder(file) ==
  file.path \in Present(shown.bytes) => file.bytes.edition >= shown.bytes[file.path].edition

ExportSound ==
  export # Nowhere =>
    /\ shown # Nowhere
    /\ DOMAIN export = {"state", "manifest", "files"}
    /\ export.manifest.approval = approval
    /\ export.files \in Seq(DeliveredFiles)
    /\ \A i \in DOMAIN export.files : NoOlder(export.files[i])

ExportInv == DossierSound /\ ShownSound /\ ExportSound

------------------------------------------------------------------------------
(* Inventories *)

Below(S, p) == Cardinality({ q \in S : q < p })

\* The number of smaller members counts the members of a finite set of
\* numbers off, each once.
LEMMA RanksCount ==
    ASSUME NEW S, S \subseteq Nat, IsFiniteSet(S)
    PROVE  /\ Cardinality(S) \in Nat
           /\ \A p \in S : Below(S, p) \in 0 .. Cardinality(S) - 1
           /\ \A p, q \in S : Below(S, p) = Below(S, q) => p = q
           /\ \A n \in 0 .. Cardinality(S) - 1 : \E p \in S : Below(S, p) = n
<1> DEFINE below(p) == { q \in S : q < p }
           card == Cardinality(S)
           rank == [ p \in S |-> Below(S, p) ]
<1>1. card \in Nat
  BY FS_CardinalityType
<1>2. \A p \in S : below(p) \in SUBSET S /\ below(p) # S /\ IsFiniteSet(below(p))
  BY FS_Subset
<1>3. ASSUME NEW p \in S PROVE Below(S, p) \in 0 .. card - 1
  <2> DEFINE U == below(p)
  <2>1. U \in SUBSET S /\ U # S /\ IsFiniteSet(U)
    BY <1>2
  <2> HIDE DEF U
  <2>2. Cardinality(U) \in Nat /\ Cardinality(U) <= card /\ Cardinality(U) # card
    BY <2>1, FS_Subset, FS_CardinalityType
  <2>3. Below(S, p) = Cardinality(U)
    BY DEF Below, U
  <2> QED
    BY <1>1, <2>2, <2>3
<1>4. ASSUME NEW p \in S, NEW q \in S, p < q PROVE Below(S, p) < Below(S, q)
  <2> DEFINE U == below(p)
             V == below(q)
  <2>1. U \in SUBSET V /\ p \in V /\ p \notin U
    <3>1. p \in Nat /\ q \in Nat /\ \A x \in S : x \in Nat
      OBVIOUS
    <3>2. p < q /\ ~ (p < p) /\ \A x \in S : x < p => x < q
      BY <1>4, <3>1
    <3> QED
      BY <3>2
  <2>2. IsFiniteSet(V)
    BY <1>2
  <2>3. Below(S, p) = Cardinality(U) /\ Below(S, q) = Cardinality(V)
    BY DEF Below
  <2> HIDE DEF U, V
  <2>4. Cardinality(U) \in Nat /\ Cardinality(V) \in Nat /\ Cardinality(U) <= Cardinality(V)
        /\ Cardinality(U) # Cardinality(V)
    BY <2>1, <2>2, FS_Subset, FS_CardinalityType
  <2> QED
    BY <2>3, <2>4
<1>5. ASSUME NEW p \in S, NEW q \in S, Below(S, p) = Below(S, q) PROVE p = q
  <2>1. CASE p < q
    BY <1>3, <1>4, <1>5, <2>1
  <2>2. CASE q < p
    BY <1>3, <1>4, <1>5, <2>2
  <2> QED
    BY <2>1, <2>2
<1>6. rank \in Injection(S, 0 .. card - 1)
  <2>1. rank \in [ S -> 0 .. card - 1 ]
    BY <1>3
  <2>2. \A p, q \in S : rank[p] = rank[q] => p = q
    BY <1>5
  <2> QED
    BY <2>1, <2>2 DEF Injection, IsInjective
<1>7. IsFiniteSet(0 .. card - 1) /\ Cardinality(0 .. card - 1) = card
  <2> HIDE DEF card
  <2>1. 0 \in Int /\ card - 1 \in Int
    BY <1>1
  <2>2. /\ IsFiniteSet(0 .. card - 1)
        /\ Cardinality(0 .. card - 1)
             = IF 0 > card - 1 THEN 0 ELSE (card - 1) - 0 + 1
    BY <2>1, FS_Interval
  <2> QED
    BY <1>1, <2>2
<1>8. rank \in Surjection(S, 0 .. card - 1)
  <2> HIDE DEF rank
  <2> QED
    BY <1>6, <1>7, FS_Injection
<1>9. \A n \in 0 .. card - 1 : \E p \in S : Below(S, p) = n
  BY <1>8 DEF Surjection
<1> QED
  BY <1>1, <1>3, <1>5, <1>9

LEMMA PlacesNumbered ==
    Places \subseteq Nat /\ 0 \in Places /\ Media \subseteq Places /\ 0 \notin Media
BY ExportAssumption DEF Places

LEMMA InventoryTracks ==
    ASSUME NEW content, Content(content), NEW media
    PROVE  Tracks(Inventory(content, media), content)
<1> DEFINE S == Present(content)
           n == Cardinality(S)
           files == Inventory(content, media)
           at(i) == CHOOSE p \in S : Below(S, p) = i - 1
<1>1. S \subseteq Nat /\ IsFiniteSet(S)
  BY PlacesNumbered DEF Content, Present
<1>2. S = { p \in DOMAIN content : content[p] # Nowhere }
  BY DEF Content, Present
<1>3. /\ n \in Nat
      /\ \A p \in S : Below(S, p) \in 0 .. n - 1
      /\ \A p, q \in S : Below(S, p) = Below(S, q) => p = q
      /\ \A k \in 0 .. n - 1 : \E p \in S : Below(S, p) = k
  BY <1>1, RanksCount
<1>4. files = [ i \in 1 .. n |-> Entry(at(i), content[at(i)], media[at(i)]) ]
  BY <1>2 DEF Inventory, Below
<1> HIDE DEF S, n, files
<1>5. \A i \in 1 .. n : at(i) \in S /\ Below(S, at(i)) = i - 1
  <2> SUFFICES ASSUME NEW i \in 1 .. n PROVE at(i) \in S /\ Below(S, at(i)) = i - 1
    OBVIOUS
  <2>1. i - 1 \in 0 .. n - 1
    BY <1>3
  <2>2. \E p \in S : Below(S, p) = i - 1
    BY <1>3, <2>1
  <2> QED
    BY <2>2
<1>6. \A p \in S : \E i \in 1 .. n : at(i) = p
  <2> SUFFICES ASSUME NEW p \in S PROVE \E i \in 1 .. n : at(i) = p
    OBVIOUS
  <2> DEFINE i == Below(S, p) + 1
  <2>1. i \in 1 .. n /\ i - 1 = Below(S, p)
    BY <1>3
  <2> HIDE DEF i
  <2>2. at(i) \in S /\ Below(S, at(i)) = Below(S, p)
    BY <1>5, <2>1
  <2>3. at(i) = p
    BY <1>3, <2>2
  <2> QED
    BY <2>1, <2>3
<1> HIDE DEF at
<1>7. /\ DOMAIN files = 1 .. n /\ Len(files) = n
      /\ \A i \in 1 .. n : files[i].path = at(i) /\ files[i].sha256 = Digest(content[at(i)])
  <2>1. DOMAIN files = 1 .. n
    BY <1>4
  <2>2. \A i \in 1 .. n : files[i] = Entry(at(i), content[at(i)], media[at(i)])
    BY <1>4
  <2>3. Len(files) = n
    BY <1>3, <1>4
  <2> QED
    BY <2>1, <2>2, <2>3 DEF Entry
<1>8. { files[i].path : i \in DOMAIN files } = S
  BY <1>5, <1>6, <1>7
<1>9. ASSUME NEW i \in 1 .. n
      PROVE  \E e \in 0 .. content[files[i].path].edition :
               files[i].sha256 = Digest(Bytes(files[i].path, e))
  <2> DEFINE p == at(i)
  <2>1. p \in S /\ files[i].path = p /\ files[i].sha256 = Digest(content[p])
    BY <1>5, <1>7
  <2> HIDE DEF p
  <2>2. content[p] \in Contents /\ content[p].path = p
    BY <2>1 DEF Content, S, Present
  <2>3. content[p] = Bytes(p, content[p].edition) /\ content[p].edition \in Nat
    BY <2>2 DEF Contents, Bytes
  <2>4. content[p].edition \in 0 .. content[p].edition
    BY <2>3
  <2> QED
    BY <2>1, <2>3, <2>4
<1> QED
  BY <1>3, <1>7, <1>8, <1>9 DEF Tracks, S, files

LEMMA ContentsAre ==
    /\ Nowhere \notin Contents
    /\ \A p \in Nat, e \in Nat : Bytes(p, e) \in Contents /\ Bytes(p, e).path = p
                                 /\ Bytes(p, e).edition = e
    /\ \A b \in Contents : b.path \in Nat /\ b.edition \in Nat /\ b = Bytes(b.path, b.edition)
<1>1. Nowhere \notin Contents
  BY DEF Nowhere, Contents
<1>2. \A p \in Nat, e \in Nat : Bytes(p, e) \in Contents /\ Bytes(p, e).path = p
                                /\ Bytes(p, e).edition = e
  BY DEF Contents, Bytes
<1>3. \A b \in Contents : b.path \in Nat /\ b.edition \in Nat /\ b = Bytes(b.path, b.edition)
  BY DEF Contents, Bytes
<1> QED
  BY <1>1, <1>2, <1>3

LEMMA PresentAre ==
    ASSUME NEW content, Content(content), NEW p \in Present(content)
    PROVE  /\ p \in Places
           /\ content[p] # Nowhere
           /\ content[p] \in Contents
           /\ content[p].path = p
           /\ content[p].edition \in Nat
<1>1. p \in Places /\ content[p] # Nowhere /\ content[p] \in Contents /\ content[p].path = p
  BY DEF Content, Present
<1> QED
  BY <1>1, ContentsAre

Put(content, p, b) == [ content EXCEPT ![p] = b ]

LEMMA ContentPut ==
    ASSUME NEW content, Content(content), NEW p \in Places, NEW b \in Contents, b.path = p,
           NEW new, new = Put(content, p, b)
    PROVE  /\ Content(new)
           /\ Present(new) = Present(content) \cup {p}
           /\ new[p] = b
           /\ \A q \in Places : q # p => new[q] = content[q]
<1>1. /\ content \in [ Places -> {Nowhere} \cup Contents ]
      /\ \A q \in Present(content) : content[q].path = q
      /\ IsFiniteSet(Present(content))
  BY DEF Content
<1>2. /\ new \in [ Places -> {Nowhere} \cup Contents ]
      /\ new[p] = b /\ \A q \in Places : q # p => new[q] = content[q]
  BY <1>1 DEF Put
<1>3. Present(new) = Present(content) \cup {p}
  BY <1>2, ContentsAre DEF Present
<1>4. IsFiniteSet(Present(new))
  <2>1. IsFiniteSet(Present(content) \cup {p})
    BY <1>1, FS_AddElement
  <2> QED
    BY <1>3, <2>1
<1>5. \A q \in Present(new) : new[q].path = q
  BY <1>1, <1>2, <1>3 DEF Present
<1> QED
  BY <1>2, <1>3, <1>4, <1>5 DEF Content

------------------------------------------------------------------------------
(* The invariant holds at the start and is kept by every step *)

LEMMA ExportInitHolds ==
    ExportInit => ExportInv
<1> SUFFICES ASSUME ExportInit PROVE ExportInv
  OBVIOUS
<1>1. /\ bytes = [ p \in Places |-> IF p = 0 THEN Bytes(0, 0) ELSE Nowhere ]
      /\ DOMAIN payload = {"createdAt", "reviewedAt", "text", "observations", "cited", "files"}
      /\ payload.text = 0
      /\ payload.files = << Entry(0, Bytes(0, 0), Document) >>
      /\ shown = Nowhere /\ export = Nowhere
  BY DEF ExportInit, Places
<1>2. Bytes(0, 0) \in Contents /\ Bytes(0, 0).path = 0 /\ Bytes(0, 0).edition = 0
      /\ Bytes(0, 0) # Nowhere
  BY ContentsAre
<1>3. bytes[0] = Bytes(0, 0) /\ \A p \in Places : p # 0 => bytes[p] = Nowhere
  BY <1>1, PlacesNumbered
<1>4. Present(bytes) = {0}
  BY <1>2, <1>3, PlacesNumbered DEF Present
<1>5. Content(bytes)
  <2>1. bytes \in [ Places -> {Nowhere} \cup Contents ]
    BY <1>1, <1>2
  <2>2. IsFiniteSet(Present(bytes))
    BY <1>4, FS_Singleton
  <2>3. \A p \in Present(bytes) : bytes[p].path = p
    BY <1>2, <1>3, <1>4
  <2> QED
    BY <2>1, <2>2, <2>3 DEF Content
<1>6. Tracks(payload.files, bytes)
  <2> DEFINE f == payload.files
             e == Entry(0, Bytes(0, 0), Document)
  <2>1. e.path = 0 /\ e.sha256 = Digest(Bytes(0, 0))
    BY DEF Entry
  <2> HIDE DEF e
  <2>2. Len(f) = 1 /\ DOMAIN f = 1 .. 1 /\ f[1] = e
    BY <1>1 DEF e
  <2> HIDE DEF f
  <2>3. { f[i].path : i \in DOMAIN f } = {0}
    BY <2>1, <2>2
  <2>4. \A i \in DOMAIN f : f[i].path = 0 /\ f[i].sha256 = Digest(Bytes(0, 0))
    BY <2>1, <2>2
  <2>5. 0 \in 0 .. bytes[0].edition
    BY <1>2, <1>3
  <2>6. \A i \in DOMAIN f : \E x \in 0 .. bytes[f[i].path].edition :
          f[i].sha256 = Digest(Bytes(f[i].path, x))
    BY <2>4, <2>5
  <2>7. Tracks(f, bytes)
    BY <1>4, <2>2, <2>3, <2>6 DEF Tracks
  <2> QED
    BY <2>7 DEF f
<1>7. DossierSound
  BY <1>1, <1>2, <1>3, <1>5, <1>6 DEF DossierSound
<1> QED
  BY <1>1, <1>7 DEF ExportInv, ShownSound, ExportSound

\* While the export is not sent, the files only move on from what was shown.
LEMMA Advances ==
    ASSUME ExportInv, DossierSound', UNCHANGED <<approval, shown, export>>,
           \A p \in Present(bytes) :
             bytes'[p] # Nowhere /\ bytes'[p].edition >= bytes[p].edition
    PROVE  ExportInv'
<1>1. ShownSound'
  <2> SUFFICES ASSUME shown # Nowhere
               PROVE  /\ approval = [ payloadDigest |-> Digest(shown.payload),
                                      approvedAt |-> shown.at ]
                      /\ Content(shown.bytes)
                      /\ Tracks(shown.payload.files, shown.bytes)
                      /\ \A p \in Present(shown.bytes) :
                           bytes'[p] # Nowhere /\ bytes'[p].edition >= shown.bytes[p].edition
    BY DEF ShownSound
  <2>1. /\ approval = [ payloadDigest |-> Digest(shown.payload), approvedAt |-> shown.at ]
        /\ Content(shown.bytes)
        /\ Tracks(shown.payload.files, shown.bytes)
        /\ \A p \in Present(shown.bytes) :
             bytes[p] # Nowhere /\ bytes[p].edition >= shown.bytes[p].edition
    BY DEF ExportInv, ShownSound
  <2>2. ASSUME NEW p \in Present(shown.bytes)
        PROVE  bytes'[p] # Nowhere /\ bytes'[p].edition >= shown.bytes[p].edition
    <3>1. p \in Places /\ shown.bytes[p].edition \in Nat
      BY <2>1, PresentAre
    <3>2. p \in Present(bytes)
      BY <2>1, <3>1 DEF Present
    <3>3. p \in Present(bytes')
      BY <3>1, <3>2 DEF Present
    <3>4. bytes[p].edition \in Nat /\ bytes'[p].edition \in Nat
      BY <3>2, <3>3, PresentAre DEF ExportInv, DossierSound
    <3> QED
      BY <2>1, <3>1, <3>2, <3>4
  <2> QED
    BY <2>1, <2>2
<1>2. ExportSound'
  BY DEF ExportInv, ExportSound, NoOlder
<1> QED
  BY <1>1, <1>2 DEF ExportInv

\* A file is written and the inventory made again over the files there are.
LEMMA RewriteKeeps ==
    ASSUME ExportInv, NEW p \in Places, NEW b \in Contents, b.path = p,
           bytes[p] # Nowhere => b.edition >= bytes[p].edition,
           bytes' = [ bytes EXCEPT ![p] = b ],
           NEW media, payload'.files = Inventory(bytes', media),
           DOMAIN payload' = DOMAIN payload,
           payload'.text = bytes'[0].edition,
           UNCHANGED <<approval, shown, export>>
    PROVE  ExportInv'
<1>1. Content(bytes) /\ bytes[0] # Nowhere
  BY DEF ExportInv, DossierSound
<1>2. /\ Content(bytes')
      /\ Present(bytes') = Present(bytes) \cup {p}
      /\ bytes'[p] = b
      /\ \A q \in Places : q # p => bytes'[q] = bytes[q]
  <2> DEFINE content == Put(bytes, p, b)
  <2>1. bytes' = content
    BY DEF Put
  <2> HIDE DEF content
  <2>2. /\ Content(content)
        /\ Present(content) = Present(bytes) \cup {p}
        /\ content[p] = b
        /\ \A q \in Places : q # p => content[q] = bytes[q]
    BY <1>1, ContentPut DEF content
  <2> QED
    BY <2>1, <2>2
<1>3. \A q \in Present(bytes) : q \in Places /\ bytes[q] # Nowhere /\ bytes[q].edition \in Nat
  BY <1>1, PresentAre
<1>4. \A q \in Present(bytes) : bytes'[q] # Nowhere /\ bytes'[q].edition >= bytes[q].edition
  BY <1>2, <1>3, ContentsAre
<1>5. Tracks(payload'.files, bytes')
  BY <1>2, InventoryTracks
<1>6. bytes'[0] # Nowhere
  BY <1>1, <1>2, ContentsAre, PlacesNumbered
<1>7. DossierSound'
  BY <1>2, <1>5, <1>6 DEF ExportInv, DossierSound
<1> QED
  BY <1>4, <1>7, Advances

LEMMA EditTextKeeps ==
    ASSUME ExportInv, EditText
    PROVE  ExportInv'
<1> DEFINE b == Bytes(0, payload.text + 1)
           content == [ bytes EXCEPT ![0] = b ]
           media == MediaNow
<1>1. /\ payload' = [ payload EXCEPT !.text = payload.text + 1,
                                     !.files = Inventory(content, media) ]
      /\ bytes' = content
      /\ UNCHANGED <<approval, shown, export>>
  BY DEF EditText
<1>2. /\ Content(bytes) /\ bytes[0] # Nowhere /\ payload.text = bytes[0].edition
      /\ DOMAIN payload = {"createdAt", "reviewedAt", "text", "observations", "cited", "files"}
  BY DEF ExportInv, DossierSound
<1>3. bytes[0].edition \in Nat
  BY <1>2, PresentAre, PlacesNumbered DEF Present
<1>4. b \in Contents /\ b.path = 0 /\ b.edition = payload.text + 1
      /\ b.edition >= bytes[0].edition
  BY <1>2, <1>3, ContentsAre
<1>5. DOMAIN payload' = DOMAIN payload /\ payload'.files = Inventory(content, media)
      /\ payload'.text = payload.text + 1
  BY <1>1, <1>2
<1> HIDE DEF b, media
<1>6. bytes'[0] = b
  BY <1>1, <1>2, PlacesNumbered DEF Content
<1> QED
  BY <1>1, <1>4, <1>5, <1>6, PlacesNumbered, RewriteKeeps

LEMMA AddMediaKeeps ==
    ASSUME ExportInv, NEW m \in Media, NEW source, NEW audio, AddMedia(m, source, audio)
    PROVE  ExportInv'
<1> DEFINE b == Bytes(m, 0)
<1>1. PICK media : /\ bytes' = [ bytes EXCEPT ![m] = b ]
                   /\ payload' = [ payload EXCEPT !.files = Inventory(bytes', media) ]
                   /\ bytes[m] = Nowhere
                   /\ UNCHANGED <<approval, shown, export>>
  BY DEF AddMedia, Write
<1>2. /\ Content(bytes) /\ bytes[0] # Nowhere /\ payload.text = bytes[0].edition
      /\ DOMAIN payload = {"createdAt", "reviewedAt", "text", "observations", "cited", "files"}
  BY DEF ExportInv, DossierSound
<1>3. b \in Contents /\ b.path = m
  BY ContentsAre, PlacesNumbered
<1>4. DOMAIN payload' = DOMAIN payload /\ payload'.files = Inventory(bytes', media)
      /\ payload'.text = payload.text
  BY <1>1, <1>2
<1> HIDE DEF b
<1>5. bytes'[0] = bytes[0]
  BY <1>1, <1>2, PlacesNumbered DEF Content
<1> QED
  BY <1>1, <1>2, <1>3, <1>4, <1>5, PlacesNumbered, RewriteKeeps

LEMMA EditMediaKeeps ==
    ASSUME ExportInv, NEW m \in Media, NEW listed \in BOOLEAN, EditMedia(m, listed)
    PROVE  ExportInv'
<1> DEFINE b == [ bytes[m] EXCEPT !.edition = bytes[m].edition + 1 ]
           content == [ bytes EXCEPT ![m] = b ]
           media == MediaNow
<1>1. /\ content = [ bytes EXCEPT ![m].edition = @ + 1 ]
      /\ bytes[m] # Nowhere
      /\ UNCHANGED <<approval, shown, export>>
  BY DEF EditMedia
<1>2. /\ Content(bytes) /\ bytes[0] # Nowhere /\ payload.text = bytes[0].edition
      /\ DOMAIN payload = {"createdAt", "reviewedAt", "text", "observations", "cited", "files"}
      /\ Tracks(payload.files, bytes)
  BY DEF ExportInv, DossierSound
<1>3. bytes[m] \in Contents /\ bytes[m].path = m /\ bytes[m].edition \in Nat
  BY <1>1, <1>2, PresentAre, PlacesNumbered DEF Present
<1>4. b \in Contents /\ b.path = m /\ b.edition = bytes[m].edition + 1
  BY <1>3 DEF Contents
<1> HIDE DEF b
<1>5. /\ Content(content)
      /\ Present(content) = Present(bytes) \cup {m}
      /\ content[m] = b
      /\ \A q \in Places : q # m => content[q] = bytes[q]
  <2>1. content = Put(bytes, m, b)
    BY DEF Put
  <2>2. m \in Places
    BY PlacesNumbered
  <2> HIDE DEF content
  <2> QED
    BY <1>2, <1>4, <2>1, <2>2, ContentPut
<1>6. content[0] = bytes[0]
  BY <1>5, PlacesNumbered
<1>7. b.edition >= bytes[m].edition
  BY <1>3, <1>4
<1>8. CASE listed
  <2>1. /\ bytes' = content
        /\ payload' = [ payload EXCEPT !.files = Inventory(content, media) ]
    BY <1>1, <1>8 DEF EditMedia, Write
  <2>2. DOMAIN payload' = DOMAIN payload /\ payload'.files = Inventory(bytes', media)
        /\ payload'.text = bytes'[0].edition
    BY <1>2, <1>6, <2>1
  <2> HIDE DEF media
  <2> QED
    BY <1>1, <1>4, <1>7, <2>1, <2>2, PlacesNumbered, RewriteKeeps
<1>9. CASE ~ listed
  <2>1. bytes' = content /\ payload' = payload
    BY <1>1, <1>9 DEF EditMedia
  <2> HIDE DEF content
  <2>2. Present(bytes') = Present(bytes)
    BY <1>1, <1>5, <2>1, PlacesNumbered DEF Present
  <2>3. \A q \in Present(bytes) : /\ q \in Places /\ bytes[q] # Nowhere
                                  /\ bytes[q].edition \in Nat
    BY <1>2, PresentAre
  <2>4. \A q \in Present(bytes) : /\ bytes'[q] # Nowhere
                                  /\ bytes'[q].edition >= bytes[q].edition
                                  /\ bytes'[q].edition \in Nat
    BY <1>3, <1>4, <1>5, <1>7, <2>1, <2>3, ContentsAre
  <2>5. Tracks(payload'.files, bytes')
    <3> DEFINE f == payload.files
    <3>1. /\ Len(f) \in Nat /\ DOMAIN f = 1 .. Len(f)
          /\ { f[i].path : i \in DOMAIN f } = Present(bytes)
          /\ \A i \in DOMAIN f : \E e \in 0 .. bytes[f[i].path].edition :
               f[i].sha256 = Digest(Bytes(f[i].path, e))
      BY <1>2 DEF Tracks
    <3> HIDE DEF f
    <3>2. \A i \in DOMAIN f : \E e \in 0 .. bytes'[f[i].path].edition :
            f[i].sha256 = Digest(Bytes(f[i].path, e))
      <4> SUFFICES ASSUME NEW i \in DOMAIN f
                   PROVE  \E e \in 0 .. bytes'[f[i].path].edition :
                            f[i].sha256 = Digest(Bytes(f[i].path, e))
        OBVIOUS
      <4>1. f[i].path \in Present(bytes)
        BY <3>1
      <4>2. PICK e \in 0 .. bytes[f[i].path].edition : f[i].sha256 = Digest(Bytes(f[i].path, e))
        BY <3>1
      <4>3. e \in 0 .. bytes'[f[i].path].edition
        BY <2>3, <2>4, <4>1
      <4> QED
        BY <4>2, <4>3
    <3>3. Tracks(f, bytes')
      BY <2>2, <3>1, <3>2 DEF Tracks
    <3> QED
      BY <2>1, <3>3 DEF f
  <2>6. DossierSound'
    BY <1>2, <1>5, <1>6, <2>1, <2>5 DEF DossierSound
  <2> QED
    BY <1>1, <2>4, <2>6, Advances
<1> QED
  BY <1>8, <1>9

LEMMA ObserveKeeps ==
    ASSUME ExportInv, NEW id, NEW provenance, NEW media, Observe(id, provenance, media)
    PROVE  ExportInv'
<1>1. /\ UNCHANGED <<bytes, approval, shown, export>>
      /\ DOMAIN payload' = DOMAIN payload
      /\ payload'.files = payload.files /\ payload'.text = payload.text
  BY DEF Observe, ExportInv, DossierSound
<1>2. DossierSound'
  BY <1>1 DEF ExportInv, DossierSound
<1>3. \A p \in Present(bytes) : /\ bytes'[p] # Nowhere
                                /\ bytes'[p].edition >= bytes[p].edition
  BY <1>1, PresentAre DEF ExportInv, DossierSound
<1> QED
  BY <1>1, <1>2, <1>3, Advances

LEMMA ApproveKeeps ==
    ASSUME ExportInv, Approve
    PROVE  ExportInv'
<1> DEFINE reviewed == [ payload EXCEPT !.reviewedAt = instant ]
<1>1. /\ export = Nowhere
      /\ payload' = reviewed
      /\ approval' = [ payloadDigest |-> Digest(reviewed), approvedAt |-> instant ]
      /\ shown' = [ state |-> "shown", payload |-> reviewed, bytes |-> bytes, at |-> instant ]
      /\ UNCHANGED <<bytes, export>>
  BY DEF Approve
<1>2. /\ DOMAIN reviewed = DOMAIN payload
      /\ reviewed.files = payload.files /\ reviewed.text = payload.text
  BY DEF ExportInv, DossierSound
<1> HIDE DEF reviewed
<1>3. shown'.payload = reviewed /\ shown'.bytes = bytes /\ shown'.at = instant
  BY <1>1
<1>4. DossierSound'
  BY <1>1, <1>2 DEF ExportInv, DossierSound
<1>5. \A p \in Present(bytes) : bytes[p] # Nowhere /\ bytes[p].edition >= bytes[p].edition
  BY PresentAre DEF ExportInv, DossierSound
<1>6. ShownSound'
  BY <1>1, <1>2, <1>3, <1>5 DEF ExportInv, DossierSound, ShownSound
<1>7. ExportSound'
  BY <1>1 DEF ExportSound
<1> QED
  BY <1>4, <1>6, <1>7 DEF ExportInv

LEMMA ExportKeeps ==
    ASSUME ExportInv, Export
    PROVE  ExportInv'
<1> DEFINE f == payload.files
           g == [ i \in DOMAIN f |-> [ path |-> f[i].path, kind |-> "file",
                                       bytes |-> bytes[f[i].path] ] ]
           m == [ payload |-> payload, approval |-> approval, exportedAt |-> instant ]
<1>1. /\ shown # Nowhere
      /\ export' = [ state |-> "sent", manifest |-> m, files |-> g ]
      /\ UNCHANGED <<payload, bytes, approval, shown>>
  BY DEF Export
<1>2. /\ Content(bytes)
      /\ Len(f) \in Nat /\ DOMAIN f = 1 .. Len(f)
      /\ { f[i].path : i \in DOMAIN f } = Present(bytes)
  BY DEF ExportInv, DossierSound, Tracks
<1>3. m.approval = approval
  OBVIOUS
<1> HIDE DEF f, m
<1>4. ASSUME NEW i \in DOMAIN f
      PROVE  g[i] \in DeliveredFiles /\ NoOlder(g[i])
  <2>1. f[i].path \in Present(bytes)
    BY <1>2
  <2>2. f[i].path \in Places /\ bytes[f[i].path] \in Contents
    BY <1>2, <2>1, PresentAre
  <2>3. g[i] = [ path |-> f[i].path, kind |-> "file", bytes |-> bytes[f[i].path] ]
    OBVIOUS
  <2>4. g[i] \in DeliveredFiles /\ g[i].path = f[i].path /\ g[i].bytes = bytes[f[i].path]
    BY <2>2, <2>3 DEF DeliveredFiles
  <2>5. NoOlder(g[i])
    BY <1>1, <2>4 DEF NoOlder, ExportInv, ShownSound
  <2> QED
    BY <2>4, <2>5
<1>5. DOMAIN g = DOMAIN f
  OBVIOUS
<1>6. g \in Seq(DeliveredFiles)
  BY <1>2, <1>4
<1> HIDE DEF g
<1>7. /\ export'.manifest = m /\ export'.files = g
      /\ DOMAIN export' = {"state", "manifest", "files"}
  BY <1>1
<1>8. \A i \in DOMAIN g : NoOlder(g[i])
  BY <1>4, <1>5
<1>9. ExportSound'
  BY <1>1, <1>3, <1>6, <1>7, <1>8 DEF ExportSound, NoOlder
<1>10. DossierSound' /\ ShownSound'
  BY <1>1 DEF ExportInv, DossierSound, ShownSound
<1> QED
  BY <1>9, <1>10 DEF ExportInv

LEMMA DamageKeeps ==
    ASSUME ExportInv, Damage
    PROVE  ExportInv'
<1> DEFINE f == export.files
<1>1. PICK files \in Damaged(f) : export' = [ export EXCEPT !.files = files ]
  BY DEF Damage
<1>2. /\ export # Nowhere /\ f # << >>
      /\ UNCHANGED <<payload, bytes, approval, shown>>
  BY DEF Damage
<1>3. /\ shown # Nowhere
      /\ DOMAIN export = {"state", "manifest", "files"}
      /\ export.manifest.approval = approval
      /\ f \in Seq(DeliveredFiles)
      /\ \A i \in DOMAIN f : NoOlder(f[i])
  BY <1>2 DEF ExportInv, ExportSound
<1> HIDE DEF f
<1>4. DOMAIN f = 1 .. Len(f) /\ Len(f) \in Nat \ {0} /\ \A i \in DOMAIN f : f[i] \in DeliveredFiles
  BY <1>2, <1>3
<1>5. ASSUME NEW file \in DeliveredFiles, NoOlder(file)
      PROVE  /\ [ file EXCEPT !.kind = "symlink" ] \in DeliveredFiles
             /\ NoOlder([ file EXCEPT !.kind = "symlink" ])
             /\ [ file EXCEPT !.bytes.edition = @ + 1 ] \in DeliveredFiles
             /\ NoOlder([ file EXCEPT !.bytes.edition = @ + 1 ])
             /\ [ file EXCEPT !.bytes.path = 9 ] \in DeliveredFiles
             /\ NoOlder([ file EXCEPT !.bytes.path = 9 ])
  <2>1. file.bytes \in Contents /\ file.bytes.edition \in Nat
    BY <1>5 DEF DeliveredFiles, Contents
  <2>2. \A b \in Contents : [ file EXCEPT !.bytes = b ] \in DeliveredFiles
    BY <1>5 DEF DeliveredFiles
  <2>3. ASSUME NEW b \in Contents, b.edition \in Nat, b.edition >= file.bytes.edition
        PROVE  NoOlder([ file EXCEPT !.bytes = b ])
    <3>1. [ file EXCEPT !.bytes = b ].path = file.path /\ [ file EXCEPT !.bytes = b ].bytes = b
      BY <1>5 DEF DeliveredFiles
    <3>2. file.path \in Present(shown.bytes) => shown.bytes[file.path].edition \in Nat
      BY <1>3, PresentAre DEF ExportInv, ShownSound
    <3> QED
      BY <1>5, <2>1, <2>3, <3>1, <3>2 DEF NoOlder
  <2> DEFINE newer == [ file.bytes EXCEPT !.edition = file.bytes.edition + 1 ]
             moved == [ file.bytes EXCEPT !.path = 9 ]
  <2>4. newer \in Contents /\ newer.edition = file.bytes.edition + 1
    BY <2>1 DEF Contents
  <2>5. moved \in Contents /\ moved.edition = file.bytes.edition
    BY <2>1 DEF Contents
  <2>6. /\ [ file EXCEPT !.bytes.edition = @ + 1 ] = [ file EXCEPT !.bytes = newer ]
        /\ [ file EXCEPT !.bytes.path = 9 ] = [ file EXCEPT !.bytes = moved ]
    OBVIOUS
  <2> HIDE DEF newer, moved
  <2>7. /\ [ file EXCEPT !.kind = "symlink" ] \in DeliveredFiles
        /\ NoOlder([ file EXCEPT !.kind = "symlink" ])
    BY <1>5 DEF DeliveredFiles, NoOlder
  <2>8. newer.edition \in Nat /\ newer.edition >= file.bytes.edition
        /\ moved.edition \in Nat /\ moved.edition >= file.bytes.edition
    BY <2>1, <2>4, <2>5
  <2> QED
    BY <2>2, <2>3, <2>4, <2>5, <2>6, <2>7, <2>8
<1>6. /\ files \in Seq(DeliveredFiles)
      /\ \A i \in DOMAIN files : NoOlder(files[i])
  <2>1. CASE files = SubSeq(f, 1, Len(f) - 1)
    <3>1. /\ files \in Seq(DeliveredFiles) /\ DOMAIN files = 1 .. Len(f) - 1
          /\ \A i \in 1 .. Len(f) - 1 : files[i] = f[i]
      BY <1>3, <1>4, <2>1
    <3> QED
      BY <1>3, <1>4, <3>1
  <2>2. CASE files = Append(f, f[1])
    <3>1. /\ files \in Seq(DeliveredFiles) /\ DOMAIN files = 1 .. Len(f) + 1
          /\ files[Len(f) + 1] = f[1] /\ \A i \in 1 .. Len(f) : files[i] = f[i]
      BY <1>3, <1>4, <2>2
    <3>2. \A i \in 1 .. Len(f) + 1 : i \in 1 .. Len(f) \/ i = Len(f) + 1
      BY <1>4
    <3> QED
      BY <1>3, <1>4, <3>1, <3>2
  <2>3. ASSUME NEW i \in DOMAIN f, NEW file \in DeliveredFiles, NoOlder(file),
               files = [ f EXCEPT ![i] = file ]
        PROVE  /\ files \in Seq(DeliveredFiles)
               /\ \A j \in DOMAIN files : NoOlder(files[j])
    BY <1>3, <1>4, <2>3
  <2>4. CASE \E i \in DOMAIN f :
               \/ files = [ f EXCEPT ![i].kind = "symlink" ]
               \/ files = [ f EXCEPT ![i].bytes.edition = @ + 1 ]
               \/ files = [ f EXCEPT ![i].bytes.path = 9 ]
    <3>1. PICK i \in DOMAIN f :
            \/ files = [ f EXCEPT ![i] = [ f[i] EXCEPT !.kind = "symlink" ] ]
            \/ files = [ f EXCEPT ![i] = [ f[i] EXCEPT !.bytes.edition = @ + 1 ] ]
            \/ files = [ f EXCEPT ![i] = [ f[i] EXCEPT !.bytes.path = 9 ] ]
      BY <2>4
    <3>2. f[i] \in DeliveredFiles /\ NoOlder(f[i])
      BY <1>3, <1>4
    <3> QED
      BY <1>5, <2>3, <3>1, <3>2
  <2> QED
    BY <1>1, <2>1, <2>2, <2>4 DEF Damaged
<1>7. /\ export'.files = files /\ export'.manifest = export.manifest
      /\ DOMAIN export' = {"state", "manifest", "files"}
  BY <1>1, <1>3
<1>8. ExportSound'
  BY <1>2, <1>3, <1>6, <1>7 DEF ExportSound, NoOlder
<1>9. DossierSound' /\ ShownSound'
  BY <1>2 DEF ExportInv, DossierSound, ShownSound
<1> QED
  BY <1>8, <1>9 DEF ExportInv

\* The dossier, what the reviewer was shown and the export keep the inductive
\* invariant.
THEOREM ExportInvariant == ExportSpec => []ExportInv
<1>1. ExportInit => ExportInv
  BY ExportInitHolds
<1>2. ExportInv /\ [ExportNext]_exportVars => ExportInv'
  <2> SUFFICES ASSUME ExportInv, [ExportNext]_exportVars PROVE ExportInv'
    OBVIOUS
  <2>1. CASE EditText
    BY <2>1, EditTextKeeps
  <2>2. CASE \E m \in Media, source \in Media \cup {8}, audio \in BOOLEAN \X BOOLEAN :
               AddMedia(m, source, audio)
    BY <2>2, AddMediaKeeps
  <2>3. CASE \E m \in Media, listed \in BOOLEAN : EditMedia(m, listed)
    BY <2>3, EditMediaKeeps
  <2>4. CASE \E id \in Media \cup {7}, media \in {{}} \cup {{m} : m \in Media},
                provenance \in {"user-statement", "capture-observation"} :
               Observe(id, provenance, media)
    BY <2>4, ObserveKeeps
  <2>5. CASE Approve
    BY <2>5, ApproveKeeps
  <2>6. CASE Export
    BY <2>6, ExportKeeps
  <2>7. CASE Damage
    BY <2>7, DamageKeeps
  <2>8. CASE Wait \/ UNCHANGED exportVars
    BY <2>8 DEF Wait, exportVars, ExportInv, DossierSound, ShownSound, ExportSound, NoOlder
  <2> QED
    BY <2>1, <2>2, <2>3, <2>4, <2>5, <2>6, <2>7, <2>8 DEF ExportNext
<1> QED
  BY <1>1, <1>2, PTL DEF ExportSpec

LEMMA ExportInvReviewed ==
    ExportInv => ExportAsReviewed
<1> SUFFICES ASSUME ExportInv, export # Nowhere,
                    LocalExportHolds(export.manifest, export.files)
             PROVE  /\ export.manifest.payload = shown.payload
                    /\ export.manifest.exportedAt = shown.at
                    /\ \A p \in DOMAIN shown.bytes :
                         {export.files[i].bytes :
                            i \in {k \in DOMAIN export.files : export.files[k].path = p}}
                           = {shown.bytes[p]} \ {Nowhere}
  BY DEF ExportAsReviewed
<1> DEFINE m == export.manifest
           files == export.files
<1>1. /\ shown # Nowhere
      /\ m.approval = approval
      /\ files \in Seq(DeliveredFiles)
      /\ \A i \in DOMAIN files : NoOlder(files[i])
  BY DEF ExportInv, ExportSound
<1>2. /\ approval = [ payloadDigest |-> Digest(shown.payload), approvedAt |-> shown.at ]
      /\ Content(shown.bytes)
      /\ Tracks(shown.payload.files, shown.bytes)
  BY <1>1 DEF ExportInv, ShownSound
<1>3. ApprovalHolds(m) /\ FilesHold(m, files)
  BY DEF LocalExportHolds
<1>4. /\ Digest(m.payload) = Digest(shown.payload)
      /\ m.exportedAt = shown.at
  BY <1>1, <1>2, <1>3 DEF ApprovalHolds
<1>5. m.payload = shown.payload
  BY <1>4 DEF Digest
<1> HIDE DEF m, files
<1>6. Entries(m) = { shown.payload.files[i] : i \in DOMAIN shown.payload.files }
  BY <1>5 DEF Entries
<1>7. { file.path : file \in Entries(m) } = Present(shown.bytes)
  BY <1>2, <1>6 DEF Tracks
<1>8. ASSUME NEW i \in DOMAIN files
      PROVE  /\ files[i].path \in Present(shown.bytes)
             /\ files[i].bytes = shown.bytes[files[i].path]
  <2> DEFINE p == files[i].path
  <2>1. p \in Present(shown.bytes)
    BY <1>3, <1>7 DEF FilesHold
  <2>2. PICK entry \in Entries(m) : entry.path = p
    BY <1>7, <2>1
  <2>3. Digest(files[i].bytes) = entry.sha256
    BY <1>3, <2>2 DEF FilesHold, DeliveredAs
  <2>4. PICK e \in 0 .. shown.bytes[p].edition : entry.sha256 = Digest(Bytes(p, e))
    BY <1>2, <1>6, <2>2 DEF Tracks
  <2>5. files[i].bytes = Bytes(p, e)
    BY <2>3, <2>4 DEF Digest
  <2>6. /\ shown.bytes[p].edition \in Nat /\ shown.bytes[p].path = p
        /\ shown.bytes[p] \in Contents /\ p \in Places
    BY <1>2, <2>1, PresentAre
  <2>7. files[i].bytes.edition >= shown.bytes[p].edition
    BY <1>1, <2>1 DEF NoOlder
  <2>8. p \in Nat /\ e \in Nat
    <3>1. e \in Nat
      BY <2>4
    <3>2. p \in Nat
      BY <2>6, PlacesNumbered
    <3> QED
      BY <3>1, <3>2
  <2>9. Bytes(p, e).edition = e
    BY <2>8, ContentsAre
  <2>10. e = shown.bytes[p].edition
    BY <2>4, <2>5, <2>6, <2>7, <2>8, <2>9
  <2>11. shown.bytes[p] = Bytes(p, e)
    BY <2>6, <2>10, ContentsAre
  <2> QED
    BY <2>1, <2>5, <2>11
<1>9. ASSUME NEW p \in DOMAIN shown.bytes
      PROVE  {files[i].bytes : i \in {k \in DOMAIN files : files[k].path = p}}
               = {shown.bytes[p]} \ {Nowhere}
  <2>1. p \in Places
    BY <1>2 DEF Content
  <2>2. CASE shown.bytes[p] = Nowhere
    <3>1. \A k \in DOMAIN files : files[k].path # p
      BY <1>8, <2>2 DEF Present
    <3> QED
      BY <2>2, <3>1
  <2>3. CASE shown.bytes[p] # Nowhere
    <3>1. p \in Present(shown.bytes)
      BY <2>1, <2>3 DEF Present
    <3>2. \E k \in DOMAIN files : files[k].path = p
      BY <1>3, <1>7, <3>1 DEF FilesHold
    <3>3. \A k \in DOMAIN files : files[k].path = p => files[k].bytes = shown.bytes[p]
      BY <1>8
    <3> QED
      BY <2>3, <3>2, <3>3
  <2> QED
    BY <2>2, <2>3
<1> QED
  BY <1>4, <1>5, <1>9 DEF m, files

\* An export that the verifier admits is what was shown at the approval: no
\* later edit of the dossier or of a file passes under it.
THEOREM ExportsAsReviewed == ExportSpec => []ExportAsReviewed
  BY ExportInvariant, ExportInvReviewed, PTL

------------------------------------------------------------------------------
(* Policies (RoutingPolicy)                                                *)

Destinations ==
    [ id : Ids, profileId : Families, target : {"github-repository", "jira-project"},
      visibilitySource : {"discovered", "declared"} ]
Rules ==
    [ id : Ids, match : Matches, imposed : SUBSET Ids, optional : SUBSET Ids,
      selectable : SUBSET Ids, denied : SUBSET Ids ]
Policies ==
    [ destinations : Seq(Destinations), rules : Seq(Rules), disclosures : Seq(Ids) ]

\* What is in force has passed the admission.
PolicyInv == draft \in Policies /\ admitted \in Policies /\ PolicyAdmitted(admitted)

LEMMA MatchesTyped ==
    ASSUME NEW m \in Matches
    PROVE  \/ m = Absent
           \/ m.kind = "origin" /\ m.origin \in Origins /\ m = [ kind |-> "origin", origin |-> m.origin ]
           \/ m.kind = "pattern" /\ m.scheme \in Schemes /\ m.port \in Ports
BY DEF Matches, Observed

\* A match that is not dead has an origin that it matches.
LEMMA LiveMatchMatches ==
    ASSUME NEW m \in Matches, ~ IsDeadMatch(m)
    PROVE  \E observed \in Observed : RuleMatches(m, observed)
<1>1. CASE m = Absent
  BY <1>1 DEF Observed, RuleMatches, Absent
<1>2. CASE m.kind = "origin" /\ m.origin \in Origins /\ m = [ kind |-> "origin", origin |-> m.origin ]
  <2>1. m \in Observed
    BY <1>2 DEF IsDeadMatch, Observed
  <2> QED
    BY <1>2, <2>1 DEF RuleMatches
<1>3. CASE m.kind = "pattern" /\ m.scheme \in Schemes /\ m.port \in Ports
  <2> DEFINE origin == [ scheme |-> m.scheme, host |-> "exact", port |-> m.port ]
             observed == [ kind |-> "origin", origin |-> origin ]
  <2>1. origin \in Origins /\ IsCanonicalOrigin(origin)
    BY <1>3 DEF Origins, IsCanonicalOrigin, IsDeadMatch
  <2>2. observed \in Observed
    BY <2>1 DEF Observed
  <2>3. observed # Absent
    <3>1. observed.kind = "origin" /\ Absent.kind = "absent"
      BY DEF Absent
    <3> QED
      BY <3>1
  <2>4. RuleMatches(m, observed)
    BY <1>3, <2>3 DEF RuleMatches
  <2> QED
    BY <2>2, <2>4
<1> QED
  BY <1>1, <1>2, <1>3, MatchesTyped

\* One destination has the identifier.
LEMMA DestinationsApart ==
    ASSUME NEW policy \in Policies, IdsDistinct(policy),
           NEW i \in DOMAIN policy.destinations, NEW j \in DOMAIN policy.destinations,
           policy.destinations[i].id = policy.destinations[j].id
    PROVE  i = j
<1> DEFINE a == IdsOf(policy.destinations)
           b == IdsOf(policy.rules)
           c == policy.disclosures
<1>1. a \in Seq(Ids) /\ b \in Seq(Ids) /\ c \in Seq(Ids)
      /\ Len(a) = Len(policy.destinations)
  <2>1. policy.destinations \in Seq(Destinations) /\ policy.rules \in Seq(Rules) /\ c \in Seq(Ids)
    BY DEF Policies
  <2>2. ASSUME NEW S, NEW list \in Seq(S), \A x \in S : x.id \in Ids
        PROVE  IdsOf(list) \in Seq(Ids) /\ Len(IdsOf(list)) = Len(list)
    BY <2>2 DEF IdsOf
  <2>3. (\A x \in Destinations : x.id \in Ids) /\ \A x \in Rules : x.id \in Ids
    BY DEF Destinations, Rules
  <2> QED
    BY <2>1, <2>2, <2>3
<1>2. \A k \in 1 .. Len(a) : k \in DOMAIN (a \o b \o c) /\ (a \o b \o c)[k] = a[k]
  <2> HIDE DEF a, b, c
  <2> QED BY <1>1
<1>3. i \in 1 .. Len(a) /\ j \in 1 .. Len(a) /\ a[i] = a[j]
  BY <1>1 DEF Policies, IdsOf
<1>4. (a \o b \o c)[i] = (a \o b \o c)[j] /\ i \in DOMAIN (a \o b \o c)
      /\ j \in DOMAIN (a \o b \o c)
  <2> HIDE DEF a, b, c
  <2> QED BY <1>2, <1>3
<1> QED
  BY <1>4 DEF IdsDistinct

LEMMA PolicyInitHolds == ASSUME PolicyInit PROVE PolicyInv
<1>1. draft \in Policies /\ admitted = draft
  BY DEF PolicyInit, Policies
<1>2. draft.destinations = << >> /\ draft.rules = << >> /\ draft.disclosures = << >>
  BY DEF PolicyInit
<1>3. IdsDistinct(draft)
  BY <1>2 DEF IdsDistinct, IdsOf
<1> QED
  BY <1>1, <1>2, <1>3
     DEF PolicyInv, PolicyAdmitted, NoDeadRule, DestinationsKnown, NoOverlap,
         TargetsMatch, VisibilityMatches, RulesOf, DestinationsOf

LEMMA EditedTyped ==
    ASSUME NEW d \in Policies
    PROVE  /\ d.destinations \in Seq(Destinations) /\ d.rules \in Seq(Rules)
           /\ \A s \in Seq(Destinations) : [ d EXCEPT !.destinations = s ] \in Policies
           /\ \A s \in Seq(Rules) : [ d EXCEPT !.rules = s ] \in Policies
           /\ \A s \in Seq(Ids) : [ d EXCEPT !.disclosures = s ] \in Policies
BY DEF Policies

\* An edit of the draft leaves what is in force.
LEMMA EditKeeps ==
    ASSUME PolicyInv, draft' \in Policies, admitted' = admitted PROVE PolicyInv'
BY DEF PolicyInv

LEMMA AddRuleKeeps ==
    ASSUME PolicyInv, NEW id \in Ids, NEW match \in Matches,
           NEW routed \in {{}} \cup { {i} : i \in Ids }, NEW denied \in { {i} : i \in Ids },
           NEW list \in {"imposed", "optional", "selectable"},
           AddRule(id, match, routed, list, denied)
    PROVE  PolicyInv'
<1> DEFINE rule ==
        [ l \in {"id", "match", "imposed", "optional", "selectable", "denied"} |->
            CASE l = "id" -> id [] l = "match" -> match [] l = "denied" -> denied
              [] l = list -> routed [] OTHER -> {} ]
<1>1. rule \in Rules
  <2>1. routed \in SUBSET Ids /\ denied \in SUBSET Ids
    OBVIOUS
  <2>2. /\ rule["id"] = id /\ rule["match"] = match /\ rule["denied"] = denied
        /\ rule["imposed"] \in SUBSET Ids /\ rule["optional"] \in SUBSET Ids
        /\ rule["selectable"] \in SUBSET Ids
    BY <2>1
  <2> HIDE DEF rule
  <2>3. rule = [ id |-> rule["id"], match |-> rule["match"], imposed |-> rule["imposed"],
                 optional |-> rule["optional"], selectable |-> rule["selectable"],
                 denied |-> rule["denied"] ]
    BY DEF rule
  <2> QED
    BY <2>1, <2>2, <2>3 DEF Rules
<1>2. draft' = [ draft EXCEPT !.rules = Append(draft.rules, rule) ] /\ admitted' = admitted
  BY DEF AddRule
<1> HIDE DEF rule
<1> QED
  <2>1. Append(draft.rules, rule) \in Seq(Rules)
    BY <1>1, EditedTyped DEF PolicyInv
  <2> QED
    BY <1>2, <2>1, EditedTyped, EditKeeps DEF PolicyInv

LEMMA PolicyStepPreserves == ASSUME PolicyInv, [PolicyNext]_policyVars PROVE PolicyInv'
<1>1. ASSUME NEW id \in Ids, NEW profile \in { p.profileId : p \in Profiles },
             NEW visibility \in {"discovered", "declared"},
             NEW target \in {"github-repository", "jira-project"},
             AddDestination(id, profile, target, visibility)
      PROVE  PolicyInv'
  <2>1. profile \in Families
    BY DEF Profiles
  <2>2. [ id |-> id, profileId |-> profile, target |-> target,
          visibilitySource |-> visibility ] \in Destinations
    BY <2>1 DEF Destinations
  <2> QED
    <3>1. Append(draft.destinations, [ id |-> id, profileId |-> profile, target |-> target,
                  visibilitySource |-> visibility ]) \in Seq(Destinations)
      BY <2>2, EditedTyped DEF PolicyInv
    <3> QED
      BY <1>1, <3>1, EditedTyped, EditKeeps DEF AddDestination, PolicyInv
<1>2. CASE RemoveDestination
  <2>1. Tail(draft.destinations) \in Seq(Destinations)
    BY <1>2, EditedTyped DEF RemoveDestination, PolicyInv
  <2> QED
    BY <1>2, <2>1, EditedTyped, EditKeeps DEF RemoveDestination, PolicyInv
<1>3. ASSUME NEW id \in Ids, AddDisclosure(id) PROVE PolicyInv'
  <2>1. <<id>> \in Seq(Ids)
    OBVIOUS
  <2> QED
    BY <1>3, <2>1, EditedTyped, EditKeeps DEF AddDisclosure, PolicyInv
<1>6. ASSUME NEW id \in Ids, NEW match \in Matches,
             NEW routed \in {{}} \cup { {i} : i \in Ids }, NEW denied \in { {i} : i \in Ids },
             NEW list \in {"imposed", "optional", "selectable"},
             AddRule(id, match, routed, list, denied)
      PROVE  PolicyInv'
  BY <1>6, AddRuleKeeps
<1>4. CASE Admit
  BY <1>4 DEF Admit, PolicyInv
<1>5. CASE UNCHANGED policyVars
  BY <1>5 DEF policyVars, PolicyInv
<1>7. CASE \E id \in Ids, profile \in { p.profileId : p \in Profiles },
              visibility \in {"discovered", "declared"},
              target \in {"github-repository", "jira-project"} :
           AddDestination(id, profile, target, visibility)
  BY <1>1, <1>7
<1>8. CASE \E id \in Ids, match \in Matches, routed \in {{}} \cup { {i} : i \in Ids },
              denied \in { {i} : i \in Ids }, list \in {"imposed", "optional", "selectable"} :
           AddRule(id, match, routed, list, denied)
  BY <1>6, <1>8
<1> QED
  BY <1>2, <1>3, <1>4, <1>5, <1>7, <1>8 DEF PolicyNext

\* Whatever is drafted, the policy in force has passed the admission.
THEOREM PolicyInvariant == PolicySpec => []PolicyInv
BY PolicyInitHolds, PolicyStepPreserves, PTL DEF PolicySpec

\* Every denial of an admitted policy bites on some origin that a delivery can
\* carry.
THEOREM AdmittedDenialsBite == PolicySpec => []DenialsBite
<1>1. PolicyInv => DenialsBite
  <2> SUFFICES ASSUME PolicyInv, NEW rule \in RulesOf(admitted), NEW denied \in rule.denied
               PROVE  /\ \E observed \in Observed : RuleMatches(rule.match, observed)
                      /\ \E d \in DestinationsOf(admitted) : d.id = denied
                      /\ \A i, j \in DOMAIN admitted.destinations :
                           admitted.destinations[i].id = denied /\ admitted.destinations[j].id = denied => i = j
                      /\ denied \notin rule.imposed \cup rule.optional \cup rule.selectable
    BY DEF DenialsBite
  <2>1. rule \in Rules
    BY DEF PolicyInv, Policies, RulesOf
  <2>2. \E observed \in Observed : RuleMatches(rule.match, observed)
    BY <2>1, LiveMatchMatches DEF PolicyInv, PolicyAdmitted, NoDeadRule, Rules
  <2>3. \E d \in DestinationsOf(admitted) : d.id = denied
    <3>1. 4 \in DOMAIN Lists(rule) /\ Lists(rule)[4] = rule.denied
      BY DEF Lists
    <3> QED
      BY <3>1 DEF PolicyInv, PolicyAdmitted, DestinationsKnown
  <2>4. \A i, j \in DOMAIN admitted.destinations :
          admitted.destinations[i].id = denied /\ admitted.destinations[j].id = denied => i = j
    BY DestinationsApart DEF PolicyInv, PolicyAdmitted
  <2>5. denied \notin rule.imposed \cup rule.optional \cup rule.selectable
    <3>1. DOMAIN Lists(rule) = 1 .. 4 /\ Lists(rule)[1] = rule.imposed
          /\ Lists(rule)[2] = rule.optional /\ Lists(rule)[3] = rule.selectable
          /\ Lists(rule)[4] = rule.denied
      BY DEF Lists
    <3>2. \A i \in 1 .. 3 : Lists(rule)[i] \cap rule.denied = {}
      BY <3>1 DEF PolicyInv, PolicyAdmitted, NoOverlap
    <3> QED
      BY <3>1, <3>2
  <2> QED
    BY <2>2, <2>3, <2>4, <2>5
<1> QED
  BY <1>1, PolicyInvariant, PTL
==============================================================================
