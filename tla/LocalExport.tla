---------------------------- MODULE LocalExport ----------------------------
(***************************************************************************)
(* A dossier from its review to the export a verifier reads                *)
(* (signalement-local-export-v1.ts).  The producer, outside the            *)
(* repository, edits the dossier, shows it for approval and exports it;    *)
(* the exported files travel in a container.  What was shown is kept as    *)
(* history; the verifier sees only the manifest and the files.  A path is  *)
(* a number in path order: 0 is the document, m the derivative of media m. *)
(***************************************************************************)
EXTENDS Integers, Sequences, FiniteSets

CONSTANTS Media,         \* numbers of media: identifiers in one space with
                         \* observations and sources
          MaxInstant,    \* bound on the clock
          MaxChanges,    \* bound on edits of the dossier and of the export
          MaxFiles,      \* files an export may hold
          MaxTotal       \* total length of its files

ASSUME ExportAssumption ==
  /\ Media \subseteq Nat \ {0}
  /\ \A n \in {MaxInstant, MaxChanges, MaxFiles, MaxTotal} : n \in Nat

VARIABLES instant,     \* the clock
          payload,     \* the dossier being prepared
          bytes,       \* path -> the bytes of its file
          approval,    \* the approval recorded with the dossier
          shown,       \* the payload and bytes shown at that approval
          export,      \* the export in transit: a manifest and its files
          changes      \* edits so far

exportVars == <<instant, payload, bytes, approval, shown, export, changes>>

Nowhere == [state |-> "none"]

\* A digest is known only by what it digests.
Digest(value) == <<"digest", value>>
Bytes(path, edition) == [path |-> path, edition |-> edition]
Length(content) == 1 + content.edition \div 2

Entry(path, content, media) ==
  [path |-> path, byteLength |-> Length(content), sha256 |-> Digest(content), media |-> media]

Document == [kind |-> "document"]

-----------------------------------------------------------------------------
(* The verifier: what must hold of a manifest and the files delivered.      *)

Entries(m) == {m.payload.files[i] : i \in DOMAIN m.payload.files}
Derivatives(m) == {file \in Entries(m) : file.media # Document}
NamedMedia(m) == {file.media.id : file \in Derivatives(m)}

Total(files) ==
  LET sum[i \in 0..Len(files)] == IF i = 0 THEN 0 ELSE sum[i - 1] + files[i].byteLength
  IN  sum[Len(files)]

\* Variant: the approval is of an instant, whatever it showed.
ApprovalHoldsAnyPayload(m) ==
  /\ m.payload.reviewedAt = m.approval.approvedAt
  /\ m.approval.approvedAt = m.exportedAt
  /\ m.payload.createdAt <= m.payload.reviewedAt

ApprovalHolds(m) ==
  /\ Digest(m.payload) = m.approval.payloadDigest
  /\ m.payload.reviewedAt = m.approval.approvedAt
  /\ m.approval.approvedAt = m.exportedAt
  /\ m.payload.createdAt <= m.payload.reviewedAt

\* Paths in strict order, exactly one document, derivatives named once.
InventoryHolds(m) ==
  /\ \A i, j \in DOMAIN m.payload.files :
       i < j => m.payload.files[i].path < m.payload.files[j].path
  /\ Cardinality({file \in Entries(m) : file.media = Document}) = 1
  /\ Cardinality(NamedMedia(m)) = Cardinality(Derivatives(m))
  /\ Total(m.payload.files) <= MaxTotal

\* A derivative is not its own source, had its metadata removed, was captured
\* by the review, and includes audio only when the audio was reviewed.
MediaHolds(m) ==
  \A file \in Derivatives(m) :
    LET media == file.media
    IN  /\ file.path = media.id
        /\ media.capturedAt <= m.payload.reviewedAt
        /\ media.source # media.id
        /\ "metadata-removal" \in media.operations
        /\ media.audioIncluded = media.audioReviewed
        /\ media.audioIncluded =>
             media.kind = "video" /\ "audio-removal" \notin media.operations

\* Identifiers are unique (hypotheses, which share the space, are left out);
\* an observation is of the time of the dossier and rests on derivatives it
\* includes; citations are of its observations.
LineageHolds(m) ==
  LET observations == m.payload.observations
  IN  /\ \A o \in observations :
           /\ o.id \notin NamedMedia(m)
           /\ m.payload.createdAt <= o.capturedAt /\ o.capturedAt <= m.payload.reviewedAt
           /\ o.provenance = "capture-observation" => o.mediaIds # {}
           /\ o.mediaIds \subseteq NamedMedia(m)
      /\ \A o, p \in observations : o.id = p.id => o = p
      /\ m.payload.cited \subseteq {o.id : o \in observations}

DeliveredAs(file, entry, m) ==
  /\ file.kind = "file"
  /\ Length(file.bytes) = entry.byteLength
  /\ Digest(file.bytes) = entry.sha256
  /\ entry.media = Document => file.bytes = Bytes(0, m.payload.text)

\* The files are those of the inventory, each once, as the inventory says.
FilesHold(m, files) ==
  /\ Len(files) <= MaxFiles
  /\ \A i, j \in DOMAIN files : i < j => files[i].path # files[j].path
  /\ {files[i].path : i \in DOMAIN files} = {file.path : file \in Entries(m)}
  /\ \A i \in DOMAIN files : \A entry \in Entries(m) :
       entry.path = files[i].path => DeliveredAs(files[i], entry, m)

LocalExportHolds(m, files) ==
  /\ ApprovalHolds(m)
  /\ InventoryHolds(m)
  /\ MediaHolds(m)
  /\ LineageHolds(m)
  /\ FilesHold(m, files)

-----------------------------------------------------------------------------
(* The producer and the container.                                          *)

\* A dossier already exported is edited as a new revision, not this one.
Change == changes < MaxChanges /\ changes' = changes + 1

\* The inventory lists the files there are, in path order.
Inventory(content, media) ==
  LET present == {p \in DOMAIN content : content[p] # Nowhere}
  IN  [i \in 1..Cardinality(present) |->
         LET p == CHOOSE p \in present : Cardinality({q \in present : q < p}) = i - 1
         IN  Entry(p, content[p], media[p])]

MediaNow == [p \in {0} \cup Media |->
  IF \E file \in Entries([payload |-> payload]) : file.path = p
  THEN (CHOOSE file \in Entries([payload |-> payload]) : file.path = p).media
  ELSE Document]

Write(content, media) ==
  /\ bytes' = content
  /\ payload' = [payload EXCEPT !.files = Inventory(content, media)]

EditText ==
  /\ Change /\ export = Nowhere
  /\ payload' = [payload EXCEPT !.text = @ + 1,
       !.files = Inventory([bytes EXCEPT ![0] = Bytes(0, payload.text + 1)], MediaNow)]
  /\ bytes' = [bytes EXCEPT ![0] = Bytes(0, payload.text + 1)]
  /\ UNCHANGED <<instant, approval, shown, export>>

\* A derivative is made from a source and described as the producer says.
AddMedia(m, source, audio) ==
  /\ Change /\ export = Nowhere
  /\ bytes[m] = Nowhere
  /\ Write([bytes EXCEPT ![m] = Bytes(m, 0)],
           [MediaNow EXCEPT ![m] =
              [id |-> m, kind |-> "video", capturedAt |-> instant, source |-> source,
               operations |-> {"metadata-removal"}, audioIncluded |-> audio[1],
               audioReviewed |-> audio[2]]])
  /\ UNCHANGED <<instant, approval, shown, export>>

\* Its bytes are edited again under the same identifier.
EditMedia(m, listed) ==
  /\ Change /\ export = Nowhere
  /\ bytes[m] # Nowhere
  /\ IF listed THEN Write([bytes EXCEPT ![m].edition = @ + 1], MediaNow)
     ELSE bytes' = [bytes EXCEPT ![m].edition = @ + 1] /\ UNCHANGED payload
  /\ UNCHANGED <<instant, approval, shown, export>>

Observe(id, provenance, media) ==
  /\ Change /\ export = Nowhere
  /\ payload' = [payload EXCEPT !.cited = @ \cup {id}, !.observations = @ \cup
       {[id |-> id, provenance |-> provenance, capturedAt |-> instant, mediaIds |-> media]}]
  /\ UNCHANGED <<instant, bytes, approval, shown, export>>

\* The exact payload and bytes are shown, and approved as they are.
Approve ==
  LET reviewed == [payload EXCEPT !.reviewedAt = instant]
  IN  /\ export = Nowhere
      /\ payload' = reviewed
      /\ approval' = [payloadDigest |-> Digest(reviewed), approvedAt |-> instant]
      /\ shown' = [state |-> "shown", payload |-> reviewed, bytes |-> bytes, at |-> instant]
      /\ UNCHANGED <<instant, bytes, export, changes>>

Export ==
  /\ shown # Nowhere /\ export = Nowhere
  /\ export' = [state |-> "sent",
                manifest |-> [payload |-> payload, approval |-> approval, exportedAt |-> instant],
                files |-> [i \in DOMAIN payload.files |->
                             [path |-> payload.files[i].path, kind |-> "file",
                              bytes |-> bytes[payload.files[i].path]]]]
  /\ UNCHANGED <<instant, payload, bytes, approval, shown, changes>>

\* The container loses, repeats, links or replaces a file.
Damaged(files) ==
     {SubSeq(files, 1, Len(files) - 1), Append(files, files[1])}
  \cup UNION {{[files EXCEPT ![i].kind = "symlink"], [files EXCEPT ![i].bytes.edition = @ + 1],
               [files EXCEPT ![i].bytes.path = 9]} : i \in DOMAIN files}

Damage ==
  /\ Change
  /\ export # Nowhere /\ export.files # << >>
  /\ \E files \in Damaged(export.files) : export' = [export EXCEPT !.files = files]
  /\ UNCHANGED <<instant, payload, bytes, approval, shown>>

Wait ==
  /\ instant < MaxInstant
  /\ instant' = instant + 1
  /\ UNCHANGED <<payload, bytes, approval, shown, export, changes>>

-----------------------------------------------------------------------------
ExportInit ==
  /\ instant = 0
  /\ bytes = [p \in {0} \cup Media |-> IF p = 0 THEN Bytes(0, 0) ELSE Nowhere]
  /\ payload = [createdAt |-> 0, reviewedAt |-> -1, text |-> 0, observations |-> {},
                cited |-> {}, files |-> <<Entry(0, Bytes(0, 0), Document)>>]
  /\ approval = [payloadDigest |-> "none", approvedAt |-> -1]
  /\ shown = Nowhere
  /\ export = Nowhere
  /\ changes = 0

ExportNext ==
  \/ EditText
  \/ \E m \in Media, source \in Media \cup {8}, audio \in BOOLEAN \X BOOLEAN :
       AddMedia(m, source, audio)
  \/ \E m \in Media, listed \in BOOLEAN : EditMedia(m, listed)
  \/ \E id \in Media \cup {7}, media \in {{}} \cup {{m} : m \in Media},
        provenance \in {"user-statement", "capture-observation"} :
       Observe(id, provenance, media)
  \/ Approve \/ Export \/ Damage \/ Wait

ExportSpec == ExportInit /\ [][ExportNext]_exportVars

-----------------------------------------------------------------------------
\* An export the verifier admits is what was shown at the approval, byte for
\* byte, and exported at that instant: no later edit of the dossier or of a
\* file, and no loss on the way, passes under the approval.
ExportAsReviewed ==
  export # Nowhere /\ LocalExportHolds(export.manifest, export.files) =>
    /\ export.manifest.payload = shown.payload
    /\ export.manifest.exportedAt = shown.at
    /\ \A p \in DOMAIN shown.bytes :
         {export.files[i].bytes : i \in {k \in DOMAIN export.files : export.files[k].path = p}}
           = {shown.bytes[p]} \ {Nowhere}
=============================================================================
