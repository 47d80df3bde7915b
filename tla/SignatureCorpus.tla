-------------------------- MODULE SignatureCorpus --------------------------
(***************************************************************************)
(* The signature corpus: vectors generated from formulas, packed into an   *)
(* entry and continuation files (signalement-receipt-vectors.ts --write),  *)
(* compared with the generator (--check), and read file by file by the     *)
(* vector loader (signalement-v1-vector-loader.ts), by the reader of the   *)
(* golden document (signalement-policy-receipt-golden-files.ts), which     *)
(* keeps its files by the same rule, and by the Rust oracle.               *)
(* Files are written and read one at a time while an author edits the      *)
(* generator or a file; a writer may be interrupted.  File 1 is the entry, *)
(* file i + 1 its i-th continuation file.                                  *)
(***************************************************************************)
EXTENDS Integers, Sequences, SequencesExt

CONSTANTS Widths,        \* widths of a vector, in code points
          Budget,        \* fixture budget of one file
          EntryHeader, PartHeader, NameWidth,   \* width of the fixed text
          MaxVectors,    \* bound on the vectors of the corpus
          MaxEdits       \* bound on edits by the author

ASSUME CorpusAssumption ==
  /\ Widths \subseteq Nat \ {0} /\ Widths # {}
  /\ \A n \in {Budget, EntryHeader, PartHeader, NameWidth, MaxEdits} : n \in Nat
  /\ MaxVectors \in Nat \ {0}
  /\ \A w \in Widths : PartHeader + w <= Budget
  /\ PartHeader <= EntryHeader
  /\ EntryHeader + MaxVectors * NameWidth <= Budget

VARIABLES corpus,      \* the vectors the generator builds, in order
          directory,   \* file number -> what the file holds
          writing,     \* files a writer has still to write
          corpusEdits  \* edits so far

corpusVars == <<corpus, directory, writing, corpusEdits>>

Files == 1..(MaxVectors + 1)
Readers == {"loader", "golden", "oracle"}
NoFile == [state |-> "absent"]
Torn == [state |-> "torn"]

-----------------------------------------------------------------------------
(* Packing.                                                                *)

VectorsWidth(vectors) ==
  LET width[i \in 0..Len(vectors)] == IF i = 0 THEN 0 ELSE width[i - 1] + vectors[i].width
  IN  width[Len(vectors)]

\* The entry also lists the continuation files it declares.
FileWidth(i, declared, vectors) ==
  (IF i = 1 THEN EntryHeader + declared * NameWidth ELSE PartHeader) + VectorsWidth(vectors)

\* A vector goes to the file being filled while it fits, else to a new one.
Place(declared, files, v) ==
  LET last == Len(files) filled == Append(files[last], v)
  IN  IF FileWidth(last, declared, filled) <= Budget
      THEN [files EXCEPT ![last] = filled]
      ELSE Append(files, <<v>>)

Packing(declared, vectors) ==
  LET packed[i \in 0..Len(vectors)] ==
        IF i = 0 THEN << << >> >> ELSE Place(declared, packed[i - 1], vectors[i])
  IN  packed[Len(vectors)]

\* Variant: the parts the entry declares are added after packing.
SelfDeclaringAfterwards(vectors) == {0}

\* The fixed point: an entry that declares as many parts as packing it uses.
SelfDeclaring(vectors) ==
  {declared \in 0..Len(vectors) : Len(Packing(declared, vectors)) = declared + 1}

Pack(vectors) ==
  Packing(CHOOSE d \in SelfDeclaring(vectors) : \A e \in SelfDeclaring(vectors) : d <= e, vectors)

File(vectors, parts) ==
  [state |-> "written", vectors |-> vectors, parts |-> parts,
   version |-> "v1", extra |-> "none", recipe |-> "none", oversized |-> FALSE]

PartsOf(files) == [i \in 1..(Len(files) - 1) |-> i + 1]

Generated ==
  LET packed == Pack(corpus)
  IN  [i \in DOMAIN packed |-> File(packed[i], IF i = 1 THEN PartsOf(packed) ELSE << >>)]

-----------------------------------------------------------------------------
(* The writer and the author.                                              *)

\* --write renders every file first, then writes them in order.
BeginWrite ==
  /\ writing = << >>
  /\ LET generated == Generated
     IN  writing' = [i \in DOMAIN generated |-> [name |-> i, file |-> generated[i]]]
  /\ UNCHANGED <<corpus, directory, corpusEdits>>

\* A file is emptied when it is opened and holds its text once it is written.
WriteFile ==
  /\ writing # << >>
  /\ LET next == Head(writing)
     IN  IF directory[next.name] = Torn
         THEN directory' = [directory EXCEPT ![next.name] = next.file] /\ writing' = Tail(writing)
         ELSE directory' = [directory EXCEPT ![next.name] = Torn] /\ UNCHANGED writing
  /\ UNCHANGED <<corpus, corpusEdits>>

InterruptWrite ==
  /\ writing # << >>
  /\ writing' = << >>
  /\ UNCHANGED <<corpus, directory, corpusEdits>>

EditGenerator ==
  /\ corpusEdits < MaxEdits
  /\ \/ \E w \in Widths : Len(corpus) < MaxVectors
          /\ corpus' = Append(corpus, [id |-> MaxVectors + corpusEdits + 1, width |-> w])
     \/ Len(corpus) > 1 /\ corpus' = Tail(corpus)
  /\ corpusEdits' = corpusEdits + 1
  /\ UNCHANGED <<directory, writing>>

\* One member of a written file changes, or a file is removed or copied.
EditedFiles(i) ==
  {NoFile}
  \cup {[directory[i] EXCEPT !.version = "v2"], [directory[i] EXCEPT !.oversized = TRUE]}
  \cup {[directory[i] EXCEPT !.extra = e] : e \in {"list", "conflict"}}
  \cup {[directory[i] EXCEPT !.recipe = s] : s \in {"recorded", "stale"}}
  \cup {[directory[i] EXCEPT !.parts = p] : p \in {<<2>>, <<2, 2>>, <<1>>, << >>}}

EditFile(i) ==
  /\ corpusEdits < MaxEdits
  /\ directory[i].state = "written"
  /\ \E edited \in EditedFiles(i) : directory' = [directory EXCEPT ![i] = edited]
  /\ corpusEdits' = corpusEdits + 1
  /\ UNCHANGED <<corpus, writing>>

CopyFile(i, j) ==
  /\ corpusEdits < MaxEdits
  /\ directory[i].state = "written" /\ directory[j] = NoFile
  /\ directory' = [directory EXCEPT ![j] = directory[i]]
  /\ corpusEdits' = corpusEdits + 1
  /\ UNCHANGED <<corpus, writing>>

-----------------------------------------------------------------------------
(* The readers.  Each reads the entry (the check, the generator), lists the *)
(* directory and reads the other files; a failure in any leaves no vectors. *)
(* A pass counts only for a directory nobody touched meanwhile, so reading  *)
(* is judged on one state of it.                                            *)

Listed == {i \in Files \ {1} : directory[i] # NoFile}

\* Variant: the directory is not compared with what is declared.
NoOrphanUnread(expected) == Listed \subseteq Files

\* A file of the corpus that the entry does not declare, or that the
\* generator does not produce, is refused.
NoOrphan(expected) == Listed \subseteq expected

\* parts is absent, or a list of distinct names none of which is the entry.
PartsDeclared(parts) == IsInjective(parts) /\ 1 \notin ToSet(parts)

\* Recipes are regenerated and compared with their recorded digest where the
\* caller admits them; the golden document and the oracle admit none.
RecipesResolve(tool, file) ==
  file.recipe = "none" \/ (tool = "loader" /\ file.recipe = "recorded")

\* Members other than vectors: the loader appends lists to the entry's and
\* refuses a member the entry already has as something else; the other two
\* admit no other member in a part.
MembersTaken(tool, file) ==
  file.extra = "none" \/ (tool = "loader" /\ file.extra = "list")

EntryRead(tool) ==
  LET entry == directory[1]
  IN  /\ entry.state = "written" /\ ~entry.oversized
      /\ PartsDeclared(entry.parts)
      /\ RecipesResolve(tool, entry)
      /\ tool = "oracle" => entry.extra = "none" /\ entry.version = "v1"

PartRead(tool, part) ==
  /\ part.state = "written" /\ ~part.oversized
  /\ part.version = directory[1].version
  /\ part.parts = << >>
  /\ RecipesResolve(tool, part)
  /\ MembersTaken(tool, part)

\* The golden reader measures every file it finds before it reads any.
Measured(tool) ==
  tool = "golden" => \A i \in Files : directory[i].state = "written" => ~directory[i].oversized

Reads(tool) ==
  /\ Measured(tool)
  /\ EntryRead(tool)
  /\ NoOrphan(ToSet(directory[1].parts))
  /\ \A i \in ToSet(directory[1].parts) : PartRead(tool, directory[i])

\* The vectors of the entry, then of each part in the order it is declared.
Merged ==
  LET parts == directory[1].parts
      merged[i \in 0..Len(parts)] ==
        IF i = 0 THEN directory[1].vectors ELSE merged[i - 1] \o directory[parts[i]].vectors
  IN  merged[Len(parts)]

\* The oracle also refuses an empty inventory.
Accepts(tool) == Reads(tool) /\ (tool = "oracle" => Merged # << >>)

SameText(file, expected) == file = expected

\* --check: every generated file is there as generated, and no other.
CheckReceiptVectors ==
  LET generated == Generated
  IN  /\ \A i \in DOMAIN generated : SameText(directory[i], generated[i])
      /\ NoOrphan(DOMAIN generated)

-----------------------------------------------------------------------------
CorpusInit ==
  /\ corpus \in {[i \in 1..n |-> [id |-> i, width |-> w[i]]] : n \in 1..MaxVectors, w \in [1..MaxVectors -> Widths]}
  /\ directory = [i \in Files |-> IF i \in DOMAIN Generated THEN Generated[i] ELSE NoFile]
  /\ writing = << >>
  /\ corpusEdits = 0

CorpusNext ==
  \/ BeginWrite \/ WriteFile \/ InterruptWrite \/ EditGenerator
  \/ \E i \in Files : EditFile(i)
  \/ \E i, j \in Files : CopyFile(i, j)

CorpusSpec == CorpusInit /\ [][CorpusNext]_corpusVars

-----------------------------------------------------------------------------
\* Whatever the widths, some entry declares exactly the parts its packing
\* uses (the generator's "no packing" error cannot happen), and the files
\* keep the budget and hold every vector once, in order.
PackingComplete ==
  /\ SelfDeclaring(corpus) # {}
  /\ LET packed == Pack(corpus)
     IN  /\ FlattenSeq(packed) = corpus
         /\ \A i \in DOMAIN packed : FileWidth(i, Len(packed) - 1, packed[i]) <= Budget

\* What a reader accepts holds the vectors of every file of the corpus in the
\* directory: none is left out unseen.  When the check passes too, the vectors
\* read are the generator's, in its order: an interrupted or repeated write
\* never passes for the corpus.
NothingLeftOut ==
  \A tool \in Readers :
    Accepts(tool) =>
      /\ \A i \in Files : directory[i].state = "written" =>
           ToSet(directory[i].vectors) \subseteq ToSet(Merged)
      /\ Merged = corpus \/ ~CheckReceiptVectors
=============================================================================
