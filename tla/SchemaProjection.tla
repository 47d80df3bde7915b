--------------------------- MODULE SchemaProjection ---------------------------
(***************************************************************************)
(* The two static projections of the JSON schemas: the TypeScript types    *)
(* (packages/sdk-ts/scripts/generate-types.ts) and the Rust types          *)
(* (crates/sdk-rs/build.rs, up to the generator it feeds).  A document     *)
(* maps pointers to nodes; the root is at "".  A node is a schema, or a    *)
(* map: what stands under properties, $defs and their like.  Its kids are  *)
(* its parts under their keywords, or names; the entries of a list are all *)
(* under the list's keyword.  References lead to schemas, if and items are *)
(* never the literal false, and what constrains a value and has no parts   *)
(* is its type.  A projection is the set of paths it keeps, each with what *)
(* stands at its end, or a refusal.                                        *)
(***************************************************************************)
EXTENDS FiniteSets, Sequences

CONSTANTS
    Shared,     \* the document of shared definitions: no Rust types of its own
    NoRef       \* a node without a reference

Refused == { << << >>, {"refused"} >> }

Failed(paths) == \E p \in paths : p[2] = {"refused"}

Under1(keyword, paths) == { << << keyword >> \o p[1], p[2] >> : p \in paths }

\* A place is a pointer in a document, as a reference names it.
Places(docs) == UNION { {n} \X DOMAIN docs[n] : n \in DOMAIN docs }

Known(docs, ref) == ref \in Places(docs)

Node(docs, ref) == docs[ref[1]][ref[2]]

\* A JSON document is finite, and nothing is a part of itself.
IsDocument(d) ==
    /\ IsFiniteSet(DOMAIN d)
    /\ \A p \in DOMAIN d : \A k \in d[p].kids : k.at \in DOMAIN d
    /\ \A S \in (SUBSET DOMAIN d) \ {{}} : \E p \in S : \A k \in d[p].kids : k.at \notin S

\* A reference followed again under itself: cut where its target says so.
Recurring(target) == IF target.opaque THEN { << << >>, {"unknown"} >> } ELSE Refused

\* What stands at a node: a constant or an enumeration, or the types it may have.
End(node) == IF node.map THEN {"fields"} ELSE IF node.literal THEN {"literal"} ELSE node.types

\* What renderType follows: nothing beside const or enum, no conditional entry of
\* allOf, anyOf only without oneOf, items of arrays, fields of what may be an object.
TypeParts(node) ==
    IF node.map THEN node.kids
    ELSE { k \in node.kids :
             /\ ~node.literal
             /\ \/ k.keyword = "allOf" /\ ~k.conditional
                \/ k.keyword = "oneOf"
                \/ k.keyword = "anyOf" /\ \A l \in node.kids : l.keyword # "oneOf"
                \/ k.keyword = "items" /\ "array" \in node.types
                \/ k.keyword \in {"properties", "additionalProperties"} /\ (node.types = {} \/ "object" \in node.types) }

\* Keys that project_schema_value skips in any object, a map of properties included.
Skipped == {"$schema", "$id", "if", "then", "else", "not", "contains", "minContains", "maxContains", "contentEncoding"}

RustParts(node) == { k \in node.kids : k.keyword \notin Skipped /\ ~(k.keyword = "allOf" /\ k.conditional) }

\* Where a projection can be: at a place, below the references it followed.
Visits(docs) == Places(docs) \X SUBSET Places(docs)

\* renderType: the members beside a reference are dropped.
RenderType(docs, at, stack) ==
    LET render[v \in Visits(docs)] ==
            LET node == Node(docs, v[1])
            IN  IF node.ref # NoRef
                THEN IF ~Known(docs, node.ref) THEN Refused
                     ELSE IF node.ref \in v[2] THEN Recurring(Node(docs, node.ref))
                     ELSE render[<< node.ref, v[2] \cup {node.ref} >>]
                ELSE { << << >>, End(node) >> } \cup
                     UNION { Under1(k.keyword, render[<< << v[1][1], k.at >>, v[2] >>]) : k \in TypeParts(node) }
    IN  render[<< at, stack >>]

\* Mutant: a target that recurs is cut whether or not it says so.
RecurringAlways(target) == { << << >>, {"unknown"} >> }

RecurringInRust(target) == IF target.opaque THEN { << << >>, {"unknown"} >> } ELSE Refused

\* project_schema and project_schema_value: members beside a reference that
\* constrain, resources embedded below the root, and anything but a list under
\* allOf, were it a property of that name, are refused.
ProjectSchema(docs, at, stack) ==
    LET project[v \in Visits(docs)] ==
            LET node == Node(docs, v[1])
            IN  IF \E p \in DOMAIN docs[v[1][1]] : docs[v[1][1]][p].embedded THEN Refused
                ELSE IF node.ref # NoRef
                THEN IF node.siblings \/ ~Known(docs, node.ref) THEN Refused
                     ELSE IF node.ref \in v[2] THEN RecurringInRust(Node(docs, node.ref))
                     ELSE project[<< node.ref, v[2] \cup {node.ref} >>]
                ELSE IF node.map /\ \E k \in node.kids : k.keyword = "allOf" THEN Refused
                ELSE { << << >>, End(node) >> } \cup
                     UNION { Under1(k.keyword, project[<< << v[1][1], k.at >>, v[2] >>]) : k \in RustParts(node) }
    IN  project[<< at, stack >>]

\* generate-types main: the root unless nothing says what it is, and each definition
\* on its own.
Declared(doc) ==
    LET root == doc[""]
        named == root.titled \/ root.types # {} \/ \E k \in root.kids : k.keyword \in {"oneOf", "anyOf"}
    IN  (IF named THEN {""} ELSE {})
        \cup UNION { { d.at : d \in doc[k.at].kids } : k \in { k \in root.kids : k.keyword = "$defs" } }

Rendered(docs, name) == [ p \in Declared(docs[name]) |-> RenderType(docs, << name, p >>, {}) ]

RenderFails(docs) == \E n \in DOMAIN docs : \E p \in DOMAIN Rendered(docs, n) : Failed(Rendered(docs, n)[p])

ProjectFails(docs) == \E n \in DOMAIN docs \ {Shared} : Failed(ProjectSchema(docs, << n, "" >>, {}))

Elements(s) == { s[i] : i \in DOMAIN s }

\* What the TypeScript types of a document say and its Rust types do not.
LostInRust(docs, name) ==
    LET rust == ProjectSchema(docs, << name, "" >>, {})
    IN  IF Failed(rust) THEN {} ELSE RenderType(docs, << name, "" >>, {}) \ rust

\* A document that the Rust types can express loses nothing in them that its
\* TypeScript types say, but below a property or an entry whose name is a keyword
\* that is skipped.
RustCovers(docs) ==
    \A n \in DOMAIN docs \ {Shared} : \A p \in LostInRust(docs, n) : Elements(p[1]) \cap Skipped # {}
==============================================================================
