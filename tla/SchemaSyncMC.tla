----------------------------- MODULE SchemaSyncMC -----------------------------
(***************************************************************************)
(* Small documents for the copies and the projections: the shared          *)
(* definitions and one schema, in the shapes on which the two projections  *)
(* differ, and in those that a projection refuses.                         *)
(***************************************************************************)
EXTENDS SchemaSync, TLC

Child(k, at) == [ keyword |-> k, at |-> at, conditional |-> FALSE ]
Typed(types, kids) ==
    [ ref |-> NoRef, siblings |-> FALSE, opaque |-> FALSE, embedded |-> FALSE, map |-> FALSE, literal |-> FALSE,
      titled |-> TRUE, types |-> types, kids |-> kids ]
Map(kids) == [Typed({}, kids) EXCEPT !.map = TRUE]
RefTo(n, p) == [Typed({}, {}) EXCEPT !.ref = << n, p >>]

SharedDocument ==
    ("" :> Typed({}, { Child("$defs", "d") })) @@ ("d" :> Map({ Child("id", "id") })) @@ ("id" :> Typed({"string"}, {}))

\* An object with one property, and what every part of it may be.
WithField(name, kids) ==
    ("" :> Typed({"object"}, { Child("properties", "f"), Child("allOf", "a") } \cup kids))
    @@ ("f" :> Map({ Child("id", "a"), Child(name, "a") })) @@ ("a" :> RefTo("common", "id"))

Plain == WithField("name", {})

\* As the rule of curation-rule-set.v3, whose then is no condition.
Rule == WithField("then", {})

\* A definition that refers to itself.
Recursive(opaque) ==
    ("" :> Typed({"object"}, { Child("$defs", "d"), Child("properties", "f") }))
    @@ ("d" :> Map({ Child("n", "n") })) @@ ("f" :> Map({ Child("m", "m") }))
    @@ ("n" :> [Typed({"array"}, { Child("items", "m") }) EXCEPT !.opaque = opaque]) @@ ("m" :> RefTo("brief", "n"))

\* Neither title nor types; both alternatives, conditions, items of no array and parts
\* beside a constant.
Mixed ==
    ("" :> [Typed({}, { Child("properties", "f"), Child("anyOf", "c"), Child("items", "a"), Child("patternProperties", "f"),
                        [Child("allOf", "c") EXCEPT !.conditional = TRUE], Child("not", "r") }) EXCEPT !.titled = FALSE])
    @@ ("f" :> Map({ Child("x", "e"), Child("not", "a") })) @@ ("e" :> Typed({}, { Child("oneOf", "c"), Child("anyOf", "a") }))
    @@ ("c" :> [Typed({"string"}, { Child("allOf", "a") }) EXCEPT !.literal = TRUE])
    @@ ("a" :> RefTo("common", "id")) @@ ("r" :> RefTo("common", "none"))

\* Only the Rust types refuse it: for its property allOf, and for what stands beside
\* its references.
RefusedInRust == [WithField("allOf", {}) EXCEPT !["a"].siblings = TRUE]

MCDocument ==
    [ common |-> { SharedDocument },
      brief |-> { Plain, Recursive(TRUE), Recursive(FALSE), Mixed, RefusedInRust } ]

\* The repository's own schema that the two projections take differently.
RuleDocument == [ common |-> { SharedDocument }, brief |-> { Rule } ]
==============================================================================
