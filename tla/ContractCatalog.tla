---------------------------- MODULE ContractCatalog ----------------------------
(***************************************************************************)
(* The contract check (tools/quality/check-contracts.ts): one run over a   *)
(* working tree that its authors may edit meanwhile.  The run reads the    *)
(* tree section by section, keeps what later sections need (the catalog    *)
(* rows, the governed paths, the schemas, the fixture cases and the        *)
(* protocol authorities), collects failures and is green at the end when   *)
(* there is none.  A document is a record of the facts the check tells     *)
(* apart; a digest is the content it pins.                                 *)
(***************************************************************************)
EXTENDS Naturals, FiniteSets, Sequences, SequencesExt

CONSTANTS
    File, Missing,             \* the paths of the tree; the content of a missing,
                              \* indirect or oversized file
    RootOf, AppOf, MajorOf,   \* what a path says: the authority root it is under,
                              \* and of an API its application and its major
    NoReviewAsked,                 \* no review asked for
    Common,                   \* the schema of shared definitions
    Fixtures, Inventories,    \* the main fixture document; the separate ones, with
                              \* the number of cases each must hold
    Graph, Plan, GraphOf,     \* two schemas, and the graph a plan's example names
    Vectors, Limit, Approval, \* golden documents, their bounds, and the sensitive
                              \* values each may hold
    Replayed, DigestVectors,  \* documents of semantic vectors; of digest vectors
    RetentionExpected, Backup,\* the decided retention rules; the one of backups
    Authorities,              \* the registry of protocol authorities
    Adopted, AdoptedSource,   \* the API that an adopted candidate protocol governs,
                              \* and the candidate the reviewed package names
    HistoricalMajors,         \* the majors of that application that it does not govern
    Candidates,               \* the registry of candidates
    LocalOperations,          \* the operations an application keeps out of HTTP
    ClosedRefusals,           \* APIs that may enumerate their refusals
    Callback,                 \* the one route that changes state on GET
    WorldMajor,               \* the package and major that a world's path states
    RequiredFacts, AllowFacts,\* of an authority template; of an allow rule
    CatalogFile, Trees, Contents, MaxEdits

ASSUME CatalogAssumption ==
    /\ DOMAIN Contents = File /\ DOMAIN RootOf = File /\ MaxEdits \in Nat
    /\ \A t \in Trees : DOMAIN t = File /\ \A f \in File : t[f] \in Contents[f] \cup {Missing}

\* A catalog lists its rows, an API and a protocol list their operations, and a
\* registry names files of the tree.
IsList(s) == s \in Seq({ s[i] : i \in DOMAIN s })

ASSUME DocumentAssumption ==
    /\ CatalogFile \in File /\ \A c \in Contents[CatalogFile] : IsList(c.rows)
    /\ \A f \in File : RootOf[f] = "openapi" =>
          /\ IsList(LocalOperations[AppOf[f]])
          /\ \A c \in Contents[f] : IsList(c.commands) /\ IsList(c.queries) /\ IsList(c.local)
    /\ \A f \in File : RootOf[f] = "protocols" => \A c \in Contents[f] :
          /\ \A major \in DOMAIN c.commands : IsList(c.commands[major])
          /\ \A major \in DOMAIN c.queries : IsList(c.queries[major])
    /\ Authorities \in File /\ \A c \in Contents[Authorities] : \A i \in DOMAIN c : c[i].file \in File
    /\ AdoptedSource.file \in File /\ RootOf[AdoptedSource.file] = "protocols"

VARIABLES
    tree,       \* the files
    rows,       \* the catalog, as read
    managed,    \* the files found under the authority roots
    schemas,    \* the schemas that loaded
    cases,      \* the fixture cases, in order
    authority,  \* the protocol documents, by application
    failures,   \* the sections that reported something
    section,    \* what is checked next
    touched,    \* a file changed since the run began
    edits

catalogVars == <<tree, rows, managed, schemas, cases, authority, failures, section, touched, edits>>
record == <<rows, managed, schemas, cases, authority>>

CatalogInit ==
    /\ tree \in Trees
    /\ rows = << >> /\ managed = {} /\ schemas = << >> /\ cases = << >> /\ authority = << >>
    /\ failures = {} /\ section = "catalog" /\ touched = FALSE /\ edits = 0

\* An author writes or removes a file, before or during a run.
Write ==
    /\ edits < MaxEdits /\ section \notin {"green", "red"}
    /\ \E f \in File : \E c \in Contents[f] \cup {Missing} :
          c # tree[f] /\ tree' = [tree EXCEPT ![f] = c]
    /\ edits' = edits + 1 /\ touched' = (touched \/ section # "catalog")
    /\ UNCHANGED <<record, failures, section>>

Exists(f) == tree[f] # Missing

\* A section ends: what it reported is added, and the next one begins.
Judged(holds, then) ==
    /\ failures' = IF holds THEN failures ELSE failures \cup {section}
    /\ section' = then
    /\ UNCHANGED <<tree, touched, edits>>

\* An exception ends the run.
Thrown ==
    /\ section' = "red"
    /\ UNCHANGED <<tree, record, failures, touched, edits>>

------------------------------------------------------------------------------
(* The catalog and the governed paths *)

Distinct(seq) == IsInjective(seq)

ReviewRoles == {"architecture", "security", "cryptography", "methodology", "privacy"}

\* A locked contract asks for no review; a candidate names the independent
\* reviews it awaits and a dossier bound to the review protocol.
StatusSound(row) ==
    \/ row.status = "locked" /\ row.review = NoReviewAsked
    \/ /\ row.status = "candidate" /\ row.review # NoReviewAsked
       /\ row.review.independent /\ Distinct(row.review.required)
       /\ {"architecture", "security"} \subseteq ToSet(row.review.required)
       /\ ToSet(row.review.required) \subseteq ReviewRoles
       /\ RootOf[row.review.dossier] = "reviews"
       /\ Exists(row.review.dossier) /\ tree[row.review.dossier].bindsProtocol

AdjunctsSound(row) ==
    \A a \in row.adjuncts : row.kind = "wit" /\ RootOf[a] \in {"profiles", "fixtures"} /\ Exists(a)

RowSound(row) == row.wellFormed /\ Exists(row.path) /\ StatusSound(row) /\ AdjunctsSound(row)

CatalogSound(catalog) ==
    /\ catalog.envelope
    /\ Distinct([ i \in DOMAIN catalog.rows |-> catalog.rows[i].id ])
    /\ Distinct([ i \in DOMAIN catalog.rows |-> catalog.rows[i].path ])
    /\ \A i \in DOMAIN catalog.rows : RowSound(catalog.rows[i])

ReadRows ==
    /\ section = "catalog"
    /\ IF Exists(CatalogFile)
       THEN /\ rows' = tree[CatalogFile].rows
            /\ Judged(CatalogSound(tree[CatalogFile]), "managed")
            /\ UNCHANGED <<managed, schemas, cases, authority>>
       ELSE Thrown

KindsAt == [ schemas |-> {"json-schema"}, data |-> {"data-policy"}, openapi |-> {"openapi"},
             wit |-> {"wit"}, authz |-> {"biscuit-authority", "biscuit-policy"} ]

Under(root) == { f \in managed : RootOf[f] = root }

Cataloged == { rows[i].path : i \in DOMAIN rows }

\* The row of a path; of two rows with one path the first counts.
EntryOf(f) ==
    rows[CHOOSE i \in DOMAIN rows : rows[i].path = f /\ \A j \in DOMAIN rows : rows[j].path = f => i <= j]

\* The files under the authority roots are those the catalog names, each under
\* the root of its kind.
Governed(found) ==
    found = Cataloged /\ \A f \in found : EntryOf(f).kind \in KindsAt[RootOf[f]]

ListManaged ==
    /\ section = "managed"
    /\ LET found == { f \in File : Exists(f) /\ RootOf[f] \in DOMAIN KindsAt }
       IN  managed' = found /\ Judged(Governed(found), "schemas")
    /\ UNCHANGED <<rows, schemas, cases, authority>>

------------------------------------------------------------------------------
(* Schemas and their examples *)

\* checkArrayBounds: an array is bounded where it stands, or in a branch of allOf.
ArraysBounded(schema) == \A n \in schema.arrays : n.bounded \/ "allOf" \in ToSet(n.at)

LoadSchemas ==
    /\ section = "schemas"
    /\ LET readable == { f \in Under("schemas") : Exists(f) /\ tree[f].loads }
           compiled == UNION { S \in SUBSET readable : \A f \in S : tree[f].refs \subseteq S }
       IN  /\ schemas' = [ f \in compiled |-> tree[f] ]
           /\ Judged(/\ compiled = Under("schemas")
                     /\ \A f \in compiled : tree[f].canonical /\ ArraysBounded(tree[f]), "inventories")
    /\ UNCHANGED <<rows, managed, cases, authority>>

\* A separate fixture document counts when it has its number of cases.  A missing
\* one is a failure in the inventories that tolerate it and an exception elsewhere.
InventoryHolds(inventory) ==
    /\ Exists(inventory.file) /\ tree[inventory.file].envelope
    /\ Len(tree[inventory.file].cases) = inventory.count

LoadFixtures ==
    /\ section = "inventories"
    /\ IF Exists(Fixtures) /\ \A i \in DOMAIN Inventories : Exists(Inventories[i].file) \/ Inventories[i].tolerant
       THEN LET main == IF tree[Fixtures].envelope THEN tree[Fixtures].cases ELSE << >>
                more == SelectSeq(Inventories, InventoryHolds)
            IN  /\ cases' = main \o FlattenSeq([ i \in DOMAIN more |-> tree[more[i].file].cases ])
                /\ Judged(Len(more) = Len(Inventories), "fixtures")
                /\ UNCHANGED <<rows, managed, schemas, authority>>
       ELSE Thrown

\* An instance maps the pointers it has to a scalar or to "node".
Null == << >> :> "null"
Unexpected(instance) == instance @@ (<< "__unexpected" >> :> "true")

\* mutate: every step but the last must lead into a container.
Applicable(instance, m) ==
    /\ m.at # << >>
    /\ Front(m.at) \in DOMAIN instance /\ instance[Front(m.at)] = "node"

Mutated(instance, m) ==
    LET rest == Restrict(instance, { p \in DOMAIN instance : ~IsPrefix(m.at, p) })
    IN  IF m.remove THEN rest ELSE rest @@ (m.at :> m.value)

NegativeRefused(instance, m, schema) ==
    Applicable(instance, m) /\ Mutated(instance, m) \notin schema.accepts

\* Mutant: a case without a negative passes.
CaseSoundUnbitten(case) ==
    /\ case.schema \in DOMAIN schemas
    /\ case.valid \in schemas[case.schema].accepts

CaseSound(case) ==
    /\ case.schema \in DOMAIN schemas
    /\ LET schema == schemas[case.schema]
       IN  /\ case.valid \in schema.accepts
           /\ {Null, Unexpected(case.valid)} \cap schema.accepts = {}
           /\ case.mutations # {}
           /\ \A m \in case.mutations : NegativeRefused(case.valid, m, schema)

\* The first case of a schema.
CaseOf(f) == cases[CHOOSE i \in DOMAIN cases : cases[i].schema = f /\ \A j \in 1 .. i - 1 : cases[j].schema # f]

Cased == { cases[i].schema : i \in DOMAIN cases }

RunFixtures ==
    /\ section = "fixtures"
    /\ Judged(/\ cases # << >> /\ Distinct([ i \in DOMAIN cases |-> cases[i].schema ])
              /\ \A i \in DOMAIN cases : CaseSound(cases[i])
              /\ DOMAIN schemas \ {Common} \subseteq Cased
              /\ {Graph, Plan} \subseteq Cased
              /\ GraphOf[CaseOf(Plan).valid] = CaseOf(Graph).valid, "vectors")
    /\ UNCHANGED record

------------------------------------------------------------------------------
(* Vectors and retention *)

\* The gates every vector document passes first.
Inspected(f) ==
    /\ Exists(f) /\ tree[f].strict
    /\ \A bound \in DOMAIN Limit : tree[f].size[bound] <= Limit[bound]
    /\ tree[f].sensitive \subseteq Approval[f]

\* Mutant: the pinned files are not hashed.
PinsSoundUnread(pins) == \A i, j \in DOMAIN pins : pins[i].file = pins[j].file => i = j

\* contractFiles: a file is pinned once, and has the bytes pinned.
PinsSound(pins) ==
    /\ \A i, j \in DOMAIN pins : pins[i].file = pins[j].file => i = j
    /\ \A i \in DOMAIN pins : tree[pins[i].file] = pins[i].bytes

\* A digest case hashes the example of its schema, less the excluded fields.
DigestSound(case) ==
    /\ case.schema \in Cased
    /\ case.payload = Restrict(CaseOf(case.schema).valid, DOMAIN CaseOf(case.schema).valid \ case.excluded)

CheckVectors ==
    /\ section = "vectors"
    /\ Judged(/\ \A f \in Vectors : Inspected(f) /\ tree[f].envelope /\ PinsSound(tree[f].pins)
              /\ \A f \in Replayed : Inspected(f) /\ tree[f].replays
              /\ \A f \in DigestVectors : Inspected(f) /\ \A case \in tree[f].cases : DigestSound(case),
              "retention")
    /\ UNCHANGED record

\* The first policy is compared rule by rule with the decision; the later ones
\* have evaluators of their own, the fourth nothing else.
RetentionSound(policy) ==
    \/ policy.version = 4 /\ policy.evaluates
    \/ /\ policy.version < 4 /\ policy.validates /\ Distinct(policy.ids)
       /\ \/ policy.version > 1 /\ policy.evaluates
          \/ /\ policy.version = 1
             /\ Cardinality(ToSet(policy.ids)) = Cardinality(DOMAIN RetentionExpected)
             /\ \A id \in DOMAIN RetentionExpected :
                   id \in ToSet(policy.ids) /\ policy.rule[id] = RetentionExpected[id]
             /\ policy.rule[Backup] = policy.backupExpiry

CheckRetention ==
    /\ section = "retention"
    /\ Judged(\A f \in Under("data") : Exists(f) /\ RetentionSound(tree[f]), "protocols")
    /\ UNCHANGED record

------------------------------------------------------------------------------
(* Protocol authorities *)

Apps == { AppOf[f] : f \in Under("openapi") }

\* localProtocolAuthorities: one admitted document for each application and no
\* other; an entry that is malformed, repeated or points elsewhere throws.
RegistrySound(registry) ==
    /\ Distinct([ i \in DOMAIN registry |-> registry[i].app ])
    /\ \A i \in DOMAIN registry : registry[i].wellFormed /\ RootOf[registry[i].file] = "protocols"
    /\ { registry[i].app : i \in DOMAIN registry } = Apps

StatusAt(f) == IF f \in Cataloged THEN EntryOf(f).status ELSE "missing"

\* The candidate is adopted only for a locked contract, as the reviewed package
\* names it (SpecificationLock); otherwise the check throws.
Adoptable == StatusAt(Adopted) = "locked" /\ Exists(Candidates) /\ tree[Candidates] = << AdoptedSource >>

ResolveProtocols ==
    /\ section = "protocols"
    /\ IF Exists(Authorities) /\ RegistrySound(tree[Authorities]) /\ Adoptable
       THEN /\ authority' = [ app \in Apps |->
                  tree[Authorities][CHOOSE i \in DOMAIN tree[Authorities] : tree[Authorities][i].app = app] ]
            /\ Judged(\A f \in File : RootOf[f] = "apps" /\ Exists(f) =>
                         \A g \in tree[f].mentions : Exists(g), "apis")
            /\ UNCHANGED <<rows, managed, schemas, cases>>
       ELSE Thrown

------------------------------------------------------------------------------
(* The HTTP APIs *)

\* candidateProtocolForVersion: the adopted candidate governs its exact version,
\* and of its application only the historical majors keep the older authority.
AuthorityOf(f) == IF f = Adopted THEN AdoptedSource ELSE authority[AppOf[f]]

HasAuthority(f) == f # Adopted /\ AppOf[f] = AppOf[Adopted] => MajorOf[f] \in HistoricalMajors

Pinned(source) == Exists(source.file) /\ tree[source.file] = source.bytes

\* The operations a protocol states for the major of an API, or else for every major.
Stated(f, lines) ==
    IF MajorOf[f] \in DOMAIN lines THEN lines[MajorOf[f]]
    ELSE IF 0 \in DOMAIN lines THEN lines[0] ELSE << >>

\* candidateProtocolOperations: one explicit line for the major, nothing twice.
Explicit(f, lines) == MajorOf[f] \in DOMAIN lines /\ Distinct(lines[MajorOf[f]])

\* Two lists with the same members equally often.
SameList(s, t) ==
    \A x \in ToSet(s) \cup ToSet(t) :
        Cardinality({ i \in DOMAIN s : s[i] = x }) = Cardinality({ i \in DOMAIN t : t[i] = x })

Operations(api) == ToSet(api.commands) \cup ToSet(api.queries)

\* The places where routes map operations: a route, and a place in its list.
Mappings(api) == UNION { { << r, k >> : k \in DOMAIN api.routes[r].maps } : r \in DOMAIN api.routes }
Mapped(api, place) == api.routes[place[1]].maps[place[2]]

\* The routes map what the API declares and does not keep local, each once.
MappedExactly(api) ==
    /\ \A p, q \in Mappings(api) : Mapped(api, p) = Mapped(api, q) => p = q
    /\ { Mapped(api, p) : p \in Mappings(api) } = Operations(api) \ ToSet(api.local)

\* Commands and queries are those of the pinned protocol; the local operations
\* are those the application model accepts.
DomainSound(f, api) ==
    /\ SameList(api.local, LocalOperations[AppOf[f]])
    /\ ToSet(api.local) \subseteq Operations(api)
    /\ HasAuthority(f) /\ Pinned(AuthorityOf(f))
    /\ LET stated == tree[AuthorityOf(f).file]
       IN  /\ f = Adopted => Explicit(f, stated.commands) /\ Explicit(f, stated.queries)
           /\ SameList(api.commands, Stated(f, stated.commands))
           /\ SameList(api.queries, Stated(f, stated.queries))

\* A GET that runs a command is declared to change state, which one route may.
GetSound(f, api, r) ==
    /\ r.method = "get" => ToSet(r.maps) \cap ToSet(api.commands) = {} \/ r.changing
    /\ r.changing => << f, r.route >> = Callback /\ r.method = "get"

\* A mutation names its idempotency key and the revision it expects, a browser's
\* also its CSRF token, and says how it refuses.
MutationSound(f, r) ==
    r.method # "get" =>
        /\ {"IdempotencyKey", "Revision"} \subseteq r.parameters
        /\ r.cookie => "CsrfToken" \in r.parameters
        /\ (r.refusals = "default" \/ (r.refusals = "closed" /\ f \in ClosedRefusals))

RouteSound(f, api, r) ==
    r.wellFormed /\ r.major = MajorOf[f] /\ GetSound(f, api, r) /\ MutationSound(f, r)

ApiSound(f) ==
    LET api == tree[f]
    IN  /\ api.wellFormed /\ api.routes # << >> /\ api.bounded
        /\ DomainSound(f, api) /\ MappedExactly(api)
        /\ Distinct([ r \in DOMAIN api.routes |-> api.routes[r].id ])
        /\ \A r \in DOMAIN api.routes : RouteSound(f, api, api.routes[r])
        /\ \A g \in api.refs : Exists(g) /\ g \in Cataloged

\* An operation id belongs to one application.
IdsOwned(apis) ==
    \A f, g \in apis : AppOf[f] # AppOf[g] =>
        \A r \in DOMAIN tree[f].routes, s \in DOMAIN tree[g].routes : tree[f].routes[r].id # tree[g].routes[s].id

CheckApis ==
    /\ section = "apis"
    /\ LET apis == Under("openapi")
       IN  Judged(/\ \A f \in apis : Exists(f) /\ ApiSound(f)
                  /\ IdsOwned(apis), "worlds")
    /\ UNCHANGED record

------------------------------------------------------------------------------
(* Worlds and authorization policies *)

WorldSound(f) ==
    /\ tree[f].package = WorldMajor[f] /\ ~tree[f].imports /\ tree[f].exportsResult /\ ~tree[f].placeholder

\* A template grants nothing itself; a policy ends by denying, and each rule
\* that allows ties user, tenant, resource and role together.
PolicySound(f) ==
    /\ ~tree[f].sensitive
    /\ IF EntryOf(f).kind = "biscuit-authority"
       THEN RequiredFacts \subseteq tree[f].facts /\ ~tree[f].decides
       ELSE /\ tree[f].rules # << >> /\ Last(tree[f].rules).deny
            /\ \A i \in DOMAIN tree[f].rules : tree[f].rules[i].deny \/ AllowFacts \subseteq tree[f].rules[i].facts

CheckWorlds ==
    /\ section = "worlds"
    /\ Judged(/\ \A f \in Under("wit") : Exists(f) /\ WorldSound(f)
              /\ \A f \in Under("authz") : Exists(f) /\ f \in Cataloged /\ PolicySound(f), "end")
    /\ UNCHANGED record

Conclude ==
    /\ section = "end"
    /\ section' = IF failures = {} THEN "green" ELSE "red"
    /\ UNCHANGED <<tree, record, failures, touched, edits>>

CatalogNext ==
    \/ Write
    \/ ReadRows \/ ListManaged \/ LoadSchemas \/ LoadFixtures \/ RunFixtures
    \/ CheckVectors \/ CheckRetention \/ ResolveProtocols \/ CheckApis
    \/ CheckWorlds \/ Conclude

CatalogSpec == CatalogInit /\ [][CatalogNext]_catalogVars
------------------------------------------------------------------------------
(* Properties *)

Green == section = "green"

\* check-contracts.ts, fixtures: in a green run every schema but the shared
\* definitions had an example that it accepts, and refused null, an unknown
\* member and each spoiled copy of the example: no schema that accepts too much
\* goes green, whatever was edited between reading it and running it.
FixturesBite ==
    Green => \A f \in DOMAIN schemas \ {Common} :
        \E i \in DOMAIN cases :
            /\ cases[i].schema = f /\ cases[i].valid \in schemas[f].accepts
            /\ Null \notin schemas[f].accepts /\ Unexpected(cases[i].valid) \notin schemas[f].accepts
            /\ \E m \in cases[i].mutations : Mutated(cases[i].valid, m) # cases[i].valid
            /\ \A m \in cases[i].mutations : Mutated(cases[i].valid, m) \notin schemas[f].accepts

Served(api, o) == { p \in Mappings(api) : Mapped(api, p) = o }
Reading(api, o) == \A p \in Served(api, o) : api.routes[p[1]].method = "get"

\* An operation that the pinned protocol of a governed API states for its major
\* has one home: it is local to an application that keeps it local, or served by
\* one route; no command is served by GET but the callback; and no route serves
\* an operation that the protocol does not state.
OneHome(f, api, stated) ==
    LET commands == ToSet(Stated(f, stated.commands))
        all      == commands \cup ToSet(Stated(f, stated.queries))
        local    == ToSet(LocalOperations[AppOf[f]])
    IN  /\ \A o \in all : Cardinality(Served(api, o)) = IF o \in local THEN 0 ELSE 1
        /\ \A o \in commands \ local : Reading(api, o) => f = Callback[1]
        /\ \A r \in DOMAIN api.routes : ToSet(api.routes[r].maps) \subseteq all

OneHomePerOperation == \A f \in Under("openapi") : OneHome(f, tree[f], tree[AuthorityOf(f).file])

\* check-contracts.ts, catalog and references: when the tree stood still, the
\* governed files are the catalog's, each once; what a green tree cites is there
\* (pinned bytes, protocols, dossiers, references); a contract that is not locked
\* awaits a review; and every operation of a protocol has one home.
NothingDangles ==
    Green /\ ~touched =>
        /\ { f \in File : Exists(f) /\ RootOf[f] \in DOMAIN KindsAt } = Cataloged
        /\ Cardinality(Cataloged) = Len(rows)
        /\ \A f \in Vectors : \A i \in DOMAIN tree[f].pins :
              /\ tree[tree[f].pins[i].file] = tree[f].pins[i].bytes
              /\ tree[f].pins[i].file \in DOMAIN schemas => schemas[tree[f].pins[i].file] = tree[f].pins[i].bytes
        /\ \A f \in Under("openapi") : Pinned(AuthorityOf(f)) /\ tree[f].refs \subseteq Cataloged
        /\ \A f \in DOMAIN schemas : schemas[f].refs \subseteq DOMAIN schemas
        /\ \A i \in DOMAIN rows : rows[i].status # "locked" => Exists(rows[i].review.dossier)
        /\ OneHomePerOperation
==============================================================================
