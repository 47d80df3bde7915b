------------------------------ MODULE SchemaSync ------------------------------
(***************************************************************************)
(* The committed copies of the schemas and of what is generated from them: *)
(* packages/sdk-ts/schemas (sync-schemas.ts), packages/sdk-ts/src/generated *)
(* (generate-types.ts) and crates/sdk-rs/schemas (check-vendored-schemas.ts *)
(* --write).  Each tool rewrites files one by one and may die between two   *)
(* steps or inside one; the checks decide whether what is left may ship.   *)
(***************************************************************************)
EXTENDS Naturals, SchemaProjection

CONSTANTS
    Schema, Document,       \* names of schema files; what each may contain
    Torn,                   \* a file whose writing was cut off
    MaxRewrites, MaxCrashes

ASSUME SyncAssumption ==
    /\ IsFiniteSet(Schema)
    /\ \A n \in Schema : \A d \in Document[n] : "" \in DOMAIN d /\ IsDocument(d)

VARIABLES
    canonical,  \* contracts/schemas
    copy,       \* the three projections: "schemas", "types" and "crate"
    job,        \* what each tool is doing
    released,   \* what shipped last, and the canonical schemas it shipped with
    rewrites, crashes

syncVars == <<canonical, copy, job, released, rewrites, crashes>>

Tool == {"schemas", "types", "crate"}
NoCopy == << >>
Idle == << >>           \* no job

SyncInit ==
    /\ canonical \in { d \in [Schema -> UNION { Document[n] : n \in Schema }] :
                          \A n \in Schema : d[n] \in Document[n] }
    /\ ~RenderFails(canonical) /\ ~ProjectFails(canonical)
    /\ copy = [ t \in Tool |-> IF t = "types" THEN [ n \in Schema |-> Rendered(canonical, n) ] ELSE canonical ]
    /\ job = [ t \in Tool |-> Idle ]
    /\ released = NoCopy
    /\ rewrites = 0 /\ crashes = 0

Without(f, n) == [ m \in DOMAIN f \ {n} |-> f[m] ]
With(f, n, x) == [ m \in DOMAIN f \cup {n} |-> IF m = n THEN x ELSE f[m] ]

Loading(t) == job[t] # Idle /\ job[t].unread # {}

\* An author writes, adds or removes a canonical schema; a tool that is reading them
\* has then seen more than one authority.
Author ==
    /\ rewrites < MaxRewrites /\ rewrites' = rewrites + 1
    /\ \E n \in Schema :
          \/ \E d \in Document[n] : canonical' = With(canonical, n, d)
          \/ n \in DOMAIN canonical /\ canonical' = Without(canonical, n)
    /\ job' = IF Loading("schemas") THEN [job EXCEPT !["schemas"].seen = @ \cup {canonical'}] ELSE job
    /\ UNCHANGED <<copy, released, crashes>>

\* What a tool is to leave behind: the schemas byte for byte, or their types.
Wanted(t, docs) == IF t = "types" THEN [ n \in DOMAIN docs |-> Rendered(docs, n) ] ELSE docs

\* Mutant: what is to be written is read when it is written.
ContentAsWritten(t, n) == IF n \in DOMAIN canonical THEN Wanted(t, canonical)[n] ELSE job[t].wanted[n]

Content(t, n) == job[t].wanted[n]

\* The tools write to different directories: it is enough to run one at a time.
Free == \A t \in Tool : job[t] = Idle

\* syncSchemaDirectories and generate-types list the authority, which must not be
\* empty.
Begin(t) ==
    /\ t \in {"schemas", "types"} /\ Free
    /\ copy[t] # Wanted(t, canonical) /\ DOMAIN canonical # {}
    /\ job' = [job EXCEPT ![t] = [ unread |-> DOMAIN canonical, wanted |-> NoCopy, todo |-> {}, open |-> {},
                                   listed |-> DOMAIN canonical,
                                   seen |-> IF t = "schemas" THEN {canonical} ELSE {} ]]
    /\ UNCHANGED <<canonical, copy, released, rewrites, crashes>>

\* They read the files they listed one by one, all before a file is changed; one
\* that is gone by then throws, and so does a schema that cannot be rendered.
ReadFile(t) ==
    /\ t \in {"schemas", "types"} /\ Loading(t)
    /\ \E n \in job[t].unread :
          LET read == With(job[t].wanted, n, canonical[n])
              last == job[t].unread = {n}
          IN  IF n \notin DOMAIN canonical \/ (last /\ t = "types" /\ RenderFails(read))
              THEN job' = [job EXCEPT ![t] = Idle]
              ELSE job' = [job EXCEPT ![t].unread = @ \ {n}, ![t].wanted = IF last THEN Wanted(t, read) ELSE read,
                                      ![t].todo = IF last THEN DOMAIN read ELSE {}]
    /\ UNCHANGED <<canonical, copy, released, rewrites, crashes>>

\* Between the last read and the end of a run.
Writing(t) == job[t] # Idle /\ job[t].unread = {}

\* Mutant: no file is removed.
ExtrasKept(t) == {}

\* Only the copy of the schemas loses the files that are no longer wanted.
Extras(t) == IF t = "schemas" THEN DOMAIN copy[t] \ DOMAIN job[t].wanted ELSE {}

RemoveExtra(t) ==
    /\ Writing(t)
    /\ \E n \in Extras(t) : copy' = [copy EXCEPT ![t] = Without(copy[t], n)]
    /\ UNCHANGED <<canonical, job, released, rewrites, crashes>>

\* writeFile truncates the file and then fills it.
OpenFile(t) ==
    /\ Writing(t) /\ Extras(t) = {} /\ job[t].open = {}
    /\ \E n \in job[t].todo :
          /\ copy' = [copy EXCEPT ![t] = With(copy[t], n, Torn)]
          /\ job' = [job EXCEPT ![t].open = {n}, ![t].todo = @ \ {n}]
    /\ UNCHANGED <<canonical, released, rewrites, crashes>>

FillFile(t) ==
    /\ job[t] # Idle
    /\ \E n \in job[t].open : copy' = [copy EXCEPT ![t] = With(copy[t], n, Content(t, n))]
    /\ job' = IF job[t].todo = {} THEN [job EXCEPT ![t] = Idle] ELSE [job EXCEPT ![t].open = {}]
    /\ UNCHANGED <<canonical, released, rewrites, crashes>>

\* The crate's tool refuses any extra file before it writes one; then it reads
\* and writes file by file.
BeginCrate ==
    /\ Free /\ copy["crate"] # canonical
    /\ DOMAIN canonical # {} /\ DOMAIN copy["crate"] \subseteq DOMAIN canonical
    /\ job' = [job EXCEPT !["crate"] = [ todo |-> DOMAIN canonical ]]
    /\ UNCHANGED <<canonical, copy, released, rewrites, crashes>>

\* A schema that is gone by then throws.
WriteCrate ==
    /\ job["crate"] # Idle
    /\ \E n \in job["crate"].todo :
          IF n \notin DOMAIN canonical
          THEN job' = [job EXCEPT !["crate"] = Idle] /\ UNCHANGED copy
          ELSE /\ copy' = [copy EXCEPT !["crate"] = With(copy["crate"], n, canonical[n])]
               /\ job' = [job EXCEPT !["crate"] =
                             IF job["crate"].todo = {n} THEN Idle ELSE [ todo |-> job["crate"].todo \ {n} ]]
    /\ UNCHANGED <<canonical, released, rewrites, crashes>>

\* The reviewed removal that the tool asks for.
RemoveFromCrate ==
    /\ Free
    /\ \E n \in DOMAIN copy["crate"] \ DOMAIN canonical : copy' = [copy EXCEPT !["crate"] = Without(copy["crate"], n)]
    /\ UNCHANGED <<canonical, job, released, rewrites, crashes>>

\* A tool dies; a file it had open stays torn, and a file of the crate it was
\* writing may be.
Crash ==
    /\ crashes < MaxCrashes /\ crashes' = crashes + 1
    /\ \E t \in Tool :
          /\ job[t] # Idle /\ job' = [job EXCEPT ![t] = Idle]
          /\ \/ UNCHANGED copy
             \/ t = "crate" /\ \E n \in job[t].todo : copy' = [copy EXCEPT ![t] = With(copy[t], n, Torn)]
    /\ UNCHANGED <<canonical, released, rewrites>>

\* compareSchemaDirectories, and the check of the crate: nothing missing,
\* nothing different, nothing extra.
SameFiles(source, vendored) ==
    /\ DOMAIN source # {} /\ DOMAIN vendored = DOMAIN source
    /\ \A n \in DOMAIN source : vendored[n] = source[n]

\* generate-types --check compares the types of the schemas there are.
TypesCurrent ==
    ~RenderFails(canonical) /\ \A n \in DOMAIN canonical :
        n \in DOMAIN copy["types"] /\ copy["types"][n] = Rendered(canonical, n)

\* The checks of both packages pass on one tree, the crate builds, and it ships.
Release ==
    /\ Free
    /\ SameFiles(canonical, copy["schemas"]) /\ SameFiles(canonical, copy["crate"])
    /\ TypesCurrent /\ ~ProjectFails(copy["crate"])
    /\ released' = [ copy |-> copy, from |-> canonical ]
    /\ UNCHANGED <<canonical, copy, job, rewrites, crashes>>

SyncStep == \E t \in {"schemas", "types"} : ReadFile(t) \/ RemoveExtra(t) \/ OpenFile(t) \/ FillFile(t)

SyncNext ==
    \/ Author \/ Crash \/ Release
    \/ \E t \in {"schemas", "types"} : Begin(t) \/ ReadFile(t) \/ RemoveExtra(t) \/ OpenFile(t) \/ FillFile(t)
    \/ BeginCrate \/ WriteCrate \/ RemoveFromCrate

\* A tool that runs proceeds; a copy that its check finds drifted is synced again.
SyncFairness ==
    /\ SF_syncVars(Begin("schemas"))
    /\ WF_syncVars(SyncStep) /\ WF_syncVars(WriteCrate)

SyncSpec == SyncInit /\ [][SyncNext]_syncVars /\ SyncFairness

------------------------------------------------------------------------------
(* Properties *)

\* Rust types and TypeScript types are two projections of the same schemas, cut at
\* the same recursion: what the TypeScript types say, the Rust types say as well,
\* but below a name that is a skipped keyword (generate-types.ts, build.rs).  And
\* whatever died while a copy was written, what ships holds no torn file, both
\* registries hold the authority's schemas, and the types are theirs (the checks
\* of both packages).
LanguagesAgree ==
    /\ RustCovers(canonical)
    /\ released # NoCopy =>
          /\ released.copy["schemas"] = released.from /\ released.copy["crate"] = released.from
          /\ \A n \in DOMAIN released.from : released.copy["types"][n] = Rendered(released.copy["schemas"], n)

\* Every file is as the authority had it at some moment from the listing to the last read.
AsRead(c, seen) == \A n \in DOMAIN c : \E docs \in seen : n \in DOMAIN docs /\ c[n] = docs[n]

\* syncSchemaDirectories: whatever was in the directory, and however the authority is
\* edited while files are read and written, a sync that finishes leaves exactly the
\* schemas it listed, each as it was at some moment of the reading and none as it
\* became later; so it leaves the authority itself if nobody edits it meanwhile.
CopyAsRead ==
    [][ (Writing("schemas") /\ job'["schemas"] = Idle /\ UNCHANGED crashes) =>
          /\ DOMAIN copy'["schemas"] = job["schemas"].listed
          /\ AsRead(copy'["schemas"], job["schemas"].seen)
          /\ \A docs \in job["schemas"].seen : job["schemas"].seen = {docs} => copy'["schemas"] = docs ]_syncVars

\* README.md of sdk-rs, line 7: the projection "removes validation-only conditionals
\* unsupported by static Rust types".  So a property that a schema declares, as the
\* TypeScript types show, is in its Rust types.
OnlyConditionalsRemoved == \A n \in DOMAIN canonical \ {Shared} : LostInRust(canonical, n) = {}

\* A copy that drifted, or was left half written, ends up current once authors
\* stop: the copy heals and stays so.
DriftRepaired == <>[](DOMAIN canonical # {} => copy["schemas"] = canonical)
==============================================================================
