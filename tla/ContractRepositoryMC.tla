-------------------------- MODULE ContractRepositoryMC --------------------------
(***************************************************************************)
(* A small instance of the repository's own gates, each in a scenario of   *)
(* its own, chosen at the start: the specification lock, the contract      *)
(* check and the synchronised copies.  The other two rest meanwhile.       *)
(***************************************************************************)
EXTENDS SpecificationLock, ContractCatalog, SchemaSyncMC

------------------------------------------------------------------------------
(* The specification lock: two protected documents and four catalogs *)

LockRow(id, status, review) == [ id |-> id, status |-> status, review |-> review ]
AuthRow == LockRow("auth", "locked", "none")
DraftRow == LockRow("draft", "candidate", "asked")
LaterRow == LockRow("later", "candidate", "asked")
LockedRows == << AuthRow, LockRow("missions", "candidate", "asked"), DraftRow >>
ReviewedCatalog == << AuthRow, LockRow("missions", "locked", "none"), DraftRow, LaterRow >>
MCRow == { LockRow(id, status, review) : id \in {"auth", "missions", "draft", "later", "more"},
                                       status \in {"locked", "candidate"}, review \in {"none", "asked"} }
MCOrder == << "catalog", "matrix" >>
MCProtected == [ p \in {"catalog", "matrix"} |-> IF p = "catalog" THEN "base" ELSE "matrix" ]
MCRowsOf == [ base |-> LockedRows, other |-> << AuthRow >>, matrix |-> << >> ]
MCAdditionRows == [ later |-> << LaterRow >>, more |-> << LaterRow, LockRow("more", "locked", "none") >> ]
MCCatalogs == { ReviewedCatalog, LockedRows, << AuthRow, LaterRow >>,
                [ReviewedCatalog EXCEPT ![3].status = "locked", ![3].review = "none"] }
Source(d) == [ protocol |-> "missions:3", sourceRepository |-> "supervision", digest |-> d, wellFormed |-> TRUE ]
MCSource == Source("d1")
MCRegistries == { << Source("d1") >>, << Source("d2") >>, << >>, << Source("d1"), Source("d1") >> }

------------------------------------------------------------------------------
(* The contract check: three APIs of two applications, four schemas *)

NoRev == [ independent |-> FALSE, required |-> << >>, dossier |-> "dossier" ]
Asked == [ independent |-> TRUE, required |-> << "architecture", "security" >>, dossier |-> "dossier" ]
LockedAs(kind, f) ==
    [ id |-> f, path |-> f, kind |-> kind, wellFormed |-> TRUE, status |-> "locked", review |-> NoRev, adjuncts |-> {} ]
Awaiting(row) == [row EXCEPT !.status = "candidate", !.review = Asked]
BaseRows ==
    << LockedAs("json-schema", "common"), LockedAs("json-schema", "graph"), Awaiting(LockedAs("json-schema", "plan")),
       LockedAs("data-policy", "retention"), LockedAs("openapi", "auth1"), LockedAs("openapi", "missions2"),
       LockedAs("openapi", "missions3"), [Awaiting(LockedAs("wit", "world")) EXCEPT !.adjuncts = {"golden"}],
       LockedAs("biscuit-policy", "policy"), LockedAs("biscuit-authority", "template") >>
Catalog(list) == [ envelope |-> TRUE, rows |-> list ]

Example(v) == (<< >> :> "node") @@ (<< "id" >> :> v) @@ (<< "body" >> :> "node") @@ (<< "body", "n" >> :> "1")
Wipe(at) == [ at |-> at, remove |-> TRUE, value |-> "" ]
Put(at, v) == [ at |-> at, remove |-> FALSE, value |-> v ]
Accepting(instances, refs) ==
    [ loads |-> TRUE, canonical |-> TRUE, accepts |-> instances, refs |-> refs,
      arrays |-> { [ at |-> << "items" >>, bounded |-> TRUE ], [ at |-> << "allOf", "0" >>, bounded |-> FALSE ] } ]
GraphSchema == Accepting({Example("g")}, {"common"})
PlanSchema == Accepting({Example("p")}, {"common", "graph"})
CaseList(list) == [ envelope |-> TRUE, cases |-> list ]
GraphCase == [ schema |-> "graph", valid |-> Example("g"), mutations |-> { Wipe(<< "id" >>), Put(<< "body", "n" >>, "x") } ]
PlanCase == [ schema |-> "plan", valid |-> Example("p"), mutations |-> { Put(<< "id" >>, "z") } ]
VectorDocument == [ strict |-> TRUE, size |-> [ nodes |-> 2, depth |-> 1 ], sensitive |-> {} ]
Golden(bytes) ==
    VectorDocument @@ [ envelope |-> TRUE, pins |-> << [ file |-> "graph", bytes |-> bytes ] >> ]
Replays(holds) == VectorDocument @@ [ replays |-> holds ]
PlanDigest(excluded) ==
    VectorDocument @@ [ cases |-> { [ schema |-> "plan", excluded |-> excluded,
                                      payload |-> [ p \in DOMAIN Example("p") \ { << "id" >> } |-> Example("p")[p] ] ] } ]
Decided == [ log |-> "P30D", backup |-> "P35D" ]
Retention == [ version |-> 1, validates |-> TRUE, evaluates |-> FALSE, ids |-> << "log", "backup" >>,
               rule |-> Decided, backupExpiry |-> "P35D" ]

Route(major, id, maps) ==
    [ wellFormed |-> TRUE, major |-> major, method |-> "post", route |-> id, id |-> id, maps |-> maps, changing |-> FALSE,
      parameters |-> {"IdempotencyKey", "Revision", "CsrfToken"}, cookie |-> TRUE, refusals |-> "default" ]
Read(major, id, maps) == [Route(major, id, maps) EXCEPT !.method = "get"]
Api(commands, queries, local, routes, refs) ==
    [ wellFormed |-> TRUE, bounded |-> TRUE, commands |-> commands, queries |-> queries, local |-> local,
      routes |-> routes, refs |-> refs ]
Auth1 == Api(<< "Login", "Forget" >>, << >>, << "Forget" >>, << [Read(1, "callback", << "Login" >>) EXCEPT !.changing = TRUE] >>, {"graph"})
Missions2 == Api(<< "Start" >>, << "Get" >>, << >>, << Route(2, "start", << "Start" >>), Read(2, "get", << "Get" >>) >>, {"plan"})
Missions3 ==
    Api(<< "Start", "Stop" >>, << "Get" >>, << >>,
        << [Route(3, "go", << "Start", "Stop" >>) EXCEPT !.refusals = "closed"], Read(3, "get", << "Get" >>) >>, {"plan"})
Protocol(commands, queries) == [ commands |-> commands, queries |-> queries ]
AuthProtocol == Protocol(0 :> << "Forget", "Login" >>, 0 :> << >>)
OldProtocol == Protocol(0 :> << "Begin" >>, 0 :> << "Get" >>)
MissionsProtocol == Protocol((0 :> << "Begin" >>) @@ (2 :> << "Start" >>), 0 :> << "Get" >>)
NextProtocol == Protocol(3 :> << "Stop", "Start" >>, 3 :> << "Get" >>)
Authority(app, f, bytes) == [ app |-> app, file |-> f, bytes |-> bytes, wellFormed |-> TRUE ]
Registry == << Authority("auth", "authProtocol", AuthProtocol), Authority("missions", "missionsProtocol", MissionsProtocol) >>
MCAdoptedSource == Authority("missions", "nextProtocol", NextProtocol)
World == [ package |-> "world@1", imports |-> FALSE, exportsResult |-> TRUE, placeholder |-> FALSE ]
Allow(facts) == [ deny |-> FALSE, facts |-> facts ]
Deny == [ deny |-> TRUE, facts |-> {} ]
Policy(rules) == [ sensitive |-> FALSE, facts |-> {}, decides |-> TRUE, rules |-> rules ]
Template == [ sensitive |-> FALSE, facts |-> {"user", "time"}, decides |-> FALSE, rules |-> << >> ]

\* The tree that passes, and what an author may make of each file.
BaseTree ==
    [ catalog |-> Catalog(BaseRows), common |-> Accepting({}, {}), graph |-> GraphSchema, plan |-> PlanSchema,
      stray |-> Missing, fixtures |-> CaseList(<< GraphCase >>), planFixtures |-> CaseList(<< PlanCase >>),
      golden |-> Golden(GraphSchema), replays |-> Replays(TRUE), digests |-> PlanDigest({ << "id" >> }),
      retention |-> Retention, dossier |-> [ bindsProtocol |-> TRUE ], auth1 |-> Auth1, missions2 |-> Missions2,
      missions3 |-> Missions3, missionsProtocol |-> MissionsProtocol, nextProtocol |-> NextProtocol,
      authProtocol |-> AuthProtocol, authorities |-> Registry, candidates |-> << MCAdoptedSource >>,
      app |-> [ mentions |-> {"plan", "auth1"} ], world |-> World,
      policy |-> Policy(<< Allow({"user", "tenant"}), Deny >>), template |-> Template ]

Altered ==
    [ catalog |-> { Catalog(SubSeq(BaseRows, 1, 9)), Catalog(Append(BaseRows, LockedAs("json-schema", "plan"))),
                    Catalog([BaseRows EXCEPT ![3].status = "locked"]), Catalog([BaseRows EXCEPT ![3] = LockedAs("json-schema", "plan")]),
                    Catalog([BaseRows EXCEPT ![7] = Awaiting(BaseRows[7])]), Catalog([BaseRows EXCEPT ![5].kind = "json-schema"]) },
      common |-> {},
      graph |-> { Accepting({Example("g"), Null}, {"common"}), Accepting({Example("g"), Example("x")}, {"common"}), Accepting({}, {}),
                  Accepting({Example("g"), Mutated(Example("g"), Wipe(<< "id" >>))}, {}),
                  [GraphSchema EXCEPT !.arrays = { [ at |-> << "items" >>, bounded |-> FALSE ] }] },
      plan |-> { Accepting({Example("p"), Example("z")}, {"common"}), Accepting({Example("p"), Unexpected(Example("p"))}, {"common"}),
                 Accepting({Example("p")}, {"stray"}), [PlanSchema EXCEPT !.loads = FALSE] },
      stray |-> { Accepting({}, {}) },
      fixtures |-> { CaseList(<< [GraphCase EXCEPT !.mutations = {}] >>), CaseList(<< [GraphCase EXCEPT !.mutations = { Wipe(<< "no", "n" >>) }] >>),
                     CaseList(<< [GraphCase EXCEPT !.mutations = { Wipe(<< "none" >>) }] >>), CaseList(<< GraphCase, PlanCase >>),
                     [CaseList(<< GraphCase >>) EXCEPT !.envelope = FALSE] },
      planFixtures |-> { CaseList(<< >>), CaseList(<< PlanCase, GraphCase >>), CaseList(<< [PlanCase EXCEPT !.valid = Example("q")] >>) },
      golden |-> { Golden(Accepting({Example("g"), Example("x")}, {"common"})), [Golden(GraphSchema) EXCEPT !.sensitive = {"secret"}],
                   [Golden(GraphSchema) EXCEPT !.size.depth = 3] },
      replays |-> { Replays(FALSE) },
      digests |-> { PlanDigest({}) },
      retention |-> { [Retention EXCEPT !.rule.log = "P1Y"], [Retention EXCEPT !.backupExpiry = "P1D"],
                      [Retention EXCEPT !.version = 2, !.evaluates = TRUE],
                      [Retention EXCEPT !.version = 4, !.validates = FALSE, !.evaluates = TRUE] },
      dossier |-> { [ bindsProtocol |-> FALSE ] },
      auth1 |-> { [Auth1 EXCEPT !.local = << >>], [Auth1 EXCEPT !.routes[1].changing = FALSE], [Auth1 EXCEPT !.routes[1].id = "start"],
                  [Auth1 EXCEPT !.routes[1].maps = << "Login", "Forget" >>] },
      missions2 |-> { [Missions2 EXCEPT !.routes[1].method = "get"], [Missions2 EXCEPT !.routes[1].method = "get", !.routes[1].changing = TRUE],
                      [Missions2 EXCEPT !.routes = Append(@, Route(2, "again", << "Start" >>))], [Missions2 EXCEPT !.commands = << >>],
                      [Missions2 EXCEPT !.routes[1].parameters = {"Revision"}], [Missions2 EXCEPT !.refs = {"stray"}],
                      [Missions2 EXCEPT !.commands = << "Begin" >>, !.routes[1].maps = << "Begin" >>] },
      missions3 |-> { [Missions3 EXCEPT !.routes[1].maps = << "Start" >>], [Missions3 EXCEPT !.routes[1].major = 2] },
      missionsProtocol |-> { OldProtocol },
      nextProtocol |-> { MissionsProtocol },
      authProtocol |-> { Protocol(0 :> << "Login" >>, 0 :> << >>) },
      authorities |-> { << Registry[1] >>, [Registry EXCEPT ![2].bytes = OldProtocol], [Registry EXCEPT ![2].file = "fixtures"] },
      candidates |-> { << [MCAdoptedSource EXCEPT !.bytes = MissionsProtocol] >> },
      app |-> { [ mentions |-> {"stray"} ] },
      world |-> { [World EXCEPT !.imports = TRUE] },
      policy |-> { Policy(<< Deny, Allow({"user", "tenant"}) >>), Policy(<< Allow({"user"}), Deny >>) },
      template |-> { [Template EXCEPT !.decides = TRUE] } ]

MCFile == DOMAIN BaseTree
MCContents == [ f \in MCFile |-> Altered[f] \cup ({BaseTree[f]} \ {Missing}) ]
MCTrees == UNION { { [BaseTree EXCEPT ![f] = c] : c \in MCContents[f] \cup {Missing} } : f \in MCFile }
FilesAt ==
    [ schemas |-> {"common", "graph", "plan", "stray"}, data |-> {"retention"}, openapi |-> {"auth1", "missions2", "missions3"},
      wit |-> {"world"}, authz |-> {"policy", "template"}, reviews |-> {"dossier"}, apps |-> {"app"},
      fixtures |-> {"fixtures", "planFixtures", "golden", "replays", "digests"},
      protocols |-> {"missionsProtocol", "nextProtocol", "authProtocol"}, contracts |-> {"catalog", "authorities", "candidates"} ]
MCRootOf == [ f \in MCFile |-> CHOOSE root \in DOMAIN FilesAt : f \in FilesAt[root] ]
MCAppOf == [ auth1 |-> "auth", missions2 |-> "missions", missions3 |-> "missions" ]
MCMajorOf == [ auth1 |-> 1, missions2 |-> 2, missions3 |-> 3 ]
MCInventories == << [ file |-> "planFixtures", count |-> 1, tolerant |-> FALSE ] >>
MCGraphOf == (Example("p") :> Example("g")) @@ (Example("q") :> Null)
MCLimit == [ nodes |-> 3, depth |-> 2 ]
MCApproved == [ golden |-> {"canary"}, replays |-> {}, digests |-> {} ]
MCLocal == [ auth |-> << "Forget" >>, missions |-> << >> ]
MCCallback == << "auth1", "callback" >>
MCWorldMajor == [ world |-> "world@1" ]

------------------------------------------------------------------------------
VARIABLE scenario

vars == <<lockVars, catalogVars, syncVars, scenario>>

Init ==
    /\ LockInit /\ CatalogInit /\ SyncInit
    /\ scenario \in {"lock", "check", "copies"}
    /\ scenario # "lock" => disk.catalog = ReviewedCatalog /\ disk.registry = << Source("d1") >>
    /\ scenario # "check" => tree = BaseTree
    /\ scenario # "copies" => canonical["brief"] = Plain

Next ==
    \/ scenario = "lock" /\ LockNext /\ UNCHANGED <<catalogVars, syncVars, scenario>>
    \/ scenario = "check" /\ CatalogNext /\ UNCHANGED <<lockVars, syncVars, scenario>>
    \/ scenario = "copies" /\ SyncNext /\ UNCHANGED <<lockVars, catalogVars, scenario>>

Spec == Init /\ [][Next]_vars /\ SyncFairness
==============================================================================
