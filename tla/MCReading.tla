----------------------------- MODULE MCReading -----------------------------
(***************************************************************************)
(* The reading side in one run: the tree of a repository and its locators, *)
(* what a dataset release serves of it, relation traversal, search and its *)
(* predicates, semantic rerank, the body cache and the engine.  They are   *)
(* independent models; the initial state picks the part that moves and the *)
(* others stand still.                                                     *)
(***************************************************************************)
EXTENDS Integers, Sequences, SequencesExt, TLC, ProjectionEngine, Serving

CONSTANTS x, y, a, b, v1, v2, NoRef, NoPath, NoEntry

Clients == {x, y}

Sym == Permutations(Clients)

VARIABLES part,
    query, token, run, lane, got, expired,
    gen, srun, cur, stoken, sgot, sfaults,
    lru, filled, markers, bytes, epoch, closed, calls,
    files, entry, index, layout, manifest, excused, pushes,
    units, seen, changes,
    pc, request, fault, window, ranking, called, event, observed, store

(* Stored relations of the two members: a chain whose later nodes sort     *)
(* before the earlier ones, a star, and a cycle with a relation of three   *)
(* endpoints one of which is outside the scope.                            *)
MCGraphs ==
    { << << <<1, 2>>, <<1, 4>>, <<4, 3>> >>, << <<1, 3>>, <<2, 5>>, <<3, 5>> >> >>,
      << << <<1, 4>>, <<1, 5>>, <<4, 2>>, <<5, 3>> >>, << <<2, 5>> >> >>,
      << << <<1, 3, 6>>, <<3, 3>> >>, << <<5, 4>>, <<3, 2, 5>>, <<4, 1>> >> >> }

Relations == INSTANCE Traverse WITH
    Nodes <- 1 .. 6, Scope <- 1 .. 5, Members <- {1, 2}, Graphs <- MCGraphs, Hidden <- {<<2, 1>>},
    Start <- 1, Hops <- {2, 6}, MinHops <- {0, 2}, Limits <- {1, 2, 4}, LanePage <- 2,
    PageBudget <- 12, EdgeBudget <- 5, MaxExpire <- 1

(* Candidates 8 and 9 are not kept; member 2 is a State projection.        *)
Paging == INSTANCE SearchPaging WITH
    Members <- {1, 2}, StateMembers <- {2},
    Orders <- << << <<1, 8, 2, 3, 6>>, <<2, 1, 6, 3, 8>> >>, << <<9, 4, 5>>, <<5, 4, 9>> >> >>,
    Kept <- 1 .. 6, BatchSize <- 3, Limits <- {1, 2, 3}, MaxStops <- 2, MaxRebuilds <- 2,
    run <- srun, token <- stoken, got <- sgot, faults <- sfaults

Bodies == {[repo |-> k[1], commit |-> k[2], unit |-> k[3]] :
              k \in {<<1, 1, "a">>, <<1, 1, "b">>, <<1, 2, "c">>, <<2, 1, "b">>}}

(* The body of "c" does not fit the cache.                                 *)
Cache == INSTANCE BodyCache WITH
    Calls <- Clients, Bases <- {<<1, 1>>, <<1, 2>>, <<2, 1>>}, Units <- {"a", "b", "c"},
    Present <- Bodies,
    Weight <- ("a" :> 2 @@ "b" :> 3 @@ "c" :> 9),
    MarkerWeight <- 1, MaxBytes <- 6, MaxEntries <- 2, WarmLimit <- 2, WarmBatchSize <- 2,
    MaxEpoch <- 1

(* Commit 2 adds b, commit 3 removes it again and changes a; commit 4      *)
(* belongs to a recreated repository and declares other access hints.      *)
(* Object a has two units, of which commit 3 changes one.                  *)
Unit(head, tail, single) == a :> head @@ "a2" :> tail @@ b :> single

EngineUnits == {a, "a2", b}
EngineOwner == a :> a @@ "a2" :> a @@ b :> b
EngineTree == << Unit(v1, v1, Absent), Unit(v1, v1, v1), Unit(v2, v1, Absent), Unit(v1, Absent, v2) >>
EngineAccess == <<1, 1, 1, 2>>
EngineEra == <<1, 1, 1, 2>>

(* A schema s, an object i of two aspects, and an entity j whose default   *)
(* path depends on its schema.  The wide definition of s accepts both      *)
(* values, the narrow one is an allowed update of it.                      *)
UnitAddresses == {"s", "i", "i1", "i2", "j"}

DefaultPath(addr, ref) ==
    CASE addr = "s" -> 1
      [] addr \in {"i", "i1"} -> 2
      [] addr = "i2" -> 3
      [] addr = "j" -> IF ref = "S" THEN 5 ELSE 4

PutUnit(addr, ref, value, hint) ==
    [op |-> "PUT", addr |-> addr, ref |-> ref, value |-> value, hint |-> hint, pre |-> "any"]

RemoveUnit(addr) == [op |-> "REMOVE", addr |-> addr, pre |-> "any"]

SchemaOps == {RemoveUnit("s")} \cup {PutUnit("s", NoRef, d, NoPath) : d \in {"wide", "narrow"}}

InstanceOps ==
    {RemoveUnit(addr) : addr \in {"i", "i1", "j"}}
      \cup {PutUnit("i1", ref, v, NoPath) : ref \in {NoRef, "S"}, v \in {"num", "text"}}
      \cup {PutUnit("i2", "S", "num", NoPath), PutUnit("j", "S", "num", 3), PutUnit("j", NoRef, "text", 5)}
      \cup {PutUnit("j", ref, "num", NoPath) : ref \in {NoRef, "S"}}
      \cup {[PutUnit("j", NoRef, "text", NoPath) EXCEPT !.pre = "absent"]}

UnitBatches ==
    {<<o>> : o \in SchemaOps \cup InstanceOps}
      \cup (SchemaOps \X InstanceOps)
      \cup ({RemoveUnit("i"), PutUnit("i1", NoRef, "text", NoPath)}
              \X {PutUnit("i1", "S", "num", NoPath), PutUnit("j", "S", "num", 3),
                  PutUnit("i2", "S", "num", NoPath)})

Stored(path, addr, ref, value) == {[path |-> path, addr |-> addr, ref |-> ref, value |-> value]}

Knowledge == INSTANCE KnowledgeTree WITH
    Addresses <- UnitAddresses,
    Object <- ("s" :> "S" @@ "i" :> "I" @@ "i1" :> "I" @@ "i2" :> "I" @@ "j" :> "J"),
    Blobs <- {"s", "i", "j"}, Schemas <- {"S"},
    Default <- [k \in UnitAddresses \X {NoRef, "S"} |-> DefaultPath(k[1], k[2])],
    Accepts <- ("wide" :> {"num", "text"} @@ "narrow" :> {"num"}), Breaking <- {<<"narrow", "wide">>},
    Batches <- UnitBatches,
    Pushes <- {<<2, {}>>, <<4, Stored(4, "j", NoRef, "num")>>, <<5, Stored(5, "i2", "S", "text")>>},
    MaxPushes <- 1

(* Two schemas of members and one of the entity; units that are stored,     *)
(* bound and streamed, some of them without a schema.  A number is written  *)
(* in two ways, and a text is no number.                                   *)
UnitOf(aspect, schema, source) == [aspect |-> aspect, schema |-> schema, source |-> source]

Hinted(schema, aspect, path, type, access) ==
    [schema |-> schema, aspect |-> aspect, path |-> path, type |-> type, access |-> access]

HintedFields ==
    {Hinted("S", "p", "n", "int", {"filter", "sort"}), Hinted("S", "p", "t", "string", {"text"}),
     Hinted("T", "q", "n", "int", {"sort"}), Hinted("T", "q", "t", "string", {"filter", "text"}),
     Hinted("E", "", "n", "string", {"filter"})}

Scalars == {"1", "01", "2", "a", "ab", "ab c"}

UnitContents ==
    {"n" :> p[1] @@ "t" :> p[2] :
        p \in {<<{}, {}>>, <<{"1"}, {"ab"}>>, <<{"01", "2"}, {"a", "ab c"}>>, <<{"2"}, {"1"}>>, <<{"ab"}, {}>>}}

Canonical ==
    "string" :> [r \in Scalars |-> r]
    @@ "int" :> [r \in Scalars |-> CASE r \in {"1", "01"} -> "1" [] r = "2" -> "2" [] OTHER -> "bad"]

Begin == {<<v, v>> : v \in Scalars} \cup {<<"ab", "a">>, <<"ab c", "a">>, <<"ab c", "ab">>}

Asked(how, schema, path, values, mode) ==
    [kind |-> "clause",
     clause |-> [op |-> how, schema |-> schema, aspect |-> "", path |-> path, values |-> values, mode |-> mode]]

Composed(kind, kids) == [kind |-> kind, kids |-> kids]

AskedClauses ==
    {Asked("MATCH", "", "", {v}, m) : v \in {"a", "ab c"}, m \in {"all", "any"}}
      \cup {Asked("MATCH", s, "t", {v}, "all") : s \in {"", "S", "T"}, v \in {"a", "ab c"}}
      \cup {Asked(o, s, p, {v}, "all") : o \in {"EQ", "NEQ", "PREFIX", "CONTAINS", "GT", "LTE"},
                                        s \in {"S", "T", "E"}, p \in {"n", "t"}, v \in {"01", "ab"}}
      \cup {Asked(o, s, p, {}, "all") : o \in {"EXISTS", "MISSING", "SORT", "EQ"},
                                        s \in {"S", "T", "E"}, p \in {"n", "t"}}
      \cup {Asked("IN", "S", "n", {"1", "2"}, "all")}

Kids ==
    {Asked("MISSING", "S", "n", {}, "all"), Asked("MATCH", "T", "t", {"a"}, "all"),
     Asked("NEQ", "E", "n", {"1"}, "all"), Asked("GT", "S", "n", {"01"}, "all"),
     Asked("EQ", "T", "t", {"1"}, "all"), Asked("SORT", "S", "n", {}, "all")}

AskedExpressions ==
    AskedClauses
      \cup {Composed(k, <<c, d>>) : k \in {"all", "any"}, c \in Kids, d \in Kids}
      \cup {Composed(k, <<Composed(l, <<Asked("MISSING", "S", "n", {}, "all"), Asked("EQ", "T", "t", {"1"}, "all")>>),
                          Asked("MATCH", "T", "t", {"a"}, "all")>>) : k \in {"all", "any"}, l \in {"all", "any"}}
      \cup {Composed("any", <<>>),
            Composed("all", <<Composed("any", <<Composed("all", <<Asked("EXISTS", "E", "n", {}, "all")>>)>>)>>)}

Predicate == INSTANCE SearchPredicate WITH
    Addresses <- {UnitOf("", "", "stored"), UnitOf("p", "S", "stored"), UnitOf("p", "S", "pull"),
                  UnitOf("q", "", "pull"), UnitOf("q", "T", "stream")},
    Fields <- HintedFields, Contents <- UnitContents, Normal <- Canonical,
    Rank <- ("01" :> 1 @@ "1" :> 2 @@ "2" :> 3 @@ "a" :> 4 @@ "ab" :> 5 @@ "ab c" :> 6),
    Starting <- Begin, Containing <- Begin,
    Terms <- [v \in Scalars |-> IF v = "ab c" THEN {"ab", "c"} ELSE {v}],
    Requests <- AskedExpressions, MaxDepth <- 3, MaxLeaves <- 3, MaxChanges <- 2

(* Windows with hits that have no value, and values that are too large     *)
(* alone or together; callers name duplicates, strangers and what they may *)
(* not read.                                                               *)
Hit(ref, size) == [ref |-> ref, size |-> size]

HitWindows ==
    {<<>>, <<Hit("p", 0)>>, <<Hit("p", 3)>>, <<Hit("p", 1), Hit("q", 2)>>, <<Hit("p", 0), Hit("q", 2)>>,
     <<Hit("p", 1), Hit("q", 2), Hit("r", 1)>>, <<Hit("p", 1), Hit("q", 2), Hit("r", 0)>>,
     <<Hit("p", 2), Hit("q", 2), Hit("r", 2)>>}

RerankContract(k, ties, unjudged) == [topK |-> k, ties |-> ties, unjudged |-> unjudged]

Rerank == INSTANCE SemanticRerank WITH
    Windows <- HitWindows,
    Contracts <- {RerankContract(0, FALSE, FALSE), RerankContract(1, TRUE, TRUE),
                  RerankContract(2, FALSE, TRUE), RerankContract(2, TRUE, FALSE)},
    Named <- {<<>>, <<"p", "q">>, <<"p", "p">>, <<"q", "r", "p">>, <<"p", "far">>, <<"r", "dark">>,
              <<"p", "q", "r", "s">>},
    Member <- {"p", "q", "r", "s", "dark"}, Readable <- {"p", "q", "r", "s", "far"},
    SizeOf <- ("p" :> 1 @@ "q" :> 2 @@ "r" :> 1 @@ "s" :> 1 @@ "dark" :> 1 @@ "far" :> 1),
    MaxCandidates <- 3, MaxCandidateBytes <- 2, MaxInputBytes <- 5, MaxAnswer <- 3

(* Object e of the served repository: a plain aspect, an aspect bound by    *)
(* its declaration or by a schema, its former revision, and schemas of two  *)
(* entities; a second member stores an aspect the first one binds.          *)
Made(r, at, path, object, aspect, ref, source) ==
    [repo |-> r, at |-> at, path |-> path, object |-> object, aspect |-> aspect, member |-> "",
     ref |-> [repo |-> "", object |-> ref[1], at |-> ref[2]], source |-> source,
     body |-> [entity |-> "", aspect |-> "", origin |-> "", descriptor |-> ""]]
Binds(object, entity, aspect, origin) ==
    [Made("r1", "c2", <<"schema", object>>, object, "", <<"", "">>, "snapshot")
        EXCEPT !.body.entity = entity, !.body.aspect = aspect, !.body.origin = origin]
AspectX(source, at) == Made("r1", "c2", <<"e", "x">>, "e", "X", <<"sx", at>>, source)
SchemaX == Binds("sx", "E", "X", "ox")
SchemaY == Binds("sy", "E", "Y", "oy")
SchemaP == Binds("sp", "E", "P", "")
FormerX == Made("r1", "c1", <<"e", "x">>, "e", "X", <<"sx", "">>, "snapshot")
OtherY == Made("r2", "c1", <<"e">>, "e", "Y", <<"", "">>, "snapshot")
Described == {[Made("r1", "c2", <<"e", "d">>, "e", "D", <<"sx", "">>, "state") EXCEPT !.body.descriptor = "d"],
              Made("r1", "c2", <<"d">>, "d", "", <<"", "">>, "snapshot")}
ServedTrees ==
    {t \cup {Binds("sz", "F", "Y", "oz"), Made("r1", "c2", <<"e", "p">>, "e", "P", <<"sp", "">>, "snapshot")} : t \in
       { {SchemaX, SchemaP, AspectX("state", "")}, {SchemaX, SchemaP, AspectX("state", ""), SchemaY},
         {SchemaX, SchemaY}, {SchemaX, SchemaY, SchemaP}, {SchemaX, SchemaY, SchemaP, OtherY},
         {SchemaX, SchemaP, AspectX("stream", "")}, {SchemaX, SchemaP, AspectX("snapshot", ""), FormerX},
         {SchemaX, SchemaP, AspectX("state", "c1"), FormerX}, {SchemaX, SchemaP} \cup Described,
         {SchemaX, SchemaY, SchemaP, FormerX, OtherY} \cup Described }}
Item(r, kind, path) == [repo |-> r, kind |-> kind, path |-> path]
Below(path) == Item("r1", "prefix", path)
ServedItems ==
    {i \cup {Item("r2", "prefix", <<>>)} : i \in
       { {Below(<<>>)}, {Below(<<"schema">>), Below(<<"e">>)}, {Below(<<"e">>)}, {},
         {Below(<<"e">>), Item("r1", "file", <<"schema", "sz">>)},
         {Below(<<"e">>), Item("r1", "file", <<"schema", "sp">>), Item("r1", "file", <<"schema", "sy">>)},
         {Below(<<"schema">>), Item("r1", "file", <<"e", "p">>)},
         {Item("r1", "file", <<"e", "x">>), Below(<<"schema">>), Item("r1", "file", <<"d">>)},
         {Below(<<"e">>), Below(<<"schema">>), Item("r1", "file", <<"d">>)} }}
WholeRead(include, exclude) ==
    [kind |-> "read", object |-> "e", selector |-> [include |-> include, exclude |-> exclude]]
HitAt(at) == [kind |-> "hit", object |-> "e", repo |-> "r1", at |-> at, selector |-> [include |-> {}, exclude |-> {}]]
UnitRead(aspect) ==
    [kind |-> "address", address |-> [object |-> "e", aspect |-> aspect, member |-> ""],
     stored |-> FALSE, bound |-> FALSE]
Inspect(of, object) == [kind |-> "inspect", of |-> of, object |-> object]

ServedAsks ==
    {WholeRead({}, {}), WholeRead({"X", "P"}, {}), WholeRead({}, {"Y"}), HitAt("c2"), HitAt("c1"),
     UnitRead("X"), UnitRead("Y"), UnitRead("D"),
     Inspect("schema", "e"), Inspect("log", "e"), Inspect("schema", "sz")}
ServedMembers == <<"r1", "r2">>
ServedPin == "r1" :> "c2" @@ "r2" :> "c1"

traverseVars == <<query, token, run, lane, got, expired>>
pagingVars == <<gen, srun, cur, stoken, sgot, sfaults>>
cacheVars == <<lru, filled, markers, bytes, epoch, closed, calls>>
treeVars == <<files, entry, index, layout, manifest, excused, pushes>>
predicateVars == <<units, seen, changes>>
rerankVars == <<pc, request, fault, window, ranking, called, event, observed, store>>

(* A traversal starts with any query, the engine with any provider, the    *)
(* tree in any layout, and a predicate is asked of any object; the other   *)
(* parts fix them.                                                         *)
MCInit ==
    /\ Relations!Init /\ Paging!Init /\ Cache!Init /\ EngineInit /\ Knowledge!Init /\ seen = {} /\ changes = 0
    /\ part \in {"traverse", "paging", "cache", "engine", "tree", "predicate", "rerank", "serving"}
    /\ IF part = "predicate" THEN Predicate!Init ELSE units = {}
    /\ part # "traverse" =>
         query = [graph |-> CHOOSE graph \in MCGraphs : TRUE, hops |-> 2, min |-> 0,
                  channel |-> "dataset", limit |-> 1]
    /\ part # "engine" => provider = 1
    /\ part # "tree" => files = {} /\ layout = "none"
    /\ IF part = "rerank" THEN Rerank!Init
       ELSE /\ pc = "ask" /\ request = {} /\ fault = "none" /\ window = <<>> /\ ranking = {}
            /\ called = FALSE /\ event = "none" /\ observed = "nothing" /\ store = {}
    /\ IF part = "serving" THEN ServingInit
       ELSE /\ content = {} /\ items = {} /\ ask = [kind |-> ""] /\ members = <<>>
            /\ owed = {} /\ parts = {} /\ given = {}

MCNext ==
    /\ UNCHANGED part
    /\ \/ /\ part = "traverse" /\ Relations!Next
          /\ UNCHANGED <<pagingVars, cacheVars, engineVars, treeVars, predicateVars, rerankVars, servedVars>>
       \/ /\ part = "paging" /\ Paging!Next
          /\ UNCHANGED <<traverseVars, cacheVars, engineVars, treeVars, predicateVars, rerankVars, servedVars>>
       \/ /\ part = "cache" /\ Cache!Next
          /\ UNCHANGED <<traverseVars, pagingVars, engineVars, treeVars, predicateVars, rerankVars, servedVars>>
       \/ /\ part = "engine" /\ EngineNext
          /\ UNCHANGED <<traverseVars, pagingVars, cacheVars, treeVars, predicateVars, rerankVars, servedVars>>
       \/ /\ part = "tree" /\ Knowledge!Next
          /\ UNCHANGED <<traverseVars, pagingVars, cacheVars, engineVars, predicateVars, rerankVars, servedVars>>
       \/ /\ part = "predicate" /\ Predicate!Next
          /\ UNCHANGED <<traverseVars, pagingVars, cacheVars, engineVars, treeVars, rerankVars, servedVars>>
       \/ /\ part = "rerank" /\ Rerank!Next
          /\ UNCHANGED <<traverseVars, pagingVars, cacheVars, engineVars, treeVars, predicateVars, servedVars>>
       \/ /\ part = "serving" /\ ServingNext
          /\ UNCHANGED <<traverseVars, pagingVars, cacheVars, engineVars, treeVars, predicateVars, rerankVars>>

MCSpec ==
    MCInit /\ [][MCNext]_<<traverseVars, pagingVars, cacheVars, engineVars, treeVars, predicateVars, rerankVars, servedVars, part>>

\* Pages are disjoint and the last one completes the closure within its
\* budgets (Run, Encode, Decode, normalize).
PagesExact == part = "traverse" => Relations!PagesDisjoint /\ Relations!ClosureExact

\* A page returns each member's hits as its projection ranks them, those of
\* several members merged in rank order (mergePage, bestWorkspaceHead).
PagesMerged == part = "paging" => Paging!MembersFaithful /\ Paging!PagesInOrder

\* Index and residual test agree on every accepted request, what was not read is
\* not missing, and reading more loses nothing (Probe, osClause, matchesResidual).
PredicateExact == part = "predicate" => Predicate!PredicateExact

\* The counts are those of the resident bodies, and no body read before Clear is
\* resident after it (put, evict).
CacheSound == part = "cache" => Cache!Accounted /\ Cache!StaysCleared

\* What went through the Writer conforms to its schema (validateSchemaRefs).
InstancesValid == part = "tree" => Knowledge!InstancesValid

\* A point read finds what a scan of the tree finds (applyKnowledgeCommit).
LocatorsExact == part = "tree" => Knowledge!LocatorsExact

\* Every accepted PUT has its schema beside it (validateSchemaRefs).
AcceptedConform == part = "tree" => Knowledge!AcceptedConform

\* A delivered ranking partitions its candidates as its contract says, and goes out
\* with all its evidence (validateProviderRanking, applyRerankOutput, EvidenceChain).
RerankExact == part = "rerank" => Rerank!RankingExact /\ Rerank!Evidenced
=============================================================================
