---------------------------- MODULE SearchPredicate ----------------------------
(***************************************************************************)
(* What a search predicate says of one object, three times: the document   *)
(* the object is compiled to (index/extract.go), the query OpenSearch runs  *)
(* over that document (opensearchimpl/search.go), and the residual test of  *)
(* a provider that only promises a superset (index/residual.go).  Requests  *)
(* are resolved against the access hints of the schemas (retrieval/).       *)
(*                                                                         *)
(* An object is a set of units.  A unit is stored, read from a source by    *)
(* observation, or a stream that is never read.  A value is the function    *)
(* from the paths of the schemas to the scalars found there: nothing for a  *)
(* path that is absent, null or an empty list.  Scalars are raw, and mean   *)
(* something only under the type of a field.                                *)
(***************************************************************************)
EXTENDS Naturals, Sequences, FiniteSets

CONSTANTS
    Addresses,     \* units of an object: [aspect, schema ("" when untyped), source]
    Fields,        \* AccessSpec: [schema, aspect, path, type, access]
    Contents,      \* values of a unit, [paths -> SUBSET raw scalars]
    Normal,        \* Normal[type][raw]: the canonical form, or "bad"
    Rank,          \* order of the canonical forms of a type
    Starting,      \* pairs <<v, w>> where v begins with w
    Containing,    \* pairs <<v, w>> where v contains w
    Terms,         \* Terms[v]: what the analyzer makes of a text
    Requests,      \* search expressions
    MaxDepth, MaxLeaves,
    MaxChanges

VARIABLES
    units,         \* the declared units: [addr, decl, value]
    seen,          \* observations: [addr, decl, value]
    changes

vars == <<units, seen, changes>>

Raws == DOMAIN Normal["string"]

---------------------------------------------------------------------------
\* NormalizeScalarLiteral of a literal of a query, NormalizeScalarValue of a value.
Literal(f, raw) == Normal[f.type][raw]

RangeType(type) == type \in {"int", "number", "date"}
StringType(type) == type = "string"

\* Mutant: a text field is taken to be filtered as well.
AllowsOpText(f, op) ==
    CASE op = "MATCH" -> "text" \in f.access
      [] op \in {"EQ", "IN", "NEQ", "EXISTS", "MISSING"} -> f.access # {}
      [] op \in {"PREFIX", "CONTAINS"} -> "filter" \in f.access /\ StringType(f.type)
      [] op \in {"GT", "GTE", "LT", "LTE"} -> "filter" \in f.access /\ RangeType(f.type)
      [] OTHER -> op = "SORT" /\ "sort" \in f.access

\* AllowsOp: the operators the hints and the type of a field imply.
AllowsOp(f, op) ==
    CASE op = "MATCH" -> "text" \in f.access
      [] op \in {"EQ", "IN", "NEQ", "EXISTS", "MISSING"} -> "filter" \in f.access
      [] op \in {"PREFIX", "CONTAINS"} -> "filter" \in f.access /\ StringType(f.type)
      [] op \in {"GT", "GTE", "LT", "LTE"} -> "filter" \in f.access /\ RangeType(f.type)
      [] OTHER -> op = "SORT" /\ "sort" \in f.access

\* ResolveField: a schema or an aspect narrows the path, which must name one field.
Candidates(c) ==
    {f \in Fields : /\ f.path = c.path
                    /\ c.schema \in {"", f.schema}
                    /\ c.aspect \in {"", f.aspect}}

FieldOf(c) == CHOOSE f \in Candidates(c) : TRUE

Bare(c) == c.op = "MATCH" /\ c.path = ""

\* validateClause, checkClause and the literals of ResolveSearchClause.
ClauseAllowed(c) ==
    /\ c.op # "SORT"
    /\ c.op \notin {"EXISTS", "MISSING"} => c.values # {}
    /\ IF Bare(c) THEN \E f \in Fields : "text" \in f.access
       ELSE /\ Cardinality(Candidates(c)) = 1
            /\ AllowsOp(FieldOf(c), c.op)
            /\ c.op # "MATCH" => \A v \in c.values : Literal(FieldOf(c), v) # "bad"

RECURSIVE Leaves(_)
\* walkSearchExpression: the number of the leaves.
Leaves(e) ==
    IF e.kind = "clause" THEN 1
    ELSE LET sum[n \in 0 .. Len(e.kids)] == IF n = 0 THEN 0 ELSE sum[n - 1] + Leaves(e.kids[n])
         IN sum[Len(e.kids)]

RECURSIVE Allowed(_, _)
\* validateSearchExpression and resolveSearchExpression.
Allowed(e, depth) ==
    /\ depth <= MaxDepth
    /\ IF e.kind = "clause" THEN ClauseAllowed(e.clause)
       ELSE e.kids # <<>> /\ \A i \in DOMAIN e.kids : Allowed(e.kids[i], depth + 1)

\* CheckSearch: what the planner accepts and Probe calls exact.
CheckSearch(e) == Leaves(e) <= MaxLeaves /\ Allowed(e, 1)

---------------------------------------------------------------------------
\* The observation of a unit, if there is one.
Observed(obs, u) == {o \in obs : o.addr = u.addr}

\* projectionFieldApplies: by schema_ref, else by the aspect.
Applies(u, f) ==
    IF u.addr.schema # "" THEN u.addr.schema = f.schema ELSE u.addr.aspect = f.aspect

\* Mutant: a declared unit counts before it was read.
KnownDeclared(obs) == {u \in units : u.addr.source # "stream"}

\* The units that are compiled: streams never, bindings when they were observed.
Known(obs) ==
    {u \in units : u.addr.source = "stored" \/ (u.addr.source = "pull" /\ Observed(obs, u) # {})}

\* projectionUnitValue, or the value that was observed.
ValueOf(obs, u) == IF Observed(obs, u) = {} THEN u.value ELSE (CHOOSE o \in Observed(obs, u) : TRUE).value

\* The slot of a cell that holds the value whole; a field for text alone has none.
SlotOf(f) == IF f.access \cap {"filter", "sort"} = {} THEN "none" ELSE f.type

\* projectionCell.
Cell(f, raw) ==
    [field |-> f, value |-> Literal(f, raw), slot |-> SlotOf(f),
     text |-> IF "text" \in f.access THEN "yes" ELSE "no"]

\* compileProjectionDocumentObserved.
Compile(obs) ==
    LET applied == {<<u, f>> \in Known(obs) \X Fields : Applies(u, f)}
        cells == UNION {{Cell(p[2], raw) : raw \in ValueOf(obs, p[1])[p[2].path]} : p \in applied}
        stale == \E u \in Known(obs) : \E o \in Observed(obs, u) : o.decl # u.decl
    IN [ok |-> ~stale /\ \A c \in cells : c.value # "bad",
        eligible |-> {p[2] : p \in applied}, cells |-> cells]

Texts(doc) == {c.value : c \in {d \in doc.cells : d.text = "yes"}}

\* The analyzer: every term of the query, or one of them, is in the text.
Analyzed(terms, c) ==
    LET wanted == UNION {Terms[v] : v \in c.values}
    IN IF c.mode = "any" THEN terms \cap wanted # {} ELSE wanted \subseteq terms

Satisfies(v, w, op) ==
    CASE op = "GT" -> Rank[v] > Rank[w] [] op = "GTE" -> Rank[v] >= Rank[w]
      [] op = "LT" -> Rank[v] < Rank[w] [] op = "LTE" -> Rank[v] <= Rank[w]

---------------------------------------------------------------------------
\* osClause: a query over the document and over one nested cell at a time.
ClauseHits(c, doc) ==
    LET f == FieldOf(c)
        wanted == {Literal(f, v) : v \in c.values}
        nested == {d \in doc.cells : d.field = f}
        typed == {d \in nested : d.slot = f.type}
        equal == {d \in typed : d.value \in wanted}
    IN CASE Bare(c) -> Analyzed(UNION {Terms[v] : v \in Texts(doc)}, c)
         [] ~Bare(c) /\ c.op = "MATCH" -> \E d \in nested : d.text = "yes" /\ Analyzed(Terms[d.value], c)
         [] c.op = "EXISTS" -> nested # {}
         [] c.op = "MISSING" -> f \in doc.eligible /\ nested = {}
         [] c.op \in {"EQ", "IN"} -> equal # {}
         [] c.op = "NEQ" -> nested # {} /\ equal = {}
         [] c.op = "PREFIX" -> \E d \in typed, w \in wanted : <<d.value, w>> \in Starting
         [] c.op = "CONTAINS" -> \E d \in typed, w \in wanted : <<d.value, w>> \in Containing
         [] OTHER -> \E d \in typed, w \in wanted : Satisfies(d.value, w, c.op)

RECURSIVE Hits(_, _)
\* osExpression: filter and must, or should with one that matches.
Hits(e, doc) ==
    CASE e.kind = "clause" -> ClauseHits(e.clause, doc)
      [] e.kind = "all" -> \A i \in DOMAIN e.kids : Hits(e.kids[i], doc)
      [] e.kind = "any" -> \E i \in DOMAIN e.kids : Hits(e.kids[i], doc)

---------------------------------------------------------------------------
\* containsScalar: CompareScalarValues under the type of the field.
Contains(f, values, raw) == \E v \in values : Rank[v] = Rank[Literal(f, raw)]

\* residualScalarClause over the values of an eligible field.
ScalarResidual(c, f, values) ==
    CASE c.op \in {"EQ", "IN"} -> \E raw \in c.values : Contains(f, values, raw)
      [] c.op = "NEQ" -> values # {} /\ ~\E raw \in c.values : Contains(f, values, raw)
      [] c.op = "PREFIX" -> \E v \in values, raw \in c.values : <<v, Literal(f, raw)>> \in Starting
      [] c.op = "CONTAINS" -> \E v \in values, raw \in c.values : <<v, Literal(f, raw)>> \in Containing
      [] OTHER -> \E v \in values, raw \in c.values : Satisfies(v, Literal(f, raw), c.op)

\* A clause of matchesResidualExpression.
ClauseResidual(c, doc) ==
    IF Bare(c) THEN Analyzed(UNION {Terms[v] : v \in Texts(doc)}, c)
    ELSE LET f == FieldOf(c)
             own == {d \in doc.cells : d.field = f}
             values == {d.value : d \in own}
         IN /\ f \in doc.eligible
            /\ CASE c.op = "MATCH" -> \E d \in own : d.text = "yes" /\ Analyzed(Terms[d.value], c)
                 [] c.op = "EXISTS" -> values # {}
                 [] c.op = "MISSING" -> values = {}
                 [] OTHER -> ScalarResidual(c, f, values)

RECURSIVE Residual(_, _)
\* matchesResidualExpression: the first child that decides ends the loop.
Residual(e, doc) ==
    IF e.kind = "clause" THEN ClauseResidual(e.clause, doc)
    ELSE LET decided == {i \in DOMAIN e.kids : Residual(e.kids[i], doc) <=> e.kind = "any"}
         IN IF decided = {} THEN e.kind = "all" ELSE e.kind = "any"

---------------------------------------------------------------------------
Init ==
    /\ \E a, b \in Addresses, v, w \in Contents :
          /\ a # b
          /\ units = {[addr |-> a, decl |-> 1, value |-> v], [addr |-> b, decl |-> 1, value |-> w]}
    /\ seen = {}
    /\ changes = 0

\* A State refresh reads a binding.
Observe ==
    \E u \in units, v \in Contents :
        /\ u.addr.source = "pull"
        /\ seen' = {o \in seen : o.addr # u.addr} \cup {[addr |-> u.addr, decl |-> u.decl, value |-> v]}
        /\ changes' = changes + 1
        /\ UNCHANGED units

\* A commit changes the declaration of a binding: what was observed under the
\* former one is not used for it.
Redeclare ==
    \E u \in units :
        /\ u.addr.source = "pull"
        /\ units' = (units \ {u}) \cup {[u EXCEPT !.decl = @ + 1]}
        /\ changes' = changes + 1
        /\ UNCHANGED seen

Next == changes < MaxChanges /\ (Observe \/ Redeclare)

Spec == Init /\ [][Next]_vars

---------------------------------------------------------------------------
Accepted == {e \in Requests : CheckSearch(e)}

\* What the index answers is what the residual test answers, for every request the
\* planner accepts: a provider that is called exact may be trusted as it is.
ExactIsExact ==
    LET doc == Compile(seen)
    IN doc.ok => \A e \in Accepted : Hits(e, doc) <=> Residual(e, doc)

\* A field only unread units have is neither there nor missing.
UnknownIsNotMissing ==
    LET doc == Compile(seen)
        unread == {u \in units : u.addr.source # "stored" /\ Observed(seen, u) = {}}
        about(e, f) == e.kind = "clause" /\ ~Bare(e.clause) /\ FieldOf(e.clause) = f
    IN doc.ok =>
         \A f \in Fields : (\A u \in units : Applies(u, f) => u \in unread)
             => \A e \in Accepted : about(e, f) => ~Hits(e, doc)

RECURSIVE Positive(_)
Positive(e) ==
    IF e.kind = "clause" THEN e.clause.op \notin {"NEQ", "MISSING"}
    ELSE \A i \in DOMAIN e.kids : Positive(e.kids[i])

\* Reading one more unit loses no object that was found.
ReadingKeepsHits ==
    LET doc == Compile(seen)
    IN doc.ok => \A o \in seen : \A e \in Accepted :
                     Positive(e) /\ Compile(seen \ {o}).ok /\ Hits(e, Compile(seen \ {o})) => Hits(e, doc)

PredicateExact == ExactIsExact /\ UnknownIsNotMissing /\ ReadingKeepsHits
=============================================================================
