------------------------------ MODULE Serving ------------------------------
(* What a consumer of one dataset release is served: knowledge/reader and     *)
(* knowledge/serving. A release pins a commit of each member repository and   *)
(* publishes files and directories of it. Values are assembled from the units *)
(* of the pinned tree; a unit that only declares where its value lives, and   *)
(* an aspect that a published schema binds to an origin, are looked up in     *)
(* that origin when they are read. Every step of a request is a call that may *)
(* fail: the authority is immutable, the origins are not. Declarations are    *)
(* well formed, and a schema object is one unit.                              *)
EXTENDS Naturals, Sequences, FiniteSets, SequencesExt

CONSTANTS Repositories,   \* the members, in the order they are asked
          Pin,            \* the commit of each member in the release
          Contents,       \* the trees the members may hold (sets of units)
          Publications,   \* the item lists a release may have
          Schemas,        \* object ids under schema/
          Asks,           \* the requests
          MaxAsks         \* bound: requests of one behaviour

VARIABLES content,    \* units: [repo, at, path, object, aspect, member, ref, source, body]
          items,      \* published items: [repo, kind, path]
          ask,        \* the request being served, or NoAsk
          members,    \* members not asked yet
          owed,       \* units of the current member waiting for their origin
          parts,      \* what has been gathered for this request
          given       \* the finished requests: [ask, verdict, parts]

servedVars == <<content, items, ask, members, owed, parts, given>>

None == ""
NoSchemaRef == [repo |-> None, object |-> None, at |-> None]
NoAsk == [kind |-> None]
MemberRepositories == {Repositories[i] : i \in DOMAIN Repositories}

One(set) == CHOOSE x \in set : TRUE

Address(u) == [object |-> u.object, aspect |-> u.aspect, member |-> u.member]

(* The units of one object in one tree, found through the unit locators. *)
UnitsOf(r, id, at) == {u \in content : u.repo = r /\ u.object = id /\ u.at = at}

(* Units have one address each and a schema object one unit, which names an   *)
(* entity (ParseSchemaDefinition), references name schemas, and where a       *)
(* schema of the tree binds an aspect, whatever declares that aspect does so  *)
(* under a schema of it (ValidateSchemaInstance).                             *)
WellFormed(units) ==
    /\ IsFiniteSet(units)
    /\ \A u \in units :
         /\ u.repo \in MemberRepositories /\ u.path \in Seq(STRING)
         /\ u.ref # NoSchemaRef => u.ref.object \in Schemas
         /\ u.object \in Schemas => u.body.entity # None
    /\ \A u, v \in units :
         u.repo = v.repo /\ u.at = v.at /\ (Address(u) = Address(v) \/ (u.object = v.object /\ u.object \in Schemas))
           => u = v
    /\ \A u, s, t \in units :
         /\ u.repo = s.repo /\ u.ref.object = s.object /\ s.body.origin # None
         /\ t.repo = u.repo /\ t.object \in Schemas /\ t.body.origin # None /\ t.body.aspect = u.aspect
         => s.body.aspect = u.aspect

(* Asks before they are served: an address is neither found nor bound.        *)
WellPosed(a) ==
    \/ a.kind \in {"read", "hit", "inspect"}
    \/ a = [kind |-> "address", address |-> a.address, stored |-> FALSE, bound |-> FALSE]

ReleaseTaken ==
    /\ Repositories \in Seq(MemberRepositories)
    /\ \A units \in Contents : WellFormed(units)
    /\ \A a \in Asks : WellPosed(a)

ASSUME ReleaseAssumption == ReleaseTaken

-----------------------------------------------------------------------------
(* What the release publishes.                                               *)

Covers(i, path) ==
    IF i.kind = "file" THEN i.path = path ELSE IsPrefix(i.path, path)

PathAllowed(r, path) == \E i \in items : i.repo = r /\ Covers(i, path)

Restricts(r) == ~ \E i \in items : i.repo = r /\ i.kind = "prefix" /\ i.path = <<>>

(* An object is served as a whole only when every file of it is published.   *)
InDataset(r, id) ==
    /\ \E i \in items : i.repo = r
    /\ Restricts(r) =>
         /\ UnitsOf(r, id, Pin[r]) # {}
         /\ \A u \in UnitsOf(r, id, Pin[r]) : PathAllowed(r, u.path)

(* Every read, of the object asked for and of the schemas and descriptors it *)
(* leads to, goes through the scope; an empty set is "unresolved".           *)
InScope(r, id, at) == at = Pin[r] /\ InDataset(r, id)

ReadObjectRaw(r, id, at) == UnitsOf(r, id, at)   \* Mutant: the raw tree shows through.

ReadObject(r, id, at) == IF InScope(r, id, at) THEN UnitsOf(r, id, at) ELSE {}

(* One unit, found among the given units of its object.                      *)
UnitAt(units, a) == {u \in units : Address(u) = a}

(* A unit of an object that is published in part is read at its own path.    *)
ReadUnit(r, a) ==
    LET units == UnitsOf(r, a.object, Pin[r])
    IN  IF InDataset(r, a.object) THEN UnitAt(units, a)
        ELSE UnitAt({u \in units : PathAllowed(r, u.path)}, a)

-----------------------------------------------------------------------------
(* Bindings: where the value of an aspect lives.                             *)

SchemaIds(r) == {id \in Schemas : UnitsOf(r, id, Pin[r]) # {} /\ InDataset(r, id)}

BoundSchemas(r) ==
    {s \in UNION {ReadObject(r, id, Pin[r]) : id \in SchemaIds(r)} : s.body.origin # None}

RefAt(r, ref) == IF ref.at = None THEN Pin[r] ELSE ref.at

(* The entity an object is of, None when its readable schemas name none or   *)
(* several.                                                                  *)
EntityOf(r, id) ==
    LET refs == {u.ref : u \in ReadObject(r, id, Pin[r])} \ {NoSchemaRef}
        named == {s.body.entity : s \in UNION {ReadObject(r, f.object, RefAt(r, f)) : f \in refs}}
                    \ {None}
    IN  IF Cardinality(named) = 1 THEN One(named) ELSE None

SchemasFor(r, id) ==
    LET entity == EntityOf(r, id)
    IN  {s \in BoundSchemas(r) : entity # None => s.body.entity = entity}

Matching(r, a) == {s \in SchemasFor(r, a.object) : s.body.aspect = a.aspect}

(* A binding is an origin and the units it was derived from, or a refusal.   *)
Refusal(code) == [code |-> code, origin |-> None, uses |-> {}]

(* The origin of the schema a unit refers to: a missing reference or origin  *)
(* is a gap in capability, an unreadable one an error.                       *)
InstanceOrigin(r, u) ==
    LET s == IF u.ref.repo \in {None, r}
             THEN ReadObject(r, u.ref.object, RefAt(r, u.ref)) ELSE {}
    IN  IF u.ref = NoSchemaRef THEN [code |-> None, origin |-> None, uses |-> {}]
        ELSE IF s = {} THEN Refusal("SCHEMA_REVISION_UNRESOLVED")
        ELSE [code |-> None, origin |-> One(s).body.origin, uses |-> s]

InstanceBinding(r, a) ==
    LET found == ReadUnit(r, a)
        u == One(found)
        schema == InstanceOrigin(r, u)
        descriptor == ReadObject(r, u.body.descriptor, Pin[r])
    IN  IF found = {} \/ u.source = "snapshot" THEN Refusal("CAPABILITY_UNSATISFIED")
        ELSE IF schema.code # None THEN schema
        ELSE IF u.body.descriptor = None
             THEN [schema EXCEPT !.uses = @ \cup found]
        ELSE IF descriptor = {} THEN Refusal("KNOWLEDGE_REF_UNRESOLVED")
        ELSE [schema EXCEPT !.uses = (@ \cup found) \cup descriptor]

(* The schema that binds the aspect comes first, the unit's own declaration  *)
(* second; two schemas binding one aspect are refused.                       *)
Binding(r, a) ==
    LET m == Matching(r, a)
    IN  IF a.aspect = None \/ a.object \in Schemas THEN Refusal("USAGE_INVALID")
        ELSE IF ReadObject(r, a.object, Pin[r]) = {} THEN Refusal("KNOWLEDGE_REF_UNRESOLVED")
        ELSE IF Cardinality(m) > 1 THEN Refusal("USAGE_INVALID")
        ELSE IF m = {} THEN InstanceBinding(r, a)
        ELSE [code |-> None, origin |-> One(m).body.origin, uses |-> m]

(* Aspects no unit stores and a schema of the object's entity binds.         *)
ImpliedUnits(r, id, stored) ==
    IF id \in Schemas THEN {}
    ELSE {[object |-> id, aspect |-> s.body.aspect, member |-> None] :
             s \in {t \in SchemasFor(r, id) : t.body.aspect \notin {u.aspect : u \in stored}}}

-----------------------------------------------------------------------------
(* Requests.                                                                 *)

Selected(aspect, selector) ==
    \/ aspect = None
    \/ /\ selector.include # {} => aspect \in selector.include
       /\ aspect \notin selector.exclude

(* A value taken from the pinned tree, and one observed in its origin.       *)
Pinned(r, u) == [repo |-> r, address |-> Address(u), origin |-> None, uses |-> {u}]
Observed(r, a, binding) ==
    [repo |-> r, address |-> a, origin |-> binding.origin, uses |-> binding.uses]

Waiting(a, source) == [address |-> a, source |-> source]

(* The units of a member an object read assembles (serving.Hydrate).         *)
GatherObject(r, units) ==
    LET chosen == {u \in units : Selected(u.aspect, ask.selector)}
        implied == {a \in ImpliedUnits(r, ask.object, units) : Selected(a.aspect, ask.selector)}
    IN  /\ parts' = parts \cup {Pinned(r, u) : u \in {v \in chosen : v.source = "snapshot"}}
        /\ owed' = {Waiting(Address(u), u.source) : u \in {v \in chosen : v.source # "snapshot"}}
                     \cup {Waiting(a, "state") : a \in implied}

Respond(verdict, gathered) ==
    /\ given' = given \cup {[ask |-> ask, verdict |-> verdict, parts |-> gathered]}
    /\ ask' = NoAsk /\ members' = <<>> /\ owed' = {} /\ parts' = {}

Start ==
    /\ ask = NoAsk /\ Cardinality(given) < MaxAsks
    /\ ask' \in Asks
    /\ members' = Repositories
    /\ UNCHANGED <<content, items, owed, parts, given>>

(* A member in turn answers the raw read, before any origin is asked; one     *)
(* that lacks the object, or publishes a part of it only, has no value.       *)
Member == Head(members)

Turn == ask # NoAsk /\ owed = {} /\ members # <<>>

ReadMember ==
    /\ Turn /\ ask.kind = "read"
    /\ LET units == ReadObject(Member, ask.object, Pin[Member])
       IN  IF units = {} THEN UNCHANGED <<parts, owed>> ELSE GatherObject(Member, units)
    /\ members' = Tail(members)
    /\ UNCHANGED <<content, items, ask, given>>

(* A search hit names the commit its projection was built at.                *)
HitMember ==
    /\ Turn /\ ask.kind = "hit"
    /\ IF Member # ask.repo
       THEN members' = Tail(members) /\ UNCHANGED <<ask, owed, parts, given>>
       ELSE IF ~ InScope(Member, ask.object, ask.at)
       THEN Respond("KNOWLEDGE_REF_UNRESOLVED", {})
       ELSE /\ GatherObject(Member, UnitsOf(Member, ask.object, ask.at))
            /\ members' = Tail(members)
            /\ UNCHANGED <<ask, given>>
    /\ UNCHANGED <<content, items>>

AddressMember ==
    /\ Turn /\ ask.kind = "address" /\ ~ ask.bound
    /\ LET found == ReadUnit(Member, ask.address)
       IN  /\ parts' = parts \cup {Pinned(Member, u) : u \in {v \in found : v.source = "snapshot"}}
           /\ owed' = {Waiting(Address(u), u.source) : u \in {v \in found : v.source # "snapshot"}}
           /\ members' = Tail(members)
           /\ ask' = IF found = {} THEN ask ELSE [ask EXCEPT !.stored = TRUE]
    /\ UNCHANGED <<content, items, given>>

(* No member stores the address: each one that binds it by a schema answers  *)
(* in a second round (boundAddressValue).                                    *)
AddressUnstored ==
    /\ ask.kind = "address" /\ ~ ask.stored /\ ~ ask.bound
    /\ owed = {} /\ members = <<>>
    /\ ask' = [ask EXCEPT !.bound = TRUE]
    /\ members' = Repositories
    /\ UNCHANGED <<content, items, owed, parts, given>>

BoundMember ==
    /\ Turn /\ ask.kind = "address" /\ ask.bound
    /\ LET binding == Binding(Member, ask.address)
       IN  IF binding.code \in {"CAPABILITY_UNSATISFIED", "KNOWLEDGE_REF_UNRESOLVED"}
           THEN members' = Tail(members) /\ UNCHANGED <<ask, owed, parts, given>>
           ELSE IF binding.code # None THEN Respond(binding.code, {})
           ELSE /\ owed' = {Waiting(ask.address, "state")}
                /\ members' = Tail(members)
                /\ UNCHANGED <<ask, parts, given>>
    /\ UNCHANGED <<content, items>>

(* Reads that ask no origin: presence and provenance of an object, its       *)
(* history (published only with the whole repository) and its schemas, each  *)
(* of which must be readable in the scope.                                   *)
Shown(units) == [code |-> None, origin |-> None, uses |-> units]

SchemasOf(r, refs) ==
    IF \E f \in refs : ReadObject(r, f.object, RefAt(r, f)) = {}
    THEN Refusal("SCHEMA_REVISION_UNRESOLVED")
    ELSE Shown(UNION {ReadObject(r, f.object, RefAt(r, f)) : f \in refs})

Inspected(r) ==
    LET id == ask.object
        units == ReadObject(r, id, Pin[r])
    IN  IF ~ InDataset(r, id) THEN Shown({})
        ELSE IF ask.of = "log" /\ Restricts(r) THEN Refusal("CAPABILITY_UNSATISFIED")
        ELSE IF ask.of # "schema" \/ id \in Schemas THEN Shown(units)
        ELSE IF units = {} /\ \E u \in content : u.repo = r /\ u.object = id
             THEN Refusal("KNOWLEDGE_REF_UNRESOLVED")
        ELSE SchemasOf(r, {u.ref : u \in units} \ {NoSchemaRef})

InspectMember ==
    /\ Turn /\ ask.kind = "inspect"
    /\ LET found == Inspected(Member)
       IN  IF found.code # None THEN Respond(found.code, {})
           ELSE /\ parts' = parts \cup {Pinned(Member, u) : u \in found.uses}
                /\ members' = Tail(members)
                /\ UNCHANGED <<ask, owed, given>>
    /\ UNCHANGED <<content, items>>

(* The member asked last is the one whose units wait for their origin.       *)
MemberAsked == Repositories[Len(Repositories) - Len(members)]

(* How the call to an origin fails: denied, not able to, not now.            *)
OriginFailures == {"FORBIDDEN", "CAPABILITY_UNSATISFIED", "TEMPORARY_UNAVAILABLE"}

(* One lookup: the declaration is resolved again in the scope of the release *)
(* and its origin asked. Any failure fails the whole request.                *)
Lookup(w) ==
    LET binding == Binding(MemberAsked, w.address)
        refusal == IF w.source = "stream" THEN "CAPABILITY_UNSATISFIED"
                   ELSE IF ~ InDataset(MemberAsked, w.address.object) THEN "KNOWLEDGE_REF_UNRESOLVED"
                   ELSE IF binding.code # None THEN binding.code
                   ELSE IF binding.origin = None THEN "CAPABILITY_UNSATISFIED"
                   ELSE None
    IN  /\ IF refusal # None THEN Respond(refusal, {})
           ELSE \/ /\ parts' = parts \cup {Observed(MemberAsked, w.address, binding)}
                   /\ owed' = owed \ {w}
                   /\ UNCHANGED <<ask, members, given>>
                \/ \E code \in OriginFailures : Respond(code, {})
        /\ UNCHANGED <<content, items>>

Finish ==
    /\ ask # NoAsk /\ owed = {} /\ members = <<>>
    /\ ask.kind = "address" => ask.stored \/ ask.bound
    /\ Respond(None, parts)
    /\ UNCHANGED <<content, items>>

ServingInit ==
    /\ content \in Contents /\ items \in Publications
    /\ ask = NoAsk /\ members = <<>>
    /\ owed = {} /\ parts = {} /\ given = {}

ServingNext ==
    \/ Start \/ ReadMember \/ HitMember \/ AddressMember \/ AddressUnstored \/ BoundMember
    \/ InspectMember
    \/ \E w \in owed : Lookup(w)
    \/ Finish

-----------------------------------------------------------------------------
(* Properties of every answer.                                               *)

InRelease(u) == u.at = Pin[u.repo] /\ PathAllowed(u.repo, u.path)

WhollyPublished(u) == \A v \in UnitsOf(u.repo, u.object, u.at) : InRelease(v)

(* Nothing in an answer comes from outside the release: neither the value    *)
(* nor a schema or descriptor that led to it lies in another commit or in an *)
(* unpublished file, and an object published in part is never served or used *)
(* except one unit of it at its exact address.                               *)
ScopeHolds ==
    \A g \in given : \A p \in g.parts : \A u \in p.uses :
        /\ u.repo = p.repo
        /\ InRelease(u)
        /\ WhollyPublished(u) \/ (g.ask.kind = "address" /\ p.origin = None)

(* A unit that declares its value to live in an origin is never answered     *)
(* with what the pinned tree holds at its place, and an object read leaves   *)
(* out no selected unit the object stores: it answers all of it or fails.    *)
WholeOrNothing ==
    \A g \in given :
      g.ask.kind \in {"read", "hit"} /\ g.verdict = None =>
        /\ \A p \in g.parts : p.origin = None => \A u \in p.uses : u.source = "snapshot"
        /\ \A u \in content :
             /\ u.object = g.ask.object /\ u.at = Pin[u.repo] /\ WhollyPublished(u)
             /\ Selected(u.aspect, g.ask.selector)
             /\ g.ask.kind = "hit" => u.repo = g.ask.repo
             => \E p \in g.parts : p.repo = u.repo /\ p.address = Address(u)

(* A unit means the same whatever request answers it: read as part of its    *)
(* object, after a search or at its own address, it comes from one place.    *)
OneMeaning ==
    \A g, h \in given : \A p \in g.parts, q \in h.parts :
        /\ g.ask.kind # "inspect" /\ h.ask.kind # "inspect"
        /\ p.repo = q.repo /\ p.address = q.address
        => p = q

(* The State projection hydrates the same objects with the whole repository  *)
(* in scope (HydrateRepositoryValue). Where the schemas that tell the entity *)
(* of the object are published too, a dataset reader is sent to the origin   *)
(* the projection was compiled from.                                         *)
SchemaUnits(r) == {u \in content : u.repo = r /\ u.at = Pin[r] /\ u.object \in Schemas}

WholeEntities(r, id) ==
    {s.body.entity : s \in {t \in SchemaUnits(r) :
        \E u \in UnitsOf(r, id, Pin[r]) : u.ref.object = t.object /\ RefAt(r, u.ref) = Pin[r]}}

ReadsLikeProjection ==
    \A g \in given : \A p \in g.parts :
      LET entities == WholeEntities(p.repo, p.address.object)
          binding == {s \in SchemaUnits(p.repo) :
                        /\ s.body.origin # None /\ s.body.aspect = p.address.aspect
                        /\ Cardinality(entities) = 1 => s.body.entity \in entities}
      IN  /\ p.origin # None
          /\ Cardinality(entities) = 1 => EntityOf(p.repo, p.address.object) \in entities
          /\ Cardinality(binding) = 1
          => \A s \in binding : s.body.origin = p.origin

(* Serving of a dataset release: nothing unpublished is served or used, an   *)
(* object is answered whole or not at all, a unit has one meaning in every   *)
(* request, and the origin asked is the one the projection was compiled from *)
(* (Serving.Read, ReadAddress, Hydrate, datasetRepository).                  *)
ServingExact == ScopeHolds /\ WholeOrNothing /\ OneMeaning /\ ReadsLikeProjection

ServingSpec == ServingInit /\ [][ServingNext]_servedVars
=============================================================================
