--------------------------- MODULE KnowledgeTree ---------------------------
(***************************************************************************)
(* What a knowledge commit does to the file tree of a repository           *)
(* (knowledge/writer/schema.go, treecodec.go, internal/repofile): a batch  *)
(* of PUT and REMOVE operations is validated against the schemas, compiled *)
(* to path changes over the units that the locators name, and published    *)
(* together with new locators.  Besides the Writer, the raw write surface  *)
(* (snapshot/treewriter) and git pushes change any path they like, and an  *)
(* operator rebuilds the locators.  The compare-and-set of the ref, the    *)
(* command ledger and stale bases are those of WriterCommit: here a commit *)
(* is one step from HEAD to HEAD.                                          *)
(***************************************************************************)
EXTENDS Naturals, Sequences

CONSTANTS
    Addresses,    \* addresses of units
    Object,       \* Object[a]: the object that address a belongs to
    Blobs,        \* addresses that are a whole entity; the others are aspects
    Schemas,      \* objects that are schemas, each one an entity
    Default,      \* Default[<<a, s>>]: the path a gets under schema_ref s
    Accepts,      \* Accepts[d]: the values that conform to definition d
    Breaking,     \* pairs <<d, e>>: e narrows what d promised
    Batches,      \* the change sets that callers send
    Pushes,       \* <<p, us>>: raw writes of path p, us what it then holds
    NoRef, NoPath, NoEntry,
    MaxPushes     \* bound: raw writes

VARIABLES
    files,     \* the units in the tree: path, address, schema_ref and value
    entry,     \* entry[o]: the paths in the locator of object o, or NoEntry
    index,     \* schemas.index
    layout,    \* the `complete` marker: "none", "old" or "v2"
    manifest,  \* the legacy whole-repository locator, or NoEntry
    excused,   \* ghost: what writes did: "pushed" past the Writer, "taken" a
               \* path over, "blind" batches; "locators" not rebuilt since
    pushes

vars == <<files, entry, index, layout, manifest, excused, pushes>>

Objects == {Object[a] : a \in Addresses}

PathsOf(units) == {u.path : u \in units}

Of(units, o) == {u \in units : Object[u.addr] = o}

At(units, a) == {u \in units : u.addr = a}

Others(units, ps) == {u \in units : u.path \notin ps}

-----------------------------------------------------------------------------
(* Reading units.                                                          *)

(* Ingest: no address twice, no entity next to an aspect of its object.    *)
Consistent(units) ==
    \A u, v \in units :
        u # v /\ Object[u.addr] = Object[v.addr] => u.addr # v.addr /\ {u.addr, v.addr} \cap Blobs = {}

(* ReadObjectLocator: the object's entry; without one it has no units if   *)
(* the layout is complete, else those of the legacy manifest.              *)
Located(o) ==
    IF entry[o] # NoEntry THEN entry[o]
    ELSE IF layout = "none" /\ manifest # NoEntry THEN manifest[o]
    ELSE {}

(* readKnowledgeObject fails on a missing file or one of another object.   *)
PointRead(o) == {u \in files : u.path \in Located(o)}

Readable(o) ==
    /\ PathsOf(PointRead(o)) = Located(o)
    /\ PointRead(o) \subseteq Of(files, o)
    /\ Consistent(PointRead(o))

-----------------------------------------------------------------------------
(* validateSchemaRefs, against the tree before the batch; readKnowledge-   *)
(* Tree reads all of it or fails.                                          *)

Ops(batch) == {batch[n] : n \in DOMAIN batch}

Named(batch) == {Object[op.addr] : op \in Ops(batch)}

Puts(batch) == {op \in Ops(batch) : op.op = "PUT"}

OnSchema(op) == Object[op.addr] \in Schemas

Drafted(batch) == {Object[op.addr] : op \in {op \in Puts(batch) : OnSchema(op)}}

(* The last PUT of a schema is its draft.                                  *)
Draft(batch, s) ==
    LET puts == {n \in DOMAIN batch : batch[n].op = "PUT" /\ Object[batch[n].addr] = s}
    IN  batch[CHOOSE n \in puts : \A k \in puts : k <= n].value

RemovedAddresses(batch) == {op.addr : op \in Ops(batch) \ Puts(batch)}

WrittenAddresses(batch) == {op.addr : op \in {op \in Puts(batch) : ~OnSchema(op)}}

Referrers(s) == {u \in files : Object[u.addr] \notin Schemas /\ u.ref = s}

Definition(s) == (CHOOSE u \in PointRead(s) : TRUE).value

(* Mutant: the instances in the repository are not looked at.              *)
SchemaUpdateCompatible(batch, s) ==
    PointRead(s) # {} =>
        /\ Consistent(files)
        /\ <<Definition(s), Draft(batch, s)>> \notin Breaking

(* checkSchemaUpdate: compatible, and what refers to it stays valid.       *)
SchemaUpdateAllowed(batch, s) ==
    PointRead(s) # {} =>
        /\ Consistent(files)
        /\ <<Definition(s), Draft(batch, s)>> \notin Breaking
        /\ \A u \in Referrers(s) :
             \/ u.addr \in RemovedAddresses(batch) \cup WrittenAddresses(batch)
             \/ u.value \in Accepts[Draft(batch, s)]

(* checkSchemaRemoval: nothing refers to it that the batch keeps.          *)
SchemaRemovalAllowed(batch, s) ==
    Consistent(files) /\ \A u \in Referrers(s) : u.addr \in RemovedAddresses(batch)

(* The schema_ref of a PUT over these units: its own or the one it finds.  *)
RefOver(units, op) ==
    IF op.ref = NoRef /\ At(units, op.addr) # {}
      THEN (CHOOSE u \in At(units, op.addr) : TRUE).ref ELSE op.ref

EffectiveRef(op) == RefOver(PointRead(Object[op.addr]), op)

InstanceAllowed(batch, op) ==
    LET s == EffectiveRef(op) IN
    s # NoRef =>
        IF s \in Drafted(batch) THEN op.value \in Accepts[Draft(batch, s)]
        ELSE Readable(s) /\ PointRead(s) # {} /\ op.value \in Accepts[Definition(s)]

Valid(batch) ==
    /\ \A o \in Named(batch) : Readable(o)
    /\ \A s \in Drafted(batch) : SchemaUpdateAllowed(batch, s)
    /\ \A op \in Ops(batch) :
         /\ op.op = "REMOVE" /\ OnSchema(op) => SchemaRemovalAllowed(batch, Object[op.addr])
         /\ op.op = "PUT" /\ ~OnSchema(op) => InstanceAllowed(batch, op)

-----------------------------------------------------------------------------
(* repofile.Apply: the units of the named objects after the operations so  *)
(* far, the files to write and the paths to delete, and whether every      *)
(* operation applied.                                                      *)

(* AssertLayout and the preconditions of a PUT.                            *)
PutAllowed(st, op) ==
    LET own == Of(st.units, Object[op.addr])
        old == At(st.units, op.addr)
    IN  /\ IF op.addr \in Blobs THEN own = old ELSE \A u \in own : u.addr \notin Blobs
        /\ op.pre = "absent" => old = {}
        /\ op.pre \notin {"any", "absent"} => \E u \in old : u.value = op.pre

Target(st, op) ==
    LET old == At(st.units, op.addr) IN
    IF op.hint # NoPath THEN op.hint
    ELSE IF old # {} THEN (CHOOSE u \in old : TRUE).path
    ELSE Default[<<op.addr, RefOver(st.units, op)>>]

ApplyPut(st, op) ==
    LET old  == At(st.units, op.addr)
        left == PathsOf(old) \ {Target(st, op)}
        unit == [path |-> Target(st, op), addr |-> op.addr, ref |-> RefOver(st.units, op),
                 value |-> op.value]
    IN  [units  |-> (st.units \ old) \cup {unit},
         write  |-> Others(st.write, left \cup {unit.path}) \cup {unit},
         delete |-> st.delete \cup left,
         ok     |-> st.ok /\ PutAllowed(st, op)]

(* A REMOVE of an entity takes every unit of its object away.              *)
ApplyRemove(st, op) ==
    LET gone == IF op.addr \in Blobs THEN Of(st.units, Object[op.addr]) ELSE At(st.units, op.addr)
    IN  [units  |-> st.units \ gone,
         write  |-> Others(st.write, PathsOf(gone)),
         delete |-> st.delete \cup PathsOf(gone),
         ok     |-> /\ st.ok /\ gone # {}
                    /\ op.pre # "any" => \A u \in gone : u.value = op.pre]

(* After the first n operations, from readChangedKnowledgeObjects on.      *)
Applied(batch) ==
    LET after[n \in 0 .. Len(batch)] ==
          IF n = 0
            THEN [units |-> UNION {PointRead(o) : o \in Named(batch)},
                  write |-> {}, delete |-> {}, ok |-> TRUE]
          ELSE IF batch[n].op = "PUT" THEN ApplyPut(after[n - 1], batch[n])
          ELSE ApplyRemove(after[n - 1], batch[n])
    IN  after

-----------------------------------------------------------------------------
(* What the properties excuse: a schema removed by the batch that puts an  *)
(* instance of it, an address put twice, a path that holds another unit.   *)

DropsItsSchema(batch) ==
    \E put \in Puts(batch), op \in Ops(batch) :
        op.op = "REMOVE" /\ ~OnSchema(put) /\ EffectiveRef(put) = Object[op.addr]

PutsTwice(batch) ==
    \E n, k \in DOMAIN batch :
        n # k /\ batch[n].addr = batch[k].addr /\ batch[n].op = "PUT" /\ batch[k].op = "PUT"

TakesPath(batch) ==
    \E n \in DOMAIN batch :
        LET st == Applied(batch)[n - 1] IN
        /\ batch[n].op = "PUT"
        /\ \E u \in st.write \cup Others(files, st.delete) :
             u.path = Target(st, batch[n]) /\ u.addr # batch[n].addr

Spoils(batch) ==
    (IF TakesPath(batch) THEN {"taken", "locators"} ELSE {})
      \cup (IF DropsItsSchema(batch) \/ PutsTwice(batch) THEN {"blind"} ELSE {})

-----------------------------------------------------------------------------

(* An empty repository, or one that an older release left with its         *)
(* manifest or with an outdated layout.                                    *)
Init ==
    /\ layout \in {"none", "old"}
    /\ files \in {{}} \cup {push[2] : push \in Pushes}
    /\ \A u \in files : u.ref = NoRef
    /\ entry = [o \in Objects |-> NoEntry]
    /\ index = {}
    /\ manifest = IF layout = "none" /\ files # {}
                    THEN [o \in Objects |-> PathsOf(Of(files, o))] ELSE NoEntry
    /\ excused = IF layout = "none" THEN {} ELSE {"locators"}
    /\ pushes = 0

(* Mutant: an entry keeps only the units that the batch wrote.             *)
EntriesWritten(batch, units) ==
    [o \in Objects |->
        LET written == {u \in Of(units, o) : u.addr \in WrittenAddresses(batch)} IN
        IF o \notin Named(batch) THEN entry[o]
        ELSE IF written = {} THEN NoEntry
        ELSE PathsOf(written)]

(* The locator entries of the objects that the batch names.                *)
Entries(batch, units) ==
    [o \in Objects |->
        IF o \notin Named(batch) THEN entry[o]
        ELSE IF Of(units, o) = {} THEN NoEntry
        ELSE PathsOf(Of(units, o))]

(* updateSchemaLocator.                                                    *)
Index(batch, units) ==
    LET changed == Named(batch) \cap Schemas
    IN  (index \ changed) \cup {s \in changed : Of(units, s) # {}}

(* requireIncrementalLocatorLayout.                                        *)
Incremental == layout = "v2" \/ (layout = "none" /\ manifest = NoEntry)

(* applyKnowledgeCommit behind validateSchemaRefs.                         *)
Commit(batch) ==
    LET st == Applied(batch)[Len(batch)] IN
    /\ Incremental /\ Valid(batch) /\ st.ok
    /\ files' = Others(files, st.delete \cup PathsOf(st.write)) \cup st.write
    /\ entry' = Entries(batch, st.units)
    /\ index' = Index(batch, st.units)
    /\ layout' = "v2"
    /\ excused' = excused \cup Spoils(batch)
    /\ UNCHANGED <<manifest, pushes>>

(* RebuildTreeLocators: one scan of the whole tree replaces every locator. *)
Rebuild ==
    /\ Consistent(files)
    /\ entry' = [o \in Objects |->
                   IF Of(files, o) = {} THEN NoEntry ELSE PathsOf(Of(files, o))]
    /\ index' = {s \in Schemas : Of(files, s) # {}}
    /\ layout' = "v2"
    /\ manifest' = NoEntry
    /\ excused' = excused \ {"locators"}
    /\ UNCHANGED <<files, pushes>>

(* A raw write or a git push past the Writer.                              *)
Push(p, us) ==
    /\ pushes < MaxPushes
    /\ files' = Others(files, {p}) \cup us
    /\ excused' = excused \cup {"pushed", "locators"}
    /\ pushes' = pushes + 1
    /\ UNCHANGED <<entry, index, layout, manifest>>

Next ==
    \/ \E batch \in Batches : Commit(batch)
    \/ Rebuild
    \/ \E push \in Pushes : Push(push[1], push[2])

Spec == Init /\ [][Next]_vars

-----------------------------------------------------------------------------

Conforms(u) ==
    u.ref # NoRef => \E s \in files : Object[s.addr] = u.ref /\ u.value \in Accepts[s.value]

InstancesConform == \A u \in files : Object[u.addr] \notin Schemas => Conforms(u)

(* As long as everything was written through the Writer, and no batch put  *)
(* an address twice, removed the schema of what it puts or took a path     *)
(* over, every instance in the tree has its schema beside it and conforms  *)
(* to it: schema updates and removals, inherited references, whole-object  *)
(* removals and migrations included (validateSchemaRefs, applyPut).        *)
InstancesValid == excused \subseteq {"locators"} => InstancesConform

(* A point read through the locators finds exactly the units that a scan   *)
(* of the tree finds, and schemas.index names the schemas, in every layout *)
(* that the Writer produced or migrated (applyKnowledgeCommit,             *)
(* updateSchemaLocator, RebuildTreeLocators, ReadObjectLocator).           *)
LocatorsExact ==
    "locators" \notin excused =>
        /\ \A o \in Objects : Readable(o) /\ PointRead(o) = Of(files, o)
        /\ layout = "v2" => index = {s \in Schemas : Of(files, s) # {}}

(* "A PUT with a schema_ref must be resolvable at the target commit", "an  *)
(* omitted schema_ref inherits the declaration and is validated like it"   *)
(* (knowledge/writer/README.md): without raw writes and paths taken over,  *)
(* whatever batches were accepted, every instance conforms.                *)
AcceptedConform == excused \subseteq {"locators", "blind"} => InstancesConform
=============================================================================
