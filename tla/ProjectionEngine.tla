-------------------------- MODULE ProjectionEngine --------------------------
(***************************************************************************)
(* The live search projection of one repository: Index.Ensure (index/      *)
(* sync.go) over the OpenSearch engine (opensearchimpl/projection.go).     *)
(* One control document names the active generation, the commit it was     *)
(* compiled from and its state; every write of it is a compare-and-swap on *)
(* its sequence number.  A rebuild fills a new generation and publishes it *)
(* by one write of the control document; an incremental apply marks the    *)
(* control document UPDATING, changes the active generation in place and   *)
(* marks it READY at the new commit.  Maintainers are goroutines of one    *)
(* process: the controller's worker and the `projection sync` command.     *)
(* An object is made of units (an entity, or its aspects and members); its *)
(* document is compiled from the units that were read.                     *)
(***************************************************************************)
EXTENDS Naturals, Sequences

CONSTANTS
    Maintainers,   \* goroutines that call Ensure
    ObjectIds,     \* objects
    Units,         \* units, each in a file of its own
    Owner,         \* Owner[u]: the object that unit u belongs to
    Commits,       \* commits of the repository (positive numbers)
    Tree,          \* Tree[c][u]: the content of unit u at commit c, or Absent
    Access,        \* Access[c]: digest of the access spec declared at commit c
    Era,           \* Era[c]: the authority generation that holds commit c
    Providers,     \* provider revisions and physical digests
    Absent,        \* no such object, no such document
    NoIndex,       \* a generation that has been dropped
    LostReplies,   \* may a control write take effect and report an error?
    MaxVersion,    \* bound: control writes after which no Ensure starts
    MaxEngineFaults \* bound: failed requests and process restarts

VARIABLES
    control,    \* the control document
    gens,       \* gens[g]: documents of physical generation g
    retired,    \* generations with a pending retirement timer
    op,         \* op[m]: the Ensure that m executes
    era,        \* the current authority generation
    provider,   \* what this process is configured with
    raced,      \* ghost: have two calls of Ensure ever overlapped?
    engineFaults

engineVars == <<control, gens, retired, op, era, provider, raced, engineFaults>>

States == {"NONE", "BUILDING", "READY", "UPDATING", "FAILED"}

Control == [active : Nat, state : States, basis : Commits \cup {0},
            access : {Access[c] : c \in Commits} \cup {0},
            provider : Providers, version : Nat]

EnginePCs == {"begin", "bulk", "publish", "fail", "create", "walk", "commit", "abort"}

NotEnsuring == [pc |-> "idle"]

(* from: the basis LoadMeta returned; version: the control version that    *)
(* the next write must find; gen: the generation being built; old: the     *)
(* active one when the rebuild began.                                      *)
Ensuring == [pc : EnginePCs, to : Commits, from : Commits \cup {0}, version : Nat,
             gen : Nat, old : Nat]

(* The document of the units us as they are at commit c.                   *)
Doc(c, us) == IF us = {} THEN Absent ELSE <<[u \in us |-> Tree[c][u]], Access[c]>>

PresentUnits(c, o) == {u \in Units : Owner[u] = o /\ Tree[c][u] # Absent}

(* Neither mark is what it stands for the lack of.                         *)
Documents == {Absent} \cup {Doc(c, us) : c \in Commits, us \in SUBSET Units}

ASSUME AbsentIsNoDocument ==
    \A c \in Commits : \A us \in SUBSET Units : us # {} => Doc(c, us) # Absent

ASSUME NoIndexIsNoGeneration == NoIndex \notin [ObjectIds -> Documents]

Compiled(c) == [o \in ObjectIds |-> Doc(c, PresentUnits(c, o))]

(* FastChangedObjects: the files that differ and exist at commit c.        *)
ChangedUnits(from, to, c, o) == {u \in PresentUnits(c, o) : Tree[from][u] # Tree[to][u]}

(* ReadManyAtPaths reads an object from the files that changed, and from   *)
(* all of them only when none of those exists at this commit.              *)
Hydrated(from, to, c, o) ==
    LET changed == ChangedUnits(from, to, c, o)
    IN  Doc(c, IF changed = {} THEN PresentUnits(c, o) ELSE changed)

(* applyHydrated: touched objects whose compiled document differs.         *)
Changed(from, to) ==
    {o \in ObjectIds : /\ \E u \in Units : Owner[u] = o /\ Tree[from][u] # Tree[to][u]
                       /\ Hydrated(from, to, from, o) # Hydrated(from, to, to, o)}

Written(docs, from, to, os) ==
    [o \in ObjectIds |-> IF o \in os THEN Hydrated(from, to, to, o) ELSE docs[o]]

EngineInit ==
    /\ provider \in Providers
    /\ control = [active |-> 0, state |-> "NONE", basis |-> 0, access |-> 0,
                  provider |-> provider, version |-> 0]
    /\ gens = << >>
    /\ retired = {}
    /\ op = [m \in Maintainers |-> NotEnsuring]
    /\ era = 1
    /\ raced = "no"
    /\ engineFaults = 0

EngineGoto(m, pc) == op' = [op EXCEPT ![m].pc = pc]

EngineReturn(m) == op' = [op EXCEPT ![m] = NotEnsuring]

EngineFault == engineFaults < MaxEngineFaults /\ engineFaults' = engineFaults + 1

(* e.mu is held for the whole of Apply, e.buildMu for a rebuild session.   *)
MuHeld == \E m \in Maintainers : op[m].pc \in {"bulk", "publish", "fail"}

BuildMuHeld == \E m \in Maintainers : op[m].pc \in {"walk", "commit", "abort"}

-----------------------------------------------------------------------------
(* putControl: if_seq_no makes the write conditional on the version.       *)

Ready(m, g) == [active |-> g, state |-> "READY", basis |-> op[m].to,
                access |-> Access[op[m].to], provider |-> provider,
                version |-> control.version + 1]

Put(doc) == control' = [doc EXCEPT !.version = control.version + 1]

(* A failing write either took no effect or lost its reply.                *)
PutFails(doc) ==
    /\ EngineFault
    /\ \/ UNCHANGED control
       \/ LostReplies /\ Put(doc)

-----------------------------------------------------------------------------
(* Ensure reads the meta data and decides what to do.                      *)

PhysicalMatches == control.state = "READY" /\ control.provider = provider

ProjectionMatches(c) ==
    /\ control.active # 0
    /\ control.basis = c /\ control.access = Access[c] /\ PhysicalMatches

Incremental(c) ==
    /\ control.active # 0
    /\ control.access = Access[c] /\ PhysicalMatches
    /\ Era[control.basis] = era

Ensure(m, c) ==
    /\ op[m].pc = "idle"
    /\ Era[c] = era
    /\ control.version < MaxVersion
    /\ ~MuHeld
    /\ op' = IF ProjectionMatches(c)
               THEN op
               ELSE [op EXCEPT ![m] =
                      [pc |-> IF Incremental(c) THEN "begin" ELSE "create",
                       to |-> c, from |-> control.basis, version |-> 0,
                       gen |-> 0, old |-> 0]]
    /\ raced' = IF op' = op \/ \A n \in Maintainers : op[n].pc = "idle" THEN raced ELSE "yes"
    /\ UNCHANGED <<control, gens, retired, era, provider, engineFaults>>

-----------------------------------------------------------------------------
(* Apply.                                                                  *)

(* It takes e.mu, reads the control document and marks it UPDATING; a      *)
(* projection that is not READY is refused.                                *)
ApplyBegin(m) ==
    /\ op[m].pc = "begin" /\ ~MuHeld
    /\ IF control.active # 0 /\ control.state = "READY"
         THEN /\ Put([control EXCEPT !.state = "UPDATING"])
              /\ op' = [op EXCEPT ![m].pc = "bulk", ![m].version = control'.version]
         ELSE EngineReturn(m) /\ UNCHANGED control
    /\ UNCHANGED <<gens, retired, era, provider, raced, engineFaults>>

ApplyBeginFails(m) ==
    /\ op[m].pc = "begin" /\ ~MuHeld
    /\ control.active # 0 /\ control.state = "READY"
    /\ PutFails([control EXCEPT !.state = "UPDATING"])
    /\ EngineReturn(m)
    /\ UNCHANGED <<gens, retired, era, provider, raced>>

(* Mutant: documents that the change removed are not deleted.              *)
ApplyBulkKeeps(m) ==
    /\ op[m].pc = "bulk" /\ gens[control.active] # NoIndex
    /\ gens' = [gens EXCEPT ![control.active] =
                  Written(@, op[m].from, op[m].to, {o \in Changed(op[m].from, op[m].to) :
                                          Compiled(op[m].to)[o] # Absent})]
    /\ EngineGoto(m, "publish")
    /\ UNCHANGED <<control, retired, era, provider, raced, engineFaults>>

(* The bulk requests change the active generation in place.                *)
ApplyBulk(m) ==
    /\ op[m].pc = "bulk" /\ gens[control.active] # NoIndex
    /\ gens' = [gens EXCEPT ![control.active] =
                  Written(@, op[m].from, op[m].to, Changed(op[m].from, op[m].to))]
    /\ EngineGoto(m, "publish")
    /\ UNCHANGED <<control, retired, era, provider, raced, engineFaults>>

(* One of them fails after some documents have been written.               *)
ApplyBulkFails(m) ==
    /\ op[m].pc = "bulk"
    /\ EngineFault
    /\ \E os \in SUBSET Changed(op[m].from, op[m].to) :
         gens' = IF gens[control.active] = NoIndex THEN gens
                 ELSE [gens EXCEPT ![control.active] = Written(@, op[m].from, op[m].to, os)]
    /\ EngineGoto(m, "fail")
    /\ UNCHANGED <<control, retired, era, provider, raced>>

ApplyPublish(m) ==
    /\ op[m].pc = "publish"
    /\ IF control.version = op[m].version
         THEN control' = Ready(m, control.active) /\ EngineReturn(m)
         ELSE EngineGoto(m, "fail") /\ UNCHANGED control
    /\ UNCHANGED <<gens, retired, era, provider, raced, engineFaults>>

ApplyPublishFails(m) ==
    /\ op[m].pc = "publish" /\ control.version = op[m].version
    /\ PutFails(Ready(m, control.active))
    /\ EngineGoto(m, "fail")
    /\ UNCHANGED <<gens, retired, era, provider, raced>>

(* fail: mark the projection FAILED, if this update still owns it; the     *)
(* error of that write is ignored.                                         *)
ApplyFail(m) ==
    /\ op[m].pc = "fail"
    /\ IF control.version = op[m].version
         THEN \/ Put([control EXCEPT !.state = "FAILED"]) /\ UNCHANGED engineFaults
              \/ EngineFault /\ UNCHANGED control
         ELSE UNCHANGED <<control, engineFaults>>
    /\ EngineReturn(m)
    /\ UNCHANGED <<gens, retired, era, provider, raced>>

-----------------------------------------------------------------------------
(* rebuild over a streaming session.                                       *)

Building(m, state) == [active |-> 0, state |-> state, basis |-> op[m].to,
                       access |-> Access[op[m].to], provider |-> provider,
                       version |-> 0]

(* Mutant: the control document says BUILDING on a warm rebuild too.       *)
BeginRebuildCold(m) ==
    /\ op[m].pc = "create" /\ ~BuildMuHeld /\ ~MuHeld
    /\ gens' = Append(gens, [o \in ObjectIds |-> Absent])
    /\ Put(Building(m, "BUILDING"))
    /\ op' = [op EXCEPT ![m].pc = "walk", ![m].gen = Len(gens'),
                        ![m].version = control'.version, ![m].old = control.active]
    /\ UNCHANGED <<retired, era, provider, raced, engineFaults>>

(* BeginRebuild: an empty generation; the control document says BUILDING   *)
(* only when nothing is active yet.                                        *)
BeginRebuild(m) ==
    /\ op[m].pc = "create" /\ ~BuildMuHeld /\ ~MuHeld
    /\ gens' = Append(gens, [o \in ObjectIds |-> Absent])
    /\ IF control.active = 0 THEN Put(Building(m, "BUILDING")) ELSE UNCHANGED control
    /\ op' = [op EXCEPT ![m].pc = "walk", ![m].gen = Len(gens'),
                        ![m].version = control'.version, ![m].old = control.active]
    /\ UNCHANGED <<retired, era, provider, raced, engineFaults>>

(* The generation is dropped again when the BUILDING mark is not written.  *)
BeginRebuildFails(m) ==
    /\ op[m].pc = "create" /\ ~BuildMuHeld /\ ~MuHeld
    /\ IF control.active = 0
         THEN PutFails(Building(m, "BUILDING"))
         ELSE EngineFault /\ UNCHANGED control
    /\ EngineReturn(m)
    /\ UNCHANGED <<gens, retired, era, provider, raced>>

(* Every object of the commit is compiled and appended, in batches.        *)
Walk(m) ==
    /\ op[m].pc = "walk"
    /\ gens' = [gens EXCEPT ![op[m].gen] = Compiled(op[m].to)]
    /\ EngineGoto(m, "commit")
    /\ UNCHANGED <<control, retired, era, provider, raced, engineFaults>>

WalkFails(m) ==
    /\ op[m].pc = "walk"
    /\ EngineFault
    /\ EngineGoto(m, "abort")
    /\ UNCHANGED <<control, gens, retired, era, provider, raced>>

(* Commit: one conditional write publishes the generation; the one it      *)
(* replaces is retired after the grace period of open readers.             *)
CommitRebuild(m) ==
    /\ op[m].pc = "commit" /\ ~MuHeld
    /\ IF control.version = op[m].version
         THEN /\ control' = Ready(m, op[m].gen)
              /\ retired' = retired \cup ({op[m].old} \ {0})
              /\ EngineReturn(m)
         ELSE EngineGoto(m, "abort") /\ UNCHANGED <<control, retired>>
    /\ UNCHANGED <<gens, era, provider, raced, engineFaults>>

(* Refresh, count or the publishing write fails.                           *)
CommitRebuildFails(m) ==
    /\ op[m].pc = "commit" /\ ~MuHeld /\ control.version = op[m].version
    /\ PutFails(Ready(m, op[m].gen))
    /\ EngineGoto(m, "abort")
    /\ UNCHANGED <<gens, retired, era, provider, raced>>

(* Abort: a cold build is marked FAILED if the control document is still   *)
(* its own; the new generation is dropped.  A failing write or drop is     *)
(* ignored.                                                                *)
Abort(m) ==
    /\ op[m].pc = "abort"
    /\ \/ UNCHANGED control
       \/ /\ op[m].old = 0 /\ control.version = op[m].version
          /\ Put(Building(m, "FAILED"))
    /\ \/ gens' = [gens EXCEPT ![op[m].gen] = NoIndex] /\ UNCHANGED engineFaults
       \/ EngineFault /\ UNCHANGED gens
    /\ EngineReturn(m)
    /\ UNCHANGED <<retired, era, provider, raced>>

(* retireGeneration's timer fires.                                         *)
Retire(g) ==
    /\ g \in retired
    /\ gens' = [gens EXCEPT ![g] = NoIndex]
    /\ retired' = retired \ {g}
    /\ UNCHANGED <<control, op, era, provider, raced, engineFaults>>

-----------------------------------------------------------------------------
(* The process restarts, perhaps with another provider configuration; its  *)
(* timers are gone.                                                        *)
MaintainersRestart ==
    /\ EngineFault
    /\ op' = [m \in Maintainers |-> NotEnsuring]
    /\ retired' = {}
    /\ provider' \in Providers
    /\ UNCHANGED <<control, gens, era, raced>>

(* The repository is recreated under the same id: its old commits are gone *)
(* and no call has one of them in hand.                                    *)
Recreate ==
    /\ \E c \in Commits : Era[c] = era + 1
    /\ \A m \in Maintainers : op[m].pc = "idle"
    /\ era' = era + 1
    /\ UNCHANGED <<control, gens, retired, op, provider, raced, engineFaults>>

EngineStep(m) ==
    \/ ApplyBegin(m) \/ ApplyBeginFails(m) \/ ApplyBulk(m) \/ ApplyBulkFails(m)
    \/ ApplyPublish(m) \/ ApplyPublishFails(m) \/ ApplyFail(m)
    \/ BeginRebuild(m) \/ BeginRebuildFails(m) \/ Walk(m) \/ WalkFails(m)
    \/ CommitRebuild(m) \/ CommitRebuildFails(m) \/ Abort(m)

EngineNext ==
    \/ \E m \in Maintainers, c \in Commits : Ensure(m, c)
    \/ \E m \in Maintainers : EngineStep(m)
    \/ \E g \in 1..Len(gens) : Retire(g)
    \/ MaintainersRestart
    \/ Recreate

EngineSpec == EngineInit /\ [][EngineNext]_engineVars

-----------------------------------------------------------------------------

ServesReady == control.state = "READY" /\ gens[control.active] # NoIndex

(* As long as calls of Ensure do not overlap, and whatever applies,        *)
(* rebuilds, partial bulk failures, restarts and provider changes led to   *)
(* it, a READY projection has a document for exactly the objects of its    *)
(* basis, none of them shows content that the basis does not have, and an  *)
(* object of one unit is exactly what a rebuild gives (Index.Ensure,       *)
(* applyHydrated, openSearchEngine.Apply and Commit).                      *)
ReadyFresh ==
    raced = "no" /\ ServesReady =>
        \A o \in ObjectIds :
          LET present == PresentUnits(control.basis, o) IN
          /\ (gens[control.active][o] = Absent) = (present = {})
          /\ \E us \in SUBSET present : gens[control.active][o] = Doc(control.basis, us)

(* "A full build and an incremental update share one path of               *)
(* interpretation and compilation, their results are equivalent"           *)
(* (docs/reviewed/index-control.md:64).                                    *)
IncrementalIsRebuild ==
    raced = "no" /\ ServesReady => gens[control.active] = Compiled(control.basis)

(* "A basis whose service is still promised must not be reclaimed early"   *)
(* (docs/reviewed/index-control.md:102): also when the answer to the write *)
(* that publishes a generation is lost.                                    *)
PromisedStands == control.active # 0 => gens[control.active] # NoIndex

(* Unless the answer to a publishing write is lost, once a generation is   *)
(* active there is always one, and it exists: no failing or aborted        *)
(* rebuild takes the projection back to "nothing built" and no retirement  *)
(* timer drops what the control document names.  While it is served as     *)
(* READY its documents do not change under its readers: a change in place  *)
(* is announced first, a warm rebuild works on another generation (Apply,  *)
(* BeginRebuild, Commit, Abort, retireGeneration).                         *)
StaysServed ==
    [][control.active # 0 =>
        /\ control'.active # 0 /\ gens'[control'.active] # NoIndex
        /\ control.state = "READY" /\ control'.state = "READY" /\ control'.active = control.active
             => gens'[control.active] = gens[control.active]]_engineVars
=============================================================================
