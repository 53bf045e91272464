---------------------------- MODULE DatasetCatalog ----------------------------
(***************************************************************************)
(* The Catalog of snapshot/dataset: a registry of repositories and of      *)
(* published Dataset releases, kept as flat files of one Snapshot branch   *)
(* and held in memory by every server that opened it.                      *)
(*                                                                         *)
(* A server persists against the registry commit its handle was read from; *)
(* a moved branch refuses the write (registry_store.go saveSnapshot).      *)
(* `dataset define` (invocation/verbs_catalog.go) prepares, writes the     *)
(* portable recipe into the root mount, freezes the member heads, prepares *)
(* the serving basis and only then publishes; everything else is one call. *)
(* Mutating invocations of one server run one at a time; other servers and *)
(* writers of the member repositories run in between.                      *)
(*                                                                         *)
(* Set and repository ids are numbers in the order of their names.         *)
(***************************************************************************)
EXTENDS Naturals, FiniteSets

CONSTANTS
    Servers,
    Sets,        \* dataset ids
    Repos,       \* member repository ids
    SetToken,    \* SetToken[s]: fileToken(s), the name of the file of dataset s
    RepoToken,   \* RepoToken[r]: fileToken(r)
    Root,        \* the repository mounted at path "" when it is a source
    Revs,        \* revisions a caller asks for, 1 .. n
    MaxCommit,   \* bound on the commits of a member repository
    MaxRegistry, \* bound on registry commits
    MaxFaults    \* bound on lost answers and serving failures

VARIABLES
    registry,  \* the branch: [commit, state the files say]; commit 0: no catalog yet
    handle,    \* handle[h]: the commit and state server h holds; commit 0: not open
    op,        \* op[h]: the definition under way in server h, or Idle
    head,      \* head[r]: the selected branch of member r
    gone,      \* archived member repositories
    recipe,    \* .kc-dataset.yaml at the head of Root
    written,   \* recipe commands the command ledger knows
    pins,      \* pins handed out to callers
    faults

vars == <<registry, handle, op, head, gone, recipe, written, pins, faults>>

Commits == 0 .. MaxCommit   \* 0: no commit, the repository is not a source

Pins == [Repos -> Commits]

NoPin == [r \in Repos |-> 0]

Members(p) == {r \in Repos : p[r] # 0}

Empty ==
    [cur |-> [s \in Sets |-> 0],                          \* serving revision, 0: not defined
     retired |-> {},
     rel |-> [s \in Sets |-> [v \in Revs |-> NoPin]],     \* frozen commits of each release
     repos |-> {},
     archived |-> "no"]

Idle == [pc |-> "idle"]

\* A candidate definition: sources and the tips the caller insists on (0: none).
Recipe(s, src, base) == [set |-> s, src |-> src, base |-> base]

NoRecipe == Recipe(0, {}, NoPin)

Init ==
    /\ registry = [commit |-> 0, state |-> Empty]
    /\ handle = [h \in Servers |-> registry]
    /\ op = [h \in Servers |-> Idle]
    /\ head = [r \in Repos |-> 1]
    /\ gone = {}
    /\ recipe = NoRecipe
    /\ written = {}
    /\ pins = {}
    /\ faults = 0

---------------------------------------------------------------------------
\* yamlFiles writes one file per dataset and per repository, in the order of the
\* ids, and stateFromYAML reads the files back: of ids with one file name the
\* last is kept.  Releases are named by a hash of the id and never collide.
Survivors(ids, token) == {i \in ids : \A j \in ids : token[j] = token[i] => j <= i}

Loaded(st) ==
    LET sets == Survivors({s \in Sets : st.cur[s] # 0}, SetToken)
    IN [st EXCEPT !.cur = [s \in Sets |-> IF s \in sets THEN st.cur[s] ELSE 0],
                  !.retired = @ \cap sets,
                  !.repos = Survivors(@, RepoToken)]

\* Mutant: the branch is not compared with the handle before the write.
AcceptBlind(h, next) ==
    /\ Loaded(next) # registry.state
    /\ registry.commit < MaxRegistry
    /\ registry' = [commit |-> registry.commit + 1, state |-> Loaded(next)]

\* saveExpected and saveSnapshot: the branch must be where this handle read it.
\* A state whose files are the ones there makes no commit.
Accept(h, next) ==
    /\ handle[h].commit = registry.commit
    /\ Loaded(next) # registry.state
    /\ registry.commit < MaxRegistry
    /\ registry' = [commit |-> registry.commit + 1, state |-> Loaded(next)]

\* Catalog.persist: memory takes the new state only when the save succeeded.
Persist(h, next) ==
    \/ /\ Accept(h, next)
       /\ handle' = [handle EXCEPT ![h] = [commit |-> registry.commit + 1, state |-> next]]
       /\ UNCHANGED faults
    \/ /\ Accept(h, next)                          \* the answer is lost
       /\ faults < MaxFaults /\ faults' = faults + 1
       /\ UNCHANGED handle
    \/ /\ handle[h].commit = registry.commit
       /\ Loaded(next) = registry.state
       /\ handle' = [handle EXCEPT ![h].state = next]
       /\ UNCHANGED <<registry, faults>>
    \/ /\ handle[h].commit # registry.commit       \* NON_FAST_FORWARD
       /\ UNCHANGED <<registry, handle, faults>>

\* ensureWritable.
Writable(h) == handle[h].commit # 0 /\ handle[h].state.archived = "no"

---------------------------------------------------------------------------
\* CreateSnapshotRegistry: the first commit of an empty branch.
Create(h) ==
    /\ registry.commit = 0 /\ handle[h].commit = 0
    /\ registry' = [commit |-> 1, state |-> Empty]
    /\ handle' = [handle EXCEPT ![h] = registry']
    /\ UNCHANGED <<op, head, gone, recipe, written, pins, faults>>

\* A server starts: OpenSnapshotRegistry and NewCatalog read the branch.
Open(h) ==
    /\ registry.commit # 0
    /\ handle[h] # registry
    /\ handle' = [handle EXCEPT ![h] = registry]
    /\ op' = [op EXCEPT ![h] = Idle]
    /\ UNCHANGED <<registry, head, gone, recipe, written, pins, faults>>

\* AttachRepository and RegisterRepository.
Register(h, r) ==
    /\ op[h] = Idle
    /\ Writable(h)
    /\ r \notin gone
    /\ Persist(h, [handle[h].state EXCEPT !.repos = @ \cup {r}])
    /\ UNCHANGED <<op, head, gone, recipe, written, pins>>

Unregister(h, r) ==
    /\ op[h] = Idle
    /\ Writable(h)
    /\ r \in handle[h].state.repos
    /\ Persist(h, [handle[h].state EXCEPT !.repos = @ \ {r}])
    /\ UNCHANGED <<op, head, gone, recipe, written, pins>>

\* RetireKnowledgeSet: policy on the current record, releases stay.
Retire(h, s) ==
    /\ op[h] = Idle
    /\ Writable(h)
    /\ handle[h].state.cur[s] # 0
    /\ Persist(h, [handle[h].state EXCEPT !.retired = @ \cup {s}])
    /\ UNCHANGED <<op, head, gone, recipe, written, pins>>

\* Catalog.Archive asks nothing but the registry's compare-and-set.
Archive(h) ==
    /\ op[h] = Idle
    /\ handle[h].commit # 0
    /\ Persist(h, [handle[h].state EXCEPT !.archived = "yes"])
    /\ UNCHANGED <<op, head, gone, recipe, written, pins>>

---------------------------------------------------------------------------
\* Mutant: a revision may be published again.
CheckNextRevisionAgain(st, s, v) == s \notin st.retired /\ v >= st.cur[s]

\* checkNextRevision.
CheckNextRevision(st, s, v) == s \notin st.retired /\ v > st.cur[s]

\* PrepareKnowledgeSet: writable, the next revision, registered sources, and a
\* tip the caller insists on (baseRev) is the one freezeSources finds.
PrepareKnowledgeSet(h, s, v, src, base) ==
    /\ Writable(h)
    /\ CheckNextRevision(handle[h].state, s, v)
    /\ src \subseteq handle[h].state.repos
    /\ \A r \in src : base[r] \in {0, head[r]}

\* VerbDefineKnowledgeSet up to the first PrepareKnowledgeSet.  A caller names
\* sources, possibly with the tip it saw, or adopts the recipe of a repository
\* (--from-repo), which is then not written back.
BeginDefine(h, s, v, src, base, adopted) ==
    /\ op[h] = Idle
    /\ PrepareKnowledgeSet(h, s, v, src, base)
    /\ adopted = "yes" => recipe # NoRecipe /\ src = recipe.src /\ base = recipe.base
    /\ op' = [op EXCEPT ![h] = [pc |-> IF adopted = "yes" THEN "freeze" ELSE "recipe",
                                 set |-> s, rev |-> v, src |-> src, base |-> base, pin |-> NoPin]]
    /\ UNCHANGED <<registry, handle, head, gone, recipe, written, pins, faults>>

Goto(h, pc) == op' = [op EXCEPT ![h].pc = pc]

\* The command id of a recipe write: dataset-define:<set>:<revision>:<content>.
RecipeCommand(h) == [set |-> op[h].set, rev |-> op[h].rev, src |-> op[h].src, base |-> op[h].base]

Content(h) == Recipe(op[h].set, op[h].src, op[h].base)

\* PublishKnowledgeSetRecipe writes nothing to a repository: no root mount (a
\* local file), no write grant for it, or the same recipe is already there.
SkipRecipe(h) ==
    /\ op[h].pc = "recipe"
    /\ Goto(h, "freeze")
    /\ UNCHANGED <<registry, handle, head, gone, recipe, written, pins, faults>>

\* WriteRecipeToRepo: one commit on the tip it just read.
WriteRecipe(h) ==
    /\ op[h].pc = "recipe"
    /\ Root \in op[h].src \ gone
    /\ recipe # Content(h)
    /\ RecipeCommand(h) \notin written
    /\ head[Root] < MaxCommit
    /\ head' = [head EXCEPT ![Root] = @ + 1]
    /\ recipe' = Content(h)
    /\ written' = written \cup {RecipeCommand(h)}
    /\ Goto(h, "freeze")
    /\ UNCHANGED <<registry, handle, gone, pins, faults>>

\* The command is known with another base commit (IDEMPOTENCY_CONFLICT), or the
\* repository is archived.
RefuseRecipe(h) ==
    /\ op[h].pc = "recipe"
    /\ Root \in op[h].src
    /\ recipe # Content(h)
    /\ RecipeCommand(h) \in written \/ Root \in gone
    /\ op' = [op EXCEPT ![h] = Idle]
    /\ UNCHANGED <<registry, handle, head, gone, recipe, written, pins, faults>>

\* DatasetPublisher.Execute prepares again, now freezing the tips ...
Freeze(h) ==
    /\ op[h].pc = "freeze"
    /\ op' = [op EXCEPT ![h] =
                IF PrepareKnowledgeSet(h, op[h].set, op[h].rev, op[h].src, op[h].base)
                THEN [op[h] EXCEPT !.pc = "serve",
                                   !.pin = [r \in Repos |-> IF r \in op[h].src THEN head[r] ELSE 0]]
                ELSE Idle]
    /\ UNCHANGED <<registry, handle, head, gone, recipe, written, pins, faults>>

\* ... and Home.PrepareDataset may fail on the frozen commits.
ServingFails(h) ==
    /\ op[h].pc = "serve"
    /\ faults < MaxFaults /\ faults' = faults + 1
    /\ op' = [op EXCEPT ![h] = Idle]
    /\ UNCHANGED <<registry, handle, head, gone, recipe, written, pins>>

WithRelease(st, s, v, p) == [st EXCEPT !.cur[s] = v, !.rel[s][v] = p]

\* PublishKnowledgeSet checks the handle again and persists the frozen commits.
Publish(h) ==
    /\ op[h].pc = "serve"
    /\ IF /\ Writable(h)
          /\ CheckNextRevision(handle[h].state, op[h].set, op[h].rev)
          /\ op[h].src \subseteq handle[h].state.repos
       THEN Persist(h, WithRelease(handle[h].state, op[h].set, op[h].rev, op[h].pin))
       ELSE UNCHANGED <<registry, handle, faults>>
    /\ op' = [op EXCEPT ![h] = Idle]
    /\ UNCHANGED <<head, gone, recipe, written, pins>>

---------------------------------------------------------------------------
\* DatasetVersion and checkResolvedRepository: what server h serves of a release.
Consumable(h, s, v) ==
    LET st == handle[h].state
    IN /\ st.cur[s] # 0 /\ s \notin st.retired
       /\ st.rel[s][v] # NoPin
       /\ Members(st.rel[s][v]) \subseteq st.repos \ gone

\* ResolveDefinitionOverlay of a release hands out its pin.
Resolve(h, s, v) ==
    /\ Consumable(h, s, v)
    /\ pins' = pins \cup {[set |-> s, rev |-> v, pin |-> handle[h].state.rel[s][v]]}
    /\ UNCHANGED <<registry, handle, op, head, gone, recipe, written, faults>>

\* ReplayPublished accepts a pin only when it is the accepted release.
ReplayPublished(h, p) == Consumable(h, p.set, p.rev) /\ handle[h].state.rel[p.set][p.rev] = p.pin

\* External: writers of a member repository, and its archival.
MemberAdvance(r) ==
    /\ r \notin gone /\ head[r] < MaxCommit
    /\ head' = [head EXCEPT ![r] = @ + 1]
    /\ UNCHANGED <<registry, handle, op, gone, recipe, written, pins, faults>>

ArchiveRepo(r) ==
    /\ r \notin gone
    /\ gone' = gone \cup {r}
    /\ UNCHANGED <<registry, handle, op, head, recipe, written, pins, faults>>

Tips(src) == {NoPin} \cup {[NoPin EXCEPT ![r] = head[r]] : r \in src}

Next ==
    \/ \E h \in Servers :
        \/ Create(h) \/ Open(h) \/ Archive(h)
        \/ SkipRecipe(h) \/ WriteRecipe(h) \/ RefuseRecipe(h)
        \/ Freeze(h) \/ ServingFails(h) \/ Publish(h)
        \/ \E r \in Repos : Register(h, r) \/ Unregister(h, r)
        \/ \E s \in Sets :
            \/ Retire(h, s)
            \/ \E v \in Revs :
                \/ Resolve(h, s, v)
                \/ \E src \in (SUBSET Repos) \ {{}} : \E base \in Tips(src), adopted \in {"no", "yes"} :
                       BeginDefine(h, s, v, src, base, adopted)
    \/ \E r \in Repos : MemberAdvance(r) \/ ArchiveRepo(r)

Spec == Init /\ [][Next]_vars

---------------------------------------------------------------------------
State == [cur : [Sets -> Revs \cup {0}], retired : SUBSET Sets, rel : [Sets -> [Revs -> Pins]],
          repos : SUBSET Repos, archived : {"no", "yes"}]

\* Whatever two servers, lost answers and restarts do, the branch of the registry
\* changes only as if its commands were executed one at a time on its last
\* state (registry.go "Save never merges or overwrites newer state").
Contract == INSTANCE CatalogContract WITH state <- registry.state

OneAtATime == Contract!CSpec

\* Every server that is up to date replays every pin ever handed out, by it or
\* by another server, unless the set was retired or a member left.
PinsReplay ==
    \A p \in pins, h \in Servers :
        (/\ handle[h].commit = registry.commit
         /\ p.set \notin handle[h].state.retired
         /\ Members(p.pin) \subseteq handle[h].state.repos \ gone) => ReplayPublished(h, p)
=============================================================================
