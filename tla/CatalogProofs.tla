---------------------------- MODULE CatalogProofs ----------------------------
(***************************************************************************)
(* What several servers on one registry of a Catalog, lost answers and     *)
(* restarts cannot do to its releases, for any datasets, repositories and  *)
(* servers; and what no chain of grants, shares, migrations and renames    *)
(* can do, for any accounts, repositories, catalogs and rules; then        *)
(* sessions, connections, and the evidence that is kept of all this.       *)
(***************************************************************************)
EXTENDS DatasetCatalog, AccessPolicy, ClientSession, Connections, EvidenceStore, FiniteSetTheorems,
        WellFoundedInduction, TLAPS

(***************************************************************************)
(* The registry: every state a server holds is the branch's of some        *)
(* commit, and the branch keeps every release it ever had.                 *)
(***************************************************************************)
\* Datasets and repositories have files of their own, and revisions start at 1.
Distinguished ==
    /\ Sets \subseteq Nat /\ Repos \subseteq Nat /\ Revs \subseteq Nat \ {0} /\ MaxCommit \in Nat \ {0}
    /\ \A s, t \in Sets : SetToken[s] = SetToken[t] => s = t
    /\ \A q, r \in Repos : RepoToken[q] = RepoToken[r] => q = r

Definition == [pc : {"recipe", "freeze", "serve"}, set : Sets, rev : Revs, src : SUBSET Repos,
               base : Pins, pin : Pins]

Held == [commit : Nat, state : State]

Accepted == [set : Sets, rev : Revs, pin : Pins]

\* A release is at most as new as the current one, and only what is defined is
\* retired.
Ordered(st) ==
    /\ \A s \in Sets, v \in Revs : st.rel[s][v] # NoPin => v <= st.cur[s]
    /\ \A s \in st.retired : st.cur[s] # 0

\* The releases of one state are those of the other, wherever there are any.
Retains(old, new) ==
    \A s \in Sets, v \in Revs : old.rel[s][v] # NoPin => new.rel[s][v] = old.rel[s][v]

\* What a handle says was once on the branch, and nothing released is lost since.
Follows(own, branch) ==
    /\ own.commit <= branch.commit
    /\ own.commit = branch.commit => own.state = branch.state
    /\ Retains(own.state, branch.state)

Branch ==
    /\ registry \in Held /\ handle \in [Servers -> Held]
    /\ registry.commit = 0 => registry.state = Empty
    /\ Ordered(registry.state)
    /\ \A h \in Servers : Follows(handle[h], registry)

\* A definition publishes members among its sources.
Calls ==
    /\ op \in [Servers -> Definition \cup {Idle}]
    /\ head \in [Repos -> Commits]
    /\ \A h \in Servers : op[h] # Idle => Members(op[h].pin) \subseteq op[h].src

\* Every pin handed out is a release of the branch.
Handed ==
    /\ pins \subseteq Accepted
    /\ \A p \in pins : p.pin # NoPin /\ registry.state.rel[p.set][p.rev] = p.pin

RInv == Branch /\ Calls /\ Handed

---------------------------------------------------------------------------
\* Files of their own lose nothing when they are read back (yamlFiles,
\* stateFromYAML).
LEMMA FilesApart ==
    ASSUME Distinguished, NEW st \in State, Ordered(st)
    PROVE  Loaded(st) = st
<1> DEFINE defined == {s \in Sets : st.cur[s] # 0}
<1>1. Survivors(defined, SetToken) = defined
  <2>1. \A i, j \in defined : SetToken[j] = SetToken[i] => j <= i
      BY DEF Distinguished
  <2> QED BY <2>1 DEF Survivors
<1>2. Survivors(st.repos, RepoToken) = st.repos
  <2>1. st.repos \subseteq Repos
      BY DEF State
  <2>2. \A i, j \in Repos : RepoToken[j] = RepoToken[i] => j <= i
      BY DEF Distinguished
  <2> QED BY <2>1, <2>2 DEF Survivors
<1>3. /\ st.cur \in [Sets -> Revs \cup {0}] /\ st.retired \subseteq Sets
      /\ st.rel \in [Sets -> [Revs -> Pins]] /\ st.repos \subseteq Repos
    BY DEF State
<1>4. [s \in Sets |-> IF s \in defined THEN st.cur[s] ELSE 0] = st.cur
    BY <1>3
<1>5. st.retired \cap defined = st.retired
    BY <1>3 DEF Ordered
<1>6. \A c, d, e : c = st.cur /\ d = st.retired /\ e = st.repos =>
          [st EXCEPT !.cur = c, !.retired = d, !.repos = e] = st
    BY DEF State
<1> HIDE DEF defined
<1>7. Loaded(st) = [st EXCEPT !.cur = [s \in Sets |-> IF s \in defined THEN st.cur[s] ELSE 0],
                              !.retired = st.retired \cap defined,
                              !.repos = Survivors(st.repos, RepoToken)]
    BY <1>1 DEF Loaded, defined
<1> QED BY <1>2, <1>4, <1>5, <1>6, <1>7

\* What the commands make of a state.
LEMMA Enrolled ==
    ASSUME NEW st \in State, Ordered(st), NEW q \in SUBSET Repos
    PROVE  LET next == [st EXCEPT !.repos = q]
           IN next \in State /\ Ordered(next) /\ Retains(st, next)
BY DEF State, Ordered, Retains

LEMMA Retired ==
    ASSUME NEW st \in State, Ordered(st), NEW s \in Sets, st.cur[s] # 0
    PROVE  LET next == [st EXCEPT !.retired = @ \cup {s}]
           IN next \in State /\ Ordered(next) /\ Retains(st, next)
BY DEF State, Ordered, Retains

LEMMA Archived ==
    ASSUME NEW st \in State, Ordered(st)
    PROVE  LET next == [st EXCEPT !.archived = "yes"]
           IN next \in State /\ Ordered(next) /\ Retains(st, next)
BY DEF State, Ordered, Retains

LEMMA Released ==
    ASSUME Distinguished, NEW st \in State, Ordered(st), NEW s \in Sets, NEW v \in Revs, NEW p \in Pins,
           v > st.cur[s]
    PROVE  /\ st.rel[s][v] = NoPin
           /\ WithRelease(st, s, v, p) \in State
           /\ Ordered(WithRelease(st, s, v, p)) /\ Retains(st, WithRelease(st, s, v, p))
<1> DEFINE next == WithRelease(st, s, v, p)
<1>1. /\ st.cur \in [Sets -> Revs \cup {0}] /\ st.retired \subseteq Sets
      /\ st.rel \in [Sets -> [Revs -> Pins]] /\ Revs \subseteq Nat \ {0} /\ v \in Nat \ {0}
    BY DEF State, Distinguished
<1>2. /\ next.cur = [st.cur EXCEPT ![s] = v] /\ next.rel = [st.rel EXCEPT ![s] = [st.rel[s] EXCEPT ![v] = p]]
      /\ next.retired = st.retired
    BY DEF WithRelease, State
<1>3. /\ next.cur \in [Sets -> Revs \cup {0}] /\ next.cur[s] = v
      /\ \A t \in Sets \ {s} : next.cur[t] = st.cur[t]
    BY <1>1, <1>2
<1>4. st.rel[s] \in [Revs -> Pins] /\ [st.rel[s] EXCEPT ![v] = p] \in [Revs -> Pins]
    BY <1>1
<1>5. /\ next.rel \in [Sets -> [Revs -> Pins]]
      /\ \A t \in Sets, w \in Revs : next.rel[t][w] = IF t = s /\ w = v THEN p ELSE st.rel[t][w]
    BY <1>1, <1>2, <1>4
<1>6. next \in State
  <2>1. \A c, e : c \in [Sets -> Revs \cup {0}] /\ e \in [Sets -> [Revs -> Pins]] =>
            [st EXCEPT !.cur = c, !.rel = e] \in State
      BY DEF State
  <2>2. next = [st EXCEPT !.cur = next.cur, !.rel = next.rel]
      BY <1>2 DEF WithRelease
  <2> HIDE DEF next
  <2>3. [st EXCEPT !.cur = next.cur, !.rel = next.rel] \in State
      BY <1>3, <1>5, <2>1
  <2> QED BY <2>2, <2>3
<1>7. st.rel[s][v] = NoPin /\ \A w \in Revs : w \in Nat /\ (st.rel[s][w] # NoPin => w <= v)
  <2>1. st.cur[s] \in Nat /\ \A w \in Revs : w \in Nat /\ (st.rel[s][w] # NoPin => w <= st.cur[s])
    <3>1. st.cur[s] \in Nat /\ \A w \in Revs : w \in Nat
        BY <1>1
    <3>2. \A w \in Revs : st.rel[s][w] # NoPin => w <= st.cur[s]
        BY DEF Ordered
    <3> QED BY <3>1, <3>2
  <2> QED BY <1>1, <2>1
<1>8. Ordered(next)
  <2>1. ASSUME NEW t \in Sets, NEW w \in Revs, next.rel[t][w] # NoPin PROVE w <= next.cur[t]
    <3>1. CASE t = s
        BY <1>1, <1>3, <1>5, <1>7, <2>1, <3>1
    <3>2. CASE t # s
        BY <1>3, <1>5, <2>1, <3>2 DEF Ordered
    <3> QED BY <3>1, <3>2
  <2>2. \A t \in next.retired : next.cur[t] # 0
      BY <1>1, <1>2, <1>3 DEF Ordered
  <2> QED BY <2>1, <2>2 DEF Ordered
<1>9. Retains(st, next)
    BY <1>5, <1>7 DEF Retains
<1> QED BY <1>6, <1>7, <1>8, <1>9

\* A handle that persists keeps the branch and every handle in order, and the
\* branch takes its command, if it takes it, on its last state.
LEMMA Persisted ==
    ASSUME Distinguished, Branch, NEW h \in Servers, handle[h].commit # 0, NEW next \in State,
           Ordered(handle[h].state) => Ordered(next) /\ Retains(handle[h].state, next),
           Persist(h, next)
    PROVE  /\ Branch' /\ Retains(registry.state, registry'.state)
           /\ \/ registry' = registry
              \/ handle[h].state = registry.state /\ registry'.state = next
<1>1. /\ registry \in Held /\ handle \in [Servers -> Held] /\ registry.commit \in Nat /\ handle[h].commit \in Nat
      /\ Follows(handle[h], registry) /\ registry.state \in State
    BY DEF Branch, Held
<1>2. CASE handle[h].commit # registry.commit
    BY <1>1, <1>2 DEF Persist, Accept, Branch, Retains
<1>3. CASE handle[h].commit = registry.commit
  <2>1. handle[h].state = registry.state /\ Ordered(next) /\ Retains(registry.state, next)
      BY <1>1, <1>3 DEF Follows, Branch
  <2>2. Loaded(next) = next
      BY <2>1, FilesApart
  <2>3. CASE Loaded(next) = registry.state
    <3>1. registry' = registry /\ handle' = [handle EXCEPT ![h].state = next] /\ next = registry.state
        BY <1>3, <2>2, <2>3 DEF Persist, Accept
    <3>2. [handle[h] EXCEPT !.state = next] = handle[h]
        BY <1>1, <2>1, <3>1 DEF Held
    <3>3. handle' = handle
        BY <1>1, <3>1, <3>2
    <3> QED BY <3>1, <3>3 DEF Branch, Retains
  <2>4. CASE Loaded(next) # registry.state
    <3> DEFINE new == [commit |-> registry.commit + 1, state |-> next]
    <3>1. registry' = new /\ new \in Held /\ new.commit = registry.commit + 1 /\ new.state = next
        BY <1>1, <1>3, <2>2, <2>4 DEF Persist, Accept, Held
    <3>2. handle' = handle \/ handle' = [handle EXCEPT ![h] = new]
        BY <1>3, <2>2, <2>4 DEF Persist, Accept
    <3> HIDE DEF new
    <3>3. handle' \in [Servers -> Held] /\ \A o \in Servers : handle'[o] = handle[o] \/ handle'[o] = new
        BY <1>1, <3>1, <3>2
    <3>4. ASSUME NEW o \in Servers PROVE Follows(handle[o], new)
      <4>1. Follows(handle[o], registry) /\ handle[o].commit \in Nat
          BY <1>1 DEF Branch, Held
      <4> QED BY <1>1, <2>1, <3>1, <4>1 DEF Follows, Retains
    <3>5. Follows(new, new)
        BY <1>1, <3>1 DEF Follows, Retains
    <3>6. \A o \in Servers : Follows(handle'[o], new)
        BY <3>3, <3>4, <3>5
    <3> QED BY <1>1, <2>1, <3>1, <3>3, <3>6 DEF Branch
  <2> QED BY <2>3, <2>4
<1> QED BY <1>2, <1>3

\* Steps that leave the branch and the handles alone.
LEMMA BranchStands ==
    ASSUME Branch, UNCHANGED <<registry, handle>>
    PROVE  Branch'
BY DEF Branch

\* What a step of the registry may do: a command on the last state of the
\* branch, or nothing to it.
Commanded == [Contract!CNext]_(registry.state)

\* Pins are kept in the releases.
LEMMA PinsStand ==
    ASSUME Handed, Retains(registry.state, registry'.state), UNCHANGED pins
    PROVE  Handed'
BY DEF Handed, Retains, Accepted

\* Commands of one call.
LEMMA RegistryStep ==
    ASSUME Distinguished, RInv, NEW h \in Servers,
           \/ Archive(h)
           \/ \E r \in Repos : Register(h, r) \/ Unregister(h, r)
           \/ \E s \in Sets : Retire(h, s)
    PROVE  RInv' /\ Commanded
<1> DEFINE st == handle[h].state
<1>1. st \in State /\ UNCHANGED <<op, head, pins>>
    BY DEF RInv, Branch, Held, Archive, Register, Unregister, Retire
<1>2. ASSUME NEW next \in State, handle[h].commit # 0, Persist(h, next),
             Ordered(st) => Ordered(next) /\ Retains(st, next)
      PROVE  /\ RInv'
             /\ registry' = registry \/ (st = registry.state /\ registry'.state = next)
  <2>1. /\ Branch' /\ Retains(registry.state, registry'.state)
        /\ registry' = registry \/ (st = registry.state /\ registry'.state = next)
      BY <1>2, Persisted DEF RInv
  <2>2. Calls' /\ Handed'
      BY <1>1, <2>1, PinsStand DEF RInv, Calls
  <2> QED BY <2>1, <2>2 DEF RInv
<1>3. CASE Archive(h)
  <2> DEFINE next == [st EXCEPT !.archived = "yes"]
  <2>1. handle[h].commit # 0 /\ Persist(h, next)
      BY <1>3 DEF Archive
  <2>2. next \in State
      BY <1>1 DEF State
  <2>3. Ordered(st) => Ordered(next) /\ Retains(st, next)
      BY <1>1, Archived
  <2>4. /\ RInv'
        /\ registry' = registry \/ (st = registry.state /\ registry'.state = next)
    <3> HIDE DEF next
    <3> QED BY <1>2, <2>1, <2>2, <2>3
  <2>5. st.archived = "yes" => next = st
      BY <1>1 DEF State
  <2>6. st.archived = "yes" \/ st.archived = "no"
      BY <1>1 DEF State
  <2> QED BY <2>4, <2>5, <2>6 DEF Commanded, Contract!CNext, Contract!CArchive
<1>4. ASSUME NEW r \in Repos, Register(h, r) PROVE RInv' /\ Commanded
  <2> DEFINE next == [st EXCEPT !.repos = @ \cup {r}]
  <2>1. handle[h].commit # 0 /\ Persist(h, next) /\ st.archived = "no"
      BY <1>4 DEF Register, Writable
  <2>2. st.repos \cup {r} \in SUBSET Repos
      BY <1>1 DEF State
  <2>3. Ordered(st) => next \in State /\ Ordered(next) /\ Retains(st, next)
      BY <1>1, <2>2, Enrolled
  <2>4. next \in State
      BY <1>1, <2>2 DEF State
  <2>5. /\ RInv'
        /\ registry' = registry \/ (st = registry.state /\ registry'.state = next)
    <3> HIDE DEF next
    <3> QED BY <1>2, <2>1, <2>3, <2>4
  <2> QED BY <2>1, <2>5 DEF Commanded, Contract!CNext, Contract!CRegister
<1>5. ASSUME NEW r \in Repos, Unregister(h, r) PROVE RInv' /\ Commanded
  <2> DEFINE next == [st EXCEPT !.repos = @ \ {r}]
  <2>1. handle[h].commit # 0 /\ Persist(h, next) /\ st.archived = "no"
      BY <1>5 DEF Unregister, Writable
  <2>2. st.repos \ {r} \in SUBSET Repos
      BY <1>1 DEF State
  <2>3. Ordered(st) => next \in State /\ Ordered(next) /\ Retains(st, next)
      BY <1>1, <2>2, Enrolled
  <2>4. next \in State
      BY <1>1, <2>2 DEF State
  <2>5. /\ RInv'
        /\ registry' = registry \/ (st = registry.state /\ registry'.state = next)
    <3> HIDE DEF next
    <3> QED BY <1>2, <2>1, <2>3, <2>4
  <2> QED BY <2>1, <2>5 DEF Commanded, Contract!CNext, Contract!CUnregister
<1>6. ASSUME NEW s \in Sets, Retire(h, s) PROVE RInv' /\ Commanded
  <2> DEFINE next == [st EXCEPT !.retired = @ \cup {s}]
  <2>1. handle[h].commit # 0 /\ Persist(h, next) /\ st.archived = "no" /\ st.cur[s] # 0
      BY <1>6 DEF Retire, Writable
  <2>2. next \in State
      BY <1>1 DEF State
  <2>3. Ordered(st) => Ordered(next) /\ Retains(st, next)
      BY <1>1, <2>1, Retired
  <2>4. /\ RInv'
        /\ registry' = registry \/ (st = registry.state /\ registry'.state = next)
    <3> HIDE DEF next
    <3> QED BY <1>2, <2>1, <2>2, <2>3
  <2> QED BY <2>1, <2>4 DEF Commanded, Contract!CNext, Contract!CRetire
<1> QED BY <1>3, <1>4, <1>5, <1>6

\* A definition from its preparation to its publication.
LEMMA DefinitionStep ==
    ASSUME Distinguished, RInv, NEW h \in Servers,
           \/ SkipRecipe(h) \/ WriteRecipe(h) \/ RefuseRecipe(h) \/ Freeze(h) \/ ServingFails(h)
           \/ \E s \in Sets, v \in Revs, src \in SUBSET Repos : \E base \in Tips(src), adopted \in {"no", "yes"} :
                  BeginDefine(h, s, v, src, base, adopted)
    PROVE  RInv' /\ Commanded
<1>1. UNCHANGED <<registry, handle, pins>>
    BY DEF SkipRecipe, WriteRecipe, RefuseRecipe, Freeze, ServingFails, BeginDefine
<1>2. Branch' /\ Handed' /\ Commanded
    BY <1>1, BranchStands DEF RInv, Handed, Commanded
<1>3. /\ op \in [Servers -> Definition \cup {Idle}] /\ head \in [Repos -> Commits]
      /\ \A o \in Servers : op[o] # Idle => Members(op[o].pin) \subseteq op[o].src
    BY DEF RInv, Calls
<1>4. op' = [op EXCEPT ![h] = Idle] => op' = [op EXCEPT ![h] = op'[h]] /\ op'[h] = Idle
  <2> SUFFICES ASSUME op' = [op EXCEPT ![h] = Idle]
               PROVE  op'[h] = Idle
      OBVIOUS
  <2> QED BY <1>3
<1>5. /\ op' = [op EXCEPT ![h] = op'[h]]
      /\ \/ op'[h] = Idle
         \/ op'[h] \in Definition /\ Members(op'[h].pin) \subseteq op'[h].src
  <2>1. CASE RefuseRecipe(h) \/ ServingFails(h)
    <3>1. op' = [op EXCEPT ![h] = Idle]
        BY <2>1 DEF RefuseRecipe, ServingFails
    <3> QED BY <3>1, <1>4
  <2>2. CASE SkipRecipe(h) \/ WriteRecipe(h)
    <3>1. op[h].pc = "recipe" /\ op' = [op EXCEPT ![h].pc = "freeze"]
        BY <2>2 DEF SkipRecipe, WriteRecipe, Goto
    <3>2. op[h] # Idle /\ op[h] \in Definition
        BY <1>3, <3>1 DEF Idle
    <3>3. op'[h] = [op[h] EXCEPT !.pc = "freeze"]
        BY <1>3, <3>1
    <3>4. op'[h] \in Definition /\ op'[h].pin = op[h].pin /\ op'[h].src = op[h].src
        BY <3>2, <3>3 DEF Definition
    <3> QED BY <1>3, <3>1, <3>2, <3>3, <3>4
  <2>3. CASE Freeze(h)
    <3> DEFINE frozen == [r \in Repos |-> IF r \in op[h].src THEN head[r] ELSE 0]
               new == [op[h] EXCEPT !.pc = "serve", !.pin = frozen]
    <3>1. op[h].pc = "freeze" /\ (op' = [op EXCEPT ![h] = new] \/ op' = [op EXCEPT ![h] = Idle])
        BY <2>3 DEF Freeze
    <3>2. op[h] # Idle /\ op[h] \in Definition
        BY <1>3, <3>1 DEF Idle
    <3>3. frozen \in Pins /\ Members(frozen) \subseteq op[h].src
        BY <1>3 DEF Pins, Commits, Members, Distinguished
    <3> HIDE DEF frozen
    <3>4. new \in Definition /\ new.pin = frozen /\ new.src = op[h].src
        BY <3>2, <3>3 DEF Definition
    <3> HIDE DEF new
    <3>5. CASE op' = [op EXCEPT ![h] = new]
      <4>1. op'[h] = new
          BY <1>3, <3>5
      <4> QED BY <3>3, <3>4, <3>5, <4>1
    <3>6. CASE op' = [op EXCEPT ![h] = Idle]
        BY <1>4, <3>6
    <3> QED BY <3>1, <3>5, <3>6
  <2>4. ASSUME NEW s \in Sets, NEW v \in Revs, NEW src \in SUBSET Repos, NEW base \in Tips(src),
               NEW adopted \in {"no", "yes"}, BeginDefine(h, s, v, src, base, adopted)
        PROVE  /\ op' = [op EXCEPT ![h] = op'[h]]
               /\ op'[h] \in Definition /\ Members(op'[h].pin) \subseteq op'[h].src
    <3> DEFINE stage == IF adopted = "yes" THEN "freeze" ELSE "recipe"
               new == [pc |-> stage, set |-> s, rev |-> v, src |-> src, base |-> base, pin |-> NoPin]
    <3>1. op' = [op EXCEPT ![h] = new]
        BY <2>4 DEF BeginDefine
    <3>2. NoPin \in Pins /\ Members(NoPin) = {}
        BY DEF NoPin, Pins, Commits, Members, Distinguished
    <3>3. base \in Pins
        BY <1>3, <3>2 DEF Tips, Pins
    <3>4. new \in Definition /\ new.pin = NoPin
        BY <3>2, <3>3 DEF Definition
    <3> HIDE DEF new
    <3> QED BY <1>3, <3>1, <3>2, <3>4
  <2> QED BY <2>1, <2>2, <2>3, <2>4
<1>6. /\ op' \in [Servers -> Definition \cup {Idle}]
      /\ \A o \in Servers : op'[o] # Idle => Members(op'[o].pin) \subseteq op'[o].src
    BY <1>3, <1>5
<1>7. head' \in [Repos -> Commits]
  <2>1. CASE WriteRecipe(h)
    <3>1. op[h] # Idle
        BY <2>1 DEF WriteRecipe, Idle
    <3>2. Root \in Repos
        BY <1>3, <2>1, <3>1 DEF WriteRecipe, Definition
    <3>3. head[Root] + 1 \in Commits
        BY <1>3, <2>1, <3>2 DEF WriteRecipe, Commits, Distinguished
    <3> QED BY <1>3, <2>1, <3>2, <3>3 DEF WriteRecipe
  <2>2. CASE head' = head
      BY <1>3, <2>2
  <2> QED BY <2>1, <2>2 DEF SkipRecipe, RefuseRecipe, Freeze, ServingFails, BeginDefine
<1> QED BY <1>2, <1>6, <1>7 DEF RInv, Calls

\* A release of the next revision is the command the contract has for it.
LEMMA PublishCommand ==
    ASSUME NEW s \in Sets, NEW v \in Revs, NEW p \in Pins, registry.state.archived = "no",
           s \notin registry.state.retired, v > registry.state.cur[s], registry.state.rel[s][v] = NoPin,
           Members(p) \subseteq registry.state.repos,
           registry'.state = WithRelease(registry.state, s, v, p)
    PROVE  Contract!CNext
BY DEF WithRelease, Contract!CNext, Contract!CPublish

LEMMA PublishStep ==
    ASSUME Distinguished, RInv, NEW h \in Servers, Publish(h)
    PROVE  RInv' /\ Commanded
<1> DEFINE st == handle[h].state
           d == op[h]
           next == WithRelease(st, d.set, d.rev, d.pin)
<1>1. st \in State /\ UNCHANGED <<head, pins>>
    BY DEF RInv, Branch, Held, Publish
<1>2. d \in Definition /\ Members(d.pin) \subseteq d.src
    BY DEF RInv, Calls, Publish, Idle
<1>3. Calls'
    BY <1>1 DEF RInv, Calls, Publish
<1>4. CASE UNCHANGED <<registry, handle, faults>>
    BY <1>1, <1>3, <1>4, BranchStands DEF RInv, Handed, Commanded
<1>5. CASE Writable(h) /\ CheckNextRevision(st, d.set, d.rev) /\ d.src \subseteq st.repos /\ Persist(h, next)
  <2>1. d.set \in Sets /\ d.rev \in Revs /\ d.pin \in Pins
      BY <1>2 DEF Definition
  <2>2. handle[h].commit # 0 /\ st.archived = "no" /\ d.set \notin st.retired /\ d.rev > st.cur[d.set]
      BY <1>5 DEF Writable, CheckNextRevision
  <2>3. Ordered(st) => /\ st.rel[d.set][d.rev] = NoPin
                       /\ next \in State /\ Ordered(next) /\ Retains(st, next)
      BY <1>1, <2>1, <2>2, Released
  <2>4. CASE handle[h].commit = registry.commit
    <3>1. st = registry.state /\ Ordered(st)
        BY <2>4 DEF RInv, Branch, Follows
    <3>2. /\ Branch' /\ Retains(registry.state, registry'.state)
          /\ registry' = registry \/ registry'.state = next
      <4> HIDE DEF next
      <4> QED BY <1>5, <2>2, <2>3, <3>1, Persisted DEF RInv
    <3>3. RInv'
        BY <1>1, <1>3, <3>2, PinsStand DEF RInv
    <3>4. Members(d.pin) \subseteq st.repos
        BY <1>2, <1>5
    <3>5. registry'.state = next => Contract!CNext
        BY <2>1, <2>2, <2>3, <3>1, <3>4, PublishCommand
    <3> QED BY <3>2, <3>3, <3>5 DEF Commanded
  <2>5. CASE handle[h].commit # registry.commit
    <3>1. UNCHANGED <<registry, handle>>
        BY <1>5, <2>5 DEF Persist, Accept
    <3> QED BY <1>1, <1>3, <3>1, BranchStands DEF RInv, Handed, Commanded
  <2> QED BY <2>4, <2>5
<1> QED BY <1>4, <1>5 DEF Publish

\* Handles are opened, pins handed out, members move.
LEMMA OtherStep ==
    ASSUME Distinguished, RInv,
           \/ \E h \in Servers : Create(h) \/ Open(h)
           \/ \E h \in Servers, s \in Sets, v \in Revs : Resolve(h, s, v)
           \/ \E r \in Repos : MemberAdvance(r) \/ ArchiveRepo(r)
    PROVE  RInv' /\ Commanded
<1>1. /\ registry \in Held /\ handle \in [Servers -> Held] /\ registry.commit \in Nat /\ registry.state \in State
      /\ op \in [Servers -> Definition \cup {Idle}] /\ head \in [Repos -> Commits]
    BY DEF RInv, Branch, Calls, Held
<1>2. Follows(registry, registry)
    BY <1>1 DEF Follows, Retains
<1>3. ASSUME NEW h \in Servers, Create(h) PROVE RInv' /\ Commanded
  <2> DEFINE new == [commit |-> 1, state |-> Empty]
  <2>1. /\ registry.commit = 0 /\ registry.state = Empty
        /\ registry' = new /\ handle' = [handle EXCEPT ![h] = new] /\ UNCHANGED <<op, head, pins>>
      BY <1>3 DEF Create, RInv, Branch
  <2>2. new \in Held /\ new.commit = 1 /\ new.state = Empty
      BY <1>1, <2>1 DEF Held
  <2> HIDE DEF new
  <2>3. Follows(new, new)
      BY <2>2 DEF Follows, Retains
  <2>4. ASSUME NEW o \in Servers PROVE Follows(handle[o], new)
    <3>1. Follows(handle[o], registry) /\ handle[o].commit \in Nat
        BY <1>1 DEF RInv, Branch, Held
    <3> QED BY <2>1, <2>2, <3>1 DEF Follows
  <2>5. handle' \in [Servers -> Held] /\ \A o \in Servers : Follows(handle'[o], new)
      BY <1>1, <2>1, <2>2, <2>3, <2>4
  <2>6. Branch'
      BY <2>1, <2>2, <2>5 DEF RInv, Branch
  <2>7. Calls' /\ Handed'
      BY <2>1, <2>2 DEF RInv, Calls, Handed
  <2> QED BY <2>1, <2>2, <2>6, <2>7 DEF RInv, Commanded
<1>4. ASSUME NEW h \in Servers, Open(h) PROVE RInv' /\ Commanded
  <2>1. /\ handle' = [handle EXCEPT ![h] = registry] /\ op' = [op EXCEPT ![h] = Idle]
        /\ UNCHANGED <<registry, head, pins>>
      BY <1>4 DEF Open
  <2>2. Branch'
      BY <1>1, <1>2, <2>1 DEF RInv, Branch
  <2>3. Calls'
      BY <1>1, <2>1 DEF RInv, Calls
  <2> QED BY <2>1, <2>2, <2>3 DEF RInv, Handed, Commanded
<1>5. ASSUME NEW h \in Servers, NEW s \in Sets, NEW v \in Revs, Resolve(h, s, v) PROVE RInv' /\ Commanded
  <2> DEFINE new == [set |-> s, rev |-> v, pin |-> handle[h].state.rel[s][v]]
  <2>1. UNCHANGED <<registry, handle, op, head>> /\ pins' = pins \cup {new} /\ handle[h].state.rel[s][v] # NoPin
      BY <1>5 DEF Resolve, Consumable
  <2>2. handle[h].state.rel[s][v] \in Pins
      BY <1>1 DEF Held, State
  <2>3. registry.state.rel[s][v] = handle[h].state.rel[s][v]
      BY <2>1 DEF RInv, Branch, Follows, Retains
  <2>4. new \in Accepted /\ new.pin # NoPin /\ registry.state.rel[new.set][new.rev] = new.pin
      BY <2>1, <2>2, <2>3 DEF Accepted
  <2> HIDE DEF new
  <2>5. Handed'
      BY <2>1, <2>4 DEF RInv, Handed
  <2> QED BY <2>1, <2>5, BranchStands DEF RInv, Calls, Commanded
<1>6. ASSUME NEW r \in Repos, MemberAdvance(r) \/ ArchiveRepo(r) PROVE RInv' /\ Commanded
  <2>1. UNCHANGED <<registry, handle, op, pins>>
      BY <1>6 DEF MemberAdvance, ArchiveRepo
  <2>2. head' \in [Repos -> Commits]
    <3>1. CASE MemberAdvance(r)
      <4>1. head[r] + 1 \in Commits
          BY <1>1, <3>1 DEF MemberAdvance, Commits, Distinguished
      <4> QED BY <1>1, <3>1, <4>1 DEF MemberAdvance
    <3> QED BY <1>1, <1>6, <3>1 DEF ArchiveRepo
  <2> QED BY <2>1, <2>2, BranchStands DEF RInv, Calls, Handed, Commanded
<1> QED BY <1>3, <1>4, <1>5, <1>6

LEMMA CatalogStep ==
    ASSUME Distinguished, RInv, [Next]_vars
    PROVE  RInv' /\ Commanded
<1>1. CASE UNCHANGED vars
    BY <1>1, BranchStands DEF RInv, Calls, Handed, Commanded, vars
<1>2. CASE Next
    BY <1>2, RegistryStep, DefinitionStep, PublishStep, OtherStep DEF Next
<1> QED BY <1>1, <1>2

LEMMA CatalogInit == ASSUME Distinguished, Init PROVE RInv /\ Contract!CInit
<1>1. /\ registry = [commit |-> 0, state |-> Empty] /\ handle = [h \in Servers |-> registry]
      /\ op = [h \in Servers |-> Idle] /\ head = [r \in Repos |-> 1] /\ pins = {}
    BY DEF Init
<1>2. NoPin \in Pins
    BY DEF NoPin, Pins, Commits, Distinguished
<1>3. Empty \in State /\ \A s \in Sets, v \in Revs : Empty.rel[s][v] = NoPin
    BY <1>2 DEF Empty, State
<1>4. Ordered(Empty)
    BY <1>3 DEF Ordered, Empty
<1>5. registry \in Held /\ registry.commit = 0 /\ registry.state = Empty
    BY <1>1, <1>3 DEF Held
<1>6. Branch
  <2>1. Follows(registry, registry)
      BY <1>5 DEF Follows, Retains
  <2>2. handle \in [Servers -> Held] /\ \A h \in Servers : handle[h] = registry
      BY <1>1, <1>5
  <2> QED BY <1>4, <1>5, <2>1, <2>2 DEF Branch
<1>7. Calls /\ Handed
    BY <1>1 DEF Calls, Handed, Commits, Distinguished
<1>8. Contract!CInit
    BY <1>5 DEF Contract!CInit, Contract!CEmpty, Empty
<1> QED BY <1>6, <1>7, <1>8 DEF RInv

\* Servers that hold their own copies of the registry, lost answers and
\* restarts included, change it as if its commands ran one at a time on its
\* last state (Catalog.persist, saveSnapshot).
THEOREM CatalogOneAtATime == ASSUME Distinguished PROVE Spec => OneAtATime
<1>1. Init => RInv /\ Contract!CInit
    BY CatalogInit
<1>2. RInv /\ [Next]_vars => RInv' /\ [Contract!CNext]_(registry.state)
    BY CatalogStep DEF Commanded
<1> QED BY <1>1, <1>2, PTL DEF Spec, OneAtATime, Contract!CSpec

\* Every pin ever handed out is replayed by every server that is up to date,
\* unless its set was retired or a member left (ReplayPublished).
THEOREM CatalogPinsReplay == ASSUME Distinguished PROVE Spec => []PinsReplay
<1>1. Init => RInv
    BY CatalogInit
<1>2. RInv /\ [Next]_vars => RInv'
    BY CatalogStep
<1>3. RInv => PinsReplay
  <2> SUFFICES ASSUME RInv, NEW p \in pins, NEW h \in Servers, handle[h].commit = registry.commit,
                      p.set \notin handle[h].state.retired,
                      Members(p.pin) \subseteq handle[h].state.repos \ gone
               PROVE  ReplayPublished(h, p)
      BY DEF PinsReplay
  <2>1. handle[h].state = registry.state
      BY DEF RInv, Branch, Follows
  <2>2. /\ p.set \in Sets /\ p.rev \in Revs /\ p.pin # NoPin
        /\ registry.state.rel[p.set][p.rev] = p.pin
      BY DEF RInv, Handed, Accepted
  <2>3. p.rev <= registry.state.cur[p.set] /\ p.rev \in Nat \ {0}
      BY <2>2 DEF RInv, Branch, Ordered, Distinguished
  <2>4. registry.state.cur[p.set] # 0
      BY <2>3
  <2> QED BY <2>1, <2>2, <2>4 DEF ReplayPublished, Consumable
<1> QED BY <1>1, <1>2, <1>3, PTL DEF Spec

---------------------------------------------------------------------------
(***************************************************************************)
(* Access.  What a deployment is set up with: rules and allocations about  *)
(* coordinates it knows, and provider accounts whose names and old         *)
(* principals differ.                                                      *)
(***************************************************************************)
Deployed ==
    /\ \A r \in Roots : r.scope \in Scope /\ r = Rule(r.id, r.who, r.acts, r.scope, r.part, r.by)
    /\ \A al \in Allocations : al.repo \in Repositories
    /\ FirstCatalog \in Catalogs

Provider ==
    /\ OldAccounts \subseteq Accounts /\ Wildcard \notin Names
    /\ FirstName \in [Accounts -> Names]
    /\ \A a, o \in Accounts : Legacy[a] = Legacy[o] => a = o

---------------------------------------------------------------------------
(***************************************************************************)
(* Confinement: every rule there ever is lies within a scope the           *)
(* deployment itself gave out.                                             *)
(***************************************************************************)
IsRule(rule) == \E i, w, a, p, b : \E s \in Scope : rule = Rule(i, w, a, s, p, b)

Covered(s, part, given) == \E g \in given : Within(s, g.scope) /\ g.part \in {Wildcard, part}

CInv == \A rule \in rules : IsRule(rule) /\ Covered(rule.scope, rule.part, Granted)

LEMMA ScopeFields ==
    ASSUME NEW s, NEW q
    PROVE  /\ ScopeMatches(s, q) <=> /\ s.repo \in {Wildcard, q.repo}
                                     /\ s.catalog \in {Wildcard, q.catalog}
                                     /\ s.dataset \in {Wildcard, q.dataset}
           /\ Within(q, s) <=> ScopeMatches(s, q)
<1>1. ScopeMatches(s, q) <=> /\ s.repo \in {Wildcard, q.repo}
                             /\ s.catalog \in {Wildcard, q.catalog}
                             /\ s.dataset \in {Wildcard, q.dataset}
    BY Zenon DEF ScopeMatches
<1>2. Within(q, s) <=> ScopeMatches(s, q)
    BY Zenon DEF ScopeMatches, Within
<1> QED BY <1>1, <1>2

\* Narrowing a covered rule leaves it covered.
LEMMA Narrower ==
    ASSUME CInv, NEW rule \in rules, NEW q, NEW part,
           ScopeMatches(rule.scope, q), rule.part \in {Wildcard, part}
    PROVE  Covered(q, part, Granted)
<1>1. PICK g \in Granted : Within(rule.scope, g.scope) /\ g.part \in {Wildcard, rule.part}
    BY DEF CInv, Covered
<1>2. Within(q, g.scope)
    BY <1>1, ScopeFields
<1> QED BY <1>1, <1>2 DEF Covered

LEMMA MatchCovered ==
    ASSUME CInv, NEW who, NEW a, NEW q, NEW part, Match(who, a, q, part)
    PROVE  Covered(q, part, Granted)
BY Narrower DEF Match

\* A step that adds one covered rule, or only takes rules away.
LEMMA RulesGrow ==
    ASSUME CInv, NEW added, applied \subseteq applied',
           \A rule \in rules' : rule \in rules \/ rule = added,
           added \in rules' => IsRule(added) /\ Covered(added.scope, added.part, Granted')
    PROVE  CInv'
<1>1. Granted \subseteq Granted'
    BY DEF Granted
<1> QED BY <1>1 DEF CInv, Covered

LEMMA RuleScope ==
    ASSUME NEW i, NEW w, NEW a, NEW s, NEW p, NEW b, NEW n
    PROVE  /\ Rule(i, w, a, s, p, b).scope = s /\ Rule(i, w, a, s, p, b).part = p
           /\ [Rule(i, w, a, s, p, b) EXCEPT !.id = n] = Rule(n, w, a, s, p, b)
           /\ [Rule(i, w, a, s, p, b) EXCEPT !.who = n] = Rule(i, n, a, s, p, b)
BY DEF Rule

LEMMA ConfinedStep == ASSUME Deployed, CInv, [PolicyNext]_policyVars PROVE CInv'
<1>1. ASSUME NEW who, NEW to, NEW acts, NEW scope \in Scope, NEW part, GrantAdd(who, to, acts, scope, part)
      PROVE  CInv'
  <2> DEFINE added == Rule(issued + 1, to, acts, scope, part, Wildcard)
  <2>1. rules' = rules \cup {added} /\ UNCHANGED applied
      BY <1>1, RuleScope DEF GrantAdd, Issue
  <2>2. Covered(scope, Wildcard, Granted)
      BY <1>1, Narrower DEF GrantAdd, AuthorizeManagement
  <2>3. Covered(scope, part, Granted')
      BY <2>1, <2>2 DEF Covered, Granted
  <2>4. IsRule(added) /\ added.scope = scope /\ added.part = part
      BY RuleScope DEF IsRule
  <2> HIDE DEF added
  <2> QED BY <2>1, <2>3, <2>4, RulesGrow
<1>2. ASSUME NEW who, NEW to, NEW r \in Repositories, NEW acts, ShareAdd(who, to, r, acts)
      PROVE  CInv'
  <2> DEFINE added == Rule(issued + 1, to, acts, RepoScope(r), Wildcard, who)
  <2>1. rules' = rules \cup {added} /\ UNCHANGED applied
      BY <1>2, RuleScope DEF ShareAdd, Issue
  <2>2. \E rule \in rules : rule.part = Wildcard /\ ScopeMatches(rule.scope, RepoScope(r))
      BY <1>2, ScopeFields DEF ShareAdd, WholeRepositoryActionAllowed, RepoScope
  <2>3. Covered(RepoScope(r), Wildcard, Granted)
      BY <2>2, Narrower
  <2>4. Covered(RepoScope(r), Wildcard, Granted')
      BY <2>1, <2>3 DEF Covered, Granted
  <2>5. RepoScope(r) \in Scope
      BY DEF RepoScope, Scope
  <2>6. IsRule(added) /\ added.scope = RepoScope(r) /\ added.part = Wildcard
      BY <2>5, RuleScope DEF IsRule
  <2> HIDE DEF added
  <2> QED BY <2>1, <2>4, <2>6, RulesGrow
<1>3. ASSUME NEW al \in Allocations, ManagedGrant(al) PROVE CInv'
  <2> DEFINE s == RepoScope(al.repo)
             added == Rule(issued + 1, Owner(al), ManagedActions, s, Wildcard, Wildcard)
  <2>1. rules' = rules \cup {added} /\ applied' = applied \cup {al}
      BY <1>3, RuleScope DEF ManagedGrant, Issue
  <2>2. [scope |-> s, part |-> Wildcard] \in Granted'
      BY <2>1 DEF Granted
  <2>3. Within(s, s)
      BY ScopeFields
  <2>4. Covered(s, Wildcard, Granted')
      BY <2>2, <2>3 DEF Covered
  <2>5. s \in Scope
      BY <1>3 DEF RepoScope, Scope, Deployed
  <2>6. IsRule(added) /\ added.scope = s /\ added.part = Wildcard
      BY <2>5, RuleScope DEF IsRule
  <2> HIDE DEF added, s
  <2> QED BY <2>1, <2>4, <2>6, RulesGrow
<1>4. ASSUME NEW who, NEW rule, GrantRevoke(who, rule) \/ ShareRemove(who, rule) PROVE CInv'
  <2>1. rules' \subseteq rules /\ UNCHANGED applied
      BY <1>4 DEF GrantRevoke, ShareRemove
  <2> QED BY <2>1 DEF CInv, Covered, Granted
<1>5. ASSUME NEW a, MigrateRules(a) PROVE CInv'
  <2>1. UNCHANGED applied
      BY <1>5 DEF MigrateRules
  <2>2. ASSUME NEW new \in rules'
        PROVE  \E old \in rules : IsRule(new) /\ new.scope = old.scope /\ new.part = old.part
    <3>1. PICK old \in rules : new = IF old.who = Legacy[a] THEN [old EXCEPT !.who = name[a]] ELSE old
        BY <1>5, <2>2 DEF MigrateRules
    <3>2. PICK i, w, acts, p, b : \E s \in Scope : old = Rule(i, w, acts, s, p, b)
        BY DEF CInv, IsRule
    <3>3. PICK s \in Scope : old = Rule(i, w, acts, s, p, b)
        BY <3>2
    <3>4. CASE old.who = Legacy[a]
      <4>1. new = [Rule(i, w, acts, s, p, b) EXCEPT !.who = name[a]]
          BY <3>1, <3>3, <3>4, Zenon
      <4>2. new = Rule(i, name[a], acts, s, p, b)
          BY <4>1 DEF Rule
      <4> QED BY <3>3, <4>2, RuleScope DEF IsRule
    <3>5. CASE old.who # Legacy[a]
        BY <3>1, <3>3, <3>5 DEF IsRule
    <3> QED BY <3>4, <3>5
  <2>3. Granted' = Granted
      BY <2>1 DEF Granted
  <2> QED BY <2>2, <2>3 DEF CInv
<1>6. ASSUME UNCHANGED <<rules, applied>> PROVE CInv'
    BY <1>6 DEF CInv, Covered, Granted
<1>7. ASSUME NEW a, NEW n, Login(a) \/ Rename(a, n) \/ MigrateAlias(a) PROVE UNCHANGED <<rules, applied>>
    BY <1>7 DEF Login, Rename, MigrateAlias
<1>8. CASE UNCHANGED policyVars
    BY <1>6, <1>8 DEF policyVars
<1>9. CASE PolicyNext
    BY <1>1, <1>2, <1>3, <1>4, <1>5, <1>6, <1>7, <1>9 DEF PolicyNext
<1> QED BY <1>8, <1>9

LEMMA CoveredInit == ASSUME Deployed, PolicyInit PROVE CInv
<1>1. ASSUME NEW r \in Roots PROVE Covered(r.scope, r.part, Granted)
  <2>1. [scope |-> r.scope, part |-> r.part] \in Granted
      BY DEF Granted
  <2> QED BY <2>1, ScopeFields DEF Covered
<1> QED BY <1>1 DEF PolicyInit, CInv, IsRule, Deployed

\* What one target of an authorised request owes to the rules.
Reachable(rq, t) ==
    \/ Covered(t, rq.part, Granted)
    \/ t.catalog \in OpenCatalogs /\ (rq.discovery \/ rq.action = "catalog.read")
    \/ t.repo # Wildcard /\ rq.action \in Public[t.repo]

LEMMA QueryFields ==
    ASSUME NEW q \in Scope, FirstCatalog \in Catalogs
    PROVE  /\ InCatalog(q) \in Scope /\ InCatalog(q).repo = q.repo
BY DEF InCatalog, Scope

\* Permission to read a Catalog comes from a rule for all of it.
LEMMA CatalogCovered ==
    ASSUME CInv, NEW who, NEW c, NEW part, NEW t, t.catalog = c,
           CatalogReadAllowed(who, c)
    PROVE  Covered(t, part, Granted) \/ c \in OpenCatalogs
<1> DEFINE whole == [repo |-> Wildcard, catalog |-> c, dataset |-> Wildcard]
<1>1. CASE Match(who, "catalog.read", whole, Wildcard)
  <2>1. PICK rule \in rules : ScopeMatches(rule.scope, whole) /\ rule.part = Wildcard
      BY <1>1 DEF Match
  <2>2. ScopeMatches(rule.scope, t)
      BY <2>1, ScopeFields
  <2> QED BY <2>1, <2>2, Narrower
<1> QED BY <1>1 DEF CatalogReadAllowed

\* A definition is admitted as a whole or member by member.
LEMMA MembersCovered ==
    ASSUME Deployed, CInv, NEW who, NEW a, NEW q \in Scope, NEW part, NEW among,
           among # {}, q.repo = Wildcard,
           WorkspaceScopeAllowed(who, a, InCatalog(q), part, among), NEW m \in among
    PROVE  Covered([InCatalog(q) EXCEPT !.repo = m, !.dataset = Wildcard], part, Granted)
<1> DEFINE n == [InCatalog(q) EXCEPT !.dataset = Wildcard]
           t == [InCatalog(q) EXCEPT !.repo = m, !.dataset = Wildcard]
<1>1. /\ n.repo = Wildcard /\ n.dataset = Wildcard /\ n.catalog = t.catalog /\ t.dataset = Wildcard
      /\ [n EXCEPT !.repo = m] = t
  <2>1. InCatalog(q) \in Scope /\ InCatalog(q).repo = Wildcard
      BY QueryFields DEF Deployed
  <2>2. \A c \in Scope : c.repo = Wildcard =>
          /\ [c EXCEPT !.dataset = Wildcard].repo = Wildcard /\ [c EXCEPT !.dataset = Wildcard].dataset = Wildcard
          /\ [c EXCEPT !.dataset = Wildcard].catalog = [c EXCEPT !.repo = m, !.dataset = Wildcard].catalog
          /\ [c EXCEPT !.repo = m, !.dataset = Wildcard].dataset = Wildcard
          /\ [[c EXCEPT !.dataset = Wildcard] EXCEPT !.repo = m] = [c EXCEPT !.repo = m, !.dataset = Wildcard]
      BY DEF Scope
  <2> QED BY <2>1, <2>2
<1>2. Match(who, a, n, part) \/ Match(who, a, [n EXCEPT !.repo = m], part)
    BY DEF WorkspaceScopeAllowed
<1> HIDE DEF n, t
<1>3. CASE Match(who, a, n, part)
  <2>1. PICK rule \in rules : ScopeMatches(rule.scope, n) /\ rule.part \in {Wildcard, part}
      BY <1>3 DEF Match
  <2>2. ScopeMatches(rule.scope, t)
      BY <1>1, <2>1, ScopeFields
  <2> QED BY <2>1, <2>2, Narrower DEF t
<1> QED BY <1>1, <1>2, <1>3, MatchCovered DEF t

LEMMA CoveredConfined == ASSUME Deployed, CInv PROVE Confined
<1> SUFFICES ASSUME NEW rq \in Requests, Authorize(rq), NEW t \in Reached(rq)
             PROVE  Reachable(rq, t)
    BY DEF Confined, Reachable, Covered
<1> DEFINE q == InCatalog(rq.q)
<1>1. CASE rq.discovery
  <2>1. t = [repo |-> Wildcard, catalog |-> q.catalog, dataset |-> Wildcard]
      BY <1>1 DEF Reached
  <2>2. CatalogReadAllowed(rq.who, q.catalog)
      BY <1>1 DEF Authorize
  <2>3. t.catalog = q.catalog
      BY <2>1
  <2> QED BY <1>1, <2>2, <2>3, CatalogCovered DEF Reachable
<1>2. CASE ~rq.discovery /\ rq.members = {}
  <2>1. t = q
      BY <1>2 DEF Reached
  <2>2. \/ \E a : Match(rq.who, a, q, rq.part)
        \/ rq.action = "catalog.read" /\ CatalogReadAllowed(rq.who, q.catalog)
        \/ q.repo # Wildcard /\ rq.action \in Public[q.repo]
      BY <1>2 DEF Authorize, WorkspaceScopeAllowed
  <2> HIDE DEF q
  <2> QED BY <2>1, <2>2, MatchCovered, CatalogCovered DEF Reachable
<1>3. CASE ~rq.discovery /\ rq.members # {}
  <2>1. /\ rq.q \in Scope /\ rq.q.repo = Wildcard
        /\ rq.action \in {"dataset.resolve"} \cup Knowledge
      BY <1>3 DEF Requests, Request, DefinitionActions, Wide
  <2>2. q.repo = Wildcard
      BY <2>1, QueryFields DEF Deployed
  <2>3. \E a : WorkspaceScopeAllowed(rq.who, a, q, rq.part, rq.members)
      BY <1>3, <2>1, <2>2 DEF Authorize
  <2>4. PICK m \in rq.members : t = [q EXCEPT !.repo = m, !.dataset = Wildcard]
      BY <1>3 DEF Reached
  <2>5. Covered([q EXCEPT !.repo = m, !.dataset = Wildcard], rq.part, Granted)
      BY <1>3, <2>1, <2>3, MembersCovered
  <2> QED BY <2>4, <2>5, Zenon DEF Reachable
<1> QED BY <1>1, <1>2, <1>3

\* No chain of grants, shares, migrations and managed grants reaches what no
\* initial rule and no managed grant covers (access.Authorize,
\* AuthorizeManagement, createRepositoryShareWithPolicy).
THEOREM PolicyConfined == ASSUME Deployed PROVE PolicySpec => []Confined
<1>1. PolicyInit => CInv
    BY CoveredInit
<1>2. CInv /\ [PolicyNext]_policyVars => CInv'
    BY ConfinedStep
<1>3. CInv => Confined
    BY CoveredConfined
<1> QED BY <1>1, <1>2, <1>3, PTL DEF PolicySpec

---------------------------------------------------------------------------
(***************************************************************************)
(* Names: what an account was ever let in under, and what an old principal *)
(* was migrated to, is bound to it, and bindings never change.             *)
(***************************************************************************)
Bound(a, n) == [acct |-> a, name |-> n] \in bound

NInv ==
    /\ name \in [Accounts -> Names] /\ held \in [Accounts -> SUBSET Names]
    /\ alias \in [{Legacy[a] : a \in Accounts} -> Names \cup {Wildcard}]
    /\ bound \subseteq [acct : Accounts, name : Names]
    /\ \A b, c \in bound : b.acct = c.acct \/ b.name = c.name => b = c
    /\ \A a \in Accounts : \A n \in held[a] : Bound(a, n)
    /\ \A a \in Accounts : alias[Legacy[a]] # Wildcard => Bound(a, alias[Legacy[a]])

\* Binding an account adds nothing but its own name, once.
LEMMA BindStep ==
    ASSUME NInv, NEW a \in Accounts, Bind(a)
    PROVE  /\ bound' \subseteq [acct : Accounts, name : Names] /\ bound \subseteq bound'
           /\ \A b, c \in bound' : b.acct = c.acct \/ b.name = c.name => b = c
           /\ [acct |-> a, name |-> name[a]] \in bound'
           /\ held' \in [Accounts -> SUBSET Names]
           /\ \A o \in Accounts : \A n \in held'[o] : [acct |-> o, name |-> n] \in bound'
<1> DEFINE new == [acct |-> a, name |-> name[a]]
<1>1. new \in [acct : Accounts, name : Names] /\ new.acct = a /\ new.name = name[a]
    BY DEF NInv
<1>2. \A b \in [acct : Accounts, name : Names] : b.acct = a /\ b.name = name[a] => b = new
    OBVIOUS
<1>5. /\ bound' \subseteq [acct : Accounts, name : Names] /\ bound \subseteq bound'
      /\ \A b, c \in bound' : b.acct = c.acct \/ b.name = c.name => b = c
      /\ new \in bound'
  <2>1. CASE \E b \in bound : b.acct = a /\ b.name = name[a] /\ UNCHANGED bound
      BY <1>1, <1>2, <2>1 DEF NInv
  <2>2. CASE /\ \A b \in bound : b.acct # a /\ b.name # name[a]
             /\ bound' = bound \cup {new}
    <3> HIDE DEF new
    <3> QED BY <1>1, <2>2 DEF NInv
  <2> QED BY <2>1, <2>2 DEF Bind
<1>6. held' = [held EXCEPT ![a] = held[a] \cup {name[a]}]
    BY DEF Bind
<1>7. held' \in [Accounts -> SUBSET Names]
    BY <1>6 DEF NInv
<1>8. ASSUME NEW o \in Accounts, NEW n \in held'[o] PROVE [acct |-> o, name |-> n] \in bound'
  <2>1. CASE o = a /\ n = name[a]
      BY <1>5, <2>1
  <2>2. CASE n \in held[o]
      BY <1>5, <2>2 DEF NInv, Bound
  <2> QED BY <1>6, <1>8, <2>1, <2>2 DEF NInv
<1> QED BY <1>5, <1>7, <1>8

LEMMA NamesStep == ASSUME Provider, NInv, [PolicyNext]_policyVars PROVE NInv'
<1>1. ASSUME NEW a \in Accounts, Login(a) PROVE NInv'
  <2>1. Bind(a) /\ UNCHANGED <<name, alias>>
      BY <1>1 DEF Login
  <2>2. \A o \in Accounts : alias[Legacy[o]] # Wildcard => Bound(o, alias[Legacy[o]])'
      BY <2>1, BindStep DEF NInv, Bound
  <2> QED BY <2>1, <2>2, BindStep DEF NInv, Bound
<1>2. ASSUME NEW a \in Accounts, NEW n \in Names, Rename(a, n) PROVE NInv'
  <2>1. name' \in [Accounts -> Names] /\ UNCHANGED <<bound, alias, held>>
      BY <1>2 DEF Rename, NInv
  <2> QED BY <2>1 DEF NInv, Bound
<1>3. ASSUME NEW a \in OldAccounts, MigrateAlias(a) PROVE NInv'
  <2>1. /\ a \in Accounts /\ Bind(a) /\ UNCHANGED name
        /\ alias' = [alias EXCEPT ![Legacy[a]] = name[a]]
      BY <1>3 DEF MigrateAlias, Provider
  <2>2. alias' \in [{Legacy[o] : o \in Accounts} -> Names \cup {Wildcard}]
      BY <2>1 DEF NInv
  <2>3. \A o \in Accounts : alias'[Legacy[o]] = IF o = a THEN name[a] ELSE alias[Legacy[o]]
      BY <2>1 DEF NInv, Provider
  <2>4. ASSUME NEW o \in Accounts, alias'[Legacy[o]] # Wildcard
        PROVE  [acct |-> o, name |-> alias'[Legacy[o]]] \in bound'
    <3>1. CASE o = a
        BY <2>1, <2>3, <3>1, BindStep
    <3>2. CASE o # a
        BY <2>1, <2>3, <2>4, <3>2, BindStep DEF NInv, Bound
    <3> QED BY <3>1, <3>2
  <2> QED BY <2>1, <2>2, <2>4, BindStep DEF NInv, Bound
<1>4. ASSUME UNCHANGED <<name, bound, alias, held>> PROVE NInv'
    BY <1>4 DEF NInv, Bound
<1>5. ASSUME NEW a, MigrateRules(a) PROVE UNCHANGED <<name, bound, alias, held>>
    BY <1>5 DEF MigrateRules
<1>6. ASSUME NEW who, NEW to, NEW acts, NEW scope, NEW part, GrantAdd(who, to, acts, scope, part)
      PROVE  UNCHANGED <<name, bound, alias, held>>
    BY <1>6 DEF GrantAdd
<1>7. ASSUME NEW who, NEW to, NEW r, NEW acts, ShareAdd(who, to, r, acts)
      PROVE  UNCHANGED <<name, bound, alias, held>>
    BY <1>7 DEF ShareAdd
<1>8. ASSUME NEW who, NEW rule, GrantRevoke(who, rule) \/ ShareRemove(who, rule)
      PROVE  UNCHANGED <<name, bound, alias, held>>
    BY <1>8 DEF GrantRevoke, ShareRemove
<1>9. ASSUME NEW al, ManagedGrant(al) PROVE UNCHANGED <<name, bound, alias, held>>
    BY <1>9 DEF ManagedGrant
<1>10. CASE UNCHANGED policyVars
    BY <1>4, <1>10 DEF policyVars
<1>11. CASE PolicyNext
    BY <1>1, <1>2, <1>3, <1>4, <1>5, <1>6, <1>7, <1>8, <1>9, <1>11 DEF PolicyNext
<1> QED BY <1>10, <1>11

\* Whatever accounts are renamed or recycled, an account is let in under one
\* name only and no two under the same (Bind, MigrateLegacyAlias).
THEOREM PolicyNames == ASSUME Provider PROVE PolicySpec => []OneAccountPerName
<1>1. PolicyInit => NInv
    BY DEF PolicyInit, NInv, Provider
<1>2. NInv /\ [PolicyNext]_policyVars => NInv'
    BY NamesStep
<1>3. NInv => OneAccountPerName
  <2> SUFFICES ASSUME NInv PROVE OneAccountPerName
      OBVIOUS
  <2>1. \A a, o \in Accounts : \A n, m : Bound(a, n) /\ Bound(o, m) /\ (a = o \/ n = m) => a = o /\ n = m
      BY DEF NInv, Bound
  <2>2. ASSUME NEW a \in Accounts PROVE Cardinality(held[a]) <= 1
    <3>1. CASE held[a] = {}
        BY <3>1, FS_EmptySet
    <3>2. CASE held[a] # {}
      <4>1. PICK n : n \in held[a]
          BY <3>2
      <4>2. held[a] = {n}
          BY <2>1, <4>1 DEF NInv
      <4> QED BY <4>2, FS_Singleton
    <3> QED BY <3>1, <3>2
  <2>3. \A a, o \in Accounts : a # o => held[a] \cap held[o] = {}
      BY <2>1 DEF NInv
  <2>4. \A a, o \in Accounts : a # o /\ alias[Legacy[a]] # Wildcard => alias[Legacy[a]] \notin held[o]
      BY <2>1 DEF NInv
  <2> QED BY <2>2, <2>3, <2>4 DEF OneAccountPerName
<1> QED BY <1>1, <1>2, <1>3, PTL DEF PolicySpec

\* Both at once: what requests reach and whom rules speak of.
THEOREM PolicyIsSound == ASSUME Deployed, Provider PROVE PolicySpec => []PolicySound
<1>1. Confined /\ OneAccountPerName => PolicySound
    BY DEF PolicySound
<1> QED BY <1>1, PolicyConfined, PolicyNames, PTL

\* Repeating a migration or a managed grant never brings a revoked rule back
\* (EnsureManagedRepositoryGrant, migrateLegacyIdentity).
THEOREM PolicyNothingReturns == ASSUME Deployed PROVE PolicySpec => NothingReturns
<1> DEFINE Counted == issued \in Nat
           NeverBack == /\ applied \subseteq applied' /\ moved \subseteq moved'
                        /\ \A r \in rules' :
                               r.id # 0 /\ r.id <= issued => \E o \in rules : o.id = r.id
<1>1. PolicyInit => issued \in Nat /\ CInv
    BY CoveredInit DEF PolicyInit
<1>2. issued \in Nat /\ CInv /\ [PolicyNext]_policyVars => issued' \in Nat /\ NeverBack
  <2> SUFFICES ASSUME issued \in Nat, CInv, [PolicyNext]_policyVars PROVE issued' \in Nat /\ NeverBack
      OBVIOUS
  <2>1. ASSUME NEW rule, Issue(rule), \E i, w, a, s, p, b : rule = Rule(i, w, a, s, p, b)
        PROVE  /\ issued' \in Nat
               /\ \A r \in rules' : r.id # 0 /\ r.id <= issued => \E o \in rules : o.id = r.id
    <3> DEFINE new == [rule EXCEPT !.id = issued + 1]
    <3>1. issued' = issued + 1 /\ rules' = rules \cup {new}
        BY <2>1 DEF Issue
    <3>2. new.id = issued + 1
        BY <2>1 DEF Rule
    <3> HIDE DEF new
    <3> QED BY <3>1, <3>2
  <2>2. ASSUME NEW who, NEW to, NEW acts, NEW scope, NEW part, GrantAdd(who, to, acts, scope, part)
        PROVE  issued' \in Nat /\ NeverBack
    <3>1. Issue(Rule(0, to, acts, scope, part, Wildcard)) /\ UNCHANGED <<applied, moved>>
        BY <2>2 DEF GrantAdd
    <3> QED BY <2>1, <3>1
  <2>3. ASSUME NEW who, NEW to, NEW r, NEW acts, ShareAdd(who, to, r, acts)
        PROVE  issued' \in Nat /\ NeverBack
    <3>1. Issue(Rule(0, to, acts, RepoScope(r), Wildcard, who)) /\ UNCHANGED <<applied, moved>>
        BY <2>3 DEF ShareAdd
    <3> QED BY <2>1, <3>1
  <2>4. ASSUME NEW al, ManagedGrant(al) PROVE issued' \in Nat /\ NeverBack
    <3>1. /\ Issue(Rule(0, Owner(al), ManagedActions, RepoScope(al.repo), Wildcard, Wildcard))
          /\ applied \subseteq applied' /\ UNCHANGED moved
        BY <2>4 DEF ManagedGrant
    <3> QED BY <2>1, <3>1
  <2>5. ASSUME NEW who, NEW rule, GrantRevoke(who, rule) \/ ShareRemove(who, rule)
        PROVE  issued' \in Nat /\ NeverBack
      BY <2>5 DEF GrantRevoke, ShareRemove
  <2>6. ASSUME NEW a, MigrateRules(a) PROVE issued' \in Nat /\ NeverBack
    <3>1. /\ rules' = {IF r.who = Legacy[a] THEN [r EXCEPT !.who = name[a]] ELSE r : r \in rules}
          /\ moved \subseteq moved' /\ UNCHANGED <<applied, issued>>
        BY <2>6 DEF MigrateRules
    <3>2. ASSUME NEW new \in rules' PROVE \E r \in rules : new.id = r.id
      <4>1. PICK r \in rules : new = IF r.who = Legacy[a] THEN [r EXCEPT !.who = name[a]] ELSE r
          BY <3>1
      <4>2. [r EXCEPT !.who = name[a]].id = r.id
          BY DEF CInv, IsRule, Rule
      <4> QED BY <4>1, <4>2, Zenon
    <3> QED BY <3>1, <3>2
  <2>7. ASSUME NEW a, NEW n, Login(a) \/ Rename(a, n) \/ MigrateAlias(a) PROVE issued' \in Nat /\ NeverBack
      BY <2>7 DEF Login, Rename, MigrateAlias
  <2>8. CASE UNCHANGED policyVars
      BY <2>8 DEF policyVars
  <2>9. CASE PolicyNext
    <3> HIDE DEF NeverBack
    <3> QED BY <2>2, <2>3, <2>4, <2>5, <2>6, <2>7, <2>9 DEF PolicyNext
  <2> QED BY <2>8, <2>9
<1>3. Counted /\ CInv /\ [PolicyNext]_policyVars => Counted' /\ CInv' /\ [NeverBack]_policyVars
    BY <1>2, ConfinedStep DEF Counted
<1>4. PolicyInit => Counted /\ CInv
    BY <1>1 DEF Counted
<1> QED BY <1>3, <1>4, PTL DEF PolicySpec, NothingReturns

(***************************************************************************)
(* Sessions of the client: what a file of a server holds, and what a       *)
(* process carries between two file operations, belongs to that server.    *)
(***************************************************************************)
OwnedBy(c, s) == c \in Credential /\ c.server = s /\ c.principal \in loggedIn[s]

Task == [pc : {"idle", "saveToken", "saveLocal", "dropLocal", "dropToken", "refresh"},
         server : Endpoints \cup {"none"}, kind : {"none", "login", "browser", "logout", "request"},
         session : Credential \cup {Absent}]

\* A file of an endpoint is empty or holds a session of the endpoint.
FilesOwned ==
    /\ token = [s \in Endpoints |-> token[s]] /\ local = [s \in Endpoints |-> local[s]]
    /\ \A s \in Endpoints :
          (token[s] = Absent \/ OwnedBy(token[s], s)) /\ (local[s] = Absent \/ OwnedBy(local[s], s))

\* What the older client left is of the endpoint it names.
OldOwned ==
    /\ oldToken = Absent \/ (oldToken.server \in Endpoints /\ OwnedBy(oldToken, oldToken.server))
    /\ oldLocal = Absent \/ (oldLocal.server \in Endpoints /\ OwnedBy(oldLocal, oldLocal.server))

\* A login carries a session of its endpoint, a refresh one of somebody logged in.
CarriesOwn(t) ==
    /\ t.pc \in {"saveToken", "saveLocal"} =>
          t.server \in Endpoints /\ t.session \in Credential /\ t.session.server = t.server
    /\ t.pc = "refresh" => t.server \in Endpoints /\ OwnedBy(t.session, t.server)

TasksOwned == procs \in [Procs -> Task] /\ \A p \in Procs : CarriesOwn(procs[p])

SentOwned == sent.to # "none" => sent.to \in Endpoints /\ OwnedBy(sent.by, sent.to)

SInv == /\ loggedIn \in [Endpoints -> SUBSET Users]
        /\ FilesOwned /\ OldOwned /\ TasksOwned /\ SentOwned

LEMMA SessionInitial == SessionInit => SInv
<1> SUFFICES ASSUME SessionInit PROVE SInv
    OBVIOUS
<1>1. oldToken \in Credential \cup {Absent} /\ oldLocal \in Credential \cup {Absent}
    BY OldSessions DEF SessionInit
<1>2. loggedIn = [s \in Endpoints |->
          {u \in Users : \E old \in {oldToken, oldLocal} : old.server = s /\ old.principal = u}]
    BY DEF SessionInit
<1>3. loggedIn \in [Endpoints -> SUBSET Users]
    BY <1>2
<1>4. ASSUME NEW old \in {oldToken, oldLocal}, old # Absent
      PROVE  old.server \in Endpoints /\ OwnedBy(old, old.server)
  <2>1. old \in Credential
      BY <1>1, <1>4
  <2>2. old.server \in Endpoints /\ old.principal \in Users
      BY <2>1 DEF Credential
  <2>3. old.principal \in loggedIn[old.server]
      BY <1>2, <2>2
  <2> QED BY <2>1, <2>2, <2>3 DEF OwnedBy
<1>5. OldOwned
    BY <1>4 DEF OldOwned
<1>6. FilesOwned
    BY DEF SessionInit, FilesOwned
<1>7. TasksOwned
    BY DEF SessionInit, TasksOwned, NoTask, Task, CarriesOwn
<1>8. SentOwned
    BY DEF SessionInit, SentOwned
<1> QED BY <1>3, <1>5, <1>6, <1>7, <1>8 DEF SInv

\* Nobody logged in is forgotten, so what is owned stays owned.
LEMMA StaysOwned ==
    ASSUME \A s \in Endpoints : loggedIn[s] \subseteq loggedIn'[s],
           NEW s \in Endpoints, NEW c, OwnedBy(c, s)
    PROVE  OwnedBy(c, s)'
BY DEF OwnedBy

\* One process starts, moves on or ends.
LEMMA TaskMoves ==
    ASSUME TasksOwned, \A s \in Endpoints : loggedIn[s] \subseteq loggedIn'[s],
           NEW p \in Procs, NEW t \in Task, procs' = [procs EXCEPT ![p] = t], CarriesOwn(t)'
    PROVE  TasksOwned'
<1>1. procs' \in [Procs -> Task]
    BY DEF TasksOwned
<1>2. ASSUME NEW q \in Procs PROVE CarriesOwn(procs[q])'
  <2>1. CASE q = p
    <3>1. procs'[q] = t
        BY <2>1 DEF TasksOwned
    <3> QED BY <3>1 DEF CarriesOwn, OwnedBy
  <2>2. CASE q # p
    <3>1. procs'[q] = procs[q] /\ CarriesOwn(procs[q])
        BY <2>2 DEF TasksOwned
    <3>2. procs[q].pc = "refresh" => procs[q].server \in Endpoints /\ OwnedBy(procs[q].session, procs[q].server)'
        BY <3>1, StaysOwned DEF CarriesOwn
    <3> QED BY <3>1, <3>2 DEF CarriesOwn, OwnedBy
  <2> QED BY <2>1, <2>2
<1> QED BY <1>1, <1>2 DEF TasksOwned

LEMMA SessionFields ==
    /\ \A s \in Endpoints, u \in Users :
          /\ Session(s, u) \in Credential /\ Session(s, u).server = s /\ Session(s, u).principal = u
    /\ Absent.server = "none" /\ Absent \notin Credential
    /\ \A s \in Endpoints : \A c : OwnedBy(c, s) => c # Absent
    /\ NoTask \in Task /\ NoTask.pc = "idle"
<1>1. Absent.server = "none" /\ Absent \notin Credential
    BY OldSessions DEF Absent, Credential
<1>2. NoTask \in Task /\ NoTask.pc = "idle"
    BY DEF NoTask, Task
<1>3. \A s \in Endpoints, u \in Users :
          Session(s, u) \in Credential /\ Session(s, u).server = s /\ Session(s, u).principal = u
    BY DEF Session, Credential
<1> QED BY <1>1, <1>2, <1>3 DEF OwnedBy

\* What a request picks is owned by the server it goes to (resolveRemoteSession).
LEMMA PickedOwned ==
    ASSUME SInv, NEW s \in Endpoints
    PROVE  /\ ReadServerTokenSession(s) # Absent => OwnedBy(ReadServerTokenSession(s), s)
           /\ LoadLocalSession(s) # Absent => OwnedBy(LoadLocalSession(s), s)
BY SessionFields DEF SInv, FilesOwned, OldOwned, ReadServerTokenSession, LoadLocalSession

\* A step of a process that leaves the files, the logins and the requests alone.
LEMMA TaskOnly ==
    ASSUME SInv, UNCHANGED <<token, local, oldToken, oldLocal, loggedIn, sent>>,
           NEW p \in Procs, NEW t \in Task, procs' = [procs EXCEPT ![p] = t], CarriesOwn(t)'
    PROVE  SInv'
<1>1. TasksOwned'
    BY TaskMoves DEF SInv
<1> QED BY <1>1 DEF SInv, FilesOwned, OldOwned, SentOwned, OwnedBy

LEMMA LoginStep ==
    ASSUME SInv, NEW p \in Procs, NEW s \in Endpoints, NEW u \in Users,
           TokenLogin(p, s, u) \/ LocalLogin(p, s, u) \/ WaitAuth(p, s, u)
    PROVE  SInv'
<1>1. UNCHANGED <<token, local, oldToken, oldLocal, loggedIn, sent>>
    BY DEF TokenLogin, LocalLogin, WaitAuth, files
<1>2. CASE UNCHANGED procs
    BY <1>1, <1>2 DEF SInv, FilesOwned, OldOwned, TasksOwned, CarriesOwn, SentOwned, OwnedBy
<1>3. CASE \E stage \in {"saveToken", "saveLocal"}, kind \in {"login", "browser"} :
             procs' = [procs EXCEPT ![p] = [pc |-> stage, server |-> s, kind |-> kind, session |-> Session(s, u)]]
  <2>1. PICK stage \in {"saveToken", "saveLocal"}, kind \in {"login", "browser"} :
             procs' = [procs EXCEPT ![p] = [pc |-> stage, server |-> s, kind |-> kind, session |-> Session(s, u)]]
      BY <1>3
  <2> DEFINE t == [pc |-> stage, server |-> s, kind |-> kind, session |-> Session(s, u)]
  <2>2. t \in Task /\ CarriesOwn(t)'
      BY SessionFields DEF Task, CarriesOwn
  <2> QED BY <1>1, <2>1, <2>2, TaskOnly
<1> QED BY <1>2, <1>3 DEF TokenLogin, LocalLogin, WaitAuth, StartTask

LEMMA EntryStep ==
    ASSUME SInv, NEW p \in Procs, NEW s \in Endpoints, StartAuth(p, s) \/ Logout(p, s)
    PROVE  SInv'
<1>1. UNCHANGED <<token, local, oldToken, oldLocal, loggedIn, sent>>
    BY DEF StartAuth, Logout, files
<1>2. CASE StartAuth(p, s)
  <2>1. UNCHANGED procs
      BY <1>2 DEF StartAuth
  <2> QED BY <1>1, <2>1 DEF SInv, FilesOwned, OldOwned, TasksOwned, CarriesOwn, SentOwned, OwnedBy
<1>3. CASE Logout(p, s)
  <2> DEFINE t == [pc |-> "dropToken", server |-> s, kind |-> "logout", session |-> Absent]
  <2>1. t \in Task /\ CarriesOwn(t)'
      BY DEF Task, CarriesOwn
  <2>2. procs' = [procs EXCEPT ![p] = t]
      BY <1>3 DEF Logout, StartTask
  <2> QED BY <1>1, <2>1, <2>2, TaskOnly
<1> QED BY <1>2, <1>3

\* A process goes on to another step of its call, and the session it carries no
\* longer matters.
LEMMA GoneOn ==
    ASSUME SInv, NEW p \in Procs, \A s \in Endpoints : loggedIn[s] \subseteq loggedIn'[s],
           \/ \E stage \in {"dropLocal", "dropToken"} : SessionGoto(p, stage)
           \/ EndTask(p)
    PROVE  TasksOwned'
<1>1. CASE EndTask(p)
  <2>1. CarriesOwn(NoTask)'
      BY SessionFields DEF CarriesOwn
  <2> QED BY <1>1, <2>1, SessionFields, TaskMoves DEF EndTask, SInv
<1>2. CASE \E stage \in {"dropLocal", "dropToken"} : SessionGoto(p, stage)
  <2>1. PICK stage \in {"dropLocal", "dropToken"} : SessionGoto(p, stage)
      BY <1>2
  <2>2. procs[p] \in Task
      BY DEF SInv, TasksOwned
  <2>3. PICK t : t = [procs[p] EXCEPT !.pc = stage]
      OBVIOUS
  <2>4. t \in Task /\ t.pc = stage
      BY <2>2, <2>3 DEF Task
  <2>5. CarriesOwn(t)'
      BY <2>4 DEF CarriesOwn
  <2>6. procs' = [procs EXCEPT ![p] = t]
      BY <2>1, <2>3 DEF SessionGoto
  <2> QED BY <2>4, <2>5, <2>6, TaskMoves DEF SInv
<1> QED BY <1>1, <1>2

LEMMA SavedOwned ==
    ASSUME SInv, NEW p \in Procs, SaveToken(p) \/ SaveLocal(p)
    PROVE  SInv'
<1> DEFINE t == procs[p]
           s == procs[p].server
           c == procs[p].session
<1>1. s \in Endpoints /\ c \in Credential /\ c.server = s /\ c.principal \in Users
    BY DEF SInv, TasksOwned, CarriesOwn, SaveToken, SaveLocal, Credential
<1> HIDE DEF t, s, c
<1>2. loggedIn' = [loggedIn EXCEPT ![s] = @ \cup {c.principal}]
    BY DEF SaveToken, SaveLocal, s, c
<1>3. /\ loggedIn' \in [Endpoints -> SUBSET Users]
      /\ \A q \in Endpoints : loggedIn[q] \subseteq loggedIn'[q]
      /\ c.principal \in loggedIn'[s]
    BY <1>1, <1>2 DEF SInv
<1>4. \A q \in Endpoints : \A d : OwnedBy(d, q) => d \in Credential /\ d.server = q /\ d.principal \in loggedIn'[q]
    BY <1>3 DEF OwnedBy
<1>5. TasksOwned'
    BY <1>3, GoneOn DEF SaveToken, SaveLocal
<1>6. OldOwned' /\ SentOwned'
    BY <1>4 DEF SInv, OldOwned, SentOwned, OwnedBy, SaveToken, SaveLocal
<1>7. FilesOwned'
  <2>1. \/ token' = [token EXCEPT ![s] = c] /\ local' = local
        \/ local' = [local EXCEPT ![s] = c] /\ token' = token
      BY DEF SaveToken, SaveLocal, s, c
  <2>2. /\ token' = [q \in Endpoints |-> token'[q]]
        /\ local' = [q \in Endpoints |-> local'[q]]
        /\ \A q \in Endpoints : token'[q] = token[q] \/ (q = s /\ token'[q] = c)
        /\ \A q \in Endpoints : local'[q] = local[q] \/ (q = s /\ local'[q] = c)
      BY <2>1, <1>1 DEF SInv, FilesOwned
  <2> QED BY <2>2, <1>1, <1>3, <1>4 DEF SInv, FilesOwned, OwnedBy
<1> QED BY <1>3, <1>5, <1>6, <1>7 DEF SInv

LEMMA DroppedOwned ==
    ASSUME SInv, NEW p \in Procs, DropLocal(p) \/ DropToken(p)
    PROVE  SInv'
<1>1. loggedIn' = loggedIn /\ sent' = sent
    BY DEF DropLocal, DropToken
<1>2. TasksOwned'
    BY <1>1, GoneOn DEF DropLocal, DropToken
<1>3. /\ oldToken' \in {oldToken, Absent} /\ oldLocal' \in {oldLocal, Absent}
      /\ \E s : \/ token' = [token EXCEPT ![s] = Absent] /\ local' = local
                \/ local' = [local EXCEPT ![s] = Absent] /\ token' = token
    BY DEF DropLocal, DropToken, Matching
<1>4. /\ token' = [q \in Endpoints |-> token'[q]] /\ local' = [q \in Endpoints |-> local'[q]]
      /\ \A q \in Endpoints : token'[q] \in {token[q], Absent} /\ local'[q] \in {local[q], Absent}
    BY <1>3 DEF SInv, FilesOwned
<1> QED BY <1>1, <1>2, <1>3, <1>4 DEF SInv, FilesOwned, OldOwned, SentOwned, OwnedBy

LEMMA RequestStep ==
    ASSUME SInv, NEW p \in Procs, NEW s \in Endpoints, SendRequest(p, s)
    PROVE  SInv'
<1> DEFINE saved == ReadServerTokenSession(s)
           used == IF saved # Absent THEN saved ELSE LoadLocalSession(s)
<1>1. OwnedBy(used, s) /\ used # Absent /\ (saved # Absent => used = saved)
    BY PickedOwned DEF SendRequest
<1>2. UNCHANGED <<token, local, oldToken, oldLocal, loggedIn>>
    BY DEF SendRequest, files
<1>3. CASE saved.expired /\ saved # Absent
  <2>0. PICK c : c = saved
      OBVIOUS
  <2> DEFINE t == [pc |-> "refresh", server |-> s, kind |-> "request", session |-> c]
  <2>1. sent' = sent /\ procs' = [procs EXCEPT ![p] = t]
      BY <1>3, <2>0 DEF SendRequest, StartTask
  <2>2. c \in Credential /\ OwnedBy(c, s)'
      BY <1>1, <1>2, <1>3, <2>0 DEF OwnedBy
  <2>3. t \in Task /\ CarriesOwn(t)'
      BY <2>2 DEF Task, CarriesOwn, OwnedBy
  <2> QED BY <1>2, <2>1, <2>3, TaskOnly
<1>4. CASE ~(saved.expired /\ saved # Absent)
  <2>1. saved.expired => saved # Absent
      BY DEF Absent
  <2>2. sent' = [to |-> s, by |-> used] /\ procs' = procs
      BY <1>4, <2>1 DEF SendRequest
  <2>3. SentOwned'
      BY <1>1, <1>2, <2>2 DEF SentOwned, OwnedBy
  <2> QED BY <1>2, <2>2, <2>3 DEF SInv, FilesOwned, OldOwned, TasksOwned, CarriesOwn, OwnedBy
<1> QED BY <1>3, <1>4

LEMMA RefreshStep ==
    ASSUME SInv, NEW p \in Procs, NEW u \in Users, Refresh(p, u)
    PROVE  SInv'
<1> DEFINE s == procs[p].server
           c == Session(procs[p].session.server, u)
<1>1. s \in Endpoints /\ OwnedBy(procs[p].session, s)
    BY DEF SInv, TasksOwned, CarriesOwn, Refresh
<1>2. UNCHANGED <<local, oldToken, oldLocal, loggedIn>>
    BY DEF Refresh
<1>3. TasksOwned'
    BY <1>2, GoneOn DEF Refresh
<1>4. CASE ~Refreshed(p, u)
    BY <1>2, <1>3, <1>4 DEF Refresh, SInv, FilesOwned, OldOwned, SentOwned, OwnedBy
<1>5. CASE Refreshed(p, u)
  <2>1. OwnedBy(c, s)
      BY <1>1, <1>5, SessionFields DEF Refreshed, OwnedBy
  <2>2. token' = [token EXCEPT ![s] = c] /\ sent' = [to |-> s, by |-> c]
      BY <1>5 DEF Refresh
  <2> HIDE DEF s, c
  <2>3. FilesOwned'
      BY <1>1, <1>2, <2>1, <2>2 DEF SInv, FilesOwned, OwnedBy
  <2>4. SentOwned'
      BY <1>1, <1>2, <2>1, <2>2 DEF SentOwned, OwnedBy
  <2> QED BY <1>2, <1>3, <2>3, <2>4 DEF SInv, OldOwned, OwnedBy
<1> QED BY <1>4, <1>5

LEMMA OutsideStep ==
    ASSUME SInv, \/ \E p \in Procs : Abort(p)
                 \/ \E s \in Endpoints : Expire(s) \/ Redeploy(s)
                 \/ UNCHANGED sessionVars
    PROVE  SInv'
<1>1. ASSUME NEW p \in Procs, Abort(p) PROVE SInv'
  <2>1. UNCHANGED <<token, local, oldToken, oldLocal, loggedIn, sent>>
      BY <1>1 DEF Abort, files
  <2>2. TasksOwned'
      BY <1>1, <2>1, GoneOn DEF Abort
  <2> QED BY <2>1, <2>2 DEF SInv, FilesOwned, OldOwned, SentOwned, OwnedBy
<1>2. ASSUME NEW s \in Endpoints, Expire(s) PROVE SInv'
  <2>1. OwnedBy(token[s], s) /\ token[s] \in Credential
      BY <1>2 DEF Expire, SInv, FilesOwned, OwnedBy
  <2>2. PICK c : c = [token[s] EXCEPT !.expired = TRUE]
      OBVIOUS
  <2>3. c \in Credential /\ c.server = token[s].server /\ c.principal = token[s].principal
      BY <2>1, <2>2 DEF Credential
  <2>4. token' = [token EXCEPT ![s] = c]
      BY <1>2, <2>2 DEF Expire
  <2>5. UNCHANGED <<local, oldToken, oldLocal, procs, loggedIn, sent>>
      BY <1>2 DEF Expire
  <2>6. FilesOwned'
      BY <2>1, <2>3, <2>4, <2>5 DEF SInv, FilesOwned, OwnedBy
  <2> QED BY <2>5, <2>6 DEF SInv, OldOwned, TasksOwned, CarriesOwn, SentOwned, OwnedBy
<1>3. CASE (\E s \in Endpoints : Redeploy(s)) \/ UNCHANGED sessionVars
  <2>1. UNCHANGED <<token, local, oldToken, oldLocal, procs, loggedIn, sent>>
      BY <1>3 DEF Redeploy, files, sessionVars
  <2> QED BY <2>1 DEF SInv, FilesOwned, OldOwned, TasksOwned, CarriesOwn, SentOwned, OwnedBy
<1> QED BY <1>1, <1>2, <1>3

\* However the logins, logouts, refreshes and requests of several processes
\* interleave, and whatever an older client left, a request carries a session of the
\* server it goes to and of somebody who logged in there (resolveRemoteSession,
\* persistTokenLogin, removeMatchingSession).
THEOREM SessionOwnCredential == SessionSpec => []OwnCredential
<1>1. ASSUME SInv, [SessionNext]_sessionVars PROVE SInv'
  <2>1. CASE \E p \in Procs, s \in Endpoints, u \in Users :
                TokenLogin(p, s, u) \/ LocalLogin(p, s, u) \/ WaitAuth(p, s, u)
      BY <1>1, <2>1, LoginStep
  <2>2. CASE \E p \in Procs, s \in Endpoints : StartAuth(p, s) \/ Logout(p, s)
      BY <1>1, <2>2, EntryStep
  <2>3. CASE \E p \in Procs : SaveToken(p) \/ SaveLocal(p) \/ DropLocal(p) \/ DropToken(p)
      BY <1>1, <2>3, SavedOwned, DroppedOwned
  <2>4. CASE \E p \in Procs, s \in Endpoints : SendRequest(p, s)
      BY <1>1, <2>4, RequestStep
  <2>5. CASE \E p \in Procs, u \in Users : Refresh(p, u)
      BY <1>1, <2>5, RefreshStep
  <2>6. CASE \/ \E p \in Procs : Abort(p)
             \/ \E s \in Endpoints : Expire(s) \/ Redeploy(s)
             \/ UNCHANGED sessionVars
      BY <1>1, <2>6, OutsideStep
  <2> QED BY <1>1, <2>1, <2>2, <2>3, <2>4, <2>5, <2>6 DEF SessionNext
<1>2. SInv => OwnCredential
    BY DEF SInv, SentOwned, OwnedBy, OwnCredential
<1> QED BY SessionInitial, <1>1, <1>2, PTL DEF SessionSpec

(***************************************************************************)
(* Connections: the backend a record was made for is never rewritten, and  *)
(* no operation is carried out without comparing it.                       *)
(***************************************************************************)
Binding == [owner : Owners, url : Urls, cred : Creds, backend : Nat, epoch : Nat,
            phase : {"CONNECTED", "READY"}, rev : Nat]

External == [backend : Nat, epoch : Nat, cred : Creds]

\* Every operation was carried out on the recorded backend of its identity.
TouchedRecorded ==
    \A t \in touched : t.id \in Ids /\ crec[t.id] # None /\ t.backend = crec[t.id].backend

BInv == /\ crec \in [Ids -> Binding \cup {None}]
        /\ remote \in [Urls -> External]
        /\ TouchedRecorded

\* A step that keeps the records made, each with its backend, and carries out nothing.
LEMMA RecordsKept ==
    ASSUME BInv, crec' \in [Ids -> Binding \cup {None}], remote' \in [Urls -> External],
           touched' = touched,
           \A i \in Ids : crec[i] # None => crec'[i] # None /\ crec'[i].backend = crec[i].backend
    PROVE  BInv'
BY DEF BInv, TouchedRecorded

LEMMA NoneUnbound == None \notin Binding
BY DEF None, Binding

\* What Finish leaves behind is a record of the backend it was given.
LEMMA Finished ==
    ASSUME BInv, NEW i \in Ids, NEW rec \in Binding, NEW stop, Finish(i, rec, stop)
    PROVE  /\ crec' \in [Ids -> Binding \cup {None}]
           /\ \A j \in Ids : j # i => crec'[j] = crec[j]
           /\ crec'[i] # None /\ crec'[i].backend = rec.backend
<1>1. PICK ready : ready = [rec EXCEPT !.phase = "READY", !.rev = @ + 1]
    OBVIOUS
<1>2. ready \in Binding /\ ready.backend = rec.backend
  <2>1. rec.rev + 1 \in Nat
      BY DEF Binding
  <2>2. PICK n \in Nat : n = rec.rev + 1
      BY <2>1
  <2>3. ready = [rec EXCEPT !.phase = "READY", !.rev = n]
      BY <1>1, <2>2
  <2> QED BY <2>3 DEF Binding
<1>3. crec' = [crec EXCEPT ![i] = rec] \/ crec' = [crec EXCEPT ![i] = ready]
    BY <1>1 DEF Finish
<1> QED BY <1>2, <1>3, NoneUnbound DEF BInv

LEMMA ConnectStep ==
    ASSUME BInv, NEW p \in Owners, NEW i \in Ids, NEW u \in Urls, NEW c \in Creds, NEW stop,
           ConnectNew(p, i, u, c, stop) \/ ConnectAgain(p, i, u, c, stop)
    PROVE  BInv'
<1>1. remote' = remote /\ touched' = touched
    BY DEF ConnectNew, ConnectAgain
<1>2. CASE ConnectNew(p, i, u, c, stop)
  <2>1. PICK rec : rec = Record(p, u, c, remote[u].backend, remote[u].epoch, "CONNECTED", 1)
      OBVIOUS
  <2>2. rec \in Binding
    <3>1. remote[u] \in External
        BY DEF BInv
    <3> QED BY <2>1, <3>1 DEF Record, Binding, External
  <2>3. crec[i] = None /\ Finish(i, rec, stop)
      BY <1>2, <2>1 DEF ConnectNew
  <2>4. /\ crec' \in [Ids -> Binding \cup {None}]
        /\ \A j \in Ids : j # i => crec'[j] = crec[j]
      BY <2>2, <2>3, Finished
  <2> QED BY <1>1, <2>3, <2>4, RecordsKept DEF BInv
<1>3. CASE ConnectAgain(p, i, u, c, stop)
  <2>1. crec[i] \in Binding /\ Finish(i, crec[i], stop)
      BY <1>3 DEF ConnectAgain, BInv
  <2>2. PICK rec \in Binding : rec = crec[i]
      BY <2>1
  <2>3. /\ crec' \in [Ids -> Binding \cup {None}]
        /\ \A j \in Ids : j # i => crec'[j] = crec[j]
        /\ crec'[i] # None /\ crec'[i].backend = rec.backend
      BY <2>1, <2>2, Finished
  <2> QED BY <1>1, <2>2, <2>3, RecordsKept DEF BInv
<1> QED BY <1>2, <1>3

LEMMA RotateStep ==
    ASSUME BInv, NEW i \in Ids, NEW c \in Creds, Rotate(i, c)
    PROVE  BInv'
<1>1. crec[i] \in Binding
    BY DEF Rotate, BInv
<1>2. PICK rec : rec = [crec[i] EXCEPT !.cred = c, !.rev = @ + 1]
    OBVIOUS
<1>3. rec \in Binding /\ rec.backend = crec[i].backend
  <2>1. crec[i].rev + 1 \in Nat
      BY <1>1 DEF Binding
  <2>2. PICK n \in Nat : n = crec[i].rev + 1
      BY <2>1
  <2>3. rec = [crec[i] EXCEPT !.cred = c, !.rev = n]
      BY <1>2, <2>2
  <2> QED BY <1>1, <2>3 DEF Binding
<1>4. crec' = [crec EXCEPT ![i] = rec] /\ remote' = remote /\ touched' = touched
    BY <1>2 DEF Rotate
<1> QED BY <1>3, <1>4, RecordsKept, NoneUnbound DEF BInv

\* The location may hold another repository by now: it is compared before it is used.
LEMMA UseStep ==
    ASSUME BInv, NEW i \in Ids, Use(i)
    PROVE  BInv'
<1>1. /\ UNCHANGED <<crec, remote>> /\ crec[i] # None
      /\ remote[crec[i].url].backend = crec[i].backend
      /\ touched' = touched \cup {[id |-> i, backend |-> remote[crec[i].url].backend]}
    BY DEF Use, Opens
<1> QED BY <1>1 DEF BInv, TouchedRecorded

LEMMA RemoteStep ==
    ASSUME BInv, NEW u \in Urls, ChangeRemote(u)
    PROVE  BInv'
<1>1. remote[u] \in External
    BY DEF BInv
<1>2. remote' = [v \in Urls |-> remote'[v]] /\ \A v \in Urls : v # u => remote'[v] = remote[v]
    BY DEF ChangeRemote, BInv
<1>3. remote'[u] \in External
  <2>1. remote[u].backend + 1 \in Nat /\ remote[u].epoch + 1 \in Nat
      BY <1>1 DEF External
  <2>2. PICK b \in Nat, e \in Nat : b = remote[u].backend + 1 /\ e = remote[u].epoch + 1
      BY <2>1
  <2>3. \/ remote'[u] = [backend |-> b, epoch |-> 1, cred |-> remote[u].cred]
        \/ remote'[u] = [backend |-> remote[u].backend, epoch |-> e, cred |-> remote[u].cred]
        \/ \E c \in Creds : remote'[u] = [backend |-> remote[u].backend, epoch |-> remote[u].epoch, cred |-> c]
      BY <1>1, <2>2 DEF ChangeRemote, BInv, External
  <2>4. remote[u].backend \in Nat /\ remote[u].epoch \in Nat /\ remote[u].cred \in Creds
      BY <1>1 DEF External
  <2>5. \A n, m \in Nat, c \in Creds : [backend |-> n, epoch |-> m, cred |-> c] \in External
      BY DEF External
  <2> QED BY <2>3, <2>4, <2>5
<1>4. remote' \in [Urls -> External]
    BY <1>2, <1>3 DEF BInv
<1>5. UNCHANGED <<crec, touched>>
    BY DEF ChangeRemote
<1> QED BY <1>4, <1>5, RecordsKept DEF BInv

\* Whatever happens to the external location, to credentials and to the process, all
\* operations through a connection are carried out on the repository it was connected
\* to (openConnectionRecord, RotateConnectionCredential, ConnectRepository).
THEOREM ConnectionOneAuthority == ConnectionSpec => []OneAuthority
<1>1. ConnectionInit => BInv
  <2> SUFFICES ASSUME ConnectionInit PROVE BInv
      OBVIOUS
  <2>1. (CHOOSE c \in Creds : TRUE) \in Creds
      BY SomeCredential
  <2>2. remote \in [Urls -> External]
      BY <2>1 DEF ConnectionInit, External
  <2> QED BY <2>2 DEF ConnectionInit, BInv, TouchedRecorded
<1>2. ASSUME BInv, [ConnectionNext]_connectionVars PROVE BInv'
  <2>1. CASE \E p \in Owners, i \in Ids, u \in Urls, c \in Creds, stop \in Stops :
                ConnectNew(p, i, u, c, stop) \/ ConnectAgain(p, i, u, c, stop)
      BY <1>2, <2>1, ConnectStep
  <2>2. CASE \E i \in Ids, c \in Creds : Rotate(i, c)
      BY <1>2, <2>2, RotateStep
  <2>3. CASE \E i \in Ids : Use(i)
      BY <1>2, <2>3, UseStep
  <2>4. CASE \E u \in Urls : ChangeRemote(u)
      BY <1>2, <2>4, RemoteStep
  <2>5. CASE \/ \E i \in Ids : Attach(i) \/ \E stop \in Stops : CreateManaged(i, stop)
             \/ \E x \in grants : Revoke(x)
             \/ Stop \/ OpenDeployment \/ UNCHANGED connectionVars
    <3>1. UNCHANGED <<crec, remote, touched>>
        BY <2>5 DEF Attach, CreateManaged, Revoke, Stop, OpenDeployment, connectionVars
    <3> QED BY <1>2, <3>1 DEF BInv, TouchedRecorded
  <2> QED BY <1>2, <2>1, <2>2, <2>3, <2>4, <2>5 DEF ConnectionNext
<1>3. BInv => OneAuthority
    BY DEF BInv, TouchedRecorded, OneAuthority
<1> QED BY <1>1, <1>2, <1>3, PTL DEF ConnectionSpec

(***************************************************************************)
(* The evidence: what is acknowledged survives every call that migrates,   *)
(* prunes or dies meanwhile.  Who moves the old file carries what it has   *)
(* not copied yet, who passed the check of the cap counts as a line, and a *)
(* walk has shown all that is not older than the last entry of its last    *)
(* page.                                                                   *)
(***************************************************************************)
EvidenceLine == [id : Nat, stream : Streams, at : Nat, label : Labels, copy : Nat]

EvidenceCall ==
    [kind : {"none", "page", "done", "failed"}] \cup [kind : {"record"}, event : Event]
      \cup [kind : {"samples", "labels"}, refines : SUBSET EvidenceLine]

EvidenceTypeOK ==
    /\ now \in Nat \ {0} /\ moves \in Nat /\ topic \in {"access", "feedback"}
    /\ legacy \in SUBSET Inherited /\ lines \in SUBSET EvidenceLine /\ IsFiniteSet(lines)
    /\ pc \in [Callers -> {"idle", "migrate", "moving", "prune", "quota", "append", "read"}]
    /\ calls \in [Callers -> EvidenceCall] /\ carry \in [Callers -> SUBSET Inherited]
    /\ acked \in SUBSET Event /\ owed \in SUBSET acked

\* A recorder appends what it was given; the auditor only reads.  Who is past the
\* migration found the old file empty, or emptied it.
CallsFit ==
    /\ \A c \in Callers \ {Auditor} :
         /\ calls[c].kind \in {"none", "record"} /\ pc[c] # "read"
         /\ pc[c] # "idle" => calls[c].kind = "record"
    /\ pc[Auditor] \notin {"quota", "append"}
    /\ pc[Auditor] # "idle" => calls[Auditor].kind \in {"page", "samples", "labels"}
    /\ calls[Auditor].kind \in IF topic = "access" THEN {"none", "page", "done", "failed"}
                               ELSE {"none", "samples", "labels", "done", "failed"}
    /\ \A c \in Callers : pc[c] \in {"prune", "quota", "append", "read"} => legacy = {}
    /\ topic = "feedback" => legacy = {} /\ \A c \in Callers : pc[c] # "moving"

Asked == {calls[c].event : c \in {d \in Callers : calls[d].kind = "record"}}

Known == acked \cup {EventOf(l) : l \in lines} \cup Asked

EventsFit ==
    /\ \A e \in Known :
         IF topic = "access" THEN e.stream = "access"
         ELSE e.stream = "refine" \/ (e.stream = "feedback" /\ e.at >= Refinement.at)
    /\ topic = "access" => Inherited \subseteq acked /\ \A e, f \in Known : e.id = f.id => e = f
    /\ \A e \in Asked : e \notin Inherited /\ e.stream = topic

\* A caller that moves has copied what it no longer carries.
Carried ==
    \A c \in Callers : pc[c] = "moving" =>
      \A e \in legacy : e \notin carry[c] /\ Retained(e) => Copies(e) # {}

Movers(e) == {c \in Callers : pc[c] = "moving" /\ e \in carry[c]}

\* Each migration copies an inherited event once at most.
CopiesCounted ==
    /\ \A e \in Inherited : Cardinality(Copies(e)) + Cardinality(Movers(e)) <= moves
    /\ Once

Recorded == {l \in lines : l.stream = topic /\ EventOf(l) \notin Inherited}

Appending == {c \in Callers : pc[c] = "append"}

\* Whoever passed the check counts as a line of its own.
Capped ==
    Cardinality(Recorded) + Cardinality(Appending) <= Cap + Cardinality(Callers \ {Auditor}) - 1

ShownOrOlder(e) == Shown(e) \/ Older(e, Oldest(walk[Len(walk)]))

\* Each page begins with its oldest entry, and the walk has shown all that is owed
\* down to the last one.
WalkInv ==
    /\ walk \in Seq(SUBSET EvidenceLine)
    /\ \A i \in DOMAIN walk :
         /\ Oldest(walk[i]) \in walk[i]
         /\ \A l \in walk[i] : Oldest(walk[i]) = l \/ LineOlder(Oldest(walk[i]), l)
    /\ calls[Auditor].kind = "none" => walk = <<>>
    /\ calls[Auditor].kind = "page" /\ walk # <<>> => \A e \in owed : e.at >= HotSince => ShownOrOlder(e)
    /\ WalkComplete

SampleInv ==
    /\ calls[Auditor].kind \in {"samples", "labels"} => \A e \in owed : e.stream = "feedback"
    /\ verdict # "none" => calls[Auditor].kind = "done"
    /\ SampleSound

EvidenceInv ==
    /\ EvidenceTypeOK /\ CallsFit /\ EventsFit /\ Kept /\ Carried /\ CopiesCounted /\ Capped
    /\ WalkInv /\ SampleInv

LEMMA QuotientMonotone ==
    ASSUME NEW d \in Nat \ {0}, NEW m \in Nat, NEW n \in Nat, m <= n
    PROVE  m \div d \in Nat /\ n \div d \in Nat /\ m \div d <= n \div d
<1> DEFINE q == m \div d  r == n \div d
<1>1. q \in Int /\ d * q <= m /\ m < d * q + d
    OBVIOUS
<1>2. r \in Int /\ d * r <= n /\ n < d * r + d
    OBVIOUS
<1> HIDE DEF q, r
<1>3. q <= r
  <2> SUFFICES ASSUME r + 1 <= q PROVE FALSE
      BY <1>1, <1>2
  <2>1. d * (r + 1) <= d * q
      BY <1>1, <1>2
  <2>2. d * (r + 1) = d * r + d
      BY <1>2
  <2> QED BY <2>1, <2>2, <1>1, <1>2
<1>4. q >= 0 /\ r >= 0
  <2>1. ASSUME NEW p \in Int, NEW k \in Nat, k < d * p + d PROVE p >= 0
    <3> SUFFICES ASSUME p + 1 <= 0 PROVE FALSE
        BY <2>1
    <3>1. d * (p + 1) <= 0
        OBVIOUS
    <3>2. d * (p + 1) = d * p + d
        OBVIOUS
    <3> QED BY <3>1, <3>2, <2>1
  <2> QED BY <2>1, <1>1, <1>2
<1> QED BY <1>1, <1>2, <1>3, <1>4 DEF q, r

\* A finite set has an element that no other is before, in any order.
LEMMA FirstOfOrder ==
    ASSUME NEW S, IsFiniteSet(S), S # {}, NEW before,
           \A a, b, c \in S : <<a, b>> \in before /\ <<b, c>> \in before => <<a, c>> \in before,
           \A a \in S : <<a, a>> \notin before
    PROVE  \E m \in S : \A k \in S : <<k, m>> \notin before
<1> DEFINE Below(m) == {k \in S : <<k, m>> \in before}
           less == OpToRel(<, Nat)
           sizes == {Cardinality(Below(m)) : m \in S}
<1>1. \A m \in S : IsFiniteSet(Below(m)) /\ Cardinality(Below(m)) \in Nat
    BY FS_Subset, FS_CardinalityType
<1>2. sizes \subseteq Nat /\ sizes # {}
  <2>1. PICK m \in S : TRUE
      OBVIOUS
  <2>2. Cardinality(Below(m)) \in sizes
      BY <2>1
  <2>3. ASSUME NEW i \in sizes PROVE i \in Nat
    <3>1. PICK a \in S : i = Cardinality(Below(a))
        BY <2>3
    <3> HIDE DEF Below
    <3> QED BY <3>1, <1>1
  <2> QED BY <2>2, <2>3
<1>3. IsWellFoundedOn(less, Nat)
    BY NatLessThanWellFounded
<1>4. \A i, j \in Nat : i < j => <<i, j>> \in less
    BY DEF OpToRel
<1> HIDE DEF less, sizes
<1>5. PICK n \in sizes : \A k \in sizes : <<k, n>> \notin less
    BY <1>2, <1>3, WFMin
<1>6. PICK m \in S : n = Cardinality(Below(m))
    BY <1>5 DEF sizes
<1>7. ASSUME NEW k \in S, <<k, m>> \in before PROVE FALSE
  <2>1. Below(k) \subseteq Below(m) /\ k \in Below(m) /\ k \notin Below(k)
      BY <1>7
  <2>2. Cardinality(Below(k)) < Cardinality(Below(m))
    <3> HIDE DEF Below
    <3>1. IsFiniteSet(Below(m)) /\ Below(k) \in SUBSET Below(m) /\ Below(k) # Below(m)
        BY <2>1, <1>1
    <3>2. Cardinality(Below(k)) <= Cardinality(Below(m)) /\ Cardinality(Below(k)) # Cardinality(Below(m))
        BY <3>1, FS_Subset
    <3> QED BY <3>2, <1>1
  <2>3. Cardinality(Below(k)) \in sizes
      BY DEF sizes
  <2> QED BY <2>2, <2>3, <1>1, <1>4, <1>5, <1>6
<1> QED BY <1>7

LEMMA StoreTypes ==
    ASSUME EvidenceTypeOK
    PROVE  /\ now \in Nat /\ HotSince \in Nat /\ CutoffDay \in Nat /\ CutoffDay = Day(HotSince)
           /\ \A t \in Nat : Day(t) \in Nat /\ (t >= HotSince => Day(t) >= CutoffDay)
           /\ \A s, t \in Nat : s <= t => Day(s) <= Day(t)
<1>1. now \in Nat /\ HotSince \in Nat /\ DayTicks \in Nat \ {0}
    BY EvidenceAssumption DEF EvidenceTypeOK, HotSince, Monus
<1>2. \A s, t \in Nat : s <= t => Day(s) \in Nat /\ Day(t) \in Nat /\ Day(s) <= Day(t)
    BY <1>1, QuotientMonotone DEF Day
<1>3. \A t \in Nat : Day(t) \in Nat
    BY <1>2
<1> QED BY <1>1, <1>2, <1>3 DEF CutoffDay

LEMMA FirstMoved ==
    ASSUME EvidenceTypeOK, NEW c \in Callers, carry[c] # {}
    PROVE  (CHOOSE f \in carry[c] : \A g \in carry[c] : f.id <= g.id) \in carry[c]
<1> DEFINE S == carry[c]
           before == {w \in S \X S : w[1].id < w[2].id}
<1>1. S \subseteq Event /\ IsFiniteSet(S)
    BY EvidenceAssumption, FS_Subset DEF EvidenceTypeOK
<1>2. \A f \in S : f.id \in Nat
    BY <1>1 DEF Event
<1>3. \A f, g \in S : <<f, g>> \in before <=> f.id < g.id
    OBVIOUS
<1>4. /\ \A e, f, g \in S : <<e, f>> \in before /\ <<f, g>> \in before => <<e, g>> \in before
      /\ \A e \in S : <<e, e>> \notin before
    BY <1>2, <1>3
<1> HIDE DEF before
<1>5. PICK f \in S : \A g \in S : <<g, f>> \notin before
    BY <1>1, <1>4, FirstOfOrder
<1>6. ASSUME NEW g \in S PROVE f.id <= g.id
  <2>1. f.id \in Nat /\ g.id \in Nat
      BY <1>2
  <2>2. ~(g.id < f.id)
      BY <1>3, <1>5
  <2> QED BY <2>1, <2>2
<1> QED BY <1>6

\* The lines of different events are never at the same place of the order.
LineIds(found) == \A k, l \in found : k.id = l.id => EventOf(k) = EventOf(l)

LEMMA LineOrder ==
    ASSUME NEW found \in SUBSET EvidenceLine, LineIds(found)
    PROVE  /\ \A l \in found : ~LineOlder(l, l)
           /\ \A k, l, m \in found : LineOlder(k, l) /\ LineOlder(l, m) => LineOlder(k, m)
           /\ \A k, l \in found : k = l \/ LineOlder(k, l) \/ LineOlder(l, k)
<1>1. \A l \in found : /\ l.id \in Nat /\ l.at \in Nat /\ l.copy \in Nat
                       /\ l = Line(EventOf(l), l.copy)
                       /\ EventOf(l).id = l.id /\ EventOf(l).at = l.at
    BY DEF EvidenceLine, Line, EventOf
<1>2. \A k, l \in found : EventOf(k) = EventOf(l) /\ k.copy = l.copy => k = l
    BY <1>1
<1>3. \A k, l \in found : k.id = l.id <=> EventOf(k) = EventOf(l)
    BY <1>1 DEF LineIds
<1>4. \A k, l \in found : EventOf(k) = EventOf(l) => k.at = l.at
    BY <1>1
<1> HIDE DEF EventOf
<1>5. \A l \in found : ~LineOlder(l, l)
    BY <1>1 DEF LineOlder, Older
<1>6. \A k, l, m \in found : LineOlder(k, l) /\ LineOlder(l, m) => LineOlder(k, m)
    BY <1>1, <1>3, <1>4 DEF LineOlder, Older
<1>7. \A k, l \in found : k = l \/ LineOlder(k, l) \/ LineOlder(l, k)
    BY <1>1, <1>2, <1>3, <1>4 DEF LineOlder, Older
<1> QED BY <1>5, <1>6, <1>7

\* A page holds its oldest entry, and what is not on it is older than that.
LEMMA PageOrder ==
    ASSUME NEW found \in SUBSET EvidenceLine, LineIds(found), IsFiniteSet(found), found # {},
           PageLimit \in Nat \ {0}, NEW page, page = Newest(found)
    PROVE  /\ page \subseteq found /\ Oldest(page) \in page
           /\ \A l \in page : Oldest(page) = l \/ LineOlder(Oldest(page), l)
           /\ \A l \in found \ page : LineOlder(l, Oldest(page))
           /\ Cardinality(found) <= PageLimit => page = found
<1> DEFINE Above(l) == {m \in found : LineOlder(l, m)}
           after == {w \in found \X found : LineOlder(w[2], w[1])}
           before == {w \in found \X found : LineOlder(w[1], w[2])}
<1>1. \A l \in found : Above(l) \subseteq found /\ IsFiniteSet(Above(l)) /\ Cardinality(Above(l)) \in Nat
    BY FS_Subset, FS_CardinalityType
<1>2. \A l \in found : l \in page <=> Cardinality(Above(l)) < PageLimit
    BY DEF Newest
<1>3. page \subseteq found /\ IsFiniteSet(page)
    BY FS_Subset DEF Newest
<1>4. /\ \A k, l \in found : <<k, l>> \in after <=> LineOlder(l, k)
      /\ \A k, l \in found : <<k, l>> \in before <=> LineOlder(k, l)
    OBVIOUS
<1> HIDE DEF after, before
<1>5. page # {}
  <2>1. /\ \A j, k, l \in found : <<j, k>> \in after /\ <<k, l>> \in after => <<j, l>> \in after
        /\ \A l \in found : <<l, l>> \notin after
      BY <1>4, LineOrder
  <2>2. PICK m \in found : \A k \in found : <<k, m>> \notin after
      BY <2>1, FirstOfOrder
  <2>3. Above(m) = {}
      BY <2>2, <1>4
  <2>4. Cardinality(Above(m)) = 0
      BY <2>3, FS_EmptySet
  <2> QED BY <2>4, <1>2
<1>6. PICK o \in page : \A k \in page : <<k, o>> \notin before
  <2>1. /\ \A j, k, l \in page : <<j, k>> \in before /\ <<k, l>> \in before => <<j, l>> \in before
        /\ \A l \in page : <<l, l>> \notin before
      BY <1>3, <1>4, LineOrder
  <2> QED BY <2>1, <1>3, <1>5, FirstOfOrder
<1>7. \A l \in page : o = l \/ LineOlder(o, l)
    BY <1>3, <1>4, <1>6, LineOrder
<1>8. Oldest(page) \in page /\ \A l \in page : Oldest(page) = l \/ LineOlder(Oldest(page), l)
    BY <1>7 DEF Oldest
<1>9. ASSUME NEW l \in found \ page PROVE LineOlder(l, Oldest(page))
  <2> DEFINE b == Oldest(page)
  <2>1. b \in found /\ b \in page /\ b # l
      BY <1>3, <1>8
  <2> HIDE DEF b
  <2>2. SUFFICES ASSUME LineOlder(b, l) PROVE FALSE
      BY <2>1, LineOrder DEF b
  <2>3. Above(l) \subseteq Above(b)
      BY <2>1, <2>2, LineOrder
  <2>4. Cardinality(Above(l)) <= Cardinality(Above(b))
    <3> HIDE DEF Above
    <3> QED BY <2>1, <2>3, <1>1, FS_Subset
  <2>5. Cardinality(Above(l)) \in Nat /\ Cardinality(Above(b)) < PageLimit /\ Cardinality(Above(b)) \in Nat
      BY <1>1, <1>2, <2>1
  <2> HIDE DEF Above
  <2> QED BY <2>4, <2>5, <1>2
<1>10. ASSUME Cardinality(found) <= PageLimit, NEW l \in found PROVE l \in page
  <2>1. l \notin Above(l)
      BY LineOrder
  <2> HIDE DEF Above
  <2>2. Above(l) # found /\ Above(l) \in SUBSET found
      BY <2>1, <1>1
  <2>3. Cardinality(Above(l)) <= Cardinality(found) /\ Cardinality(Above(l)) # Cardinality(found)
      BY <2>2, FS_Subset
  <2>4. Cardinality(found) \in Nat
      BY FS_CardinalityType
  <2> QED BY <2>3, <2>4, <1>1, <1>2, <1>10
<1> QED BY <1>3, <1>8, <1>9, <1>10

LEMMA LinesOfEvents ==
    /\ \A e \in Event, n \in Nat :
         /\ Line(e, n) \in EvidenceLine /\ EventOf(Line(e, n)) = e /\ Line(e, n).copy = n
         /\ Line(e, n).id = e.id /\ Line(e, n).at = e.at /\ Line(e, n).stream = e.stream
    /\ \A l \in EvidenceLine :
         /\ EventOf(l) \in Event /\ EventOf(l).id = l.id /\ EventOf(l).at = l.at
         /\ EventOf(l).stream = l.stream /\ EventOf(l).label = l.label
BY DEF Event, EvidenceLine, Line, EventOf

LEMMA CopiesFinite ==
    ASSUME EvidenceTypeOK
    PROVE  \A e : IsFiniteSet(Copies(e)) /\ Cardinality(Copies(e)) \in Nat
<1> TAKE e
<1>1. Copies(e) \in SUBSET lines /\ IsFiniteSet(lines)
    BY DEF EvidenceTypeOK, Copies
<1> QED BY <1>1, FS_Subset, FS_CardinalityType

LEMMA StoreTypesHold ==
    ASSUME EvidenceTypeOK, CallsFit, EvidenceNext
    PROVE  EvidenceTypeOK'
<1>1. CASE Tick
    BY <1>1 DEF EvidenceTypeOK, Tick
<1>2. ASSUME AskPage \/ AskSamples \/ Access \/ Refine \/ RerankTrainingSamples PROVE EvidenceTypeOK'
  <2>1. Auditor \in Callers
      BY EvidenceAssumption
  <2>2. /\ now' = now /\ moves' = moves /\ topic' = topic /\ legacy' = legacy /\ lines' = lines
        /\ carry' = carry /\ acked' = acked
      BY <1>2 DEF AskPage, AskSamples, Access, Refine, RerankTrainingSamples
  <2>3. \E k \in EvidenceCall : calls' = [calls EXCEPT ![Auditor] = k]
    <3>1. {l \in lines : l.stream = "refine"} \in SUBSET EvidenceLine
        BY DEF EvidenceTypeOK
    <3> QED BY <1>2, <3>1
            DEF EvidenceCall, AskPage, AskSamples, Access, Refine, RerankTrainingSamples
  <2>4. \E q \in {"idle", "migrate"} : pc' = [pc EXCEPT ![Auditor] = q]
      BY <1>2 DEF AskPage, AskSamples, Access, Refine, RerankTrainingSamples, To
  <2>5. owed' \in SUBSET acked
      BY <1>2 DEF EvidenceTypeOK, AskPage, AskSamples, Access, Refine, RerankTrainingSamples
  <2> QED BY <2>1, <2>2, <2>3, <2>4, <2>5 DEF EvidenceTypeOK
<1>3. ASSUME NEW c \in Callers, RecordEvent(c) PROVE EvidenceTypeOK'
  <2>1. PICK id \in Fresh, label \in Labels :
          calls' = [calls EXCEPT ![c] = [kind |-> "record",
                      event |-> [id |-> id, stream |-> topic, at |-> now, label |-> label]]]
      BY <1>3 DEF RecordEvent, Labels
  <2>2. [id |-> id, stream |-> topic, at |-> now, label |-> label] \in Event
      BY EvidenceAssumption DEF EvidenceTypeOK, Event, Fresh, Streams
  <2> QED BY <1>3, <2>1, <2>2 DEF EvidenceTypeOK, EvidenceCall, RecordEvent, To
<1>4. ASSUME NEW c \in Callers, Migrate(c) PROVE EvidenceTypeOK'
    BY <1>4 DEF EvidenceTypeOK, Migrate, To
<1>5. ASSUME NEW c \in Callers, Move(c) PROVE EvidenceTypeOK'
  <2>1. CASE carry[c] = {}
      BY <1>5, <2>1 DEF EvidenceTypeOK, Move, To
  <2>2. CASE carry[c] # {}
    <3> DEFINE e == CHOOSE f \in carry[c] : \A g \in carry[c] : f.id <= g.id
    <3>1. e \in carry[c]
        BY <2>2, FirstMoved
    <3>2. /\ lines' = lines \cup {Line(e, Cardinality(Copies(e)))}
          /\ carry' = [carry EXCEPT ![c] = @ \ {e}]
          /\ UNCHANGED <<legacy, pc, now, crashes, topic, spoiled, calls, moves, acked, walk, owed, verdict>>
        BY <1>5, <2>2 DEF Move
    <3> HIDE DEF e
    <3>3. e \in Inherited /\ e \in Event
        BY <3>1, EvidenceAssumption DEF EvidenceTypeOK
    <3>4. Line(e, Cardinality(Copies(e))) \in EvidenceLine
        BY <3>3, LinesOfEvents, CopiesFinite
    <3>5. lines' \in SUBSET EvidenceLine /\ IsFiniteSet(lines')
        BY <3>2, <3>4, FS_AddElement DEF EvidenceTypeOK
    <3> QED BY <3>2, <3>5 DEF EvidenceTypeOK
  <2> QED BY <2>1, <2>2
<1>6. ASSUME NEW c \in Callers, Prune(c) PROVE EvidenceTypeOK'
  <2>1. lines' \subseteq lines
      BY <1>6 DEF Prune, Dropped
  <2>2. IsFiniteSet(lines') /\ lines' \in SUBSET EvidenceLine
      BY <2>1, FS_Subset DEF EvidenceTypeOK
  <2> QED BY <1>6, <2>2 DEF EvidenceTypeOK, Prune, To
<1>7. ASSUME NEW c \in Callers, EnforceQuota(c) \/ Crash(c) PROVE EvidenceTypeOK'
    BY <1>7 DEF EvidenceTypeOK, EnforceQuota, Crash, Leave, To, NoCall, EvidenceCall
<1>8. ASSUME NEW c \in Callers, AppendEvent(c) PROVE EvidenceTypeOK'
  <2>1. calls[c].kind = "record" /\ c # Auditor
      BY <1>8 DEF AppendEvent, CallsFit
  <2>2. calls[c].event \in Event
      BY <2>1 DEF EvidenceTypeOK, EvidenceCall
  <2>3. Line(calls[c].event, 0) \in EvidenceLine
      BY <2>2, LinesOfEvents
  <2>4. lines' \in SUBSET EvidenceLine /\ IsFiniteSet(lines')
      BY <1>8, <2>3, FS_AddElement DEF EvidenceTypeOK, AppendEvent
  <2>5. acked' \in SUBSET Event /\ acked \subseteq acked'
      BY <1>8, <2>2 DEF EvidenceTypeOK, AppendEvent
  <2> QED BY <1>8, <2>4, <2>5 DEF EvidenceTypeOK, AppendEvent, Leave, To, NoCall, EvidenceCall
<1> QED BY <1>1, <1>2, <1>3, <1>4, <1>5, <1>6, <1>7, <1>8 DEF EvidenceNext

LEMMA CallsStayFit ==
    ASSUME EvidenceTypeOK, CallsFit, EventsFit, EvidenceNext
    PROVE  CallsFit'
<1>1. CASE Tick
    BY <1>1 DEF CallsFit, Tick
<1>2. ASSUME AskPage \/ AskSamples \/ Access \/ Refine \/ RerankTrainingSamples PROVE CallsFit'
    BY <1>2 DEF EvidenceTypeOK, CallsFit, AskPage, AskSamples, Access, Refine, RerankTrainingSamples, To
<1>3. ASSUME NEW c \in Callers, RecordEvent(c) PROVE CallsFit'
    BY <1>3 DEF EvidenceTypeOK, CallsFit, RecordEvent, To
<1>4. ASSUME NEW c \in Callers, Migrate(c) PROVE CallsFit'
  <2>1. UNCHANGED <<legacy, topic, calls>> /\ pc' = [pc EXCEPT ![c] = "moving"]
      BY <1>4 DEF Migrate, To
  <2>2. pc[c] = "migrate" /\ legacy # {}
      BY <1>4 DEF Migrate, NothingToMove
  <2>3. topic = "access"
      BY <2>2 DEF CallsFit, EvidenceTypeOK
  <2> QED BY <2>1, <2>2, <2>3 DEF EvidenceTypeOK, CallsFit
<1>5. ASSUME NEW c \in Callers, Move(c) PROVE CallsFit'
  <2>1. CASE carry[c] = {}
    <3>1. UNCHANGED <<topic, calls>> /\ legacy' = {} /\ pc' = [pc EXCEPT ![c] = "prune"]
        BY <1>5, <2>1 DEF Move, To
    <3>2. pc[c] = "moving"
        BY <1>5 DEF Move
    <3> QED BY <3>1, <3>2 DEF EvidenceTypeOK, CallsFit
  <2>2. CASE carry[c] # {}
    <3>1. UNCHANGED <<legacy, pc, calls, topic>>
        BY <1>5, <2>2 DEF Move
    <3> QED BY <3>1 DEF CallsFit
  <2> QED BY <2>1, <2>2
<1>6. ASSUME NEW c \in Callers, Prune(c) PROVE CallsFit'
  <2>1. legacy = {}
    <3>1. CASE pc[c] = "prune"
        BY <3>1 DEF CallsFit
    <3>2. CASE pc[c] = "migrate" /\ NothingToMove(c) /\ topic = "access"
      <4>1. CASE c = Auditor
          BY <3>2, <4>1 DEF NothingToMove, StreamOf, CallsFit
      <4>2. CASE c # Auditor
        <5>1. calls[c].kind = "record"
            BY <3>2, <4>2 DEF CallsFit
        <5>2. calls[c].event.stream = "access"
            BY <3>2, <5>1 DEF EventsFit, Asked
        <5> QED BY <3>2, <5>1, <5>2 DEF NothingToMove, StreamOf
      <4> QED BY <4>1, <4>2
    <3>3. CASE topic = "feedback"
        BY <3>3 DEF CallsFit
    <3> QED BY <1>6, <3>1, <3>2, <3>3 DEF Prune, EvidenceTypeOK
  <2> QED BY <1>6, <2>1 DEF EvidenceTypeOK, CallsFit, Prune, To
<1>7. ASSUME NEW c \in Callers, EnforceQuota(c) \/ Crash(c) PROVE CallsFit'
  <2>1. c # Auditor
      BY <1>7 DEF CallsFit, EnforceQuota, Crash
  <2>2. UNCHANGED <<legacy, topic>>
      BY <1>7 DEF EnforceQuota, Crash
  <2>3. \/ pc[c] = "quota" /\ pc' = [pc EXCEPT ![c] = "append"] /\ calls' = calls
        \/ pc' = [pc EXCEPT ![c] = "idle"] /\ calls' = [calls EXCEPT ![c] = NoCall]
      BY <1>7 DEF EnforceQuota, Crash, Leave, To
  <2>4. CASE pc[c] = "quota" /\ pc' = [pc EXCEPT ![c] = "append"] /\ calls' = calls
      BY <2>1, <2>2, <2>4 DEF EvidenceTypeOK, CallsFit
  <2>5. CASE pc' = [pc EXCEPT ![c] = "idle"] /\ calls' = [calls EXCEPT ![c] = NoCall]
      BY <2>1, <2>2, <2>5 DEF EvidenceTypeOK, CallsFit, NoCall
  <2> QED BY <2>3, <2>4, <2>5
<1>8. ASSUME NEW c \in Callers, AppendEvent(c) PROVE CallsFit'
    BY <1>8 DEF EvidenceTypeOK, CallsFit, AppendEvent, Leave, To, NoCall
<1> QED BY <1>1, <1>2, <1>3, <1>4, <1>5, <1>6, <1>7, <1>8 DEF EvidenceNext

LEMMA EventsStayFit ==
    ASSUME EvidenceTypeOK, CallsFit, EventsFit, EvidenceNext
    PROVE  EventsFit'
<1>1. ASSUME Known' \subseteq Known, Asked' \subseteq Asked, acked \subseteq acked', topic' = topic
      PROVE  EventsFit'
    BY <1>1 DEF EventsFit
<1>2. topic' = topic /\ acked \subseteq acked'
    BY DEF EvidenceNext, Tick, AskPage, AskSamples, Access, Refine, RerankTrainingSamples, RecordEvent,
           Migrate, Move, Prune, EnforceQuota, AppendEvent, Crash
<1>3. ASSUME Tick \/ AskPage \/ AskSamples \/ Access \/ Refine \/ RerankTrainingSamples
      PROVE  EventsFit'
  <2>1. Asked' \subseteq Asked
      BY <1>3 DEF EvidenceTypeOK, Asked, Tick, AskPage, AskSamples, Access, Refine, RerankTrainingSamples
  <2>2. lines' = lines /\ acked' = acked
      BY <1>3 DEF Tick, AskPage, AskSamples, Access, Refine, RerankTrainingSamples
  <2>3. Known' \subseteq Known
      BY <2>1, <2>2 DEF Known
  <2> QED BY <2>1, <2>3, <1>1, <1>2
<1>4. ASSUME NEW c \in Callers, RecordEvent(c) PROVE EventsFit'
  <2>1. PICK id \in Fresh, label \in Labels :
          calls' = [calls EXCEPT ![c] = [kind |-> "record",
                      event |-> [id |-> id, stream |-> topic, at |-> now, label |-> label]]]
      BY <1>4 DEF RecordEvent, Labels
  <2> DEFINE e == [id |-> id, stream |-> topic, at |-> now, label |-> label]
  <2>2. e.id = id /\ e.stream = topic /\ e.at = now
      OBVIOUS
  <2>3. Asked' \subseteq Asked \cup {e}
      BY <2>1 DEF EvidenceTypeOK, Asked
  <2>4. acked' = acked /\ lines' = lines
      BY <1>4 DEF RecordEvent
  <2>5. \A f \in Known : f.id # id
    <3>1. \A l \in lines : EventOf(l).id = l.id
        BY DEF EventOf
    <3> QED BY <3>1 DEF Known, Fresh, Taken, Asked
  <2> HIDE DEF e
  <2>6. Known' \subseteq Known \cup {e}
      BY <2>3, <2>4 DEF Known
  <2>7. topic = "feedback" => e.at >= Refinement.at
      BY <2>2, EvidenceAssumption DEF EvidenceTypeOK, Event
  <2>8. e \notin Inherited
    <3>1. CASE topic = "access"
      <4>1. Inherited \subseteq Known
          BY <3>1 DEF EventsFit, Known
      <4> QED BY <4>1, <2>2, <2>5
    <3>2. CASE topic = "feedback"
        BY <3>2, <2>2, EvidenceAssumption
    <3> QED BY <3>1, <3>2 DEF EvidenceTypeOK
  <2>9. topic \in {"access", "feedback"}
      BY DEF EvidenceTypeOK
  <2>10. \A f \in Asked' : f \notin Inherited /\ f.stream = topic
      BY <2>2, <2>3, <2>8 DEF EventsFit
  <2>11. \A f \in Known' : IF topic = "access" THEN f.stream = "access"
                           ELSE f.stream = "refine" \/ (f.stream = "feedback" /\ f.at >= Refinement.at)
      BY <2>2, <2>6, <2>7, <2>9 DEF EventsFit
  <2>12. topic = "access" => Inherited \subseteq acked' /\ \A f, g \in Known' : f.id = g.id => f = g
      BY <2>2, <2>4, <2>5, <2>6 DEF EventsFit
  <2> QED BY <2>10, <2>11, <2>12, <1>2 DEF EventsFit
<1>5. ASSUME NEW c \in Callers, Migrate(c) PROVE EventsFit'
  <2>1. Asked' = Asked /\ Known' = Known
      BY <1>5 DEF Migrate, Asked, Known
  <2> QED BY <2>1, <1>1, <1>2
<1>6. ASSUME NEW c \in Callers, Move(c) PROVE EventsFit'
  <2>1. Asked' = Asked /\ acked' = acked
      BY <1>6 DEF Move, Asked
  <2>2. CASE carry[c] = {}
      BY <1>6, <2>1, <2>2, <1>1, <1>2 DEF Move, Known
  <2>3. CASE carry[c] # {}
    <3> DEFINE e == CHOOSE f \in carry[c] : \A g \in carry[c] : f.id <= g.id
    <3>1. e \in carry[c]
        BY <2>3, FirstMoved
    <3>2. lines' = lines \cup {Line(e, Cardinality(Copies(e)))}
        BY <1>6, <2>3 DEF Move
    <3> HIDE DEF e
    <3>3. e \in Inherited /\ e \in Event /\ Cardinality(Copies(e)) \in Nat
        BY <3>1, EvidenceAssumption, CopiesFinite DEF EvidenceTypeOK
    <3>4. EventOf(Line(e, Cardinality(Copies(e)))) = e
        BY <3>3, LinesOfEvents
    <3>5. e \in acked
      <4>1. topic = "access"
          BY <1>6 DEF EvidenceTypeOK, Move, CallsFit
      <4> QED BY <4>1, <3>3 DEF EventsFit
    <3>6. Known' \subseteq Known
        BY <2>1, <3>2, <3>4, <3>5 DEF Known
    <3> QED BY <3>6, <2>1, <1>1, <1>2
  <2> QED BY <2>2, <2>3
<1>7. ASSUME NEW c \in Callers, Prune(c) PROVE EventsFit'
  <2>1. Asked' = Asked /\ acked' = acked /\ lines' \subseteq lines
      BY <1>7 DEF Prune, Dropped, Asked
  <2> QED BY <2>1, <1>1, <1>2 DEF Known
<1>8. ASSUME NEW c \in Callers, EnforceQuota(c) \/ Crash(c) PROVE EventsFit'
  <2>1. calls' = calls \/ calls' = [calls EXCEPT ![c] = NoCall]
      BY <1>8 DEF EnforceQuota, Crash, Leave
  <2>2. Asked' \subseteq Asked
      BY <2>1 DEF EvidenceTypeOK, Asked, NoCall
  <2>3. acked' = acked /\ lines' = lines
      BY <1>8 DEF EnforceQuota, Crash
  <2> QED BY <2>2, <2>3, <1>1, <1>2 DEF Known
<1>9. ASSUME NEW c \in Callers, AppendEvent(c) PROVE EventsFit'
  <2>1. calls[c].kind = "record" /\ c # Auditor
      BY <1>9 DEF AppendEvent, CallsFit
  <2> DEFINE e == calls[c].event
  <2>2. e \in Asked /\ e \in Event
      BY <2>1 DEF EvidenceTypeOK, EvidenceCall, Asked
  <2>3. EventOf(Line(e, 0)) = e
      BY <2>2, LinesOfEvents
  <2>4. calls' = [calls EXCEPT ![c] = NoCall]
      BY <1>9 DEF AppendEvent, Leave
  <2>5. Asked' \subseteq Asked
      BY <2>4 DEF EvidenceTypeOK, Asked, NoCall
  <2>6. acked' \subseteq acked \cup {e} /\ lines' \subseteq lines \cup {Line(e, 0)}
      BY <1>9 DEF AppendEvent
  <2> HIDE DEF e
  <2>7. Known' \subseteq Known
      BY <2>2, <2>3, <2>5, <2>6 DEF Known
  <2> QED BY <2>5, <2>7, <1>1, <1>2
<1> QED BY <1>3, <1>4, <1>5, <1>6, <1>7, <1>8, <1>9 DEF EvidenceNext

\* What no step but a migration and a pruning does to the lines.
LEMMA LinesGrow ==
    ASSUME EvidenceTypeOK, EvidenceTypeOK', now <= now', lines \subseteq lines'
    PROVE  /\ \A e \in Event : Retained(e)' => Retained(e)
           /\ \A e \in Event : Copies(e) # {} => Copies(e)' # {}
<1>1. HotSince \in Nat /\ HotSince' \in Nat /\ HotSince <= HotSince'
    BY EvidenceAssumption DEF EvidenceTypeOK, HotSince, Monus
<1>2. CutoffDay \in Nat /\ CutoffDay' \in Nat /\ CutoffDay <= CutoffDay'
  <2>1. Day(HotSince) <= Day(HotSince') /\ Day(HotSince) \in Nat /\ Day(HotSince') \in Nat
      BY <1>1, StoreTypes
  <2> QED BY <2>1 DEF CutoffDay, Day
<1>3. \A e \in Event : Day(e.at) \in Nat
    BY StoreTypes DEF Event
<1>4. \A e \in Event : Retained(e)' => Retained(e)
    BY <1>2, <1>3 DEF Retained, Day
<1>5. \A e \in Event : Copies(e) # {} => Copies(e)' # {}
    BY DEF Copies, EventOf
<1> QED BY <1>4, <1>5

LEMMA KeptStays ==
    ASSUME EvidenceTypeOK, EvidenceTypeOK', CallsFit, Kept, Carried, EvidenceNext
    PROVE  Kept' /\ Carried'
<1> USE DEF EvidenceTypeOK
<1>0. Inherited \subseteq Event
    BY EvidenceAssumption
<1>1. ASSUME now <= now', lines \subseteq lines', acked' = acked, legacy' = legacy,
             \A c \in Callers : pc'[c] = "moving" =>
               pc[c] = "moving" /\ \A e \in legacy : e \in carry[c] => e \in carry'[c] \/ Copies(e)' # {}
      PROVE  Kept' /\ Carried'
  <2>1. /\ \A e \in Event : Retained(e)' => Retained(e)
        /\ \A e \in Event : Copies(e) # {} => Copies(e)' # {}
      BY <1>1, LinesGrow
  <2>2. Kept'
      BY <1>1, <2>1 DEF Kept
  <2>3. Carried'
      BY <1>0, <1>1, <2>1 DEF Carried
  <2> QED BY <2>2, <2>3
<1>2. CASE Tick
    BY <1>1, <1>2 DEF Tick
<1>3. ASSUME AskPage \/ AskSamples \/ Access \/ Refine \/ RerankTrainingSamples PROVE Kept' /\ Carried'
  <2>1. /\ UNCHANGED <<now, lines, acked, legacy, carry>>
        /\ \E q \in {"idle", "migrate"} : pc' = [pc EXCEPT ![Auditor] = q]
      BY <1>3 DEF AskPage, AskSamples, Access, Refine, RerankTrainingSamples, To
  <2> QED BY <1>1, <2>1
<1>4. ASSUME NEW c \in Callers, RecordEvent(c) \/ EnforceQuota(c) \/ Crash(c) PROVE Kept' /\ Carried'
  <2>1. /\ UNCHANGED <<now, lines, acked, legacy>>
        /\ \A d \in Callers : d # c => pc'[d] = pc[d] /\ carry'[d] = carry[d]
      BY <1>4 DEF RecordEvent, EnforceQuota, Crash, Leave, To
  <2>2. pc'[c] # "moving"
      BY <1>4 DEF RecordEvent, EnforceQuota, Crash, Leave, To
  <2> QED BY <1>1, <2>1, <2>2
<1>5. ASSUME NEW c \in Callers, Migrate(c) PROVE Kept' /\ Carried'
  <2>1. /\ UNCHANGED <<now, lines, acked, legacy>>
        /\ pc' = [pc EXCEPT ![c] = "moving"] /\ carry' = [carry EXCEPT ![c] = legacy]
      BY <1>5 DEF Migrate, To
  <2> QED BY <2>1 DEF Kept, Carried, Retained, Copies, CutoffDay, HotSince
<1>6. ASSUME NEW c \in Callers, Move(c), carry[c] # {} PROVE Kept' /\ Carried'
  <2>1. PICK e \in carry[c] :
          /\ lines' = lines \cup {Line(e, Cardinality(Copies(e)))}
          /\ carry' = [carry EXCEPT ![c] = @ \ {e}]
          /\ UNCHANGED <<now, legacy, acked, pc>>
      BY <1>6, FirstMoved DEF Move
  <2>2. e \in Event /\ \A d \in Callers : pc'[d] = pc[d]
      BY <1>0, <2>1
  <2>3. EventOf(Line(e, Cardinality(Copies(e)))) = e
      BY <2>2, LinesOfEvents, CopiesFinite
  <2>4. Line(e, Cardinality(Copies(e))) \in Copies(e)'
      BY <2>1, <2>3 DEF Copies, EventOf
  <2>5. \A d \in Callers, f \in legacy : f \in carry[d] => f \in carry'[d] \/ Copies(f)' # {}
      BY <2>1, <2>4
  <2> QED BY <1>1, <2>1, <2>2, <2>5
<1>7. ASSUME NEW c \in Callers, Move(c), carry[c] = {} PROVE Kept' /\ Carried'
  <2>1. UNCHANGED <<now, lines, acked>> /\ legacy' = {} /\ pc[c] = "moving"
      BY <1>7 DEF Move
  <2>2. Carried'
      BY <2>1 DEF Carried
  <2>3. \A e \in legacy : Retained(e) => Copies(e) # {}
      BY <1>7, <2>1 DEF Carried
  <2>4. Kept'
      BY <2>1, <2>3 DEF Kept, Retained, Copies, CutoffDay, HotSince
  <2> QED BY <2>2, <2>4
<1>8. ASSUME NEW c \in Callers, Prune(c) PROVE Kept' /\ Carried'
  <2>1. UNCHANGED <<now, acked, legacy, carry>> /\ \A d \in Callers : pc'[d] = "moving" => pc[d] = "moving"
      BY <1>8 DEF Prune, To
  <2>2. \A e \in Event : Retained(e)' <=> Retained(e)
      BY <2>1 DEF Retained, CutoffDay, HotSince
  <2>3. ASSUME NEW e \in Event, Retained(e), Copies(e) # {} PROVE Copies(e)' # {}
    <3>1. PICK l \in lines : EventOf(l) = e
        BY <2>3 DEF Copies
    <3>2. Day(l.at) >= CutoffDay /\ CutoffDay \in Nat /\ Day(l.at) \in Nat
        BY <2>3, <3>1, StoreTypes DEF Retained, EventOf, Event
    <3>3. l \in lines'
        BY <1>8, <3>2 DEF Prune, Dropped
    <3> QED BY <3>1, <3>3 DEF Copies, EventOf
  <2>4. Kept'
      BY <2>1, <2>2, <2>3 DEF Kept
  <2>5. Carried'
      BY <1>0, <2>1, <2>2, <2>3 DEF Carried
  <2> QED BY <2>4, <2>5
<1>9. ASSUME NEW c \in Callers, AppendEvent(c) PROVE Kept' /\ Carried'
  <2>1. calls[c].kind = "record" /\ c # Auditor
      BY <1>9 DEF AppendEvent, CallsFit
  <2>2. PICK e \in Event : e = calls[c].event
      BY <2>1 DEF EvidenceCall
  <2>3. /\ UNCHANGED <<now, legacy>> /\ lines \subseteq lines'
        /\ acked' = acked \/ (acked' = acked \cup {e} /\ lines' = lines \cup {Line(e, 0)})
        /\ pc' = [pc EXCEPT ![c] = "idle"] /\ carry' = [carry EXCEPT ![c] = {}]
      BY <1>9, <2>2 DEF AppendEvent, Leave, To
  <2>4. EventOf(Line(e, 0)) = e
      BY <2>2, LinesOfEvents
  <2>5. acked' = acked \/ Copies(e)' # {}
      BY <2>3, <2>4 DEF Copies, EventOf
  <2>6. /\ \A f \in Event : Retained(f)' => Retained(f)
        /\ \A f \in Event : Copies(f) # {} => Copies(f)' # {}
      BY <2>3, LinesGrow
  <2>7. Kept'
      BY <2>3, <2>5, <2>6 DEF Kept
  <2>8. Carried'
      BY <1>0, <2>3, <2>6 DEF Carried
  <2> QED BY <2>7, <2>8
<1> QED BY <1>2, <1>3, <1>4, <1>5, <1>6, <1>7, <1>8, <1>9 DEF EvidenceNext

LEMMA CallersFinite ==
    /\ IsFiniteSet(Callers \ {Auditor}) /\ Cardinality(Callers \ {Auditor}) \in Nat
    /\ \A S \in SUBSET Callers : IsFiniteSet(S) /\ Cardinality(S) \in Nat
<1>1. \A S \in SUBSET Callers : IsFiniteSet(S) /\ Cardinality(S) \in Nat
    BY EvidenceAssumption, FS_Subset, FS_CardinalityType
<1> QED BY <1>1

LEMMA Sizes ==
    ASSUME NEW S, NEW T, IsFiniteSet(T), S \subseteq T
    PROVE  /\ IsFiniteSet(S) /\ Cardinality(S) \in Nat /\ Cardinality(T) \in Nat
           /\ Cardinality(S) <= Cardinality(T)
BY FS_Subset, FS_CardinalityType

LEMMA SizeWithOneMore ==
    ASSUME NEW S, NEW T, NEW a, IsFiniteSet(T), S \subseteq T \cup {a}
    PROVE  Cardinality(S) \in Nat /\ Cardinality(T) \in Nat /\ Cardinality(S) <= Cardinality(T) + 1
<1>1. /\ IsFiniteSet(T \cup {a}) /\ Cardinality(T \cup {a}) <= Cardinality(T) + 1
      /\ Cardinality(T) \in Nat
    BY FS_AddElement, FS_CardinalityType
<1>2. Cardinality(S) \in Nat /\ Cardinality(T \cup {a}) \in Nat /\ Cardinality(S) <= Cardinality(T \cup {a})
    BY <1>1, Sizes
<1> QED BY <1>1, <1>2

LEMMA SizeWithOneLess ==
    ASSUME NEW S, NEW T, NEW a, IsFiniteSet(T), a \in T, S \subseteq T \ {a}
    PROVE  Cardinality(S) \in Nat /\ Cardinality(T) \in Nat /\ Cardinality(S) + 1 <= Cardinality(T)
<1>1. /\ IsFiniteSet(T \ {a}) /\ Cardinality(T \ {a}) = Cardinality(T) - 1 /\ Cardinality(T) \in Nat
    BY FS_RemoveElement, FS_CardinalityType
<1>2. Cardinality(S) \in Nat /\ Cardinality(S) <= Cardinality(T \ {a})
    BY <1>1, Sizes
<1> QED BY <1>1, <1>2

LEMMA CopiesStayCounted ==
    ASSUME EvidenceTypeOK, EvidenceTypeOK', CallsFit, EventsFit, CopiesCounted, EvidenceNext
    PROVE  CopiesCounted'
<1>0. /\ \A e : IsFiniteSet(Copies(e)) /\ Cardinality(Copies(e)) \in Nat
      /\ \A e : IsFiniteSet(Movers(e)) /\ Cardinality(Movers(e)) \in Nat
      /\ moves \in Nat /\ Inherited \subseteq Event
    BY CopiesFinite, CallersFinite, EvidenceAssumption DEF EvidenceTypeOK, Movers
<1>1. ASSUME \A e \in Inherited : Copies(e)' \subseteq Copies(e) /\ Movers(e)' \subseteq Movers(e),
             moves' = moves, \A l \in lines' : l \in lines \/ l.copy = 0
      PROVE  CopiesCounted'
  <2>1. ASSUME NEW e \in Inherited PROVE Cardinality(Copies(e)') + Cardinality(Movers(e)') <= moves'
    <3>1. /\ Cardinality(Copies(e)') \in Nat /\ Cardinality(Copies(e)') <= Cardinality(Copies(e))
          /\ Cardinality(Movers(e)') \in Nat /\ Cardinality(Movers(e)') <= Cardinality(Movers(e))
        BY <1>0, <1>1, Sizes
    <3>2. Cardinality(Copies(e)) + Cardinality(Movers(e)) <= moves
        BY DEF CopiesCounted
    <3> QED BY <1>0, <1>1, <3>1, <3>2
  <2>2. Once'
      BY <1>1 DEF CopiesCounted, Once, EventOf
  <2> QED BY <2>1, <2>2 DEF CopiesCounted
<1>2. ASSUME Tick \/ AskPage \/ AskSamples \/ Access \/ Refine \/ RerankTrainingSamples PROVE CopiesCounted'
  <2>1. UNCHANGED <<lines, carry, moves>> /\ \A c \in Callers : pc'[c] = "moving" => pc[c] = "moving"
      BY <1>2 DEF EvidenceTypeOK, Tick, AskPage, AskSamples, Access, Refine, RerankTrainingSamples, To
  <2> QED BY <1>1, <2>1 DEF Copies, Movers, EventOf
<1>3. ASSUME NEW c \in Callers, RecordEvent(c) \/ EnforceQuota(c) \/ Crash(c) \/ Prune(c) PROVE CopiesCounted'
  <2>1. /\ lines' \subseteq lines /\ moves' = moves
        /\ \A d \in Callers : d # c => pc'[d] = pc[d] /\ carry'[d] = carry[d]
      BY <1>3 DEF EvidenceTypeOK, RecordEvent, EnforceQuota, Crash, Prune, Dropped, Leave, To
  <2>2. pc'[c] # "moving"
      BY <1>3 DEF EvidenceTypeOK, RecordEvent, EnforceQuota, Crash, Prune, Leave, To
  <2> QED BY <1>1, <2>1, <2>2 DEF Copies, Movers, EventOf
<1>4. ASSUME NEW c \in Callers, Migrate(c) PROVE CopiesCounted'
  <2>1. /\ UNCHANGED lines /\ moves' = moves + 1
        /\ \A d \in Callers : d # c => pc'[d] = pc[d] /\ carry'[d] = carry[d]
      BY <1>4 DEF Migrate, To
  <2>2. ASSUME NEW e \in Inherited PROVE Cardinality(Copies(e)') + Cardinality(Movers(e)') <= moves'
    <3>1. Copies(e)' = Copies(e) /\ Movers(e)' \subseteq Movers(e) \cup {c}
        BY <2>1 DEF Copies, Movers, EventOf
    <3>2. Cardinality(Movers(e)') \in Nat /\ Cardinality(Movers(e)') <= Cardinality(Movers(e)) + 1
        BY <1>0, <3>1, SizeWithOneMore
    <3>3. Cardinality(Copies(e)) + Cardinality(Movers(e)) <= moves
        BY DEF CopiesCounted
    <3> QED BY <1>0, <2>1, <3>1, <3>2, <3>3
  <2>3. Once'
    <3>1. \A l \in lines : l.copy \in Nat
        BY DEF EvidenceTypeOK, EvidenceLine
    <3>2. \A l \in lines : l.copy = 0 \/ (EventOf(l) \in Inherited /\ l.copy < moves)
        BY DEF CopiesCounted, Once
    <3>3. \A l \in lines : l.copy = 0 \/ (EventOf(l) \in Inherited /\ l.copy < moves + 1)
        BY <1>0, <3>1, <3>2
    <3> HIDE DEF EventOf
    <3> QED BY <2>1, <3>3 DEF Once
  <2> QED BY <2>2, <2>3 DEF CopiesCounted
<1>5. ASSUME NEW c \in Callers, Move(c), carry[c] = {} PROVE CopiesCounted'
  <2>1. UNCHANGED <<lines, moves, carry>> /\ \A d \in Callers : pc'[d] = "moving" => pc[d] = "moving"
      BY <1>5 DEF EvidenceTypeOK, Move, To
  <2> QED BY <1>1, <2>1 DEF Copies, Movers, EventOf
<1>6. ASSUME NEW c \in Callers, Move(c), carry[c] # {} PROVE CopiesCounted'
  <2>1. PICK e \in carry[c] :
          /\ lines' = lines \cup {Line(e, Cardinality(Copies(e)))}
          /\ carry' = [carry EXCEPT ![c] = @ \ {e}]
          /\ UNCHANGED <<pc, moves>>
      BY <1>6, FirstMoved DEF Move
  <2>2. e \in Inherited /\ e \in Event /\ pc[c] = "moving" /\ c \in Movers(e)
      BY <1>0, <1>6, <2>1 DEF EvidenceTypeOK, Move, Movers
  <2>3. PICK n \in Nat : n = Cardinality(Copies(e))
      BY <1>0
  <2>4. EventOf(Line(e, n)) = e /\ Line(e, n).copy = n
      BY <2>2, LinesOfEvents
  <2>5. Cardinality(Copies(e)) + Cardinality(Movers(e)) <= moves
      BY <2>2 DEF CopiesCounted
  <2>6. ASSUME NEW f \in Inherited PROVE Cardinality(Copies(f)') + Cardinality(Movers(f)') <= moves'
    <3>1. CASE f = e
      <4>1. Copies(f)' \subseteq Copies(f) \cup {Line(e, n)}
          BY <2>1, <2>3 DEF Copies, EventOf
      <4>2. Movers(f)' \subseteq Movers(f) \ {c}
          BY <3>1, <2>1, <2>2 DEF EvidenceTypeOK, Movers
      <4>3. Cardinality(Copies(f)') \in Nat /\ Cardinality(Copies(f)') <= Cardinality(Copies(f)) + 1
          BY <1>0, <4>1, SizeWithOneMore
      <4>4. Cardinality(Movers(f)') \in Nat /\ Cardinality(Movers(f)') + 1 <= Cardinality(Movers(f))
          BY <1>0, <2>2, <3>1, <4>2, SizeWithOneLess
      <4> QED BY <1>0, <2>1, <2>5, <3>1, <4>3, <4>4
    <3>2. CASE f # e
      <4>1. Copies(f)' \subseteq Copies(f) /\ Movers(f)' \subseteq Movers(f)
          BY <3>2, <2>1, <2>3, <2>4 DEF EvidenceTypeOK, Copies, Movers, EventOf
      <4>2. /\ Cardinality(Copies(f)') \in Nat /\ Cardinality(Copies(f)') <= Cardinality(Copies(f))
            /\ Cardinality(Movers(f)') \in Nat /\ Cardinality(Movers(f)') <= Cardinality(Movers(f))
          BY <1>0, <4>1, Sizes
      <4>3. Cardinality(Copies(f)) + Cardinality(Movers(f)) <= moves
          BY DEF CopiesCounted
      <4> QED BY <1>0, <2>1, <4>2, <4>3
    <3> QED BY <3>1, <3>2
  <2>7. n < moves
    <3>1. 1 <= Cardinality(Movers(e))
        BY <1>0, <2>2, FS_EmptySet
    <3> QED BY <1>0, <2>3, <2>5, <3>1
  <2>8. Once'
    <3>1. \A l \in lines' : l \in lines \/ l = Line(e, n)
        BY <2>1, <2>3
    <3> QED BY <3>1, <2>1, <2>2, <2>4, <2>7 DEF CopiesCounted, Once, EventOf
  <2> QED BY <2>6, <2>8 DEF CopiesCounted
<1>7. ASSUME NEW c \in Callers, AppendEvent(c) PROVE CopiesCounted'
  <2>1. calls[c].kind = "record" /\ c # Auditor
      BY <1>7 DEF AppendEvent, CallsFit
  <2>2. PICK e \in Event : e = calls[c].event
      BY <2>1 DEF EvidenceTypeOK, EvidenceCall
  <2>3. e \notin Inherited
      BY <2>1, <2>2 DEF EventsFit, Asked
  <2>4. lines' \subseteq lines \cup {Line(e, 0)} /\ moves' = moves
      BY <1>7, <2>2 DEF AppendEvent
  <2>5. EventOf(Line(e, 0)) = e /\ Line(e, 0).copy = 0
      BY <2>2, LinesOfEvents
  <2>6. \A f \in Inherited : Copies(f)' \subseteq Copies(f)
      BY <2>3, <2>4, <2>5 DEF Copies, EventOf
  <2>7. \A d \in Callers : pc'[d] = "moving" => pc[d] = "moving" /\ carry'[d] = carry[d]
      BY <1>7 DEF AppendEvent, Leave, To, EvidenceTypeOK
  <2>8. \A f \in Inherited : Movers(f)' \subseteq Movers(f)
      BY <2>7 DEF Movers
  <2> QED BY <1>1, <2>4, <2>5, <2>6, <2>8
<1> QED BY <1>2, <1>3, <1>4, <1>5, <1>6, <1>7 DEF EvidenceNext

LEMMA StaysCapped ==
    ASSUME EvidenceTypeOK, EvidenceTypeOK', CallsFit, EventsFit, Capped, EvidenceNext
    PROVE  Capped'
<1> DEFINE Limit == Cap + Cardinality(Callers \ {Auditor}) - 1
<1>0. /\ IsFiniteSet(Recorded) /\ Cardinality(Recorded) \in Nat
      /\ IsFiniteSet(Appending) /\ Cardinality(Appending) \in Nat
      /\ Cap \in Nat /\ Cardinality(Callers \ {Auditor}) \in Nat
      /\ Cardinality(Recorded) + Cardinality(Appending) <= Limit
  <2>1. Recorded \subseteq lines /\ IsFiniteSet(lines) /\ Appending \subseteq Callers
      BY DEF EvidenceTypeOK, Recorded, Appending
  <2> QED BY <2>1, Sizes, CallersFinite, EvidenceAssumption DEF Capped
<1> HIDE DEF Limit
<1>1. ASSUME Recorded' \subseteq Recorded, Appending' \subseteq Appending PROVE Capped'
  <2>1. /\ Cardinality(Recorded') \in Nat /\ Cardinality(Recorded') <= Cardinality(Recorded)
        /\ Cardinality(Appending') \in Nat /\ Cardinality(Appending') <= Cardinality(Appending)
      BY <1>0, <1>1, Sizes
  <2> QED BY <1>0, <2>1 DEF Capped, Limit
<1>2. topic' = topic
    BY DEF EvidenceNext, Tick, AskPage, AskSamples, Access, Refine, RerankTrainingSamples, RecordEvent,
           Migrate, Move, Prune, EnforceQuota, AppendEvent, Crash
<1>3. ASSUME lines' \subseteq lines, \A c \in Callers : pc'[c] = "append" => pc[c] = "append" PROVE Capped'
    BY <1>1, <1>2, <1>3 DEF Recorded, Appending, EventOf
<1>4. ASSUME Tick \/ AskPage \/ AskSamples \/ Access \/ Refine \/ RerankTrainingSamples PROVE Capped'
    BY <1>3, <1>4 DEF EvidenceTypeOK, Tick, AskPage, AskSamples, Access, Refine, RerankTrainingSamples, To
<1>5. ASSUME NEW c \in Callers, RecordEvent(c) \/ Crash(c) \/ Prune(c) \/ Migrate(c) PROVE Capped'
  <2>1. lines' \subseteq lines
      BY <1>5 DEF RecordEvent, Crash, Prune, Migrate, Dropped
  <2>2. \A d \in Callers : pc'[d] = "append" => pc[d] = "append"
      BY <1>5 DEF EvidenceTypeOK, RecordEvent, Crash, Prune, Migrate, Leave, To
  <2> QED BY <1>3, <2>1, <2>2
<1>6. ASSUME NEW c \in Callers, Move(c), carry[c] = {} PROVE Capped'
    BY <1>3, <1>6 DEF EvidenceTypeOK, Move, To
<1>7. ASSUME NEW c \in Callers, Move(c), carry[c] # {} PROVE Capped'
  <2>1. PICK e \in carry[c] : lines' = lines \cup {Line(e, Cardinality(Copies(e)))} /\ UNCHANGED pc
      BY <1>7, FirstMoved DEF Move
  <2>2. e \in Inherited /\ e \in Event
      BY <2>1, EvidenceAssumption DEF EvidenceTypeOK
  <2>3. EventOf(Line(e, Cardinality(Copies(e)))) = e
      BY <2>2, LinesOfEvents, CopiesFinite
  <2>4. Recorded' \subseteq Recorded /\ Appending' \subseteq Appending
      BY <1>2, <2>1, <2>2, <2>3 DEF Recorded, Appending, EventOf
  <2> QED BY <1>1, <2>4
<1>8. ASSUME NEW c \in Callers, EnforceQuota(c) PROVE Capped'
  <2>1. pc[c] = "quota" /\ c # Auditor /\ calls[c].kind = "record" /\ legacy = {} /\ lines' = lines
      BY <1>8 DEF EnforceQuota, CallsFit
  <2>2. StreamOf(c) = topic
      BY <2>1 DEF StreamOf, EventsFit, Asked
  <2>3. CASE pc' = [pc EXCEPT ![c] = "idle"]
      BY <1>3, <2>1, <2>3 DEF EvidenceTypeOK
  <2>4. CASE StreamBytes(StreamOf(c)) < Cap /\ pc' = [pc EXCEPT ![c] = "append"]
    <3> DEFINE L == {l \in lines : l.stream = topic}
    <3>1. IsFiniteSet(L) /\ Cardinality(L) \in Nat
        BY FS_Subset, FS_CardinalityType DEF EvidenceTypeOK
    <3>2. StreamBytes(topic) = Cardinality(L)
        BY <2>1, <3>1, FS_EmptySet DEF StreamBytes
    <3>3. Recorded' \subseteq L
        BY <1>2, <2>1 DEF Recorded
    <3> HIDE DEF L
    <3>4. Cardinality(Recorded') \in Nat /\ Cardinality(Recorded') <= Cardinality(L)
        BY <3>1, <3>3, Sizes
    <3>5. Appending' \subseteq Callers \ {Auditor}
        BY <2>1, <2>4 DEF CallsFit, EvidenceTypeOK, Appending
    <3>6. Cardinality(Appending') \in Nat /\ Cardinality(Appending') <= Cardinality(Callers \ {Auditor})
        BY <3>5, CallersFinite, Sizes
    <3> QED BY <1>0, <2>2, <2>4, <3>1, <3>2, <3>4, <3>6 DEF Capped
  <2>5. \/ pc' = [pc EXCEPT ![c] = "idle"]
        \/ StreamBytes(StreamOf(c)) < Cap /\ pc' = [pc EXCEPT ![c] = "append"]
    <3>1. StreamBytes(StreamOf(c)) \in Nat
      <4>1. \A s : IsFiniteSet({l \in lines : l.stream = s}) /\ Cardinality({l \in lines : l.stream = s}) \in Nat
          BY FS_Subset, FS_CardinalityType DEF EvidenceTypeOK
      <4>2. Cardinality(legacy) = 0
          BY <2>1, FS_EmptySet
      <4>3. PICK s : s = StreamOf(c)
          OBVIOUS
      <4>4. Cardinality({l \in lines : l.stream = s}) \in Nat
          BY <4>1
      <4>5. StreamBytes(s) = Cardinality({l \in lines : l.stream = s}) + 0
          BY <4>2 DEF StreamBytes
      <4>6. StreamBytes(s) \in Nat
          BY <4>4, <4>5
      <4> QED BY <4>3, <4>6
    <3> QED BY <1>0, <1>8, <3>1 DEF EnforceQuota, Leave, To
  <2> QED BY <2>3, <2>4, <2>5
<1>9. ASSUME NEW c \in Callers, AppendEvent(c) PROVE Capped'
  <2>1. PICK a : lines' \subseteq lines \cup {a}
      BY <1>9 DEF AppendEvent
  <2>2. Recorded' \subseteq Recorded \cup {a}
      BY <1>2, <2>1 DEF Recorded, EventOf
  <2>3. Appending' \subseteq Appending \ {c} /\ c \in Appending
      BY <1>9 DEF AppendEvent, Leave, To, EvidenceTypeOK, Appending
  <2>4. /\ Cardinality(Recorded') \in Nat /\ Cardinality(Recorded') <= Cardinality(Recorded) + 1
        /\ Cardinality(Appending') \in Nat /\ Cardinality(Appending') + 1 <= Cardinality(Appending)
      BY <1>0, <2>2, <2>3, SizeWithOneMore, SizeWithOneLess
  <2> QED BY <1>0, <2>4 DEF Capped, Limit
<1> QED BY <1>4, <1>5, <1>6, <1>7, <1>8, <1>9 DEF EvidenceNext

\* An entry before another is before all that follow that one.
LEMMA OlderLines ==
    ASSUME NEW l \in EvidenceLine, NEW o \in EvidenceLine, NEW k \in EvidenceLine, Older(l, o)
    PROVE  /\ o = k \/ LineOlder(o, k) \/ Older(o, k) => Older(l, k)
           /\ Older(EventOf(l), o)
<1>1. /\ l.id \in Nat /\ l.at \in Nat /\ o.id \in Nat /\ o.at \in Nat /\ k.id \in Nat /\ k.at \in Nat
      /\ EventOf(l).id = l.id /\ EventOf(l).at = l.at
      /\ EventOf(o) = EventOf(k) => o.id = k.id /\ o.at = k.at
    BY DEF EvidenceLine, EventOf
<1> HIDE DEF EventOf
<1>2. Older(EventOf(l), o)
    BY <1>1 DEF Older
<1>3. o.id = k.id /\ o.at = k.at => Older(l, k)
    BY <1>1 DEF Older
<1>4. Older(o, k) => Older(l, k)
    BY <1>1 DEF Older
<1> QED BY <1>1, <1>2, <1>3, <1>4 DEF LineOlder

\* What is owed and not yet shown is among what the next page is taken from.
LEMMA OwedIsMatched ==
    ASSUME EvidenceTypeOK, CallsFit, EventsFit, Kept, WalkInv, topic = "access", legacy = {},
           calls[Auditor].kind = "page"
    PROVE  \A e \in owed : e.at >= HotSince => Shown(e) \/ \E l \in Matched : EventOf(l) = e
<1> TAKE e \in owed
<1> HAVE e.at >= HotSince
<1>1. e \in acked /\ e \in Event /\ e.at \in Nat
    BY DEF EvidenceTypeOK, Event
<1>2. Retained(e)
    BY <1>1, StoreTypes DEF Retained
<1>3. PICK l \in lines : EventOf(l) = e
    BY <1>1, <1>2 DEF Kept, Copies
<1>4. l \in EvidenceLine /\ l.at = e.at /\ l.id = e.id /\ l.stream = e.stream
    BY <1>3, LinesOfEvents DEF EvidenceTypeOK
<1>5. l.stream = "access"
    BY <1>1, <1>4 DEF EventsFit, Known
<1>6. CASE walk = <<>>
    BY <1>3, <1>4, <1>5, <1>6 DEF Matched
<1>7. CASE walk # <<>> /\ ~Shown(e)
  <2>1. Older(e, Oldest(walk[Len(walk)]))
      BY <1>7 DEF WalkInv, ShownOrOlder
  <2>2. Older(l, Oldest(walk[Len(walk)]))
      BY <2>1, <1>4 DEF Older
  <2> QED BY <2>2, <1>3, <1>4, <1>5 DEF Matched
<1> QED BY <1>6, <1>7

LEMMA WalkStands ==
    ASSUME EvidenceTypeOK, EvidenceTypeOK', WalkInv, UNCHANGED <<walk, topic>>, now <= now',
           \/ UNCHANGED <<owed, calls[Auditor]>>
           \/ calls'[Auditor].kind \in {"samples", "labels", "failed"}
           \/ calls'[Auditor].kind = "page" /\ calls[Auditor].kind = "none"
           \/ calls'[Auditor].kind = "page" /\ calls[Auditor].kind = "page" /\ UNCHANGED owed
           \/ calls'[Auditor].kind = "done" /\ topic = "feedback"
           \/ /\ calls'[Auditor].kind = "done" /\ UNCHANGED <<now, owed>>
              /\ \A e \in owed : e.at >= HotSince => Shown(e)
    PROVE  WalkInv'
<1>1. HotSince \in Nat /\ HotSince' \in Nat /\ HotSince <= HotSince'
    BY EvidenceAssumption DEF EvidenceTypeOK, HotSince, Monus
<1>2. \A e \in owed : e.at \in Nat
    BY DEF EvidenceTypeOK, Event
<1>3. \A e : (Shown(e)' <=> Shown(e)) /\ (ShownOrOlder(e)' <=> ShownOrOlder(e))
    BY DEF Shown, ShownOrOlder, Oldest, Older, EventOf
<1>4. /\ walk \in Seq(SUBSET EvidenceLine)
      /\ \A i \in DOMAIN walk :
           /\ Oldest(walk[i]) \in walk[i]
           /\ \A l \in walk[i] : Oldest(walk[i]) = l \/ LineOlder(Oldest(walk[i]), l)
      /\ \A i, j \in DOMAIN walk : i < j => \A k \in walk[i], l \in walk[j] : Older(l, k)
    BY DEF WalkInv, WalkComplete
<1>5. /\ walk' \in Seq(SUBSET EvidenceLine)
      /\ \A i \in DOMAIN walk' :
           /\ Oldest(walk'[i]) \in walk'[i]
           /\ \A l \in walk'[i] : Oldest(walk'[i]) = l \/ LineOlder(Oldest(walk'[i]), l)
      /\ \A i, j \in DOMAIN walk' : i < j => \A k \in walk'[i], l \in walk'[j] : Older(l, k)
    BY <1>4
<1>6. calls'[Auditor].kind = "none" => walk' = <<>>
    BY DEF WalkInv
<1>7. calls'[Auditor].kind = "page" /\ walk' # <<>> => \A e \in owed' : e.at >= HotSince' => ShownOrOlder(e)'
    BY <1>1, <1>2, <1>3 DEF WalkInv
<1>8. calls'[Auditor].kind = "done" /\ topic' = "access" => \A e \in owed' : e.at >= HotSince' => Shown(e)'
    BY <1>1, <1>2, <1>3 DEF WalkInv, WalkComplete, HotSince
<1> QED BY <1>5, <1>6, <1>7, <1>8 DEF WalkInv, WalkComplete, EventOf, Older, LineOlder, Oldest

LEMMA WalkGoesOn ==
    ASSUME EvidenceTypeOK, EvidenceTypeOK', CallsFit, EventsFit, Kept, WalkInv, Access
    PROVE  WalkInv'
<1>1. /\ pc[Auditor] = "read" /\ calls[Auditor].kind = "page" /\ Auditor \in Callers
      /\ UNCHANGED <<now, topic, owed, lines>>
    BY EvidenceAssumption DEF Access
<1>2. topic = "access" /\ legacy = {}
    BY <1>1 DEF EvidenceTypeOK, CallsFit
<1>3. HotSince' = HotSince
    BY <1>1 DEF HotSince
<1>4. PICK found : found = Matched
    OBVIOUS
<1>5. \A e \in owed : e.at >= HotSince => Shown(e) \/ \E l \in found : EventOf(l) = e
    BY <1>1, <1>2, <1>4, OwedIsMatched
<1>6. found \subseteq lines /\ found \in SUBSET EvidenceLine /\ IsFiniteSet(found) /\ Cardinality(found) \in Nat
  <2>1. found \subseteq lines
      BY <1>4 DEF Matched
  <2> QED BY <2>1, Sizes DEF EvidenceTypeOK
<1>7. LineIds(found)
  <2>1. \A l \in found : EventOf(l) \in Known /\ EventOf(l).id = l.id
      BY <1>6, LinesOfEvents DEF Known
  <2> QED BY <2>1, <1>2 DEF LineIds, EventsFit
<1>8. PageLimit \in Nat \ {0}
    BY EvidenceAssumption
<1>9. CASE ~Readable("access", HotSince)
  <2>1. UNCHANGED walk /\ calls'[Auditor].kind = "failed"
      BY <1>1, <1>9 DEF Access, EvidenceTypeOK
  <2> QED BY <2>1, <1>1, WalkStands DEF EvidenceTypeOK
<1>10. CASE Readable("access", HotSince) /\ found = {}
  <2>1. UNCHANGED walk /\ calls'[Auditor].kind = "done"
    <3>1. ~(Cardinality(Matched) > PageLimit)
        BY <1>4, <1>8, <1>10, FS_EmptySet
    <3> QED BY <1>1, <1>4, <1>10, <3>1 DEF Access, EvidenceTypeOK
  <2>2. \A e \in owed : e.at >= HotSince => Shown(e)
      BY <1>5, <1>10
  <2>3. now <= now'
      BY <1>1 DEF EvidenceTypeOK
  <2> QED BY <2>1, <2>2, <2>3, <1>1, WalkStands
<1>11. CASE Readable("access", HotSince) /\ found # {}
  <2>1. PICK page : page = Newest(found)
      OBVIOUS
  <2>2. /\ walk' = Append(walk, page)
        /\ calls'[Auditor].kind = IF Cardinality(found) > PageLimit THEN "page" ELSE "done"
      BY <1>1, <1>4, <1>11, <2>1 DEF Access, EvidenceTypeOK
  <2>3. PICK o : o = Oldest(page)
      OBVIOUS
  <2>4. /\ page \subseteq found /\ o \in page
        /\ \A l \in page : o = l \/ LineOlder(o, l)
        /\ \A l \in found \ page : LineOlder(l, o)
        /\ Cardinality(found) <= PageLimit => page = found
      BY <1>6, <1>7, <1>8, <1>11, <2>1, <2>3, PageOrder
  <2>5. PICK n \in Nat : n = Len(walk)
      BY DEF WalkInv
  <2>6. /\ walk \in Seq(SUBSET EvidenceLine) /\ page \in SUBSET EvidenceLine
        /\ walk' \in Seq(SUBSET EvidenceLine) /\ walk' # <<>> /\ Len(walk') = n + 1
        /\ DOMAIN walk = 1 .. n /\ DOMAIN walk' = 1 .. n + 1
        /\ walk'[n + 1] = page /\ \A i \in 1 .. n : walk'[i] = walk[i]
      BY <1>6, <2>2, <2>4, <2>5 DEF WalkInv
  <2>7. \A i \in 1 .. n :
          /\ Oldest(walk[i]) \in walk[i]
          /\ \A l \in walk[i] : Oldest(walk[i]) = l \/ LineOlder(Oldest(walk[i]), l)
      BY <2>6 DEF WalkInv
  <2>8. \A i \in DOMAIN walk' :
          /\ Oldest(walk'[i]) \in walk'[i]
          /\ \A l \in walk'[i] : Oldest(walk'[i]) = l \/ LineOlder(Oldest(walk'[i]), l)
    <3> TAKE i \in DOMAIN walk'
    <3>1. CASE i = n + 1
        BY <3>1, <2>3, <2>4, <2>6
    <3>2. CASE i \in 1 .. n
        BY <3>2, <2>6, <2>7
    <3> QED BY <3>1, <3>2, <2>6
  <2>9. \A i, j \in 1 .. n : i < j => \A k \in walk[i], l \in walk[j] : Older(l, k)
      BY <2>6 DEF WalkInv, WalkComplete
  <2>10. \A i, j \in DOMAIN walk' : i < j => \A k \in walk'[i], l \in walk'[j] : Older(l, k)
    <3> TAKE i, j \in DOMAIN walk'
    <3> HAVE i < j
    <3>1. CASE j \in 1 .. n
        BY <3>1, <2>6, <2>9
    <3>2. CASE j = n + 1
      <4> TAKE k \in walk'[i], l \in walk'[j]
      <4>1. i \in 1 .. n /\ n \in 1 .. n /\ k \in walk[i] /\ l \in page /\ l \in found /\ walk # <<>>
          BY <3>2, <2>4, <2>5, <2>6
      <4>2. PICK p : p = Oldest(walk[n])
          OBVIOUS
      <4>3. p \in walk[n] /\ Older(l, p)
          BY <4>1, <4>2, <1>4, <2>5, <2>7 DEF Matched
      <4>4. p = k \/ LineOlder(p, k) \/ Older(p, k)
        <5>1. CASE i = n
            BY <5>1, <4>1, <4>2, <2>7
        <5>2. CASE i < n
            BY <5>2, <4>1, <4>3, <2>9
        <5> QED BY <5>1, <5>2, <4>1
      <4>5. k \in EvidenceLine /\ l \in EvidenceLine /\ p \in EvidenceLine
          BY <4>1, <4>3, <2>6
      <4> QED BY <4>3, <4>4, <4>5, OlderLines
    <3> QED BY <3>1, <3>2, <2>6
  <2>11. \A e : Shown(e) => Shown(e)'
      BY <2>6 DEF Shown, EventOf
  <2>12. \A l \in page : Shown(EventOf(l))'
      BY <2>6 DEF Shown, EventOf
  <2>13. ASSUME NEW e \in owed, e.at >= HotSince, calls'[Auditor].kind = "page" PROVE ShownOrOlder(e)'
    <3>1. CASE Shown(e)
        BY <3>1, <2>11 DEF ShownOrOlder
    <3>2. CASE \E l \in found : EventOf(l) = e
      <4>1. PICK l \in found : EventOf(l) = e
          BY <3>2
      <4>2. CASE l \in page
          BY <4>1, <4>2, <2>12 DEF ShownOrOlder
      <4>3. CASE LineOlder(l, o) /\ EventOf(l) = EventOf(o)
        <5>1. Shown(EventOf(o))'
            BY <2>4, <2>12
        <5> HIDE DEF EventOf
        <5> QED BY <4>1, <4>3, <5>1 DEF ShownOrOlder
      <4>4. CASE Older(l, o)
        <5>1. l \in EvidenceLine /\ o \in EvidenceLine
            BY <2>4, <2>6, <1>6
        <5>2. Older(e, o)
            BY <5>1, <4>1, <4>4, OlderLines
        <5>3. o = Oldest(walk'[Len(walk')])
            BY <2>3, <2>6
        <5> QED BY <5>2, <5>3 DEF ShownOrOlder, Older
      <4> QED BY <4>2, <4>3, <4>4, <2>4 DEF LineOlder
    <3> QED BY <3>1, <3>2, <2>13, <1>5
  <2>14. ASSUME NEW e \in owed, e.at >= HotSince, calls'[Auditor].kind = "done" PROVE Shown(e)'
    <3>1. page = found
        BY <2>2, <2>4, <2>14, <1>6, <1>8
    <3>2. Shown(e) \/ \E l \in page : EventOf(l) = e
        BY <3>1, <1>5, <2>14
    <3> QED BY <3>2, <2>11, <2>12
  <2>15. calls'[Auditor].kind # "none"
      BY <2>2
  <2> QED BY <2>6, <2>8, <2>10, <2>13, <2>14, <2>15, <1>1, <1>3
          DEF WalkInv, WalkComplete, Oldest, Older, LineOlder, EventOf
<1> QED BY <1>9, <1>10, <1>11

LEMMA WalkStays ==
    ASSUME EvidenceTypeOK, EvidenceTypeOK', CallsFit, EventsFit, Kept, WalkInv, EvidenceNext
    PROVE  WalkInv'
<1>0. now \in Nat /\ Auditor \in Callers
    BY EvidenceAssumption DEF EvidenceTypeOK
<1>1. CASE Tick
    BY <1>0, <1>1, WalkStands DEF Tick
<1>2. CASE AskPage
  <2>1. calls'[Auditor].kind = "page" /\ UNCHANGED <<walk, topic, now>>
      BY <1>0, <1>2 DEF AskPage, EvidenceTypeOK
  <2>2. calls[Auditor].kind = "none" \/ (calls[Auditor].kind = "page" /\ UNCHANGED owed)
      BY <1>2 DEF AskPage, NoCall
  <2> QED BY <1>0, <2>1, <2>2, WalkStands
<1>3. ASSUME AskSamples \/ Refine PROVE WalkInv'
  <2>1. calls'[Auditor].kind \in {"samples", "labels", "failed"} /\ UNCHANGED <<walk, topic, now>>
      BY <1>0, <1>3 DEF AskSamples, Refine, EvidenceTypeOK
  <2> QED BY <1>0, <2>1, WalkStands
<1>4. CASE RerankTrainingSamples
  <2>1. calls'[Auditor].kind = "done" /\ UNCHANGED <<walk, topic, now>>
      BY <1>0, <1>4 DEF RerankTrainingSamples, EvidenceTypeOK
  <2>2. topic = "feedback"
      BY <1>4 DEF RerankTrainingSamples, CallsFit, EvidenceTypeOK
  <2> QED BY <1>0, <2>1, <2>2, WalkStands
<1>5. CASE Access
    BY <1>5, WalkGoesOn
<1>6. ASSUME NEW c \in Callers,
             \/ RecordEvent(c) \/ Migrate(c) \/ Move(c) \/ Prune(c)
             \/ EnforceQuota(c) \/ AppendEvent(c) \/ Crash(c)
      PROVE  WalkInv'
  <2>1. UNCHANGED <<walk, topic, now, owed>>
      BY <1>6 DEF RecordEvent, Migrate, Move, Prune, EnforceQuota, AppendEvent, Crash
  <2>2. calls' = calls \/ (c # Auditor /\ \E k : calls' = [calls EXCEPT ![c] = k])
      BY <1>6 DEF RecordEvent, Migrate, Move, Prune, EnforceQuota, AppendEvent, Crash, Leave, CallsFit
  <2>3. UNCHANGED calls[Auditor]
      BY <1>0, <2>2 DEF EvidenceTypeOK
  <2> QED BY <1>0, <2>1, <2>3, WalkStands
<1> QED BY <1>1, <1>2, <1>3, <1>4, <1>5, <1>6 DEF EvidenceNext

LEMMA SampleIsSound ==
    ASSUME EvidenceTypeOK, EvidenceTypeOK', CallsFit, EventsFit, Kept, SampleInv, RerankTrainingSamples
    PROVE  SampleInv'
<1>1. /\ pc[Auditor] = "read" /\ calls[Auditor].kind = "labels" /\ Auditor \in Callers
      /\ UNCHANGED <<now, owed, topic>> /\ calls'[Auditor].kind = "done"
    BY EvidenceAssumption DEF RerankTrainingSamples, EvidenceTypeOK
<1>2. topic = "feedback" /\ legacy = {} /\ \A e \in owed : e.stream = "feedback"
    BY <1>1 DEF EvidenceTypeOK, CallsFit, SampleInv
<1>3. ASSUME verdict' = "accepted", Retained(Refinement)'
      PROVE  Cardinality({e \in owed : e.label = "answered"}) <= 1
  <2> DEFINE feedback == {l \in lines : l.stream = "feedback"}
             answers == {l \in feedback : l.label = "answered"}
             given == {e \in owed : e.label = "answered"}
  <2>1. Cardinality(answers) = 1
    <3>1. Strength(feedback) = "accepted"
        BY <1>3 DEF RerankTrainingSamples
    <3> QED BY <3>1 DEF Strength
  <2>2. IsFiniteSet(answers)
    <3>1. answers \subseteq lines
        OBVIOUS
    <3> QED BY <3>1, Sizes DEF EvidenceTypeOK
  <2>3. PICK l : answers = {l}
    <3> HIDE DEF answers
    <3> QED BY <2>1, <2>2, FS_Singleton
  <2>4. \A e \in given : e = EventOf(l)
    <3> TAKE e \in given
    <3>1. e \in acked /\ e \in Event /\ e.at \in Nat /\ e.stream = "feedback" /\ e.label = "answered"
        BY <1>2 DEF EvidenceTypeOK, Event
    <3>2. e.at >= Refinement.at /\ Refinement.at \in Nat
      <4>1. e.at >= Refinement.at
          BY <1>2, <3>1 DEF EventsFit, Known
      <4> QED BY <4>1, EvidenceAssumption DEF Event
    <3>3. Retained(Refinement)
        BY <1>1, <1>3 DEF Retained, CutoffDay, HotSince, Day
    <3>4. Retained(e)
      <4>1. /\ CutoffDay \in Nat /\ Day(e.at) \in Nat /\ Day(Refinement.at) \in Nat
            /\ Day(Refinement.at) <= Day(e.at)
          BY <3>1, <3>2, StoreTypes
      <4> HIDE DEF given
      <4> QED BY <3>3, <4>1 DEF Retained
    <3>5. PICK k \in lines : EventOf(k) = e
        BY <1>2, <3>1, <3>4 DEF Kept, Copies
    <3>6. k \in answers
        BY <3>1, <3>5, LinesOfEvents DEF EvidenceTypeOK
    <3> QED BY <2>3, <3>5, <3>6
  <2>5. given \subseteq {EventOf(l)}
      BY <2>4
  <2> HIDE DEF given
  <2>6. IsFiniteSet({EventOf(l)}) /\ Cardinality({EventOf(l)}) = 1
      BY FS_Singleton
  <2>7. Cardinality(given) <= 1
      BY <2>5, <2>6, Sizes
  <2> QED BY <2>7 DEF given
<1> QED BY <1>1, <1>3 DEF SampleInv, SampleSound

LEMMA SampleStays ==
    ASSUME EvidenceTypeOK, EvidenceTypeOK', CallsFit, EventsFit, Kept, SampleInv, EvidenceNext
    PROVE  SampleInv'
<1>0. now \in Nat /\ Auditor \in Callers
    BY EvidenceAssumption DEF EvidenceTypeOK
<1>1. Retained(Refinement)' => Retained(Refinement)
  <2>0. now' = now \/ now' = now + 1
      BY DEF EvidenceNext, Tick, AskPage, AskSamples, Access, Refine, RerankTrainingSamples, RecordEvent,
             Migrate, Move, Prune, EnforceQuota, AppendEvent, Crash
  <2>1. now <= now'
      BY <1>0, <2>0
  <2>2. HotSince \in Nat /\ HotSince' \in Nat /\ HotSince <= HotSince'
      BY <2>1, EvidenceAssumption DEF EvidenceTypeOK, HotSince, Monus
  <2>3. Day(HotSince) <= Day(HotSince') /\ Day(HotSince) \in Nat /\ Day(HotSince') \in Nat
      BY <2>2, StoreTypes
  <2>4. Day(Refinement.at) \in Nat
      BY StoreTypes, EvidenceAssumption DEF Event
  <2> QED BY <2>3, <2>4 DEF Retained, CutoffDay, Day
<1>2. ASSUME UNCHANGED <<owed, verdict, calls[Auditor]>> PROVE SampleInv'
    BY <1>1, <1>2 DEF SampleInv, SampleSound
<1>3. CASE RerankTrainingSamples
    BY <1>3, SampleIsSound
<1>4. CASE AskPage \/ Access
  <2>1. /\ UNCHANGED verdict /\ calls[Auditor].kind # "done"
        /\ calls'[Auditor].kind \in {"page", "failed", "done"}
      BY <1>0, <1>4 DEF AskPage, Access, EvidenceTypeOK, NoCall
  <2>2. verdict = "none"
      BY <2>1 DEF SampleInv
  <2> QED BY <2>1, <2>2 DEF SampleInv, SampleSound
<1>5. CASE AskSamples
  <2>1. /\ UNCHANGED verdict /\ calls'[Auditor].kind = "samples" /\ calls[Auditor].kind = "none"
        /\ \A e \in owed' : e.stream = "feedback"
      BY <1>0, <1>5 DEF AskSamples, EvidenceTypeOK, NoCall
  <2>2. verdict = "none"
      BY <2>1 DEF SampleInv
  <2> QED BY <2>1, <2>2 DEF SampleInv, SampleSound
<1>6. CASE Refine
  <2>1. /\ UNCHANGED <<verdict, owed>> /\ calls[Auditor].kind = "samples"
        /\ calls'[Auditor].kind \in {"labels", "failed"}
      BY <1>0, <1>6 DEF Refine, EvidenceTypeOK
  <2>2. verdict = "none"
      BY <2>1 DEF SampleInv
  <2> QED BY <2>1, <2>2 DEF SampleInv, SampleSound
<1>7. CASE Tick
    BY <1>2, <1>7 DEF Tick
<1>8. ASSUME NEW c \in Callers,
             \/ RecordEvent(c) \/ Migrate(c) \/ Move(c) \/ Prune(c)
             \/ EnforceQuota(c) \/ AppendEvent(c) \/ Crash(c)
      PROVE  SampleInv'
  <2>1. UNCHANGED <<verdict, owed>>
      BY <1>8 DEF RecordEvent, Migrate, Move, Prune, EnforceQuota, AppendEvent, Crash
  <2>2. calls' = calls \/ (c # Auditor /\ \E k : calls' = [calls EXCEPT ![c] = k])
      BY <1>8 DEF RecordEvent, Migrate, Move, Prune, EnforceQuota, AppendEvent, Crash, Leave, CallsFit
  <2>3. UNCHANGED calls[Auditor]
      BY <1>0, <2>2 DEF EvidenceTypeOK
  <2> QED BY <1>2, <2>1, <2>3
<1> QED BY <1>3, <1>4, <1>5, <1>6, <1>7, <1>8 DEF EvidenceNext

LEMMA FirstLines ==
    ASSUME NEW E, IsFiniteSet(E)
    PROVE  /\ IsFiniteSet({Line(e, 0) : e \in E})
           /\ Cardinality({Line(e, 0) : e \in E}) <= Cardinality(E)
<1> DEFINE f == [e \in E |-> Line(e, 0)]
           T == {Line(e, 0) : e \in E}
<1>1. f \in Surjection(E, T)
    BY DEF Surjection
<1> HIDE DEF f, T
<1>2. IsFiniteSet(T) /\ Cardinality(T) <= Cardinality(E)
    BY <1>1, FS_Surjection
<1> QED BY <1>2 DEF T

LEMMA EvidenceInvInit == EvidenceInit => EvidenceInv
<1> SUFFICES ASSUME EvidenceInit PROVE EvidenceInv
    OBVIOUS
<1> DEFINE First == {Line(e, 0) : e \in {Refinement} \cup Labelled}
<1>1. /\ IsFiniteSet(Inherited) /\ IsFiniteSet(Labelled) /\ Inherited \subseteq Event
      /\ Labelled \cup {Refinement} \subseteq Event /\ Auditor \in Callers
      /\ Cardinality(Labelled) \in Nat /\ Cardinality(Labelled) <= Cap /\ Cap \in Nat
    BY EvidenceAssumption, FS_CardinalityType
<1>2. 1 <= Cardinality(Callers \ {Auditor}) /\ Cardinality(Callers \ {Auditor}) \in Nat
  <2>1. Callers \ {Auditor} # {}
      BY EvidenceAssumption
  <2> QED BY <2>1, CallersFinite, FS_EmptySet
<1>3. /\ \A l \in First : l \in EvidenceLine /\ l.copy = 0 /\ EventOf(l) \in {Refinement} \cup Labelled
      /\ \A e \in {Refinement} \cup Labelled : Line(e, 0) \in First /\ EventOf(Line(e, 0)) = e
    BY <1>1, LinesOfEvents
<1>4. IsFiniteSet(First)
  <2>1. IsFiniteSet(Labelled \cup {Refinement})
      BY <1>1, FS_AddElement
  <2>2. {Refinement} \cup Labelled = Labelled \cup {Refinement}
      OBVIOUS
  <2> QED BY <2>1, <2>2, FirstLines DEF First
<1> HIDE DEF First
<1>5. lines = IF topic = "access" THEN {} ELSE First
    BY DEF EvidenceInit, First
<1>6. lines \in SUBSET EvidenceLine /\ IsFiniteSet(lines) /\ \A l \in lines : l.copy = 0
    BY <1>3, <1>4, <1>5, FS_EmptySet
<1>7. \A c \in Callers : calls[c] = NoCall /\ calls[c].kind = "none" /\ pc[c] = "idle" /\ carry[c] = {}
    BY DEF EvidenceInit, NoCall
<1>8. EvidenceTypeOK
  <2>1. {EventOf(l) : l \in lines} \subseteq Event
      BY <1>6, LinesOfEvents
  <2>2. NoCall \in EvidenceCall
      BY DEF NoCall, EvidenceCall
  <2> QED BY <1>1, <1>6, <2>1, <2>2 DEF EvidenceInit, EvidenceTypeOK
<1>9. CallsFit
    BY <1>1, <1>7 DEF EvidenceInit, CallsFit
<1>10. Asked = {}
    BY <1>7 DEF Asked
<1>11. EventsFit
  <2>1. CASE topic = "access"
    <3>1. Known = Inherited /\ acked = Inherited
        BY <1>5, <1>10, <2>1 DEF EvidenceInit, Known
    <3> QED BY <1>10, <2>1, <3>1, EvidenceAssumption DEF EventsFit
  <2>2. CASE topic = "feedback"
    <3>1. Known \subseteq {Refinement} \cup Labelled
        BY <1>3, <1>5, <1>10, <2>2 DEF EvidenceInit, Known
    <3> QED BY <1>10, <2>2, <3>1, EvidenceAssumption DEF EventsFit
  <2> QED BY <2>1, <2>2 DEF EvidenceInit
<1>12. Kept
    BY DEF EvidenceInit, Kept, Copies
<1>13. Carried
    BY <1>7 DEF Carried
<1>14. CopiesCounted
  <2>1. ASSUME NEW e \in Inherited PROVE Copies(e) = {} /\ Movers(e) = {}
    <3>1. Movers(e) = {}
        BY <1>7 DEF Movers
    <3>2. \A l \in lines : EventOf(l) # e
        BY <1>3, <1>5, EvidenceAssumption
    <3> QED BY <3>1, <3>2 DEF Copies
  <2>2. moves = 0
      BY DEF EvidenceInit
  <2> QED BY <1>6, <2>1, <2>2, FS_EmptySet DEF CopiesCounted, Once
<1>15. Capped
  <2>1. Appending = {} /\ Cardinality(Appending) = 0
      BY <1>7, FS_EmptySet DEF Appending
  <2>2. Cardinality(Recorded) \in Nat /\ Cardinality(Recorded) <= Cardinality(Labelled)
    <3>1. CASE topic = "access"
      <4>1. Recorded = {}
          BY <1>5, <3>1 DEF Recorded
      <4> QED BY <4>1, <1>1, FS_EmptySet
    <3>2. CASE topic = "feedback"
      <4>1. Recorded \subseteq {Line(e, 0) : e \in Labelled}
          BY <1>5, <3>2, LinesOfEvents, EvidenceAssumption DEF Recorded, First
      <4>2. /\ IsFiniteSet({Line(e, 0) : e \in Labelled})
            /\ Cardinality({Line(e, 0) : e \in Labelled}) <= Cardinality(Labelled)
          BY <1>1, FirstLines
      <4>3. Cardinality({Line(e, 0) : e \in Labelled}) \in Nat
          BY <4>2, FS_CardinalityType
      <4> QED BY <1>1, <4>1, <4>2, <4>3, Sizes
    <3> QED BY <3>1, <3>2 DEF EvidenceInit
  <2> QED BY <1>1, <1>2, <2>1, <2>2 DEF Capped
<1>16. WalkInv
    BY <1>1, <1>7 DEF EvidenceInit, WalkInv, WalkComplete
<1>17. SampleInv
    BY <1>1, <1>7 DEF EvidenceInit, SampleInv, SampleSound
<1> QED BY <1>8, <1>9, <1>11, <1>12, <1>13, <1>14, <1>15, <1>16, <1>17 DEF EvidenceInv

LEMMA EvidenceInvStep == EvidenceInv /\ [EvidenceNext]_evidenceVars => EvidenceInv'
<1> SUFFICES ASSUME EvidenceInv, [EvidenceNext]_evidenceVars PROVE EvidenceInv'
    OBVIOUS
<1> USE DEF EvidenceInv
<1>1. CASE EvidenceNext
  <2>1. EvidenceTypeOK'
      BY <1>1, StoreTypesHold
  <2>2. CallsFit' /\ EventsFit'
      BY <1>1, CallsStayFit, EventsStayFit
  <2>3. Kept' /\ Carried'
      BY <1>1, <2>1, KeptStays
  <2>4. CopiesCounted' /\ Capped'
      BY <1>1, <2>1, CopiesStayCounted, StaysCapped
  <2>5. WalkInv' /\ SampleInv'
      BY <1>1, <2>1, WalkStays, SampleStays
  <2> QED BY <2>1, <2>2, <2>3, <2>4, <2>5
<1>2. CASE UNCHANGED evidenceVars
  <2>1. EvidenceTypeOK' /\ CallsFit' /\ EventsFit'
      BY <1>2 DEF evidenceVars, EvidenceTypeOK, CallsFit, EventsFit, Known, Asked
  <2>2. Kept' /\ Carried' /\ CopiesCounted'
      BY <1>2
         DEF evidenceVars, Kept, Carried, CopiesCounted, Movers, Once, Copies, Retained, CutoffDay, HotSince
  <2>3. Capped' /\ SampleInv'
      BY <1>2
         DEF evidenceVars, Capped, Recorded, Appending, SampleInv, SampleSound, Retained, CutoffDay, HotSince
  <2>4. WalkInv'
    <3>1. UNCHANGED <<walk, topic, owed, calls[Auditor]>> /\ now <= now'
        BY <1>2 DEF evidenceVars, EvidenceTypeOK
    <3> QED BY <2>1, <3>1, WalkStands
  <2> QED BY <2>1, <2>2, <2>3, <2>4
<1> QED BY <1>1, <1>2

LEMMA EvidenceInvExact == EvidenceInv => EvidenceExact
<1> SUFFICES ASSUME EvidenceInv PROVE Bounded
    BY DEF EvidenceInv, EvidenceExact, CopiesCounted, WalkInv, SampleInv
<1>1. /\ Cardinality(Recorded) \in Nat /\ Cardinality(Appending) \in Nat
      /\ Cardinality(Callers \ {Auditor}) \in Nat /\ Cap \in Nat
  <2>1. Recorded \subseteq lines /\ IsFiniteSet(lines) /\ Appending \subseteq Callers
      BY DEF EvidenceInv, EvidenceTypeOK, Recorded, Appending
  <2> QED BY <2>1, Sizes, CallersFinite, EvidenceAssumption
<1> QED BY <1>1 DEF EvidenceInv, Capped, Bounded, Recorded

\* Acknowledged evidence stays for its window, once and below the cap, pages show
\* all of it and no ambiguous sample is offered, for any number of callers, events
\* and kills (FileStore: migrateLegacy, Prune, enforceQuota, Access).
THEOREM EvidenceStays == EvidenceSpec => []EvidenceExact
<1>1. EvidenceSpec => []EvidenceInv
    BY EvidenceInvInit, EvidenceInvStep, PTL DEF EvidenceSpec
<1> QED BY <1>1, EvidenceInvExact, PTL
==============================================================================
