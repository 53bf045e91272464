-------------------------- MODULE DeploymentProofs --------------------------
(***************************************************************************)
(* What a deployment keeps.  Managed provisioning: the order of ledger,    *)
(* backend and policy, and the fate of revoked grants and of sources.  The *)
(* state volume: what is not replaced after a loss.  For every set of      *)
(* repositories, commands, Catalogs and runs of init, every assignment of  *)
(* pools and every bound.                                                  *)
(***************************************************************************)
EXTENDS ManagedProvisioning, DeploymentState, WellFoundedInduction, TLAPS

Running == {"owner", "create", "owned", "open", "install", "grant", "ready"}

\* The fields of the state that the order of steps is about.
Shape ==
    /\ rec \in [Repos -> [phase : {"NONE", "RESERVED", "OWNED", "READY"},
                          cmd : Commands \cup {"none"}, head : Nat]]
    /\ backend \in [Repos -> [id : Nat, owner : {"none", "kc", "other"}]]
    /\ commands \in [Commands -> Repos \cup {"none"}]
    /\ used \in Nat
    /\ op = Idle \/ op \in [pc : Running, repo : Repos, head : Nat]

\* A record without a phase is no record; past RESERVED the source is recorded.
Recorded == \A r \in Repos :
    /\ rec[r].phase = "NONE" => rec[r] = NoRecord
    /\ rec[r].phase \in {"OWNED", "READY"} => rec[r].head # 0

\* A command of the index has reserved its repository.
Indexed == \A c \in Commands : commands[c] # "none" => rec[commands[c]] # NoRecord

\* What the call under way has already made durable.
Done == op # Idle =>
    /\ rec[op.repo] # NoRecord
    /\ op.pc = "owned" => op.head # 0
    /\ op.pc \in {"open", "install", "grant", "ready"} => rec[op.repo].head # 0
    /\ op.pc = "ready" => op.repo \in initial

\* A backend repository that stands has an id.
Standing == \A r \in Repos : backend[r] # NoBackend => backend[r].id # 0

IInv == Shape /\ Recorded /\ Indexed /\ Done /\ Standing /\ LedgerOrder

\* A step that leaves records, backend and policy alone only moves the call on.
LEMMA Quiet ==
    ASSUME IInv, UNCHANGED <<rec, commands, backend, used, initial>>,
           \/ op' = Idle
           \/ op' = op
           \/ /\ op # Idle
              /\ \E pc \in Running :
                   /\ op' = [op EXCEPT !.pc = pc]
                   /\ pc \in {"install", "grant"} =>
                        op.pc \in {"open", "install"}
                   /\ pc \in {"owner", "create", "install", "grant"}
    PROVE  IInv'
<1> USE DEF IInv
<1>1. Recorded' /\ Indexed' /\ Standing' /\ LedgerOrder'
    BY DEF Recorded, Indexed, Standing, LedgerOrder, NoOrphan, ReadyGranted
<1>2. CASE op' = Idle \/ op' = op
    BY <1>1, <1>2 DEF Shape, Done
<1>3. CASE op # Idle /\ op' # op /\ op' # Idle
  <2>1. PICK pc \in Running :
          /\ op' = [op EXCEPT !.pc = pc]
          /\ pc \in {"install", "grant"} => op.pc \in {"open", "install"}
          /\ pc \in {"owner", "create", "install", "grant"}
      BY <1>3
  <2>2. op \in [pc : Running, repo : Repos, head : Nat]
      BY <1>3 DEF Shape
  <2>3. op'.pc = pc /\ op'.repo = op.repo /\ op'.head = op.head
      BY <2>1, <2>2
  <2>4. op' \in [pc : Running, repo : Repos, head : Nat]
      BY <2>1, <2>2
  <2> QED BY <1>1, <1>3, <2>1, <2>2, <2>3, <2>4 DEF Shape, Done
<1> QED BY <1>2, <1>3

LEMMA OrderStep == IInv /\ [Next]_vars => IInv'
<1> SUFFICES ASSUME IInv, [Next]_vars PROVE IInv'
    OBVIOUS
<1>0. op # Idle => op \in [pc : Running, repo : Repos, head : Nat]
    BY DEF IInv, Shape
<1>1. ASSUME NEW c \in Commands, NEW r \in Repos, Reserve(c, r) PROVE IInv'
  <2>1. /\ rec[r] = NoRecord /\ op = Idle
        /\ rec' = [rec EXCEPT ![r] = [phase |-> "RESERVED", cmd |-> c, head |-> 0]]
        /\ commands' = [commands EXCEPT ![c] = r]
        /\ op' = [pc |-> "owner", repo |-> r, head |-> 0]
        /\ UNCHANGED <<backend, used, initial>>
      BY <1>1 DEF Reserve
  <2>2. Shape'
      BY <2>1 DEF IInv, Shape, Running
  <2>3. Recorded' /\ Done' /\ Standing'
      BY <2>1 DEF IInv, Shape, Recorded, Done, Standing, NoRecord
  <2>4. Indexed'
      BY <2>1, NoneAssumption DEF IInv, Shape, Indexed, NoRecord
  <2>5. LedgerOrder'
      BY <2>1 DEF IInv, Shape, LedgerOrder, NoOrphan, ReadyGranted, NoRecord
  <2> QED BY <2>2, <2>3, <2>4, <2>5 DEF IInv
<1>2. ASSUME NEW c \in Commands, NEW r \in Repos, Resume(c, r) PROVE IInv'
  <2>1. /\ op' = [pc |-> IF rec[r].phase = "RESERVED" THEN "owner" ELSE "open",
                  repo |-> r, head |-> 0]
        /\ commands[c] = r
        /\ UNCHANGED <<rec, commands, backend, used, initial>>
      BY <1>2 DEF Resume
  <2>2. rec[r] # NoRecord
      BY <2>1, NoneAssumption DEF IInv, Indexed
  <2>3. rec[r].phase \in {"RESERVED", "OWNED", "READY"}
      BY <2>2 DEF IInv, Shape, Recorded
  <2>4. Shape' /\ Done'
      BY <2>1, <2>2, <2>3 DEF IInv, Shape, Running, Recorded, Done
  <2> QED BY <2>1, <2>4 DEF IInv, Recorded, Indexed, Standing, LedgerOrder, NoOrphan,
             ReadyGranted
<1>3. CASE EnsureOwner
  <2>1. op # Idle
      BY <1>3, <1>0 DEF EnsureOwner, Idle
  <2> QED BY <1>3, <2>1, Quiet DEF EnsureOwner, Running
<1>4. CASE Created \/ CreatedLost
  <2>1. /\ op.pc = "create" /\ op # Idle
        /\ used' = used + 1
        /\ backend' = [backend EXCEPT ![op.repo] = [id |-> used + 1, owner |-> "kc"]]
        /\ op' = Idle \/ op' = [op EXCEPT !.pc = "owned", !.head = used + 1]
        /\ UNCHANGED <<rec, commands, initial>>
      BY <1>4 DEF Created, CreatedLost, CreateBackend, Idle
  <2>2. op' = Idle \/ op' = [pc |-> "owned", repo |-> op.repo, head |-> used + 1]
      BY <1>0, <2>1
  <2>3. Shape'
      BY <1>0, <2>1, <2>2 DEF IInv, Shape, Running
  <2>4. Done' /\ Standing' /\ LedgerOrder'
      BY <1>0, <2>1, <2>2 DEF IInv, Shape, Done, Standing, LedgerOrder, NoOrphan, ReadyGranted,
           Idle
  <2> QED BY <2>1, <2>3, <2>4 DEF IInv, Recorded, Indexed
<1>5. CASE Adopt
  <2>1. /\ op.pc = "create" /\ op # Idle /\ backend[op.repo] # NoBackend
        /\ op' = Idle \/ op' = [op EXCEPT !.pc = "owned", !.head = backend[op.repo].id]
        /\ UNCHANGED <<rec, commands, backend, used, initial>>
      BY <1>5 DEF Adopt, Idle
  <2>2. op' = Idle \/ op' = [pc |-> "owned", repo |-> op.repo, head |-> backend[op.repo].id]
      BY <1>0, <2>1
  <2>3. Shape' /\ Done'
      BY <1>0, <2>1, <2>2 DEF IInv, Shape, Running, Standing, Done, Idle
  <2> QED BY <2>1, <2>3 DEF IInv, Recorded, Indexed, Standing, LedgerOrder, NoOrphan,
             ReadyGranted
<1>6. CASE SaveOwned
  <2>1. /\ op.pc = "owned" /\ op # Idle /\ op.head # 0 /\ op.head \in Nat
        /\ rec' = [rec EXCEPT ![op.repo].phase = "OWNED", ![op.repo].head = op.head]
        /\ op' = [op EXCEPT !.pc = "install"]
        /\ UNCHANGED <<commands, backend, used, initial>>
      BY <1>0, <1>6 DEF SaveOwned, Goto, Idle, IInv, Done
  <2>2. op' = [pc |-> "install", repo |-> op.repo, head |-> op.head]
      BY <1>0, <2>1
  <2>3. rec' = [rec EXCEPT ![op.repo] =
                  [phase |-> "OWNED", cmd |-> rec[op.repo].cmd, head |-> op.head]]
    <3>1. rec \in [Repos -> [phase : {"NONE", "RESERVED", "OWNED", "READY"},
                            cmd : Commands \cup {"none"}, head : Nat]]
        BY DEF IInv, Shape
    <3>2. op.repo \in Repos
        BY <1>0, <2>1
    <3>3. rec'[op.repo] = [phase |-> "OWNED", cmd |-> rec[op.repo].cmd, head |-> op.head]
        BY <2>1, <3>1, <3>2
    <3>4. \A r \in Repos \ {op.repo} : rec'[r] = rec[r]
        BY <2>1, <3>1, <3>2
    <3>5. rec' = [r \in Repos |-> rec'[r]]
        BY <2>1, <3>1, <3>2
    <3> QED BY <3>1, <3>2, <3>3, <3>4, <3>5
  <2>4. Shape'
      BY <1>0, <2>1, <2>2, <2>3 DEF IInv, Shape, Running
  <2>5. Recorded' /\ Indexed' /\ Done'
      BY <1>0, <2>1, <2>2, <2>3 DEF IInv, Shape, Recorded, Indexed, Done, NoRecord, Idle
  <2>6. LedgerOrder'
      BY <1>0, <2>1, <2>3 DEF IInv, Shape, LedgerOrder, NoOrphan, ReadyGranted, NoRecord
  <2> QED BY <2>1, <2>4, <2>5, <2>6 DEF IInv, Standing
<1>7. CASE Open \/ Install
  <2>1. op # Idle
      BY <1>7, <1>0 DEF Open, Install, Idle
  <2> QED BY <1>7, <2>1, Quiet DEF Open, Install, Goto, Running
<1>8. CASE Grant
  <2>1. /\ op.pc = "grant" /\ op # Idle
        /\ initial' = initial \cup {op.repo}
        /\ op' = [op EXCEPT !.pc = "ready"]
        /\ UNCHANGED <<rec, commands, backend, used>>
      BY <1>8 DEF Grant, Goto, Idle
  <2>2. op' = [pc |-> "ready", repo |-> op.repo, head |-> op.head]
      BY <1>0, <2>1
  <2>3. Shape' /\ Done'
      BY <1>0, <2>1, <2>2 DEF IInv, Shape, Running, Done
  <2> QED BY <2>1, <2>3 DEF IInv, Recorded, Indexed, Standing, LedgerOrder, NoOrphan,
             ReadyGranted
<1>9. CASE SaveReady
  <2>1. /\ op.pc = "ready" /\ op # Idle /\ rec[op.repo].head # 0 /\ op.repo \in initial
        /\ rec[op.repo] # NoRecord
        /\ rec' = [rec EXCEPT ![op.repo].phase = "READY"]
        /\ op' = Idle
        /\ UNCHANGED <<commands, backend, used, initial>>
      BY <1>9 DEF SaveReady, Idle, IInv, Done
  <2>2. rec' = [rec EXCEPT ![op.repo] =
                  [phase |-> "READY", cmd |-> rec[op.repo].cmd, head |-> rec[op.repo].head]]
    <3>1. rec[op.repo] \in [phase : {"NONE", "RESERVED", "OWNED", "READY"},
                            cmd : Commands \cup {"none"}, head : Nat]
        BY <1>0, <2>1 DEF IInv, Shape
    <3>2. [rec[op.repo] EXCEPT !.phase = "READY"] =
            [phase |-> "READY", cmd |-> rec[op.repo].cmd, head |-> rec[op.repo].head]
        BY <3>1
    <3> QED BY <2>1, <3>2
  <2>3. Shape'
      BY <1>0, <2>1, <2>2 DEF IInv, Shape
  <2>4. Recorded' /\ Indexed' /\ Done'
      BY <1>0, <2>1, <2>2 DEF IInv, Shape, Recorded, Indexed, Done, NoRecord
  <2>5. LedgerOrder'
      BY <1>0, <2>1, <2>2 DEF IInv, Shape, LedgerOrder, NoOrphan, ReadyGranted, NoRecord
  <2> QED BY <2>1, <2>3, <2>4, <2>5 DEF IInv, Standing
<1>10. CASE GrantRefused \/ CallFails \/ Crash \/ Boot \/ ArchiveCatalog \/ UNCHANGED vars
    BY <1>10, Quiet DEF GrantRefused, CallFails, Crash, Boot, ArchiveCatalog, vars
<1>11. ASSUME NEW r \in Repos, Revoke(r) PROVE IInv'
    BY <1>11, Quiet DEF Revoke
<1>12. ASSUME NEW r \in Repos, Disturb(r) PROVE IInv'
  <2>1. /\ \/ backend' = [backend EXCEPT ![r] = NoBackend] /\ used' = used
           \/ backend' = [backend EXCEPT ![r] = [id |-> used + 1, owner |-> "other"]]
                /\ used' = used + 1
        /\ UNCHANGED <<rec, commands, initial, op>>
      BY <1>12 DEF Disturb
  <2>2. Shape'
      BY <2>1 DEF IInv, Shape, NoBackend
  <2>3. Standing' /\ LedgerOrder'
      BY <2>1 DEF IInv, Shape, Standing, LedgerOrder, NoOrphan, ReadyGranted, NoBackend
  <2> QED BY <2>1, <2>2, <2>3 DEF IInv, Recorded, Indexed, Done
<1> QED BY <1>1, <1>2, <1>3, <1>4, <1>5, <1>6, <1>7, <1>8, <1>9, <1>10, <1>11, <1>12
          DEF Next, Step

\* A backend repository never stands without its allocation, and READY never
\* without recorded source and applied grant, whatever call failed or died.
THEOREM ManagedLedgerOrder == Spec => []LedgerOrder
<1>1. Init => IInv
  <2>1. Init => Shape
      BY DEF Init, Shape, NoRecord, NoBackend
  <2>2. Init => Recorded /\ Indexed /\ Done /\ Standing /\ LedgerOrder
      BY DEF Init, Recorded, Indexed, Done, Standing, LedgerOrder, NoOrphan, ReadyGranted,
           NoRecord, NoBackend
  <2> QED BY <2>1, <2>2 DEF IInv
<1>2. IInv => LedgerOrder
    BY DEF IInv
<1> QED BY <1>1, <1>2, OrderStep, PTL DEF Spec

\* A creator's grant that was applied and revoked is never applied again.
THEOREM ManagedNoRegrant == Spec => NoRegrant
<1>1. [Next]_vars =>
        [\A r \in Repos : r \in initial /\ r \notin granted => r \notin granted']_vars
    BY DEF Next, Step, vars, Reserve, Resume, EnsureOwner, Created, CreatedLost, CreateBackend,
         Adopt, SaveOwned, Open, Install, Grant, GrantRefused, SaveReady, CallFails, Crash,
         Boot, Revoke, ArchiveCatalog, Disturb
<1> QED BY <1>1, PTL DEF Spec, NoRegrant
---------------------------------------------------------------------------
\* Whatever a Gitea address holds under the allocation's token, and whatever
\* the call under way is about to record of it, this deployment created.
CreatedHere == \A r \in Repos : Driver[r] = "gitea" /\ backend[r].owner = "kc" => backend[r].id \in made

Carried == op # Idle /\ op.pc = "owned" /\ Driver[op.repo] = "gitea" => op.head \in made

\* A source is recorded once, by the step that leaves RESERVED.
Unrecorded ==
    /\ \A r \in Repos : rec[r].phase \in {"NONE", "RESERVED"} => rec[r].head = 0
    /\ op # Idle /\ op.pc \in {"owner", "create", "owned"} => rec[op.repo].head = 0

SInv == IInv /\ CreatedHere /\ Carried /\ Unrecorded /\ OwnSource

\* A step that records nothing and creates nothing, and does not reach "owned".
LEMMA QuietSource ==
    ASSUME SInv, UNCHANGED <<rec, made>>,
           \A r \in Repos : backend'[r] = backend[r] \/ backend'[r].owner # "kc",
           \/ op' = Idle
           \/ op' = op
           \/ /\ op # Idle /\ op.pc \notin {"owned"} /\ op'.repo = op.repo /\ op'.pc # "owned"
              /\ op'.pc \in {"owner", "create"} => op.pc \in {"owner", "create"}
    PROVE  CreatedHere' /\ Carried' /\ Unrecorded' /\ OwnSource'
<1>1. CreatedHere' /\ OwnSource'
    BY DEF SInv, CreatedHere, OwnSource
<1>2. Carried' /\ Unrecorded'
    BY DEF SInv, Carried, Unrecorded
<1> QED BY <1>1, <1>2

LEMMA SourceStep == SInv /\ [Next]_vars => SInv'
<1> SUFFICES ASSUME SInv, [Next]_vars PROVE CreatedHere' /\ Carried' /\ Unrecorded' /\ OwnSource'
    BY OrderStep DEF SInv
<1>0. op # Idle => op \in [pc : Running, repo : Repos, head : Nat]
    BY DEF SInv, IInv, Shape
<1>1. ASSUME NEW c \in Commands, NEW r \in Repos, Reserve(c, r)
      PROVE  CreatedHere' /\ Carried' /\ Unrecorded' /\ OwnSource'
  <2>1. /\ rec' = [rec EXCEPT ![r] = [phase |-> "RESERVED", cmd |-> c, head |-> 0]]
        /\ op' = [pc |-> "owner", repo |-> r, head |-> 0] /\ UNCHANGED <<backend, made>>
      BY <1>1 DEF Reserve
  <2>2. rec'[r].head = 0 /\ \A q \in Repos \ {r} : rec'[q] = rec[q]
      BY <2>1 DEF SInv, IInv, Shape
  <2>3. Unrecorded'
      BY <2>1, <2>2 DEF SInv, Unrecorded
  <2>4. CreatedHere' /\ Carried' /\ OwnSource'
      BY <2>1, <2>2 DEF SInv, CreatedHere, Carried, OwnSource
  <2> QED BY <2>3, <2>4
<1>2. ASSUME NEW c \in Commands, NEW r \in Repos, Resume(c, r)
      PROVE  CreatedHere' /\ Carried' /\ Unrecorded' /\ OwnSource'
  <2>1. /\ op' = [pc |-> IF rec[r].phase = "RESERVED" THEN "owner" ELSE "open", repo |-> r, head |-> 0]
        /\ UNCHANGED <<rec, backend, made>>
      BY <1>2 DEF Resume
  <2>2. op'.pc \in {"owner", "open"} /\ op'.repo = r /\ (op'.pc = "owner" => rec[r].phase = "RESERVED")
      BY <2>1
  <2> QED BY <2>1, <2>2 DEF SInv, CreatedHere, Carried, Unrecorded, OwnSource
<1>3. CASE EnsureOwner \/ Open \/ Install \/ Grant
  <2>1. op # Idle /\ op.pc \in {"owner", "open", "install", "grant"} /\ UNCHANGED <<rec, backend, made>>
      BY <1>3 DEF EnsureOwner, Open, Install, Grant, Idle
  <2>2. \/ op' = Idle
        \/ \E pc \in {"install", "grant", "ready"} : op' = [op EXCEPT !.pc = pc]
        \/ op.pc = "owner" /\ op' = [op EXCEPT !.pc = "create"]
      BY <1>3 DEF EnsureOwner, Open, Install, Grant, Goto
  <2>3. \/ op' = Idle
        \/ /\ op'.repo = op.repo /\ op'.pc # "owned"
           /\ op'.pc \in {"owner", "create"} => op.pc \in {"owner", "create"}
      BY <1>0, <2>1, <2>2
  <2> QED BY <2>1, <2>3, QuietSource
<1>4. CASE Created \/ CreatedLost
  <2>1. /\ op.pc = "create" /\ op # Idle /\ UNCHANGED rec
        /\ backend' = [backend EXCEPT ![op.repo] = [id |-> used + 1, owner |-> "kc"]]
        /\ made' = made \cup {used + 1}
        /\ op' = Idle \/ op' = [op EXCEPT !.pc = "owned", !.head = used + 1]
      BY <1>4 DEF Created, CreatedLost, CreateBackend, Idle
  <2>2. op' = Idle \/ op' = [pc |-> "owned", repo |-> op.repo, head |-> used + 1]
      BY <1>0, <2>1
  <2>3. backend'[op.repo].id \in made' /\ \A r \in Repos \ {op.repo} : backend'[r] = backend[r]
      BY <1>0, <2>1 DEF SInv, IInv, Shape
  <2>4. CreatedHere' /\ OwnSource'
      BY <2>1, <2>3 DEF SInv, CreatedHere, OwnSource
  <2>5. Carried' /\ Unrecorded'
      BY <2>1, <2>2 DEF SInv, Carried, Unrecorded
  <2> QED BY <2>4, <2>5
<1>5. CASE Adopt
  <2>1. /\ op.pc = "create" /\ op # Idle /\ UNCHANGED <<rec, backend, made>>
        /\ \/ op' = Idle
           \/ VerifyManaged(op.repo) /\ op' = [op EXCEPT !.pc = "owned", !.head = backend[op.repo].id]
      BY <1>5 DEF Adopt, Idle
  <2>2. op.repo \in Repos
      BY <1>0, <2>1
  <2>3. \/ op' = Idle
        \/ /\ op' = [pc |-> "owned", repo |-> op.repo, head |-> backend[op.repo].id]
           /\ Driver[op.repo] = "gitea" => backend[op.repo].id \in made
      BY <1>0, <2>1, <2>2 DEF VerifyManaged, SInv, CreatedHere
  <2>4. Carried' /\ Unrecorded'
      BY <2>1, <2>3 DEF SInv, Carried, Unrecorded
  <2> QED BY <2>1, <2>4 DEF SInv, CreatedHere, OwnSource
<1>6. CASE SaveOwned
  <2>1. /\ op.pc = "owned" /\ op # Idle /\ UNCHANGED <<backend, made>>
        /\ rec' = [rec EXCEPT ![op.repo].phase = "OWNED", ![op.repo].head = op.head]
        /\ op' = [op EXCEPT !.pc = "install"]
      BY <1>6 DEF SaveOwned, Goto, Idle
  <2>2. op.repo \in Repos /\ op'.pc = "install"
      BY <1>0, <2>1
  <2>3. /\ rec'[op.repo].phase = "OWNED" /\ rec'[op.repo].head = op.head
        /\ \A r \in Repos \ {op.repo} : rec'[r] = rec[r]
      BY <2>1, <2>2 DEF SInv, IInv, Shape
  <2>4. Driver[op.repo] = "gitea" => op.head \in made
      BY <2>1 DEF SInv, Carried
  <2>5. OwnSource' /\ CreatedHere'
    <3>1. ASSUME NEW r \in Repos, Driver[r] = "gitea", rec'[r].head # 0 PROVE rec'[r].head \in made
      <4>1. CASE r = op.repo
          BY <2>3, <2>4, <3>1, <4>1
      <4>2. CASE r # op.repo
          BY <2>3, <3>1, <4>2 DEF SInv, OwnSource
      <4> QED BY <4>1, <4>2
    <3>2. made' = made /\ backend' = backend
        BY <2>1
    <3> QED BY <3>1, <3>2 DEF SInv, OwnSource, CreatedHere
  <2>6. Carried' /\ Unrecorded'
      BY <2>2, <2>3 DEF SInv, Carried, Unrecorded
  <2> QED BY <2>5, <2>6
<1>7. CASE SaveReady
  <2>1. /\ op.pc = "ready" /\ op # Idle /\ op' = Idle /\ UNCHANGED <<backend, made>>
        /\ rec' = [rec EXCEPT ![op.repo].phase = "READY"]
      BY <1>7 DEF SaveReady, Idle
  <2>2. op.repo \in Repos
      BY <1>0, <2>1
  <2>3. /\ rec'[op.repo].phase = "READY" /\ rec'[op.repo].head = rec[op.repo].head
        /\ \A r \in Repos \ {op.repo} : rec'[r] = rec[r]
      BY <2>1, <2>2 DEF SInv, IInv, Shape
  <2>4. Unrecorded' /\ Carried'
      BY <2>1, <2>3 DEF SInv, Unrecorded, Carried
  <2> QED BY <2>1, <2>3, <2>4 DEF SInv, CreatedHere, OwnSource
<1>8. CASE GrantRefused \/ CallFails \/ Crash \/ Boot \/ ArchiveCatalog \/ UNCHANGED vars
    BY <1>8, QuietSource DEF GrantRefused, CallFails, Crash, Boot, ArchiveCatalog, vars
<1>9. ASSUME NEW r \in Repos, Revoke(r) \/ Disturb(r)
      PROVE  CreatedHere' /\ Carried' /\ Unrecorded' /\ OwnSource'
  <2>1. UNCHANGED <<rec, made, op>> /\ \A q \in Repos : backend'[q] = backend[q] \/ backend'[q].owner # "kc"
      BY <1>9 DEF Revoke, Disturb, NoBackend, SInv, IInv, Shape
  <2> QED BY <2>1, QuietSource
<1> QED BY <1>1, <1>2, <1>3, <1>4, <1>5, <1>6, <1>7, <1>8, <1>9 DEF Next, Step

\* The inductive invariant about sources holds throughout.
THEOREM ManagedSources == Spec => []SInv
<1>1. Init => IInv
  <2>1. Init => Shape
      BY DEF Init, Shape, NoRecord, NoBackend
  <2>2. Init => Recorded /\ Indexed /\ Done /\ Standing /\ LedgerOrder
      BY DEF Init, Recorded, Indexed, Done, Standing, LedgerOrder, NoOrphan, ReadyGranted,
           NoRecord, NoBackend
  <2> QED BY <2>1, <2>2 DEF IInv
<1>2. Init => SInv
    BY <1>1 DEF Init, SInv, CreatedHere, Carried, Unrecorded, OwnSource, NoRecord, NoBackend
<1> QED BY <1>2, SourceStep, PTL DEF Spec

\* With Gitea the recorded source is one this deployment created: a conflict
\* at the address is never accepted blindly (createManaged, VerifyManaged).
THEOREM ManagedOwnSource == Spec => []OwnSource
<1>1. SInv => OwnSource
    BY DEF SInv
<1> QED BY <1>1, ManagedSources, PTL

\* Once its source is recorded a repository is only ever opened, never created
\* anew, however often its command is repeated (CreateManagedRepository).
THEOREM ManagedNeverRecreated == Spec => NeverRecreated
<1> DEFINE Kept == \A r \in Repos : rec[r].head # 0 /\ backend'[r] # backend[r] => backend'[r].owner # "kc"
<1>1. SInv /\ [Next]_vars => [Kept]_vars
  <2> SUFFICES ASSUME SInv, Next PROVE Kept
      OBVIOUS
  <2>1. CASE Created \/ CreatedLost
    <3>1. /\ op.pc = "create" /\ op # Idle
          /\ backend' = [backend EXCEPT ![op.repo] = [id |-> used + 1, owner |-> "kc"]]
        BY <2>1 DEF Created, CreatedLost, CreateBackend, Idle
    <3>2. rec[op.repo].head = 0
        BY <3>1 DEF SInv, Unrecorded
    <3> QED BY <3>1, <3>2 DEF SInv, IInv, Shape
  <2>2. ASSUME NEW r \in Repos, Disturb(r) PROVE Kept
      BY <2>2 DEF Disturb, NoBackend, SInv, IInv, Shape
  <2>3. \/ backend' = backend \/ Created \/ CreatedLost \/ \E r \in Repos : Disturb(r)
      BY DEF Next, Step, Reserve, Resume, EnsureOwner, Adopt, SaveOwned, Open, Install, Grant,
           GrantRefused, SaveReady, CallFails, Crash, Boot, Revoke, ArchiveCatalog
  <2> QED BY <2>1, <2>2, <2>3
<1> QED BY <1>1, ManagedSources, PTL DEF Spec, NeverRecreated

---------------------------------------------------------------------------
(***************************************************************************)
(* The state volume.                                                       *)
(***************************************************************************)
\* Catalogs are numbered, the first is configured from the start, and one part at
\* most is lost: whoever loses the volume and every Catalog starts from nothing.
OnePartLost == Catalogs \subseteq Nat /\ 1 \in Catalogs /\ MaxLosses \in {0, 1}

Run == [pc : {"catalogs"} \cup Ledgers, kind : {"first", "upgrade"}, todo : SUBSET Catalogs,
        cats : SUBSET Catalogs, led : SUBSET Ledgers]

Receipts == [cats : SUBSET Catalogs, led : SUBSET Ledgers]

Volume ==
    /\ config \subseteq Catalogs /\ config # {}
    /\ files \in [Parts -> {"none", "torn", "fresh", "used"}]
    /\ registry \in [Catalogs -> {"none", "fresh", "used"}]
    /\ known \in [files : SUBSET Parts, cats : SUBSET Catalogs]
    /\ marker = NoMarker \/ marker \in Receipts
    /\ init \in [Inits -> Run \cup {NotInstalling}]
    /\ losses \in Nat

Kept(cats) == \A c \in cats : registry[c] # "none"

Untouched == known.files = {} /\ known.cats = {}

\* A marker vouches for everything that ever held content.
Receipted == marker # NoMarker =>
    /\ marker.cats # {} /\ marker.cats \subseteq config /\ known.cats \subseteq marker.cats
    /\ known.files \cap Ledgers \subseteq marker.led
    /\ losses = 0 => Kept(marker.cats)
    /\ serving => config \subseteq marker.cats

\* Where it is lost, a Catalog still stands.
Bereft == marker = NoMarker => Untouched \/ (losses # 0 /\ \E c \in config : registry[c] # "none")

Content == \A c \in Catalogs : registry[c] = "used" => c \in known.cats

First(run) ==
    /\ run.pc = "catalogs" /\ run.led = Ledgers
    /\ run.cats \cup run.todo = config /\ Kept(run.cats)
    /\ marker = NoMarker => Untouched
    /\ marker # NoMarker => Kept(marker.cats)

Upgrade(run) ==
    /\ marker # NoMarker
    /\ marker.cats \subseteq run.cats /\ run.cats \cup run.todo \subseteq config
    /\ marker.led \subseteq run.led
    /\ losses = 0 => Kept(run.cats)

UnderWay == \A i \in Inits : init[i] # NotInstalling =>
    /\ init[i].kind = "first" => First(init[i])
    /\ init[i].kind = "upgrade" => Upgrade(init[i]) /\ \A j \in Inits \ {i} : init[j] = NotInstalling

StateInv == Volume /\ Receipted /\ Bereft /\ Content /\ UnderWay

LEMMA NextCatalog ==
    ASSUME Catalogs \subseteq Nat, NEW todo \in SUBSET Catalogs, todo # {}
    PROVE  NextOf(todo) \in todo
<1> DEFINE less == OpToRel(<, Nat)
<1>1. IsWellFoundedOn(less, Nat)
    BY NatLessThanWellFounded
<1>2. \A d, c \in Nat : d < c => <<d, c>> \in less
    BY DEF OpToRel
<1> HIDE DEF less
<1>3. PICK c \in todo : \A d \in todo : ~(<<d, c>> \in less)
    BY <1>1, WFMin
<1>4. \A d \in todo : c <= d
  <2> TAKE d \in todo
  <2>1. ~(d < c)
      BY <1>2, <1>3
  <2> QED BY <2>1
<1> QED BY <1>4 DEF NextOf

LEMMA NextLedgerMissing ==
    ASSUME NEW led \in SUBSET Ledgers, led # Ledgers
    PROVE  NextLedger(led) \in Ledgers \ led
<1> DEFINE good(n) == LedgerSequence[n] \notin led /\ \A m \in 1 .. n - 1 : LedgerSequence[m] \in led
<1>1. LedgerSequence[1] = "connection" /\ LedgerSequence[2] = "identity" /\ LedgerSequence[3] = "managed"
    BY DEF LedgerSequence
<1>2. \E n \in 1 .. 3 : good(n)
  <2>1. CASE "connection" \notin led
    <3>1. good(1)
        BY <1>1, <2>1
    <3> QED BY <3>1
  <2>2. CASE "connection" \in led /\ "identity" \notin led
    <3>1. \A m \in 1 .. 2 - 1 : m = 1
        OBVIOUS
    <3>2. good(2)
        BY <1>1, <2>2, <3>1
    <3> QED BY <3>2
  <2>3. CASE "connection" \in led /\ "identity" \in led
    <3>1. "managed" \notin led
        BY <2>3 DEF Ledgers
    <3>2. \A m \in 1 .. 3 - 1 : m = 1 \/ m = 2
        OBVIOUS
    <3>3. good(3)
        BY <1>1, <2>3, <3>1, <3>2
    <3> QED BY <3>3
  <2> QED BY <2>1, <2>2, <2>3
<1> DEFINE k == CHOOSE n \in 1 .. 3 : good(n)
<1>3. k \in 1 .. 3 /\ LedgerSequence[k] \notin led
    BY <1>2
<1>4. LedgerSequence[k] \in Ledgers
  <2> HIDE DEF k
  <2>1. k = 1 \/ k = 2 \/ k = 3
      BY <1>3
  <2> QED BY <1>1, <2>1 DEF Ledgers
<1> QED BY <1>3, <1>4 DEF NextLedger

\* Only run i moves on.
LEMMA RunMoves ==
    ASSUME Volume, NEW i \in Inits, NEW r \in Run \cup {NotInstalling}, init' = [init EXCEPT ![i] = r]
    PROVE  /\ init' \in [Inits -> Run \cup {NotInstalling}] /\ init'[i] = r
           /\ \A j \in Inits \ {i} : init'[j] = init[j]
BY DEF Volume

\* A run that ends, and nothing else.
LEMMA RunEnds ==
    ASSUME StateInv, NEW i \in Inits, init' = [init EXCEPT ![i] = NotInstalling],
           UNCHANGED <<config, marker, files, registry, serving, known, losses>>
    PROVE  StateInv'
<1>1. /\ init' \in [Inits -> Run \cup {NotInstalling}] /\ init'[i] = NotInstalling
      /\ \A j \in Inits \ {i} : init'[j] = init[j]
    BY RunMoves DEF StateInv
<1>2. UnderWay'
    BY <1>1 DEF StateInv, UnderWay, First, Upgrade, Kept, Untouched
<1>3. Volume' /\ Receipted' /\ Bereft' /\ Content'
    BY <1>1 DEF StateInv, Volume, Receipted, Bereft, Content, Kept, Untouched
<1> QED BY <1>2, <1>3 DEF StateInv

NothingNew ==
    /\ \A p \in known.files \ {"access"} : files[p] = "none" => files'[p] = "none"
    /\ \A c \in known.cats : registry[c] = "none" => registry'[c] = "none"
    /\ marker = NoMarker /\ marker' # NoMarker => \A c \in marker'.cats : registry[c] # "used"

LEMMA BeginStep ==
    ASSUME StateInv, NEW i \in Inits, BeginFresh(i) \/ BeginUpgrade(i)
    PROVE  StateInv' /\ NothingNew
<1>1. UNCHANGED <<config, marker, files, registry, serving, known, losses>>
    BY DEF BeginFresh, BeginUpgrade
<1>2. Receipted' /\ Bereft' /\ Content' /\ NothingNew
    BY <1>1 DEF StateInv, Receipted, Bereft, Content, Kept, Untouched, NothingNew
<1>3. CASE BeginFresh(i)
  <2> DEFINE r == [pc |-> "catalogs", kind |-> "first", todo |-> config, cats |-> {}, led |-> Ledgers]
  <2>1. r \in Run /\ r.kind = "first" /\ r.pc = "catalogs" /\ r.led = Ledgers /\ r.cats = {} /\ r.todo = config
      BY DEF Run, StateInv, Volume
  <2>2. init' = [init EXCEPT ![i] = r] /\ marker = NoMarker /\ \A c \in config : registry[c] = "none"
      BY <1>3 DEF BeginFresh
  <2> HIDE DEF r
  <2>3. /\ init' \in [Inits -> Run \cup {NotInstalling}] /\ init'[i] = r
        /\ \A j \in Inits \ {i} : init'[j] = init[j]
      BY <2>1, <2>2, RunMoves DEF StateInv
  <2>4. Untouched
      BY <2>2 DEF StateInv, Bereft
  <2>5. UnderWay'
    <3>1. First(init[i])'
      <4>1. /\ config' = config /\ init'[i] = r /\ registry' = registry /\ marker' = NoMarker /\ Untouched'
          BY <1>1, <2>2, <2>3, <2>4 DEF Untouched
      <4>2. init'[i].cats = {} /\ init'[i].todo = config' /\ init'[i].pc = "catalogs" /\ init'[i].led = Ledgers
          BY <2>1, <4>1
      <4>3. init'[i].cats \cup init'[i].todo = config'
          BY <4>2
      <4>4. \A c \in init'[i].cats : registry'[c] # "none"
          BY <4>2
      <4> QED BY <4>1, <4>2, <4>3, <4>4 DEF First, Kept
    <3>2. \A j \in Inits : init[j] # NotInstalling => init[j].kind # "upgrade"
        BY <2>2 DEF StateInv, UnderWay, Upgrade
    <3>3. \A j \in Inits \ {i} : init'[j] # NotInstalling => init'[j].kind # "upgrade"
        BY <2>3, <3>2
    <3>4. ASSUME NEW j \in Inits \ {i}, init'[j] # NotInstalling, init'[j].kind = "first" PROVE First(init[j])'
        BY <1>1, <2>3, <3>4 DEF StateInv, UnderWay, First, Kept, Untouched
    <3> QED BY <2>1, <2>3, <3>1, <3>3, <3>4 DEF UnderWay
  <2>6. Volume'
      BY <1>1, <2>3 DEF StateInv, Volume
  <2> QED BY <1>2, <2>5, <2>6 DEF StateInv
<1>4. CASE BeginUpgrade(i)
  <2> DEFINE r == [pc |-> "catalogs", kind |-> "upgrade", todo |-> config, cats |-> marker.cats, led |-> marker.led]
  <2>1. init' = [init EXCEPT ![i] = r] /\ marker # NoMarker /\ \A j \in Inits : init[j] = NotInstalling
      BY <1>4 DEF BeginUpgrade, Validate
  <2>2. /\ r \in Run /\ r.kind = "upgrade" /\ r.cats = marker.cats /\ r.led = marker.led /\ r.todo = config
      BY <2>1 DEF Run, StateInv, Volume, Receipts
  <2> HIDE DEF r
  <2>3. /\ init' \in [Inits -> Run \cup {NotInstalling}] /\ init'[i] = r
        /\ \A j \in Inits \ {i} : init'[j] = init[j]
      BY <2>1, <2>2, RunMoves DEF StateInv
  <2>4. Upgrade(init[i])'
      BY <1>1, <2>1, <2>2, <2>3 DEF StateInv, Receipted, Upgrade, Kept
  <2>5. \A j \in Inits \ {i} : init'[j] = NotInstalling
      BY <2>1, <2>3
  <2>6. UnderWay'
      BY <2>2, <2>3, <2>4, <2>5 DEF UnderWay
  <2>7. Volume'
      BY <1>1, <2>3 DEF StateInv, Volume
  <2> QED BY <1>2, <2>6, <2>7 DEF StateInv
<1> QED BY <1>3, <1>4

LEMMA AuthorityStep ==
    ASSUME OnePartLost, StateInv, NEW i \in Inits, EnsureCatalog(i)
    PROVE  StateInv' /\ NothingNew
<1> DEFINE c == NextOf(init[i].todo)
           r == [init[i] EXCEPT !.todo = @ \ {c}, !.cats = @ \cup {c}]
<1>1. /\ init[i] # NotInstalling /\ init[i] \in Run /\ init[i].todo # {}
      /\ UNCHANGED <<config, marker, files, serving, known, losses>>
  <2>1. init[i].pc = "catalogs" /\ init[i].todo # {}
      BY DEF EnsureCatalog
  <2>2. init[i] # NotInstalling
      BY <2>1 DEF NotInstalling
  <2> QED BY <2>1, <2>2 DEF EnsureCatalog, StateInv, Volume
<1>2. c \in init[i].todo /\ c \in Catalogs
    BY <1>1, NextCatalog DEF Run, OnePartLost
<1>3. CASE init' = [init EXCEPT ![i] = NotInstalling] /\ UNCHANGED registry
    BY <1>1, <1>3, RunEnds DEF NothingNew
<1>4. CASE /\ IF init[i].kind = "first" THEN registry[c] = "none" ELSE ~(registry[c] = "none" /\ c \in init[i].cats)
           /\ registry' = [registry EXCEPT ![c] = IF @ = "none" THEN "fresh" ELSE @]
           /\ init' = [init EXCEPT ![i] = r]
  <2>1. /\ r \in Run /\ r.kind = init[i].kind /\ r.pc = init[i].pc /\ r.led = init[i].led
        /\ r.cats = init[i].cats \cup {c} /\ r.todo = init[i].todo \ {c}
      BY <1>1, <1>2 DEF Run
  <2> HIDE DEF r, c
  <2>2. /\ init' \in [Inits -> Run \cup {NotInstalling}] /\ init'[i] = r
        /\ \A j \in Inits \ {i} : init'[j] = init[j]
      BY <1>4, <2>1, RunMoves DEF StateInv
  <2>3. /\ registry' \in [Catalogs -> {"none", "fresh", "used"}] /\ registry'[c] # "none"
        /\ \A d \in Catalogs : /\ registry[d] # "none" => registry'[d] = registry[d]
                               /\ registry'[d] = "used" => registry[d] = "used"
                               /\ registry'[d] # registry[d] => d = c
      BY <1>2, <1>4 DEF StateInv, Volume
  <2>4. registry[c] = "none" => c \notin known.cats
    <3>1. CASE init[i].kind = "first"
      <4>1. First(init[i])
          BY <1>1, <3>1 DEF StateInv, UnderWay
      <4> QED BY <4>1 DEF StateInv, Receipted, First, Kept, Untouched
    <3>2. CASE init[i].kind = "upgrade"
      <4>1. Upgrade(init[i])
          BY <1>1, <3>2 DEF StateInv, UnderWay
      <4> QED BY <1>4, <3>2, <4>1 DEF StateInv, Receipted, Upgrade
    <3> QED BY <1>1, <3>1, <3>2 DEF Run
  <2>5. NothingNew
      BY <1>1, <2>3, <2>4 DEF NothingNew, StateInv, Volume
  <2>6. Volume'
      BY <1>1, <2>2, <2>3 DEF StateInv, Volume
  <2>7. ASSUME NEW cats \in SUBSET Catalogs, Kept(cats) PROVE \A d \in cats : registry'[d] # "none"
      BY <2>3, <2>7 DEF Kept
  <2>8. marker # NoMarker => marker.cats \in SUBSET Catalogs
      BY DEF StateInv, Receipted, Volume
  <2>9. Receipted'
      BY <1>1, <2>7, <2>8 DEF StateInv, Receipted, Kept
  <2>10. Bereft' /\ Content'
    <3>1. Bereft'
        BY <1>1, <2>3 DEF StateInv, Bereft, Untouched, Volume
    <3>2. Content'
        BY <1>1, <2>3 DEF StateInv, Content
    <3> QED BY <3>1, <3>2
  <2>11. UnderWay'
    <3>1. ASSUME NEW j \in Inits, init[j] # NotInstalling, init[j].kind = "first"
          PROVE  /\ init[j].pc = "catalogs" /\ init[j].led = Ledgers /\ init[j].cats \cup init[j].todo = config
                 /\ \A d \in init[j].cats : registry'[d] # "none"
                 /\ marker = NoMarker => Untouched
                 /\ marker # NoMarker => \A d \in marker.cats : registry'[d] # "none"
      <4>1. First(init[j])
          BY <3>1 DEF StateInv, UnderWay
      <4>2. init[j].cats \in SUBSET Catalogs
          BY <3>1 DEF StateInv, Volume, Run
      <4> QED BY <2>7, <2>8, <4>1, <4>2 DEF First
    <3>2. ASSUME init'[i].kind = "first" PROVE First(init[i])'
      <4>1. init[i].kind = "first"
          BY <2>1, <2>2, <3>2
      <4>2. /\ init'[i].pc = "catalogs" /\ init'[i].led = Ledgers /\ init'[i].cats \cup init'[i].todo = config
            /\ \A d \in init'[i].cats : registry'[d] # "none"
          BY <1>1, <1>2, <2>1, <2>2, <2>3, <3>1, <4>1
      <4>3. /\ marker = NoMarker => Untouched
            /\ marker # NoMarker => \A d \in marker.cats : registry'[d] # "none"
          BY <1>1, <3>1, <4>1
      <4> QED BY <1>1, <4>2, <4>3 DEF First, Kept, Untouched
    <3>3. ASSUME init'[i].kind = "upgrade" PROVE Upgrade(init[i])' /\ \A j \in Inits \ {i} : init'[j] = NotInstalling
      <4>1. Upgrade(init[i]) /\ \A j \in Inits \ {i} : init[j] = NotInstalling
          BY <1>1, <2>1, <2>2, <3>3 DEF StateInv, UnderWay
      <4>2. init[i].cats \in SUBSET Catalogs
          BY <1>1 DEF Run
      <4>3. losses = 0 => \A d \in init'[i].cats : registry'[d] # "none"
          BY <2>1, <2>2, <2>3, <2>7, <4>1, <4>2 DEF Upgrade
      <4>4. /\ marker # NoMarker /\ marker.cats \subseteq init'[i].cats /\ marker.led \subseteq init'[i].led
            /\ init'[i].cats \cup init'[i].todo \subseteq config
          BY <1>2, <2>1, <2>2, <4>1 DEF Upgrade
      <4> QED BY <1>1, <2>2, <4>1, <4>3, <4>4 DEF Upgrade, Kept
    <3>4. ASSUME NEW j \in Inits \ {i}, init'[j] # NotInstalling PROVE init'[j].kind = "first" /\ First(init[j])'
      <4>1. init[j] # NotInstalling /\ init'[j] = init[j] /\ init[j] \in Run
          BY <2>2, <3>4 DEF StateInv, Volume
      <4>2. init[j].kind = "first"
          BY <1>1, <4>1 DEF StateInv, UnderWay, Run
      <4> QED BY <1>1, <3>1, <4>1, <4>2 DEF First, Kept, Untouched
    <3> QED BY <3>2, <3>3, <3>4 DEF UnderWay
  <2> QED BY <2>5, <2>6, <2>9, <2>10, <2>11 DEF StateInv
<1> QED BY <1>3, <1>4 DEF EnsureCatalog

LEMMA InstallStep ==
    ASSUME StateInv, NEW i \in Inits, InstallBundle(i)
    PROVE  StateInv' /\ NothingNew
<1>1. /\ init[i] # NotInstalling /\ init[i] \in Run /\ init[i].todo = {} /\ init[i].kind = "first"
      /\ init' = [init EXCEPT ![i] = NotInstalling]
      /\ UNCHANGED <<config, registry, serving, losses>>
  <2>1. init[i].pc = "catalogs"
      BY DEF InstallBundle
  <2>2. init[i] # NotInstalling
      BY <2>1 DEF NotInstalling
  <2> QED BY <2>2 DEF InstallBundle, StateInv, Volume
<1>2. CASE UNCHANGED <<marker, files, known>>
    BY <1>1, <1>2, RunEnds DEF NothingNew
<1>3. CASE /\ marker = NoMarker
           /\ marker' = [cats |-> init[i].cats, led |-> Ledgers]
           /\ files' = [p \in Parts |-> IF p = "policy" THEN "used" ELSE "fresh"]
           /\ known' = [known EXCEPT !.files = @ \cup {"policy"}]
  <2>1. init[i].cats = config /\ Kept(config) /\ Untouched /\ config \subseteq Catalogs /\ config # {}
    <3>1. First(init[i])
        BY <1>1 DEF StateInv, UnderWay
    <3>2. init[i].cats = config
        BY <1>1, <3>1 DEF First
    <3> QED BY <1>3, <3>1, <3>2 DEF First, StateInv, Volume
  <2>2. marker' \in Receipts /\ marker'.cats = config /\ marker'.led = Ledgers /\ marker' # NoMarker
      BY <1>3, <2>1 DEF Receipts, NoMarker
  <2>3. known' \in [files : SUBSET Parts, cats : SUBSET Catalogs] /\ known'.files = {"policy"} /\ known'.cats = {}
      BY <1>3, <2>1 DEF StateInv, Volume, Untouched, Parts
  <2>4. files' \in [Parts -> {"none", "torn", "fresh", "used"}]
      BY <1>3
  <2>5. NothingNew
      BY <1>1, <1>3, <2>1, <2>2 DEF NothingNew, Untouched, StateInv, Content
  <2>6. /\ init' \in [Inits -> Run \cup {NotInstalling}] /\ init'[i] = NotInstalling
        /\ \A j \in Inits \ {i} : init'[j] = init[j]
      BY <1>1, RunMoves DEF StateInv
  <2>7. Volume'
      BY <1>1, <2>2, <2>3, <2>4, <2>6 DEF StateInv, Volume
  <2>8. Receipted'
      BY <1>1, <2>1, <2>2, <2>3 DEF Receipted, Kept, Ledgers
  <2>9. Bereft' /\ Content'
      BY <1>1, <2>1, <2>2, <2>3 DEF StateInv, Bereft, Content, Untouched
  <2>10. UnderWay'
    <3> SUFFICES ASSUME NEW j \in Inits \ {i}, init[j] # NotInstalling
                 PROVE  init[j].kind = "first" /\ First(init[j])'
        BY <2>6 DEF UnderWay
    <3>1. init[j].kind = "first"
        BY <1>3 DEF StateInv, UnderWay, Upgrade, Volume, Run
    <3>2. First(init[j]) /\ init'[j] = init[j]
        BY <2>6, <3>1 DEF StateInv, UnderWay
    <3> QED BY <1>1, <2>1, <2>2, <3>1, <3>2 DEF First, Kept
  <2> QED BY <2>5, <2>7, <2>8, <2>9, <2>10 DEF StateInv
<1> QED BY <1>2, <1>3 DEF InstallBundle

\* A step of an upgrade on a ledger without a receipt, which nobody used.
LEMMA UpgradeMoves ==
    ASSUME StateInv, NEW i \in Inits, init[i] # NotInstalling, init[i].kind = "upgrade", NEW r \in Run,
           init' = [init EXCEPT ![i] = r], r.kind = "upgrade", r.cats = init[i].cats, r.todo = init[i].todo,
           init[i].led \subseteq r.led, files' \in [Parts -> {"none", "torn", "fresh", "used"}],
           UNCHANGED <<config, marker, registry, serving, known, losses>>
    PROVE  StateInv'
<1>1. /\ init' \in [Inits -> Run \cup {NotInstalling}] /\ init'[i] = r
      /\ \A j \in Inits \ {i} : init'[j] = init[j]
    BY RunMoves DEF StateInv
<1>2. Volume'
    BY <1>1 DEF StateInv, Volume
<1>3. Receipted' /\ Bereft' /\ Content'
    BY DEF StateInv, Receipted, Bereft, Content, Kept, Untouched
<1>4. Upgrade(init[i]) /\ \A j \in Inits \ {i} : init[j] = NotInstalling
    BY DEF StateInv, UnderWay
<1>5. UnderWay'
  <2>1. Upgrade(init[i])'
      BY <1>1, <1>4 DEF Upgrade, Kept
  <2>2. \A j \in Inits \ {i} : init'[j] = NotInstalling
      BY <1>1, <1>4
  <2> QED BY <1>1, <2>1, <2>2 DEF UnderWay
<1> QED BY <1>2, <1>3, <1>5 DEF StateInv

LEMMA LedgerStep ==
    ASSUME StateInv, NEW i \in Inits, EnsureLedger(i) \/ CreateBuckets(i)
    PROVE  StateInv' /\ NothingNew
<1>1. /\ init[i] # NotInstalling /\ init[i] \in Run
      /\ UNCHANGED <<config, marker, registry, serving, known, losses>>
  <2>1. init[i].pc \in {"catalogs"} \cup Ledgers
      BY DEF EnsureLedger, CreateBuckets
  <2>2. init[i] # NotInstalling
      BY <2>1 DEF NotInstalling, Ledgers
  <2> QED BY <2>2 DEF EnsureLedger, CreateBuckets, StateInv, Volume
<1>2. files \in [Parts -> {"none", "torn", "fresh", "used"}]
    BY DEF StateInv, Volume
<1>3. CASE EnsureLedger(i)
  <2> DEFINE l == NextLedger(init[i].led)
             done == [init[i] EXCEPT !.led = @ \cup {l}]
             at == [init[i] EXCEPT !.pc = l]
  <2>1. l \in Ledgers \ init[i].led
      BY <1>1, <1>3, NextLedgerMissing DEF EnsureLedger, Run
  <2>2. init[i].kind = "upgrade"
    <3>1. init[i].kind = "first" => init[i].led = Ledgers
        BY <1>1 DEF StateInv, UnderWay, First
    <3> QED BY <1>1, <2>1, <3>1 DEF Run
  <2>3. /\ done \in Run /\ done.kind = "upgrade" /\ done.cats = init[i].cats /\ done.todo = init[i].todo
        /\ init[i].led \subseteq done.led
      BY <1>1, <2>1, <2>2 DEF Run
  <2>4. /\ at \in Run /\ at.kind = "upgrade" /\ at.cats = init[i].cats /\ at.todo = init[i].todo
        /\ init[i].led \subseteq at.led
      BY <1>1, <2>1, <2>2 DEF Run
  <2>5. \/ /\ files' = [files EXCEPT ![l] = IF @ = "none" THEN "fresh" ELSE @] \/ files' = files
           /\ init' = [init EXCEPT ![i] = done]
        \/ /\ files' = [files EXCEPT ![l] = "torn"] /\ files[l] = "none"
           /\ init' = [init EXCEPT ![i] = at]
        \/ files' = files /\ init' = [init EXCEPT ![i] = NotInstalling]
      BY <1>3 DEF EnsureLedger
  <2>6. l \notin known.files
    <3>1. Upgrade(init[i])
        BY <1>1, <2>2 DEF StateInv, UnderWay
    <3> QED BY <2>1, <3>1 DEF Upgrade, StateInv, Receipted
  <2>7. l \in Parts
      BY <2>1 DEF Parts
  <2> HIDE DEF done, at, l
  <2>8. /\ files' \in [Parts -> {"none", "torn", "fresh", "used"}]
        /\ \A p \in Parts \ {l} : files'[p] = files[p]
      BY <1>2, <2>5, <2>7
  <2>9. NothingNew
    <3>1. \A p \in known.files : p \in Parts \ {l}
        BY <2>6 DEF StateInv, Volume
    <3> QED BY <1>1, <2>8, <3>1 DEF NothingNew
  <2>10. CASE init' = [init EXCEPT ![i] = done]
      BY <1>1, <2>2, <2>3, <2>8, <2>9, <2>10, UpgradeMoves
  <2>11. CASE init' = [init EXCEPT ![i] = at]
      BY <1>1, <2>2, <2>4, <2>8, <2>9, <2>11, UpgradeMoves
  <2>12. CASE files' = files /\ init' = [init EXCEPT ![i] = NotInstalling]
      BY <1>1, <2>9, <2>12, RunEnds
  <2> QED BY <2>5, <2>10, <2>11, <2>12
<1>4. CASE CreateBuckets(i)
  <2> DEFINE l == init[i].pc
             r == [init[i] EXCEPT !.pc = "catalogs", !.led = @ \cup {l}]
  <2>1. /\ l \in Ledgers /\ files' = [files EXCEPT ![l] = IF @ = "torn" THEN "fresh" ELSE @]
        /\ init' = [init EXCEPT ![i].pc = "catalogs", ![i].led = @ \cup {l}]
      BY <1>4 DEF CreateBuckets
  <2>2. init' = [init EXCEPT ![i] = r]
      BY <1>1, <2>1 DEF StateInv, Volume
  <2>3. init[i].kind = "upgrade"
    <3>1. init[i].kind = "first" => init[i].pc = "catalogs"
        BY <1>1 DEF StateInv, UnderWay, First
    <3> QED BY <1>1, <2>1, <3>1 DEF Run, Ledgers
  <2>4. /\ r \in Run /\ r.kind = "upgrade" /\ r.cats = init[i].cats /\ r.todo = init[i].todo
        /\ init[i].led \subseteq r.led
      BY <1>1, <2>1, <2>3 DEF Run
  <2>5. l \in Parts
      BY <2>1 DEF Parts
  <2> HIDE DEF r, l
  <2>6. files' \in [Parts -> {"none", "torn", "fresh", "used"}] /\ \A p \in Parts : files[p] = "none" => files'[p] = "none"
      BY <1>2, <2>1, <2>5
  <2>7. NothingNew
    <3>1. known.files \subseteq Parts
        BY DEF StateInv, Volume
    <3> QED BY <1>1, <2>6, <3>1 DEF NothingNew
  <2> QED BY <1>1, <2>2, <2>3, <2>4, <2>6, <2>7, UpgradeMoves
<1> QED BY <1>3, <1>4

LEMMA MarkerStep ==
    ASSUME StateInv, NEW i \in Inits, WriteMarker(i)
    PROVE  StateInv' /\ NothingNew
<1>1. /\ init[i] # NotInstalling /\ init[i] \in Run /\ init[i].kind = "upgrade"
      /\ marker' = [cats |-> init[i].cats, led |-> Ledgers]
      /\ init' = [init EXCEPT ![i] = NotInstalling]
      /\ UNCHANGED <<config, files, registry, serving, known, losses>>
  <2>1. init[i].pc = "catalogs"
      BY DEF WriteMarker
  <2>2. init[i] # NotInstalling
      BY <2>1 DEF NotInstalling
  <2> QED BY <2>2 DEF WriteMarker, StateInv, Volume
<1>2. Upgrade(init[i]) /\ \A j \in Inits \ {i} : init[j] = NotInstalling
    BY <1>1 DEF StateInv, UnderWay
<1>3. /\ marker # NoMarker /\ marker.cats # {} /\ marker.cats \subseteq init[i].cats
      /\ init[i].cats \subseteq config /\ init[i].cats \subseteq Catalogs
      /\ known.cats \subseteq marker.cats /\ (serving => config \subseteq marker.cats)
      /\ losses = 0 => Kept(init[i].cats)
    BY <1>1, <1>2 DEF Upgrade, StateInv, Receipted, Run
<1>4. marker' \in Receipts /\ marker'.cats = init[i].cats /\ marker'.led = Ledgers /\ marker' # NoMarker
    BY <1>1, <1>3 DEF Receipts, NoMarker
<1>5. \A j \in Inits : init'[j] = NotInstalling
    BY <1>1, <1>2 DEF StateInv, Volume
<1>6. Volume'
    BY <1>1, <1>4, RunMoves DEF StateInv, Volume
<1>7. Receipted'
    BY <1>1, <1>3, <1>4 DEF Receipted, Kept
<1>8. Bereft' /\ Content' /\ UnderWay'
    BY <1>1, <1>4, <1>5 DEF StateInv, Bereft, Content, UnderWay
<1>9. NothingNew
    BY <1>1, <1>3 DEF NothingNew
<1> QED BY <1>6, <1>7, <1>8, <1>9 DEF StateInv

\* Steps that leave the runs, the marker and the registries alone.
LEMMA RunsStand ==
    ASSUME StateInv, UNCHANGED <<config, marker, registry, init, losses>>,
           marker = NoMarker => UNCHANGED known
    PROVE  UnderWay'
BY DEF StateInv, UnderWay, First, Upgrade, Kept, Untouched

LEMMA RequestStep == ASSUME StateInv, Request PROVE StateInv' /\ NothingNew
<1>1. /\ serving /\ marker # NoMarker /\ Ledgers \subseteq marker.led
      /\ UNCHANGED <<config, marker, init, serving, losses>>
    BY DEF Request, Validate
<1>2. /\ config \subseteq marker.cats /\ config \subseteq Catalogs
      /\ files \in [Parts -> {"none", "torn", "fresh", "used"}]
      /\ registry \in [Catalogs -> {"none", "fresh", "used"}]
      /\ known \in [files : SUBSET Parts, cats : SUBSET Catalogs]
    BY <1>1 DEF StateInv, Volume, Receipted
<1>3. ASSUME NEW p \in Parts, files[p] # "none", files' = [files EXCEPT ![p] = "used"],
             known' = [known EXCEPT !.files = @ \cup {p}], UNCHANGED registry
      PROVE  StateInv' /\ NothingNew
  <2>1. /\ files' \in [Parts -> {"none", "torn", "fresh", "used"}]
        /\ \A q \in Parts : files[q] = "none" => files'[q] = "none"
      BY <1>2, <1>3
  <2>2. /\ known' \in [files : SUBSET Parts, cats : SUBSET Catalogs]
        /\ known'.files = known.files \cup {p} /\ known'.cats = known.cats
      BY <1>2, <1>3
  <2>3. UnderWay'
      BY <1>1, <1>3, RunsStand
  <2>4. Volume' /\ Bereft' /\ Content'
      BY <1>1, <1>3, <2>1, <2>2 DEF StateInv, Volume, Bereft, Content
  <2>5. Receipted'
      BY <1>1, <1>3, <2>2 DEF StateInv, Receipted, Kept
  <2>6. NothingNew
      BY <1>1, <1>2, <1>3, <2>1 DEF NothingNew
  <2> QED BY <2>3, <2>4, <2>5, <2>6 DEF StateInv
<1>4. ASSUME NEW c \in config, registry[c] # "none", registry' = [registry EXCEPT ![c] = "used"],
             known' = [known EXCEPT !.cats = @ \cup {c}], UNCHANGED files
      PROVE  StateInv' /\ NothingNew
  <2>1. /\ registry' \in [Catalogs -> {"none", "fresh", "used"}]
        /\ \A d \in Catalogs : /\ registry'[d] = "none" <=> registry[d] = "none"
                               /\ d # c => registry'[d] = registry[d]
      BY <1>2, <1>4
  <2>2. /\ known' \in [files : SUBSET Parts, cats : SUBSET Catalogs]
        /\ known'.cats = known.cats \cup {c} /\ known'.files = known.files
      BY <1>2, <1>4
  <2>3. Volume' /\ Bereft' /\ Content'
      BY <1>1, <1>4, <2>1, <2>2 DEF StateInv, Volume, Bereft, Content
  <2>4. ASSUME NEW cats \in SUBSET Catalogs, Kept(cats) PROVE \A d \in cats : registry'[d] # "none"
      BY <2>1, <2>4 DEF Kept
  <2>5. marker.cats \in SUBSET Catalogs
      BY <1>1 DEF StateInv, Receipted, Volume
  <2>6. Receipted'
      BY <1>1, <1>2, <2>2, <2>4, <2>5 DEF StateInv, Receipted, Kept
  <2>7. UnderWay'
    <3> SUFFICES ASSUME NEW j \in Inits, init[j] # NotInstalling
                 PROVE  /\ init[j].kind = "first" => First(init[j])'
                        /\ init[j].kind = "upgrade" => Upgrade(init[j])' /\ \A o \in Inits \ {j} : init[o] = NotInstalling
        BY <1>1 DEF UnderWay
    <3>1. init[j].cats \in SUBSET Catalogs
        BY DEF StateInv, Volume, Run
    <3>2. ASSUME init[j].kind = "first" PROVE First(init[j])'
      <4>1. First(init[j])
          BY <3>2 DEF StateInv, UnderWay
      <4> QED BY <1>1, <2>4, <2>5, <3>1, <4>1 DEF First, Kept
    <3>3. ASSUME init[j].kind = "upgrade" PROVE Upgrade(init[j])' /\ \A o \in Inits \ {j} : init[o] = NotInstalling
      <4>1. Upgrade(init[j]) /\ \A o \in Inits \ {j} : init[o] = NotInstalling
          BY <3>3 DEF StateInv, UnderWay
      <4> QED BY <1>1, <2>4, <3>1, <4>1 DEF Upgrade, Kept
    <3> QED BY <3>2, <3>3
  <2>8. NothingNew
      BY <1>1, <1>2, <1>4, <2>1 DEF NothingNew
  <2> QED BY <2>3, <2>6, <2>7, <2>8 DEF StateInv
<1> QED BY <1>3, <1>4 DEF Request

LEMMA ServerStep ==
    ASSUME StateInv, OpenDeployment \/ Stop \/ Configure
    PROVE  StateInv' /\ NothingNew
<1>1. UNCHANGED <<marker, registry, init, known, losses>>
    BY DEF OpenDeployment, Stop, Configure
<1>2. CASE OpenDeployment
  <2>1. /\ UNCHANGED config /\ config \subseteq marker.cats
        /\ files' = [files EXCEPT !["access"] = IF @ = "none" THEN "fresh" ELSE @]
      BY <1>2 DEF OpenDeployment
  <2>2. /\ files' \in [Parts -> {"none", "torn", "fresh", "used"}]
        /\ \A p \in Parts \ {"access"} : files'[p] = files[p]
    <3>1. files \in [Parts -> {"none", "torn", "fresh", "used"}] /\ "access" \in Parts
        BY DEF StateInv, Volume, Parts
    <3> QED BY <2>1, <3>1
  <2>3. Volume' /\ Bereft' /\ Content'
      BY <1>1, <2>1, <2>2 DEF StateInv, Volume, Bereft, Content, Untouched
  <2>4. Receipted' /\ UnderWay'
      BY <1>1, <2>1, RunsStand DEF StateInv, Receipted, Kept
  <2>5. NothingNew
      BY <1>1, <2>2 DEF NothingNew, StateInv, Volume
  <2> QED BY <2>3, <2>4, <2>5 DEF StateInv
<1>3. CASE Stop
  <2>1. UNCHANGED <<config, files>> /\ ~serving'
      BY <1>3 DEF Stop
  <2>2. Volume' /\ Bereft' /\ Content'
      BY <1>1, <2>1 DEF StateInv, Volume, Bereft, Content, Untouched
  <2>3. Receipted' /\ UnderWay' /\ NothingNew
      BY <1>1, <2>1, RunsStand DEF StateInv, Receipted, Kept, NothingNew
  <2> QED BY <2>2, <2>3 DEF StateInv
<1>4. CASE Configure
  <2>1. /\ \A i \in Inits : init[i] = NotInstalling
        /\ config \subseteq config' /\ config' \subseteq Catalogs
        /\ UNCHANGED files /\ ~serving'
      BY <1>4 DEF Configure, StateInv, Volume
  <2>2. Volume' /\ Bereft' /\ Content'
      BY <1>1, <2>1 DEF StateInv, Volume, Bereft, Content, Untouched
  <2>3. Receipted' /\ UnderWay' /\ NothingNew
      BY <1>1, <2>1 DEF StateInv, Receipted, Kept, UnderWay, NothingNew
  <2> QED BY <2>2, <2>3 DEF StateInv
<1> QED BY <1>2, <1>3, <1>4

LEMMA LossStep ==
    ASSUME OnePartLost, StateInv, LosePart
    PROVE  StateInv' /\ NothingNew
<1>1. /\ \A i \in Inits : init[i] = NotInstalling
      /\ losses = 0 /\ losses' = 1 /\ UNCHANGED <<config, init, serving, known>>
    BY DEF LosePart, OnePartLost, StateInv, Volume
<1>2. UnderWay'
    BY <1>1 DEF UnderWay
<1>3. CASE marker' = NoMarker /\ files' = [p \in Parts |-> "none"] /\ UNCHANGED registry
  <2>1. files' \in [Parts -> {"none", "torn", "fresh", "used"}] /\ \A p \in Parts : files'[p] = "none"
      BY <1>3
  <2>2. Volume' /\ Receipted' /\ Content'
      BY <1>1, <1>3, <2>1 DEF StateInv, Volume, Receipted, Content
  <2>3. Bereft'
    <3>1. CASE marker = NoMarker
        BY <1>1, <1>3, <3>1 DEF StateInv, Bereft, Untouched
    <3>2. CASE marker # NoMarker
      <4>1. \E c \in config : registry[c] # "none"
          BY <1>1, <3>2 DEF StateInv, Receipted, Kept
      <4> QED BY <1>1, <1>3, <4>1 DEF Bereft
    <3> QED BY <3>1, <3>2
  <2>4. NothingNew
      BY <1>3, <2>1 DEF NothingNew, StateInv, Volume
  <2> QED BY <1>2, <2>2, <2>3, <2>4 DEF StateInv
<1>4. ASSUME NEW p \in Parts, files' = [files EXCEPT ![p] = "none"], UNCHANGED <<marker, registry>>
      PROVE  StateInv' /\ NothingNew
  <2>1. /\ files' \in [Parts -> {"none", "torn", "fresh", "used"}]
        /\ \A q \in Parts : files[q] = "none" => files'[q] = "none"
      BY <1>4 DEF StateInv, Volume
  <2>2. Volume' /\ Receipted' /\ Content'
      BY <1>1, <1>4, <2>1 DEF StateInv, Volume, Receipted, Content
  <2>3. Bereft'
      BY <1>1, <1>4 DEF StateInv, Bereft, Untouched
  <2>4. NothingNew
      BY <1>4, <2>1 DEF NothingNew, StateInv, Volume
  <2> QED BY <1>2, <2>2, <2>3, <2>4 DEF StateInv
<1>5. ASSUME NEW c \in Catalogs, registry' = [registry EXCEPT ![c] = "none"], UNCHANGED <<marker, files>>
      PROVE  StateInv' /\ NothingNew
  <2>1. /\ registry' \in [Catalogs -> {"none", "fresh", "used"}]
        /\ \A d \in Catalogs : registry'[d] = "none" \/ registry'[d] = registry[d]
      BY <1>5 DEF StateInv, Volume
  <2>2. Volume' /\ Receipted' /\ Content'
      BY <1>1, <1>5, <2>1 DEF StateInv, Volume, Receipted, Content
  <2>3. Bereft'
      BY <1>1, <1>5 DEF StateInv, Bereft, Untouched
  <2>4. NothingNew
      BY <1>5, <2>1 DEF NothingNew, StateInv, Volume
  <2> QED BY <1>2, <2>2, <2>3, <2>4 DEF StateInv
<1> QED BY <1>3, <1>4, <1>5 DEF LosePart

LEMMA StateStep ==
    ASSUME OnePartLost, StateInv, [StateNext]_stateVars
    PROVE  StateInv' /\ NothingNew
<1>1. ASSUME NEW i \in Inits, InitKilled(i) PROVE StateInv' /\ NothingNew
    BY <1>1, RunEnds DEF InitKilled, NothingNew
<1>2. CASE UNCHANGED stateVars
  <2>1. Volume' /\ Bereft' /\ Content'
      BY <1>2 DEF stateVars, StateInv, Volume, Bereft, Content, Untouched
  <2>2. Receipted' /\ UnderWay' /\ NothingNew
      BY <1>2, RunsStand DEF stateVars, StateInv, Receipted, Kept, NothingNew
  <2> QED BY <2>1, <2>2 DEF StateInv
<1>3. CASE StateNext
    BY <1>1, <1>3, BeginStep, AuthorityStep, InstallStep, LedgerStep, MarkerStep, RequestStep, ServerStep, LossStep
       DEF StateNext, InitStep
<1> QED BY <1>2, <1>3

LEMMA StateStart == ASSUME OnePartLost, StateInit PROVE StateInv
<1>1. /\ config = {1} /\ config \subseteq Catalogs /\ losses = 0 /\ serving = FALSE
      /\ \A i \in Inits : init[i] = NotInstalling /\ init \in [Inits -> Run \cup {NotInstalling}]
    BY DEF StateInit, OnePartLost
<1>2. UnderWay
    BY <1>1 DEF UnderWay
<1>3. CASE /\ marker = NoMarker /\ files = [p \in Parts |-> "none"]
           /\ registry = [c \in Catalogs |-> "none"] /\ known = [files |-> {}, cats |-> {}]
    BY <1>1, <1>2, <1>3 DEF StateInit, StateInv, Volume, Receipted, Bereft, Content, Untouched
<1>4. CASE /\ marker = [cats |-> {1}, led |-> {}]
           /\ files = [p \in Parts |-> IF p = "policy" THEN "used" ELSE "none"]
           /\ registry = [c \in Catalogs |-> IF c = 1 THEN "used" ELSE "none"]
           /\ known = [files |-> {"policy"}, cats |-> {1}]
  <2>1. marker \in Receipts /\ marker.cats = {1} /\ marker.led = {} /\ marker # NoMarker
      BY <1>1, <1>4 DEF Receipts, NoMarker
  <2>2. known \in [files : SUBSET Parts, cats : SUBSET Catalogs] /\ known.files = {"policy"} /\ known.cats = {1}
      BY <1>1, <1>4 DEF Parts
  <2>3. Volume
      BY <1>1, <1>4, <2>1, <2>2 DEF StateInit, Volume
  <2>4. Receipted
      BY <1>1, <1>4, <2>1, <2>2 DEF Receipted, Kept, Ledgers
  <2>5. Bereft /\ Content
      BY <1>4, <2>1, <2>2 DEF Bereft, Content
  <2> QED BY <1>2, <2>3, <2>4, <2>5 DEF StateInv
<1> QED BY <1>3, <1>4 DEF StateInit

\* After the loss of the volume, of a file or of a Catalog's authority, neither
\* init nor a start replaces what held content by something empty
\* (InitializeDeployment, ensureCatalogAuthorities, OpenDeployment).
THEOREM StateNothingReborn == ASSUME OnePartLost PROVE StateSpec => NothingReborn
<1>1. StateInit => StateInv
    BY StateStart
<1>2. StateInv /\ [StateNext]_stateVars => StateInv' /\ [NothingNew]_stateVars
    BY StateStep
<1> HIDE DEF NothingNew
<1>3. NothingReborn <=> [][NothingNew]_stateVars
    BY PTL DEF NothingReborn, NothingNew
<1> QED BY <1>1, <1>2, <1>3, PTL DEF StateSpec
=============================================================================
