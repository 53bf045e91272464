---- MODULE ManagedProvisioning ----
(***************************************************************************)
(* Creation of managed repositories (home/managed.go, managed_ledger.go)   *)
(* over a Gitea or lakeFS pool, with the creator's initial grant           *)
(* (invocation/session_helpers.go EnsureManagedRepositoryGrant).           *)
(*                                                                         *)
(* One call walks RESERVED -> OWNED -> READY in the Bolt ledger, creating  *)
(* the backend repository and writing the grant in between.  Calls of one  *)
(* server run one at a time (managedOperationLocks); each may fail or be   *)
(* killed between any two steps and is resumed by repeating the command.   *)
(* Operators revoke grants, archive the Catalog and delete or replace      *)
(* backend repositories in the meantime.                                   *)
(***************************************************************************)
EXTENDS Naturals

CONSTANTS
    Commands,     \* (principal, commandId) keys
    Repos,        \* requested repository identities
    Driver,       \* Driver[r]: "gitea" or "lakefs", the pool r is asked from
    MaxBackends,  \* bound on backend repositories ever created, enough for
                  \* one per repository and one per fault
    MaxFaults     \* bound on failed calls and kills

ASSUME DriverAssumption == Driver \in [Repos -> {"gitea", "lakefs"}]

ASSUME NoneAssumption == "none" \notin Repos   \* "no repository" in commands

VARIABLES
    rec,       \* ledger: repository -> allocation record
    commands,  \* ledger: command -> repository it reserved
    backend,   \* the repository standing at the allocation's address
    made,      \* ids of the backend repositories created by this deployment
    used,      \* backend ids given out so far
    initial,   \* allow.json InitialGrants: repositories whose grant was applied
    granted,   \* allow.json rules: repositories whose creator rule stands
    catalog,   \* "active" or "archived"
    store,     \* sources installed in the running server
    server,    \* "up" or "down"
    op,        \* the call under way, or Idle
    faults

vars == <<rec, commands, backend, made, used, initial, granted, catalog, store, server, op, faults>>

NoRecord == [phase |-> "NONE", cmd |-> "none", head |-> 0]

NoBackend == [id |-> 0, owner |-> "none"]

Idle == [pc |-> "idle"]

Init ==
    /\ rec = [r \in Repos |-> NoRecord]
    /\ commands = [c \in Commands |-> "none"]
    /\ backend = [r \in Repos |-> NoBackend]
    /\ made = {}
    /\ used = 0
    /\ initial = {}
    /\ granted = {}
    /\ catalog = "active"
    /\ store = {}
    /\ server = "up"
    /\ op = Idle
    /\ faults = 0

Fault == faults < MaxFaults /\ faults' = faults + 1

Goto(pc) == op' = [op EXCEPT !.pc = pc]

\* The ownership test on whatever stands at the address: Gitea carries the
\* allocation token in the description, lakeFS only name and namespace.
VerifyManaged(r) == Driver[r] = "gitea" => backend[r].owner = "kc"

\* managedOpen and HasCommit(record.Head): the repository the ledger recorded.
OpenManaged(r) == backend[r].id = rec[r].head /\ VerifyManaged(r)

---------------------------------------------------------------------------
\* CreateManagedRepository up to reserveManaged, which finds the command ...
Resume(c, r) ==
    /\ server = "up" /\ op = Idle
    /\ commands[c] = r
    /\ op' = [pc |-> IF rec[r].phase = "RESERVED" THEN "owner" ELSE "open", repo |-> r, head |-> 0]
    /\ UNCHANGED <<rec, commands, backend, made, used, initial, granted, catalog, store, server, faults>>

\* ... or reserves a repository identity nobody has.
Reserve(c, r) ==
    /\ server = "up" /\ op = Idle
    /\ commands[c] = "none"
    /\ rec[r] = NoRecord
    /\ catalog = "active"
    /\ r \notin store
    /\ rec' = [rec EXCEPT ![r] = [phase |-> "RESERVED", cmd |-> c, head |-> 0]]
    /\ commands' = [commands EXCEPT ![c] = r]
    /\ op' = [pc |-> "owner", repo |-> r, head |-> 0]
    /\ UNCHANGED <<backend, made, used, initial, granted, catalog, store, server, faults>>

\* An archived Catalog takes no new source; a Gitea pool has an owner account
\* ensured and recorded first (idempotent, not told apart here).
EnsureOwner ==
    /\ op.pc = "owner"
    /\ op' = IF catalog = "archived" THEN Idle ELSE [op EXCEPT !.pc = "create"]
    /\ UNCHANGED <<rec, commands, backend, made, used, initial, granted, catalog, store, server, faults>>

\* The address is free: a repository is created with the ownership token.
CreateBackend(next) ==
    /\ op.pc = "create"
    /\ backend[op.repo] = NoBackend
    /\ used < MaxBackends
    /\ used' = used + 1
    /\ backend' = [backend EXCEPT ![op.repo] = [id |-> used + 1, owner |-> "kc"]]
    /\ made' = made \cup {used + 1}
    /\ op' = next

Created ==
    /\ CreateBackend([op EXCEPT !.pc = "owned", !.head = used + 1])
    /\ UNCHANGED <<rec, commands, initial, granted, catalog, store, server, faults>>

\* The request was accepted, its answer and the re-read were lost.
CreatedLost ==
    /\ CreateBackend(Idle)
    /\ Fault
    /\ UNCHANGED <<rec, commands, initial, granted, catalog, store, server>>

\* Mutant: a conflict at the address is taken for one's own earlier request.
AdoptAny ==
    /\ op.pc = "create"
    /\ backend[op.repo] # NoBackend
    /\ op' = [op EXCEPT !.pc = "owned", !.head = backend[op.repo].id]
    /\ UNCHANGED <<rec, commands, backend, made, used, initial, granted, catalog, store, server, faults>>

\* Mutant: whatever stands at the address is a conflict.
AdoptNever ==
    /\ op.pc = "create"
    /\ backend[op.repo] # NoBackend
    /\ op' = Idle
    /\ UNCHANGED <<rec, commands, backend, made, used, initial, granted, catalog, store, server, faults>>

\* Something stands at the address: resumed when it passes the ownership test.
Adopt ==
    /\ op.pc = "create"
    /\ backend[op.repo] # NoBackend
    /\ op' = IF VerifyManaged(op.repo)
             THEN [op EXCEPT !.pc = "owned", !.head = backend[op.repo].id] ELSE Idle
    /\ UNCHANGED <<rec, commands, backend, made, used, initial, granted, catalog, store, server, faults>>

\* saveManaged: OWNED with the backend's identity and initial commit.
SaveOwned ==
    /\ op.pc = "owned"
    /\ rec' = [rec EXCEPT ![op.repo].phase = "OWNED", ![op.repo].head = op.head]
    /\ Goto("install")
    /\ UNCHANGED <<commands, backend, made, used, initial, granted, catalog, store, server, faults>>

\* Mutant: a missing source sends the retry back to creating one.
OpenOrCreate ==
    /\ op.pc = "open"
    /\ Goto(IF OpenManaged(op.repo) THEN "install" ELSE "create")
    /\ UNCHANGED <<rec, commands, backend, made, used, initial, granted, catalog, store, server, faults>>

\* A record past RESERVED is only ever opened again.
Open ==
    /\ op.pc = "open"
    /\ op' = IF OpenManaged(op.repo) THEN [op EXCEPT !.pc = "install"] ELSE Idle
    /\ UNCHANGED <<rec, commands, backend, made, used, initial, granted, catalog, store, server, faults>>

\* installManagedSource; a READY record is replayed without a grant.
Install ==
    /\ op.pc = "install"
    /\ store' = store \cup {op.repo}
    /\ op' = IF rec[op.repo].phase = "READY" THEN Idle ELSE [op EXCEPT !.pc = "grant"]
    /\ UNCHANGED <<rec, commands, backend, made, used, initial, granted, catalog, server, faults>>

\* Mutant: the grant is applied again on every retry.
GrantAgain ==
    /\ op.pc = "grant"
    /\ catalog = "active"
    /\ initial' = initial \cup {op.repo}
    /\ granted' = granted \cup {op.repo}
    /\ Goto("ready")
    /\ UNCHANGED <<rec, commands, backend, made, used, catalog, store, server, faults>>

\* EnsureManagedRepositoryGrant: receipt and rule in one policy write, once.
Grant ==
    /\ op.pc = "grant"
    /\ catalog = "active"
    /\ initial' = initial \cup {op.repo}
    /\ granted' = IF op.repo \in initial THEN granted ELSE granted \cup {op.repo}
    /\ Goto("ready")
    /\ UNCHANGED <<rec, commands, backend, made, used, catalog, store, server, faults>>

GrantRefused ==
    /\ op.pc = "grant"
    /\ catalog = "archived"
    /\ op' = Idle
    /\ UNCHANGED <<rec, commands, backend, made, used, initial, granted, catalog, store, server, faults>>

SaveReady ==
    /\ op.pc = "ready"
    /\ rec' = [rec EXCEPT ![op.repo].phase = "READY"]
    /\ op' = Idle
    /\ UNCHANGED <<commands, backend, made, used, initial, granted, catalog, store, server, faults>>

\* Any backend, ledger or policy call of the next step fails without effect.
CallFails ==
    /\ op # Idle
    /\ Fault
    /\ op' = Idle
    /\ UNCHANGED <<rec, commands, backend, made, used, initial, granted, catalog, store, server>>

Crash ==
    /\ server = "up"
    /\ Fault
    /\ server' = "down"
    /\ op' = Idle
    /\ store' = {}
    /\ UNCHANGED <<rec, commands, backend, made, used, initial, granted, catalog>>

\* OpenDeployment restores every source past RESERVED; a lakeFS source must
\* open and verify, a Gitea source is a deferred handle.
Boot ==
    LET past == {r \in Repos : rec[r].phase \in {"OWNED", "READY"}} IN
    /\ server = "down"
    /\ \A r \in past : Driver[r] = "lakefs" => OpenManaged(r)
    /\ server' = "up"
    /\ store' = past
    /\ UNCHANGED <<rec, commands, backend, made, used, initial, granted, catalog, op, faults>>

---------------------------------------------------------------------------
\* Operators.  Grants are revoked under the same application lock.
Revoke(r) ==
    /\ op = Idle
    /\ r \in granted
    /\ granted' = granted \ {r}
    /\ UNCHANGED <<rec, commands, backend, made, used, initial, catalog, store, server, op, faults>>

ArchiveCatalog ==
    /\ catalog = "active"
    /\ Fault
    /\ catalog' = "archived"
    /\ UNCHANGED <<rec, commands, backend, made, used, initial, granted, store, server, op>>

\* The backend repository is deleted, or another one put at its address.
Disturb(r) ==
    /\ Fault
    /\ \/ /\ backend[r] # NoBackend
          /\ backend' = [backend EXCEPT ![r] = NoBackend]
          /\ UNCHANGED used
       \/ /\ used < MaxBackends
          /\ used' = used + 1
          /\ backend' = [backend EXCEPT ![r] = [id |-> used + 1, owner |-> "other"]]
    /\ UNCHANGED <<rec, commands, made, initial, granted, catalog, store, server, op>>

---------------------------------------------------------------------------
Step ==
    \/ EnsureOwner \/ Created \/ CreatedLost \/ Adopt \/ SaveOwned \/ Open \/ Install
    \/ Grant \/ GrantRefused \/ SaveReady

Next ==
    \/ \E c \in Commands, r \in Repos : Reserve(c, r) \/ Resume(c, r)
    \/ Step
    \/ CallFails \/ Crash \/ Boot
    \/ \E r \in Repos : Revoke(r) \/ Disturb(r)
    \/ ArchiveCatalog

Spec == Init /\ [][Next]_vars

\* A caller that got an error repeats its command (the contract of the
\* operation), the server is restarted, and a call under way goes on.
FairSpec ==
    /\ Spec
    /\ WF_vars(Step) /\ WF_vars(Boot)
    /\ \A c \in Commands, r \in Repos : SF_vars(Resume(c, r))

---------------------------------------------------------------------------
\* Type correctness, with the ledger's two indexes agreeing.
TypeOK ==
    /\ \A r \in Repos :
        /\ rec[r].phase \in {"NONE", "RESERVED", "OWNED", "READY"}
        /\ rec[r].head \in 0..used
        /\ rec[r] # NoRecord => commands[rec[r].cmd] = r
        /\ backend[r].id \in 0..used /\ backend[r].owner \in {"none", "kc", "other"}
    /\ \A c \in Commands : commands[c] # "none" => rec[commands[c]].cmd = c
    /\ made \subseteq 1..used /\ used \in 0..MaxBackends
    /\ initial \subseteq Repos /\ granted \subseteq initial
    /\ store \subseteq Repos
    /\ catalog \in {"active", "archived"} /\ server \in {"up", "down"}
    /\ op = Idle \/ op.pc \in {"owner", "create", "owned", "open", "install", "grant", "ready"}
    /\ faults \in 0..MaxFaults

\* No backend repository of this deployment stands without an allocation in
\* the ledger, whatever call failed or was killed: the reservation is durable
\* before managedCreate (snapshot/internal/giteaimpl/managed.go: "must have been durably reserved").
NoOrphan == \A r \in Repos : backend[r].owner = "kc" => rec[r] # NoRecord

\* With Gitea the recorded source is one this deployment created, never a
\* repository somebody put at the address (createManaged: never "accept a
\* conflict blindly").
OwnSource ==
    \A r \in Repos : Driver[r] = "gitea" /\ rec[r].head # 0 => rec[r].head \in made

\* READY means that the source was recorded and the creator's grant applied,
\* across failures between the policy write and the ledger write.
ReadyGranted == \A r \in Repos :
    rec[r].phase = "READY" => r \in initial /\ rec[r].head # 0

\* The ledger is ahead of the backend and behind the policy: a repository has
\* its allocation, and READY its source and grant (CreateManagedRepository).
LedgerOrder == NoOrphan /\ ReadyGranted

\* "A provisioning retry must never restore a revoked rule"
\* (invocation/allow.go): once applied and revoked, the grant stays revoked,
\* even when the call died between grant and receipt.
NoRegrant == [][\A r \in Repos : r \in initial /\ r \notin granted => r \notin granted']_vars

\* "Missing or replaced repositories are never recreated" (OpenManaged): past
\* RESERVED this deployment puts no new repository at the address.
NeverRecreated ==
    [][\A r \in Repos : rec[r].head # 0 /\ backend'[r] # backend[r] => backend'[r].owner # "kc"]_vars

\* The repository the ledger recorded is gone or replaced.
TakenAway(r) == rec[r].head # 0 /\ backend[r].id # rec[r].head

\* "resumes the same durable allocation after failures": a reserved
\* allocation becomes READY when its caller keeps retrying, unless the Catalog
\* was archived, its repository replaced or, once recorded, taken away, or a
\* lakeFS source was taken away, without which the server does not open.
Completes ==
    \A r \in Repos : rec[r].phase = "RESERVED"
        ~> \/ rec[r].phase = "READY"
           \/ catalog = "archived"
           \/ backend[r].owner = "other"
           \/ TakenAway(r)
           \/ \E q \in Repos : Driver[q] = "lakefs" /\ TakenAway(q)

====
