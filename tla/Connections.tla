----------------------------- MODULE Connections -----------------------------
(***************************************************************************)
(* Repositories bound to a running deployment: connections to existing     *)
(* external repositories (home/connections*.go, connections.db), managed   *)
(* allocations as far as they share identities with them (home/managed.go, *)
(* managed.db), admission to the Catalog (AttachRepository) and opening    *)
(* the deployment again (OpenDeployment).                                  *)
(*                                                                         *)
(* ConnectRepository, CreateManagedRepository and the rotation of a        *)
(* credential run under one lock per deployment, and grants under the      *)
(* server's exclusive invocation lock, so each is one action; its argument *)
(* `stop` says after which durable write it failed or was killed.          *)
(***************************************************************************)
EXTENDS Naturals, FiniteSets

CONSTANTS
    Ids,          \* repository identities
    Owners,
    Urls,         \* approved external locations
    Creds,        \* credentials
    MaxBackend,   \* bound: repositories ever created at a location
    MaxRevision   \* bound: revisions of a connection record

ASSUME SomeCredential == Creds # {}

VARIABLES
    crec,      \* connections.db: one record with its credential per identity
    mrec,      \* managed.db: phase of the allocation of each identity
    receipts,  \* allow.json InitialGrants: allocations whose grant was made
    grants,    \* allow.json: initial grants still in force
    members,   \* repositories admitted to the Catalog
    up,        \* the process runs
    store,     \* identities the process has a source for
    remote,    \* external repositories
    touched    \* history: [id, backend] pairs operations were carried out on

connectionVars == <<crec, mrec, receipts, grants, members, up, store, remote, touched>>

None == [phase |-> "none"]

\* connectionRecord; epoch stands for the initial published commit.
Record(owner, url, cred, backend, epoch, phase, rev) ==
    [owner |-> owner, url |-> url, cred |-> cred, backend |-> backend, epoch |-> epoch,
     phase |-> phase, rev |-> rev]

Connected == {i \in Ids : crec[i] # None}

\* validateManagedBindings and validateConnectionState: DeploymentConfig.Validate of
\* all bindings together refuses an identity bound twice, reserved ones included.
ValidateDeploymentState == \A i \in Ids : crec[i] = None \/ mrec[i] = "none"

\* Mutant: only the location is looked at.
OpensAny(rec, cred) == remote[rec.url].backend # 0 /\ remote[rec.url].cred = cred

\* openConnectionRecord and the driver's connectionOpen: the numeric backend
\* identity and the initial published commit must be the recorded ones.
Opens(rec, cred) ==
    LET r == remote[rec.url]
    IN r.backend # 0 /\ r.cred = cred /\ r.backend = rec.backend /\ r.epoch = rec.epoch

---------------------------------------------------------------------------

\* EnsureManagedRepositoryGrant, keyed by the allocation.
Grant(x) ==
    IF x \in receipts THEN UNCHANGED <<receipts, grants>>
    ELSE receipts' = receipts \cup {x} /\ grants' = grants \cup {x}

\* What a connect leaves behind: the record saved, the source installed, and,
\* unless it stopped, the grant made and the record READY.
Finish(i, rec, stop) ==
    /\ store' = store \cup {i}
    /\ IF stop = "saved"
       THEN crec' = [crec EXCEPT ![i] = rec] /\ UNCHANGED <<receipts, grants>>
       ELSE /\ Grant(<<"connection", i>>)
            /\ crec' = [crec EXCEPT ![i] =
                  IF stop = "granted" THEN rec ELSE [rec EXCEPT !.phase = "READY", !.rev = @ + 1]]

Stops == {"saved", "granted", "done"}

\* ConnectRepository without a record: the identity must have no source and be
\* in no Catalog; the external repository is only read.
ConnectNew(p, i, u, c, stop) ==
    /\ up /\ ValidateDeploymentState /\ crec[i] = None
    /\ i \notin store /\ i \notin members
    /\ remote[u].backend # 0 /\ remote[u].cred = c
    /\ Finish(i, Record(p, u, c, remote[u].backend, remote[u].epoch, "CONNECTED", 1), stop)
    /\ UNCHANGED <<mrec, members, up, remote, touched>>

\* ConnectRepository with a record: same owner, location and credential; READY
\* is answered from the ledger, CONNECTED goes on without looking at the source.
ConnectAgain(p, i, u, c, stop) ==
    /\ up /\ ValidateDeploymentState /\ crec[i] # None
    /\ crec[i].owner = p /\ crec[i].url = u /\ crec[i].cred = c
    /\ crec[i].phase = "CONNECTED" /\ crec[i].rev < MaxRevision
    /\ Finish(i, crec[i], stop)
    /\ UNCHANGED <<mrec, members, up, remote, touched>>

\* RotateConnectionCredential: the new credential must open the recorded authority.
Rotate(i, c) ==
    /\ up /\ crec[i] # None /\ crec[i].rev < MaxRevision
    /\ Opens(crec[i], c)
    /\ crec' = [crec EXCEPT ![i].cred = c, ![i].rev = @ + 1]
    /\ UNCHANGED <<mrec, receipts, grants, members, up, store, remote, touched>>

\* connectionCall: every operation reads the current record, the credential with
\* it, and opens the authority anew; CheckConnection is one of them.
Use(i) ==
    /\ up /\ i \in store /\ crec[i] # None
    /\ Opens(crec[i], crec[i].cred)
    /\ touched' = touched \cup {[id |-> i, backend |-> remote[crec[i].url].backend]}
    /\ UNCHANGED <<crec, mrec, receipts, grants, members, up, store, remote>>

---------------------------------------------------------------------------
\* CreateManagedRepository: reserveManaged checks the identity, the backend is
\* created, the source installed, the grant made.
CreateManaged(i, stop) ==
    /\ up /\ ValidateDeploymentState /\ mrec[i] # "READY"
    /\ mrec[i] = "none" => i \notin store /\ i \notin members
    /\ IF stop = "saved"
       THEN /\ mrec[i] = "none" /\ mrec' = [mrec EXCEPT ![i] = "RESERVED"]
            /\ UNCHANGED <<store, receipts, grants>>
       ELSE /\ store' = store \cup {i}
            /\ IF stop = "granted"
               THEN mrec' = [mrec EXCEPT ![i] = "OWNED"] /\ UNCHANGED <<receipts, grants>>
               ELSE mrec' = [mrec EXCEPT ![i] = "READY"] /\ Grant(<<"managed", i>>)
    /\ UNCHANGED <<crec, members, up, remote, touched>>

\* AttachRepository: a connection must open, any other identity must have a
\* provisioned allocation, and the process a source for it.
Attach(i) ==
    /\ up /\ ValidateDeploymentState /\ i \in store
    /\ IF crec[i] # None THEN Opens(crec[i], crec[i].cred) ELSE mrec[i] \in {"OWNED", "READY"}
    /\ members' = members \cup {i}
    /\ UNCHANGED <<crec, mrec, receipts, grants, up, store, remote, touched>>

\* grant revoke.
Revoke(x) ==
    /\ up /\ x \in grants
    /\ grants' = grants \ {x}
    /\ UNCHANGED <<crec, mrec, receipts, members, up, store, remote, touched>>

\* The process ends; everything but the ledgers is gone.
Stop ==
    /\ up /\ up' = FALSE /\ store' = {}
    /\ UNCHANGED <<crec, mrec, receipts, grants, members, remote, touched>>

\* OpenDeployment: managed sources past RESERVED and every connection get a source,
\* the latter without contacting it.
OpenDeployment ==
    /\ ~up /\ ValidateDeploymentState
    /\ up' = TRUE
    /\ store' = {i \in Ids : mrec[i] \in {"OWNED", "READY"}} \cup Connected
    /\ UNCHANGED <<crec, mrec, receipts, grants, members, remote, touched>>

\* External: an owner deletes and recreates a repository, rewrites its history,
\* or replaces the credential.
ChangeRemote(u) ==
    /\ \/ /\ remote[u].backend < MaxBackend
          /\ remote' = [remote EXCEPT ![u].backend = @ + 1, ![u].epoch = 1]
       \/ /\ remote[u].epoch < 2 /\ remote' = [remote EXCEPT ![u].epoch = @ + 1]
       \/ \E c \in Creds \ {remote[u].cred} : remote' = [remote EXCEPT ![u].cred = c]
    /\ UNCHANGED <<crec, mrec, receipts, grants, members, up, store, touched>>

---------------------------------------------------------------------------
ConnectionInit ==
    /\ crec = [i \in Ids |-> None]
    /\ mrec = [i \in Ids |-> "none"]
    /\ receipts = {} /\ grants = {} /\ members = {}
    /\ up = TRUE /\ store = {}
    /\ remote = [u \in Urls |-> [backend |-> 1, epoch |-> 1, cred |-> CHOOSE c \in Creds : TRUE]]
    /\ touched = {}

ConnectionNext ==
    \/ \E p \in Owners, i \in Ids, u \in Urls, c \in Creds, stop \in Stops :
          ConnectNew(p, i, u, c, stop) \/ ConnectAgain(p, i, u, c, stop)
    \/ \E i \in Ids, c \in Creds : Rotate(i, c)
    \/ \E i \in Ids : Use(i) \/ Attach(i) \/ \E stop \in Stops : CreateManaged(i, stop)
    \/ \E x \in grants : Revoke(x)
    \/ Stop \/ OpenDeployment
    \/ \E u \in Urls : ChangeRemote(u)

ConnectionSpec == ConnectionInit /\ [][ConnectionNext]_connectionVars

---------------------------------------------------------------------------
\* One authority for life: whatever happens to the external location, to
\* credentials and to the process, all operations through a connection are
\* carried out on the repository it was connected to.
OneAuthority ==
    \A s, t \in touched : s.id = t.id => s.backend = t.backend

\* "CreateManagedRepository resumes the same durable allocation after failures":
\* an allocation left RESERVED by a failed create can still be resumed, so the
\* check every creation and every start begins with must pass.
AllocationResumable ==
    \A i \in Ids : mrec[i] = "RESERVED" => ValidateDeploymentState
=============================================================================
