--------------------------- MODULE LakeFSPublish ---------------------------
(***************************************************************************)
(* Publication of a lakeFS branch (snapshot/internal/lakefsimpl): an       *)
(* expected-old compare-and-swap built from stock lakeFS requests.  A      *)
(* hidden branch whose creation is atomic is the mutex; its holder checks  *)
(* the head, hard-resets the published branch, reads it back and deletes   *)
(* the lock branch by name.  Each request is one step, so requests of      *)
(* several publishers interleave; a publisher may crash between requests,  *)
(* and a response or a best-effort delete may be lost.                     *)
(***************************************************************************)
EXTENDS Integers, Sequences

CONSTANTS
    Publishers,        \* KC service processes or goroutines that publish
    Serialized,        \* mutating invocations run one at a time (facade.invoke)
    MaxCandidates,     \* bound: candidate commits
    MaxPublishFaults   \* bound: crashes and lost requests or responses

VARIABLES
    branch,     \* head commit of the published branch; 0 is the initial one
    lock,       \* head commit of the hidden lock branch, or NoLock
    parent,     \* parent[k]: the base of candidate commit k
    archived,   \* does the hidden archive branch exist?
    pub,        \* pub[p]: the publication p is executing
    publishFaults,
    acked,      \* ghost: commits reported as published
    stolen      \* ghost: was a lock deleted that another publication had created?

publishVars == <<branch, lock, parent, archived, pub, publishFaults, acked, stolen>>

NotPublishing == [pc |-> "idle"]

PublishPCs == {"lock", "readBranch", "readLock", "clear", "check", "reset", "verify", "release"}

Publication == [pc : PublishPCs, candidate : Nat, expected : Nat, seen : Nat,
                result : {"none", "ok", "error"}]

NoLock == -1   \* the lock branch does not exist

PublishInit ==
    /\ branch = 0
    /\ lock = NoLock
    /\ parent = << >>
    /\ archived = "no"
    /\ pub = [p \in Publishers |-> NotPublishing]
    /\ publishFaults = 0
    /\ acked = {}
    /\ stolen = "no"

PublishGoto(p, pc) == pub' = [pub EXCEPT ![p].pc = pc]

(* Every exit of publishBranch: through the deferred delete for a holder.  *)
Finish(p, pc, result) == pub' = [pub EXCEPT ![p].pc = pc, ![p].result = result]

PublishReturn(p, result) ==
    /\ pub' = [pub EXCEPT ![p] = NotPublishing]
    /\ acked' = IF result = "ok" THEN acked \cup {pub[p].candidate} ELSE acked

PublishFault == publishFaults < MaxPublishFaults /\ publishFaults' = publishFaults + 1

(* deleteBranch names the lock branch, not the publication that created    *)
(* it; mine is the head the deleting publication takes it to have.         *)
DeleteLock(mine) ==
    /\ lock' = NoLock
    /\ stolen' = IF lock \in {NoLock, mine} THEN stolen ELSE "yes"

OthersIdle(p) == \A q \in Publishers \ {p} : pub[q].pc = "idle"

-----------------------------------------------------------------------------
(* A candidate computed from the current head that no ref, lock or running *)
(* publication names any more: a retry's fresh candidate takes its number. *)
Discarded == {k \in DOMAIN parent :
                /\ parent[k] = branch /\ k # branch /\ k # lock /\ k \notin acked
                /\ \A p \in Publishers : pub[p].pc # "idle" => pub[p].candidate # k}

(* applyTreeCommit or Merge: not archived, the head is the expected one,   *)
(* and a candidate descending from it has been committed off-branch.       *)
Prepare(p) ==
    /\ pub[p].pc = "idle"
    /\ Serialized => OthersIdle(p)
    /\ archived = "no"
    /\ \E k \in IF Discarded = {} THEN {Len(parent) + 1} ELSE Discarded :
         /\ k <= MaxCandidates
         /\ parent' = IF k \in DOMAIN parent THEN parent ELSE Append(parent, branch)
         /\ pub' = [pub EXCEPT ![p] = [pc |-> "lock", candidate |-> k,
                      expected |-> branch, seen |-> 0, result |-> "none"]]
    /\ UNCHANGED <<branch, lock, archived, publishFaults, acked, stolen>>

(* createBranch(lock): one creator wins, the others get 409.               *)
AcquireLock(p) ==
    /\ pub[p].pc = "lock"
    /\ IF lock = NoLock
         THEN lock' = pub[p].candidate /\ PublishGoto(p, "check")
         ELSE PublishGoto(p, "readBranch") /\ UNCHANGED lock
    /\ UNCHANGED <<branch, parent, archived, publishFaults, acked, stolen>>

(* The request fails without a 409; it may have created the branch.        *)
AcquireLockLost(p) ==
    /\ pub[p].pc = "lock"
    /\ PublishFault
    /\ lock' \in {lock, IF lock = NoLock THEN pub[p].candidate ELSE lock}
    /\ PublishReturn(p, "error")
    /\ UNCHANGED <<branch, parent, archived, stolen>>

-----------------------------------------------------------------------------
(* The conflict path.                                                      *)
ReadBranch(p) ==
    /\ pub[p].pc = "readBranch"
    /\ pub' = [pub EXCEPT ![p].pc = "readLock", ![p].seen = branch]
    /\ UNCHANGED <<branch, lock, parent, archived, publishFaults, acked, stolen>>

(* A head that equals the lock's head means a completed publisher did not  *)
(* clean up: whoever finds the ref moved deletes the lock for it.          *)
ReadLock(p) ==
    LET moved == pub[p].seen # pub[p].expected
        result == IF pub[p].seen = pub[p].candidate THEN "ok" ELSE "error"
    IN
    /\ pub[p].pc = "readLock"
    /\ IF moved /\ lock = pub[p].seen
         THEN Finish(p, "clear", result) /\ UNCHANGED acked
         ELSE PublishReturn(p, result)
    /\ UNCHANGED <<branch, lock, parent, archived, publishFaults, stolen>>

ClearLock(p) ==
    /\ pub[p].pc = "clear"
    /\ DeleteLock(pub[p].seen)
    /\ PublishReturn(p, pub[p].result)
    /\ UNCHANGED <<branch, parent, archived, publishFaults>>

-----------------------------------------------------------------------------
(* The holder's path.                                                      *)
Check(p) ==
    /\ pub[p].pc = "check"
    /\ IF branch = pub[p].expected
         THEN PublishGoto(p, "reset")
         ELSE Finish(p, "release", IF branch = pub[p].candidate THEN "ok" ELSE "error")
    /\ UNCHANGED <<branch, lock, parent, archived, publishFaults, acked, stolen>>

HardReset(p) ==
    /\ pub[p].pc = "reset"
    /\ branch' = pub[p].candidate
    /\ PublishGoto(p, "verify")
    /\ UNCHANGED <<lock, parent, archived, publishFaults, acked, stolen>>

(* Mutant: the error of hard_reset is taken for a lost answer.             *)
HardResetLostIgnored(p) ==
    /\ pub[p].pc = "reset"
    /\ PublishFault
    /\ branch' \in {branch, pub[p].candidate}
    /\ Finish(p, "release", "ok")
    /\ UNCHANGED <<lock, parent, archived, acked, stolen>>

(* hard_reset reports an error; it may have moved the branch.              *)
HardResetLost(p) ==
    /\ pub[p].pc = "reset"
    /\ PublishFault
    /\ branch' \in {branch, pub[p].candidate}
    /\ Finish(p, "release", "error")
    /\ UNCHANGED <<lock, parent, archived, acked, stolen>>

Verify(p) ==
    /\ pub[p].pc = "verify"
    /\ Finish(p, "release", IF branch = pub[p].candidate THEN "ok" ELSE "error")
    /\ UNCHANGED <<branch, lock, parent, archived, publishFaults, acked, stolen>>

VerifyLost(p) ==
    /\ pub[p].pc \in {"check", "verify"}
    /\ PublishFault
    /\ Finish(p, "release", "error")
    /\ UNCHANGED <<branch, lock, parent, archived, acked, stolen>>

(* The deferred deleteBranch; its error is ignored.                        *)
ReleaseLock(p) ==
    /\ pub[p].pc = "release"
    /\ \/ DeleteLock(pub[p].candidate) /\ UNCHANGED publishFaults
       \/ PublishFault /\ UNCHANGED <<lock, stolen>>
    /\ PublishReturn(p, pub[p].result)
    /\ UNCHANGED <<branch, parent, archived>>

-----------------------------------------------------------------------------
(* Mutant: Archive does not wait for running publications.                 *)
ArchiveAnytime ==
    /\ archived = "no"
    /\ archived' = "yes"
    /\ UNCHANGED <<branch, lock, parent, pub, publishFaults, acked, stolen>>

Archive ==
    /\ archived = "no"
    /\ Serialized => \A p \in Publishers : pub[p].pc = "idle"
    /\ archived' = "yes"
    /\ UNCHANGED <<branch, lock, parent, pub, publishFaults, acked, stolen>>

PublisherCrash(p) ==
    /\ pub[p].pc # "idle"
    /\ PublishFault
    /\ pub' = [pub EXCEPT ![p] = NotPublishing]
    /\ UNCHANGED <<branch, lock, parent, archived, acked, stolen>>

PublishStep(p) ==
    \/ AcquireLock(p) \/ AcquireLockLost(p)
    \/ ReadBranch(p) \/ ReadLock(p) \/ ClearLock(p)
    \/ Check(p) \/ HardReset(p) \/ HardResetLost(p) \/ Verify(p) \/ VerifyLost(p)
    \/ ReleaseLock(p)

PublishNext ==
    \/ \E p \in Publishers : Prepare(p) \/ PublishStep(p) \/ PublisherCrash(p)
    \/ Archive

PublishSpec == PublishInit /\ [][PublishNext]_publishVars

-----------------------------------------------------------------------------
(* Type correctness of the branch, its lock branch and the publications    *)
(* (publishBranch).                                                        *)
PublicationTypeOK ==
    /\ branch \in Nat
    /\ lock \in Nat \cup {NoLock}
    /\ parent \in Seq(Nat)
    /\ archived \in {"no", "yes"}
    /\ pub \in [Publishers -> Publication \cup {NotPublishing}]
    /\ publishFaults \in Nat
    /\ acked \subseteq Nat
    /\ stolen \in {"no", "yes"}

(* Of the candidates computed from one head, at most one is acknowledged   *)
(* by publishBranch, so no caller is told that a dropped commit is live.   *)
OneWinner == \A j, k \in acked : parent[j] = parent[k] => j = k

(* Contending publishers, lost answers and crashes included, one head has  *)
(* one winner as long as no deletion by name removed the lock of another   *)
(* publication: that deletion is the only way to two winners.              *)
OneWinnerUnlessStolen == stolen = "no" => OneWinner

Ref == INSTANCE CASRef WITH branch <- branch, parent <- parent, archived <- archived

(* The published branch implements the abstract compare-and-swap ref that   *)
(* snapshot.Store promises: publishBranch moves it only from a commit to a  *)
(* candidate built on it, and never once the repository is archived.        *)
RefSpec == Ref!CSpec

=============================================================================
