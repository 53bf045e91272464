------------------------ MODULE ProjectionController ------------------------
(***************************************************************************)
(* The projection controller (index/controller.go, index/consumer.go) for  *)
(* one repository.  controller.db keeps one work record for the search     *)
(* projection and one for every registered Snapshot consumer; commit hooks *)
(* write the desired commit into them, and one worker per record compares  *)
(* published HEAD, record and actual state and catches up.  A worker runs  *)
(* at start, when woken and on every tick, and CatchUp takes the same      *)
(* mutex, so there is one run per record at a time and one always follows. *)
(***************************************************************************)
EXTENDS Integers

CONSTANTS
    Consumers,   \* registered Snapshot consumers
    Search,      \* the search projection's record
    Indexed,     \* is there a search index (NewController(nil, ...): no)
    MaxHead,     \* bound: commits published
    MaxFaults    \* bound: failed calls, store errors, losses and restarts

Lanes == Consumers \cup {Search}

VARIABLES
    head,     \* published HEAD; commits are numbered, 0: nothing published
    hooks,    \* <<k, r>>: Desire(k) that has not reached record r yet
    rec,      \* rec[r]: the durable work record of r
    built,    \* built[r]: the commit r really has: engine basis or cache
    run,      \* run[r]: the catch-up run of r's worker
    faults

vars == <<head, hooks, rec, built, run, faults>>

ASSUME ConstantsAssumption ==
    /\ Search \notin Consumers
    /\ Indexed \in BOOLEAN
    /\ MaxHead \in Nat /\ MaxFaults \in Nat

Commit == 0..MaxHead

(* A ProjectionTarget; status "NONE": no record in the bucket.             *)
Record == [desired : Commit, applied : Commit,
           status : {"NONE", "PENDING", "READY", "FAILED"}]

NoRecord == [desired |-> 0, applied |-> 0, status |-> "NONE"]

(* A run: the record it listed, the HEAD it read, and its next step.       *)
Idle == [pc |-> "idle", known |-> NoRecord, seen |-> 0]

Run == [pc : {"idle", "head", "list", "aligned", "ensure", "finish", "failed"},
        known : Record, seen : Commit]

Init ==
    /\ head = 0
    /\ hooks = {}
    /\ rec = [r \in Lanes |-> NoRecord]
    /\ built = [r \in Lanes |-> 0]
    /\ run = [r \in Lanes |-> Idle]
    /\ faults = 0

Fault == faults < MaxFaults /\ faults' = faults + 1

Goto(r, pc) == run' = [run EXCEPT ![r].pc = pc]

Stop(r) == run' = [run EXCEPT ![r] = Idle]

-----------------------------------------------------------------------------

(* A Writer publishes; its AfterSnapshot hook still has to call Desire.    *)
Publish ==
    /\ head < MaxHead
    /\ head' = head + 1
    /\ hooks' = hooks \cup ({head'} \X Lanes)
    /\ UNCHANGED <<rec, built, run, faults>>

(* TargetStore.Desire replaces the desired commit; desireConsumer leaves a *)
(* record alone that already desires this commit.                          *)
Desired(r, k) ==
    IF r # Search /\ rec[r].status # "NONE" /\ rec[r].desired = k
      THEN rec[r]
      ELSE [rec[r] EXCEPT !.desired = k, !.status = "PENDING"]

(* Desire reaches one record; calls of several writers arrive in any order.*)
Desire(k, r) ==
    /\ <<k, r>> \in hooks
    /\ hooks' = hooks \ {<<k, r>>}
    /\ rec' = [rec EXCEPT ![r] = Desired(r, k)]
    /\ UNCHANGED <<head, built, run, faults>>

(* The store refuses the write, or the hook never runs.                    *)
DesireLost(k, r) ==
    /\ <<k, r>> \in hooks
    /\ Fault
    /\ hooks' = hooks \ {<<k, r>>}
    /\ UNCHANGED <<head, rec, built, run>>

-----------------------------------------------------------------------------
(* The search projection's run: reconcile, then applyPending.              *)

(* reconcile lists the records before it reads HEAD.                       *)
Start(r) ==
    /\ run[r].pc = "idle"
    /\ run' = [run EXCEPT ![r].pc = "head", ![r].known = rec[r]]
    /\ UNCHANGED <<head, hooks, rec, built, faults>>

(* Mutant: a READY record is taken for the projection itself.              *)
NeedsHeadRecordOnly(t) == t.desired # head \/ t.applied # head \/ t.status # "READY"

NeedsHead(t) ==
    \/ t.desired # head \/ t.applied # head \/ t.status # "READY"
    \/ built[Search] # head

(* publishedHead and needsHead; Desire(HEAD) writes this record here, and  *)
(* the lanes' records by their own pending calls.                          *)
ReconcileSearch ==
    /\ run[Search].pc = "head"
    /\ IF head # 0 /\ NeedsHead(run[Search].known)
         THEN /\ rec' = [rec EXCEPT ![Search] = Desired(Search, head)]
              /\ hooks' = hooks \cup ({head} \X Consumers)
         ELSE UNCHANGED <<rec, hooks>>
    /\ Goto(Search, "list")
    /\ UNCHANGED <<head, built, faults>>

(* HEAD cannot be read: the repository is skipped.                         *)
ReconcileSearchSkips ==
    /\ run[Search].pc = "head"
    /\ Fault
    /\ Goto(Search, "list")
    /\ UNCHANGED <<head, hooks, rec, built>>

(* applyPending lists again.                                               *)
ListSearch ==
    /\ run[Search].pc = "list"
    /\ IF rec[Search].status = "NONE"
         THEN Stop(Search)
         ELSE run' = [run EXCEPT ![Search].pc = "aligned", ![Search].known = rec[Search]]
    /\ UNCHANGED <<head, hooks, rec, built, faults>>

(* alignedWithHead: nothing to do, or the listed commit is to be ensured.  *)
AlignedSearch ==
    LET t == run[Search].known IN
    /\ run[Search].pc = "aligned"
    /\ IF t.status = "READY" /\ t.applied = t.desired /\ t.desired = head
         THEN Stop(Search)
         ELSE run' = [run EXCEPT ![Search].pc = "ensure", ![Search].seen = t.desired]
    /\ UNCHANGED <<head, hooks, rec, built, faults>>

(* An unreadable HEAD counts as aligned for a READY record.                *)
AlignedSearchUnread ==
    LET t == run[Search].known IN
    /\ run[Search].pc = "aligned"
    /\ t.status = "READY" /\ t.applied = t.desired
    /\ Fault
    /\ Stop(Search)
    /\ UNCHANGED <<head, hooks, rec, built>>

-----------------------------------------------------------------------------
(* A consumer's run: reconcileConsumer, then HEAD again, then Reconcile.   *)

ReconcileLane(c) ==
    /\ run[c].pc = "head" /\ head # 0
    /\ rec' = [rec EXCEPT ![c] = Desired(c, head)]
    /\ Goto(c, "list")
    /\ UNCHANGED <<head, hooks, built, faults>>

(* failConsumerHead, from reconcileConsumer or from the catch-up loop: no  *)
(* HEAD is published, or it cannot be read.                                *)
LaneHeadFails(c) ==
    /\ run[c].pc \in {"head", "aligned"}
    /\ IF head = 0 THEN UNCHANGED faults ELSE Fault
    /\ rec' = [rec EXCEPT ![c].status = "FAILED"]
    /\ IF run[c].pc = "head" THEN Goto(c, "list") ELSE Stop(c)
    /\ UNCHANGED <<head, hooks, built>>

ListLane(c) ==
    /\ run[c].pc = "list"
    /\ IF rec[c].status = "NONE"
         THEN Stop(c)
         ELSE run' = [run EXCEPT ![c].pc = "aligned", ![c].known = rec[c]]
    /\ UNCHANGED <<head, hooks, rec, built, faults>>

(* Mutant: the queued commit is warmed, not published HEAD.                *)
AlignLaneQueued(c) ==
    /\ run[c].pc = "aligned" /\ head # 0
    /\ run' = [run EXCEPT ![c].pc = "ensure", ![c].seen = run[c].known.desired]
    /\ UNCHANGED <<head, hooks, rec, built, faults>>

(* Mutant: a READY record at HEAD is not reconciled again.                 *)
AlignLaneSkipsReady(c) ==
    /\ run[c].pc = "aligned" /\ head # 0
    /\ IF run[c].known = [desired |-> head, applied |-> head, status |-> "READY"]
         THEN rec' = rec /\ Stop(c)
         ELSE /\ rec' = [rec EXCEPT ![c] = Desired(c, head)]
              /\ run' = [run EXCEPT ![c].pc = "ensure", ![c].seen = head]
    /\ UNCHANGED <<head, hooks, built, faults>>

(* "Published HEAD is the authority": the queued commit is replaced.       *)
AlignLane(c) ==
    /\ run[c].pc = "aligned" /\ head # 0
    /\ rec' = IF run[c].known.desired = head THEN rec
              ELSE [rec EXCEPT ![c] = Desired(c, head)]
    /\ run' = [run EXCEPT ![c].pc = "ensure", ![c].seen = head]
    /\ UNCHANGED <<head, hooks, built, faults>>

-----------------------------------------------------------------------------
(* Index.Ensure or SnapshotConsumer.Reconcile at the commit in hand.       *)
Build(r) ==
    /\ run[r].pc = "ensure"
    /\ built' = [built EXCEPT ![r] = run[r].seen]
    /\ Goto(r, "finish")
    /\ UNCHANGED <<head, hooks, rec, faults>>

BuildFails(r) ==
    /\ run[r].pc = "ensure"
    /\ Fault
    /\ Goto(r, "failed")
    /\ UNCHANGED <<head, hooks, rec, built>>

(* Mutant: a late completion is recorded whatever is desired by now.       *)
FinishLate(r) ==
    /\ run[r].pc \in {"finish", "failed"}
    /\ rec' = IF run[r].pc = "finish"
                THEN [rec EXCEPT ![r].status = "READY", ![r].applied = run[r].seen]
                ELSE [rec EXCEPT ![r].status = "FAILED"]
    /\ Stop(r)
    /\ UNCHANGED <<head, hooks, built, faults>>

(* finish and finishConsumer: a completion of another commit than the      *)
(* desired one is dropped.                                                 *)
Finish(r) ==
    /\ run[r].pc \in {"finish", "failed"}
    /\ rec' = IF rec[r].desired # run[r].seen THEN rec
              ELSE IF run[r].pc = "finish"
                THEN [rec EXCEPT ![r].status = "READY", ![r].applied = run[r].seen]
                ELSE [rec EXCEPT ![r].status = "FAILED"]
    /\ Stop(r)
    /\ UNCHANGED <<head, hooks, built, faults>>

(* controller.db fails: the run ends with an error that the worker drops.  *)
StoreFails(r) ==
    /\ run[r].pc # "idle"
    /\ Fault
    /\ Stop(r)
    /\ UNCHANGED <<head, hooks, rec, built>>

-----------------------------------------------------------------------------
(* The physical index disappears; a consumer's cache is evicted.           *)
LoseBuilt(r) ==
    /\ Fault
    /\ built[r] # 0
    /\ built' = [built EXCEPT ![r] = 0]
    /\ UNCHANGED <<head, hooks, rec, run>>

(* The process restarts: hooks, runs and the consumers' caches are gone.   *)
Restart ==
    /\ Fault
    /\ hooks' = {}
    /\ run' = [r \in Lanes |-> Idle]
    /\ built' = [r \in Lanes |-> IF r = Search THEN built[r] ELSE 0]
    /\ UNCHANGED <<head, rec>>

SearchStep ==
    \/ (Indexed /\ Start(Search)) \/ ReconcileSearch \/ ListSearch \/ AlignedSearch
    \/ Build(Search) \/ Finish(Search)

LaneStep(c) ==
    \/ Start(c) \/ ReconcileLane(c) \/ ListLane(c) \/ AlignLane(c)
    \/ Build(c) \/ Finish(c) \/ (head = 0 /\ LaneHeadFails(c))

Next ==
    \/ Publish
    \/ \E k \in 1..MaxHead, r \in Lanes : Desire(k, r) \/ DesireLost(k, r)
    \/ SearchStep \/ ReconcileSearchSkips \/ AlignedSearchUnread
    \/ \E c \in Consumers : LaneStep(c) \/ LaneHeadFails(c)
    \/ \E r \in Lanes : BuildFails(r) \/ StoreFails(r) \/ LoseBuilt(r)
    \/ Restart

Spec == Init /\ [][Next]_vars

(* Each worker's ticker keeps starting runs, a run's calls return, and the *)
(* hooks of a living process get to their Desire.                          *)
FairSpec ==
    /\ Spec
    /\ WF_vars(SearchStep)
    /\ \A c \in Consumers : WF_vars(LaneStep(c))
    /\ WF_vars(\E k \in 1..MaxHead, r \in Lanes : Desire(k, r))

-----------------------------------------------------------------------------
(* Type correctness of the records and workers (ProjectionTarget,          *)
(* ConsumerTarget): no record names a commit that was never published.     *)
TypeOK ==
    /\ head \in Commit
    /\ hooks \subseteq (1..MaxHead) \X Lanes
    /\ rec \in [Lanes -> Record]
    /\ built \in [Lanes -> Commit]
    /\ run \in [Lanes -> Run]
    /\ faults \in Nat

(* A late completion never overwrites a newer target: a record says READY  *)
(* only about the very commit that is desired, however hooks, runs and     *)
(* restarts interleave (TargetStore.finish, finishConsumer).               *)
ReadyIsDesired == \A r \in Lanes : rec[r].status = "READY" => rec[r].applied = rec[r].desired

(* A stale queued notice is no permission to warm a historical commit:     *)
(* what a consumer has built never goes back to an older commit            *)
(* (catchUpConsumer).                                                      *)
ConsumersForward ==
    [][\A c \in Consumers : built'[c] # 0 => built'[c] >= built[c]]_vars

(* Once writes, failures and losses stop, the search projection and every  *)
(* consumer are at HEAD and recorded so, even if every hook was lost, came *)
(* out of order, the physical index vanished or a restart emptied a cache  *)
(* behind a READY record (reconcile, needsHead, applyPending,              *)
(* reconcileConsumer, catchUpConsumer).                                    *)
LanesConverge ==
    \A r \in IF Indexed THEN Lanes ELSE Consumers :
        <>[](head = 0 \/ (built[r] = head /\ rec[r] =
               [desired |-> head, applied |-> head, status |-> "READY"]))
=============================================================================
