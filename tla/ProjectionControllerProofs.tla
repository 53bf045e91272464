--------------------- MODULE ProjectionControllerProofs ---------------------
(***************************************************************************)
(* Safety of the projection controller for every set of consumers, with or *)
(* without a search index, and of its Bound State lane for every number of *)
(* commits, observations and failures; and safety of the search engine for *)
(* every set of maintainers, commits, objects and units.                   *)
(***************************************************************************)
EXTENDS ProjectionController, StateNotices, ProjectionEngine, TLAPS

(* What a consumer has built is a commit that is published, and a run that *)
(* is about to build has read a HEAD at least as new.                      *)
LaneBuilt ==
    \A c \in Consumers :
      /\ built[c] <= head
      /\ run[c].pc = "ensure" => built[c] <= run[c].seen /\ run[c].seen <= head

IInv == TypeOK /\ ReadyIsDesired /\ LaneBuilt

(* A record that Desire writes is a record, and READY only about its own   *)
(* desired commit.                                                         *)
LEMMA DesiredShape ==
    ASSUME TypeOK, NEW r \in Lanes, NEW k \in Commit
    PROVE  /\ Desired(r, k) \in Record
           /\ ReadyIsDesired /\ Desired(r, k).status = "READY" =>
                Desired(r, k).applied = Desired(r, k).desired
  BY DEF TypeOK, Desired, Record, ReadyIsDesired

(* Updating one run or one record keeps the types of all.                  *)
LEMMA RunUpdate ==
    ASSUME TypeOK, NEW r \in Lanes,
           \/ run' = [run EXCEPT ![r] = Idle]
           \/ \E pc \in {"head", "list", "finish", "failed"} : run' = [run EXCEPT ![r].pc = pc]
           \/ \E pc \in {"head", "aligned"} :
                run' = [run EXCEPT ![r].pc = pc, ![r].known = rec[r]]
           \/ \E k \in Commit : run' = [run EXCEPT ![r].pc = "ensure", ![r].seen = k]
    PROVE  run' \in [Lanes -> Run]
<1>1. CASE run' = [run EXCEPT ![r] = Idle]
    BY <1>1, ConstantsAssumption DEF TypeOK, Run, Idle, NoRecord, Record, Commit
<1>2. ASSUME NEW pc \in {"head", "list", "finish", "failed"}, run' = [run EXCEPT ![r].pc = pc]
      PROVE  run' \in [Lanes -> Run]
    BY <1>2 DEF TypeOK, Run
<1>3. ASSUME NEW pc \in {"head", "aligned"},
             run' = [run EXCEPT ![r].pc = pc, ![r].known = rec[r]]
      PROVE  run' \in [Lanes -> Run]
  <2>0. run[r] \in Run /\ rec[r] \in Record
      BY DEF TypeOK
  <2>1. [run[r] EXCEPT !.pc = pc, !.known = rec[r]] \in Run
      BY <2>0 DEF Run
  <2> QED BY <1>3, <2>1 DEF TypeOK
<1>4. ASSUME NEW k \in Commit, run' = [run EXCEPT ![r].pc = "ensure", ![r].seen = k]
      PROVE  run' \in [Lanes -> Run]
  <2>0. run[r] \in Run
      BY DEF TypeOK
  <2>1. [run[r] EXCEPT !.pc = "ensure", !.seen = k] \in Run
      BY <2>0 DEF Run
  <2> QED BY <1>4, <2>1 DEF TypeOK
<1> QED BY <1>1, <1>2, <1>3, <1>4

LEMMA TypeStep == TypeOK /\ [Next]_vars => TypeOK'
<1> SUFFICES ASSUME TypeOK, [Next]_vars PROVE TypeOK'
    OBVIOUS
<1> USE ConstantsAssumption
<1>0. Search \in Lanes /\ \A c \in Consumers : c \in Lanes
    BY DEF Lanes
<1>1. CASE Publish
    BY <1>1 DEF Publish, TypeOK, Commit
<1>2. ASSUME NEW k \in 1..MaxHead, NEW r \in Lanes, Desire(k, r) \/ DesireLost(k, r)
      PROVE  TypeOK'
  <2>1. Desired(r, k) \in Record
      BY DesiredShape DEF Commit
  <2> QED BY <1>2, <2>1 DEF Desire, DesireLost, Fault, TypeOK
<1>3. ASSUME NEW r \in Lanes, Start(r) PROVE TypeOK'
    BY <1>3, RunUpdate DEF Start, TypeOK
<1>4. CASE ReconcileSearch
  <2>1. Desired(Search, head) \in Record
      BY <1>0, DesiredShape DEF TypeOK
  <2>2. run' \in [Lanes -> Run]
      BY <1>0, <1>4, RunUpdate DEF ReconcileSearch, Goto
  <2>3. head # 0 => head \in 1..MaxHead
      BY DEF TypeOK, Commit
  <2>4. rec' \in [Lanes -> Record] /\ hooks' \subseteq (1..MaxHead) \X Lanes
      BY <1>0, <1>4, <2>1, <2>3 DEF ReconcileSearch, TypeOK
  <2> QED BY <1>4, <2>2, <2>4 DEF ReconcileSearch, TypeOK
<1>5. CASE ReconcileSearchSkips
  <2>1. run' \in [Lanes -> Run]
      BY <1>0, <1>5, RunUpdate DEF ReconcileSearchSkips, Goto
  <2> QED BY <1>5, <2>1 DEF ReconcileSearchSkips, Fault, TypeOK
<1>6. CASE ListSearch
    BY <1>0, <1>6, RunUpdate DEF ListSearch, Stop, TypeOK
<1>7. CASE AlignedSearch
  <2>1. run[Search].known.desired \in Commit
      BY <1>0 DEF TypeOK, Run, Record
  <2> QED BY <1>0, <1>7, <2>1, RunUpdate DEF AlignedSearch, Stop, TypeOK
<1>8. CASE AlignedSearchUnread
  <2>1. run' \in [Lanes -> Run]
      BY <1>0, <1>8, RunUpdate DEF AlignedSearchUnread, Stop
  <2> QED BY <1>8, <2>1 DEF AlignedSearchUnread, Fault, TypeOK
<1>9. ASSUME NEW c \in Consumers, ReconcileLane(c) \/ AlignLane(c) PROVE TypeOK'
  <2>1. Desired(c, head) \in Record
      BY <1>0, DesiredShape DEF TypeOK
  <2>2. run' \in [Lanes -> Run]
      BY <1>0, <1>9, RunUpdate DEF ReconcileLane, AlignLane, Goto, TypeOK
  <2> QED BY <1>0, <1>9, <2>1, <2>2 DEF ReconcileLane, AlignLane, TypeOK
<1>10. ASSUME NEW c \in Consumers, LaneHeadFails(c) PROVE TypeOK'
  <2>1. run' \in [Lanes -> Run]
      BY <1>0, <1>10, RunUpdate DEF LaneHeadFails, Goto, Stop
  <2>2. rec' \in [Lanes -> Record]
      BY <1>0, <1>10 DEF LaneHeadFails, TypeOK, Record
  <2> QED BY <1>10, <2>1, <2>2 DEF LaneHeadFails, Fault, TypeOK
<1>11. ASSUME NEW c \in Consumers, ListLane(c) PROVE TypeOK'
    BY <1>0, <1>11, RunUpdate DEF ListLane, Stop, TypeOK
<1>12. ASSUME NEW r \in Lanes, Build(r) \/ BuildFails(r) PROVE TypeOK'
  <2>1. run' \in [Lanes -> Run]
      BY <1>12, RunUpdate DEF Build, BuildFails, Goto
  <2>2. built' \in [Lanes -> Commit]
      BY <1>12 DEF Build, BuildFails, TypeOK, Run
  <2> QED BY <1>12, <2>1, <2>2 DEF Build, BuildFails, Fault, TypeOK
<1>13. ASSUME NEW r \in Lanes, Finish(r) PROVE TypeOK'
  <2>1. run' \in [Lanes -> Run]
      BY <1>13, RunUpdate DEF Finish, Stop
  <2>0. rec[r] \in Record /\ run[r].seen \in Commit
      BY DEF TypeOK, Run
  <2>2. /\ [rec[r] EXCEPT !.status = "READY", !.applied = run[r].seen] \in Record
        /\ [rec[r] EXCEPT !.status = "FAILED"] \in Record
      BY <2>0 DEF Record
  <2>3. rec' \in [Lanes -> Record]
      BY <1>13, <2>2 DEF Finish, TypeOK
  <2> QED BY <1>13, <2>1, <2>3 DEF Finish, TypeOK
<1>14. ASSUME NEW r \in Lanes, StoreFails(r) PROVE TypeOK'
  <2>1. run' \in [Lanes -> Run]
      BY <1>14, RunUpdate DEF StoreFails, Stop
  <2> QED BY <1>14, <2>1 DEF StoreFails, Fault, TypeOK
<1>15. ASSUME NEW r \in Lanes, LoseBuilt(r) PROVE TypeOK'
    BY <1>15 DEF LoseBuilt, Fault, TypeOK, Commit
<1>16. CASE Restart
    BY <1>16 DEF Restart, Fault, TypeOK, Idle, NoRecord, Run, Record, Commit
<1>17. CASE UNCHANGED vars
    BY <1>17 DEF vars, TypeOK
<1> QED BY <1>0, <1>1, <1>2, <1>3, <1>4, <1>5, <1>6, <1>7, <1>8, <1>9, <1>10, <1>11, <1>12,
          <1>13, <1>14, <1>15, <1>16, <1>17 DEF Next, SearchStep, LaneStep

(* The types of records and workers hold in every reachable state.         *)
THEOREM ControllerTypeOK == Spec => []TypeOK
<1>1. Init => TypeOK
    BY ConstantsAssumption DEF Init, TypeOK, Idle, NoRecord, Run, Record, Commit
<1> QED BY <1>1, TypeStep, PTL DEF Spec

LEMMA ReadyStep == IInv /\ [Next]_vars => ReadyIsDesired'
<1> SUFFICES ASSUME IInv, [Next]_vars PROVE ReadyIsDesired'
    OBVIOUS
<1>0. /\ Search \in Lanes /\ \A c \in Consumers : c \in Lanes
      /\ TypeOK /\ ReadyIsDesired
    BY DEF IInv, Lanes
<1>1. ASSUME NEW r \in Lanes, NEW k \in Commit,
             rec' = [rec EXCEPT ![r] = Desired(r, k)]
      PROVE  ReadyIsDesired'
    BY <1>0, <1>1, DesiredShape DEF ReadyIsDesired, TypeOK
<1>2. ASSUME rec' = rec PROVE ReadyIsDesired'
    BY <1>0, <1>2 DEF ReadyIsDesired
<1>3. head \in Commit /\ \A k \in 1..MaxHead : k \in Commit
    BY <1>0, ConstantsAssumption DEF TypeOK, Commit
<1>4. ASSUME NEW k \in 1..MaxHead, NEW r \in Lanes, Desire(k, r) PROVE ReadyIsDesired'
    BY <1>1, <1>3, <1>4 DEF Desire
<1>5. CASE ReconcileSearch
    BY <1>0, <1>1, <1>2, <1>3, <1>5 DEF ReconcileSearch
<1>6. ASSUME NEW c \in Consumers, ReconcileLane(c) \/ AlignLane(c) PROVE ReadyIsDesired'
    BY <1>0, <1>1, <1>2, <1>3, <1>6 DEF ReconcileLane, AlignLane
<1>7. ASSUME NEW c \in Consumers, LaneHeadFails(c) PROVE ReadyIsDesired'
    BY <1>0, <1>7 DEF LaneHeadFails, ReadyIsDesired, TypeOK, Record
<1>8. ASSUME NEW r \in Lanes, Finish(r) PROVE ReadyIsDesired'
    BY <1>0, <1>8 DEF Finish, ReadyIsDesired, TypeOK, Record
<1>9. CASE Publish \/ ListSearch \/ AlignedSearch \/ ReconcileSearchSkips
              \/ AlignedSearchUnread \/ Restart \/ UNCHANGED vars
    BY <1>2, <1>9 DEF Publish, ListSearch, AlignedSearch, ReconcileSearchSkips,
         AlignedSearchUnread, Restart, vars
<1>10. ASSUME NEW r \in Lanes,
              \/ Start(r) \/ Build(r) \/ BuildFails(r) \/ StoreFails(r) \/ LoseBuilt(r)
              \/ ListLane(r) \/ \E k \in 1..MaxHead : DesireLost(k, r)
       PROVE  ReadyIsDesired'
    BY <1>2, <1>10 DEF Start, Build, BuildFails, StoreFails, LoseBuilt, ListLane, DesireLost
<1> QED BY <1>0, <1>4, <1>5, <1>6, <1>7, <1>8, <1>9, <1>10 DEF Next, SearchStep, LaneStep

LEMMA LaneStepBuilt ==
    IInv /\ [Next]_vars =>
      /\ LaneBuilt'
      /\ \A c \in Consumers : built'[c] # 0 => built'[c] >= built[c]
<1> DEFINE Forward == \A c \in Consumers : built'[c] # 0 => built'[c] >= built[c]
<1> SUFFICES ASSUME IInv, [Next]_vars PROVE LaneBuilt' /\ Forward
    OBVIOUS
<1> USE ConstantsAssumption
<1>0. /\ Search \in Lanes /\ \A c \in Consumers : c \in Lanes /\ c # Search
      /\ TypeOK /\ LaneBuilt
      /\ head \in Nat /\ \A r \in Lanes : built[r] \in Nat /\ run[r].seen \in Nat
    BY DEF IInv, Lanes, TypeOK, Commit, Run
<1>1. ASSUME built' = built, head' = head \/ head' = head + 1,
             NEW r \in Lanes, \A q \in Lanes \ {r} : run'[q] = run[q],
             r \in Consumers /\ run'[r].pc = "ensure" =>
               \/ run'[r] = run[r]
               \/ run'[r].seen = head /\ head' = head
      PROVE  LaneBuilt' /\ Forward
  <2>1. Forward
      BY <1>0, <1>1
  <2>2. ASSUME NEW c \in Consumers
        PROVE  /\ built[c] <= head'
               /\ run'[c].pc = "ensure" => built[c] <= run'[c].seen /\ run'[c].seen <= head'
    <3>1. CASE c # r
        BY <1>0, <1>1, <3>1 DEF LaneBuilt
    <3>2. CASE c = r
        BY <1>0, <1>1, <3>2 DEF LaneBuilt
    <3> QED BY <3>1, <3>2
  <2> QED BY <1>1, <2>1, <2>2 DEF LaneBuilt
<1>2. ASSUME NEW r \in Lanes, head' = head \/ head' = head + 1, built' = built, run' = run
      PROVE  LaneBuilt' /\ Forward
    BY <1>0, <1>1, <1>2
<1>3. CASE Publish \/ UNCHANGED vars
    BY <1>0, <1>2, <1>3 DEF Publish, vars
<1>4. ASSUME NEW r \in Lanes, NEW k \in 1..MaxHead, Desire(k, r) \/ DesireLost(k, r)
      PROVE  LaneBuilt' /\ Forward
    BY <1>2, <1>4 DEF Desire, DesireLost
<1>5. CASE ReconcileSearch \/ ReconcileSearchSkips \/ ListSearch \/ AlignedSearch
             \/ AlignedSearchUnread
    BY <1>0, <1>1, <1>5 DEF ReconcileSearch, ReconcileSearchSkips, ListSearch, AlignedSearch,
         AlignedSearchUnread, Goto, Stop, TypeOK
<1>6. ASSUME NEW r \in Lanes, Start(r) \/ BuildFails(r) \/ StoreFails(r) \/ Finish(r)
      PROVE  LaneBuilt' /\ Forward
  <2>1. /\ built' = built /\ head' = head
        /\ \A q \in Lanes \ {r} : run'[q] = run[q]
        /\ run'[r].pc # "ensure"
      BY <1>0, <1>6 DEF Start, BuildFails, StoreFails, Finish, Goto, Stop, Idle, TypeOK, Run
  <2> QED BY <1>1, <2>1
<1>7. ASSUME NEW c \in Consumers,
             ReconcileLane(c) \/ LaneHeadFails(c) \/ ListLane(c) \/ AlignLane(c)
      PROVE  LaneBuilt' /\ Forward
  <2>1. /\ built' = built /\ head' = head
        /\ \A q \in Lanes \ {c} : run'[q] = run[q]
      BY <1>0, <1>7 DEF ReconcileLane, LaneHeadFails, ListLane, AlignLane, Goto, Stop, TypeOK
  <2>2. run'[c].pc # "ensure" \/ run'[c].seen = head
      BY <1>0, <1>7 DEF ReconcileLane, LaneHeadFails, ListLane, AlignLane, Goto, Stop, Idle,
           TypeOK, Run
  <2> QED BY <1>0, <1>1, <2>1, <2>2
<1>8. ASSUME NEW r \in Lanes, Build(r) PROVE LaneBuilt' /\ Forward
  <2>1. /\ head' = head /\ run'[r].pc = "finish"
        /\ \A q \in Lanes \ {r} : run'[q] = run[q] /\ built'[q] = built[q]
        /\ built'[r] = run[r].seen /\ run[r].pc = "ensure"
      BY <1>8 DEF Build, Goto, IInv, TypeOK, Run
  <2>2. ASSUME NEW c \in Consumers
        PROVE  /\ built'[c] <= head'
               /\ run'[c].pc = "ensure" => built'[c] <= run'[c].seen /\ run'[c].seen <= head'
               /\ built'[c] # 0 => built'[c] >= built[c]
    <3>1. CASE c # r
        BY <1>0, <2>1, <3>1 DEF LaneBuilt
    <3>2. CASE c = r
        BY <1>0, <2>1, <3>2 DEF LaneBuilt
    <3> QED BY <3>1, <3>2
  <2> QED BY <2>2 DEF LaneBuilt
<1>9. ASSUME NEW r \in Lanes, LoseBuilt(r) PROVE LaneBuilt' /\ Forward
  <2>1. /\ head' = head /\ run' = run /\ built'[r] = 0
        /\ \A q \in Lanes \ {r} : built'[q] = built[q]
      BY <1>9 DEF LoseBuilt, IInv, TypeOK
  <2>2. ASSUME NEW c \in Consumers
        PROVE  /\ built'[c] <= head'
               /\ run'[c].pc = "ensure" => built'[c] <= run'[c].seen /\ run'[c].seen <= head'
               /\ built'[c] # 0 => built'[c] >= built[c]
    <3>1. CASE c # r
        BY <1>0, <2>1, <3>1 DEF LaneBuilt
    <3>2. CASE c = r
        BY <1>0, <2>1, <3>2 DEF LaneBuilt
    <3> QED BY <3>1, <3>2
  <2> QED BY <2>2 DEF LaneBuilt
<1>10. CASE Restart
    BY <1>0, <1>10 DEF Restart, Idle, LaneBuilt
<1> QED BY <1>0, <1>3, <1>4, <1>5, <1>6, <1>7, <1>8, <1>9, <1>10 DEF Next, SearchStep, LaneStep

LEMMA ControllerInv == Spec => []IInv
<1>1. Init => IInv
  <2>1. Init => TypeOK
      BY ConstantsAssumption DEF Init, TypeOK, Idle, NoRecord, Run, Record, Commit
  <2>2. Init => ReadyIsDesired /\ LaneBuilt
      BY DEF Init, ReadyIsDesired, LaneBuilt, NoRecord, Idle, Lanes
  <2> QED BY <2>1, <2>2 DEF IInv
<1>2. IInv /\ [Next]_vars => IInv'
    BY TypeStep, ReadyStep, LaneStepBuilt DEF IInv
<1> QED BY <1>1, <1>2, PTL DEF Spec

(* A record says READY only about the commit that is desired: late         *)
(* completions of a run never overwrite a newer target.                    *)
THEOREM ControllerReadyIsDesired == Spec => []ReadyIsDesired
<1>1. IInv => ReadyIsDesired
    BY DEF IInv
<1> QED BY <1>1, ControllerInv, PTL

(* What a consumer has built never goes back to an older commit.           *)
THEOREM ControllerConsumersForward == Spec => ConsumersForward
<1>1. IInv /\ [Next]_vars =>
        [\A c \in Consumers : built'[c] # 0 => built'[c] >= built[c]]_vars
    BY LaneStepBuilt
<1> QED BY <1>1, ControllerInv, PTL DEF Spec, ConsumersForward

(***************************************************************************)
(* The Bound State lane: who holds the mutex has pulled what no view is    *)
(* ahead of, and the worker has pulled after it listed the notice.         *)
(***************************************************************************)
SyncPCs == {"idle", "lock", "publish"}

LaneTypeOK ==
    /\ published \in Declaration /\ obs \in Obs /\ told \in Obs
    /\ view \in [Declaration -> Obs \cup {None}]
    /\ refresh \in [Procs -> RefreshRun] /\ refresh["sync"].pc \in SyncPCs

Holds(r) == r.pc \in {"coldPublish", "publish"}

\* At most one refresh is between its pull and its publication, and no view is
\* ahead of what it pulled.
MutexHeld ==
    /\ ~(Holds(refresh["worker"]) /\ Holds(refresh["sync"]))
    /\ \A p \in Procs : Holds(refresh[p]) =>
          refresh[p].pulled <= obs /\ \A k \in Declaration : view[k] <= refresh[p].pulled

\* The notice in the worker's hands was announced before the worker pulled, and is
\* served once the worker has published.
NoticeHeld ==
    LET w == refresh["worker"]
    IN /\ told <= obs /\ \A k \in Declaration : view[k] <= obs
       /\ w.pc \in {"head", "lock"} => w.listed <= obs
       /\ w.pc = "publish" => w.listed <= w.pulled
       /\ w.pc = "finish" => w.listed <= view[w.commit]

VInv == LaneTypeOK /\ MutexHeld /\ NoticeHeld

LEMMA ObsNumbers == Obs \subseteq Nat /\ None \notin Obs /\ \A v \in Obs \cup {None} : v \in Int /\ v <= MaxObs
BY NoticeBounds DEF Obs, None

LEMMA NoticesInitial == NoticeInit => VInv
<1> SUFFICES ASSUME NoticeInit PROVE VInv
    OBVIOUS
<1>1. NotRefreshing \in RefreshRun /\ NotRefreshing.pc = "idle"
    BY NoticeBounds DEF NotRefreshing, RefreshRun, PCs, Declaration, Obs
<1>2. refresh \in [Procs -> RefreshRun] /\ \A p \in Procs : refresh[p].pc = "idle"
    BY <1>1 DEF NoticeInit
<1>3. published \in Declaration /\ obs = 0 /\ told = 0 /\ obs \in Obs
    BY NoticeBounds DEF NoticeInit, Declaration, Obs
<1>4. view = [k \in Declaration |-> None]
    BY DEF NoticeInit
<1>5. "worker" \in Procs /\ "sync" \in Procs
    BY DEF Procs
<1>6. LaneTypeOK
    BY <1>2, <1>3, <1>4, <1>5 DEF LaneTypeOK, SyncPCs
<1> QED BY <1>2, <1>3, <1>4, <1>5, <1>6 DEF VInv, MutexHeld, NoticeHeld, Holds, None

\* One process moves, and its run stays a run.
LEMMA Moves ==
    ASSUME LaneTypeOK, NEW p \in Procs, NEW r \in RefreshRun, refresh' = [refresh EXCEPT ![p] = r]
    PROVE  /\ refresh' \in [Procs -> RefreshRun] /\ refresh'[p] = r
           /\ \A q \in Procs : q # p => refresh'[q] = refresh[q]
BY DEF LaneTypeOK

\* Steps that change neither observations nor views, after which no process holds
\* the mutex that did not, and the worker claims no more than it may.
LEMMA QuietStep ==
    ASSUME VInv, UNCHANGED <<obs, view>>, published' \in Declaration,
           told' = told \/ told' = obs,
           NEW p \in Procs, NEW r \in RefreshRun, refresh' = [refresh EXCEPT ![p] = r],
           ~Holds(r), p = "sync" => r.pc \in SyncPCs,
           p = "worker" => /\ r.pc \in {"head", "lock"} => r.listed <= obs
                           /\ r.pc # "finish"
    PROVE  VInv'
<1>1. /\ refresh' \in [Procs -> RefreshRun] /\ refresh'[p] = r
      /\ \A q \in Procs : q # p => refresh'[q] = refresh[q]
    BY Moves DEF VInv
<1>2. Procs = {"worker", "sync"}
    BY DEF Procs
<1>3. LaneTypeOK'
    BY <1>1, <1>2 DEF VInv, LaneTypeOK
<1>4. MutexHeld'
    BY <1>1, <1>2 DEF VInv, MutexHeld, Holds
<1>5. NoticeHeld'
  <2>1. told' <= obs' /\ \A k \in Declaration : view'[k] <= obs'
      BY ObsNumbers DEF VInv, NoticeHeld, LaneTypeOK
  <2>2. CASE p = "worker"
      BY <1>1, <2>1, <2>2 DEF VInv, NoticeHeld, Holds
  <2>3. CASE p = "sync"
    <3>1. refresh'["worker"] = refresh["worker"]
        BY <1>1, <1>2, <2>3
    <3> QED BY <2>1, <3>1 DEF VInv, NoticeHeld
  <2> QED BY <1>2, <2>2, <2>3
<1> QED BY <1>3, <1>4, <1>5 DEF VInv

LEMMA PullStep ==
    ASSUME VInv, NEW p \in Procs, NEW pc, NEW next, Pull(p, pc, next),
           \/ p = "worker" /\ pc = "cold" /\ next = "coldPublish"
           \/ pc = "lock" /\ next = "publish"
    PROVE  VInv'
<1>1. refresh[p] \in RefreshRun /\ obs \in Obs
    BY DEF VInv, LaneTypeOK
<1>2. PICK r : r = [refresh[p] EXCEPT !.pc = next, !.pulled = obs]
    OBVIOUS
<1>3. r \in RefreshRun /\ r.pc = next /\ r.pulled = obs /\ r.listed = refresh[p].listed
    BY <1>1, <1>2 DEF RefreshRun, PCs
<1>4. refresh' = [refresh EXCEPT ![p] = r] /\ UNCHANGED <<obs, told, view, published>>
    BY <1>2 DEF Pull
<1>5. /\ refresh' \in [Procs -> RefreshRun] /\ refresh'[p] = r
      /\ \A q \in Procs : q # p => refresh'[q] = refresh[q]
    BY <1>3, <1>4, Moves DEF VInv
<1>6. Procs = {"worker", "sync"} /\ refresh[p].pc = pc /\ \A q \in Procs : ~Holds(refresh[q])
    BY DEF Procs, Pull, StateBuildMuHeld, Holds
<1>7. LaneTypeOK'
    BY <1>3, <1>4, <1>5, <1>6 DEF VInv, LaneTypeOK, SyncPCs
<1>8. MutexHeld'
  <2>1. obs <= obs
      BY <1>1, ObsNumbers
  <2> QED BY <1>3, <1>4, <1>5, <1>6, <2>1 DEF VInv, MutexHeld, NoticeHeld, Holds
<1>9. NoticeHeld'
  <2>1. CASE p = "worker"
      BY <1>3, <1>4, <1>5, <1>6, <2>1 DEF VInv, NoticeHeld
  <2>2. CASE p = "sync"
    <3>1. refresh'["worker"] = refresh["worker"]
        BY <1>5, <1>6, <2>2
    <3> QED BY <1>4, <3>1 DEF VInv, NoticeHeld
  <2> QED BY <1>6, <2>1, <2>2
<1> QED BY <1>7, <1>8, <1>9 DEF VInv

LEMMA PublishViewStep ==
    ASSUME VInv, NEW p \in Procs, NEW pc, NEW next, PublishView(p, pc, next),
           \/ p = "worker" /\ pc = "coldPublish" /\ next = "list"
           \/ p = "worker" /\ pc = "publish" /\ next = "finish"
           \/ p = "sync" /\ pc = "publish" /\ next = "idle"
    PROVE  VInv' /\ \A k \in Declaration : view[k] <= view'[k]
<1> DEFINE k0 == refresh[p].commit
           v0 == refresh[p].pulled
<1>1. refresh[p] \in RefreshRun /\ k0 \in Declaration /\ v0 \in Obs
    BY DEF VInv, LaneTypeOK, RefreshRun
<1>2. PICK r : r = [refresh[p] EXCEPT !.pc = next]
    OBVIOUS
<1>3. r \in RefreshRun /\ r.pc = next /\ r.listed = refresh[p].listed /\ r.commit = k0
    BY <1>1, <1>2 DEF RefreshRun, PCs
<1>4. refresh' = [refresh EXCEPT ![p] = r] /\ UNCHANGED <<obs, told, published>>
    BY <1>2 DEF PublishView, RefreshGoto
<1>5. /\ refresh' \in [Procs -> RefreshRun] /\ refresh'[p] = r
      /\ \A q \in Procs : q # p => refresh'[q] = refresh[q]
    BY <1>3, <1>4, Moves DEF VInv
<1>6. Procs = {"worker", "sync"} /\ Holds(refresh[p]) /\ refresh[p].pc = pc
    BY DEF Procs, PublishView, Holds
<1>7. /\ \A q \in Procs : q # p => ~Holds(refresh[q])
      /\ \A k \in Declaration : view[k] <= v0
    BY <1>6 DEF VInv, MutexHeld
<1> HIDE DEF k0, v0
<1>8. view' = [view EXCEPT ![k0] = v0]
    BY DEF PublishView, k0, v0
<1>9. /\ view' \in [Declaration -> Obs \cup {None}] /\ view'[k0] = v0
      /\ \A k \in Declaration : k # k0 => view'[k] = view[k]
    BY <1>1, <1>8 DEF VInv, LaneTypeOK
<1>10. \A k \in Declaration : view[k] <= view'[k]
  <2> SUFFICES ASSUME NEW k \in Declaration PROVE view[k] <= view'[k]
      OBVIOUS
  <2>1. view[k] \in Obs \cup {None}
      BY DEF VInv, LaneTypeOK
  <2>2. view[k] \in Int
      BY <2>1, ObsNumbers
  <2> QED BY <1>7, <1>9, <2>2
<1>11. v0 <= obs /\ \A k \in Declaration : view'[k] <= obs
    BY <1>6, <1>9 DEF v0, VInv, MutexHeld, NoticeHeld
<1>12. LaneTypeOK'
  <2>1. p = "sync" => r.pc \in SyncPCs
      BY <1>3 DEF SyncPCs
  <2> QED BY <1>4, <1>5, <1>6, <1>9, <2>1 DEF VInv, LaneTypeOK
<1>13. MutexHeld'
    BY <1>3, <1>5, <1>6, <1>7 DEF MutexHeld, Holds
<1>14. NoticeHeld'
  <2>1. CASE p = "worker"
    <3>1. next = "finish" => refresh[p].listed <= v0
        BY <1>6, <2>1 DEF VInv, NoticeHeld, v0
    <3> QED BY <1>3, <1>4, <1>5, <1>9, <1>11, <2>1, <3>1 DEF VInv, NoticeHeld
  <2>2. CASE p = "sync"
    <3>1. refresh'["worker"] = refresh["worker"] /\ refresh["worker"] \in RefreshRun
        BY <1>5, <1>6, <2>2 DEF VInv, LaneTypeOK
    <3> DEFINE w == refresh["worker"]
    <3>2. w.listed \in Obs /\ w.commit \in Declaration
        BY <3>1 DEF RefreshRun
    <3>3. view[w.commit] \in Obs \cup {None} /\ view'[w.commit] \in Obs \cup {None}
        BY <1>9, <3>2 DEF VInv, LaneTypeOK
    <3>4. w.pc = "finish" => w.listed <= view'[w.commit]
      <4>1. view[w.commit] <= view'[w.commit]
          BY <1>10, <3>2
      <4>2. w.pc = "finish" => w.listed <= view[w.commit]
          BY DEF VInv, NoticeHeld
      <4>3. w.listed \in Int /\ view[w.commit] \in Int /\ view'[w.commit] \in Int
          BY <3>2, <3>3, ObsNumbers
      <4> HIDE DEF w
      <4> QED BY <4>1, <4>2, <4>3
    <3> QED BY <1>4, <1>11, <3>1, <3>4 DEF VInv, NoticeHeld
  <2> QED BY <1>6, <2>1, <2>2
<1> QED BY <1>10, <1>12, <1>13, <1>14 DEF VInv

LEMMA WorkerStepKept ==
    ASSUME VInv, StartCatchUp \/ ListNotices \/ NoticeHead \/ FinishNotice \/ RunAborts
    PROVE  VInv' /\ UNCHANGED view
<1> DEFINE w == refresh["worker"]
<1>1. /\ "worker" \in Procs /\ w \in RefreshRun /\ NotRefreshing \in RefreshRun
      /\ published \in Declaration /\ obs \in Obs /\ told \in Obs /\ told <= obs
    BY NoticeBounds DEF VInv, LaneTypeOK, NoticeHeld, Procs, NotRefreshing, RefreshRun, PCs, Declaration, Obs
<1>2. UNCHANGED <<published, obs, told, view>>
    BY DEF StartCatchUp, ListNotices, NoticeHead, FinishNotice, RunAborts
<1>3. ASSUME NEW r \in RefreshRun, refresh' = [refresh EXCEPT !["worker"] = r],
             r.pc \in {"cold", "list", "idle"} \/ (r.pc \in {"head", "lock"} /\ r.listed <= obs)
      PROVE  VInv'
  <2>1. ~Holds(r) /\ r.pc # "finish" /\ (r.pc \in {"head", "lock"} => r.listed <= obs)
      BY <1>3 DEF Holds
  <2> QED BY <1>1, <1>2, <1>3, <2>1, QuietStep
<1>4. CASE StartCatchUp
  <2>1. PICK r : r = [w EXCEPT !.commit = published, !.pc = IF view[published] = None THEN "cold" ELSE "list"]
      OBVIOUS
  <2>2. r \in RefreshRun /\ r.pc \in {"cold", "list"}
      BY <1>1, <2>1 DEF RefreshRun, PCs
  <2>3. refresh' = [refresh EXCEPT !["worker"] = r]
      BY <1>4, <2>1 DEF StartCatchUp
  <2> QED BY <1>2, <1>3, <2>2, <2>3
<1>5. CASE ListNotices
  <2>1. PICK r : r = [w EXCEPT !.pc = "head", !.listed = told]
      OBVIOUS
  <2>2. r \in RefreshRun /\ r.pc = "head" /\ r.listed <= obs
      BY <1>1, <2>1 DEF RefreshRun, PCs
  <2>3. refresh' = [refresh EXCEPT !["worker"] = r] \/ refresh' = [refresh EXCEPT !["worker"] = NotRefreshing]
      BY <1>5, <2>1 DEF ListNotices
  <2>4. NotRefreshing.pc = "idle"
      BY DEF NotRefreshing
  <2> QED BY <1>1, <1>2, <1>3, <2>2, <2>3, <2>4
<1>6. CASE NoticeHead
  <2>1. PICK r : r = [w EXCEPT !.pc = "lock", !.commit = published]
      OBVIOUS
  <2>2. r \in RefreshRun /\ r.pc = "lock" /\ r.listed = w.listed
      BY <1>1, <2>1 DEF RefreshRun, PCs
  <2>3. refresh' = [refresh EXCEPT !["worker"] = r] /\ w.listed <= obs
      BY <1>6, <2>1 DEF NoticeHead, VInv, NoticeHeld
  <2> QED BY <1>2, <1>3, <2>2, <2>3
<1>7. CASE FinishNotice \/ RunAborts
  <2>1. refresh' = [refresh EXCEPT !["worker"] = NotRefreshing] /\ NotRefreshing.pc = "idle"
      BY <1>7 DEF FinishNotice, RunAborts, NotRefreshing
  <2> QED BY <1>1, <1>2, <1>3, <2>1
<1> QED BY <1>4, <1>5, <1>6, <1>7

LEMMA FailedStepKept ==
    ASSUME VInv, ColdFails \/ NoticeFails \/ SyncFails \/ SyncStart
    PROVE  VInv' /\ UNCHANGED <<view, notice>>
<1>1. UNCHANGED <<published, obs, told, view, notice>>
    BY DEF ColdFails, NoticeFails, SyncFails, SyncStart, RefreshFails
<1>2. \A p \in Procs : refresh[p] \in RefreshRun
    BY DEF VInv, LaneTypeOK
<1>3. Procs = {"worker", "sync"} /\ published \in Declaration
    BY DEF Procs, VInv, LaneTypeOK
<1>4. CASE ColdFails \/ NoticeFails
  <2>1. PICK pc \in {"list", "failed"} : refresh' = [refresh EXCEPT !["worker"].pc = pc]
      BY <1>4 DEF ColdFails, NoticeFails, RefreshFails, RefreshGoto
  <2>2. PICK r : r = [refresh["worker"] EXCEPT !.pc = pc]
      OBVIOUS
  <2>3. r \in RefreshRun /\ r.pc = pc
      BY <1>2, <1>3, <2>2 DEF RefreshRun, PCs
  <2>4. refresh' = [refresh EXCEPT !["worker"] = r]
      BY <2>1, <2>2
  <2> QED BY <1>1, <1>3, <2>3, <2>4, QuietStep DEF Holds
<1>5. CASE SyncFails
  <2>1. PICK r : r = [refresh["sync"] EXCEPT !.pc = "idle"]
      OBVIOUS
  <2>2. r \in RefreshRun /\ r.pc = "idle"
      BY <1>2, <1>3, <2>1 DEF RefreshRun, PCs
  <2>3. refresh' = [refresh EXCEPT !["sync"] = r]
      BY <1>5, <2>1 DEF SyncFails, RefreshFails, RefreshGoto
  <2> QED BY <1>1, <1>3, <2>2, <2>3, QuietStep DEF Holds, SyncPCs
<1>6. CASE SyncStart
  <2>1. PICK k \in 1..published : refresh' = [refresh EXCEPT !["sync"].pc = "lock", !["sync"].commit = k]
      BY <1>6 DEF SyncStart
  <2>2. k \in Declaration
      BY <1>3, NoticeBounds DEF Declaration
  <2>3. PICK r : r = [refresh["sync"] EXCEPT !.pc = "lock", !.commit = k]
      OBVIOUS
  <2>4. r \in RefreshRun /\ r.pc = "lock"
      BY <1>2, <1>3, <2>2, <2>3 DEF RefreshRun, PCs
  <2>5. refresh' = [refresh EXCEPT !["sync"] = r]
      BY <2>1, <2>3
  <2> QED BY <1>1, <1>3, <2>4, <2>5, QuietStep DEF Holds, SyncPCs
<1> QED BY <1>1, <1>4, <1>5, <1>6

LEMMA EnvironmentKept ==
    ASSUME VInv, Observe \/ PublishCommit \/ Notify \/ UNCHANGED noticeVars
    PROVE  VInv' /\ UNCHANGED view
<1>1. UNCHANGED <<view, refresh>>
    BY DEF Observe, PublishCommit, Notify, noticeVars
<1>2. /\ published' \in Declaration /\ obs' \in Obs /\ told' \in Obs
      /\ obs <= obs' /\ told' <= obs'
    BY NoticeBounds DEF VInv, LaneTypeOK, NoticeHeld, Observe, PublishCommit, Notify, noticeVars, Declaration, Obs
<1>3. LaneTypeOK'
    BY <1>1, <1>2 DEF VInv, LaneTypeOK
<1>4. /\ \A k \in Declaration : view[k] <= obs'
      /\ \A p \in Procs : Holds(refresh[p]) => refresh[p].pulled <= obs'
      /\ refresh["worker"].pc \in {"head", "lock"} => refresh["worker"].listed <= obs'
  <2>1. obs \in Int /\ obs' \in Int /\ \A k \in Declaration : view[k] \in Int
      BY <1>2, ObsNumbers DEF VInv, LaneTypeOK
  <2>2. \A p \in Procs : refresh[p].pulled \in Int /\ refresh[p].listed \in Int
    <3>1. \A p \in Procs : refresh[p] \in RefreshRun
        BY DEF VInv, LaneTypeOK
    <3> QED BY <3>1, ObsNumbers DEF RefreshRun
  <2>3. "worker" \in Procs
      BY DEF Procs
  <2> QED BY <1>2, <2>1, <2>2, <2>3 DEF VInv, MutexHeld, NoticeHeld
<1> QED BY <1>1, <1>2, <1>3, <1>4 DEF VInv, MutexHeld, NoticeHeld

LEMMA RestartKept ==
    ASSUME VInv, ProcessRestart
    PROVE  VInv' /\ \A k \in Declaration : view'[k] = None
<1>1. /\ UNCHANGED <<published, obs, told>> /\ view' = [k \in Declaration |-> None]
      /\ refresh' = [p \in Procs |-> NotRefreshing]
    BY DEF ProcessRestart
<1>2. NotRefreshing \in RefreshRun /\ NotRefreshing.pc = "idle" /\ {"worker", "sync"} = Procs
    BY NoticeBounds DEF NotRefreshing, RefreshRun, PCs, Declaration, Obs, Procs
<1>3. obs \in Nat
    BY ObsNumbers DEF VInv, LaneTypeOK
<1>4. LaneTypeOK'
    BY <1>1, <1>2 DEF VInv, LaneTypeOK, SyncPCs
<1>5. MutexHeld' /\ NoticeHeld'
    BY <1>1, <1>2, <1>3 DEF VInv, NoticeHeld, MutexHeld, Holds, None
<1> QED BY <1>1, <1>4, <1>5 DEF VInv

LEMMA NoticeStep ==
    ASSUME VInv, [NoticeNext]_noticeVars
    PROVE  /\ VInv'
           /\ \A k \in Declaration : view'[k] # None => view'[k] >= view[k]
           /\ notice # "NONE" /\ notice' = "NONE" =>
                /\ refresh["worker"].pc = "finish"
                /\ view[refresh["worker"].commit] >= refresh["worker"].listed
<1>1. \A k \in Declaration : view[k] \in Int
    BY ObsNumbers DEF VInv, LaneTypeOK
<1>2. CASE StartCatchUp \/ ListNotices \/ NoticeHead \/ FinishNotice \/ RunAborts
  <2>1. VInv' /\ UNCHANGED view
      BY <1>2, WorkerStepKept
  <2>2. notice # "NONE" /\ notice' = "NONE" => refresh["worker"].pc = "finish"
      BY <1>2 DEF StartCatchUp, ListNotices, NoticeHead, FinishNotice, RunAborts
  <2>3. refresh["worker"] \in RefreshRun
      BY DEF VInv, LaneTypeOK, Procs
  <2>4. refresh["worker"].commit \in Declaration /\ refresh["worker"].listed \in Int
      BY <2>3, ObsNumbers DEF RefreshRun
  <2>5. refresh["worker"].pc = "finish" =>
            view[refresh["worker"].commit] >= refresh["worker"].listed
      BY <1>1, <2>4 DEF VInv, NoticeHeld
  <2> QED BY <1>1, <2>1, <2>2, <2>5
<1>3. CASE \/ PublishView("worker", "coldPublish", "list")
           \/ PublishView("worker", "publish", "finish")
           \/ PublishView("sync", "publish", "idle")
  <2>1. UNCHANGED notice
      BY <1>3 DEF PublishView
  <2>2. VInv' /\ \A k \in Declaration : view[k] <= view'[k]
      BY <1>3, PublishViewStep DEF Procs
  <2>3. \A k \in Declaration : view'[k] \in Int
      BY <2>2, ObsNumbers DEF VInv, LaneTypeOK
  <2> QED BY <1>1, <2>1, <2>2, <2>3
<1>4. CASE \/ Pull("worker", "cold", "coldPublish")
           \/ Pull("worker", "lock", "publish")
           \/ Pull("sync", "lock", "publish")
  <2>1. UNCHANGED <<view, notice>>
      BY <1>4 DEF Pull
  <2>2. VInv'
      BY <1>4, PullStep DEF Procs
  <2> QED BY <1>1, <2>1, <2>2
<1>5. CASE ColdFails \/ NoticeFails \/ SyncFails \/ SyncStart
    BY <1>1, <1>5, FailedStepKept
<1>6. CASE Observe \/ PublishCommit \/ Notify \/ UNCHANGED noticeVars
  <2>1. notice # "NONE" => notice' # "NONE"
      BY <1>6 DEF Observe, PublishCommit, Notify, noticeVars
  <2> QED BY <1>1, <1>6, <2>1, EnvironmentKept
<1>7. CASE ProcessRestart
  <2>1. UNCHANGED notice
      BY <1>7 DEF ProcessRestart
  <2> QED BY <1>7, <2>1, RestartKept
<1> QED BY <1>2, <1>3, <1>4, <1>5, <1>6, <1>7 DEF NoticeNext, WorkerStep, Cold, Refresh, SyncRefresh

(* Refreshes of one process never publish out of order, and a notice is    *)
(* removed only when what it announced is served at the commit refreshed   *)
(* for it, whatever the source, the writers, failures and restarts do      *)
(* (refreshState under stateBuildMu, catchUpState, finishNotice).          *)
THEOREM NoticesViewForward == NoticeSpec => ViewForward
<1> DEFINE Forward ==
        /\ \A k \in Declaration : view'[k] # None => view'[k] >= view[k]
        /\ notice # "NONE" /\ notice' = "NONE" =>
             /\ refresh["worker"].pc = "finish"
             /\ view[refresh["worker"].commit] >= refresh["worker"].listed
<1>1. VInv /\ [NoticeNext]_noticeVars => VInv' /\ [Forward]_noticeVars
    BY NoticeStep
<1> QED BY NoticesInitial, <1>1, PTL DEF NoticeSpec, ViewForward

-----------------------------------------------------------------------------
(***************************************************************************)
(* The engine under the controller: what the control document names is     *)
(* there, and what it calls READY shows its basis.                         *)
(***************************************************************************)

Generation == [ObjectIds -> Documents] \cup {NoIndex}

EngineTypeOK ==
    /\ control \in Control /\ control.active \in 0 .. Len(gens)
    /\ gens \in Seq(Generation) /\ retired \subseteq 1 .. Len(gens)
    /\ op \in [Maintainers -> {NotEnsuring} \cup Ensuring]
    /\ provider \in Providers

Updates(call) == call.pc \in {"bulk", "publish", "fail"}
Rebuilds(call) == call.pc \in {"walk", "commit", "abort"}

\* Each mutex has one holder.
OneHolder ==
    \A m, n \in Maintainers :
        m # n => ~(Updates(op[m]) /\ Updates(op[n])) /\ ~(Rebuilds(op[m]) /\ Rebuilds(op[n]))

\* An update in place is of an active generation that is not READY meanwhile.
Announced(call) ==
    /\ Updates(call) => control.active # 0
    /\ call.pc = "bulk" => control.state # "READY"

\* A rebuild fills a generation that nobody serves or retires, and a cold one
\* that still owns the control document has none before it.
Apart(call) ==
    Rebuilds(call) =>
        /\ call.gen \in 1 .. Len(gens) /\ call.gen \notin retired /\ call.old < call.gen
        /\ call.pc # "abort" => call.gen # control.active /\ gens[call.gen] # NoIndex
        /\ call.pc = "commit" => gens[call.gen] = Compiled(call.to)
        /\ call.version <= control.version
        /\ call.old = 0 /\ call.version = control.version => control.active = 0

LocksInv == EngineTypeOK /\ OneHolder /\ \A m \in Maintainers : Announced(op[m]) /\ Apart(op[m])

\* The active generation exists, and no timer or abort is about to drop it.
ActiveStands ==
    control.active # 0 =>
        /\ gens[control.active] # NoIndex /\ control.active \notin retired
        /\ \A m \in Maintainers : Rebuilds(op[m]) => op[m].gen # control.active

\* What ReadyFresh says of the documents of a generation.
Faithful(docs, c) ==
    \A o \in ObjectIds :
        LET present == PresentUnits(c, o)
        IN  /\ (docs[o] = Absent) = (present = {})
            /\ \E us \in SUBSET present : docs[o] = Doc(c, us)

Shows(g, c) == gens[g] # NoIndex => Faithful(gens[g], c)

ReadyShows ==
    control.state = "READY" =>
        /\ control.active # 0 /\ control.basis \in Commits /\ control.access = Access[control.basis]
        /\ Shows(control.active, control.basis)

\* What the only call has made of the active generation.
Brings(call) ==
    /\ call.pc = "begin" => control.basis = call.from /\ control.access = Access[call.to]
    /\ call.pc = "bulk" =>
         call.from \in Commits /\ Access[call.from] = Access[call.to] /\ Shows(control.active, call.from)
    /\ call.pc = "publish" => Shows(control.active, call.to)

FreshInv ==
    raced = "no" =>
        /\ \A m, n \in Maintainers : m # n => op[m].pc = "idle" \/ op[n].pc = "idle"
        /\ ReadyShows
        /\ \A m \in Maintainers : Brings(op[m])

-----------------------------------------------------------------------------
LEMMA CallTyped ==
    ASSUME EngineTypeOK, NEW m \in Maintainers, op[m].pc # "idle"
    PROVE  op[m] \in Ensuring
BY DEF EngineTypeOK, NotEnsuring

LEMMA CallMoves ==
    ASSUME EngineTypeOK, NEW m \in Maintainers, NEW t \in {NotEnsuring} \cup Ensuring,
           op' = [op EXCEPT ![m] = t]
    PROVE  /\ op' \in [Maintainers -> {NotEnsuring} \cup Ensuring]
           /\ op'[m] = t /\ \A n \in Maintainers : n # m => op'[n] = op[n]
BY DEF EngineTypeOK

\* A call is at another step with what it carried.
Same(t, call) ==
    t.to = call.to /\ t.from = call.from /\ t.version = call.version /\ t.gen = call.gen /\ t.old = call.old

LEMMA GoesOn ==
    ASSUME EngineTypeOK, NEW m \in Maintainers, op[m].pc # "idle", NEW p \in EnginePCs, EngineGoto(m, p)
    PROVE  \E t \in Ensuring : op' = [op EXCEPT ![m] = t] /\ t.pc = p /\ Same(t, op[m])
<1>1. PICK t : t = [op[m] EXCEPT !.pc = p]
    OBVIOUS
<1>2. t \in Ensuring /\ t.pc = p /\ Same(t, op[m])
    BY <1>1, CallTyped DEF Ensuring, Same
<1>3. op' = [op EXCEPT ![m] = t]
    BY <1>1 DEF EngineGoto
<1> QED BY <1>2, <1>3

LEMMA Ends ==
    NotEnsuring.pc = "idle" /\ ~Updates(NotEnsuring) /\ ~Rebuilds(NotEnsuring)
BY DEF NotEnsuring, Updates, Rebuilds

LEMMA PutTyped ==
    ASSUME control \in Control, NEW doc \in Control, Put(doc)
    PROVE  /\ control' \in Control /\ control'.version = control.version + 1
           /\ control'.active = doc.active /\ control'.state = doc.state
           /\ control'.basis = doc.basis /\ control'.access = doc.access
<1>1. control.version + 1 \in Nat
    BY DEF Control
<1> QED BY <1>1 DEF Put, Control

LEMMA GenSet ==
    ASSUME gens \in Seq(Generation), NEW g \in 1 .. Len(gens), NEW e \in Generation,
           gens' = [gens EXCEPT ![g] = e]
    PROVE  /\ gens' \in Seq(Generation) /\ Len(gens') = Len(gens) /\ gens'[g] = e
           /\ \A h \in 1 .. Len(gens) : h # g => gens'[h] = gens[h]
OBVIOUS

LEMMA GenAdd ==
    ASSUME gens \in Seq(Generation), NEW e \in Generation, gens' = Append(gens, e)
    PROVE  /\ gens' \in Seq(Generation) /\ Len(gens') = Len(gens) + 1 /\ gens'[Len(gens')] = e
           /\ \A h \in 1 .. Len(gens) : gens'[h] = gens[h]
OBVIOUS

LEMMA GenerationsAre ==
    /\ \A c \in Commits : Compiled(c) \in [ObjectIds -> Documents]
    /\ [o \in ObjectIds |-> Absent] \in [ObjectIds -> Documents]
    /\ \A docs \in [ObjectIds -> Documents] : docs \in Generation /\ docs # NoIndex
    /\ NoIndex \in Generation
<1>1. \A c \in Commits, o \in ObjectIds : PresentUnits(c, o) \subseteq Units
    BY DEF PresentUnits
<1>2. \A c \in Commits, us \in SUBSET Units : Doc(c, us) \in Documents
    BY DEF Documents
<1>3. \A c \in Commits : Compiled(c) \in [ObjectIds -> Documents]
    BY <1>1, <1>2 DEF Compiled
<1> QED BY <1>3, NoIndexIsNoGeneration DEF Generation, Documents

LEMMA WrittenTyped ==
    ASSUME NEW docs \in [ObjectIds -> Documents], NEW from, NEW to \in Commits, NEW os \in SUBSET ObjectIds
    PROVE  /\ Written(docs, from, to, os) \in [ObjectIds -> Documents]
           /\ Written(docs, from, to, os) \in Generation
<1>1. ASSUME NEW o \in ObjectIds PROVE Hydrated(from, to, to, o) \in Documents
  <2>1. PICK us \in SUBSET Units : Hydrated(from, to, to, o) = Doc(to, us)
      BY DEF Hydrated, ChangedUnits, PresentUnits
  <2> QED BY <2>1 DEF Documents
<1> QED BY <1>1, GenerationsAre DEF Written

\* What a step leaves alone while another call rebuilds.
Beside ==
    /\ control' = control \/ (control'.active = control.active /\ control'.version > control.version)
    /\ retired' = retired /\ Len(gens') >= Len(gens)
    /\ \A g \in 1 .. Len(gens) : g # control.active => gens'[g] = gens[g]

LEMMA CallStep ==
    ASSUME LocksInv, NEW m \in Maintainers, NEW t \in {NotEnsuring} \cup Ensuring,
           op' = [op EXCEPT ![m] = t],
           provider' \in Providers, control' \in Control, control'.active \in 0 .. Len(gens'),
           gens' \in Seq(Generation), retired' \subseteq 1 .. Len(gens'),
           Updates(t) => Updates(op[m]) \/ ~MuHeld,
           Rebuilds(t) => Rebuilds(op[m]) \/ ~BuildMuHeld,
           Announced(t)', Apart(t)',
           \A n \in Maintainers : n # m /\ Updates(op[n]) => control' = control,
           \A n \in Maintainers : n # m /\ Rebuilds(op[n]) => Beside
    PROVE  LocksInv'
<1>1. EngineTypeOK'
    BY CallMoves DEF LocksInv, EngineTypeOK
<1>2. op'[m] = t /\ \A n \in Maintainers : n # m => op'[n] = op[n]
    BY CallMoves DEF LocksInv
<1>3. OneHolder'
    BY <1>2 DEF LocksInv, OneHolder, MuHeld, BuildMuHeld, Updates, Rebuilds
<1>4. ASSUME NEW n \in Maintainers, n # m
      PROVE  Announced(op[n])' /\ Apart(op[n])'
  <2>1. op'[n] = op[n] /\ Announced(op[n]) /\ Apart(op[n])
      BY <1>2, <1>4 DEF LocksInv
  <2>2. Announced(op[n])'
      BY <1>4, <2>1 DEF Announced, Updates
  <2>3. CASE ~Rebuilds(op[n])
    <3>1. ~Rebuilds(op[n])'
        BY <2>1, <2>3 DEF Rebuilds
    <3> QED BY <2>2, <3>1 DEF Apart
  <2>4. CASE Rebuilds(op[n])
    <3>1. op[n] \in Ensuring /\ control \in Control
        BY <2>4, CallTyped DEF LocksInv, EngineTypeOK, Rebuilds
    <3>2. Beside /\ Len(gens') \in Nat /\ Len(gens) \in Nat
        BY <1>4, <2>4 DEF LocksInv, EngineTypeOK
    <3>3. control'.active = control.active /\ control'.version >= control.version
        BY <3>1, <3>2 DEF Beside, Control
    <3>4. op[n].version = control'.version => control' = control
        BY <2>1, <2>4, <3>1, <3>2 DEF Apart, Beside, Control, Ensuring
    <3>5. op[n].version <= control'.version
        BY <2>1, <2>4, <3>1, <3>3 DEF Apart, Control, Ensuring
    <3>6. /\ op[n].gen \in 1 .. Len(gens') /\ op[n].gen \notin retired' /\ op[n].old < op[n].gen
          /\ op[n].pc # "abort" => op[n].gen # control'.active /\ gens'[op[n].gen] # NoIndex
          /\ op[n].pc = "commit" => gens'[op[n].gen] = Compiled(op[n].to)
      <4>1. /\ op[n].gen \in 1 .. Len(gens) /\ op[n].gen \notin retired /\ op[n].old < op[n].gen
            /\ op[n].pc # "abort" => op[n].gen # control.active /\ gens[op[n].gen] # NoIndex
            /\ op[n].pc = "commit" => gens[op[n].gen] = Compiled(op[n].to)
          BY <2>1, <2>4 DEF Apart
      <4> QED BY <3>2, <3>3, <4>1 DEF Beside
    <3>7. op[n].old = 0 /\ op[n].version = control'.version => control'.active = 0
        BY <2>1, <2>4, <3>4 DEF Apart
    <3> QED BY <2>1, <2>2, <3>5, <3>6, <3>7 DEF Apart
  <2> QED BY <2>2, <2>3, <2>4
<1>5. Announced(op[m])' /\ Apart(op[m])'
    BY <1>2 DEF Announced, Apart, Updates, Rebuilds
<1> QED BY <1>1, <1>3, <1>4, <1>5 DEF LocksInv

LEMMA CallOnly ==
    ASSUME LocksInv, NEW m \in Maintainers, NEW t \in {NotEnsuring} \cup Ensuring,
           op' = [op EXCEPT ![m] = t], UNCHANGED <<control, gens, retired, provider>>,
           Updates(t) => Updates(op[m]) \/ ~MuHeld,
           Rebuilds(t) => Rebuilds(op[m]) \/ ~BuildMuHeld,
           Announced(t)', Apart(t)'
    PROVE  LocksInv'
<1>1. /\ provider' \in Providers /\ control' \in Control /\ control'.active \in 0 .. Len(gens')
      /\ gens' \in Seq(Generation) /\ retired' \subseteq 1 .. Len(gens')
    BY DEF LocksInv, EngineTypeOK
<1>2. Beside
    BY <1>1 DEF Beside
<1> QED BY <1>1, <1>2, CallStep

\* A failing call only lets go.
LEMMA CallFails ==
    ASSUME LocksInv, NEW m \in Maintainers, op[m].pc # "idle", UNCHANGED <<control, gens, retired, provider>>,
           \/ EngineReturn(m)
           \/ Updates(op[m]) /\ EngineGoto(m, "fail")
           \/ Rebuilds(op[m]) /\ EngineGoto(m, "abort")
    PROVE  LocksInv'
<1>1. CASE EngineReturn(m)
    BY <1>1, Ends, CallOnly DEF EngineReturn, Announced, Apart, NotEnsuring
<1>2. CASE Updates(op[m]) /\ EngineGoto(m, "fail")
  <2>1. PICK t \in Ensuring : op' = [op EXCEPT ![m] = t] /\ t.pc = "fail" /\ Same(t, op[m])
      BY <1>2, GoesOn DEF LocksInv, EnginePCs
  <2>2. Announced(t)' /\ Apart(t)' /\ Updates(t) /\ ~Rebuilds(t)
      BY <1>2, <2>1 DEF LocksInv, Announced, Apart, Updates, Rebuilds
  <2> QED BY <1>2, <2>1, <2>2, CallOnly
<1>3. CASE Rebuilds(op[m]) /\ EngineGoto(m, "abort")
  <2>1. PICK t \in Ensuring : op' = [op EXCEPT ![m] = t] /\ t.pc = "abort" /\ Same(t, op[m])
      BY <1>3, GoesOn DEF LocksInv, EnginePCs
  <2>2. Announced(t)' /\ ~Updates(t)
      BY <2>1 DEF Announced, Updates
  <2>3. Apart(t)'
      BY <1>3, <2>1 DEF LocksInv, Apart, Same
  <2> QED BY <1>3, <2>1, <2>2, <2>3, CallOnly
<1> QED BY <1>1, <1>2, <1>3

\* A write of the control document by a call that lets go of it, or of one that
\* held the mutex, while nobody else updates.
LEMMA DocWritten ==
    ASSUME LocksInv, NEW m \in Maintainers, NEW t \in {NotEnsuring} \cup Ensuring,
           op' = [op EXCEPT ![m] = t], UNCHANGED <<gens, retired, provider>>,
           control' \in Control, control'.active = control.active, control'.version > control.version,
           Updates(op[m]) \/ ~MuHeld,
           Announced(t)', ~Rebuilds(t)
    PROVE  LocksInv'
<1>1. /\ provider' \in Providers /\ control'.active \in 0 .. Len(gens')
      /\ gens' \in Seq(Generation) /\ retired' \subseteq 1 .. Len(gens')
    BY DEF LocksInv, EngineTypeOK
<1>2. Beside
    BY <1>1 DEF Beside
<1>3. \A n \in Maintainers : n # m => ~Updates(op[n])
    BY DEF LocksInv, OneHolder, MuHeld, Updates
<1>4. Apart(t)'
    BY DEF Apart
<1> QED BY <1>1, <1>2, <1>3, <1>4, CallStep

LEMMA DocFits ==
    ASSUME LocksInv
    PROVE  /\ \A st \in States : [control EXCEPT !.state = st] \in Control
           /\ \A m \in Maintainers : op[m].pc # "idle" =>
                /\ \A st \in States : Building(m, st) \in Control
                /\ \A g \in Nat : Ready(m, g) \in Control
<1>1. \A st \in States : [control EXCEPT !.state = st] \in Control
    BY DEF LocksInv, EngineTypeOK, Control
<1>2. ASSUME NEW m \in Maintainers, op[m].pc # "idle"
      PROVE  /\ \A st \in States : Building(m, st) \in Control
             /\ \A g \in Nat : Ready(m, g) \in Control
  <2>1. op[m].to \in Commits /\ control.version + 1 \in Nat /\ provider \in Providers
      BY <1>2, CallTyped DEF LocksInv, EngineTypeOK, Ensuring, Control
  <2> QED BY <2>1 DEF Building, Ready, Control, States
<1> QED BY <1>1, <1>2

\* One write marks the control document, or takes no effect and fails.
LEMMA Marked ==
    ASSUME LocksInv, NEW st \in States, Put([control EXCEPT !.state = st])
    PROVE  /\ control' \in Control /\ control'.active = control.active /\ control'.state = st
           /\ control'.basis = control.basis /\ control'.access = control.access
           /\ control'.version > control.version
<1>1. PICK doc \in Control : doc = [control EXCEPT !.state = st]
    BY DocFits
<1>2. control \in Control
    BY DEF LocksInv, EngineTypeOK
<1>3. doc.active = control.active /\ doc.state = st /\ doc.basis = control.basis /\ doc.access = control.access
    BY <1>1, <1>2 DEF Control
<1>4. /\ control' \in Control /\ control'.version = control.version + 1
      /\ control'.active = doc.active /\ control'.state = doc.state
      /\ control'.basis = doc.basis /\ control'.access = doc.access
    BY <1>1, <1>2, PutTyped
<1> QED BY <1>2, <1>3, <1>4 DEF Control

LEMMA ReadyFields ==
    ASSUME LocksInv, NEW m \in Maintainers, op[m].pc # "idle", NEW g \in Nat,
           control' = Ready(m, g) \/ Put(Ready(m, g))
    PROVE  /\ control' \in Control /\ control'.active = g /\ control'.state = "READY"
           /\ control'.basis = op[m].to /\ control'.access = Access[op[m].to]
           /\ control'.version > control.version /\ op[m].to \in Commits
<1>1. PICK doc \in Control : doc = Ready(m, g)
    BY DocFits
<1>2. control \in Control /\ op[m].to \in Commits
    BY CallTyped DEF LocksInv, EngineTypeOK, Ensuring
<1>3. /\ doc.active = g /\ doc.state = "READY" /\ doc.basis = op[m].to /\ doc.access = Access[op[m].to]
      /\ doc.version = control.version + 1
    BY <1>1 DEF Ready
<1>4. CASE control' = Ready(m, g)
    BY <1>1, <1>2, <1>3, <1>4 DEF Control
<1>5. CASE Put(Ready(m, g))
  <2>1. /\ control' \in Control /\ control'.version = control.version + 1
        /\ control'.active = doc.active /\ control'.state = doc.state
        /\ control'.basis = doc.basis /\ control'.access = doc.access
      BY <1>1, <1>2, <1>5, PutTyped
  <2> QED BY <1>2, <1>3, <2>1 DEF Control
<1> QED BY <1>4, <1>5

LEMMA BuildingFields ==
    ASSUME LocksInv, NEW m \in Maintainers, op[m].pc # "idle", NEW st \in States, Put(Building(m, st))
    PROVE  /\ control' \in Control /\ control'.active = 0 /\ control'.state = st
           /\ control'.version > control.version
<1>1. PICK doc \in Control : doc = Building(m, st)
    BY DocFits
<1>2. control \in Control
    BY DEF LocksInv, EngineTypeOK
<1>3. doc.active = 0 /\ doc.state = st
    BY <1>1 DEF Building
<1>4. /\ control' \in Control /\ control'.version = control.version + 1
      /\ control'.active = doc.active /\ control'.state = doc.state
    BY <1>1, <1>2, PutTyped
<1> QED BY <1>2, <1>3, <1>4 DEF Control

LEMMA NobodyElse ==
    ASSUME LocksInv, NEW m \in Maintainers, NEW n \in Maintainers, n # m
    PROVE  /\ Updates(op[m]) \/ ~MuHeld => ~Updates(op[n])
           /\ Rebuilds(op[m]) \/ ~BuildMuHeld => ~Rebuilds(op[n])
BY DEF LocksInv, OneHolder, MuHeld, BuildMuHeld, Updates, Rebuilds

LEMMA BeginKeeps ==
    ASSUME LocksInv, NEW m \in Maintainers, ApplyBegin(m) \/ ApplyBeginFails(m)
    PROVE  LocksInv'
<1> USE DEF Updates, Rebuilds
<1>1. op[m].pc = "begin" /\ ~MuHeld /\ UNCHANGED <<gens, retired, provider>>
    BY DEF ApplyBegin, ApplyBeginFails
<1>2. CASE UNCHANGED control /\ EngineReturn(m)
    BY <1>1, <1>2, CallFails
<1>3. CASE control.active # 0 /\ Put([control EXCEPT !.state = "UPDATING"])
  <2>1. /\ control' \in Control /\ control'.active = control.active /\ control'.state = "UPDATING"
        /\ control'.version > control.version
      BY <1>3, Marked DEF States
  <2>2. CASE EngineReturn(m)
    <3>1. op' = [op EXCEPT ![m] = NotEnsuring] /\ Announced(NotEnsuring)' /\ ~Rebuilds(NotEnsuring)
        BY <2>2, Ends DEF EngineReturn, Announced, NotEnsuring
    <3> QED BY <1>1, <2>1, <3>1, DocWritten
  <2>3. CASE op' = [op EXCEPT ![m].pc = "bulk", ![m].version = control'.version]
    <3>1. PICK t : t = [op[m] EXCEPT !.pc = "bulk", !.version = control'.version]
        OBVIOUS
    <3>2. t \in Ensuring /\ t.pc = "bulk"
        BY <1>1, <2>1, <3>1, CallTyped DEF LocksInv, Ensuring, EnginePCs, Control
    <3>3. op' = [op EXCEPT ![m] = t]
        BY <2>3, <3>1
    <3>4. Announced(t)' /\ ~Rebuilds(t)
        BY <1>3, <2>1, <3>2 DEF Announced
    <3> QED BY <1>1, <2>1, <3>2, <3>3, <3>4, DocWritten
  <2> QED BY <1>1, <1>3, <2>2, <2>3 DEF ApplyBegin, ApplyBeginFails, EngineReturn
<1> QED BY <1>1, <1>2, <1>3 DEF ApplyBegin, ApplyBeginFails, PutFails

LEMMA BulkKeeps ==
    ASSUME LocksInv, NEW m \in Maintainers, ApplyBulk(m) \/ ApplyBulkFails(m)
    PROVE  LocksInv'
<1>1. /\ op[m].pc = "bulk" /\ op[m] \in Ensuring /\ control.active \in 1 .. Len(gens)
      /\ UNCHANGED <<control, retired, provider>>
    BY CallTyped DEF LocksInv, EngineTypeOK, Announced, Updates, ApplyBulk, ApplyBulkFails
<1>2. PICK p \in {"publish", "fail"} : EngineGoto(m, p)
    BY DEF ApplyBulk, ApplyBulkFails
<1>3. PICK t \in Ensuring : op' = [op EXCEPT ![m] = t] /\ t.pc = p /\ Same(t, op[m])
    BY <1>1, <1>2, GoesOn DEF LocksInv, EnginePCs
<1>4. Announced(t)' /\ Apart(t)' /\ Updates(op[m])
    BY <1>1, <1>3 DEF LocksInv, Announced, Apart, Updates, Rebuilds
<1>5. /\ gens' \in Seq(Generation) /\ Len(gens') = Len(gens)
      /\ \A h \in 1 .. Len(gens) : h # control.active => gens'[h] = gens[h]
  <2>1. CASE UNCHANGED gens
      BY <2>1 DEF LocksInv, EngineTypeOK
  <2>2. CASE /\ gens[control.active] # NoIndex
             /\ \E os \in SUBSET ObjectIds :
                  gens' = [gens EXCEPT ![control.active] = Written(@, op[m].from, op[m].to, os)]
    <3>1. PICK os \in SUBSET ObjectIds :
             gens' = [gens EXCEPT ![control.active] = Written(@, op[m].from, op[m].to, os)]
        BY <2>2
    <3>2. PICK docs : docs = Written(gens[control.active], op[m].from, op[m].to, os)
        OBVIOUS
    <3>3. gens[control.active] \in [ObjectIds -> Documents]
        BY <1>1, <2>2 DEF LocksInv, EngineTypeOK, Generation
    <3>4. docs \in Generation
        BY <1>1, <3>3, <3>2, WrittenTyped DEF Ensuring
    <3>5. gens' = [gens EXCEPT ![control.active] = docs]
        BY <3>1, <3>2
    <3> QED BY <1>1, <3>4, <3>5, GenSet DEF LocksInv, EngineTypeOK
  <2>3. Changed(op[m].from, op[m].to) \subseteq ObjectIds
      BY DEF Changed
  <2> QED BY <2>1, <2>2, <2>3 DEF ApplyBulk, ApplyBulkFails
<1>6. Beside
    BY <1>1, <1>5 DEF LocksInv, EngineTypeOK, Beside
<1>7. /\ control' \in Control /\ control'.active \in 0 .. Len(gens') /\ retired' \subseteq 1 .. Len(gens')
      /\ provider' \in Providers
    BY <1>1, <1>5 DEF LocksInv, EngineTypeOK
<1> QED BY <1>1, <1>3, <1>4, <1>5, <1>6, <1>7, CallStep DEF Updates, Rebuilds

LEMMA PublishKeeps ==
    ASSUME LocksInv, NEW m \in Maintainers, ApplyPublish(m) \/ ApplyPublishFails(m) \/ ApplyFail(m)
    PROVE  LocksInv'
<1>1. /\ op[m].pc \in {"publish", "fail"} /\ Updates(op[m]) /\ control.active \in 1 .. Len(gens)
      /\ UNCHANGED <<gens, retired, provider>>
      /\ EngineReturn(m) \/ EngineGoto(m, "fail")
    BY DEF LocksInv, EngineTypeOK, Announced, Updates, ApplyPublish, ApplyPublishFails, ApplyFail
<1>2. CASE UNCHANGED control
    BY <1>1, <1>2, CallFails
<1>3. CASE /\ control' \in Control /\ control'.active = control.active /\ control'.version > control.version
  <2>1. PICK t \in {NotEnsuring} \cup Ensuring : op' = [op EXCEPT ![m] = t] /\ t.pc \in {"idle", "fail"}
      BY <1>1, Ends, GoesOn DEF LocksInv, EnginePCs, EngineReturn
  <2>2. Announced(t)' /\ ~Rebuilds(t)
      BY <1>1, <1>3, <2>1 DEF Announced, Rebuilds
  <2> QED BY <1>1, <1>3, <2>1, <2>2, DocWritten
<1>4. control.active \in Nat /\ op[m].pc # "idle"
    BY <1>1
<1>5. \/ UNCHANGED control
      \/ control' = Ready(m, control.active) \/ Put(Ready(m, control.active))
      \/ Put([control EXCEPT !.state = "FAILED"])
    BY DEF ApplyPublish, ApplyPublishFails, ApplyFail, PutFails
<1> QED BY <1>2, <1>3, <1>4, <1>5, ReadyFields, Marked DEF States

LEMMA BeginRebuildKeeps ==
    ASSUME LocksInv, NEW m \in Maintainers, BeginRebuild(m) \/ BeginRebuildFails(m)
    PROVE  LocksInv'
<1>1. op[m].pc = "create" /\ ~BuildMuHeld /\ ~MuHeld /\ UNCHANGED <<retired, provider>>
    BY DEF BeginRebuild, BeginRebuildFails
<1>2. \A n \in Maintainers : n # m => ~Updates(op[n]) /\ ~Rebuilds(op[n])
    BY <1>1, NobodyElse
<1>3. /\ control' \in Control /\ control'.version >= control.version
      /\ control' = control \/ control'.active = 0
      /\ control.active = 0 => control'.active = 0
  <2>1. CASE UNCHANGED control
      BY <2>1 DEF LocksInv, EngineTypeOK, Control
  <2>2. CASE Put(Building(m, "BUILDING"))
    <3>1. /\ control' \in Control /\ control'.active = 0 /\ control'.version > control.version
        BY <1>1, <2>2, BuildingFields DEF States
    <3>2. control.version \in Nat /\ control'.version \in Nat
        BY <3>1 DEF LocksInv, EngineTypeOK, Control
    <3> QED BY <3>1, <3>2
  <2> QED BY <2>1, <2>2 DEF BeginRebuild, BeginRebuildFails, PutFails
<1>4. CASE BeginRebuildFails(m)
  <2>1. /\ op' = [op EXCEPT ![m] = NotEnsuring] /\ gens' = gens /\ Announced(NotEnsuring)' /\ Apart(NotEnsuring)'
        /\ control'.active \in 0 .. Len(gens') /\ gens' \in Seq(Generation) /\ retired' \subseteq 1 .. Len(gens')
      BY <1>1, <1>3, <1>4, Ends DEF BeginRebuildFails, EngineReturn, Announced, Apart, NotEnsuring,
         LocksInv, EngineTypeOK
  <2> QED BY <1>1, <1>2, <1>3, <2>1, Ends, CallStep DEF LocksInv, EngineTypeOK
<1>5. CASE BeginRebuild(m)
  <2>1. PICK e \in Generation : e = [o \in ObjectIds |-> Absent] /\ e # NoIndex
      BY GenerationsAre
  <2>2. gens' = Append(gens, e)
      BY <1>5, <2>1 DEF BeginRebuild
  <2>3. /\ gens' \in Seq(Generation) /\ Len(gens') = Len(gens) + 1 /\ gens'[Len(gens')] = e
        /\ \A h \in 1 .. Len(gens) : gens'[h] = gens[h]
      BY <2>2, GenAdd DEF LocksInv, EngineTypeOK
  <2>4. Len(gens) \in Nat /\ control.active \in 0 .. Len(gens) /\ retired \subseteq 1 .. Len(gens)
      BY DEF LocksInv, EngineTypeOK
  <2>5. PICK t : t = [op[m] EXCEPT !.pc = "walk", !.gen = Len(gens'), !.version = control'.version,
                                   !.old = control.active]
      OBVIOUS
  <2>6. /\ t \in Ensuring /\ t.pc = "walk" /\ t.gen = Len(gens') /\ t.version = control'.version
        /\ t.old = control.active
    <3>1. Len(gens') \in Nat /\ control'.version \in Nat /\ control.active \in Nat
        BY <1>3, <2>3, <2>4 DEF Control
    <3> QED BY <1>1, <2>5, <3>1, CallTyped DEF LocksInv, Ensuring, EnginePCs
  <2>7. op' = [op EXCEPT ![m] = t]
      BY <1>5, <2>5 DEF BeginRebuild
  <2>8. control'.active \in 0 .. Len(gens') /\ retired' \subseteq 1 .. Len(gens')
      BY <1>1, <1>3, <2>3, <2>4
  <2>9. Announced(t)' /\ ~Updates(t)
      BY <2>6 DEF Announced, Updates
  <2>10. Apart(t)'
    <3>1. t.gen \in 1 .. Len(gens') /\ t.gen \notin retired' /\ t.old < t.gen
        BY <1>1, <2>3, <2>4, <2>6
    <3>2. t.gen # control'.active /\ gens'[t.gen] # NoIndex
        BY <1>3, <2>1, <2>3, <2>4, <2>6
    <3>3. t.version <= control'.version /\ (t.old = 0 => control'.active = 0)
        BY <1>3, <2>6 DEF Control
    <3> QED BY <2>6, <3>1, <3>2, <3>3 DEF Apart
  <2>11. provider' \in Providers
      BY <1>1 DEF LocksInv, EngineTypeOK
  <2> QED BY <1>1, <1>2, <1>3, <2>3, <2>6, <2>7, <2>8, <2>9, <2>10, <2>11, CallStep
<1> QED BY <1>4, <1>5

LEMMA WalkKeeps ==
    ASSUME LocksInv, NEW m \in Maintainers, Walk(m) \/ WalkFails(m)
    PROVE  LocksInv'
<1>1. /\ op[m].pc = "walk" /\ Rebuilds(op[m]) /\ op[m] \in Ensuring
      /\ UNCHANGED <<control, retired, provider>>
    BY CallTyped DEF LocksInv, Walk, WalkFails, Rebuilds
<1>2. CASE WalkFails(m)
    BY <1>1, <1>2, CallFails DEF WalkFails
<1>3. CASE Walk(m)
  <2>1. PICK t \in Ensuring : op' = [op EXCEPT ![m] = t] /\ t.pc = "commit" /\ Same(t, op[m])
      BY <1>1, <1>3, GoesOn DEF LocksInv, EnginePCs, Walk
  <2>2. PICK docs \in Generation : docs = Compiled(op[m].to) /\ docs # NoIndex
      BY <1>1, GenerationsAre DEF Ensuring
  <2>3. /\ gens' \in Seq(Generation) /\ Len(gens') = Len(gens) /\ gens'[op[m].gen] = docs
        /\ \A h \in 1 .. Len(gens) : h # op[m].gen => gens'[h] = gens[h]
    <3>1. op[m].gen \in 1 .. Len(gens) /\ gens' = [gens EXCEPT ![op[m].gen] = docs]
        BY <1>1, <1>3, <2>2 DEF LocksInv, Apart, Walk
    <3> QED BY <3>1, GenSet DEF LocksInv, EngineTypeOK
  <2>4. Apart(t)'
      BY <1>1, <2>1, <2>2, <2>3 DEF LocksInv, Apart, Same
  <2>5. Announced(t)' /\ ~Updates(t)
      BY <2>1 DEF Announced, Updates
  <2>6. /\ control' \in Control /\ control'.active \in 0 .. Len(gens') /\ retired' \subseteq 1 .. Len(gens')
        /\ provider' \in Providers
      BY <1>1, <2>3 DEF LocksInv, EngineTypeOK
  <2> QED BY <1>1, <2>1, <2>3, <2>4, <2>5, <2>6, NobodyElse, CallStep
<1> QED BY <1>2, <1>3

LEMMA CommitKeeps ==
    ASSUME LocksInv, NEW m \in Maintainers, CommitRebuild(m) \/ CommitRebuildFails(m)
    PROVE  LocksInv'
<1>1. /\ op[m].pc = "commit" /\ Rebuilds(op[m]) /\ op[m] \in Ensuring /\ ~MuHeld
      /\ UNCHANGED <<gens, provider>>
    BY CallTyped DEF LocksInv, CommitRebuild, CommitRebuildFails, Rebuilds
<1>2. /\ op[m].gen \in 1 .. Len(gens) /\ op[m].gen \in Nat /\ op[m].old < op[m].gen /\ op[m].old \in Nat
      /\ op[m].gen \notin retired /\ op[m].version <= control.version
      /\ op[m].old = 0 /\ op[m].version = control.version => control.active = 0
    BY <1>1 DEF LocksInv, Apart, Ensuring
<1>3. \A n \in Maintainers : n # m => ~Updates(op[n]) /\ ~Rebuilds(op[n])
    BY <1>1, NobodyElse
<1>4. CASE UNCHANGED <<control, retired>> /\ EngineGoto(m, "abort")
    BY <1>1, <1>4, CallFails
<1>5. CASE control' = Ready(m, op[m].gen) /\ retired' = retired \cup ({op[m].old} \ {0}) /\ EngineReturn(m)
  <2>1. control' \in Control /\ control'.active = op[m].gen
      BY <1>1, <1>2, <1>5, ReadyFields
  <2>2. /\ gens' \in Seq(Generation) /\ control'.active \in 0 .. Len(gens') /\ retired' \subseteq 1 .. Len(gens')
        /\ provider' \in Providers
    <3>1. gens' \in Seq(Generation) /\ Len(gens') = Len(gens) /\ Len(gens) \in Nat /\ provider' \in Providers
        BY <1>1 DEF LocksInv, EngineTypeOK
    <3>2. retired \subseteq 1 .. Len(gens)
        BY DEF LocksInv, EngineTypeOK
    <3>3. op[m].old # 0 => op[m].old \in 1 .. Len(gens)
        BY <1>2, <3>1
    <3>4. retired' \subseteq 1 .. Len(gens)
        BY <1>5, <3>2, <3>3
    <3> QED BY <1>2, <2>1, <3>1, <3>4
  <2>3. op' = [op EXCEPT ![m] = NotEnsuring] /\ Announced(NotEnsuring)' /\ Apart(NotEnsuring)'
      BY <1>5, Ends DEF EngineReturn, Announced, Apart, NotEnsuring
  <2> QED BY <1>3, <2>1, <2>2, <2>3, Ends, CallStep
<1>6. CASE Put(Ready(m, op[m].gen)) /\ EngineGoto(m, "abort") /\ UNCHANGED retired
  <2>1. control' \in Control /\ control'.active = op[m].gen /\ control'.version > control.version
      BY <1>1, <1>2, <1>6, ReadyFields
  <2>2. /\ gens' \in Seq(Generation) /\ control'.active \in 0 .. Len(gens') /\ retired' \subseteq 1 .. Len(gens')
        /\ provider' \in Providers
      BY <1>1, <1>2, <1>6, <2>1 DEF LocksInv, EngineTypeOK
  <2>3. PICK t \in Ensuring : op' = [op EXCEPT ![m] = t] /\ t.pc = "abort" /\ Same(t, op[m])
      BY <1>1, <1>6, GoesOn DEF LocksInv, EnginePCs
  <2>4. Announced(t)' /\ ~Updates(t)
      BY <2>3 DEF Announced, Updates
  <2>5. Apart(t)'
    <3>1. op[m].version \in Nat /\ control.version \in Nat /\ control'.version \in Nat
        BY <1>1, <2>1 DEF LocksInv, EngineTypeOK, Control, Ensuring
    <3> QED BY <1>1, <1>2, <1>6, <2>1, <2>3, <3>1 DEF Apart, Same
  <2> QED BY <1>1, <1>3, <2>1, <2>2, <2>3, <2>4, <2>5, CallStep
<1> QED BY <1>1, <1>4, <1>5, <1>6 DEF CommitRebuild, CommitRebuildFails, PutFails

LEMMA AbortKeeps ==
    ASSUME LocksInv, NEW m \in Maintainers, Abort(m)
    PROVE  LocksInv'
<1>1. op[m].pc = "abort" /\ Rebuilds(op[m]) /\ op[m] \in Ensuring /\ UNCHANGED <<retired, provider>>
    BY CallTyped DEF LocksInv, Abort, Rebuilds
<1>2. /\ op[m].gen \in 1 .. Len(gens)
      /\ op[m].old = 0 /\ op[m].version = control.version => control.active = 0
    BY <1>1 DEF LocksInv, Apart
<1>3. \/ control' = control
      \/ control.active = 0 /\ control' \in Control /\ control'.active = 0
  <2>1. CASE /\ op[m].old = 0 /\ op[m].version = control.version
             /\ Put(Building(m, "FAILED"))
      BY <1>1, <1>2, <2>1, BuildingFields DEF States
  <2> QED BY <2>1 DEF Abort
<1>4. gens' \in Seq(Generation) /\ Len(gens') = Len(gens)
  <2>1. CASE gens' = [gens EXCEPT ![op[m].gen] = NoIndex]
      BY <1>2, <2>1, GenSet, GenerationsAre DEF LocksInv, EngineTypeOK
  <2> QED BY <2>1 DEF Abort, LocksInv, EngineTypeOK
<1>5. \A n \in Maintainers : n # m => ~Rebuilds(op[n]) /\ (Updates(op[n]) => control' = control)
    BY <1>1, <1>3, NobodyElse DEF LocksInv, Announced
<1>6. op' = [op EXCEPT ![m] = NotEnsuring] /\ Announced(NotEnsuring)' /\ Apart(NotEnsuring)'
    BY Ends DEF Abort, EngineReturn, Announced, Apart, NotEnsuring
<1>7. /\ control' \in Control /\ control'.active \in 0 .. Len(gens') /\ retired' \subseteq 1 .. Len(gens')
      /\ provider' \in Providers
    BY <1>1, <1>3, <1>4 DEF LocksInv, EngineTypeOK
<1> QED BY <1>4, <1>5, <1>6, <1>7, Ends, CallStep

LEMMA EnsureKeeps ==
    ASSUME LocksInv, NEW m \in Maintainers, NEW c \in Commits, Ensure(m, c)
    PROVE  LocksInv'
<1>1. UNCHANGED <<control, gens, retired, provider>>
    BY DEF Ensure
<1>2. CASE op' = op
    BY <1>1, <1>2 DEF LocksInv, EngineTypeOK, OneHolder, Announced, Apart, Updates, Rebuilds
<1>3. CASE op' # op
  <2>1. PICK t : /\ op' = [op EXCEPT ![m] = t]
                 /\ t = [pc |-> IF Incremental(c) THEN "begin" ELSE "create",
                         to |-> c, from |-> control.basis, version |-> 0, gen |-> 0, old |-> 0]
      BY <1>3 DEF Ensure
  <2>2. t \in Ensuring /\ t.pc \in {"begin", "create"}
      BY <2>1 DEF LocksInv, EngineTypeOK, Control, Ensuring, EnginePCs
  <2>3. Announced(t)' /\ Apart(t)' /\ ~Updates(t) /\ ~Rebuilds(t)
      BY <2>2 DEF Announced, Apart, Updates, Rebuilds
  <2> QED BY <1>1, <2>1, <2>2, <2>3, CallOnly
<1> QED BY <1>2, <1>3

LEMMA RetireKeeps ==
    ASSUME LocksInv, NEW g \in 1 .. Len(gens), Retire(g)
    PROVE  LocksInv'
<1>1. g \in retired /\ retired' = retired \ {g} /\ UNCHANGED <<control, op, provider>>
    BY DEF Retire
<1>2. /\ gens' \in Seq(Generation) /\ Len(gens') = Len(gens)
      /\ \A h \in 1 .. Len(gens) : h # g => gens'[h] = gens[h]
    BY GenSet, GenerationsAre DEF LocksInv, EngineTypeOK, Retire
<1>3. EngineTypeOK'
    BY <1>1, <1>2 DEF LocksInv, EngineTypeOK
<1>4. OneHolder'
    BY <1>1 DEF LocksInv, OneHolder, Updates, Rebuilds
<1>5. ASSUME NEW n \in Maintainers PROVE Announced(op[n])' /\ Apart(op[n])'
  <2>1. Announced(op[n]) /\ Apart(op[n]) /\ op'[n] = op[n]
      BY <1>1 DEF LocksInv
  <2>2. Announced(op[n])'
      BY <1>1, <2>1 DEF Announced, Updates
  <2>3. Apart(op[n])'
      BY <1>1, <1>2, <2>1 DEF Apart, Rebuilds
  <2> QED BY <2>2, <2>3
<1> QED BY <1>3, <1>4, <1>5 DEF LocksInv

LEMMA OutsideKeeps ==
    ASSUME LocksInv, MaintainersRestart \/ Recreate \/ UNCHANGED engineVars
    PROVE  LocksInv'
<1>1. CASE MaintainersRestart
  <2>1. EngineTypeOK'
      BY <1>1 DEF LocksInv, EngineTypeOK, MaintainersRestart
  <2>2. \A n \in Maintainers : op'[n] = NotEnsuring
      BY <1>1 DEF MaintainersRestart
  <2>3. OneHolder' /\ \A n \in Maintainers : Announced(op[n])' /\ Apart(op[n])'
      BY <2>2, Ends DEF OneHolder, Announced, Apart, Updates, Rebuilds
  <2> QED BY <2>1, <2>3 DEF LocksInv
<1>2. CASE Recreate \/ UNCHANGED engineVars
    BY <1>2 DEF LocksInv, EngineTypeOK, OneHolder, Announced, Apart, Updates, Rebuilds, Recreate, engineVars
<1> QED BY <1>1, <1>2

LEMMA LocksInitial == EngineInit => LocksInv
<1> SUFFICES ASSUME EngineInit PROVE LocksInv
    OBVIOUS
<1>1. EngineTypeOK
    BY DEF EngineInit, EngineTypeOK, Control, States
<1>2. \A n \in Maintainers : op[n] = NotEnsuring
    BY DEF EngineInit
<1> QED BY <1>1, <1>2, Ends DEF LocksInv, OneHolder, Announced, Apart, NotEnsuring

LEMMA LocksStep ==
    ASSUME LocksInv, [EngineNext]_engineVars
    PROVE  LocksInv'
<1>1. ASSUME NEW m \in Maintainers, EngineStep(m) PROVE LocksInv'
    BY <1>1, BeginKeeps, BulkKeeps, PublishKeeps, BeginRebuildKeeps, WalkKeeps, CommitKeeps, AbortKeeps
       DEF EngineStep
<1> QED BY <1>1, EnsureKeeps, RetireKeeps, OutsideKeeps DEF EngineNext

-----------------------------------------------------------------------------
\* No call works on another generation than before.
NoNewBuild == \A n \in Maintainers : Rebuilds(op'[n]) => Rebuilds(op[n]) /\ op'[n].gen = op[n].gen

LEMMA ReturnBuildsNothing ==
    ASSUME LocksInv, NEW m \in Maintainers, EngineReturn(m)
    PROVE  NoNewBuild
<1>1. op'[m] = NotEnsuring /\ \A n \in Maintainers : n # m => op'[n] = op[n]
    BY DEF LocksInv, EngineTypeOK, EngineReturn
<1> QED BY <1>1, Ends DEF NoNewBuild

LEMMA GotoBuildsNothing ==
    ASSUME LocksInv, NEW m \in Maintainers, op[m].pc # "idle", NEW p \in EnginePCs, EngineGoto(m, p),
           p \notin {"walk", "commit", "abort"} \/ Rebuilds(op[m])
    PROVE  NoNewBuild
<1>1. PICK t \in Ensuring : op' = [op EXCEPT ![m] = t] /\ t.pc = p /\ Same(t, op[m])
    BY GoesOn DEF LocksInv
<1>2. op'[m] = t /\ \A n \in Maintainers : n # m => op'[n] = op[n]
    BY <1>1, CallMoves DEF LocksInv
<1> QED BY <1>1, <1>2 DEF NoNewBuild, Rebuilds, Same

\* What a reader of the active generation sees of a step.
KeepsServing ==
    control.active # 0 =>
        /\ control'.active # 0
        /\ control.state = "READY" /\ control'.state = "READY" /\ control'.active = control.active
             => gens'[control.active] = gens[control.active]

LEMMA Quiet ==
    ASSUME ActiveStands, control'.active = control.active, retired' \subseteq retired, NoNewBuild,
           control.active # 0 => /\ gens'[control.active] # NoIndex
                                 /\ control'.state = "READY" => gens'[control.active] = gens[control.active]
    PROVE  ActiveStands' /\ KeepsServing
<1>1. CASE control.active = 0
    BY <1>1 DEF ActiveStands, KeepsServing
<1>2. CASE control.active # 0
  <2>1. /\ control.active \notin retired
        /\ \A n \in Maintainers : Rebuilds(op[n]) => op[n].gen # control.active
      BY <1>2 DEF ActiveStands
  <2>2. ASSUME NEW n \in Maintainers, Rebuilds(op[n])'
        PROVE  op'[n].gen # control'.active
    <3>1. Rebuilds(op'[n])
        BY <2>2 DEF Rebuilds
    <3> QED BY <2>1, <3>1 DEF NoNewBuild
  <2> QED BY <1>2, <2>1, <2>2 DEF ActiveStands, KeepsServing
<1> QED BY <1>1, <1>2

LEMMA UpdateServes ==
    ASSUME LocksInv, ActiveStands, ~LostReplies, NEW m \in Maintainers,
           \/ ApplyBegin(m) \/ ApplyBeginFails(m) \/ ApplyBulk(m) \/ ApplyBulkFails(m)
           \/ ApplyPublish(m) \/ ApplyPublishFails(m) \/ ApplyFail(m)
    PROVE  ActiveStands' /\ KeepsServing
<1>1. CASE ApplyBulk(m) \/ ApplyBulkFails(m)
  <2>1. /\ op[m].pc = "bulk" /\ op[m] \in Ensuring /\ control.active \in 1 .. Len(gens)
        /\ control.state # "READY" /\ UNCHANGED <<control, retired>>
      BY <1>1, CallTyped DEF LocksInv, EngineTypeOK, Announced, Updates, ApplyBulk, ApplyBulkFails
  <2>2. NoNewBuild
      BY <1>1, <2>1, GotoBuildsNothing DEF ApplyBulk, ApplyBulkFails, EnginePCs
  <2>3. gens[control.active] # NoIndex
      BY <2>1 DEF ActiveStands
  <2>4. PICK os \in SUBSET ObjectIds :
             gens' = [gens EXCEPT ![control.active] = Written(@, op[m].from, op[m].to, os)]
    <3>1. Changed(op[m].from, op[m].to) \subseteq ObjectIds
        BY DEF Changed
    <3> QED BY <1>1, <2>3, <3>1 DEF ApplyBulk, ApplyBulkFails
  <2>5. gens'[control.active] # NoIndex
    <3>1. gens[control.active] \in [ObjectIds -> Documents]
        BY <2>1, <2>3 DEF LocksInv, EngineTypeOK, Generation
    <3>2. PICK docs : docs = Written(gens[control.active], op[m].from, op[m].to, os)
        OBVIOUS
    <3>3. docs \in Generation /\ docs # NoIndex
        BY <2>1, <3>1, <3>2, WrittenTyped, GenerationsAre DEF Ensuring
    <3>4. gens' = [gens EXCEPT ![control.active] = docs]
        BY <2>4, <3>2
    <3> QED BY <2>1, <3>3, <3>4, GenSet DEF LocksInv, EngineTypeOK
  <2> QED BY <2>1, <2>2, <2>5, Quiet
<1>2. CASE ApplyBegin(m) \/ ApplyBeginFails(m) \/ ApplyPublish(m) \/ ApplyPublishFails(m) \/ ApplyFail(m)
  <2>1. op[m].pc \in {"begin", "publish", "fail"} /\ UNCHANGED <<gens, retired>>
      BY <1>2 DEF ApplyBegin, ApplyBeginFails, ApplyPublish, ApplyPublishFails, ApplyFail
  <2>2. control'.active = control.active
    <3>1. \/ UNCHANGED control
          \/ \E st \in States : Put([control EXCEPT !.state = st])
          \/ control' = Ready(m, control.active)
        BY <1>2 DEF ApplyBegin, ApplyBeginFails, ApplyPublish, ApplyPublishFails, ApplyFail, PutFails, States
    <3>2. ASSUME NEW st \in States, Put([control EXCEPT !.state = st])
          PROVE  control'.active = control.active
        BY <3>2, Marked
    <3>3. CASE control' = Ready(m, control.active)
        BY <3>3 DEF Ready
    <3> QED BY <3>1, <3>2, <3>3
  <2>3. NoNewBuild
    <3>1. CASE EngineReturn(m)
        BY <3>1, ReturnBuildsNothing
    <3>2. CASE EngineGoto(m, "fail")
        BY <2>1, <3>2, GotoBuildsNothing DEF EnginePCs
    <3>3. CASE op' = [op EXCEPT ![m].pc = "bulk", ![m].version = control'.version]
        BY <3>3 DEF LocksInv, EngineTypeOK, NoNewBuild, Rebuilds
    <3> QED BY <1>2, <3>1, <3>2, <3>3
            DEF ApplyBegin, ApplyBeginFails, ApplyPublish, ApplyPublishFails, ApplyFail
  <2> QED BY <2>1, <2>2, <2>3, Quiet DEF ActiveStands
<1> QED BY <1>1, <1>2

LEMMA RebuildServes ==
    ASSUME LocksInv, ActiveStands, ~LostReplies, NEW m \in Maintainers,
           \/ BeginRebuild(m) \/ BeginRebuildFails(m) \/ Walk(m) \/ WalkFails(m)
           \/ CommitRebuild(m) \/ CommitRebuildFails(m) \/ Abort(m)
    PROVE  ActiveStands' /\ KeepsServing
<1>1. CASE BeginRebuild(m)
  <2>1. op[m].pc = "create" /\ ~BuildMuHeld /\ retired' = retired
      BY <1>1 DEF BeginRebuild
  <2>2. CASE control.active = 0
    <3>1. control'.active = 0
        BY <1>1, <2>1, <2>2, BuildingFields DEF BeginRebuild, States
    <3> QED BY <2>2, <3>1 DEF ActiveStands, KeepsServing
  <2>3. CASE control.active # 0
    <3>1. control' = control /\ control.active \in 1 .. Len(gens)
        BY <1>1, <2>3 DEF BeginRebuild, LocksInv, EngineTypeOK
    <3>2. Len(gens') = Len(gens) + 1 /\ gens'[control.active] = gens[control.active]
      <4>1. PICK e \in Generation : e = [o \in ObjectIds |-> Absent]
          BY GenerationsAre
      <4> QED BY <1>1, <3>1, <4>1, GenAdd DEF BeginRebuild, LocksInv, EngineTypeOK
    <3>3. ASSUME NEW n \in Maintainers, Rebuilds(op[n])' PROVE op'[n].gen # control'.active
      <4>1. CASE n = m
        <5>1. op'[m].gen = Len(gens')
            BY <1>1, <2>1, CallTyped DEF BeginRebuild, LocksInv, EngineTypeOK, Ensuring
        <5> QED BY <3>1, <3>2, <4>1, <5>1
      <4>2. CASE n # m
        <5>1. op'[n] = op[n]
            BY <1>1, <4>2 DEF BeginRebuild, LocksInv, EngineTypeOK
        <5> QED BY <2>1, <3>3, <5>1 DEF BuildMuHeld, Rebuilds
      <4> QED BY <4>1, <4>2
    <3> QED BY <2>1, <2>3, <3>1, <3>2, <3>3 DEF ActiveStands, KeepsServing
  <2> QED BY <2>2, <2>3
<1>2. CASE BeginRebuildFails(m) \/ WalkFails(m) \/ CommitRebuildFails(m)
  <2>1. UNCHANGED <<control, gens, retired>>
      BY <1>2 DEF BeginRebuildFails, WalkFails, CommitRebuildFails, PutFails
  <2>2. NoNewBuild
      BY <1>2, ReturnBuildsNothing, GotoBuildsNothing
         DEF BeginRebuildFails, WalkFails, CommitRebuildFails, EnginePCs, Rebuilds
  <2> QED BY <2>1, <2>2, Quiet DEF ActiveStands
<1>3. CASE Walk(m)
  <2>1. op[m].pc = "walk" /\ Rebuilds(op[m]) /\ UNCHANGED <<control, retired>> /\ op[m].gen \in 1 .. Len(gens)
      BY <1>3 DEF Walk, LocksInv, Apart, Rebuilds
  <2>2. NoNewBuild
      BY <1>3, <2>1, GotoBuildsNothing DEF Walk, EnginePCs
  <2>3. control.active # 0 => gens'[control.active] = gens[control.active]
      BY <1>3, <2>1 DEF Walk, ActiveStands, LocksInv, EngineTypeOK
  <2> QED BY <2>1, <2>2, <2>3, Quiet DEF ActiveStands
<1>4. CASE CommitRebuild(m)
  <2>1. CASE EngineGoto(m, "abort") /\ UNCHANGED <<control, retired>>
    <3>1. NoNewBuild
        BY <1>4, <2>1, GotoBuildsNothing DEF CommitRebuild, EnginePCs, Rebuilds
    <3> QED BY <1>4, <2>1, <3>1, Quiet DEF ActiveStands, CommitRebuild
  <2>2. CASE /\ control' = Ready(m, op[m].gen) /\ EngineReturn(m)
             /\ retired' = retired \cup ({op[m].old} \ {0})
    <3>1. /\ op[m].pc = "commit" /\ Rebuilds(op[m]) /\ op[m] \in Ensuring /\ gens' = gens
        BY <1>4, CallTyped DEF CommitRebuild, Rebuilds, LocksInv
    <3>2. /\ op[m].gen \in 1 .. Len(gens) /\ op[m].gen \notin retired /\ op[m].old < op[m].gen
          /\ op[m].gen # control.active /\ gens[op[m].gen] # NoIndex
        BY <3>1 DEF LocksInv, Apart
    <3>3. control'.active = op[m].gen
        BY <2>2 DEF Ready
    <3>4. op[m].gen \notin retired'
        BY <2>2, <3>1, <3>2 DEF Ensuring
    <3>5. \A n \in Maintainers : ~Rebuilds(op[n])'
      <4>1. op'[m] = NotEnsuring /\ \A n \in Maintainers : n # m => op'[n] = op[n] /\ ~Rebuilds(op[n])
          BY <2>2, <3>1, NobodyElse DEF EngineReturn, LocksInv, EngineTypeOK
      <4> QED BY <4>1, Ends DEF Rebuilds
    <3> QED BY <3>1, <3>2, <3>3, <3>4, <3>5 DEF ActiveStands, KeepsServing
  <2> QED BY <1>4, <2>1, <2>2 DEF CommitRebuild
<1>5. CASE Abort(m)
  <2>1. op[m].pc = "abort" /\ Rebuilds(op[m]) /\ op[m].gen \in 1 .. Len(gens) /\ retired' = retired
      BY <1>5 DEF Abort, LocksInv, Apart, Rebuilds
  <2>2. CASE control' = control
    <3>1. NoNewBuild
        BY <1>5, ReturnBuildsNothing DEF Abort
    <3>2. control.active # 0 => gens'[control.active] = gens[control.active]
        BY <1>5, <2>1 DEF Abort, ActiveStands, LocksInv, EngineTypeOK
    <3> QED BY <2>1, <2>2, <3>1, <3>2, Quiet DEF ActiveStands
  <2>3. CASE op[m].old = 0 /\ op[m].version = control.version /\ Put(Building(m, "FAILED"))
    <3>1. control.active = 0
        BY <2>1, <2>3 DEF LocksInv, Apart
    <3>2. control'.active = 0
        BY <2>1, <2>3, BuildingFields DEF States
    <3> QED BY <3>1, <3>2 DEF ActiveStands, KeepsServing
  <2> QED BY <1>5, <2>2, <2>3 DEF Abort
<1> QED BY <1>1, <1>2, <1>3, <1>4, <1>5

LEMMA OtherServes ==
    ASSUME LocksInv, ActiveStands,
           \/ \E m \in Maintainers, c \in Commits : Ensure(m, c)
           \/ \E g \in 1 .. Len(gens) : Retire(g)
           \/ MaintainersRestart \/ Recreate \/ UNCHANGED engineVars
    PROVE  ActiveStands' /\ KeepsServing
<1>1. ASSUME NEW m \in Maintainers, NEW c \in Commits, Ensure(m, c)
      PROVE  ActiveStands' /\ KeepsServing
  <2>1. UNCHANGED <<control, gens, retired>>
      BY <1>1 DEF Ensure
  <2>2. NoNewBuild
    <3>1. CASE op' = op
        BY <3>1 DEF NoNewBuild
    <3>2. CASE op' # op
      <4>1. ~Rebuilds(op'[m]) /\ \A n \in Maintainers : n # m => op'[n] = op[n]
          BY <1>1, <3>2 DEF Ensure, LocksInv, EngineTypeOK, Rebuilds
      <4> QED BY <4>1 DEF NoNewBuild
    <3> QED BY <3>1, <3>2
  <2> QED BY <2>1, <2>2, Quiet DEF ActiveStands
<1>2. ASSUME NEW g \in 1 .. Len(gens), Retire(g)
      PROVE  ActiveStands' /\ KeepsServing
  <2>1. g \in retired /\ retired' = retired \ {g} /\ UNCHANGED <<control, op>>
        /\ gens' = [gens EXCEPT ![g] = NoIndex]
      BY <1>2 DEF Retire
  <2>2. control.active # 0 => gens'[control.active] = gens[control.active]
      BY <2>1 DEF ActiveStands, LocksInv, EngineTypeOK
  <2>3. NoNewBuild
      BY <2>1 DEF NoNewBuild
  <2> QED BY <2>1, <2>2, <2>3, Quiet DEF ActiveStands
<1>3. CASE MaintainersRestart
  <2>1. control' = control /\ gens' = gens /\ retired' = {}
      BY <1>3 DEF MaintainersRestart
  <2>2. NoNewBuild
      BY <1>3, Ends DEF MaintainersRestart, NoNewBuild
  <2> QED BY <2>1, <2>2, Quiet DEF ActiveStands
<1>4. CASE Recreate \/ UNCHANGED engineVars
  <2>1. UNCHANGED <<control, gens, retired, op>>
      BY <1>4 DEF Recreate, engineVars
  <2> QED BY <2>1, Quiet DEF ActiveStands, NoNewBuild
<1> QED BY <1>1, <1>2, <1>3, <1>4

(* Unless the answer to a write of the control document is lost, an active *)
(* generation stays until another one takes its place, and while it is     *)
(* READY its documents do not change (Apply, BeginRebuild, Commit, Abort,  *)
(* retireGeneration).                                                      *)
THEOREM EngineStaysServed == ~LostReplies => (EngineSpec => StaysServed)
<1> SUFFICES ASSUME ~LostReplies PROVE EngineSpec => StaysServed
    OBVIOUS
<1>1. EngineInit => LocksInv /\ ActiveStands
    BY LocksInitial DEF EngineInit, ActiveStands
<1>2. LocksInv /\ ActiveStands /\ [EngineNext]_engineVars => ActiveStands' /\ KeepsServing
    BY UpdateServes, RebuildServes, OtherServes DEF EngineNext, EngineStep
<1>3. LocksInv /\ ActiveStands /\ [EngineNext]_engineVars => LocksInv' /\ ActiveStands'
    BY <1>2, LocksStep
<1>4. LocksInv /\ ActiveStands /\ [EngineNext]_engineVars =>
        [control.active # 0 =>
            /\ control'.active # 0 /\ gens'[control'.active] # NoIndex
            /\ control.state = "READY" /\ control'.state = "READY" /\ control'.active = control.active
                 => gens'[control.active] = gens[control.active]]_engineVars
    BY <1>2 DEF ActiveStands, KeepsServing
<1> QED BY <1>1, <1>3, <1>4, PTL DEF EngineSpec, StaysServed

-----------------------------------------------------------------------------
LEMMA DocOfNothing ==
    ASSUME NEW c \in Commits, NEW us \in SUBSET Units
    PROVE  (Doc(c, us) = Absent) = (us = {})
BY AbsentIsNoDocument DEF Doc

LEMMA DocTells ==
    ASSUME NEW c \in Commits, NEW d \in Commits, NEW us \in SUBSET Units, NEW vs \in SUBSET Units,
           us # {}, Doc(c, us) = Doc(d, vs)
    PROVE  us = vs /\ \A u \in us : Tree[c][u] = Tree[d][u]
<1>1. vs # {}
    BY DocOfNothing
<1>2. [u \in us |-> Tree[c][u]] = [u \in vs |-> Tree[d][u]]
    BY <1>1 DEF Doc
<1>3. us = vs
    BY <1>2
<1> QED BY <1>2, <1>3

LEMMA CompiledFaithful == ASSUME NEW c \in Commits PROVE Faithful(Compiled(c), c)
<1>1. ASSUME NEW o \in ObjectIds
      PROVE  /\ PresentUnits(c, o) \in SUBSET Units /\ Compiled(c)[o] = Doc(c, PresentUnits(c, o))
    BY DEF PresentUnits, Compiled
<1> QED BY <1>1, DocOfNothing DEF Faithful

Touched(from, to, o) == \E u \in Units : Owner[u] = o /\ Tree[from][u] # Tree[to][u]

\* An update reads an object from what changed of it, if any of that is there.
LEMMA HydratedFrom ==
    ASSUME NEW from \in Commits, NEW to \in Commits, NEW c \in Commits, NEW o \in ObjectIds
    PROVE  \E us \in SUBSET PresentUnits(c, o) :
              /\ Hydrated(from, to, c, o) = Doc(c, us) /\ us \in SUBSET Units
              /\ (us = {}) = (PresentUnits(c, o) = {})
              /\ ChangedUnits(from, to, c, o) # {} => us = ChangedUnits(from, to, c, o)
<1> DEFINE changed == ChangedUnits(from, to, c, o)
           us == IF changed = {} THEN PresentUnits(c, o) ELSE changed
<1>1. changed \in SUBSET PresentUnits(c, o) /\ PresentUnits(c, o) \in SUBSET Units
    BY DEF ChangedUnits, PresentUnits
<1>2. Hydrated(from, to, c, o) = Doc(c, us)
    BY DEF Hydrated
<1> QED BY <1>1, <1>2

\* An object whose files differ is written: no document of it is equal to the new one.
LEMMA TouchedChanges ==
    ASSUME NEW from \in Commits, NEW to \in Commits, NEW o \in ObjectIds, Touched(from, to, o)
    PROVE  o \in Changed(from, to)
<1>1. PICK u \in Units : Owner[u] = o /\ Tree[from][u] # Tree[to][u]
    BY DEF Touched
<1>2. PICK us \in SUBSET PresentUnits(from, o) :
         /\ Hydrated(from, to, from, o) = Doc(from, us) /\ us \in SUBSET Units
         /\ ChangedUnits(from, to, from, o) # {} => us = ChangedUnits(from, to, from, o)
    BY HydratedFrom
<1>3. PICK vs \in SUBSET PresentUnits(to, o) :
         /\ Hydrated(from, to, to, o) = Doc(to, vs) /\ vs \in SUBSET Units
         /\ ChangedUnits(from, to, to, o) # {} => vs = ChangedUnits(from, to, to, o)
    BY HydratedFrom
<1>4. Doc(from, us) # Doc(to, vs)
  <2>1. CASE u \in PresentUnits(from, o)
    <3>1. u \in us
        BY <1>1, <1>2, <2>1 DEF ChangedUnits
    <3> QED BY <1>1, <1>2, <1>3, <3>1, DocTells
  <2>2. CASE u \notin PresentUnits(from, o)
    <3>1. u \in PresentUnits(to, o)
        BY <1>1, <2>2 DEF PresentUnits
    <3>2. u \in vs /\ u \notin us
        BY <1>1, <1>2, <1>3, <2>2, <3>1 DEF ChangedUnits
    <3> QED BY <1>2, <1>3, <3>2, DocTells
  <2> QED BY <2>1, <2>2
<1> QED BY <1>1, <1>2, <1>3, <1>4 DEF Changed

\* An update in place turns what shows one commit into what shows the other.
LEMMA UpdatedFaithful ==
    ASSUME NEW from \in Commits, NEW to \in Commits, Access[from] = Access[to],
           NEW docs \in [ObjectIds -> Documents], Faithful(docs, from)
    PROVE  Faithful(Written(docs, from, to, Changed(from, to)), to)
<1> DEFINE new == Written(docs, from, to, Changed(from, to))
<1> SUFFICES ASSUME NEW o \in ObjectIds
             PROVE  /\ (new[o] = Absent) = (PresentUnits(to, o) = {})
                    /\ \E us \in SUBSET PresentUnits(to, o) : new[o] = Doc(to, us)
    BY DEF Faithful
<1>1. CASE Touched(from, to, o)
  <2>1. new[o] = Hydrated(from, to, to, o)
      BY <1>1, TouchedChanges DEF Written
  <2> QED BY <2>1, HydratedFrom, DocOfNothing
<1>2. CASE ~Touched(from, to, o)
  <2>1. new[o] = docs[o]
      BY <1>2 DEF Written, Changed, Touched
  <2>2. PresentUnits(from, o) = PresentUnits(to, o)
      BY <1>2 DEF PresentUnits, Touched
  <2>3. ASSUME NEW us \in SUBSET PresentUnits(to, o) PROVE Doc(from, us) = Doc(to, us)
    <3>1. \A u \in us : Tree[from][u] = Tree[to][u]
        BY <1>2 DEF PresentUnits, Touched
    <3>2. [u \in us |-> Tree[from][u]] = [u \in us |-> Tree[to][u]]
        BY <3>1
    <3> QED BY <3>2 DEF Doc
  <2> QED BY <2>1, <2>2, <2>3 DEF Faithful
<1> QED BY <1>1, <1>2

-----------------------------------------------------------------------------
\* A step of the only call in flight.
LEMMA FreshCall ==
    ASSUME LocksInv, FreshInv, NEW m \in Maintainers, op[m].pc # "idle",
           NEW t \in {NotEnsuring} \cup Ensuring, op' = [op EXCEPT ![m] = t], raced' = raced,
           raced = "no" => ReadyShows' /\ Brings(t)'
    PROVE  FreshInv'
<1> SUFFICES ASSUME raced = "no" PROVE FreshInv'
    BY DEF FreshInv
<1>1. op'[m] = t /\ \A n \in Maintainers : n # m => op'[n] = op[n] /\ op[n].pc = "idle"
    BY CallMoves DEF LocksInv, FreshInv
<1>2. \A n \in Maintainers : n # m => Brings(op[n])'
    BY <1>1 DEF Brings
<1>3. Brings(op[m])'
    BY <1>1 DEF Brings, Shows
<1> QED BY <1>1, <1>2, <1>3 DEF FreshInv

\* Where a call goes that has nothing more to bring.
LEMMA FreshLets ==
    ASSUME LocksInv, FreshInv, NEW m \in Maintainers, op[m].pc # "idle", raced' = raced,
           \/ EngineReturn(m)
           \/ EngineGoto(m, "fail") \/ EngineGoto(m, "abort") \/ EngineGoto(m, "commit"),
           raced = "no" => ReadyShows'
    PROVE  FreshInv'
<1>1. CASE EngineReturn(m)
  <2>1. Brings(NotEnsuring)'
      BY Ends DEF Brings, NotEnsuring
  <2> QED BY <1>1, <2>1, FreshCall DEF EngineReturn
<1>2. ASSUME NEW p \in {"fail", "abort", "commit"}, EngineGoto(m, p) PROVE FreshInv'
  <2>1. PICK t \in Ensuring : op' = [op EXCEPT ![m] = t] /\ t.pc = p /\ Same(t, op[m])
      BY <1>2, GoesOn DEF LocksInv, EnginePCs
  <2>2. Brings(t)'
      BY <1>2, <2>1 DEF Brings
  <2> QED BY <2>1, <2>2, FreshCall
<1> QED BY <1>1, <1>2

\* The served documents stay, or their generation is dropped.
Kept == gens'[control.active] \in {gens[control.active], NoIndex}

LEMMA ShowsStays ==
    ASSUME NEW c, Kept, control' = control, Shows(control.active, c)
    PROVE  Shows(control.active, c)'
BY DEF Kept, Shows, Faithful

LEMMA ReadyStays ==
    ASSUME ReadyShows, control' = control, control.active # 0 => Kept
    PROVE  ReadyShows'
BY ShowsStays DEF ReadyShows

LEMMA NotReadyShows == ASSUME control'.state # "READY" PROVE ReadyShows'
BY DEF ReadyShows

LEMMA UpdateFresh ==
    ASSUME LocksInv, FreshInv, NEW m \in Maintainers,
           \/ ApplyBegin(m) \/ ApplyBeginFails(m) \/ ApplyBulk(m) \/ ApplyBulkFails(m)
           \/ ApplyPublish(m) \/ ApplyPublishFails(m) \/ ApplyFail(m)
    PROVE  FreshInv'
<1>1. op[m].pc # "idle" /\ op[m] \in Ensuring /\ raced' = raced
  <2>1. op[m].pc \in {"begin", "bulk", "publish", "fail"} /\ raced' = raced
      BY DEF ApplyBegin, ApplyBeginFails, ApplyBulk, ApplyBulkFails, ApplyPublish, ApplyPublishFails, ApplyFail
  <2> QED BY <2>1, CallTyped DEF LocksInv
<1>2. raced = "no" => ReadyShows /\ Brings(op[m])
    BY DEF FreshInv
<1>3. CASE ApplyBegin(m) \/ ApplyBeginFails(m)
  <2>1. op[m].pc = "begin" /\ gens' = gens
      BY <1>3 DEF ApplyBegin, ApplyBeginFails
  <2>2. CASE UNCHANGED control /\ EngineReturn(m)
      BY <1>1, <1>2, <2>1, <2>2, FreshLets, ReadyStays DEF Kept
  <2>3. CASE control.state = "READY" /\ Put([control EXCEPT !.state = "UPDATING"])
    <3>1. /\ control' \in Control /\ control'.active = control.active /\ control'.state = "UPDATING"
        BY <2>3, Marked DEF States
    <3>2. ReadyShows'
        BY <3>1, NotReadyShows
    <3>3. CASE EngineReturn(m)
        BY <1>1, <3>2, <3>3, FreshLets
    <3>4. CASE op' = [op EXCEPT ![m].pc = "bulk", ![m].version = control'.version]
      <4>1. PICK t : t = [op[m] EXCEPT !.pc = "bulk", !.version = control'.version]
          OBVIOUS
      <4>2. t \in Ensuring /\ t.pc = "bulk" /\ t.from = op[m].from /\ t.to = op[m].to
          BY <1>1, <3>1, <4>1 DEF Ensuring, EnginePCs, Control
      <4>3. op' = [op EXCEPT ![m] = t]
          BY <3>4, <4>1
      <4>4. ASSUME raced = "no" PROVE Brings(t)'
        <5>1. /\ control.basis = op[m].from /\ control.access = Access[op[m].to]
              /\ control.basis \in Commits /\ control.access = Access[control.basis]
              /\ Shows(control.active, control.basis)
            BY <1>2, <2>1, <2>3, <4>4 DEF Brings, ReadyShows
        <5>2. gens'[control'.active] # NoIndex => Faithful(gens'[control'.active], op[m].from)
            BY <2>1, <3>1, <5>1 DEF Shows
        <5> QED BY <4>2, <5>1, <5>2 DEF Brings, Shows, Faithful
      <4> QED BY <1>1, <3>2, <4>2, <4>3, <4>4, FreshCall
    <3> QED BY <1>3, <2>3, <3>3, <3>4 DEF ApplyBegin, ApplyBeginFails, EngineReturn
  <2> QED BY <1>3, <2>2, <2>3 DEF ApplyBegin, ApplyBeginFails, PutFails
<1>4. CASE ApplyBulk(m) \/ ApplyBulkFails(m)
  <2>1. op[m].pc = "bulk" /\ control' = control /\ control.active \in 1 .. Len(gens)
        /\ control'.state # "READY"
      BY <1>4 DEF LocksInv, EngineTypeOK, Announced, Updates, ApplyBulk, ApplyBulkFails
  <2>2. ReadyShows'
      BY <2>1, NotReadyShows
  <2>3. CASE ApplyBulkFails(m)
      BY <1>1, <2>2, <2>3, FreshLets DEF ApplyBulkFails
  <2>4. CASE ApplyBulk(m)
    <3>1. PICK t \in Ensuring : op' = [op EXCEPT ![m] = t] /\ t.pc = "publish" /\ Same(t, op[m])
        BY <1>1, <2>4, GoesOn DEF LocksInv, EnginePCs, ApplyBulk
    <3>2. ASSUME raced = "no" PROVE Brings(t)'
      <4>1. PICK docs : docs = gens[control.active]
          OBVIOUS
      <4>2. docs # NoIndex /\ docs \in [ObjectIds -> Documents]
          BY <2>1, <2>4, <4>1 DEF ApplyBulk, LocksInv, EngineTypeOK, Generation
      <4>3. op[m].from \in Commits /\ op[m].to \in Commits /\ Access[op[m].from] = Access[op[m].to]
          BY <1>1, <1>2, <2>1, <3>2 DEF Brings, Ensuring
      <4>4. Faithful(docs, op[m].from)
          BY <1>2, <2>1, <3>2, <4>1, <4>2 DEF Brings, Shows
      <4>5. PICK new : new = Written(docs, op[m].from, op[m].to, Changed(op[m].from, op[m].to))
          OBVIOUS
      <4>6. Faithful(new, op[m].to) /\ new \in Generation
        <5>1. Changed(op[m].from, op[m].to) \in SUBSET ObjectIds
            BY DEF Changed
        <5> QED BY <4>2, <4>3, <4>4, <4>5, <5>1, UpdatedFaithful, WrittenTyped
      <4>7. gens'[control'.active] = new
        <5>1. gens' = [gens EXCEPT ![control.active] = new]
            BY <2>4, <4>1, <4>5 DEF ApplyBulk
        <5> QED BY <2>1, <4>6, <5>1, GenSet DEF LocksInv, EngineTypeOK
      <4> QED BY <3>1, <4>6, <4>7 DEF Brings, Shows, Faithful, Same
    <3> QED BY <1>1, <2>2, <3>1, <3>2, FreshCall
  <2> QED BY <1>4, <2>3, <2>4
<1>5. CASE ApplyPublish(m) \/ ApplyPublishFails(m) \/ ApplyFail(m)
  <2>1. /\ gens' = gens /\ op[m].pc \in {"publish", "fail"} /\ control.active # 0 /\ control.active \in Nat
        /\ EngineReturn(m) \/ EngineGoto(m, "fail")
      BY <1>5 DEF LocksInv, EngineTypeOK, Announced, Updates, ApplyPublish, ApplyPublishFails, ApplyFail
  <2>2. ASSUME raced = "no" PROVE ReadyShows'
    <3>1. CASE control' = control
        BY <1>2, <2>1, <2>2, <3>1, ReadyStays DEF Kept
    <3>2. CASE Put([control EXCEPT !.state = "FAILED"])
        BY <3>2, Marked, NotReadyShows DEF States
    <3>3. CASE op[m].pc = "publish" /\ (control' = Ready(m, control.active) \/ Put(Ready(m, control.active)))
      <4>1. /\ control'.active = control.active /\ control'.basis = op[m].to
            /\ control'.access = Access[op[m].to] /\ op[m].to \in Commits
          BY <1>1, <2>1, <3>3, ReadyFields
      <4>2. Shows(control.active, op[m].to)
          BY <1>2, <2>2, <3>3 DEF Brings
      <4> QED BY <2>1, <4>1, <4>2 DEF ReadyShows, Shows, Faithful
    <3> QED BY <1>5, <3>1, <3>2, <3>3 DEF ApplyPublish, ApplyPublishFails, ApplyFail, PutFails
  <2> QED BY <1>1, <2>1, <2>2, FreshLets
<1> QED BY <1>3, <1>4, <1>5

LEMMA RebuildFresh ==
    ASSUME LocksInv, FreshInv, NEW m \in Maintainers,
           \/ BeginRebuild(m) \/ BeginRebuildFails(m) \/ Walk(m) \/ WalkFails(m)
           \/ CommitRebuild(m) \/ CommitRebuildFails(m) \/ Abort(m)
    PROVE  FreshInv'
<1>1. op[m].pc # "idle" /\ op[m] \in Ensuring /\ raced' = raced
  <2>1. op[m].pc \in {"create", "walk", "commit", "abort"} /\ raced' = raced
      BY DEF BeginRebuild, BeginRebuildFails, Walk, WalkFails, CommitRebuild, CommitRebuildFails, Abort
  <2> QED BY <2>1, CallTyped DEF LocksInv
<1>2. raced = "no" => ReadyShows
    BY DEF FreshInv
<1>3. ASSUME NEW st \in {"BUILDING", "FAILED"}, Put(Building(m, st)) PROVE ReadyShows'
    BY <1>1, <1>3, BuildingFields, NotReadyShows DEF States
<1>4. CASE BeginRebuildFails(m) \/ WalkFails(m)
  <2>1. /\ gens' = gens
        /\ EngineReturn(m) \/ EngineGoto(m, "abort")
        /\ control' = control \/ Put(Building(m, "BUILDING"))
      BY <1>4 DEF BeginRebuildFails, WalkFails, PutFails
  <2>2. raced = "no" => ReadyShows'
      BY <1>2, <1>3, <2>1, ReadyStays DEF Kept
  <2> QED BY <1>1, <2>1, <2>2, FreshLets
<1>5. CASE BeginRebuild(m)
  <2>1. ASSUME raced = "no" PROVE ReadyShows'
    <3>1. CASE Put(Building(m, "BUILDING"))
        BY <1>3, <3>1
    <3>2. CASE control' = control /\ control.active # 0
      <4>1. PICK e \in Generation : e = [o \in ObjectIds |-> Absent]
          BY GenerationsAre
      <4>2. Kept
          BY <1>5, <3>2, <4>1, GenAdd DEF BeginRebuild, LocksInv, EngineTypeOK, Kept
      <4> QED BY <1>2, <2>1, <3>2, <4>2, ReadyStays
    <3> QED BY <1>5, <3>1, <3>2 DEF BeginRebuild
  <2>2. PICK t : t = [op[m] EXCEPT !.pc = "walk", !.gen = Len(gens'), !.version = control'.version,
                                   !.old = control.active]
      OBVIOUS
  <2>3. op' = [op EXCEPT ![m] = t] /\ t.pc = "walk"
      BY <1>1, <1>5, <2>2 DEF BeginRebuild, Ensuring
  <2>4. t \in {NotEnsuring} \cup Ensuring
    <3>1. LocksInv'
        BY <1>5, BeginRebuildKeeps
    <3>2. op'[m] = t /\ op' \in [Maintainers -> {NotEnsuring} \cup Ensuring]
        BY <2>3, <3>1 DEF LocksInv, EngineTypeOK
    <3> QED BY <3>2
  <2>5. Brings(t)'
      BY <2>3 DEF Brings
  <2> QED BY <1>1, <2>1, <2>3, <2>4, <2>5, FreshCall
<1>6. CASE Walk(m)
  <2>1. control' = control /\ EngineGoto(m, "commit")
      BY <1>6 DEF Walk
  <2>2. op[m].gen \in 1 .. Len(gens) /\ op[m].gen # control.active
        /\ gens' = [gens EXCEPT ![op[m].gen] = Compiled(op[m].to)]
      BY <1>6 DEF Walk, LocksInv, Apart, Rebuilds
  <2>3. control.active # 0 => Kept
      BY <2>2 DEF LocksInv, EngineTypeOK, Kept
  <2>4. raced = "no" => ReadyShows'
      BY <1>2, <2>1, <2>3, ReadyStays
  <2> QED BY <1>1, <2>1, <2>4, FreshLets
<1>7. CASE CommitRebuild(m) \/ CommitRebuildFails(m)
  <2>1. /\ gens' = gens /\ op[m].pc = "commit"
        /\ EngineReturn(m) \/ EngineGoto(m, "abort")
        /\ control' = control \/ control' = Ready(m, op[m].gen) \/ Put(Ready(m, op[m].gen))
      BY <1>7 DEF CommitRebuild, CommitRebuildFails, PutFails
  <2>2. op[m].gen \in 1 .. Len(gens) /\ op[m].gen \in Nat \ {0} /\ gens[op[m].gen] = Compiled(op[m].to)
      BY <1>1, <2>1 DEF LocksInv, Apart, Rebuilds, Ensuring
  <2>3. ASSUME raced = "no" PROVE ReadyShows'
    <3>1. CASE control' = control
        BY <1>2, <2>1, <2>3, <3>1, ReadyStays DEF Kept
    <3>2. CASE control' = Ready(m, op[m].gen) \/ Put(Ready(m, op[m].gen))
      <4>1. /\ control'.active = op[m].gen /\ control'.basis = op[m].to
            /\ control'.access = Access[op[m].to] /\ op[m].to \in Commits
          BY <1>1, <2>2, <3>2, ReadyFields
      <4>2. Faithful(gens[op[m].gen], op[m].to)
          BY <2>2, <4>1, CompiledFaithful
      <4> QED BY <2>1, <2>2, <4>1, <4>2 DEF ReadyShows, Shows, Faithful
    <3> QED BY <2>1, <3>1, <3>2
  <2> QED BY <1>1, <2>1, <2>3, FreshLets
<1>8. CASE Abort(m)
  <2>1. EngineReturn(m) /\ (control' = control \/ Put(Building(m, "FAILED")))
        /\ (gens' = gens \/ gens' = [gens EXCEPT ![op[m].gen] = NoIndex])
      BY <1>8 DEF Abort
  <2>2. control.active # 0 => Kept
      BY <2>1 DEF LocksInv, EngineTypeOK, Kept
  <2>3. raced = "no" => ReadyShows'
      BY <1>2, <1>3, <2>1, <2>2, ReadyStays
  <2> QED BY <1>1, <2>1, <2>3, FreshLets
<1> QED BY <1>4, <1>5, <1>6, <1>7, <1>8

LEMMA OtherFresh ==
    ASSUME LocksInv, FreshInv,
           \/ \E m \in Maintainers, c \in Commits : Ensure(m, c)
           \/ \E g \in 1 .. Len(gens) : Retire(g)
           \/ MaintainersRestart \/ Recreate \/ UNCHANGED engineVars
    PROVE  FreshInv'
<1>1. ASSUME NEW m \in Maintainers, NEW c \in Commits, Ensure(m, c) PROVE FreshInv'
  <2> SUFFICES ASSUME raced' = "no" PROVE FreshInv'
      BY DEF FreshInv
  <2>1. /\ raced = "no" /\ UNCHANGED <<control, gens>>
        /\ op' = op \/ \A n \in Maintainers : op[n].pc = "idle"
      BY <1>1 DEF Ensure
  <2>2. ReadyShows'
      BY <2>1, ReadyStays DEF FreshInv, Kept
  <2>3. CASE op' = op
      BY <2>1, <2>2, <2>3 DEF FreshInv, Brings, Shows, Faithful
  <2>4. CASE op' # op
    <3>1. PICK t : /\ op' = [op EXCEPT ![m] = t]
                   /\ t = [pc |-> IF Incremental(c) THEN "begin" ELSE "create",
                           to |-> c, from |-> control.basis, version |-> 0, gen |-> 0, old |-> 0]
        BY <1>1, <2>4 DEF Ensure
    <3>2. /\ op'[m] = t
          /\ \A n \in Maintainers : n # m => op'[n].pc = "idle"
        BY <2>1, <2>4, <3>1 DEF LocksInv, EngineTypeOK
    <3>3. Brings(op[m])'
      <4>1. t.pc \in {"begin", "create"} /\ (t.pc = "begin" => Incremental(c))
          BY <3>1
      <4>2. t.pc = "begin" => control'.basis = t.from /\ control'.access = Access[t.to]
          BY <2>1, <3>1, <4>1 DEF Incremental
      <4> QED BY <3>2, <4>1, <4>2 DEF Brings
    <3>4. \A n \in Maintainers : n # m => Brings(op[n])'
        BY <3>2 DEF Brings
    <3> QED BY <2>2, <3>2, <3>3, <3>4 DEF FreshInv
  <2> QED BY <2>3, <2>4
<1>2. ASSUME NEW g \in 1 .. Len(gens), Retire(g) PROVE FreshInv'
  <2> SUFFICES ASSUME raced = "no" PROVE FreshInv'
      BY <1>2 DEF FreshInv, Retire
  <2>1. /\ UNCHANGED <<control, op, raced>>
        /\ gens' = [gens EXCEPT ![g] = NoIndex]
      BY <1>2 DEF Retire
  <2>2. control.active # 0 => Kept
      BY <2>1 DEF LocksInv, EngineTypeOK, Kept
  <2>3. ReadyShows'
      BY <2>1, <2>2, ReadyStays DEF FreshInv
  <2>4. ASSUME NEW n \in Maintainers PROVE Brings(op[n])'
    <3>1. Brings(op[n]) /\ (Updates(op[n]) => control.active # 0)
        BY DEF FreshInv, LocksInv, Announced
    <3>2. \A c : control.active # 0 /\ Shows(control.active, c) => Shows(control.active, c)'
        BY <2>1, <2>2, ShowsStays
    <3> QED BY <2>1, <3>1, <3>2 DEF Brings, Updates, Shows
  <2> QED BY <2>1, <2>3, <2>4 DEF FreshInv
<1>3. CASE MaintainersRestart
  <2> SUFFICES ASSUME raced = "no" PROVE FreshInv'
      BY <1>3 DEF FreshInv, MaintainersRestart
  <2>1. /\ UNCHANGED <<control, gens>>
        /\ \A n \in Maintainers : op'[n].pc = "idle"
      BY <1>3, Ends DEF MaintainersRestart
  <2>2. ReadyShows'
      BY <2>1, ReadyStays DEF FreshInv, Kept
  <2> QED BY <2>1, <2>2 DEF FreshInv, Brings
<1>4. CASE Recreate \/ UNCHANGED engineVars
  <2>1. UNCHANGED <<control, gens, op, raced>>
      BY <1>4 DEF Recreate, engineVars
  <2> QED BY <2>1 DEF FreshInv, ReadyShows, Brings, Shows, Faithful
<1> QED BY <1>1, <1>2, <1>3, <1>4

(* As long as calls of Ensure do not overlap, a READY projection is true   *)
(* to its basis: a document for exactly the objects there are, and none    *)
(* that shows content the basis does not have, whatever applies, failing   *)
(* bulk requests, rebuilds, lost answers, retirements, restarts and        *)
(* provider changes led to it (Index.Ensure, applyHydrated, Apply, Commit).*)
THEOREM EngineReadyFresh == EngineSpec => []ReadyFresh
<1>1. EngineInit => LocksInv /\ FreshInv
  <2> SUFFICES ASSUME EngineInit PROVE FreshInv
      BY LocksInitial
  <2>1. control.state = "NONE" /\ \A n \in Maintainers : op[n].pc = "idle"
      BY Ends DEF EngineInit
  <2> QED BY <2>1 DEF FreshInv, ReadyShows, Brings
<1>2. LocksInv /\ FreshInv /\ [EngineNext]_engineVars => LocksInv' /\ FreshInv'
    BY LocksStep, UpdateFresh, RebuildFresh, OtherFresh DEF EngineNext, EngineStep
<1>3. LocksInv /\ FreshInv => ReadyFresh
    BY DEF FreshInv, ReadyShows, ReadyFresh, ServesReady, Shows, Faithful
<1> QED BY <1>1, <1>2, <1>3, PTL DEF EngineSpec
====
