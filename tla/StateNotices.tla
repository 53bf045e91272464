---------------------------- MODULE StateNotices ----------------------------
(***************************************************************************)
(* The Bound State lane of the projection controller: an observer tells    *)
(* that a source has changed (Controller.Notify), the notice is coalesced  *)
(* in controller.db, and catchUpState pulls the source and publishes a new *)
(* State projection (index/state.go) before it removes the notice.  The    *)
(* `projection sync` command refreshes the same projection on its own.     *)
(* One repository, one notice key, one source whose observations are       *)
(* numbered.                                                               *)
(***************************************************************************)
EXTENDS Integers

CONSTANTS
    MaxPublished, \* bound: declaration commits published
    MaxObs,       \* bound: observations of the source
    MaxErrors     \* bound: failed calls and restarts

ASSUME NoticeBounds == MaxPublished \in Nat \ {0} /\ MaxObs \in Nat

VARIABLES
    published, \* published HEAD
    obs,       \* the source's current observation
    told,      \* ghost: the observation that the latest notice was about
    notice,    \* the notice record's status
    view,      \* view[k]: observation served at commit k; None: not built
    refresh,   \* refresh[p]: what process p is doing
    errors

noticeVars == <<published, obs, told, notice, view, refresh, errors>>

None == -1

Declaration == 1..MaxPublished

Obs == 0..MaxObs

(* The controller's worker and a `projection sync` command.                *)
Procs == {"worker", "sync"}

PCs == {"idle", "cold", "coldPublish", "list", "head", "lock", "publish",
        "finish", "failed"}

NotRefreshing == [pc |-> "idle", commit |-> 1, pulled |-> 0, listed |-> 0]

RefreshRun == [pc : PCs, commit : Declaration, pulled : Obs, listed : Obs]

NoticeInit ==
    /\ published = 1
    /\ obs = 0
    /\ told = 0
    /\ notice = "NONE"
    /\ view = [k \in Declaration |-> None]
    /\ refresh = [p \in Procs |-> NotRefreshing]
    /\ errors = 0

NoticeFault == errors < MaxErrors /\ errors' = errors + 1

RefreshGoto(p, pc) == refresh' = [refresh EXCEPT ![p].pc = pc]

-----------------------------------------------------------------------------
(* The environment: the source moves on, a Writer publishes.               *)
Observe ==
    /\ obs < MaxObs
    /\ obs' = obs + 1
    /\ UNCHANGED <<published, told, notice, view, refresh, errors>>

PublishCommit ==
    /\ published < MaxPublished
    /\ published' = published + 1
    /\ UNCHANGED <<obs, told, notice, view, refresh, errors>>

(* Notify, enqueueNotice: a queued notice of the same key is overwritten.  *)
Notify ==
    /\ told < obs
    /\ told' = obs
    /\ notice' = "PENDING"
    /\ UNCHANGED <<published, obs, view, refresh, errors>>

-----------------------------------------------------------------------------
(* refreshState holds stateBuildMu from the lookup of the source until the *)
(* new Serving State is published.                                         *)
StateBuildMuHeld == \E p \in Procs : refresh[p].pc \in {"coldPublish", "publish"}

(* Mutant: the source is pulled before the mutex is taken.                 *)
PullUnlocked(p, pc, next) ==
    /\ refresh[p].pc = pc
    /\ refresh' = [refresh EXCEPT ![p].pc = next, ![p].pulled = obs]
    /\ UNCHANGED <<published, obs, told, notice, view, errors>>

Pull(p, pc, next) ==
    /\ refresh[p].pc = pc /\ ~StateBuildMuHeld
    /\ refresh' = [refresh EXCEPT ![p].pc = next, ![p].pulled = obs]
    /\ UNCHANGED <<published, obs, told, notice, view, errors>>

PublishView(p, pc, next) ==
    /\ refresh[p].pc = pc
    /\ view' = [view EXCEPT ![refresh[p].commit] = refresh[p].pulled]
    /\ RefreshGoto(p, next)
    /\ UNCHANGED <<published, obs, told, notice, errors>>

(* The source or the provider fails: the published revision stays.         *)
RefreshFails(p, pcs, next) ==
    /\ refresh[p].pc \in pcs
    /\ NoticeFault
    /\ RefreshGoto(p, next)
    /\ UNCHANGED <<published, obs, told, notice, view>>

-----------------------------------------------------------------------------
(* catchUpState.                                                           *)

(* A State projection that this process does not hold is built first.      *)
StartCatchUp ==
    /\ refresh["worker"].pc = "idle"
    /\ refresh' = [refresh EXCEPT !["worker"].commit = published,
                                  !["worker"].pc = IF view[published] = None THEN "cold" ELSE "list"]
    /\ UNCHANGED <<published, obs, told, notice, view, errors>>

Cold ==
    \/ Pull("worker", "cold", "coldPublish")
    \/ PublishView("worker", "coldPublish", "list")

(* The error of the cold build is ignored: the notices come next.          *)
ColdFails == RefreshFails("worker", {"cold", "coldPublish"}, "list")

(* Mutant: failed notices are not listed again.                            *)
ListPendingOnly ==
    /\ refresh["worker"].pc = "list"
    /\ refresh' = IF notice # "PENDING" THEN [refresh EXCEPT !["worker"] = NotRefreshing]
                  ELSE [refresh EXCEPT !["worker"].pc = "head", !["worker"].listed = told]
    /\ UNCHANGED <<published, obs, told, notice, view, errors>>

(* pendingNotices: everything but READY.                                   *)
ListNotices ==
    /\ refresh["worker"].pc = "list"
    /\ refresh' = IF notice \in {"NONE", "READY"} THEN [refresh EXCEPT !["worker"] = NotRefreshing]
                  ELSE [refresh EXCEPT !["worker"].pc = "head", !["worker"].listed = told]
    /\ UNCHANGED <<published, obs, told, notice, view, errors>>

(* refreshNotice reads HEAD and refreshes at that commit.                  *)
NoticeHead ==
    /\ refresh["worker"].pc = "head"
    /\ refresh' = [refresh EXCEPT !["worker"].pc = "lock", !["worker"].commit = published]
    /\ UNCHANGED <<published, obs, told, notice, view, errors>>

Refresh ==
    \/ Pull("worker", "lock", "publish")
    \/ PublishView("worker", "publish", "finish")

NoticeFails == RefreshFails("worker", {"head", "lock", "publish"}, "failed")

(* Mutant: a failed notice is removed as well.                             *)
FinishAlways ==
    /\ refresh["worker"].pc \in {"finish", "failed"}
    /\ notice' = "NONE"
    /\ refresh' = [refresh EXCEPT !["worker"] = NotRefreshing]
    /\ UNCHANGED <<published, obs, told, view, errors>>

(* finishNotice: success deletes the key, failure rewrites the record.     *)
FinishNotice ==
    /\ refresh["worker"].pc \in {"finish", "failed"}
    /\ notice' = IF refresh["worker"].pc = "finish" THEN "NONE" ELSE "FAILED"
    /\ refresh' = [refresh EXCEPT !["worker"] = NotRefreshing]
    /\ UNCHANGED <<published, obs, told, view, errors>>

(* An error of the search phases or of controller.db ends the run.         *)
RunAborts ==
    /\ refresh["worker"].pc \in {"list", "finish", "failed"}
    /\ NoticeFault
    /\ refresh' = [refresh EXCEPT !["worker"] = NotRefreshing]
    /\ UNCHANGED <<published, obs, told, notice, view>>

-----------------------------------------------------------------------------
(* `projection sync`: RefreshState at a published commit.                  *)
SyncStart ==
    /\ refresh["sync"].pc = "idle"
    /\ \E k \in 1..published : refresh' = [refresh EXCEPT !["sync"].pc = "lock", !["sync"].commit = k]
    /\ UNCHANGED <<published, obs, told, notice, view, errors>>

SyncRefresh ==
    \/ Pull("sync", "lock", "publish")
    \/ PublishView("sync", "publish", "idle")

SyncFails == RefreshFails("sync", {"lock", "publish"}, "idle")

(* Serving States live in the process: a restart begins without them.      *)
ProcessRestart ==
    /\ NoticeFault
    /\ view' = [k \in Declaration |-> None]
    /\ refresh' = [p \in Procs |-> NotRefreshing]
    /\ UNCHANGED <<published, obs, told, notice>>

WorkerStep == StartCatchUp \/ Cold \/ ListNotices \/ NoticeHead \/ Refresh \/ FinishNotice

NoticeNext ==
    \/ Observe \/ PublishCommit \/ Notify
    \/ WorkerStep \/ ColdFails \/ NoticeFails \/ RunAborts
    \/ SyncStart \/ SyncRefresh \/ SyncFails
    \/ ProcessRestart

NoticeSpec == NoticeInit /\ [][NoticeNext]_noticeVars

(* The observer delivers its notices, the ticker keeps starting runs, and  *)
(* calls that hold or wait for stateBuildMu return.                        *)
NoticeFairSpec ==
    /\ NoticeSpec
    /\ WF_noticeVars(Notify)
    /\ SF_noticeVars(WorkerStep)
    /\ WF_noticeVars(SyncRefresh)

-----------------------------------------------------------------------------

(* Two refreshes never publish out of order: what is served at a commit    *)
(* never falls back to an older observation within one process             *)
(* (refreshState under stateBuildMu).  And a notice is removed only after  *)
(* a refresh that began after the notice was listed: what it announced is  *)
(* served at the commit refreshed for it (catchUpState, finishNotice).     *)
ViewForward ==
    [][/\ \A k \in Declaration : view'[k] # None => view'[k] >= view[k]
       /\ notice # "NONE" /\ notice' = "NONE" =>
            /\ refresh["worker"].pc = "finish"
            /\ view[refresh["worker"].commit] >= refresh["worker"].listed]_noticeVars

(* No notice stays in the queue for ever, failures included                *)
(* (pendingNotices lists FAILED ones too), and every declaration commit    *)
(* that stays HEAD gets a State projection, also without any notice        *)
(* (catchUpState's cold pass).                                             *)
NoticesServed ==
    /\ (notice # "NONE") ~> (notice = "NONE")
    /\ <>[](view[published] # None)

=============================================================================
