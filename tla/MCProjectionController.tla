----------------------- MODULE MCProjectionController -----------------------
(***************************************************************************)
(* The controller of derived projections and its Bound State lane in one   *)
(* run: two independent models, of which the initial state picks the one   *)
(* that moves.                                                             *)
(***************************************************************************)
EXTENDS ProjectionController, StateNotices

VARIABLE part

MCInit == Init /\ NoticeInit /\ part \in {"lanes", "notices"}

Control == part = "lanes"

MCNext ==
    \/ Control /\ Next /\ UNCHANGED <<noticeVars, part>>
    \/ ~Control /\ NoticeNext /\ UNCHANGED <<vars, part>>

\* The fairness of the two specifications, each for the model that moves.
MCSpec ==
    /\ MCInit /\ [][MCNext]_<<vars, noticeVars, part>>
    /\ WF_vars(Control /\ SearchStep)
    /\ \A c \in Consumers : WF_vars(Control /\ LaneStep(c))
    /\ WF_vars(Control /\ \E k \in 1..MaxHead, r \in Lanes : Desire(k, r))
    /\ WF_noticeVars(~Control /\ Notify)
    /\ SF_noticeVars(~Control /\ WorkerStep)
    /\ WF_noticeVars(~Control /\ SyncRefresh)

\* Notices are served and HEAD gets a view (catchUpState).
AllServed == ~Control => NoticesServed
=============================================================================
