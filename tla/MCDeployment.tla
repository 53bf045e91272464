---- MODULE MCDeployment ----
(***************************************************************************)
(* What a deployment keeps across restarts, in one run of three            *)
(* independent models: the provisioning of managed repositories, one of    *)
(* each pool, the state volume itself and the outbox of post hooks.  The   *)
(* initial state picks the part that moves.                                *)
(***************************************************************************)
EXTENDS ManagedProvisioning, HookOutbox, DeploymentState

CONSTANTS rg, rl

MCRepos == {rg, rl}

MCDriver == [r \in MCRepos |-> IF r = rg THEN "gitea" ELSE "lakefs"]

VARIABLE part

MCInit ==
    /\ Init /\ StateInit /\ HookInit
    /\ part \in {"managed", "state", "hooks"}
    /\ part # "state" => marker = NoMarker

MCNext ==
    /\ \/ /\ part = "managed" /\ Next
          /\ UNCHANGED <<stateVars, hookVars>>
       \/ /\ part = "state" /\ StateNext
          /\ UNCHANGED <<vars, hookVars>>
       \/ /\ part = "hooks" /\ HookNext
          /\ UNCHANGED <<vars, stateVars>>
    /\ UNCHANGED part

\* The fairness of the three specifications, each for the part that moves.
MCSpec ==
    /\ MCInit /\ [][MCNext]_<<vars, stateVars, hookVars, part>>
    /\ WF_vars(part = "managed" /\ Step) /\ WF_vars(part = "managed" /\ Boot)
    /\ \A c \in Commands, r \in Repos : SF_vars(part = "managed" /\ Resume(c, r))
    /\ \A i \in Inits : WF_stateVars(part = "state" /\ InitStep(i))
    /\ \A r \in Runners :
         /\ WF_hookVars(part = "hooks" /\ DispatchStep(r))
         /\ WF_hookVars(part = "hooks" /\ AcceptUnmatched(r))

\* An allocation that is retried is finished, and a killed upgrade is repaired by
\* running init again (CreateManagedRepository, completeDeploymentLedgers).
Repaired == Completes /\ UpgradeCompletes
====
