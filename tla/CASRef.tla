------------------------------- MODULE CASRef -------------------------------
(***************************************************************************)
(* What a Snapshot authority promises of a published ref: it moves only    *)
(* from a commit to a child of that commit, and an archived repository     *)
(* does not move at all.                                                   *)
(***************************************************************************)
EXTENDS Naturals, Sequences

VARIABLES
    branch,    \* the commit the ref names
    parent,    \* parent[k] of every commit created so far
    archived   \* "no" or "yes"

cvars == <<branch, parent, archived>>

CInit == branch = 0 /\ parent = << >> /\ archived = "no"

(* A candidate commit on top of a commit; the ref does not move.           *)
NewCommit ==
    /\ \E base \in 0 .. Len(parent) : parent' = Append(parent, base)
    /\ UNCHANGED <<branch, archived>>

Advance ==
    /\ archived = "no"
    /\ branch' \in {k \in DOMAIN parent : parent[k] = branch}
    /\ UNCHANGED <<parent, archived>>

ArchiveRepo ==
    /\ archived = "no" /\ archived' = "yes"
    /\ UNCHANGED <<branch, parent>>

CNext == NewCommit \/ Advance \/ ArchiveRepo

CSpec == CInit /\ [][CNext]_cvars
=============================================================================
