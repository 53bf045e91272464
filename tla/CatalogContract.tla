--------------------------- MODULE CatalogContract ---------------------------
(***************************************************************************)
(* What a Catalog promises of its combination space, one command at a time *)
(* (snapshot/dataset/README.md): a release is retained once and for all,   *)
(* revisions only advance, retirement and archival are final, and a        *)
(* release names registered repositories only.                             *)
(***************************************************************************)
EXTENDS Naturals

CONSTANTS Sets, Repos, Revs, Pins, NoPin, Members(_)

VARIABLE state   \* [cur, retired, rel, repos, archived]

CEmpty ==
    [cur |-> [s \in Sets |-> 0], retired |-> {}, rel |-> [s \in Sets |-> [v \in Revs |-> NoPin]],
     repos |-> {}, archived |-> "no"]

CRegister == \E r \in Repos : state' = [state EXCEPT !.repos = @ \cup {r}]

CUnregister == \E r \in Repos : state' = [state EXCEPT !.repos = @ \ {r}]

CRetire == \E s \in Sets : state.cur[s] # 0 /\ state' = [state EXCEPT !.retired = @ \cup {s}]

CPublish ==
    \E s \in Sets \ state.retired, v \in Revs, p \in Pins :
        /\ v > state.cur[s]
        /\ state.rel[s][v] = NoPin
        /\ Members(p) \subseteq state.repos
        /\ state' = [state EXCEPT !.cur[s] = v, !.rel[s][v] = p]

CArchive == state' = [state EXCEPT !.archived = "yes"]

CInit == state = CEmpty

CNext == state.archived = "no" /\ (CRegister \/ CUnregister \/ CRetire \/ CPublish \/ CArchive)

CSpec == CInit /\ [][CNext]_state
=============================================================================
