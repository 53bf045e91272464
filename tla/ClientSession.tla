---------------------------- MODULE ClientSession ----------------------------
(***************************************************************************)
(* cli: the login state a user's kc and kcfs processes share as files.     *)
(* Every server has a token session and a local session of its own; an     *)
(* older client left one file of each kind that names its server.  Login,  *)
(* logout and the refresh of an expired token are several file operations  *)
(* and calls, ordered only inside one process.                             *)
(*                                                                         *)
(* A token session is the principal it was issued for, the server that     *)
(* issued it, and whether it expired.                                      *)
(***************************************************************************)
EXTENDS Naturals, FiniteSets

CONSTANTS Procs,      \* kc commands and kcfs mounts
          Endpoints, Users,
          OldTokens, OldLocals,  \* what the older client may have left
          MaxOps      \* commands, requests and expiries

Absent == [server |-> "none", principal |-> "none", expired |-> FALSE]
Session(s, u) == [server |-> s, principal |-> u, expired |-> FALSE]

(* A session as a file keeps it, and what the older client can have left.  *)
Credential == [server : Endpoints, principal : Users, expired : BOOLEAN]

ASSUME OldSessions ==
    "none" \notin Endpoints /\ OldTokens \cup OldLocals \subseteq Credential \cup {Absent}

NoTask == [pc |-> "idle", server |-> "none", kind |-> "none", session |-> Absent]

VARIABLES
    token,        \* session-taihu.json of each server
    local,        \* session-local.json of each server
    oldToken,     \* session-taihu.json of the older client
    oldLocal,     \* session-local.json of the older client
    pending,      \* servers with a browser login under way
    mode,         \* what /auth discovery says of each server
    procs,
    loggedIn,     \* ghost: principals that completed a login at a server
    sent,         \* ghost: the request sent last
    ops

files == <<token, local, oldToken, oldLocal, pending>>
sessionVars == <<files, mode, procs, loggedIn, sent, ops>>

StartTask(p, call) ==
    /\ procs[p].pc = "idle" /\ ops < MaxOps
    /\ ops' = ops + 1
    /\ procs' = [procs EXCEPT ![p] = call]
SessionGoto(p, pc) == procs' = [procs EXCEPT ![p].pc = pc]
EndTask(p) == procs' = [procs EXCEPT ![p] = NoTask]

SessionInit ==
    /\ token = [s \in Endpoints |-> Absent] /\ local = [s \in Endpoints |-> Absent]
    /\ oldToken \in OldTokens /\ oldLocal \in OldLocals
    /\ pending = {}
    /\ mode \in [Endpoints -> {"local", "taihu"}]
    /\ procs = [p \in Procs |-> NoTask]
    /\ loggedIn = [s \in Endpoints |-> 
           {u \in Users : \E old \in {oldToken, oldLocal} : old.server = s /\ old.principal = u}]
    /\ sent = [to |-> "none", by |-> Absent] /\ ops = 0

-------------------------------------------------------------------------------
(* Login.  verbLogin asks the server for its mode first; the principal is  *)
(* what the server says of the token or of the assertion.                  *)

LoginModes(s) == IF mode[s] = "local" THEN {"local"} ELSE {"token", "browser"}

TokenLogin(p, s, u) ==
    /\ "token" \in LoginModes(s)
    /\ StartTask(p, [pc |-> "saveToken", server |-> s, kind |-> "login", session |-> Session(s, u)])
    /\ UNCHANGED <<files, mode, loggedIn, sent>>

LocalLogin(p, s, u) ==
    /\ "local" \in LoginModes(s)
    /\ StartTask(p, [pc |-> "saveLocal", server |-> s, kind |-> "login", session |-> Session(s, u)])
    /\ UNCHANGED <<files, mode, loggedIn, sent>>

StartAuth(p, s) ==
    /\ "browser" \in LoginModes(s) /\ s \notin pending
    /\ procs[p].pc = "idle" /\ ops < MaxOps /\ ops' = ops + 1
    /\ pending' = pending \cup {s}
    /\ UNCHANGED <<token, local, oldToken, oldLocal, mode, procs, loggedIn, sent>>

(* The poll completes and the code is exchanged, or the request is refused *)
(* or expired and the file removed.                                        *)
WaitAuth(p, s, u) ==
    /\ "browser" \in LoginModes(s) /\ s \in pending
    /\ \/ /\ StartTask(p, [pc |-> "saveToken", server |-> s, kind |-> "browser", session |-> Session(s, u)])
          /\ UNCHANGED pending
       \/ /\ procs[p].pc = "idle" /\ pending' = pending \ {s}
          /\ UNCHANGED <<procs, ops>>
    /\ UNCHANGED <<token, local, oldToken, oldLocal, mode, loggedIn, sent>>

(* persistTokenLogin and persistLocalSession: the new session, then the    *)
(* removal of the other kind, at the server's path and of the older client.*)
SaveToken(p) ==
    LET s == procs[p].server
    IN /\ procs[p].pc = "saveToken"
       /\ token' = [token EXCEPT ![s] = procs[p].session]
       /\ loggedIn' = [loggedIn EXCEPT ![s] = @ \cup {procs[p].session.principal}]
       /\ SessionGoto(p, "dropLocal")
       /\ UNCHANGED <<local, oldToken, oldLocal, pending, mode, sent, ops>>

SaveLocal(p) ==
    LET s == procs[p].server
    IN /\ procs[p].pc = "saveLocal"
       /\ local' = [local EXCEPT ![s] = procs[p].session]
       /\ loggedIn' = [loggedIn EXCEPT ![s] = @ \cup {procs[p].session.principal}]
       /\ SessionGoto(p, "dropToken")
       /\ UNCHANGED <<token, oldToken, oldLocal, pending, mode, sent, ops>>

(* removeMatchingSession.                                                  *)
Matching(old, s) == IF old.server = s THEN Absent ELSE old

DropLocal(p) ==
    LET s == procs[p].server
    IN /\ procs[p].pc = "dropLocal"
       /\ local' = [local EXCEPT ![s] = Absent] /\ oldLocal' = Matching(oldLocal, s)
       /\ pending' = IF procs[p].kind = "browser" THEN pending \ {s} ELSE pending
       /\ EndTask(p)
       /\ UNCHANGED <<token, oldToken, mode, loggedIn, sent, ops>>

DropToken(p) ==
    LET s == procs[p].server
    IN /\ procs[p].pc = "dropToken"
       /\ token' = [token EXCEPT ![s] = Absent] /\ oldToken' = Matching(oldToken, s)
       /\ IF procs[p].kind = "logout" THEN SessionGoto(p, "dropLocal") ELSE EndTask(p)
       /\ UNCHANGED <<local, oldLocal, pending, mode, loggedIn, sent, ops>>

(* clearServerSessions removes both kinds.                                 *)
Logout(p, s) ==
    /\ StartTask(p, [pc |-> "dropToken", server |-> s, kind |-> "logout", session |-> Absent])
    /\ UNCHANGED <<files, mode, loggedIn, sent>>

-------------------------------------------------------------------------------
(* Requests.                                                               *)

ReadServerTokenSession(s) ==
    IF token[s] # Absent THEN token[s]
    ELSE IF oldToken.server = s THEN oldToken ELSE Absent

LoadLocalSession(s) ==
    IF local[s] # Absent THEN local[s]
    ELSE IF oldLocal.server = s THEN oldLocal ELSE Absent

(* resolveRemoteSession: a token session that expired is refreshed and     *)
(* never replaced by a local one; without either the request fails.        *)
SendRequest(p, s) ==
    LET saved == ReadServerTokenSession(s)
        used == IF saved # Absent THEN saved ELSE LoadLocalSession(s)
    IN /\ used # Absent
       /\ IF saved.expired
          THEN /\ StartTask(p, [pc |-> "refresh", server |-> s, kind |-> "request", session |-> saved])
               /\ UNCHANGED sent
          ELSE /\ procs[p].pc = "idle" /\ ops < MaxOps /\ ops' = ops + 1
               /\ sent' = [to |-> s, by |-> used]
               /\ UNCHANGED procs
       /\ UNCHANGED <<files, mode, loggedIn>>

\* Mutant: the answer to a refresh is not compared with the saved principal.
RefreshedAny(p, u) == TRUE

(* The refreshed credential is for the principal that logged in.           *)
Refreshed(p, u) == u = procs[p].session.principal

(* ExchangeToken and the verification answer with a new token of some      *)
(* principal; persistTaihuSession writes it over what the file holds now.  *)
Refresh(p, u) ==
    LET s == procs[p].server
    IN /\ procs[p].pc = "refresh"
       /\ IF Refreshed(p, u)
          THEN /\ token' = [token EXCEPT ![s] = Session(procs[p].session.server, u)]
               /\ sent' = [to |-> s, by |-> Session(procs[p].session.server, u)]
          ELSE UNCHANGED <<token, sent>>
       /\ EndTask(p)
       /\ UNCHANGED <<local, oldToken, oldLocal, pending, mode, loggedIn, ops>>

(* The exchange fails, or the process is killed.                           *)
Abort(p) ==
    /\ procs[p].pc # "idle" /\ EndTask(p)
    /\ UNCHANGED <<files, mode, loggedIn, sent, ops>>

Expire(s) ==
    /\ token[s] # Absent /\ ~token[s].expired /\ ops < MaxOps /\ ops' = ops + 1
    /\ token' = [token EXCEPT ![s].expired = TRUE]
    /\ UNCHANGED <<local, oldToken, oldLocal, pending, mode, procs, loggedIn, sent>>

(* The server is deployed again with another --auth.                       *)
Redeploy(s) ==
    /\ ops < MaxOps /\ ops' = ops + 1
    /\ mode' = [mode EXCEPT ![s] = IF @ = "local" THEN "taihu" ELSE "local"]
    /\ UNCHANGED <<files, procs, loggedIn, sent>>

SessionNext ==
    \/ \E p \in Procs :
          \/ SaveToken(p) \/ SaveLocal(p) \/ DropLocal(p) \/ DropToken(p) \/ Abort(p)
          \/ \E u \in Users : Refresh(p, u)
          \/ \E s \in Endpoints :
                \/ StartAuth(p, s) \/ Logout(p, s) \/ SendRequest(p, s)
                \/ \E u \in Users : TokenLogin(p, s, u) \/ LocalLogin(p, s, u) \/ WaitAuth(p, s, u)
    \/ \E s \in Endpoints : Expire(s) \/ Redeploy(s)

SessionSpec == SessionInit /\ [][SessionNext]_sessionVars

-------------------------------------------------------------------------------
(* A request carries a credential of the server it goes to, of a principal *)
(* that logged in there, whatever the files of other servers and of the    *)
(* older client hold (TestLoginSavedCredentialNeverCrossesServer).         *)
OwnCredential ==
    sent.to # "none" => sent.by.server = sent.to /\ sent.by.principal \in loggedIn[sent.to]
===============================================================================
