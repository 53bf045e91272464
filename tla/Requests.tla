------------------------------ MODULE Requests ------------------------------
(***************************************************************************)
(* A typed request through one serving process: the lock it takes, the     *)
(* order of authorisation, stamping, hooks and evidence around the         *)
(* operation, the basis a read is fixed to, and the policy it is checked   *)
(* against again while its answer is delivered.                            *)
(*                                                                         *)
(* Repositories move under a running request (pushes straight to the       *)
(* authority) and the policy file may be rewritten by an operator's        *)
(* process.  A policy is the set of scopes (datasets, repositories) the    *)
(* callers may use, or Broken when the file cannot be read; which rule     *)
(* covers whom is the matter of AccessPolicy.                              *)
(***************************************************************************)
EXTENDS Naturals, FiniteSets

CONSTANTS Slots,          \* requests in flight at once: numbers, the least free one is taken
          Principals,     \* authenticated principals
          Delegated,      \* the callers acting on behalf of a user
          WriteIds,       \* command ids of writes
          P, Q, D, E,     \* two repositories, two dataset releases
          Nobody, NoName, Unpinned, Broken,
          MaxRequests,        \* bound on the requests
          MaxDisturbances     \* bound on pushes, edits of the policy and crashes together

VARIABLES mode,      \* "deployment" or "fixture": how the process serves
          head,      \* the tip of each repository
          policy,    \* the policy file
          stamp,     \* what the shared Home's journal writes on a line
          req,       \* the request in each slot
          ledger,    \* commands published
          vetted,    \* commands a pre hook let pass (history)
          posts,     \* post events handed over, per command (history)
          asked, disturbed

requestVars == <<mode, head, policy, stamp, req, ledger, vetted, posts, asked, disturbed>>

Repos == {P, Q}
Datasets == {D, E}
RequestKinds == {"read", "walk", "write", "grant"}

Releases == [d \in Datasets |-> IF d = D THEN Repos ELSE {Q}]
ReleaseCommit == 0   \* a published release names the commits of its publication

Stamp == [who: Principals \cup {Nobody}, behalf: Principals \cup {Nobody}]
Blank == [who |-> Nobody, behalf |-> Nobody]
ASSUME SomebodyCalls == Nobody \notin Principals

Own(c) == [who |-> c, behalf |-> IF c \in Delegated THEN c ELSE Nobody]

\* A stamped journal fills what is empty, the newest wrapper first.
WithContext(inner, new) ==
    [who |-> IF new.who # Nobody THEN new.who ELSE inner.who,
     behalf |-> IF new.behalf # Nobody THEN new.behalf ELSE inner.behalf]

(***************************************************************************)
(* The shape of a request                                                  *)
(***************************************************************************)
Ask == [dataset: Datasets \cup {NoName}, pin: Datasets \cup {NoName},
        definition: BOOLEAN, repo: BOOLEAN]

\* A basis is a dataset or a definition, or one repository: never a mixture.
Mixed(ask) == /\ ask.repo
              /\ ask.dataset # NoName \/ ask.pin # NoName \/ ask.definition

\* A supplied definition takes no dataset's name: the label is refused, and
\* the name inside the pin is not used.
Label(ask) == CASE ask.definition -> NoName
                [] ask.dataset # NoName -> ask.dataset
                [] OTHER -> ask.pin

Accepted(ask) == /\ ~Mixed(ask)
                 /\ ~(ask.definition /\ ask.dataset # NoName)
                 /\ ask.repo \/ ask.definition \/ Label(ask) # NoName
                 /\ ask.pin \in {NoName, Label(ask)} \/ ask.definition

Basis(ask) == CASE ask.repo -> "repository"
                [] ask.definition -> "definition"
                [] OTHER -> "dataset"

Members(r) == CASE r.basis = "dataset" -> Releases[r.label]
                [] r.basis = "definition" -> Repos
                [] OTHER -> {P}

(***************************************************************************)
(* The policy                                                              *)
(***************************************************************************)
HoldsScope(scope) == policy # Broken /\ scope \in policy

\* The entry check: a dataset by its own grant, a definition member by
\* member, a repository by its rule.
Authorized(r) == CASE r.kind = "grant" -> policy # Broken
                   [] r.basis = "dataset" -> HoldsScope(r.label)
                   [] OTHER -> \A m \in Members(r) : HoldsScope(m)

AllowedRepoReadOnce(r, m) == r.seen # {}   \* a mutant: what was let in stays in

\* The check of one object, made again for every result delivered.
AllowedRepoRead(r, m) == \/ r.label # NoName /\ HoldsScope(r.label)
                         \/ HoldsScope(m)

RequireComplete(r) == \A m \in Members(r) : AllowedRepoRead(r, m)

(***************************************************************************)
(* Slots and the invocation lock                                           *)
(***************************************************************************)
NoRequest == [pc |-> "idle", kind |-> "read", by |-> Nobody, basis |-> "repository", label |-> NoName,
              command |-> NoName, at |-> [m \in Repos |-> Unpinned], left |-> {}, items |-> {},
              line |-> Blank, seen |-> {}, early |-> {}, change |-> "none", answer |-> "none", noted |-> FALSE]

Running(s) == req[s].pc \notin {"idle", "done"}

TypedInvocationReadOnly(kind) == kind = "read"
OnView(kind) == mode = "deployment" /\ TypedInvocationReadOnly(kind)
Private(s) == OnView(req[s].kind)

\* Reads on a view share the lock, anything else has it alone.
MayLock(s, kind) == \A t \in Slots \ {s} : Running(t) => OnView(kind) /\ Private(t)

RequestInit == /\ mode \in {"deployment", "fixture"}
               /\ head = [m \in Repos |-> 0]
               /\ policy = Datasets \cup Repos
               /\ stamp = Blank
               /\ req = [s \in Slots |-> NoRequest]
               /\ ledger = {} /\ vetted = {} /\ posts = [c \in WriteIds |-> 0]
               /\ asked = 0 /\ disturbed = 0

World == <<mode, head, policy, ledger, vetted, posts, asked, disturbed>>
Advance(s, from, r) == req[s].pc = from /\ req' = [req EXCEPT ![s] = r]

Shaped(k, c, ask) ==
    [NoRequest EXCEPT !.pc = "locked", !.kind = k, !.by = c, !.basis = Basis(ask), !.label = Label(ask)]
Other(k, c, id) == [NoRequest EXCEPT !.pc = "locked", !.kind = k, !.by = c, !.command = id]

\* A request is shaped and takes the invocation lock; who waits for the lock
\* has done nothing yet.
Arrive(s) ==
    /\ ~Running(s) /\ \A t \in Slots : t < s => Running(t)
    /\ asked < MaxRequests /\ asked' = asked + 1
    /\ \E c \in Principals, k \in RequestKinds :
         /\ MayLock(s, k)
         /\ \/ /\ k \in {"read", "walk"}
               /\ \E ask \in Ask : /\ Accepted(ask) /\ (k = "walk" => ask.repo)
                                  /\ req' = [req EXCEPT ![s] = Shaped(k, c, ask)]
            \/ k = "write" /\ \E id \in WriteIds : req' = [req EXCEPT ![s] = Other(k, c, id)]
            \/ k = "grant" /\ req' = [req EXCEPT ![s] = Other(k, c, NoName)]
    /\ UNCHANGED <<mode, head, policy, stamp, ledger, vetted, posts, disturbed>>

Refused(r) == [r EXCEPT !.pc = "sent", !.answer = "refused", !.items = {}]

\* Deployment reads get a journal of their own on a private view; every other
\* governed operation wraps the journal of the shared Home.  Operations of
\* stage home (grants) run unstamped and without hooks.
Authorize(s) ==
    LET r == req[s]
        next == CASE r.kind = "write" -> "vet" [] r.kind = "grant" -> "run" [] OTHER -> "open"
        passed == [r EXCEPT !.pc = next, !.seen = {policy},
                            !.line = IF Private(s) THEN Own(r.by) ELSE @]
    IN /\ Advance(s, "locked", IF Authorized(r) THEN passed ELSE Refused(r))
       /\ stamp' = IF Authorized(r) /\ ~Private(s) /\ r.kind # "grant"
                   THEN WithContext(stamp, Own(r.by)) ELSE stamp
       /\ UNCHANGED World

(***************************************************************************)
(* Reads                                                                   *)
(***************************************************************************)
\* The basis is fixed once: a release to the commits it names, a definition or
\* a ref to the tips of this instant; nothing reads a ref later.
PinCommit(r, m) == IF r.basis = "dataset" THEN ReleaseCommit ELSE head[m]

Open(s) ==
    LET r == req[s]
        pinned == [r EXCEPT !.pc = "fetch", !.left = Members(r), !.early = {policy},
                            !.at = [m \in Repos |-> IF m \in Members(r) THEN PinCommit(r, m)
                                                                        ELSE Unpinned]]
    IN /\ Advance(s, "open", IF r.basis = "repository" \/ RequireComplete(r) THEN pinned ELSE Refused(r))
       /\ UNCHANGED <<World, stamp>>

\* The Reader notes the read in its journal.  `seen` starts again here for the
\* bases whose results are checked one by one.
Fetch(s) ==
    LET r == req[s] IN
    /\ Advance(s, "fetch", [r EXCEPT !.pc = "deliver",
                                     !.line = IF Private(s) THEN @ ELSE stamp,
                                     !.seen = IF r.basis = "repository" THEN @ ELSE {policy}])
    /\ UNCHANGED <<World, stamp>>

Deliver(s) ==
    LET r == req[s] IN
    /\ \E m \in r.left :
         Advance(s, "deliver",
              [r EXCEPT !.left = @ \ {m},
                        !.pc = IF r.left = {m} THEN "sent" ELSE @,
                        !.answer = "given",
                        !.items = IF r.basis = "repository" \/ AllowedRepoRead(r, m)
                                  THEN @ \cup {<<m, r.at[m]>>} ELSE @])
    /\ UNCHANGED <<World, stamp>>

(***************************************************************************)
(* Writes and grants                                                       *)
(***************************************************************************)
Replayed(r) == r.command \in ledger

\* Hooks are skipped for a command already in the ledger; a pre hook refuses
\* before anything is done.
Vet(s) ==
    LET r == req[s] IN
    /\ \E pass \in IF Replayed(r) THEN {TRUE} ELSE BOOLEAN :
         /\ Advance(s, "vet", IF pass THEN [r EXCEPT !.pc = "run"] ELSE Refused(r))
         /\ vetted' = IF pass /\ ~Replayed(r) THEN vetted \cup {r.command} ELSE vetted
    /\ UNCHANGED <<mode, head, policy, stamp, ledger, posts, asked, disturbed>>

Commit(s) ==
    LET r == req[s] IN
    /\ r.kind = "write"
    /\ \E done \in IF Replayed(r) THEN {"replay"} ELSE {"publish", "reject"} :
         /\ Advance(s, "run", CASE done = "publish" -> [r EXCEPT !.pc = "post", !.change = done, !.line = stamp]
                                [] done = "replay" -> [r EXCEPT !.pc = "sent", !.answer = "given", !.line = stamp]
                                [] OTHER -> [Refused(r) EXCEPT !.line = stamp])
         /\ ledger' = IF done = "publish" THEN ledger \cup {r.command} ELSE ledger
         /\ head' = IF done = "publish" THEN [head EXCEPT ![P] = @ + 1] ELSE head
    /\ UNCHANGED <<mode, policy, stamp, vetted, posts, asked, disturbed>>

Post(s) == /\ Advance(s, "post", [req[s] EXCEPT !.pc = "sent", !.answer = "given"])
           /\ posts' = [posts EXCEPT ![req[s].command] = @ + 1]
           /\ UNCHANGED <<mode, head, policy, stamp, ledger, vetted, asked, disturbed>>

Disturb == disturbed < MaxDisturbances /\ disturbed' = disturbed + 1

Rewrite(scope) == /\ Disturb
                  /\ policy' = IF policy = Broken THEN {}
                               ELSE IF scope \in policy THEN policy \ {scope} ELSE policy \cup {scope}

Grant(s) == /\ req[s].kind = "grant"
            /\ \/ \E scope \in Repos \cup Datasets :
                    Rewrite(scope) /\ Advance(s, "run", [req[s] EXCEPT !.pc = "sent", !.answer = "given"])
               \/ Advance(s, "run", Refused(req[s])) /\ UNCHANGED <<policy, disturbed>>
            /\ UNCHANGED <<mode, head, stamp, ledger, vetted, posts, asked>>

\* The evidence of the request is written before its answer leaves; when it
\* cannot be written the caller gets the failure instead of the result.
EvidenceChain(s) ==
    LET r == req[s] IN
    /\ \/ Advance(s, "sent", [r EXCEPT !.pc = "done", !.noted = TRUE])
       \/ Advance(s, "sent", [r EXCEPT !.pc = "done", !.answer = "refused", !.items = {}])
    /\ UNCHANGED <<World, stamp>>

(***************************************************************************)
(* The rest of the world                                                   *)
(***************************************************************************)
Witness(now) == [s \in Slots |-> IF req[s].pc \in {"open", "fetch", "deliver"}
                                 THEN [req[s] EXCEPT !.seen = @ \cup {now}, !.early = @ \cup {now}]
                                 ELSE req[s]]

Push(m) == /\ Disturb
           /\ head' = [head EXCEPT ![m] = @ + 1]
           /\ UNCHANGED <<mode, policy, stamp, req, ledger, vetted, posts, asked>>

Edit == /\ \/ \E scope \in Repos \cup Datasets : Rewrite(scope)
           \/ Disturb /\ policy # Broken /\ policy' = Broken
        /\ req' = Witness(policy')
        /\ UNCHANGED <<mode, head, stamp, ledger, vetted, posts, asked>>

ProcessCrash == /\ Disturb
                /\ req' = [s \in Slots |-> NoRequest]
                /\ stamp' = Blank
                /\ UNCHANGED <<mode, head, policy, ledger, vetted, posts, asked>>

RequestNext == \/ \E s \in Slots : \/ Arrive(s) \/ Authorize(s)
                                   \/ Open(s) \/ Fetch(s) \/ Deliver(s)
                                   \/ Vet(s) \/ Commit(s) \/ Post(s) \/ Grant(s) \/ EvidenceChain(s)
               \/ \E m \in Repos : Push(m)
               \/ Edit \/ ProcessCrash

RequestSpec == RequestInit /\ [][RequestNext]_requestVars

(***************************************************************************)
(* What an answer is worth                                                 *)
(***************************************************************************)
Answers == {req[s] : s \in {t \in Slots : req[t].pc = "done"}}
Reads == {r \in Answers : r.kind \in {"read", "walk"} /\ r.answer = "given"}
Permits(known, r, m) == known # Broken /\ (r.label \in known \/ m \in known)

\* Everything in one answer is of the commits the request was fixed
\* to, however the tips moved; a release answers from its own commits.
OneBasis == \A r \in Reads : \A item \in r.items :
    /\ item[2] = r.at[item[1]]
    /\ r.basis = "dataset" => item[2] = ReleaseCommit

\* A permission withdrawn before the content was read delivers nothing, though
\* the request had been let in; a supplied definition lives of its members'
\* rules alone.
RevokedStaysOut == \A r \in Reads : \A item \in r.items :
    \E known \in r.seen : Permits(known, r, item[1])
NoBorrowedGrant == \A r \in Reads : r.basis = "definition" =>
    \A item \in r.items : \E known \in r.seen : known # Broken /\ item[1] \in known

\* An exact read leaves a member out only when the policy changed under it.
NothingMissing == \A r \in Reads :
    {item[1] : item \in r.items} = Members(r) \/ Cardinality(r.early) > 1

\* A journal line names the caller of its own request; on a private view it
\* takes nothing from any other request.
OwnLines == \A r \in Answers : r.line # Blank =>
    /\ r.line.who = r.by
    /\ TypedInvocationReadOnly(r.kind) /\ mode = "deployment" => r.line = Own(r.by)

\* What was published had passed its pre hooks, its post event was handed over
\* at most once, and a request whose refusal was recorded changed nothing.
HooksAround ==
    /\ ledger \subseteq vetted
    /\ \A c \in WriteIds : posts[c] <= IF c \in ledger THEN 1 ELSE 0
    /\ \A r \in Answers : r.answer = "refused" /\ r.noted => r.change = "none"

\* No result leaves without its evidence.
Evidenced == \A r \in Answers : r.answer = "given" => r.noted

\* The requests of one process do not get into each other, and an answer is
\* what its caller may have at one basis.
AnswersStand == /\ OneBasis /\ RevokedStaysOut /\ NoBorrowedGrant /\ NothingMissing
                /\ OwnLines /\ HooksAround /\ Evidenced
=============================================================================
