--------------------------- MODULE RequestProofs ---------------------------
(***************************************************************************)
(* What a caller is told is so: typed requests through one process,        *)
(* directories committed by clients that may lose the answer, and reads of *)
(* a dataset release.  For every number of requests, clients, principals,  *)
(* commands, disturbances, members and trees.                              *)
(***************************************************************************)
EXTENDS Requests, DesiredCommit, Serving, FiniteSetTheorems, TLAPS

(***************************************************************************)
(* Requests of one process: what each has seen, taken and written down,    *)
(* and that the lock keeps the others out of it.                           *)
(***************************************************************************)
Policy == (SUBSET (Repos \cup Datasets)) \cup {Broken}

Item == Repos \X (Nat \cup {Unpinned})

Request == [pc : {"idle", "locked", "open", "fetch", "deliver", "vet", "run", "post", "sent", "done"},
            kind : RequestKinds, by : Principals \cup {Nobody}, basis : {"repository", "definition", "dataset"},
            label : Datasets \cup {NoName}, command : WriteIds \cup {NoName},
            at : [Repos -> Nat \cup {Unpinned}], left : SUBSET Repos, items : SUBSET Item, line : Stamp,
            seen : SUBSET Policy, early : SUBSET Policy, change : {"none", "publish"},
            answer : {"none", "given", "refused"}, noted : BOOLEAN]

ProcessTypeOK ==
    /\ mode \in {"deployment", "fixture"} /\ head \in [Repos -> Nat] /\ policy \in Policy /\ stamp \in Stamp
    /\ req \in [Slots -> Request] /\ posts \in [WriteIds -> Nat]

\* Only reads on a view run beside each other.
Exclusive == \A s, t \in Slots : s # t /\ Running(s) /\ Running(t) => Private(s) /\ Private(t)

\* What the request is: the steps of its kind and the basis it names.
Shape(r) ==
    /\ r.pc # "idle" => r.by \in Principals
    /\ r.pc \in {"open", "fetch", "deliver"} => r.kind \in {"read", "walk"}
    /\ r.pc \in {"vet", "post"} => r.kind = "write"
    /\ r.pc = "run" => r.kind \in {"write", "grant"}
    /\ r.kind = "write" => r.command \in WriteIds
    /\ r.basis # "dataset" => r.label = NoName
    /\ r.basis = "dataset" => r.label \in Datasets

\* What one policy lets it read.
Lets(known, r, m) == known # Broken /\ ((r.label # NoName /\ r.label \in known) \/ m \in known)

\* Which policies it has seen: the one now, and one that let it in.
Watching(r) ==
    /\ IsFiniteSet(r.early)
    /\ r.pc \in {"open", "fetch", "deliver"} =>
         /\ policy \in r.seen
         /\ r.basis = "repository" => \E known \in r.seen : Permits(known, r, P)
    /\ r.pc \in {"fetch", "deliver"} =>
         /\ policy \in r.early
         /\ r.basis # "repository" => \E known \in r.early : \A m \in Members(r) : Lets(known, r, m)

Turned(r) == \E one, other \in r.early : one # other

Taken(r) == {item[1] : item \in r.items}

\* What it has taken: members of its basis, as fixed, each with a policy that
\* permitted it; what is neither taken nor left was withdrawn.
Gathered(r) ==
    /\ r.pc \in {"idle", "locked", "open", "fetch"} => r.items = {}
    /\ r.pc = "fetch" => r.left = Members(r)
    /\ r.pc \in {"fetch", "deliver"} =>
         /\ r.left \subseteq Members(r)
         /\ r.basis = "dataset" => \A m \in Members(r) : r.at[m] = ReleaseCommit
    /\ \A item \in r.items :
         /\ item[1] \in Members(r) /\ item[2] = r.at[item[1]]
         /\ r.basis = "dataset" => item[2] = ReleaseCommit
         /\ \E known \in r.seen : /\ Permits(known, r, item[1])
                                  /\ r.basis = "definition" => item[1] \in known
    /\ r.pc = "deliver" => Taken(r) \cup r.left = Members(r) \/ Turned(r)
    /\ r.pc \in {"sent", "done"} /\ r.kind \in {"read", "walk"} /\ r.answer = "given" =>
         Taken(r) = Members(r) \/ Turned(r)

\* Whom its journal line names, and what the shared journal would write.
Signed(r) ==
    /\ r.line # Blank =>
         /\ r.line.who = r.by
         /\ TypedInvocationReadOnly(r.kind) /\ mode = "deployment" => r.line = Own(r.by)
    /\ r.pc \in {"open", "fetch", "vet", "run", "post"} /\ ~OnView(r.kind) /\ r.kind # "grant" =>
         stamp.who = r.by

\* What it was answered, and what it changed.
Outcome(r) ==
    /\ r.answer = "given" => r.pc \in {"deliver", "sent", "done"}
    /\ r.pc # "done" => ~r.noted
    /\ r.change # "none" => r.pc \in {"post", "sent", "done"}
    /\ r.answer = "refused" /\ (r.pc = "sent" \/ r.noted) => r.change = "none"
    /\ r.pc = "done" /\ r.answer = "given" => r.noted
    /\ r.pc = "run" /\ r.kind = "write" => r.command \in vetted
    /\ r.pc = "post" => r.command \in ledger /\ posts[r.command] = 0

Sound(r) == Shape(r) /\ Watching(r) /\ Gathered(r) /\ Signed(r) /\ Outcome(r)

Published == /\ ledger \subseteq vetted
             /\ \A c \in WriteIds : posts[c] <= IF c \in ledger THEN 1 ELSE 0

RInv == /\ ProcessTypeOK /\ Exclusive /\ Published
        /\ \A s \in Slots : Sound(req[s])

---------------------------------------------------------------------------
\* The members of a basis.
LEMMA MembersOf ==
    ASSUME NEW r \in Request, Shape(r)
    PROVE  /\ Members(r) \subseteq Repos
           /\ r.basis = "repository" => Members(r) = {P}
           /\ r.basis = "definition" => Members(r) = Repos
<1>1. r.basis \in {"repository", "definition", "dataset"}
    BY DEF Request
<1>2. /\ r.basis = "repository" => Members(r) = {P}
      /\ r.basis = "definition" => Members(r) = Repos
      /\ r.basis = "dataset" => Members(r) = Releases[r.label]
    BY DEF Members
<1>3. r.basis = "dataset" => Releases[r.label] \subseteq Repos
    BY DEF Shape, Releases, Repos
<1> QED BY <1>1, <1>2, <1>3 DEF Repos

\* A request stays sound while the rest moves, as long as what it watches moves
\* only when it is not running.
LEMMA RemainsSound ==
    ASSUME NEW r \in Request, Sound(r), mode' = mode, ledger \subseteq ledger', vetted \subseteq vetted',
           \/ policy' = policy /\ stamp' = stamp /\ posts' = posts
           \/ r.pc \in {"idle", "done"}
    PROVE  Sound(r)'
<1>1. CASE policy' = policy /\ stamp' = stamp /\ posts' = posts
  <2>1. Watching(r)' /\ Shape(r)' /\ Gathered(r)'
      BY <1>1 DEF Sound, Watching, Shape, Gathered
  <2>2. Signed(r)' /\ Outcome(r)'
      BY <1>1 DEF Sound, Signed, Outcome, OnView
  <2> QED BY <2>1, <2>2 DEF Sound
<1>2. CASE r.pc \in {"idle", "done"}
  <2>1. Watching(r)' /\ Shape(r)' /\ Gathered(r)'
      BY <1>2 DEF Sound, Watching, Shape, Gathered
  <2>2. Signed(r)' /\ Outcome(r)'
      BY <1>2 DEF Sound, Signed, Outcome, OnView
  <2> QED BY <2>1, <2>2 DEF Sound
<1> QED BY <1>1, <1>2

\* One request moves, and leaves the others sound.
LEMMA OneMoves ==
    ASSUME RInv, NEW s \in Slots, NEW r \in Request, req' = [req EXCEPT ![s] = r],
           mode' = mode, head' \in [Repos -> Nat], policy' \in Policy, stamp' \in Stamp,
           posts' \in [WriteIds -> Nat], Published', ledger \subseteq ledger', vetted \subseteq vetted',
           \/ policy' = policy /\ stamp' = stamp /\ posts' = posts
           \/ \A t \in Slots \ {s} : ~Running(t),
           r.pc \in {"idle", "done"}
             \/ \A t \in Slots \ {s} : Running(t) => Private(t) /\ OnView(r.kind),
           Sound(r)'
    PROVE  RInv'
<1>1. req \in [Slots -> Request] /\ mode \in {"deployment", "fixture"} /\ Exclusive
      /\ \A t \in Slots : Sound(req[t])
    BY DEF RInv, ProcessTypeOK
<1>2. ProcessTypeOK'
    BY <1>1 DEF ProcessTypeOK
<1>3. req'[s] = r /\ \A t \in Slots \ {s} : req'[t] = req[t]
    BY <1>1
<1>4. ASSUME NEW t \in Slots PROVE Sound(req[t])'
  <2>1. CASE t = s
      BY <1>3, <2>1
  <2>2. CASE t # s
    <3>1. PICK o \in Request : o = req[t] /\ req'[t] = o
        BY <1>1, <1>3, <2>2
    <3>2. (policy' = policy /\ stamp' = stamp /\ posts' = posts) \/ o.pc \in {"idle", "done"}
        BY <2>2, <3>1 DEF Running
    <3>3. Sound(o)'
        BY <1>1, <3>1, <3>2, RemainsSound
    <3> QED BY <3>1, <3>3
  <2> QED BY <2>1, <2>2
<1>5. \A t \in Slots \ {s} : Running(t)' = Running(t) /\ Private(t)' = Private(t)
    BY <1>3 DEF Running, Private, OnView
<1>6. Running(s)' = (r.pc \notin {"idle", "done"}) /\ Private(s)' = OnView(r.kind)
    BY <1>3 DEF Running, Private, OnView
<1>7. Exclusive'
    BY <1>1, <1>5, <1>6 DEF Exclusive
<1> QED BY <1>2, <1>4, <1>7 DEF RInv

\* A running request goes on: what the others depend on changes only when it
\* has the lock alone.
LEMMA RunningMoves ==
    ASSUME RInv, NEW s \in Slots, NEW r \in Request, req' = [req EXCEPT ![s] = r],
           Running(s), r.kind = req[s].kind,
           mode' = mode, head' \in [Repos -> Nat], policy' \in Policy, stamp' \in Stamp,
           posts' \in [WriteIds -> Nat], Published', ledger \subseteq ledger', vetted \subseteq vetted',
           (policy' = policy /\ stamp' = stamp /\ posts' = posts) \/ ~Private(s),
           Sound(r)'
    PROVE  RInv'
<1>1. \A t \in Slots \ {s} : Running(t) => Private(t) /\ Private(s)
    BY DEF RInv, Exclusive
<1>2. Private(s) => OnView(r.kind)
    BY DEF Private
<1> QED BY <1>1, <1>2, OneMoves

\* The same, when nothing but the request changes.
LEMMA RequestMoves ==
    ASSUME RInv, NEW s \in Slots, NEW r \in Request, req' = [req EXCEPT ![s] = r],
           Running(s), r.kind = req[s].kind, UNCHANGED <<World, stamp>>, Sound(r)
    PROVE  RInv'
<1>1. /\ mode' = mode /\ head' = head /\ policy' = policy /\ stamp' = stamp /\ posts' = posts
      /\ ledger' = ledger /\ vetted' = vetted
    BY DEF World
<1>2. ProcessTypeOK /\ Published
    BY DEF RInv
<1>3. /\ head' \in [Repos -> Nat] /\ policy' \in Policy /\ stamp' \in Stamp /\ posts' \in [WriteIds -> Nat]
      /\ ledger \subseteq ledger' /\ vetted \subseteq vetted'
    BY <1>1, <1>2 DEF ProcessTypeOK
<1>4. Published'
    BY <1>1, <1>2 DEF Published
<1>5. Sound(r)'
    BY <1>1, RemainsSound
<1> QED BY <1>1, <1>3, <1>4, <1>5, RunningMoves

\* What is known of the request in a slot.
LEMMA InSlot ==
    ASSUME RInv, NEW s \in Slots
    PROVE  /\ req[s] \in Request /\ Sound(req[s])
           /\ policy \in Policy /\ stamp \in Stamp /\ mode \in {"deployment", "fixture"}
BY DEF RInv, ProcessTypeOK

LEMMA NoRequestTyped ==
    /\ NoRequest \in Request /\ NoRequest.items = {} /\ NoRequest.line = Blank /\ NoRequest.early = {}
    /\ NoRequest.change = "none" /\ NoRequest.answer = "none" /\ NoRequest.noted = FALSE
<1>1. /\ Blank \in Stamp /\ "read" \in RequestKinds /\ Nobody \in Principals \cup {Nobody}
      /\ [m \in Repos |-> Unpinned] \in [Repos -> Nat \cup {Unpinned}]
    BY DEF Blank, Stamp, RequestKinds
<1>2. PICK at \in [Repos -> Nat \cup {Unpinned}], line \in Stamp, none \in Principals \cup {Nobody} :
         at = [m \in Repos |-> Unpinned] /\ line = Blank /\ none = Nobody
    BY <1>1
<1>3. NoRequest = [pc |-> "idle", kind |-> "read", by |-> none, basis |-> "repository", label |-> NoName,
                   command |-> NoName, at |-> at, left |-> {}, items |-> {}, line |-> line, seen |-> {},
                   early |-> {}, change |-> "none", answer |-> "none", noted |-> FALSE]
    BY <1>2 DEF NoRequest
<1> QED BY <1>1, <1>2, <1>3 DEF Request

LEMMA RequestStart == RequestInit => RInv
<1> SUFFICES ASSUME RequestInit PROVE RInv
    OBVIOUS
<1>1. Blank \in Stamp /\ policy \in Policy /\ head \in [Repos -> Nat] /\ posts \in [WriteIds -> Nat]
    BY DEF RequestInit, Blank, Stamp, Policy
<1>2. NoRequest \in Request
    BY NoRequestTyped
<1>3. Sound(NoRequest)
  <2>1. IsFiniteSet({})
      BY FS_EmptySet
  <2>2. Shape(NoRequest) /\ Watching(NoRequest)
      BY <2>1 DEF NoRequest, Shape, Watching
  <2>3. Gathered(NoRequest) /\ Signed(NoRequest) /\ Outcome(NoRequest)
      BY DEF NoRequest, Gathered, Signed, Outcome
  <2> QED BY <2>2, <2>3 DEF Sound
<1>4. req = [s \in Slots |-> NoRequest] /\ stamp = Blank /\ mode \in {"deployment", "fixture"}
      /\ ledger = {} /\ posts = [c \in WriteIds |-> 0]
    BY DEF RequestInit
<1>5. ProcessTypeOK
    BY <1>1, <1>2, <1>4 DEF ProcessTypeOK
<1>6. Exclusive
    BY <1>4 DEF Exclusive, Running, NoRequest
<1>7. Published
    BY <1>4 DEF Published
<1> QED BY <1>3, <1>4, <1>5, <1>6, <1>7 DEF RInv

\* A request is shaped: one basis, and no name that is not its own.
LEMMA ShapedWell ==
    ASSUME NEW posed \in Ask, Accepted(posed)
    PROVE  /\ Basis(posed) \in {"repository", "definition", "dataset"} /\ Label(posed) \in Datasets \cup {NoName}
           /\ Basis(posed) # "dataset" => Label(posed) = NoName
           /\ Basis(posed) = "dataset" => Label(posed) \in Datasets
<1>1. /\ posed.dataset \in Datasets \cup {NoName} /\ posed.pin \in Datasets \cup {NoName}
      /\ posed.definition \in BOOLEAN /\ posed.repo \in BOOLEAN
    BY DEF Ask
<1>2. /\ ~(posed.repo /\ (posed.dataset # NoName \/ posed.pin # NoName \/ posed.definition))
      /\ ~(posed.definition /\ posed.dataset # NoName)
      /\ posed.repo \/ posed.definition \/ Label(posed) # NoName
    BY DEF Accepted, Mixed
<1>3. CASE posed.repo /\ ~posed.definition
  <2>1. Basis(posed) = "repository"
      BY <1>3 DEF Basis
  <2>2. Label(posed) = NoName
      BY <1>2, <1>3 DEF Label
  <2> QED BY <2>1, <2>2
<1>4. CASE ~posed.repo /\ posed.definition
  <2>1. Basis(posed) = "definition"
      BY <1>4 DEF Basis
  <2>2. Label(posed) = NoName
      BY <1>2, <1>4 DEF Label
  <2> QED BY <2>1, <2>2
<1>5. CASE ~posed.repo /\ ~posed.definition
  <2>1. Basis(posed) = "dataset"
      BY <1>5 DEF Basis
  <2>2. Label(posed) # NoName
      BY <1>2, <1>5
  <2>3. Label(posed) = (IF posed.dataset # NoName THEN posed.dataset ELSE posed.pin)
      BY <1>5 DEF Label
  <2> QED BY <1>1, <2>1, <2>2, <2>3
<1> QED BY <1>2, <1>3, <1>4, <1>5

LEMMA ArriveKeeps == ASSUME RInv, NEW s \in Slots, Arrive(s) PROVE RInv'
<1>1. PICK c \in Principals, k \in RequestKinds :
         /\ MayLock(s, k)
         /\ \/ /\ k \in {"read", "walk"}
               /\ \E posed \in Ask : Accepted(posed) /\ req' = [req EXCEPT ![s] = Shaped(k, c, posed)]
            \/ k = "write" /\ \E id \in WriteIds : req' = [req EXCEPT ![s] = Other(k, c, id)]
            \/ k = "grant" /\ req' = [req EXCEPT ![s] = Other(k, c, NoName)]
    BY DEF Arrive
<1>2. PICK r \in Request :
         /\ req' = [req EXCEPT ![s] = r]
         /\ r.pc = "locked" /\ r.kind = k /\ r.by = c /\ r.items = {} /\ r.line = Blank /\ r.early = {}
         /\ r.change = "none" /\ r.answer = "none" /\ r.noted = FALSE
         /\ r.basis # "dataset" => r.label = NoName
         /\ r.basis = "dataset" => r.label \in Datasets
         /\ r.kind = "write" => r.command \in WriteIds
  <2>1. ASSUME NEW posed \in Ask, Accepted(posed), k \in {"read", "walk"}
        PROVE  LET r == Shaped(k, c, posed) IN
               /\ r \in Request
               /\ r.pc = "locked" /\ r.kind = k /\ r.by = c /\ r.items = {} /\ r.line = Blank /\ r.early = {}
               /\ r.change = "none" /\ r.answer = "none" /\ r.noted = FALSE
               /\ r.basis = Basis(posed) /\ r.label = Label(posed)
      BY <2>1, NoRequestTyped, ShapedWell DEF Request, Shaped
  <2>2. ASSUME NEW id \in WriteIds \cup {NoName}
        PROVE  LET r == Other(k, c, id) IN
               /\ r \in Request
               /\ r.pc = "locked" /\ r.kind = k /\ r.by = c /\ r.items = {} /\ r.line = Blank /\ r.early = {}
               /\ r.change = "none" /\ r.answer = "none" /\ r.noted = FALSE
               /\ r.basis = "repository" /\ r.label = NoName /\ r.command = id
      BY <2>2, NoRequestTyped DEF Request, Other, NoRequest
  <2>3. CASE k \in {"read", "walk"}
             /\ \E posed \in Ask : Accepted(posed) /\ req' = [req EXCEPT ![s] = Shaped(k, c, posed)]
      BY <2>1, <2>3, ShapedWell
  <2>4. CASE k = "write" /\ \E id \in WriteIds : req' = [req EXCEPT ![s] = Other(k, c, id)]
    <3>1. PICK id \in WriteIds : req' = [req EXCEPT ![s] = Other(k, c, id)]
        BY <2>4
    <3>2. PICK r : r = Other(k, c, id)
        OBVIOUS
    <3>3. /\ r \in Request /\ r.command \in WriteIds
          /\ r.pc = "locked" /\ r.kind = k /\ r.by = c /\ r.items = {} /\ r.line = Blank /\ r.early = {}
          /\ r.change = "none" /\ r.answer = "none" /\ r.noted = FALSE
          /\ r.basis = "repository" /\ r.label = NoName
        BY <2>2, <3>2
    <3> QED BY <3>1, <3>2, <3>3
  <2>5. CASE k = "grant" /\ req' = [req EXCEPT ![s] = Other(k, c, NoName)]
      BY <2>2, <2>5
  <2> QED BY <1>1, <2>3, <2>4, <2>5
<1>5. Sound(r)
  <2>1. IsFiniteSet({})
      BY FS_EmptySet
  <2>2. Shape(r) /\ Watching(r)
      BY <1>2, <2>1 DEF Shape, Watching
  <2>3. Gathered(r) /\ Signed(r) /\ Outcome(r)
      BY <1>2 DEF Gathered, Signed, Outcome
  <2> QED BY <2>2, <2>3 DEF Sound
<1>6. /\ mode' = mode /\ head' = head /\ policy' = policy /\ stamp' = stamp /\ posts' = posts
      /\ ledger' = ledger /\ vetted' = vetted
    BY DEF Arrive
<1>7. /\ head' \in [Repos -> Nat] /\ policy' \in Policy /\ stamp' \in Stamp /\ posts' \in [WriteIds -> Nat]
      /\ ledger \subseteq ledger' /\ vetted \subseteq vetted' /\ Published'
    BY <1>6 DEF RInv, ProcessTypeOK, Published
<1>8. Sound(r)'
    BY <1>5, <1>6, RemainsSound
<1>9. \A t \in Slots \ {s} : Running(t) => Private(t) /\ OnView(r.kind)
    BY <1>1, <1>2 DEF MayLock
<1> QED BY <1>2, <1>6, <1>7, <1>8, <1>9, OneMoves

\* A refusal keeps nothing and changes nothing.
LEMMA RefusalSound ==
    ASSUME NEW r \in Request, Sound(r), r.pc \in {"locked", "open", "vet", "run"}
    PROVE  /\ Refused(r) \in Request /\ Sound(Refused(r)) /\ Refused(r).kind = r.kind
           /\ Refused(r).pc = "sent" /\ Refused(r).by = r.by
<1> DEFINE q == Refused(r)
<1>1. /\ q \in Request /\ q.pc = "sent" /\ q.answer = "refused" /\ q.items = {} /\ q.kind = r.kind
      /\ q.by = r.by /\ q.basis = r.basis /\ q.label = r.label /\ q.command = r.command /\ q.line = r.line
      /\ q.early = r.early /\ q.change = r.change /\ q.noted = r.noted
    BY DEF Refused, Request
<1> HIDE DEF q
<1>2. Shape(q) /\ Watching(q)
    BY <1>1 DEF Sound, Shape, Watching
<1>3. Gathered(q) /\ Signed(q)
    BY <1>1 DEF Sound, Gathered, Signed
<1>4. Outcome(q)
    BY <1>1 DEF Sound, Outcome
<1> QED BY <1>1, <1>2, <1>3, <1>4 DEF Sound, q

LEMMA RefusalKeeps ==
    ASSUME RInv, NEW s \in Slots, req[s].pc \in {"locked", "open", "vet", "run"},
           req' = [req EXCEPT ![s] = Refused(req[s])], UNCHANGED <<World, stamp>>
    PROVE  RInv'
<1>1. PICK q : q = Refused(req[s])
    OBVIOUS
<1>2. q \in Request /\ Sound(q) /\ q.kind = req[s].kind
    BY <1>1, InSlot, RefusalSound
<1>3. Running(s)
    BY DEF Running
<1> QED BY <1>1, <1>2, <1>3, RequestMoves

\* The stamp of the one who wraps the journal of the shared Home.
LEMMA OwnStamp ==
    ASSUME NEW c \in Principals, NEW old \in Stamp
    PROVE  /\ Own(c) \in Stamp /\ Own(c).who = c
           /\ WithContext(old, Own(c)) \in Stamp /\ WithContext(old, Own(c)).who = c
<1>1. Own(c).who = c /\ Own(c) \in Stamp /\ Own(c).behalf \in Principals \cup {Nobody}
    BY DEF Own, Stamp
<1>2. c # Nobody /\ old.who \in Principals \cup {Nobody} /\ old.behalf \in Principals \cup {Nobody}
    BY SomebodyCalls DEF Stamp
<1> QED BY <1>1, <1>2 DEF WithContext, Stamp

LEMMA AuthorizeKeeps == ASSUME RInv, NEW s \in Slots, Authorize(s) PROVE RInv'
<1>1. req[s].pc = "locked" /\ UNCHANGED World /\ Running(s)
    BY DEF Authorize, Advance, Running
<1>2. /\ mode' = mode /\ head' = head /\ policy' = policy /\ posts' = posts
      /\ ledger' = ledger /\ vetted' = vetted
    BY <1>1 DEF World
<1>3. PICK r \in Request : r = req[s] /\ Sound(r)
    BY InSlot
<1>4. CASE ~Authorized(r)
  <2>1. req' = [req EXCEPT ![s] = Refused(req[s])] /\ stamp' = stamp
      BY <1>3, <1>4 DEF Authorize, Advance
  <2> QED BY <1>1, <2>1, RefusalKeeps
<1>5. CASE Authorized(r)
  <2> DEFINE next == CASE r.kind = "write" -> "vet" [] r.kind = "grant" -> "run" [] OTHER -> "open"
             own == IF OnView(r.kind) THEN Own(r.by) ELSE r.line
  <2>1. /\ req' = [req EXCEPT ![s] = [r EXCEPT !.pc = next, !.seen = {policy}, !.line = own]]
        /\ stamp' = IF ~OnView(r.kind) /\ r.kind # "grant" THEN WithContext(stamp, Own(r.by)) ELSE stamp
      BY <1>3, <1>5 DEF Authorize, Advance, Private
  <2>2. /\ r.kind = "write" => next = "vet"
        /\ r.kind = "grant" => next = "run"
        /\ r.kind \in {"read", "walk"} => next = "open"
        /\ r.kind \in {"read", "walk", "write", "grant"}
      BY DEF Request, RequestKinds
  <2>3. r.pc = "locked" /\ r.by \in Principals /\ stamp \in Stamp
      BY <1>1, <1>3, InSlot DEF Sound, Shape
  <2>4. own \in Stamp /\ (OnView(r.kind) => own = Own(r.by)) /\ (~OnView(r.kind) => own = r.line)
      BY <2>3, OwnStamp DEF Request
  <2>5. stamp' \in Stamp /\ (~OnView(r.kind) /\ r.kind # "grant" => stamp'.who = r.by)
        /\ (OnView(r.kind) => stamp' = stamp)
      BY <2>1, <2>3, OwnStamp
  <2>6. policy \in Policy /\ Own(r.by).who = r.by
      BY <2>3, InSlot, OwnStamp
  <2> HIDE DEF next, own
  <2>7. PICK q : q = [r EXCEPT !.pc = next, !.seen = {policy}, !.line = own]
      OBVIOUS
  <2>8. /\ q \in Request /\ q.pc = next /\ q.seen = {policy} /\ q.line = own /\ q.kind = r.kind
        /\ q.by = r.by /\ q.basis = r.basis /\ q.label = r.label /\ q.command = r.command
        /\ q.items = r.items /\ q.early = r.early /\ q.change = r.change /\ q.answer = r.answer
        /\ q.noted = r.noted
      BY <2>2, <2>4, <2>6, <2>7 DEF Request
  <2>9. Shape(q)'
      BY <1>1, <1>3, <2>2, <2>3, <2>8 DEF Sound, Shape
  <2>10. Watching(q)'
    <3>1. r.basis = "repository" /\ r.kind # "grant" => Permits(policy, q, P)
      <4>1. r.basis = "repository" => Members(r) = {P}
          BY <1>3, MembersOf DEF Sound
      <4>2. r.basis = "repository" /\ r.kind # "grant" => \A m \in Members(r) : HoldsScope(m)
          BY <1>5 DEF Authorized
      <4> QED BY <4>1, <4>2 DEF HoldsScope, Permits
    <3> QED BY <1>2, <1>3, <2>2, <2>8, <3>1 DEF Sound, Watching
  <2>11. Gathered(q)'
      BY <1>2, <1>3, <2>2, <2>3, <2>8 DEF Sound, Gathered
  <2>12. Signed(q)'
    <3>1. q.line # Blank => q.line.who = q.by /\ (OnView(q.kind) => q.line = Own(q.by))
        BY <1>3, <2>4, <2>6, <2>8 DEF Sound, Signed
    <3> QED BY <1>2, <2>2, <2>5, <2>8, <3>1 DEF Signed, OnView
  <2>13. Outcome(q)'
      BY <1>2, <1>3, <2>2, <2>3, <2>8 DEF Sound, Outcome
  <2>14. head' \in [Repos -> Nat] /\ policy' \in Policy /\ posts' \in [WriteIds -> Nat] /\ Published'
      BY <1>2 DEF RInv, ProcessTypeOK, Published
  <2>15. stamp' = stamp \/ ~Private(s)
      BY <1>3, <2>5 DEF Private
  <2> QED BY <1>1, <1>2, <1>3, <2>1, <2>5, <2>7, <2>8, <2>9, <2>10, <2>11, <2>12, <2>13, <2>14, <2>15, RunningMoves
             DEF Sound
<1> QED BY <1>4, <1>5

LEMMA OpenKeeps == ASSUME RInv, NEW s \in Slots, Open(s) PROVE RInv'
<1>1. req[s].pc = "open" /\ UNCHANGED <<World, stamp>> /\ Running(s)
    BY DEF Open, Advance, Running
<1>2. PICK r \in Request : r = req[s] /\ Sound(r)
    BY InSlot
<1>3. CASE ~(r.basis = "repository" \/ RequireComplete(r))
  <2>1. req' = [req EXCEPT ![s] = Refused(req[s])]
      BY <1>2, <1>3 DEF Open, Advance
  <2> QED BY <1>1, <2>1, RefusalKeeps
<1>4. CASE r.basis = "repository" \/ RequireComplete(r)
  <2> DEFINE at == [m \in Repos |-> IF m \in Members(r) THEN PinCommit(r, m) ELSE Unpinned]
  <2>1. req' = [req EXCEPT ![s] = [r EXCEPT !.pc = "fetch", !.left = Members(r), !.early = {policy}, !.at = at]]
      BY <1>2, <1>4 DEF Open, Advance
  <2>2. Members(r) \subseteq Repos /\ policy \in Policy /\ head \in [Repos -> Nat]
      BY <1>2, MembersOf DEF Sound, RInv, ProcessTypeOK
  <2>3. at \in [Repos -> Nat \cup {Unpinned}]
      BY <2>2 DEF PinCommit, ReleaseCommit
  <2>4. r.basis = "dataset" => \A m \in Members(r) : at[m] = ReleaseCommit
      BY <2>2 DEF PinCommit
  <2> HIDE DEF at
  <2>5. PICK q : q = [r EXCEPT !.pc = "fetch", !.left = Members(r), !.early = {policy}, !.at = at]
      OBVIOUS
  <2>6. /\ q \in Request /\ q.pc = "fetch" /\ q.left = Members(r) /\ q.early = {policy} /\ q.at = at
        /\ q.kind = r.kind /\ q.by = r.by /\ q.basis = r.basis /\ q.label = r.label
        /\ q.command = r.command /\ q.items = r.items /\ q.line = r.line /\ q.seen = r.seen
        /\ q.change = r.change /\ q.answer = r.answer /\ q.noted = r.noted
      BY <2>2, <2>3, <2>5 DEF Request
  <2>7. Members(q) = Members(r)
      BY <2>6 DEF Members
  <2>8. Shape(q)
      BY <1>1, <1>2, <2>6 DEF Sound, Shape
  <2>9. Watching(q)
    <3>1. r.basis # "repository" => \A m \in Members(r) : Lets(policy, r, m)
        BY <1>4 DEF RequireComplete, AllowedRepoRead, HoldsScope, Lets
    <3>2. \A m : Lets(policy, q, m) = Lets(policy, r, m) /\ Permits(policy, q, m) = Permits(policy, r, m)
        BY <2>6 DEF Lets, Permits
    <3>3. IsFiniteSet({policy})
        BY FS_Singleton
    <3>4. policy \in r.seen /\ (r.basis = "repository" => \E known \in r.seen : Permits(known, r, P))
        BY <1>1, <1>2 DEF Sound, Watching
    <3>5. r.basis = "repository" => \E known \in q.seen : Permits(known, q, P)
        BY <2>6, <3>4 DEF Permits
    <3> QED BY <2>6, <2>7, <3>1, <3>2, <3>3, <3>4, <3>5 DEF Watching
  <2>10. Gathered(q)
      BY <1>1, <1>2, <2>4, <2>6, <2>7 DEF Sound, Gathered
  <2>11. Signed(q)
      BY <1>1, <1>2, <2>6 DEF Sound, Signed
  <2>12. Outcome(q)
      BY <1>1, <1>2, <2>6 DEF Sound, Outcome
  <2> QED BY <1>1, <1>2, <2>1, <2>5, <2>6, <2>8, <2>9, <2>10, <2>11, <2>12, RequestMoves DEF Sound
<1> QED BY <1>3, <1>4

LEMMA FetchKeeps == ASSUME RInv, NEW s \in Slots, Fetch(s) PROVE RInv'
<1>1. req[s].pc = "fetch" /\ UNCHANGED <<World, stamp>> /\ Running(s)
    BY DEF Fetch, Advance, Running
<1>2. PICK r \in Request : r = req[s] /\ Sound(r)
    BY InSlot
<1> DEFINE line == IF OnView(r.kind) THEN r.line ELSE stamp
           seen == IF r.basis = "repository" THEN r.seen ELSE {policy}
<1>3. req' = [req EXCEPT ![s] = [r EXCEPT !.pc = "deliver", !.line = line, !.seen = seen]]
    BY <1>2 DEF Fetch, Advance, Private
<1>4. line \in Stamp /\ seen \in SUBSET Policy
    BY InSlot DEF Request
<1>5. line # Blank => line.who = r.by /\ (OnView(r.kind) => line = Own(r.by))
    BY <1>1, <1>2 DEF Sound, Signed, Shape, OnView
<1>6. policy \in seen /\ (r.basis = "repository" => seen = r.seen)
    BY <1>1, <1>2 DEF Sound, Watching
<1> HIDE DEF line, seen
<1>7. PICK q : q = [r EXCEPT !.pc = "deliver", !.line = line, !.seen = seen]
    OBVIOUS
<1>8. /\ q \in Request /\ q.pc = "deliver" /\ q.line = line /\ q.seen = seen
      /\ q.kind = r.kind /\ q.by = r.by /\ q.basis = r.basis /\ q.label = r.label /\ q.left = r.left
      /\ q.command = r.command /\ q.items = r.items /\ q.early = r.early /\ q.at = r.at
      /\ q.change = r.change /\ q.answer = r.answer /\ q.noted = r.noted
    BY <1>4, <1>7 DEF Request
<1>9. Members(q) = Members(r)
    BY <1>8 DEF Members
<1>10. Shape(q)
    BY <1>1, <1>2, <1>8 DEF Sound, Shape
<1>11. Watching(q)
    BY <1>1, <1>2, <1>6, <1>8, <1>9 DEF Sound, Watching, Permits, Lets
<1>12. Gathered(q)
  <2>1. q.items = {} /\ q.left = Members(q)
      BY <1>1, <1>2, <1>8, <1>9 DEF Sound, Gathered
  <2>2. Taken(q) = {}
      BY <2>1 DEF Taken
  <2> QED BY <1>1, <1>2, <1>8, <1>9, <2>1, <2>2 DEF Sound, Gathered
<1>13. Signed(q)
    BY <1>5, <1>8 DEF Signed, OnView
<1>14. Outcome(q)
    BY <1>1, <1>2, <1>8 DEF Sound, Outcome
<1> QED BY <1>1, <1>2, <1>3, <1>7, <1>8, <1>10, <1>11, <1>12, <1>13, <1>14, RequestMoves DEF Sound

LEMMA DeliverKeeps == ASSUME RInv, NEW s \in Slots, Deliver(s) PROVE RInv'
<1>1. req[s].pc = "deliver" /\ UNCHANGED <<World, stamp>> /\ Running(s)
    BY DEF Deliver, Advance, Running
<1>2. PICK r \in Request : r = req[s] /\ Sound(r)
    BY InSlot
<1>3. PICK m \in r.left :
         req' = [req EXCEPT ![s] =
                   [r EXCEPT !.left = r.left \ {m}, !.pc = IF r.left = {m} THEN "sent" ELSE r.pc, !.answer = "given",
                             !.items = IF r.basis = "repository" \/ AllowedRepoRead(r, m)
                                       THEN r.items \cup {<<m, r.at[m]>>} ELSE r.items]]
    BY <1>2 DEF Deliver, Advance
<1> DEFINE allowed == r.basis = "repository" \/ AllowedRepoRead(r, m)
           taken == IF allowed THEN r.items \cup {<<m, r.at[m]>>} ELSE r.items
           pc == IF r.left = {m} THEN "sent" ELSE r.pc
           left == r.left \ {m}
<1>4. /\ r.pc = "deliver" /\ r.left \subseteq Members(r) /\ m \in Members(r)
      /\ Members(r) \subseteq Repos /\ m \in Repos
      /\ r.basis = "dataset" => r.at[m] = ReleaseCommit
      /\ r.basis = "repository" => m = P
    BY <1>1, <1>2, MembersOf DEF Sound, Gathered
<1>5. <<m, r.at[m]>> \in Item /\ taken \in SUBSET Item /\ left \in SUBSET Repos /\ pc \in {"sent", "deliver"}
    BY <1>4 DEF Request, Item
<1>6. allowed => \E known \in r.seen : Permits(known, r, m) /\ (r.basis = "definition" => m \in known)
  <2>1. CASE r.basis = "repository"
      BY <1>2, <1>4, <2>1 DEF Sound, Watching
  <2>2. CASE AllowedRepoRead(r, m)
    <3>1. policy \in r.seen /\ (r.basis = "definition" => r.label = NoName)
        BY <1>2, <1>4 DEF Sound, Watching, Shape
    <3>2. Permits(policy, r, m) /\ (r.label = NoName => m \in policy)
        BY <2>2 DEF AllowedRepoRead, HoldsScope, Permits
    <3> QED BY <3>1, <3>2
  <2> QED BY <2>1, <2>2
<1>7. ~allowed => Turned(r)
  <2> SUFFICES ASSUME ~allowed PROVE Turned(r)
      OBVIOUS
  <2>1. PICK known \in r.early : \A o \in Members(r) : Lets(known, r, o)
      BY <1>2, <1>4 DEF Sound, Watching
  <2>2. Lets(known, r, m) /\ ~Lets(policy, r, m) /\ policy \in r.early
      BY <1>2, <1>4, <2>1 DEF Sound, Watching, Lets, AllowedRepoRead, HoldsScope
  <2> QED BY <2>2 DEF Turned
<1>8. /\ \A item \in taken : item \in r.items \/ (allowed /\ item = <<m, r.at[m]>>)
      /\ r.items \subseteq taken /\ (allowed => <<m, r.at[m]>> \in taken)
  <2>1. CASE allowed
      BY <2>1
  <2>2. CASE ~allowed
      BY <2>2
  <2> QED BY <2>1, <2>2
<1>9. left = {} <=> pc = "sent"
    BY <1>4
<1>10. PICK q : q = [r EXCEPT !.left = left, !.pc = pc, !.answer = "given", !.items = taken]
    OBVIOUS
<1>11. req' = [req EXCEPT ![s] = q]
    BY <1>3, <1>10
<1> HIDE DEF taken, pc, allowed
<1>12. /\ q \in Request /\ q.pc = pc /\ q.left = left /\ q.items = taken /\ q.answer = "given"
       /\ q.line = r.line /\ q.seen = r.seen /\ q.at = r.at /\ q.early = r.early
       /\ q.kind = r.kind /\ q.by = r.by /\ q.basis = r.basis /\ q.label = r.label
       /\ q.command = r.command /\ q.change = r.change /\ q.noted = r.noted
    BY <1>5, <1>10 DEF Request
<1>13. Members(q) = Members(r) /\ Turned(q) = Turned(r)
    BY <1>12 DEF Members, Turned
<1>14. Shape(q)
    BY <1>2, <1>4, <1>5, <1>12 DEF Sound, Shape
<1>15. Watching(q)
    BY <1>2, <1>4, <1>5, <1>12, <1>13 DEF Sound, Watching, Permits, Lets
<1>16. Gathered(q)
  <2>1. Taken(q) \cup left = Members(r) \/ Turned(r)
    <3>1. Taken(r) \cup r.left = Members(r) \/ Turned(r)
        BY <1>2, <1>4 DEF Sound, Gathered
    <3>2. allowed => Taken(q) = Taken(r) \cup {m}
        BY <1>8, <1>12 DEF Taken
    <3> QED BY <1>7, <3>1, <3>2
  <2>2. \A item \in taken :
          /\ item[1] \in Members(r) /\ item[2] = r.at[item[1]]
          /\ r.basis = "dataset" => item[2] = ReleaseCommit
          /\ \E known \in r.seen : Permits(known, r, item[1]) /\ (r.basis = "definition" => item[1] \in known)
      BY <1>2, <1>4, <1>6, <1>8 DEF Sound, Gathered
  <2>3. \A known, o : Permits(known, q, o) = Permits(known, r, o)
      BY <1>12 DEF Permits
  <2>4. \A o \in Members(r) : r.basis = "dataset" => r.at[o] = ReleaseCommit
      BY <1>2, <1>4 DEF Sound, Gathered
  <2> QED BY <1>4, <1>5, <1>9, <1>12, <1>13, <2>1, <2>2, <2>3, <2>4 DEF Gathered
<1>17. Signed(q)
    BY <1>2, <1>4, <1>5, <1>12 DEF Sound, Signed
<1>18. Outcome(q)
    BY <1>2, <1>4, <1>5, <1>12 DEF Sound, Outcome
<1> QED BY <1>1, <1>2, <1>11, <1>12, <1>14, <1>15, <1>16, <1>17, <1>18, RequestMoves DEF Sound

LEMMA VetKeeps == ASSUME RInv, NEW s \in Slots, Vet(s) PROVE RInv'
<1>1. /\ req[s].pc = "vet" /\ Running(s) /\ mode' = mode /\ head' = head /\ policy' = policy /\ stamp' = stamp
      /\ ledger' = ledger /\ posts' = posts /\ UNCHANGED <<asked, disturbed>>
    BY DEF Vet, Advance, Running
<1>2. PICK r \in Request : r = req[s] /\ Sound(r)
    BY InSlot
<1>3. CASE req' = [req EXCEPT ![s] = Refused(req[s])] /\ vetted' = vetted
    BY <1>1, <1>3, RefusalKeeps DEF World
<1>4. CASE /\ req' = [req EXCEPT ![s] = [r EXCEPT !.pc = "run"]]
           /\ vetted' = IF ~Replayed(r) THEN vetted \cup {r.command} ELSE vetted
  <2>1. PICK q : q = [r EXCEPT !.pc = "run"]
      OBVIOUS
  <2>2. /\ q \in Request /\ q.pc = "run" /\ q.left = r.left /\ q.items = r.items /\ q.answer = r.answer
        /\ q.line = r.line /\ q.seen = r.seen /\ q.at = r.at /\ q.early = r.early
        /\ q.kind = r.kind /\ q.by = r.by /\ q.basis = r.basis /\ q.label = r.label
        /\ q.command = r.command /\ q.change = r.change /\ q.noted = r.noted
      BY <2>1 DEF Request
  <2>3. Members(q) = Members(r) /\ r.kind = "write" /\ ledger \subseteq vetted
      BY <1>1, <1>2, <2>2 DEF Members, Sound, Shape, RInv, Published
  <2>4. r.command \in vetted' /\ vetted \subseteq vetted' /\ ledger' \subseteq vetted'
      BY <1>1, <1>4, <2>3 DEF Replayed
  <2>5. Shape(q)' /\ Watching(q)'
      BY <1>1, <1>2, <2>2, <2>3 DEF Sound, Shape, Watching
  <2>6. Gathered(q)'
      BY <1>1, <1>2, <2>2, <2>3 DEF Sound, Gathered, Permits
  <2>7. Signed(q)' /\ Outcome(q)'
      BY <1>1, <1>2, <2>2, <2>4 DEF Sound, Signed, Outcome, OnView
  <2>8. /\ head' \in [Repos -> Nat] /\ policy' \in Policy /\ stamp' \in Stamp /\ posts' \in [WriteIds -> Nat]
        /\ Published'
      BY <1>1, <2>4 DEF RInv, ProcessTypeOK, Published
  <2> QED BY <1>1, <1>2, <1>4, <2>1, <2>2, <2>4, <2>5, <2>6, <2>7, <2>8, RunningMoves DEF Sound
<1> QED BY <1>2, <1>3, <1>4 DEF Vet, Advance

LEMMA CommitKeeps == ASSUME RInv, NEW s \in Slots, Commit(s) PROVE RInv'
<1>1. /\ req[s].pc = "run" /\ req[s].kind = "write" /\ Running(s) /\ mode' = mode /\ policy' = policy
      /\ stamp' = stamp /\ vetted' = vetted /\ posts' = posts /\ UNCHANGED <<asked, disturbed>>
    BY DEF Commit, Advance, Running
<1>2. PICK r \in Request : r = req[s] /\ Sound(r)
    BY InSlot
<1>3. /\ r.command \in WriteIds /\ r.command \in vetted /\ ~OnView(r.kind) /\ stamp.who = r.by
      /\ stamp \in Stamp
    BY <1>1, <1>2, InSlot DEF Sound, Shape, Outcome, Signed, OnView, TypedInvocationReadOnly
<1>4. CASE /\ req' = [req EXCEPT ![s] = [r EXCEPT !.pc = "post", !.change = "publish", !.line = stamp]]
           /\ ~Replayed(r) /\ ledger' = ledger \cup {r.command} /\ head' = [head EXCEPT ![P] = head[P] + 1]
  <2>1. PICK q : q = [r EXCEPT !.pc = "post", !.change = "publish", !.line = stamp]
      OBVIOUS
  <2>2. /\ q \in Request /\ q.pc = "post" /\ q.left = r.left /\ q.items = r.items /\ q.answer = r.answer
        /\ q.line = stamp /\ q.seen = r.seen /\ q.at = r.at /\ q.early = r.early
        /\ q.kind = r.kind /\ q.by = r.by /\ q.basis = r.basis /\ q.label = r.label
        /\ q.command = r.command /\ q.change = "publish" /\ q.noted = r.noted
      BY <1>3, <2>1 DEF Request
  <2>3. Members(q) = Members(r) /\ Published /\ posts \in [WriteIds -> Nat] /\ head \in [Repos -> Nat]
      BY <2>2 DEF Members, RInv, ProcessTypeOK
  <2>4. head' \in [Repos -> Nat]
    <3>1. head[P] + 1 \in Nat
        BY <2>3 DEF Repos
    <3> QED BY <1>4, <2>3, <3>1
  <2>5. posts[r.command] = 0
    <3>1. posts[r.command] <= 0 /\ posts[r.command] \in Nat
        BY <1>3, <1>4, <2>3 DEF Published, Replayed
    <3> QED BY <3>1
  <2>6. Published'
    <3>1. ledger' \subseteq vetted'
        BY <1>1, <1>3, <1>4, <2>3 DEF Published
    <3>2. ASSUME NEW c \in WriteIds PROVE posts'[c] <= IF c \in ledger' THEN 1 ELSE 0
      <4>1. posts'[c] = posts[c] /\ posts[c] \in Nat /\ posts[c] <= (IF c \in ledger THEN 1 ELSE 0)
          BY <1>1, <2>3 DEF Published
      <4>2. c \in ledger => c \in ledger'
          BY <1>4
      <4> QED BY <4>1, <4>2
    <3> QED BY <3>1, <3>2 DEF Published
  <2>7. Shape(q)' /\ Watching(q)'
      BY <1>1, <1>2, <2>2, <2>3 DEF Sound, Shape, Watching
  <2>8. Gathered(q)'
      BY <1>1, <1>2, <2>2, <2>3 DEF Sound, Gathered, Permits
  <2>9. Signed(q)' /\ Outcome(q)'
      BY <1>1, <1>2, <1>3, <1>4, <2>2, <2>5 DEF Sound, Signed, Outcome, OnView, TypedInvocationReadOnly
  <2>10. policy' \in Policy /\ stamp' \in Stamp /\ posts' \in [WriteIds -> Nat] /\ ledger \subseteq ledger'
      BY <1>1, <1>4 DEF RInv, ProcessTypeOK
  <2> QED BY <1>1, <1>2, <1>4, <2>1, <2>2, <2>4, <2>6, <2>7, <2>8, <2>9, <2>10, RunningMoves DEF Sound
<1>5. CASE /\ req' = [req EXCEPT ![s] = [r EXCEPT !.pc = "sent", !.answer = "given", !.line = stamp]]
           /\ ledger' = ledger /\ head' = head
  <2>1. PICK q : q = [r EXCEPT !.pc = "sent", !.answer = "given", !.line = stamp]
      OBVIOUS
  <2>2. /\ q \in Request /\ q.pc = "sent" /\ q.left = r.left /\ q.items = r.items /\ q.answer = "given"
        /\ q.line = stamp /\ q.seen = r.seen /\ q.at = r.at /\ q.early = r.early
        /\ q.kind = r.kind /\ q.by = r.by /\ q.basis = r.basis /\ q.label = r.label
        /\ q.command = r.command /\ q.change = r.change /\ q.noted = r.noted
      BY <1>3, <2>1 DEF Request
  <2>3. Members(q) = Members(r)
      BY <2>2 DEF Members
  <2>4. Shape(q) /\ Watching(q)
      BY <1>1, <1>2, <2>2, <2>3 DEF Sound, Shape, Watching
  <2>5. Gathered(q)
      BY <1>1, <1>2, <2>2, <2>3 DEF Sound, Gathered, Permits
  <2>6. Signed(q) /\ Outcome(q)
      BY <1>1, <1>2, <1>3, <2>2 DEF Sound, Signed, Outcome, OnView, TypedInvocationReadOnly
  <2> QED BY <1>1, <1>2, <1>5, <2>1, <2>2, <2>4, <2>5, <2>6, RequestMoves DEF Sound, World
<1>6. CASE /\ req' = [req EXCEPT ![s] = [Refused(r) EXCEPT !.line = stamp]] /\ ledger' = ledger /\ head' = head
  <2>1. PICK o \in Request : o = Refused(r) /\ Sound(o) /\ o.kind = r.kind /\ o.pc = "sent" /\ o.by = r.by
      BY <1>1, <1>2, RefusalSound
  <2>2. PICK q : q = [Refused(r) EXCEPT !.line = stamp] /\ q = [o EXCEPT !.line = stamp]
      BY <2>1
  <2>3. /\ q \in Request /\ q.pc = "sent" /\ q.left = o.left /\ q.items = o.items /\ q.answer = o.answer
        /\ q.line = stamp /\ q.seen = o.seen /\ q.at = o.at /\ q.early = o.early
        /\ q.kind = o.kind /\ q.by = o.by /\ q.basis = o.basis /\ q.label = o.label
        /\ q.command = o.command /\ q.change = o.change /\ q.noted = o.noted
      BY <1>3, <2>1, <2>2 DEF Request
  <2>4. Members(q) = Members(o) /\ Taken(q) = Taken(o) /\ Turned(q) = Turned(o)
      BY <2>3 DEF Members, Taken, Turned
  <2>5. Shape(q) /\ Watching(q)
      BY <2>1, <2>3, <2>4 DEF Sound, Shape, Watching
  <2>6. Gathered(q)
      BY <2>1, <2>3, <2>4 DEF Sound, Gathered, Permits
  <2>7. Signed(q) /\ Outcome(q)
      BY <1>1, <1>2, <1>3, <2>1, <2>3 DEF Sound, Signed, Outcome, OnView, TypedInvocationReadOnly
  <2>8. req' = [req EXCEPT ![s] = q]
      BY <1>6, <2>1, <2>2
  <2>9. Sound(q) /\ q.kind = req[s].kind /\ q \in Request
      BY <1>2, <2>1, <2>3, <2>5, <2>6, <2>7 DEF Sound
  <2>10. UNCHANGED <<World, stamp>>
      BY <1>1, <1>6 DEF World
  <2> QED BY <1>1, <2>8, <2>9, <2>10, RequestMoves
<1> QED BY <1>2, <1>4, <1>5, <1>6 DEF Commit, Advance

LEMMA PostEventKeeps == ASSUME RInv, NEW s \in Slots, Post(s) PROVE RInv'
<1>1. /\ req[s].pc = "post" /\ Running(s) /\ mode' = mode /\ head' = head /\ policy' = policy
      /\ stamp' = stamp /\ vetted' = vetted /\ ledger' = ledger
    BY DEF Post, Advance, Running
<1>2. PICK r \in Request : r = req[s] /\ Sound(r)
    BY InSlot
<1>3. PICK c \in WriteIds : c = r.command /\ r.kind = "write" /\ c \in ledger /\ posts[c] = 0 /\ ~Private(s)
    BY <1>1, <1>2 DEF Sound, Shape, Outcome, Private, OnView, TypedInvocationReadOnly
<1>4. posts \in [WriteIds -> Nat] /\ Published
    BY DEF RInv, ProcessTypeOK
<1>5. posts' = [posts EXCEPT ![c] = 1]
    BY <1>2, <1>3, <1>4 DEF Post
<1>6. posts' \in [WriteIds -> Nat] /\ Published'
  <2>1. posts' \in [WriteIds -> Nat]
      BY <1>4, <1>5
  <2>2. ASSUME NEW d \in WriteIds PROVE posts'[d] <= IF d \in ledger' THEN 1 ELSE 0
    <3>1. CASE d = c
        BY <1>1, <1>3, <1>4, <1>5, <3>1
    <3>2. CASE d # c
        BY <1>1, <1>4, <1>5, <3>2 DEF Published
    <3> QED BY <3>1, <3>2
  <2> QED BY <1>1, <1>4, <2>1, <2>2 DEF Published
<1>7. PICK q : q = [r EXCEPT !.pc = "sent", !.answer = "given"]
    OBVIOUS
<1>8. /\ q \in Request /\ q.pc = "sent" /\ q.left = r.left /\ q.items = r.items /\ q.answer = "given"
      /\ q.line = r.line /\ q.seen = r.seen /\ q.at = r.at /\ q.early = r.early
      /\ q.kind = r.kind /\ q.by = r.by /\ q.basis = r.basis /\ q.label = r.label
      /\ q.command = r.command /\ q.change = r.change /\ q.noted = r.noted
    BY <1>7 DEF Request
<1>9. Members(q) = Members(r)
    BY <1>8 DEF Members
<1>10. Shape(q)' /\ Watching(q)'
    BY <1>1, <1>2, <1>8 DEF Sound, Shape, Watching
<1>11. Gathered(q)'
    BY <1>1, <1>2, <1>3, <1>8, <1>9 DEF Sound, Gathered, Permits
<1>12. Signed(q)' /\ Outcome(q)'
    BY <1>1, <1>2, <1>3, <1>8 DEF Sound, Signed, Outcome, OnView
<1>13. head' \in [Repos -> Nat] /\ policy' \in Policy /\ stamp' \in Stamp
    BY <1>1 DEF RInv, ProcessTypeOK
<1>14. req' = [req EXCEPT ![s] = q]
    BY <1>2, <1>7 DEF Post, Advance
<1> QED BY <1>1, <1>2, <1>3, <1>6, <1>8, <1>10, <1>11, <1>12, <1>13, <1>14, RunningMoves DEF Sound

LEMMA GrantKeeps == ASSUME RInv, NEW s \in Slots, Grant(s) PROVE RInv'
<1>1. /\ req[s].pc = "run" /\ req[s].kind = "grant" /\ Running(s) /\ mode' = mode /\ head' = head
      /\ stamp' = stamp /\ vetted' = vetted /\ ledger' = ledger /\ posts' = posts /\ asked' = asked
    BY DEF Grant, Advance, Running
<1>2. PICK r \in Request : r = req[s] /\ Sound(r)
    BY InSlot
<1>3. CASE req' = [req EXCEPT ![s] = Refused(req[s])] /\ UNCHANGED <<policy, disturbed>>
    BY <1>1, <1>3, RefusalKeeps DEF World
<1>4. CASE /\ \E scope \in Repos \cup Datasets : Rewrite(scope)
           /\ req' = [req EXCEPT ![s] = [r EXCEPT !.pc = "sent", !.answer = "given"]]
  <2>1. policy' \in Policy
    <3>1. PICK scope \in Repos \cup Datasets :
             policy' = IF policy = Broken THEN {}
                       ELSE IF scope \in policy THEN policy \ {scope} ELSE policy \cup {scope}
        BY <1>4 DEF Rewrite
    <3> QED BY <3>1, InSlot DEF Policy
  <2>2. PICK q : q = [r EXCEPT !.pc = "sent", !.answer = "given"]
      OBVIOUS
  <2>3. /\ q \in Request /\ q.pc = "sent" /\ q.left = r.left /\ q.items = r.items /\ q.answer = "given"
        /\ q.line = r.line /\ q.seen = r.seen /\ q.at = r.at /\ q.early = r.early
        /\ q.kind = r.kind /\ q.by = r.by /\ q.basis = r.basis /\ q.label = r.label
        /\ q.command = r.command /\ q.change = r.change /\ q.noted = r.noted
      BY <2>2 DEF Request
  <2>4. Members(q) = Members(r) /\ ~Private(s)
      BY <1>1, <2>3 DEF Members, Private, OnView, TypedInvocationReadOnly
  <2>5. Shape(q)' /\ Watching(q)'
      BY <1>1, <1>2, <2>3 DEF Sound, Shape, Watching
  <2>6. Gathered(q)'
      BY <1>1, <1>2, <2>3, <2>4 DEF Sound, Gathered, Permits
  <2>7. Signed(q)' /\ Outcome(q)'
      BY <1>1, <1>2, <2>3 DEF Sound, Signed, Outcome, OnView
  <2>8. head' \in [Repos -> Nat] /\ stamp' \in Stamp /\ posts' \in [WriteIds -> Nat] /\ Published'
      BY <1>1 DEF RInv, ProcessTypeOK, Published
  <2> QED BY <1>1, <1>2, <1>4, <2>1, <2>2, <2>3, <2>4, <2>5, <2>6, <2>7, <2>8, RunningMoves DEF Sound
<1> QED BY <1>2, <1>3, <1>4 DEF Grant, Advance

LEMMA EvidenceKeeps == ASSUME RInv, NEW s \in Slots, EvidenceChain(s) PROVE RInv'
<1>1. req[s].pc = "sent" /\ Running(s) /\ UNCHANGED <<World, stamp>>
    BY DEF EvidenceChain, Advance, Running
<1>2. PICK r \in Request : r = req[s] /\ Sound(r)
    BY InSlot
<1>3. PICK noted \in BOOLEAN, answer \in {"none", "given", "refused"}, taken \in SUBSET r.items :
         /\ req' = [req EXCEPT ![s] = [r EXCEPT !.pc = "done", !.noted = noted, !.answer = answer, !.items = taken]]
         /\ (noted /\ answer = r.answer /\ taken = r.items) \/ (~noted /\ answer = "refused" /\ taken = {})
  <2>1. CASE req' = [req EXCEPT ![s] = [r EXCEPT !.pc = "done", !.noted = TRUE]]
    <3>1. [r EXCEPT !.pc = "done", !.noted = TRUE] =
          [r EXCEPT !.pc = "done", !.noted = TRUE, !.answer = r.answer, !.items = r.items]
        BY DEF Request
    <3>2. req' = [req EXCEPT ![s] = [r EXCEPT !.pc = "done", !.noted = TRUE, !.answer = r.answer, !.items = r.items]]
        BY <2>1, <3>1
    <3> QED BY <3>2 DEF Request
  <2>2. CASE req' = [req EXCEPT ![s] = [r EXCEPT !.pc = "done", !.answer = "refused", !.items = {}]]
    <3>1. r.noted = FALSE
        BY <1>1, <1>2 DEF Sound, Outcome, Request
    <3>2. [r EXCEPT !.pc = "done", !.answer = "refused", !.items = {}] =
          [r EXCEPT !.pc = "done", !.noted = FALSE, !.answer = "refused", !.items = {}]
        BY <3>1 DEF Request
    <3>3. req' = [req EXCEPT ![s] = [r EXCEPT !.pc = "done", !.noted = FALSE, !.answer = "refused", !.items = {}]]
        BY <2>2, <3>2
    <3> QED BY <3>3 DEF Request
  <2> QED BY <1>2, <2>1, <2>2 DEF EvidenceChain, Advance
<1>4. PICK q : q = [r EXCEPT !.pc = "done", !.noted = noted, !.answer = answer, !.items = taken]
    OBVIOUS
<1>5. /\ q \in Request /\ q.pc = "done" /\ q.left = r.left /\ q.items = taken /\ q.answer = answer
      /\ q.line = r.line /\ q.seen = r.seen /\ q.at = r.at /\ q.early = r.early
      /\ q.kind = r.kind /\ q.by = r.by /\ q.basis = r.basis /\ q.label = r.label
      /\ q.command = r.command /\ q.change = r.change /\ q.noted = noted
    BY <1>4 DEF Request
<1>6. Members(q) = Members(r) /\ Turned(q) = Turned(r) /\ (taken = r.items => Taken(q) = Taken(r))
    BY <1>5 DEF Members, Turned, Taken
<1>7. Shape(q) /\ Watching(q)
    BY <1>1, <1>2, <1>5 DEF Sound, Shape, Watching
<1>8. Gathered(q)
    BY <1>1, <1>2, <1>3, <1>5, <1>6 DEF Sound, Gathered, Permits
<1>9. Signed(q)
    BY <1>1, <1>2, <1>5 DEF Sound, Signed
<1>10. Outcome(q)
    BY <1>1, <1>2, <1>3, <1>5 DEF Sound, Outcome
<1> QED BY <1>1, <1>2, <1>3, <1>4, <1>5, <1>7, <1>8, <1>9, <1>10, RequestMoves DEF Sound

---------------------------------------------------------------------------
\* What pushes, operators and crashes do to the requests in flight.
LEMMA PushKeeps == ASSUME RInv, NEW m \in Repos, Push(m) PROVE RInv'
<1>1. /\ mode' = mode /\ policy' = policy /\ stamp' = stamp /\ req' = req /\ ledger' = ledger
      /\ vetted' = vetted /\ posts' = posts
    BY DEF Push
<1>2. head' \in [Repos -> Nat]
  <2>1. head \in [Repos -> Nat] /\ head[m] + 1 \in Nat
      BY DEF RInv, ProcessTypeOK
  <2> QED BY <2>1 DEF Push
<1>3. ProcessTypeOK' /\ Published' /\ Exclusive'
    BY <1>1, <1>2 DEF RInv, ProcessTypeOK, Published, Exclusive, Running, Private, OnView
<1>4. ASSUME NEW s \in Slots PROVE Sound(req[s])'
  <2>1. PICK r \in Request : r = req[s] /\ Sound(r)
      BY InSlot
  <2>2. Sound(r)'
      BY <1>1, <2>1, RemainsSound
  <2> QED BY <1>1, <2>1, <2>2
<1> QED BY <1>3, <1>4 DEF RInv

\* A request that may still read learns of the new policy.
LEMMA WitnessSound ==
    ASSUME NEW r \in Request, Sound(r), NEW q \in Request, policy' \in Policy,
           mode' = mode, stamp' = stamp, ledger' = ledger, vetted' = vetted, posts' = posts,
           q = IF r.pc \in {"open", "fetch", "deliver"}
               THEN [r EXCEPT !.seen = r.seen \cup {policy'}, !.early = r.early \cup {policy'}] ELSE r
    PROVE  Sound(q)'
<1>1. CASE r.pc \in {"open", "fetch", "deliver"}
  <2>1. PICK now : now = policy'
      OBVIOUS
  <2>2. q = [r EXCEPT !.seen = r.seen \cup {now}, !.early = r.early \cup {now}]
      BY <1>1, <2>1
  <2>3. /\ q.pc = r.pc /\ q.left = r.left /\ q.items = r.items /\ q.answer = r.answer
        /\ q.line = r.line /\ q.seen = r.seen \cup {now} /\ q.at = r.at /\ q.early = r.early \cup {now}
        /\ q.kind = r.kind /\ q.by = r.by /\ q.basis = r.basis /\ q.label = r.label
        /\ q.command = r.command /\ q.change = r.change /\ q.noted = r.noted
      BY <2>2 DEF Request
  <2>4. Members(q) = Members(r) /\ Taken(q) = Taken(r) /\ (Turned(r) => Turned(q))
      BY <2>3 DEF Members, Taken, Turned
  <2>5. IsFiniteSet(q.early)
      BY <2>3, FS_AddElement DEF Sound, Watching
  <2>6. Shape(q)'
      BY <2>3 DEF Sound, Shape
  <2>7. Watching(q)'
    <3>1. \A known, m : Permits(known, q, m) = Permits(known, r, m) /\ Lets(known, q, m) = Lets(known, r, m)
        BY <2>3 DEF Permits, Lets
    <3> QED BY <2>1, <2>3, <2>4, <2>5, <3>1 DEF Sound, Watching
  <2>8. Gathered(q)'
    <3>1. \A known, m : Permits(known, q, m) = Permits(known, r, m)
        BY <2>3 DEF Permits
    <3>2. \A item \in q.items :
            /\ item[1] \in Members(q) /\ item[2] = q.at[item[1]]
            /\ q.basis = "dataset" => item[2] = ReleaseCommit
            /\ \E known \in q.seen : Permits(known, q, item[1]) /\ (q.basis = "definition" => item[1] \in known)
        BY <2>3, <2>4, <3>1 DEF Sound, Gathered
    <3> QED BY <1>1, <2>3, <2>4, <3>2 DEF Sound, Gathered
  <2>9. Signed(q)' /\ Outcome(q)'
      BY <1>1, <2>3 DEF Sound, Signed, Outcome, OnView
  <2> QED BY <2>6, <2>7, <2>8, <2>9 DEF Sound
<1>2. CASE r.pc \notin {"open", "fetch", "deliver"}
  <2>1. q = r
      BY <1>2
  <2>2. Shape(q)' /\ Watching(q)'
      BY <1>2, <2>1 DEF Sound, Shape, Watching
  <2>3. Gathered(q)'
      BY <1>2, <2>1 DEF Sound, Gathered
  <2>4. Signed(q)' /\ Outcome(q)'
      BY <2>1 DEF Sound, Signed, Outcome, OnView
  <2> QED BY <2>2, <2>3, <2>4 DEF Sound
<1> QED BY <1>1, <1>2

LEMMA EditPolicyKeeps == ASSUME RInv, Edit PROVE RInv'
<1>1. /\ mode' = mode /\ head' = head /\ stamp' = stamp /\ ledger' = ledger /\ vetted' = vetted /\ posts' = posts
      /\ req' = Witness(policy')
    BY DEF Edit
<1>2. policy' \in Policy
  <2>1. policy \in Policy
      BY DEF RInv, ProcessTypeOK
  <2>2. ASSUME NEW scope \in Repos \cup Datasets, Rewrite(scope) PROVE policy' \in Policy
    <3>1. policy' = IF policy = Broken THEN {}
                    ELSE IF scope \in policy THEN policy \ {scope} ELSE policy \cup {scope}
        BY <2>2 DEF Rewrite
    <3> QED BY <2>1, <3>1 DEF Policy
  <2>3. CASE policy' = Broken
    <3>1. Broken \in Policy
        BY DEF Policy
    <3> QED BY <2>3, <3>1
  <2> QED BY <2>2, <2>3 DEF Edit
<1>3. req \in [Slots -> Request]
    BY DEF RInv, ProcessTypeOK
<1>4. PICK now \in Policy : now = policy'
    BY <1>2
<1>5. ASSUME NEW s \in Slots
      PROVE  /\ req'[s] \in Request /\ req'[s].pc = req[s].pc /\ req'[s].kind = req[s].kind
             /\ Sound(req[s])'
  <2>1. PICK r \in Request : r = req[s] /\ Sound(r)
      BY InSlot
  <2>2. PICK q : q = IF r.pc \in {"open", "fetch", "deliver"}
                     THEN [r EXCEPT !.seen = r.seen \cup {now}, !.early = r.early \cup {now}] ELSE r
      OBVIOUS
  <2>3. q \in Request /\ q.pc = r.pc /\ q.kind = r.kind
      BY <2>2 DEF Request
  <2>4. req'[s] = q
      BY <1>1, <1>4, <2>1, <2>2 DEF Witness
  <2>5. Sound(q)'
      BY <1>1, <1>2, <1>4, <2>1, <2>2, <2>3, WitnessSound
  <2> QED BY <2>1, <2>3, <2>4, <2>5
<1>6. req' \in [Slots -> Request]
  <2>1. req' = [s \in Slots |-> req'[s]]
      BY <1>1 DEF Witness
  <2> QED BY <1>5, <2>1
<1>7. ProcessTypeOK'
    BY <1>1, <1>2, <1>6 DEF RInv, ProcessTypeOK
<1>8. \A s \in Slots : Running(s)' = Running(s) /\ Private(s)' = Private(s)
    BY <1>1, <1>5 DEF Running, Private, OnView
<1>9. Exclusive' /\ Published'
    BY <1>1, <1>8 DEF RInv, Exclusive, Published
<1> QED BY <1>5, <1>7, <1>9 DEF RInv

LEMMA ProcessCrashKeeps == ASSUME RInv, ProcessCrash PROVE RInv'
<1>1. /\ mode' = mode /\ head' = head /\ stamp' = Blank /\ ledger' = ledger /\ vetted' = vetted /\ posts' = posts
      /\ policy' = policy /\ req' = [s \in Slots |-> NoRequest]
    BY DEF ProcessCrash
<1>2. ProcessTypeOK' /\ Published'
    BY <1>1, NoRequestTyped DEF RInv, ProcessTypeOK, Published, Blank, Stamp
<1>3. Exclusive'
    BY <1>1 DEF Exclusive, Running, NoRequest
<1>4. Sound(NoRequest)'
  <2>1. IsFiniteSet({})
      BY FS_EmptySet
  <2>2. Shape(NoRequest)' /\ Watching(NoRequest)'
      BY <2>1 DEF NoRequest, Shape, Watching
  <2>3. Gathered(NoRequest)' /\ Signed(NoRequest)' /\ Outcome(NoRequest)'
      BY DEF NoRequest, Gathered, Signed, Outcome
  <2> QED BY <2>2, <2>3 DEF Sound
<1>5. \A s \in Slots : Sound(req[s])'
    BY <1>1, <1>4
<1> QED BY <1>2, <1>3, <1>5 DEF RInv

LEMMA RequestPreserved == RInv /\ [RequestNext]_requestVars => RInv'
<1> SUFFICES ASSUME RInv, [RequestNext]_requestVars PROVE RInv'
    OBVIOUS
<1>1. ASSUME NEW s \in Slots, Arrive(s) \/ Authorize(s) \/ Open(s) \/ Fetch(s) \/ Deliver(s) PROVE RInv'
    BY <1>1, ArriveKeeps, AuthorizeKeeps, OpenKeeps, FetchKeeps, DeliverKeeps
<1>2. ASSUME NEW s \in Slots, Vet(s) \/ Commit(s) \/ Post(s) \/ Grant(s) \/ EvidenceChain(s) PROVE RInv'
    BY <1>2, VetKeeps, CommitKeeps, PostEventKeeps, GrantKeeps, EvidenceKeeps
<1>3. CASE UNCHANGED requestVars
  <2>1. /\ mode' = mode /\ head' = head /\ policy' = policy /\ stamp' = stamp /\ req' = req
        /\ ledger' = ledger /\ vetted' = vetted /\ posts' = posts
      BY <1>3 DEF requestVars
  <2>2. ProcessTypeOK' /\ Published' /\ Exclusive'
      BY <2>1 DEF RInv, ProcessTypeOK, Published, Exclusive, Running, Private, OnView
  <2>3. ASSUME NEW s \in Slots PROVE Sound(req[s])'
    <3>1. PICK r \in Request : r = req[s] /\ Sound(r)
        BY InSlot
    <3>2. Sound(r)'
        BY <2>1, <3>1, RemainsSound
    <3> QED BY <2>1, <3>1, <3>2
  <2> QED BY <2>2, <2>3 DEF RInv
<1> QED BY <1>1, <1>2, <1>3, PushKeeps, EditPolicyKeeps, ProcessCrashKeeps DEF RequestNext

\* Two policies in a finite set are more than one.
LEMMA TurnedCounts == ASSUME NEW S, IsFiniteSet(S), NEW one \in S, NEW other \in S, one # other
                      PROVE  Cardinality(S) > 1
<1>1. Cardinality({one, other}) = 2 /\ IsFiniteSet({one, other})
  <2>1. IsFiniteSet({one}) /\ Cardinality({one}) = 1 /\ other \notin {one} /\ {one} \cup {other} = {one, other}
      BY FS_Singleton
  <2>2. IsFiniteSet({one} \cup {other}) /\ Cardinality({one} \cup {other}) = Cardinality({one}) + 1
      BY <2>1, FS_AddElement
  <2> QED BY <2>1, <2>2
<1>2. Cardinality({one, other}) <= Cardinality(S) /\ Cardinality(S) \in Nat
    BY <1>1, FS_Subset, FS_CardinalityType
<1> QED BY <1>1, <1>2

LEMMA AnswersFollow == ASSUME RInv PROVE AnswersStand
<1>1. ASSUME NEW r \in Answers PROVE r \in Request /\ Sound(r) /\ r.pc = "done"
  <2>1. PICK s \in Slots : r = req[s] /\ req[s].pc = "done"
      BY DEF Answers
  <2> QED BY <2>1, InSlot
<1>2. ASSUME NEW r \in Reads
      PROVE  /\ r \in Answers /\ r.kind \in {"read", "walk"} /\ r.answer = "given"
             /\ r \in Request /\ Sound(r) /\ r.pc = "done"
    BY <1>1 DEF Reads
<1>3. OneBasis /\ RevokedStaysOut
    BY <1>2 DEF OneBasis, RevokedStaysOut, Sound, Gathered
<1>4. NoBorrowedGrant
  <2> SUFFICES ASSUME NEW r \in Reads, r.basis = "definition", NEW item \in r.items
               PROVE  \E known \in r.seen : known # Broken /\ item[1] \in known
      BY DEF NoBorrowedGrant
  <2> QED BY <1>2 DEF Sound, Gathered, Permits
<1>5. NothingMissing
  <2> SUFFICES ASSUME NEW r \in Reads
               PROVE  Taken(r) = Members(r) \/ Cardinality(r.early) > 1
      BY DEF NothingMissing, Taken
  <2>1. Taken(r) = Members(r) \/ Turned(r)
      BY <1>2 DEF Sound, Gathered
  <2>2. IsFiniteSet(r.early)
      BY <1>2 DEF Sound, Watching
  <2> QED BY <2>1, <2>2, TurnedCounts DEF Turned
<1>6. OwnLines
    BY <1>1 DEF OwnLines, Sound, Signed
<1>7. HooksAround
    BY <1>1 DEF HooksAround, Sound, Outcome, RInv, Published
<1>8. Evidenced
    BY <1>1 DEF Evidenced, Sound, Outcome
<1> QED BY <1>3, <1>4, <1>5, <1>6, <1>7, <1>8 DEF AnswersStand

\* The requests of one process do not get into each other, and an answer is
\* what its caller may have at one basis: of one set of commits, permitted,
\* complete unless the policy turned under it, signed with its caller's name,
\* with hooks around what it changed and evidence of it
\* (handleTypedInvocation, lockTypedInvocation).
THEOREM RequestAnswersStand == RequestSpec => []AnswersStand
<1>1. RInv => AnswersStand
    BY AnswersFollow
<1> QED BY <1>1, RequestStart, RequestPreserved, PTL DEF RequestSpec

---------------------------------------------------------------------------
(***************************************************************************)
(* Directories committed by clients: what a receipt says was done, and     *)
(* what a client or the server remembers of a run, is about one commit.    *)
(***************************************************************************)
Tree == [Addresses -> Units \cup {Absent}]
Put == [address : Addresses, unit : Units]
Directory == [Files -> Units \cup {Absent}]

Receipt == [commit : Nat \ {0}, base : Nat, ops : SUBSET Put, files : Directory]

Answer == {"none", "applied", "replayed", "stale", "conflict", "looked up", "matches", "recovered", "unknown"}

CommitRun == [pc : {"idle", "ingest", "compare", "lookup", "post", "waiting", "poll", "done"},
              command : CommandIds \cup {"none"}, base : Nat, files : Directory, ops : SUBSET Put,
              answer : Answer, commit : Nat]

Reply == [state : Answer \cup {"sent"}, commit : Nat]

DesiredTypeOK ==
    /\ dir \in Directory /\ history \in Seq(Tree) /\ Len(history) >= 1
    /\ receipt \in [CommandIds -> Receipt \cup {NoReceipt}]
    /\ client \in [Clients -> CommitRun] /\ server \in [Clients -> Reply]

\* What a directory changes in a commit.
Changes(files, tree) == OmitUnchanged(Ingested(files), CurrentDigests(tree))

\* A receipt is of the commit that applied what differed from its base.
ReceiptsExact == \A c \in CommandIds : Known(c) =>
    LET e == receipt[c]
    IN /\ e.base \in 1 .. Len(history) /\ e.commit = e.base + 1 /\ e.commit <= Len(history)
       /\ e.ops = Changes(e.files, history[e.base]) /\ e.ops # {}
       /\ history[e.commit] \in AppliedTo(history[e.base], e.ops)

\* What an answer says of the run it answers.
Verdict(answer, commit, r) ==
    /\ answer \in {"applied", "replayed", "conflict", "looked up", "recovered"} => Known(r.command)
    /\ answer \in {"applied", "replayed", "looked up", "recovered"} => commit = receipt[r.command].commit
    /\ answer \in {"applied", "replayed"} => r.ops = receipt[r.command].ops
    /\ answer = "applied" => r.files = receipt[r.command].files
    /\ answer = "conflict" => r.ops # receipt[r.command].ops
    /\ answer = "stale" => r.base < Len(history)
    /\ answer = "matches" => r.ops = {}

\* A run remembers one comparison, and what it was told of it.
RunExact(r) ==
    /\ r.pc # "idle" => r.command \in CommandIds /\ r.base \in 1 .. Len(history)
    /\ r.pc \in {"lookup", "post", "waiting", "poll", "done"} => r.ops = Changes(r.files, history[r.base])
    /\ r.pc = "lookup" => r.ops = {}
    /\ r.pc \in {"post", "waiting", "poll"} => r.ops # {}
    /\ r.answer # "none" => r.pc = "done"
    /\ Verdict(r.answer, r.commit, r)

\* The server works on a comparison that was made, and its answer is of that run.
Serves(reply, r) ==
    /\ reply.state # "none" => r.pc \in {"waiting", "poll", "done"}
    /\ reply.state = "sent" => r.ops # {}
    /\ Verdict(reply.state, reply.commit, r)

DInv == /\ DesiredTypeOK /\ ReceiptsExact
        /\ \A k \in Clients : RunExact(client[k]) /\ Serves(server[k], client[k])

\* What one commit of a comparison does: it holds the directory, changes something,
\* and nothing but what the directory holds (omitUnchanged, the Writer's PUTs).
LEMMA AppliedHolds ==
    ASSUME NEW old \in Tree, NEW new, NEW entries \in Directory, NEW ops,
           ops = Changes(entries, old), new \in AppliedTo(old, ops)
    PROVE  /\ HoldsValues(Ingested(entries), new)
           /\ HoldsValues(ops, new)
           /\ ops # {} => \E a \in Addresses : new[a] # old[a]
           /\ \A a \in Addresses : new[a] # old[a] =>
                 \E f \in Files : AddressOf(f) = a /\ new[a] = entries[f]
<1> DEFINE Puts(a) == {op.unit : op \in {o \in ops : o.address = a}}
<1>1. /\ new \in Tree
      /\ \A a \in Addresses : IF Puts(a) = {} THEN new[a] = old[a] ELSE new[a] \in Puts(a)
    BY DEF AppliedTo, Tree
<1>2. ASSUME NEW op \in Ingested(entries)
      PROVE  /\ op.address \in Addresses /\ op.unit \in Units
             /\ \E f \in Files : AddressOf(f) = op.address /\ op.unit = entries[f]
  <2>1. PICK f \in Files : entries[f] # Absent /\ op = [address |-> AddressOf(f), unit |-> entries[f]]
      BY DEF Ingested
  <2>2. AddressOf(f) \in Addresses
      BY DEF AddressOf, Addresses
  <2> QED BY <2>1, <2>2 DEF Directory
<1>3. /\ ops \subseteq Ingested(entries)
      /\ \A op \in Ingested(entries) : op \notin ops => Current(CurrentDigests(old), op)
      /\ \A op \in ops : ~Current(CurrentDigests(old), op)
    BY DEF Changes, OmitUnchanged
<1>4. ASSUME NEW op \in Ingested(entries)
      PROVE  Current(CurrentDigests(old), op) <=>
                old[op.address] # Absent /\ Digest(old[op.address]) = Digest(op.unit)
    BY <1>2 DEF Current, CurrentDigests
<1>5. ASSUME NEW a \in Addresses, Puts(a) # {}
      PROVE  \E op \in ops : op.address = a /\ new[a] = op.unit
    BY <1>1, <1>5
<1>6. ASSUME NEW op \in ops PROVE Puts(op.address) # {}
    BY <1>6
<1> HIDE DEF Puts
<1>7. ASSUME NEW op \in Ingested(entries)
      PROVE  \E other \in Ingested(entries) :
                /\ other.address = op.address
                /\ new[op.address] # Absent /\ Digest(new[op.address]) = Digest(other.unit)
                /\ op \in ops => other \in ops
  <2>1. CASE Puts(op.address) = {}
    <3>1. op \notin ops /\ new[op.address] = old[op.address]
        BY <1>1, <1>2, <1>6, <2>1
    <3> QED BY <1>3, <1>4, <3>1
  <2>2. CASE Puts(op.address) # {}
    <3>1. PICK other \in ops : other.address = op.address /\ new[op.address] = other.unit
        BY <1>2, <1>5, <2>2
    <3>2. other \in Ingested(entries) /\ other.unit # Absent
        BY <1>2, <1>3, AbsentIsNoUnit
    <3> QED BY <3>1, <3>2
  <2> QED BY <2>1, <2>2
<1>8. HoldsValues(Ingested(entries), new) /\ HoldsValues(ops, new)
    BY <1>3, <1>7 DEF HoldsValues
<1>9. ASSUME ops # {} PROVE \E a \in Addresses : new[a] # old[a]
  <2>1. PICK op \in ops : TRUE
      BY <1>9
  <2>2. op.address \in Addresses /\ Puts(op.address) # {}
      BY <1>2, <1>3, <1>6
  <2>3. PICK other \in ops : other.address = op.address /\ new[op.address] = other.unit
      BY <1>5, <2>2
  <2>4. ~(old[op.address] # Absent /\ Digest(old[op.address]) = Digest(other.unit)) /\ other.unit # Absent
      BY <1>2, <1>3, <1>4, <2>3, AbsentIsNoUnit
  <2>5. new[op.address] # old[op.address]
      BY <2>3, <2>4
  <2> QED BY <2>2, <2>5
<1>10. ASSUME NEW a \in Addresses, new[a] # old[a]
       PROVE  \E f \in Files : AddressOf(f) = a /\ new[a] = entries[f]
  <2>1. Puts(a) # {}
      BY <1>1, <1>10
  <2>2. PICK op \in ops : op.address = a /\ new[a] = op.unit
      BY <1>5, <2>1
  <2> QED BY <1>2, <1>3, <2>2
<1> QED BY <1>8, <1>9, <1>10

\* A comparison that leaves nothing to send: the commit holds the directory.
LEMMA NothingToSend ==
    ASSUME NEW old \in Tree, NEW entries \in Directory, Changes(entries, old) = {}
    PROVE  HoldsValues(Ingested(entries), old)
<1>1. old \in AppliedTo(old, {})
    BY DEF AppliedTo, Tree
<1> QED BY <1>1, AppliedHolds

LEMMA DesiredFollows == ASSUME DInv PROVE DesiredStands
<1>1. ASSUME NEW c \in CommandIds, Known(c)
      PROVE  LET e == receipt[c] IN
             /\ e.base \in 1 .. Len(history) /\ e.commit \in 1 .. Len(history) /\ e.commit = e.base + 1
             /\ e.commit - 1 = e.base /\ history[e.base] \in Tree
             /\ HoldsValues(Ingested(e.files), history[e.commit]) /\ HoldsValues(e.ops, history[e.commit])
             /\ \E a \in Addresses : history[e.commit][a] # history[e.base][a]
             /\ \A a \in Addresses : history[e.commit][a] # history[e.base][a] =>
                   \E f \in Files : AddressOf(f) = a /\ history[e.commit][a] = e.files[f]
  <2> DEFINE e == receipt[c]
  <2>1. e \in Receipt
      BY <1>1 DEF DInv, DesiredTypeOK, Known
  <2>2. e.base \in Nat /\ e.commit \in Nat /\ e.files \in Directory
      BY <2>1 DEF Receipt
  <2>3. /\ e.base \in 1 .. Len(history) /\ e.commit = e.base + 1 /\ e.commit <= Len(history)
        /\ e.ops = Changes(e.files, history[e.base]) /\ e.ops # {}
        /\ history[e.commit] \in AppliedTo(history[e.base], e.ops)
      BY <1>1 DEF DInv, ReceiptsExact
  <2> HIDE DEF e
  <2>4. e.commit \in 1 .. Len(history) /\ e.commit - 1 = e.base /\ history[e.base] \in Tree
      BY <2>2, <2>3 DEF DInv, DesiredTypeOK
  <2>5. PICK old \in Tree : old = history[e.base]
      BY <2>4
  <2> DEFINE new == history[e.commit]
  <2>6. ASSUME new \in AppliedTo(old, e.ops), e.ops = Changes(e.files, old), e.ops # {}
        PROVE  /\ HoldsValues(Ingested(e.files), new) /\ HoldsValues(e.ops, new)
               /\ \E a \in Addresses : new[a] # old[a]
               /\ \A a \in Addresses : new[a] # old[a] =>
                     \E f \in Files : AddressOf(f) = a /\ new[a] = e.files[f]
    <3>1. PICK tree : tree = new
        OBVIOUS
    <3> HIDE DEF new
    <3> QED BY <2>2, <2>6, <3>1, AppliedHolds
  <2>7. /\ HoldsValues(Ingested(e.files), history[e.commit]) /\ HoldsValues(e.ops, history[e.commit])
        /\ \E a \in Addresses : history[e.commit][a] # history[e.base][a]
        /\ \A a \in Addresses : history[e.commit][a] # history[e.base][a] =>
              \E f \in Files : AddressOf(f) = a /\ history[e.commit][a] = e.files[f]
      BY <2>3, <2>5, <2>6
  <2> QED BY <2>3, <2>4, <2>7 DEF e
<1>2. OnWhatWasSeen
    BY <1>1 DEF OnWhatWasSeen
<1>3. ASSUME NEW r \in Told
      PROVE  /\ r \in CommitRun /\ RunExact(r) /\ r.pc = "done"
             /\ r.command \in CommandIds /\ r.base \in 1 .. Len(history)
             /\ r.ops = Changes(r.files, history[r.base]) /\ r.files \in Directory
  <2>1. r \in CommitRun /\ RunExact(r) /\ r.pc = "done"
      BY DEF Told, DInv, DesiredTypeOK
  <2> QED BY <2>1 DEF RunExact, CommitRun
<1>4. ToldTrue
  <2> SUFFICES ASSUME NEW r \in Told
               PROVE  /\ r.answer \in {"applied", "replayed", "looked up", "recovered"}
                            /\ r.files = receipt[r.command].files
                         => HoldsValues(Ingested(r.files), history[r.commit])
                      /\ r.answer \in {"applied", "replayed"} => HoldsValues(r.ops, history[r.commit])
                      /\ r.answer = "matches" => HoldsValues(Ingested(r.files), history[r.base])
                      /\ r.answer = "applied" => r.files = receipt[r.command].files
      BY DEF ToldTrue
  <2>1. Verdict(r.answer, r.commit, r)
      BY <1>3 DEF RunExact
  <2>2. r.answer = "matches" => HoldsValues(Ingested(r.files), history[r.base])
    <3>1. history[r.base] \in Tree
        BY <1>3 DEF DInv, DesiredTypeOK
    <3> QED BY <1>3, <2>1, <3>1, NothingToSend DEF Verdict
  <2> QED BY <1>1, <1>3, <2>1, <2>2 DEF Verdict
<1>5. RefusedForCause
    BY <1>3 DEF RefusedForCause, RunExact, Verdict
<1> QED BY <1>2, <1>4, <1>5 DEF DesiredStands

\* A commit is never changed: a history only grows.
LEMMA HistoryGrows ==
    ASSUME DInv, NEW new \in Tree, history' = Append(history, new)
    PROVE  /\ history' \in Seq(Tree) /\ Len(history') = Len(history) + 1
           /\ Len(history) \in Nat /\ history'[Len(history) + 1] = new
           /\ \A i \in 1 .. Len(history) : history'[i] = history[i]
BY DEF DInv, DesiredTypeOK

\* What was remembered of commits and receipts stays true of them.
LEMMA RemainsExact ==
    ASSUME DInv,
           Len(history') \in Nat, Len(history) <= Len(history'),
           \A i \in 1 .. Len(history) : history'[i] = history[i],
           \A c \in CommandIds : Known(c) => receipt'[c] = receipt[c],
           NEW r \in CommitRun, RunExact(r)
    PROVE  /\ RunExact(r)'
           /\ \A reply \in Reply : Serves(reply, r) => Serves(reply, r)'
<1>1. Len(history) \in Nat
    BY DEF DInv, DesiredTypeOK
<1>2. /\ r.pc # "idle" => r.command \in CommandIds /\ r.base \in 1 .. Len(history)
      /\ r.pc \in {"waiting", "poll", "done"} => r.ops = Changes(r.files, history[r.base])
    BY DEF RunExact
<1>3. ASSUME NEW c \in CommandIds, Known(c) PROVE Known(c)' /\ receipt'[c] = receipt[c]
    BY <1>3 DEF Known
<1>4. ASSUME NEW answer, NEW commit, answer # "none" => r.pc # "idle", Verdict(answer, commit, r)
      PROVE  Verdict(answer, commit, r)'
  <2>1. CASE r.pc = "idle"
      BY <1>4, <2>1 DEF Verdict
  <2>2. CASE r.pc # "idle"
    <3>1. /\ r.command \in CommandIds
          /\ Known(r.command) => Known(r.command)' /\ receipt'[r.command] = receipt[r.command]
        BY <1>2, <1>3, <2>2
    <3>2. r.base < Len(history) => r.base < Len(history')
        BY <1>1, <1>2, <2>2
    <3>3. answer = "conflict" => Known(r.command) /\ r.ops # receipt[r.command].ops
        BY <1>4 DEF Verdict
    <3> QED BY <1>4, <3>1, <3>2, <3>3 DEF Verdict
  <2> QED BY <2>1, <2>2
<1>6. RunExact(r)'
    BY <1>1, <1>2, <1>4 DEF RunExact
<1>7. ASSUME NEW reply \in Reply, Serves(reply, r) PROVE Serves(reply, r)'
    BY <1>4, <1>7 DEF Serves
<1> QED BY <1>6, <1>7

\* A step of one client and of the server for it leaves the other runs exact.
LEMMA OneRunMoves ==
    ASSUME DInv, NEW k \in Clients, NEW r \in CommitRun, NEW reply \in Reply,
           client' = [client EXCEPT ![k] = r], server' = [server EXCEPT ![k] = reply],
           dir' \in Directory,
           history' \in Seq(Tree), Len(history') \in Nat, Len(history) <= Len(history'),
           \A i \in 1 .. Len(history) : history'[i] = history[i],
           receipt' \in [CommandIds -> Receipt \cup {NoReceipt}],
           \A c \in CommandIds : Known(c) => receipt'[c] = receipt[c],
           ReceiptsExact', RunExact(r)', Serves(reply, r)'
    PROVE  DInv'
<1>1. /\ client \in [Clients -> CommitRun] /\ server \in [Clients -> Reply]
      /\ Len(history) \in Nat /\ Len(history) >= 1
    BY DEF DInv, DesiredTypeOK
<1>2. DesiredTypeOK'
    BY <1>1 DEF DesiredTypeOK
<1>3. ASSUME NEW j \in Clients
      PROVE  (RunExact(client[j]) /\ Serves(server[j], client[j]))'
  <2>1. CASE j = k
    <3>1. client'[j] = r /\ server'[j] = reply
        BY <1>1, <2>1
    <3>2. RunExact(r)' /\ Serves(reply, r)'
        OBVIOUS
    <3> QED BY <3>1, <3>2
  <2>2. CASE j # k
    <3>1. client'[j] = client[j] /\ server'[j] = server[j]
        BY <1>1, <2>2
    <3>2. PICK other \in CommitRun, answer \in Reply : other = client[j] /\ answer = server[j]
        BY <1>1
    <3>3. RunExact(other) /\ Serves(answer, other)
        BY <3>2 DEF DInv
    <3>4. RunExact(other)' /\ Serves(answer, other)'
        BY <3>3, RemainsExact
    <3> QED BY <3>1, <3>2, <3>4
  <2> QED BY <2>1, <2>2
<1> QED BY <1>2, <1>3 DEF DInv

\* A step of the client alone.
LEMMA ClientMoves ==
    ASSUME DInv, NEW k \in Clients, NEW r \in CommitRun, NEW reply \in Reply,
           client' = [client EXCEPT ![k] = r], server' = [server EXCEPT ![k] = reply],
           UNCHANGED <<dir, history, receipt>>, RunExact(r), Serves(reply, r)
    PROVE  DInv'
<1>1. /\ dir \in Directory /\ history \in Seq(Tree) /\ Len(history) \in Nat
      /\ receipt \in [CommandIds -> Receipt \cup {NoReceipt}]
    BY DEF DInv, DesiredTypeOK
<1>2. history' = history /\ receipt' = receipt /\ dir' = dir
    OBVIOUS
<1>3. RunExact(r)' /\ Serves(reply, r)'
    BY <1>2 DEF RunExact, Serves, Verdict, Known
<1>4. ReceiptsExact'
    BY <1>2 DEF DInv, ReceiptsExact, Known
<1>5. \A c \in CommandIds : Known(c) => receipt'[c] = receipt[c]
    BY <1>2
<1>6. /\ dir' \in Directory /\ history' \in Seq(Tree) /\ Len(history') \in Nat
      /\ Len(history) <= Len(history') /\ \A i \in 1 .. Len(history) : history'[i] = history[i]
      /\ receipt' \in [CommandIds -> Receipt \cup {NoReceipt}]
    BY <1>1, <1>2
<1> QED BY <1>3, <1>4, <1>5, <1>6, OneRunMoves

LEMMA DesiredStart == DesiredInit => DInv
<1> SUFFICES ASSUME DesiredInit PROVE DInv
    OBVIOUS
<1>1. dir \in Directory /\ history \in Seq(Tree) /\ Len(history) = 1
    BY DEF DesiredInit, Directory, Tree, Files, Addresses, Units
<1>2. NoRun \in CommitRun /\ Quiet \in Reply
    BY DEF NoRun, CommitRun, Quiet, Reply, Answer, NoFiles, Directory, Files
<1>3. receipt = [c \in CommandIds |-> NoReceipt] /\ client = [k \in Clients |-> NoRun]
      /\ server = [k \in Clients |-> Quiet]
    BY DEF DesiredInit
<1>4. DesiredTypeOK
    BY <1>1, <1>2, <1>3 DEF DesiredTypeOK
<1>5. RunExact(NoRun) /\ Serves(Quiet, NoRun)
    BY DEF NoRun, Quiet, RunExact, Serves, Verdict
<1>6. ReceiptsExact
    BY <1>3 DEF ReceiptsExact, Known
<1> QED BY <1>3, <1>4, <1>5, <1>6 DEF DInv

LEMMA StartKeeps == ASSUME DInv, NEW k \in Clients, StartRun(k) PROVE DInv'
<1>1. PICK c \in CommandIds, base \in {1, HistoryTip} :
         client' = [client EXCEPT ![k] = [NoRun EXCEPT !.pc = "ingest", !.command = c, !.base = base]]
    BY DEF StartRun
<1> DEFINE r == [NoRun EXCEPT !.pc = "ingest", !.command = c, !.base = base]
<1>2. base \in 1 .. Len(history) /\ base \in Nat
    BY DEF HistoryTip, DInv, DesiredTypeOK
<1>3. NoRun \in CommitRun /\ NoRun.answer = "none"
    BY DEF NoRun, CommitRun, Answer, NoFiles, Directory, Files
<1>4. r \in CommitRun /\ r.pc = "ingest" /\ r.command = c /\ r.base = base /\ r.answer = "none"
    BY <1>2, <1>3 DEF CommitRun
<1>5. Quiet \in Reply /\ Serves(Quiet, r)
    BY DEF Quiet, Reply, Answer, Serves, Verdict
<1>6. RunExact(r)
    BY <1>2, <1>4 DEF RunExact, Verdict
<1> HIDE DEF r
<1> QED BY <1>1, <1>4, <1>5, <1>6, ClientMoves DEF StartRun, r

LEMMA IngestKeeps == ASSUME DInv, NEW k \in Clients, IngestDesired(k) PROVE DInv'
<1> DEFINE r == [client[k] EXCEPT !.pc = "compare", !.files = dir]
<1>1. client[k] \in CommitRun /\ server[k] \in Reply /\ RunExact(client[k]) /\ Serves(server[k], client[k])
    BY DEF DInv, DesiredTypeOK
<1>2. client[k].pc = "ingest" /\ client' = [client EXCEPT ![k] = r] /\ UNCHANGED <<dir, history, receipt, server>>
    BY DEF IngestDesired, Go
<1>3. dir \in Directory
    BY DEF DInv, DesiredTypeOK
<1>4. r \in CommitRun /\ r.pc = "compare" /\ r.command = client[k].command /\ r.base = client[k].base
      /\ r.ops = client[k].ops /\ r.answer = client[k].answer /\ r.commit = client[k].commit
    BY <1>1, <1>3 DEF CommitRun
<1>5. server[k].state = "none" /\ client[k].answer = "none"
    BY <1>1, <1>2 DEF Serves, RunExact
<1> HIDE DEF r
<1>6. RunExact(r)
    BY <1>1, <1>2, <1>4, <1>5 DEF RunExact, Verdict
<1>7. Serves(server[k], r)
    BY <1>5 DEF Serves, Verdict
<1>8. server' = [server EXCEPT ![k] = server[k]]
    BY <1>2 DEF DInv, DesiredTypeOK
<1>9. PICK reply \in Reply, s \in CommitRun : reply = server[k] /\ s = r
    BY <1>1, <1>4
<1> QED BY <1>2, <1>6, <1>7, <1>8, <1>9, ClientMoves

LEMMA PrepareKeeps == ASSUME DInv, NEW k \in Clients, PrepareDesired(k) PROVE DInv'
<1> DEFINE ops == Changes(client[k].files, history[client[k].base])
           r == [client[k] EXCEPT !.ops = ops, !.pc = IF ops = {} THEN "lookup" ELSE "post"]
<1>1. client[k] \in CommitRun /\ server[k] \in Reply /\ RunExact(client[k]) /\ Serves(server[k], client[k])
    BY DEF DInv, DesiredTypeOK
<1>2. client[k].pc = "compare" /\ client' = [client EXCEPT ![k] = r] /\ UNCHANGED <<dir, history, receipt, server>>
    BY DEF PrepareDesired, Go, Changes
<1>3. ops \in SUBSET Put
  <2>1. client[k].files \in Directory
      BY <1>1 DEF CommitRun
  <2>2. ASSUME NEW op \in Ingested(client[k].files) PROVE op \in Put
    <3>1. PICK f \in Files : client[k].files[f] # Absent
                             /\ op = [address |-> AddressOf(f), unit |-> client[k].files[f]]
        BY DEF Ingested
    <3>2. client[k].files[f] \in Units /\ AddressOf(f) \in Addresses
        BY <2>1, <3>1 DEF Directory, AddressOf, Addresses
    <3> QED BY <3>1, <3>2 DEF Put
  <2> QED BY <2>2 DEF Changes, OmitUnchanged
<1>4. PICK set \in SUBSET Put : set = ops
    BY <1>3
<1> HIDE DEF ops
<1>5. /\ r \in CommitRun /\ r.pc = (IF set = {} THEN "lookup" ELSE "post") /\ r.ops = set
      /\ r.command = client[k].command /\ r.base = client[k].base
      /\ r.files = client[k].files /\ r.answer = client[k].answer /\ r.commit = client[k].commit
    BY <1>1, <1>4 DEF CommitRun
<1>6. server[k].state = "none" /\ client[k].answer = "none"
    BY <1>1, <1>2 DEF Serves, RunExact
<1>7. r.ops = Changes(r.files, history[r.base])
    BY <1>4, <1>5 DEF ops
<1> HIDE DEF r
<1>8. RunExact(r)
    BY <1>1, <1>2, <1>5, <1>6, <1>7 DEF RunExact, Verdict
<1>9. Serves(server[k], r)
    BY <1>6 DEF Serves, Verdict
<1>10. server' = [server EXCEPT ![k] = server[k]]
    BY <1>2 DEF DInv, DesiredTypeOK
<1>11. PICK reply \in Reply, s \in CommitRun : reply = server[k] /\ s = r
    BY <1>1, <1>5
<1> QED BY <1>2, <1>8, <1>9, <1>10, <1>11, ClientMoves

\* The end of a run: what it is told is so.
LEMMA RunEnds ==
    ASSUME DInv, NEW k \in Clients, NEW from \in {"lookup", "waiting", "poll"}, client[k].pc = from,
           NEW answer \in Answer, NEW commit \in Nat, Verdict(answer, commit, client[k]),
           client' = [client EXCEPT ![k] = Done(client[k], answer, commit)],
           UNCHANGED <<dir, history, receipt, server>>
    PROVE  DInv'
<1>1. client[k] \in CommitRun /\ server[k] \in Reply /\ RunExact(client[k]) /\ Serves(server[k], client[k])
    BY DEF DInv, DesiredTypeOK
<1> DEFINE r == Done(client[k], answer, commit)
<1>2. PICK reply \in Reply : reply = server[k]
    BY <1>1
<1>3. /\ r \in CommitRun /\ r.pc = "done" /\ r.ops = client[k].ops /\ r.command = client[k].command
      /\ r.base = client[k].base /\ r.files = client[k].files /\ r.answer = answer /\ r.commit = commit
    BY <1>1 DEF CommitRun, Done
<1> HIDE DEF r
<1>4. RunExact(r)
    BY <1>1, <1>3 DEF RunExact, Verdict
<1>5. Serves(reply, r)
    BY <1>1, <1>2, <1>3 DEF Serves, Verdict
<1>6. server' = [server EXCEPT ![k] = reply]
    BY <1>2 DEF DInv, DesiredTypeOK
<1>7. PICK s \in CommitRun : s = r
    BY <1>3
<1>8. client' = [client EXCEPT ![k] = s]
    BY <1>7 DEF r
<1> QED BY <1>4, <1>5, <1>6, <1>7, <1>8, ClientMoves

\* The commit of a receipt.
LEMMA ReceiptCommit == ASSUME DInv, NEW c \in CommandIds, Known(c) PROVE receipt[c].commit \in Nat
BY DEF DInv, DesiredTypeOK, Known, Receipt

LEMMA LookupKeeps == ASSUME DInv, NEW k \in Clients, ReplayedDesiredReceipt(k) PROVE DInv'
<1>1. client[k] \in CommitRun /\ RunExact(client[k]) /\ client[k].pc = "lookup"
    BY DEF DInv, DesiredTypeOK, ReplayedDesiredReceipt, Go
<1>2. client[k].command \in CommandIds /\ client[k].base \in Nat /\ client[k].ops = {}
    BY <1>1 DEF RunExact, CommitRun
<1>3. UNCHANGED <<dir, history, receipt, server>>
    BY DEF ReplayedDesiredReceipt
<1>4. CASE Known(client[k].command)
             /\ client' = [client EXCEPT ![k] = Done(client[k], "looked up", receipt[client[k].command].commit)]
  <2>1. PICK commit \in Nat : commit = receipt[client[k].command].commit
      BY <1>2, <1>4, ReceiptCommit
  <2>2. Verdict("looked up", commit, client[k])
      BY <1>4, <2>1 DEF Verdict
  <2> QED BY <1>1, <1>3, <1>4, <2>1, <2>2, RunEnds DEF Answer
<1>5. CASE client' = [client EXCEPT ![k] = Done(client[k], "matches", client[k].base)]
  <2>1. PICK commit \in Nat : commit = client[k].base
      BY <1>2
  <2>2. Verdict("matches", commit, client[k])
      BY <1>2 DEF Verdict
  <2> QED BY <1>1, <1>3, <1>5, <2>1, <2>2, RunEnds DEF Answer
<1> QED BY <1>4, <1>5 DEF ReplayedDesiredReceipt, Go

LEMMA PollKeeps == ASSUME DInv, NEW k \in Clients, Poll(k) PROVE DInv'
<1>1. client[k] \in CommitRun /\ RunExact(client[k]) /\ client[k].pc = "poll"
    BY DEF DInv, DesiredTypeOK, Poll, Go
<1>2. client[k].command \in CommandIds
    BY <1>1 DEF RunExact
<1>3. UNCHANGED <<dir, history, receipt, server>>
    BY DEF Poll
<1>4. CASE Known(client[k].command)
             /\ client' = [client EXCEPT ![k] = Done(client[k], "recovered", receipt[client[k].command].commit)]
  <2>1. PICK commit \in Nat : commit = receipt[client[k].command].commit
      BY <1>2, <1>4, ReceiptCommit
  <2>2. Verdict("recovered", commit, client[k])
      BY <1>4, <2>1 DEF Verdict
  <2> QED BY <1>1, <1>3, <1>4, <2>1, <2>2, RunEnds DEF Answer
<1>5. CASE client' = [client EXCEPT ![k] = Done(client[k], "unknown", 0)]
  <2>1. Verdict("unknown", 0, client[k])
      BY DEF Verdict
  <2> QED BY <1>1, <1>3, <1>5, <2>1, RunEnds DEF Answer
<1> QED BY <1>4, <1>5 DEF Poll, Go

LEMMA ReceiveKeeps == ASSUME DInv, NEW k \in Clients, Receive(k) PROVE DInv'
<1>1. /\ client[k].pc = "waiting" /\ server[k] \in Reply /\ Serves(server[k], client[k])
      /\ client' = [client EXCEPT ![k] = Done(client[k], server[k].state, server[k].commit)]
      /\ server[k].state \notin {"none", "sent"} /\ UNCHANGED <<dir, history, receipt, server>>
    BY DEF DInv, DesiredTypeOK, Receive, Go
<1>2. PICK answer \in Answer, commit \in Nat : answer = server[k].state /\ commit = server[k].commit
    BY <1>1 DEF Reply
<1>3. Verdict(answer, commit, client[k])
    BY <1>1, <1>2 DEF Serves
<1> QED BY <1>1, <1>2, <1>3, RunEnds

LEMMA PostKeeps == ASSUME DInv, NEW k \in Clients, PostDesired(k) PROVE DInv'
<1> DEFINE r == [client[k] EXCEPT !.pc = "waiting"]
           reply == [server[k] EXCEPT !.state = "sent"]
<1>1. client[k] \in CommitRun /\ server[k] \in Reply /\ RunExact(client[k]) /\ Serves(server[k], client[k])
    BY DEF DInv, DesiredTypeOK
<1>2. /\ client[k].pc = "post" /\ client' = [client EXCEPT ![k] = r] /\ server' = [server EXCEPT ![k] = reply]
      /\ UNCHANGED <<dir, history, receipt>>
    BY <1>1 DEF PostDesired, Go, DInv, DesiredTypeOK
<1>3. /\ r \in CommitRun /\ r.pc = "waiting" /\ r.ops = client[k].ops /\ r.command = client[k].command
      /\ r.base = client[k].base /\ r.files = client[k].files /\ r.answer = client[k].answer
      /\ r.commit = client[k].commit
    BY <1>1 DEF CommitRun
<1>4. reply \in Reply /\ reply.state = "sent"
    BY <1>1 DEF Reply
<1>5. client[k].answer = "none" /\ client[k].ops # {}
    BY <1>1, <1>2 DEF RunExact
<1>6. PICK s \in CommitRun, a \in Reply : s = r /\ a = reply
    BY <1>3, <1>4
<1> HIDE DEF r, reply
<1>7. RunExact(s)
    BY <1>1, <1>2, <1>3, <1>5, <1>6 DEF RunExact, Verdict
<1>8. Serves(a, s)
    BY <1>3, <1>4, <1>5, <1>6 DEF Serves, Verdict
<1> QED BY <1>2, <1>6, <1>7, <1>8, ClientMoves

LEMMA LoseKeeps == ASSUME DInv, NEW k \in Clients, Lose(k) PROVE DInv'
<1> DEFINE r == [client[k] EXCEPT !.pc = "poll"]
<1>1. client[k] \in CommitRun /\ server[k] \in Reply /\ RunExact(client[k]) /\ Serves(server[k], client[k])
    BY DEF DInv, DesiredTypeOK
<1>2. client[k].pc = "waiting" /\ client' = [client EXCEPT ![k] = r] /\ UNCHANGED <<dir, history, receipt, server>>
    BY DEF Lose, Go
<1>3. /\ r \in CommitRun /\ r.pc = "poll" /\ r.ops = client[k].ops /\ r.command = client[k].command
      /\ r.base = client[k].base /\ r.files = client[k].files /\ r.answer = client[k].answer
      /\ r.commit = client[k].commit
    BY <1>1 DEF CommitRun
<1>4. PICK s \in CommitRun, a \in Reply : s = r /\ a = server[k]
    BY <1>1, <1>3
<1> HIDE DEF r
<1>5. RunExact(s)
    BY <1>1, <1>2, <1>3, <1>4 DEF RunExact, Verdict
<1>6. Serves(a, s)
    BY <1>1, <1>3, <1>4 DEF Serves, Verdict
<1>7. server' = [server EXCEPT ![k] = a]
    BY <1>2, <1>4 DEF DInv, DesiredTypeOK
<1> QED BY <1>2, <1>4, <1>5, <1>6, <1>7, ClientMoves

\* The answer of the server is of what it found: a receipt, another head, or
\* the commit it made.
LEMMA Answered ==
    ASSUME DInv, NEW k \in Clients, server[k].state = "sent", NEW state \in Answer, NEW commit \in Nat,
           server' = [server EXCEPT ![k] = [state |-> state, commit |-> commit]],
           UNCHANGED <<dir, client>>,
           history' \in Seq(Tree), Len(history') \in Nat, Len(history) <= Len(history'),
           \A i \in 1 .. Len(history) : history'[i] = history[i],
           receipt' \in [CommandIds -> Receipt \cup {NoReceipt}],
           \A c \in CommandIds : Known(c) => receipt'[c] = receipt[c],
           ReceiptsExact', Verdict(state, commit, client[k])'
    PROVE  DInv'
<1>1. /\ client[k] \in CommitRun /\ RunExact(client[k]) /\ Serves(server[k], client[k])
      /\ client \in [Clients -> CommitRun] /\ dir \in Directory
    BY DEF DInv, DesiredTypeOK
<1>2. PICK r \in CommitRun, reply \in Reply :
         r = client[k] /\ reply = [state |-> state, commit |-> commit]
    BY <1>1 DEF Reply
<1>3. RunExact(r) /\ r.pc \in {"waiting", "poll", "done"}
    BY <1>1, <1>2 DEF Serves
<1>4. RunExact(r)'
    BY <1>3, RemainsExact
<1>5. client' = [client EXCEPT ![k] = r]
    BY <1>1, <1>2
<1>6. client'[k] = r
    BY <1>2
<1>7. Verdict(state, commit, r)'
    BY <1>6
<1>8. state # "sent" /\ reply.state = state /\ reply.commit = commit
    BY <1>2 DEF Answer
<1>9. Serves(reply, r)'
    BY <1>3, <1>7, <1>8 DEF Serves
<1> QED BY <1>1, <1>2, <1>4, <1>5, <1>9, OneRunMoves

LEMMA ExecuteKeeps == ASSUME DInv, NEW k \in Clients, Execute(k) PROVE DInv'
<1> DEFINE c == client[k].command
           base == client[k].base
<1>1. /\ server[k].state = "sent" /\ UNCHANGED <<dir, client>>
      /\ client[k] \in CommitRun /\ RunExact(client[k]) /\ Serves(server[k], client[k])
    BY DEF Execute, DInv, DesiredTypeOK
<1>2. /\ c \in CommandIds /\ base \in 1 .. Len(history)
      /\ client[k].ops = Changes(client[k].files, history[base]) /\ client[k].ops # {}
      /\ client[k].ops \in SUBSET Put /\ client[k].files \in Directory /\ base \in Nat
    BY <1>1 DEF RunExact, Serves, CommitRun
<1>3. /\ history \in Seq(Tree) /\ Len(history) \in Nat
      /\ receipt \in [CommandIds -> Receipt \cup {NoReceipt}] /\ ReceiptsExact
    BY DEF DInv, DesiredTypeOK
<1>4. CASE Known(c) /\ UNCHANGED <<history, receipt>>
           /\ server' = [server EXCEPT ![k] = IF receipt[c].ops = client[k].ops
                                              THEN [state |-> "replayed", commit |-> receipt[c].commit]
                                              ELSE [state |-> "conflict", commit |-> 0]]
  <2>0. /\ history' \in Seq(Tree) /\ Len(history') \in Nat /\ Len(history) <= Len(history')
        /\ receipt' \in [CommandIds -> Receipt \cup {NoReceipt}]
        /\ \A i \in 1 .. Len(history) : history'[i] = history[i]
        /\ \A d \in CommandIds : Known(d) => receipt'[d] = receipt[d]
      BY <1>3, <1>4
  <2>1. PICK commit \in Nat : commit = receipt[c].commit
      BY <1>2, <1>4, ReceiptCommit
  <2>2. history' = history /\ receipt' = receipt /\ client' = client
      BY <1>1, <1>4
  <2>3. ReceiptsExact'
      BY <1>3, <2>2 DEF ReceiptsExact, Known
  <2>4. CASE receipt[c].ops = client[k].ops
    <3>1. Verdict("replayed", commit, client[k])'
        BY <1>4, <2>1, <2>2, <2>4 DEF Verdict, Known
    <3>2. server' = [server EXCEPT ![k] = [state |-> "replayed", commit |-> commit]]
        BY <1>4, <2>1, <2>4
    <3> QED BY <1>1, <2>0, <2>3, <3>1, <3>2, Answered DEF Answer
  <2>5. CASE receipt[c].ops # client[k].ops
    <3>1. Verdict("conflict", 0, client[k])'
        BY <1>4, <2>2, <2>5 DEF Verdict, Known
    <3>2. server' = [server EXCEPT ![k] = [state |-> "conflict", commit |-> 0]]
        BY <1>4, <2>5
    <3> QED BY <1>1, <2>0, <2>3, <3>1, <3>2, Answered DEF Answer
  <2> QED BY <2>4, <2>5
<1>5. CASE base # Len(history) /\ UNCHANGED <<history, receipt>>
           /\ server' = [server EXCEPT ![k] = [state |-> "stale", commit |-> 0]]
  <2>0. /\ history' \in Seq(Tree) /\ Len(history') \in Nat /\ Len(history) <= Len(history')
        /\ receipt' \in [CommandIds -> Receipt \cup {NoReceipt}]
        /\ \A i \in 1 .. Len(history) : history'[i] = history[i]
        /\ \A d \in CommandIds : Known(d) => receipt'[d] = receipt[d]
      BY <1>3, <1>5
  <2>1. history' = history /\ receipt' = receipt /\ client' = client
      BY <1>1, <1>5
  <2>2. ReceiptsExact'
      BY <1>3, <2>1 DEF ReceiptsExact, Known
  <2>3. Verdict("stale", 0, client[k])'
      BY <1>2, <1>3, <1>5, <2>1 DEF Verdict
  <2> QED BY <1>1, <1>5, <2>0, <2>2, <2>3, Answered DEF Answer
<1>6. CASE ~Known(c) /\ base = Len(history)
           /\ (\E new \in AppliedTo(history[Len(history)], client[k].ops) : history' = Append(history, new))
           /\ receipt' = [receipt EXCEPT ![c] = [commit |-> Len(history) + 1, base |-> base,
                                                 ops |-> client[k].ops, files |-> client[k].files]]
           /\ server' = [server EXCEPT ![k] = [state |-> "applied", commit |-> Len(history) + 1]]
  <2>1. PICK new \in AppliedTo(history[Len(history)], client[k].ops) : history' = Append(history, new)
      BY <1>6
  <2>2. new \in Tree
      BY <2>1 DEF AppliedTo, Tree
  <2>3. /\ history' \in Seq(Tree) /\ Len(history') = Len(history) + 1
        /\ history'[Len(history) + 1] = new
        /\ \A i \in 1 .. Len(history) : history'[i] = history[i]
      BY <2>1, <2>2, HistoryGrows
  <2>4. PICK n \in Nat : n = Len(history) + 1 /\ base + 1 = n /\ n # 0 /\ Len(history') = n
      BY <1>2, <1>3, <1>6, <2>3
  <2>5. PICK e \in Receipt : e = [commit |-> n, base |-> base, ops |-> client[k].ops, files |-> client[k].files]
      BY <1>2, <2>4 DEF Receipt
  <2>6. receipt' = [receipt EXCEPT ![c] = e]
      BY <1>6, <2>4, <2>5
  <2>7. e # NoReceipt
      BY <2>4, <2>5 DEF NoReceipt
  <2>8. receipt' \in [CommandIds -> Receipt \cup {NoReceipt}] /\ receipt'[c] = e
        /\ \A d \in CommandIds : d # c => receipt'[d] = receipt[d]
      BY <1>2, <1>3, <2>6
  <2>9. \A d \in CommandIds : Known(d) => receipt'[d] = receipt[d]
      BY <1>6, <2>8
  <2>10. ReceiptsExact'
    <3> SUFFICES ASSUME NEW d \in CommandIds, receipt'[d] # NoReceipt
                 PROVE  /\ receipt'[d].base \in 1 .. Len(history') /\ receipt'[d].commit = receipt'[d].base + 1
                        /\ receipt'[d].commit <= Len(history')
                        /\ receipt'[d].ops = Changes(receipt'[d].files, history'[receipt'[d].base])
                        /\ receipt'[d].ops # {}
                        /\ history'[receipt'[d].commit] \in AppliedTo(history'[receipt'[d].base], receipt'[d].ops)
        BY DEF ReceiptsExact, Known
    <3>1. CASE d = c
      <4>1. /\ receipt'[d] = e /\ e.base = base /\ e.commit = n /\ e.ops = client[k].ops
            /\ e.files = client[k].files
          BY <2>5, <2>8, <3>1
      <4>2. base \in 1 .. Len(history') /\ history'[base] = history[base] /\ base = Len(history)
          BY <1>2, <1>3, <1>6, <2>3
      <4>3. history'[n] \in AppliedTo(history[base], client[k].ops)
          BY <2>1, <2>3, <2>4, <4>2
      <4>4. n <= Len(history')
          BY <2>4
      <4> QED BY <1>2, <2>4, <4>1, <4>2, <4>3, <4>4
    <3>2. CASE d # c
      <4>1. PICK o \in Receipt : o = receipt[d] /\ receipt'[d] = o
          BY <1>3, <2>8, <3>2
      <4>2. /\ o.base \in 1 .. Len(history) /\ o.commit = o.base + 1 /\ o.commit <= Len(history)
            /\ o.ops = Changes(o.files, history[o.base]) /\ o.ops # {}
            /\ history[o.commit] \in AppliedTo(history[o.base], o.ops)
          BY <1>3, <2>8, <3>2, <4>1 DEF ReceiptsExact, Known
      <4>3. o.commit \in 1 .. Len(history)
          BY <1>3, <4>2
      <4>4. history'[o.base] = history[o.base] /\ history'[o.commit] = history[o.commit]
            /\ o.base \in 1 .. Len(history') /\ o.commit <= Len(history')
          BY <1>3, <2>3, <4>2, <4>3
      <4> QED BY <4>1, <4>2, <4>4
    <3> QED BY <3>1, <3>2
  <2>11. Verdict("applied", n, client[k])'
    <3>1. client'[k] = client[k] /\ receipt'[c] = e
        BY <1>1, <2>8
    <3>2. e.commit = n /\ e.ops = client[k].ops /\ e.files = client[k].files
        BY <2>5
    <3> QED BY <2>7, <3>1, <3>2 DEF Verdict, Known
  <2>12. server' = [server EXCEPT ![k] = [state |-> "applied", commit |-> n]]
      BY <1>6, <2>4
  <2>13. Len(history) <= Len(history') /\ Len(history') \in Nat /\ "applied" \in Answer
      BY <1>3, <2>4, <2>3 DEF Answer
  <2> QED BY <1>1, <2>3, <2>8, <2>9, <2>10, <2>11, <2>12, <2>13, Answered
<1> QED BY <1>4, <1>5, <1>6 DEF Execute, BaseOf, HistoryTip

LEMMA EditKeeps == ASSUME DInv, EditFile PROVE DInv'
<1>1. dir' \in Directory
    BY DEF EditFile, DInv, DesiredTypeOK, Directory, Units
<1>2. history' = history /\ receipt' = receipt /\ client' = client /\ server' = server
    BY DEF EditFile
<1>3. DesiredTypeOK'
    BY <1>1, <1>2 DEF DInv, DesiredTypeOK
<1>4. ReceiptsExact'
    BY <1>2 DEF DInv, ReceiptsExact, Known
<1>5. \A k \in Clients : (RunExact(client[k]) /\ Serves(server[k], client[k]))'
    BY <1>2 DEF DInv, RunExact, Serves, Verdict, Known
<1> QED BY <1>3, <1>4, <1>5 DEF DInv

LEMMA OthersKeep == ASSUME DInv, CommitOfOthers PROVE DInv'
<1>1. PICK a \in Addresses, c \in Units : history' = Append(history, [history[HistoryTip] EXCEPT ![a] = c])
    BY DEF CommitOfOthers
<1>2. /\ history \in Seq(Tree) /\ Len(history) \in Nat /\ history[HistoryTip] \in Tree
      /\ client \in [Clients -> CommitRun] /\ server \in [Clients -> Reply] /\ dir \in Directory
      /\ receipt \in [CommandIds -> Receipt \cup {NoReceipt}]
    BY DEF DInv, DesiredTypeOK, HistoryTip
<1>3. PICK new \in Tree : new = [history[HistoryTip] EXCEPT ![a] = c]
    BY <1>2 DEF Tree
<1>4. /\ history' \in Seq(Tree) /\ Len(history') = Len(history) + 1
      /\ \A i \in 1 .. Len(history) : history'[i] = history[i]
    BY <1>1, <1>3, HistoryGrows
<1>5. dir' = dir /\ receipt' = receipt /\ client' = client /\ server' = server
    BY DEF CommitOfOthers
<1>6. DesiredTypeOK'
    BY <1>2, <1>4, <1>5 DEF DesiredTypeOK
<1>7. ReceiptsExact'
  <2> SUFFICES ASSUME NEW d \in CommandIds, Known(d)
               PROVE  /\ receipt[d].base \in 1 .. Len(history') /\ receipt[d].commit = receipt[d].base + 1
                      /\ receipt[d].commit <= Len(history')
                      /\ receipt[d].ops = Changes(receipt[d].files, history'[receipt[d].base])
                      /\ receipt[d].ops # {}
                      /\ history'[receipt[d].commit] \in AppliedTo(history'[receipt[d].base], receipt[d].ops)
      BY <1>5 DEF ReceiptsExact, Known
  <2>1. PICK o \in Receipt : o = receipt[d]
      BY <1>2 DEF Known
  <2>2. /\ o.base \in 1 .. Len(history) /\ o.commit = o.base + 1 /\ o.commit <= Len(history)
        /\ o.ops = Changes(o.files, history[o.base]) /\ o.ops # {}
        /\ history[o.commit] \in AppliedTo(history[o.base], o.ops)
      BY <2>1 DEF DInv, ReceiptsExact
  <2>3. o.commit \in 1 .. Len(history)
      BY <1>2, <2>2
  <2>4. history'[o.base] = history[o.base] /\ history'[o.commit] = history[o.commit]
        /\ o.base \in 1 .. Len(history') /\ o.commit <= Len(history')
      BY <1>2, <1>4, <2>2, <2>3
  <2> QED BY <2>1, <2>2, <2>4
<1>8. ASSUME NEW k \in Clients PROVE (RunExact(client[k]) /\ Serves(server[k], client[k]))'
  <2>1. PICK r \in CommitRun, reply \in Reply : r = client[k] /\ reply = server[k]
      BY <1>2
  <2>2. RunExact(r) /\ Serves(reply, r)
      BY <2>1 DEF DInv
  <2>3. Len(history') \in Nat /\ Len(history) <= Len(history')
        /\ \A d \in CommandIds : Known(d) => receipt'[d] = receipt[d]
      BY <1>2, <1>4, <1>5
  <2>4. RunExact(r)' /\ Serves(reply, r)'
      BY <1>4, <2>2, <2>3, RemainsExact
  <2>5. client'[k] = r /\ server'[k] = reply
      BY <1>5, <2>1
  <2> QED BY <2>4, <2>5
<1> QED BY <1>6, <1>7, <1>8 DEF DInv

LEMMA DesiredPreserved == DInv /\ [DesiredNext]_desiredVars => DInv'
<1> SUFFICES ASSUME DInv, [DesiredNext]_desiredVars PROVE DInv'
    OBVIOUS
<1>1. ASSUME NEW k \in Clients, StartRun(k) \/ IngestDesired(k) \/ PrepareDesired(k) \/ ReplayedDesiredReceipt(k)
      PROVE  DInv'
    BY <1>1, StartKeeps, IngestKeeps, PrepareKeeps, LookupKeeps
<1>2. ASSUME NEW k \in Clients, PostDesired(k) \/ Execute(k) \/ Receive(k) \/ Lose(k) \/ Poll(k)
      PROVE  DInv'
    BY <1>2, PostKeeps, ExecuteKeeps, ReceiveKeeps, LoseKeeps, PollKeeps
<1>3. CASE UNCHANGED desiredVars
  <2>1. dir' = dir /\ history' = history /\ receipt' = receipt /\ client' = client /\ server' = server
      BY <1>3 DEF desiredVars
  <2>2. DesiredTypeOK' /\ ReceiptsExact'
      BY <2>1 DEF DInv, DesiredTypeOK, ReceiptsExact, Known
  <2>3. \A k \in Clients : (RunExact(client[k]) /\ Serves(server[k], client[k]))'
      BY <2>1 DEF DInv, RunExact, Serves, Verdict, Known
  <2> QED BY <2>2, <2>3 DEF DInv
<1> QED BY <1>1, <1>2, <1>3, EditKeeps, OthersKeep DEF DesiredNext

\* What a client of writer commit --dir is told is so, whatever was lost,
\* repeated or done by others in between: the commit holds the directory as it
\* was read, stands on the commit it was compared with and changes only what
\* differed; a refusal names its cause (cli/writer_commit.go, writer.Commit).
THEOREM DirectoryAnswersStand == DesiredSpec => []DesiredStands
<1>1. DInv => DesiredStands
    BY DesiredFollows
<1> QED BY <1>1, DesiredStart, DesiredPreserved, PTL DEF DesiredSpec

(***************************************************************************)
(* The answers to a reader of a dataset release.  What the scope lets      *)
(* through is in the release as a whole, and so is what a binding is       *)
(* derived from; one place tells where a value lives.                      *)
(***************************************************************************)
LEMMA OneIn == ASSUME NEW S, S # {} PROVE One(S) \in S
  BY Zenon DEF One

\* An object served as a whole has all its files in the release, and the other way round.
LEMMA ScopeWhole ==
  ASSUME WellFormed(content), NEW r, NEW id, InDataset(r, id), NEW u \in UnitsOf(r, id, Pin[r])
  PROVE  u \in content /\ u.repo = r /\ u.object = id /\ InRelease(u) /\ WhollyPublished(u)
<1>1. ASSUME NEW v \in UnitsOf(r, id, Pin[r])
      PROVE  v \in content /\ v.repo = r /\ v.object = id /\ v.at = Pin[r] /\ InRelease(v)
  <2>1. v \in content /\ v.repo = r /\ v.object = id /\ v.at = Pin[r]
    BY <1>1 DEF UnitsOf
  <2>2. CASE Restricts(r)
    BY <1>1, <2>1, <2>2 DEF InDataset, InRelease
  <2>3. CASE ~ Restricts(r)
    <3>1. PICK i \in items : i.repo = r /\ i.kind = "prefix" /\ i.path = <<>>
      BY <2>3 DEF Restricts
    <3>2. v.path \in Seq(STRING)
      BY <2>1 DEF WellFormed
    <3>3. IsPrefix(<<>>, v.path)
      BY <3>2 DEF IsPrefix
    <3>4. Covers(i, v.path)
      BY <3>1, <3>3 DEF Covers
    <3> QED
      BY <2>1, <3>1, <3>4 DEF PathAllowed, InRelease
  <2> QED
    BY <2>1, <2>2, <2>3
<1>2. UnitsOf(u.repo, u.object, u.at) = UnitsOf(r, id, Pin[r])
  BY <1>1
<1> QED
  BY <1>1, <1>2 DEF WhollyPublished

LEMMA WholeScope ==
  ASSUME NEW u \in content, u.at = Pin[u.repo], WhollyPublished(u)
  PROVE  InDataset(u.repo, u.object) /\ u \in UnitsOf(u.repo, u.object, Pin[u.repo])
<1>1. u \in UnitsOf(u.repo, u.object, Pin[u.repo])
  BY DEF UnitsOf
<1>2. \A v \in UnitsOf(u.repo, u.object, Pin[u.repo]) : InRelease(v) /\ v.repo = u.repo
  BY DEF WhollyPublished, UnitsOf
<1>3. \A v \in UnitsOf(u.repo, u.object, Pin[u.repo]) : PathAllowed(u.repo, v.path)
  BY <1>2 DEF InRelease
<1>4. \E i \in items : i.repo = u.repo
  BY <1>1, <1>3 DEF PathAllowed
<1> QED
  BY <1>1, <1>3, <1>4 DEF InDataset

\* What a reader of the release reads is in it as a whole.
LEMMA ReadWhole ==
  ASSUME WellFormed(content), NEW r, NEW id, NEW at, NEW u \in ReadObject(r, id, at)
  PROVE  /\ at = Pin[r] /\ InDataset(r, id) /\ u \in UnitsOf(r, id, Pin[r])
         /\ u \in content /\ u.repo = r /\ u.object = id /\ InRelease(u) /\ WhollyPublished(u)
<1>1. InScope(r, id, at) /\ u \in UnitsOf(r, id, at)
  BY DEF ReadObject
<1>2. at = Pin[r] /\ InDataset(r, id)
  BY <1>1 DEF InScope
<1> QED
  BY <1>1, <1>2, ScopeWhole

\* One unit lies at its address in the pinned tree, and in a file of the release.
LEMMA UnitRead ==
  ASSUME WellFormed(content), NEW r, NEW a, NEW u \in ReadUnit(r, a)
  PROVE  /\ u \in content /\ u.repo = r /\ u.object = a.object /\ Address(u) = a /\ InRelease(u)
         /\ InDataset(r, a.object) => WhollyPublished(u)
<1>1. Address(u) = a /\ u \in UnitsOf(r, a.object, Pin[r])
  BY DEF ReadUnit, UnitAt
<1>2. u \in content /\ u.repo = r /\ u.object = a.object /\ u.at = Pin[r]
  BY <1>1 DEF UnitsOf
<1>3. CASE InDataset(r, a.object)
  BY <1>1, <1>2, <1>3, ScopeWhole
<1>4. CASE ~ InDataset(r, a.object)
  <2>1. PathAllowed(r, u.path)
    BY <1>4 DEF ReadUnit, UnitAt
  <2> QED
    BY <1>1, <1>2, <1>4, <2>1 DEF InRelease
<1> QED
  BY <1>3, <1>4

\* The schemas that bind an aspect are read in the release.
LEMMA BoundRead ==
  ASSUME WellFormed(content), NEW r, NEW a, NEW s \in Matching(r, a)
  PROVE  /\ s \in content /\ s.repo = r /\ s.object \in Schemas /\ s.at = Pin[r]
         /\ InRelease(s) /\ WhollyPublished(s)
         /\ s.body.origin # None /\ s.body.aspect = a.aspect
         /\ EntityOf(r, a.object) # None => s.body.entity = EntityOf(r, a.object)
<1>1. /\ s \in BoundSchemas(r) /\ s.body.aspect = a.aspect
      /\ EntityOf(r, a.object) # None => s.body.entity = EntityOf(r, a.object)
  BY DEF Matching, SchemasFor
<1>2. PICK id \in SchemaIds(r) : s \in ReadObject(r, id, Pin[r])
  BY <1>1 DEF BoundSchemas
<1>3. s.body.origin # None
  BY <1>1 DEF BoundSchemas
<1>4. id \in Schemas
  BY DEF SchemaIds
<1>5. s \in content /\ s.repo = r /\ s.object = id /\ InRelease(s) /\ WhollyPublished(s)
  BY <1>2, ReadWhole
<1> QED
  BY <1>1, <1>3, <1>4, <1>5 DEF InRelease

\* A binding of the unit's own declaration comes from its schema and its descriptor.
LEMMA InstanceCase ==
  ASSUME NEW r, NEW a, InstanceBinding(r, a).code = None
  PROVE  LET u == One(ReadUnit(r, a))
             schema == InstanceOrigin(r, u)
         IN  /\ u \in ReadUnit(r, a) /\ u.source # "snapshot" /\ schema.code = None
             /\ InstanceBinding(r, a).origin = schema.origin
             /\ InstanceBinding(r, a).uses \subseteq
                  (schema.uses \cup ReadUnit(r, a)) \cup ReadObject(r, u.body.descriptor, Pin[r])
<1> DEFINE found == ReadUnit(r, a)
           u == One(found)
           schema == InstanceOrigin(r, u)
           descriptor == ReadObject(r, u.body.descriptor, Pin[r])
<1>1. schema = [code |-> schema.code, origin |-> schema.origin, uses |-> schema.uses]
  BY DEF InstanceOrigin, Refusal
<1>2. InstanceBinding(r, a) =
        IF found = {} \/ u.source = "snapshot" THEN Refusal("CAPABILITY_UNSATISFIED")
        ELSE IF schema.code # None THEN schema
        ELSE IF u.body.descriptor = None
           THEN [schema EXCEPT !.uses = @ \cup found]
        ELSE IF descriptor = {} THEN Refusal("KNOWLEDGE_REF_UNRESOLVED")
        ELSE [schema EXCEPT !.uses = (@ \cup found) \cup descriptor]
  BY DEF InstanceBinding
<1>3. Refusal("CAPABILITY_UNSATISFIED").code # None /\ Refusal("KNOWLEDGE_REF_UNRESOLVED").code # None
  BY DEF Refusal, None
<1>4. found # {} => u \in found
  BY OneIn
<1> HIDE DEF found, u, schema, descriptor
<1>5. found # {} /\ u.source # "snapshot" /\ schema.code = None
  BY <1>2, <1>3
<1>6. InstanceBinding(r, a).origin = schema.origin /\ InstanceBinding(r, a).uses \subseteq (schema.uses \cup found) \cup descriptor
  <2>1. CASE u.body.descriptor = None
    <3>1. InstanceBinding(r, a) = [schema EXCEPT !.uses = @ \cup found]
      BY <1>2, <1>5, <2>1
    <3>2. InstanceBinding(r, a).uses = schema.uses \cup found /\ InstanceBinding(r, a).origin = schema.origin
      BY <1>1, <3>1
    <3> QED
      BY <3>2
  <2>2. CASE u.body.descriptor # None
    <3>1. InstanceBinding(r, a) = [schema EXCEPT !.uses = (@ \cup found) \cup descriptor]
      BY <1>2, <1>3, <1>5, <2>2
    <3>2. /\ InstanceBinding(r, a).uses = (schema.uses \cup found) \cup descriptor
          /\ InstanceBinding(r, a).origin = schema.origin
      BY <1>1, <3>1
    <3> QED
      BY <3>2
  <2> QED
    BY <2>1, <2>2
<1> QED
  BY <1>4, <1>5, <1>6 DEF found, u, schema, descriptor

LEMMA InstanceScope ==
  ASSUME WellFormed(content), NEW r, NEW a, ReadObject(r, a.object, Pin[r]) # {},
         InstanceBinding(r, a).code = None, NEW v \in InstanceBinding(r, a).uses
  PROVE  v.repo = r /\ InRelease(v) /\ WhollyPublished(v)
<1> DEFINE u == One(ReadUnit(r, a))
           schema == InstanceOrigin(r, u)
<1>1. schema.code = None /\ v \in (schema.uses \cup ReadUnit(r, a)) \cup ReadObject(r, u.body.descriptor, Pin[r])
  BY InstanceCase
<1>2. CASE v \in ReadUnit(r, a)
  BY <1>2, ReadWhole, UnitRead
<1>3. CASE v \in ReadObject(r, u.body.descriptor, Pin[r])
  BY <1>3, ReadWhole
<1>4. CASE v \in schema.uses
  <2>1. v \in ReadObject(r, u.ref.object, RefAt(r, u.ref))
    BY <1>1, <1>4 DEF InstanceOrigin, Refusal
  <2> QED
    BY <2>1, ReadWhole
<1> QED
  BY <1>1, <1>2, <1>3, <1>4

\* Whatever tells where a value lives is in the release, schema and descriptor alike.
LEMMA BindingScope ==
  ASSUME WellFormed(content), NEW r, NEW a, Binding(r, a).code = None, NEW u \in Binding(r, a).uses
  PROVE  u.repo = r /\ InRelease(u) /\ WhollyPublished(u)
<1> DEFINE m == Matching(r, a)
<1>1. \A code : Refusal(code).uses = {}
  BY DEF Refusal
<1>2. ReadObject(r, a.object, Pin[r]) # {}
  BY <1>1 DEF Binding
<1>3. CASE m = {}
  <2>1. Binding(r, a) = InstanceBinding(r, a)
    BY <1>1, <1>3, FS_EmptySet DEF Binding
  <2> QED
    BY <1>2, <2>1, InstanceScope
<1>4. CASE m # {}
  <2>1. Binding(r, a).uses = m
    BY <1>1, <1>4 DEF Binding
  <2> QED
    BY <2>1, BoundRead
<1> QED
  BY <1>3, <1>4

\* A schema read for an object names one of its entities.
LEMMA EntityNamed ==
  ASSUME WellFormed(content), NEW r, NEW id, NEW u \in ReadObject(r, id, Pin[r]), u.ref # NoSchemaRef,
         NEW d \in ReadObject(r, u.ref.object, RefAt(r, u.ref)), EntityOf(r, id) # None
  PROVE  d.body.entity = EntityOf(r, id)
<1> DEFINE refs == {v.ref : v \in ReadObject(r, id, Pin[r])} \ {NoSchemaRef}
           read == UNION {ReadObject(r, f.object, RefAt(r, f)) : f \in refs}
           all == {s.body.entity : s \in read}
           named == all \ {None}
<1>1. EntityOf(r, id) = IF Cardinality(named) = 1 THEN One(named) ELSE None
  BY DEF EntityOf
<1>2. u.ref \in refs
  BY DEF ReadObject
<1>3. d \in read
  BY <1>2
<1>4. u.ref.object \in Schemas
  BY ReadWhole DEF WellFormed
<1>5. d \in content /\ d.object \in Schemas
  BY <1>4, ReadWhole
<1>6. d.body.entity \in named
  BY <1>3, <1>5 DEF WellFormed
<1>7. IsFiniteSet(named)
  <2>1. read \subseteq content
    BY ReadWhole
  <2>2. IsFiniteSet(read)
    BY <2>1, FS_Subset DEF WellFormed
  <2> DEFINE e == [s \in read |-> s.body.entity]
  <2>3. e \in Surjection(read, all)
    BY DEF Surjection
  <2>4. IsFiniteSet(all)
    BY <2>2, <2>3, FS_Surjection
  <2> QED
    BY <2>4, FS_Subset
<1>8. PICK e : named = {e}
  BY <1>1, <1>7, FS_Singleton
<1>9. One(named) \in named
  BY <1>8, OneIn
<1> HIDE DEF named
<1> QED
  BY <1>1, <1>6, <1>8, <1>9

\* Where a dataset reader is sent to is where the projection of the whole repository looks.
LEMMA BindingAgrees ==
  ASSUME WellFormed(content), NEW r, NEW a, Binding(r, a).code = None, Binding(r, a).origin # None,
         NEW entities, None \notin entities,
         Cardinality(entities) = 1 => EntityOf(r, a.object) \in entities,
         NEW t \in SchemaUnits(r), t.body.origin # None, t.body.aspect = a.aspect,
         \A s \in SchemaUnits(r) :
           s.body.origin # None /\ s.body.aspect = a.aspect /\ (Cardinality(entities) = 1 => s.body.entity \in entities)
             => s = t
  PROVE  Binding(r, a).origin = t.body.origin
<1> DEFINE m == Matching(r, a)
<1>1. \A code : code # None => Refusal(code).code # None
  BY DEF Refusal
<1>2. /\ ReadObject(r, a.object, Pin[r]) # {} /\ ~ Cardinality(m) > 1
      /\ Binding(r, a) = IF m = {} THEN InstanceBinding(r, a)
                         ELSE [code |-> None, origin |-> One(m).body.origin, uses |-> m]
  BY <1>1 DEF Binding, None
<1>3. Cardinality(entities) = 1 => EntityOf(r, a.object) # None
  OBVIOUS
<1>4. CASE m # {}
  <2>1. One(m) \in m
    BY <1>4, OneIn
  <2>2. One(m) \in SchemaUnits(r) /\ One(m).body.origin # None /\ One(m).body.aspect = a.aspect
    BY <2>1, BoundRead DEF SchemaUnits
  <2>3. Cardinality(entities) = 1 => One(m).body.entity = EntityOf(r, a.object)
    BY <2>1, <1>3, BoundRead
  <2>4. One(m) = t
    BY <2>2, <2>3
  <2> QED
    BY <1>2, <1>4, <2>4
<1>5. CASE m = {}
  <2> DEFINE u == One(ReadUnit(r, a))
             schema == InstanceOrigin(r, u)
             read == ReadObject(r, u.ref.object, RefAt(r, u.ref))
  <2>1. u \in ReadUnit(r, a) /\ schema.code = None /\ schema.origin = Binding(r, a).origin
    BY <1>2, <1>5, InstanceCase
  <2>2. u.ref # NoSchemaRef /\ read # {} /\ schema.origin = One(read).body.origin
    BY <1>1, <2>1 DEF InstanceOrigin, Refusal, None
  <2> DEFINE d == One(read)
  <2>3. d \in read
    BY <2>2, OneIn
  <2>4. /\ u \in content /\ u.repo = r /\ u.object = a.object /\ Address(u) = a /\ u.at = Pin[r]
    BY <2>1, UnitRead DEF InRelease
  <2>5. d \in content /\ d.repo = r /\ d.object = u.ref.object /\ d.at = Pin[r] /\ InDataset(r, d.object)
        /\ RefAt(r, u.ref) = Pin[r] /\ d \in UnitsOf(r, d.object, Pin[r])
    BY <2>3, ReadWhole DEF InRelease
  <2>6. d.object \in Schemas /\ d.body.origin # None
    BY <2>1, <2>2, <2>4, <2>5 DEF WellFormed
  <2>7. d.body.aspect = a.aspect
    <3>1. u.aspect = a.aspect
      BY <2>4 DEF Address
    <3>2. t \in content /\ t.repo = r /\ t.object \in Schemas
      BY DEF SchemaUnits
    <3> QED
      BY <2>4, <2>5, <2>6, <3>1, <3>2 DEF WellFormed
  <2>8. d \in SchemaUnits(r)
    BY <2>5, <2>6 DEF SchemaUnits
  <2>9. Cardinality(entities) # 1
    <3> SUFFICES ASSUME Cardinality(entities) = 1 PROVE FALSE
      OBVIOUS
    <3>1. u \in ReadObject(r, a.object, Pin[r])
      <4>1. InDataset(r, a.object)
        BY <1>2, ReadWhole
      <4> QED
        BY <2>4, <4>1 DEF ReadObject, InScope, UnitsOf
    <3>2. d.body.entity = EntityOf(r, a.object)
      BY <1>3, <2>2, <2>3, <3>1, EntityNamed
    <3>3. d.object \in SchemaIds(r) /\ d \in ReadObject(r, d.object, Pin[r])
      BY <2>5, <2>6 DEF SchemaIds, ReadObject, InScope
    <3>4. d \in BoundSchemas(r)
      BY <2>6, <3>3 DEF BoundSchemas
    <3>5. d \in m
      BY <2>7, <3>2, <3>4 DEF Matching, SchemasFor
    <3> QED
      BY <1>5, <3>5
  <2>10. d = t
    BY <2>6, <2>7, <2>8, <2>9
  <2> QED
    BY <2>1, <2>2, <2>10
<1> QED
  BY <1>4, <1>5

(***************************************************************************)
(* The inductive invariant.  Every part is one unit of the pinned tree, or  *)
(* an observation where the release's own binding of its address leads, and *)
(* then no unit of the tree stores it; what an object read must show is     *)
(* gathered, or waits for its origin, once its member was asked.            *)
(***************************************************************************)
\* No unit of the pinned tree holds a value at the address.
Unheld(r, a) == \A u \in content : u.repo = r /\ u.at = Pin[r] /\ Address(u) = a => u.source # "snapshot"

TreePart(kind, p) ==
    \E u \in content : /\ p = Pinned(u.repo, u) /\ InRelease(u)
                       /\ kind # "address" => WhollyPublished(u)
                       /\ kind # "inspect" => u.source = "snapshot"

OriginPart(kind, p) ==
    /\ kind # "inspect"
    /\ p = Observed(p.repo, p.address, Binding(p.repo, p.address))
    /\ Binding(p.repo, p.address).code = None /\ p.origin # None
    /\ Unheld(p.repo, p.address)

PartHolds(kind, p) == TreePart(kind, p) \/ OriginPart(kind, p)

\* What an object read must show of the tree, and that some part shows it.
Wanted(a, u) ==
    /\ u.object = a.object /\ u.at = Pin[u.repo] /\ WhollyPublished(u)
    /\ Selected(u.aspect, a.selector)
    /\ a.kind = "hit" => u.repo = a.repo

Shows(ps, u) == \E p \in ps : p.repo = u.repo /\ p.address = Address(u)

Asked == 1 .. (Len(Repositories) - Len(members))

AskShape(a) ==
    \/ a = NoAsk
    \/ a.kind \in {"read", "hit", "inspect"}
    \/ /\ a = [kind |-> "address", address |-> a.address, stored |-> a.stored, bound |-> a.bound]
       /\ a.stored \in BOOLEAN /\ a.bound \in BOOLEAN /\ (a.bound => ~ a.stored)

ServingTypeOK ==
    /\ content \in Contents /\ items \in Publications /\ AskShape(ask)
    /\ members \in Seq(MemberRepositories) /\ Len(members) <= Len(Repositories)
    /\ \A i \in 1 .. Len(members) : members[i] = Repositories[(Len(Repositories) - Len(members)) + i]
    /\ ask = NoAsk => owed = {} /\ parts = {}

OwedHolds ==
    owed # {} =>
      /\ ask.kind # "inspect" /\ Asked # {}
      /\ \A w \in owed : InDataset(MemberAsked, w.address.object) => Unheld(MemberAsked, w.address)

GatheredSoFar ==
    ask.kind \in {"read", "hit"} =>
      \A u \in content : Wanted(ask, u) =>
        \A j \in Asked : Repositories[j] = u.repo =>
          Shows(parts, u) \/ (u.repo = MemberAsked /\ Waiting(Address(u), u.source) \in owed)

StoredNowhere ==
    ask.kind = "address" /\ ~ ask.stored =>
      \A j \in 1 .. Len(Repositories) : j \in Asked \/ ask.bound => ReadUnit(Repositories[j], ask.address) = {}

AnswerHolds(g) ==
    /\ \A p \in g.parts : PartHolds(g.ask.kind, p)
    /\ g.ask.kind \in {"read", "hit"} /\ g.verdict = None =>
         \A u \in content : Wanted(g.ask, u) => Shows(g.parts, u)

ServingInv ==
    /\ ServingTypeOK /\ OwedHolds /\ GatheredSoFar /\ StoredNowhere
    /\ \A p \in parts : PartHolds(ask.kind, p)
    /\ \A g \in given : AnswerHolds(g)

-----------------------------------------------------------------------------
\* The invariant says what the answers must satisfy.
LEMMA ServingFollows == ASSUME ReleaseTaken, ServingInv PROVE ServingExact
<1>1. WellFormed(content)
  BY DEF ReleaseTaken, ServingInv, ServingTypeOK
<1>2. ScopeHolds
  <2> SUFFICES ASSUME NEW g \in given, NEW p \in g.parts, NEW u \in p.uses
               PROVE  /\ u.repo = p.repo /\ InRelease(u)
                      /\ WhollyPublished(u) \/ (g.ask.kind = "address" /\ p.origin = None)
    BY DEF ScopeHolds
  <2>1. PartHolds(g.ask.kind, p)
    BY DEF ServingInv, AnswerHolds
  <2>2. CASE TreePart(g.ask.kind, p)
    BY <2>2 DEF TreePart, Pinned
  <2>3. CASE OriginPart(g.ask.kind, p)
    <3>1. p.uses = Binding(p.repo, p.address).uses
      BY <2>3 DEF OriginPart, Observed
    <3> QED
      BY <1>1, <2>3, <3>1, BindingScope DEF OriginPart
  <2> QED
    BY <2>1, <2>2, <2>3 DEF PartHolds
<1>3. WholeOrNothing
  <2> SUFFICES ASSUME NEW g \in given, g.ask.kind \in {"read", "hit"}, g.verdict = None
               PROVE  /\ \A p \in g.parts : p.origin = None => \A u \in p.uses : u.source = "snapshot"
                      /\ \A u \in content : Wanted(g.ask, u) => Shows(g.parts, u)
    BY DEF WholeOrNothing, Wanted, Shows
  <2>1. AnswerHolds(g)
    BY DEF ServingInv
  <2>2. ASSUME NEW p \in g.parts, p.origin = None, NEW u \in p.uses PROVE u.source = "snapshot"
    <3>1. TreePart(g.ask.kind, p)
      BY <2>1, <2>2 DEF AnswerHolds, PartHolds, OriginPart
    <3> QED
      BY <2>2, <3>1 DEF TreePart, Pinned
  <2> QED
    BY <2>1, <2>2 DEF AnswerHolds
<1>4. OneMeaning
  <2> SUFFICES ASSUME NEW g \in given, NEW h \in given, NEW p \in g.parts, NEW q \in h.parts,
                      g.ask.kind # "inspect", h.ask.kind # "inspect",
                      p.repo = q.repo, p.address = q.address
               PROVE  p = q
    BY DEF OneMeaning
  <2>1. PartHolds(g.ask.kind, p) /\ PartHolds(h.ask.kind, q)
    BY DEF ServingInv, AnswerHolds
  <2>2. ASSUME NEW k, NEW l, NEW x, NEW y, TreePart(k, x), OriginPart(l, y), k # "inspect",
               x.repo = y.repo, x.address = y.address
        PROVE  FALSE
    <3>1. PICK u \in content : x = Pinned(u.repo, u) /\ InRelease(u) /\ u.source = "snapshot"
      BY <2>2 DEF TreePart
    <3> QED
      BY <2>2, <3>1 DEF OriginPart, Unheld, Pinned, InRelease
  <2>3. CASE TreePart(g.ask.kind, p) /\ TreePart(h.ask.kind, q)
    <3>1. PICK u \in content : p = Pinned(u.repo, u) /\ InRelease(u)
      BY <2>3 DEF TreePart
    <3>2. PICK v \in content : q = Pinned(v.repo, v) /\ InRelease(v)
      BY <2>3 DEF TreePart
    <3>3. u.repo = v.repo /\ Address(u) = Address(v) /\ u.at = v.at
      BY <3>1, <3>2 DEF Pinned, InRelease
    <3>4. u = v
      BY <1>1, <3>3 DEF WellFormed
    <3> QED
      BY <3>1, <3>2, <3>4
  <2>4. CASE OriginPart(g.ask.kind, p) /\ OriginPart(h.ask.kind, q)
    BY <2>4 DEF OriginPart
  <2> QED
    BY <2>1, <2>2, <2>3, <2>4 DEF PartHolds
<1>5. ReadsLikeProjection
  <2> SUFFICES ASSUME NEW g \in given, NEW p \in g.parts, p.origin # None
               PROVE  LET entities == WholeEntities(p.repo, p.address.object)
                          binding == {s \in SchemaUnits(p.repo) :
                             /\ s.body.origin # None /\ s.body.aspect = p.address.aspect
                             /\ Cardinality(entities) = 1 => s.body.entity \in entities}
                      IN  (Cardinality(entities) = 1 => EntityOf(p.repo, p.address.object) \in entities)
                            /\ Cardinality(binding) = 1
                          => \A s \in binding : s.body.origin = p.origin
    BY Zenon DEF ReadsLikeProjection
  <2> DEFINE entities == WholeEntities(p.repo, p.address.object)
             binding == {s \in SchemaUnits(p.repo) :
                             /\ s.body.origin # None /\ s.body.aspect = p.address.aspect
                             /\ Cardinality(entities) = 1 => s.body.entity \in entities}
  <2>1. OriginPart(g.ask.kind, p)
    <3>1. PartHolds(g.ask.kind, p)
      BY DEF ServingInv, AnswerHolds
    <3> QED
      BY <3>1 DEF PartHolds, TreePart, Pinned
  <2>2. /\ p.origin = Binding(p.repo, p.address).origin
        /\ Binding(p.repo, p.address).code = None /\ Binding(p.repo, p.address).origin # None
    BY <2>1 DEF OriginPart, Observed
  <2>3. None \notin entities
    BY <1>1 DEF WholeEntities, SchemaUnits, WellFormed
  <2>4. IsFiniteSet(binding)
    <3>1. binding \subseteq content
      BY DEF SchemaUnits
    <3> QED
      BY <1>1, <3>1, FS_Subset DEF WellFormed
  <2> SUFFICES ASSUME Cardinality(entities) = 1 => EntityOf(p.repo, p.address.object) \in entities,
                      Cardinality(binding) = 1, NEW t \in binding
               PROVE  t.body.origin = p.origin
    OBVIOUS
  <2>5. \A s \in binding : s = t
    <3> HIDE DEF binding
    <3> QED
      BY <2>4, FS_Singleton
  <2>6. t \in SchemaUnits(p.repo) /\ t.body.origin # None /\ t.body.aspect = p.address.aspect
    OBVIOUS
  <2>7. \A s \in SchemaUnits(p.repo) :
          /\ s.body.origin # None /\ s.body.aspect = p.address.aspect
          /\ Cardinality(entities) = 1 => s.body.entity \in entities
          => s = t
    BY <2>5
  <2> HIDE DEF entities, binding
  <2>8. Binding(p.repo, p.address).origin = t.body.origin
    BY <1>1, <2>2, <2>3, <2>6, <2>7, BindingAgrees
  <2> QED
    BY <2>2, <2>8
<1> QED
  BY <1>2, <1>3, <1>4, <1>5 DEF ServingExact

\* Nothing a reader derives from the pinned trees changes while it is served.
LEMMA ReadsStay ==
  ASSUME content' = content, items' = items
  PROVE  /\ \A r, id, at : UnitsOf(r, id, at)' = UnitsOf(r, id, at)
         /\ \A r, path : PathAllowed(r, path)' <=> PathAllowed(r, path)
         /\ \A r, id : InDataset(r, id)' <=> InDataset(r, id)
         /\ \A r, id, at : ReadObject(r, id, at)' = ReadObject(r, id, at)
         /\ \A r, a : ReadUnit(r, a)' = ReadUnit(r, a)
         /\ \A u : InRelease(u)' <=> InRelease(u)
         /\ \A u : WhollyPublished(u)' <=> WhollyPublished(u)
<1>1. ASSUME NEW r, NEW id, NEW at PROVE UnitsOf(r, id, at)' = UnitsOf(r, id, at)
  BY DEF UnitsOf
<1>2. ASSUME NEW r, NEW path PROVE PathAllowed(r, path)' <=> PathAllowed(r, path)
  BY DEF PathAllowed
<1>3. ASSUME NEW r PROVE Restricts(r)' <=> Restricts(r)
  BY DEF Restricts
<1>4. ASSUME NEW r, NEW id PROVE InDataset(r, id)' <=> InDataset(r, id)
  BY <1>1, <1>2, <1>3 DEF InDataset
<1>5. ASSUME NEW r, NEW id, NEW at PROVE ReadObject(r, id, at)' = ReadObject(r, id, at)
  BY <1>1, <1>4 DEF ReadObject, InScope
<1>6. ASSUME NEW r, NEW a PROVE ReadUnit(r, a)' = ReadUnit(r, a)
  BY <1>1, <1>2, <1>4 DEF ReadUnit, UnitAt
<1>7. ASSUME NEW u PROVE InRelease(u)' <=> InRelease(u)
  BY <1>2 DEF InRelease
<1>8. ASSUME NEW u PROVE WhollyPublished(u)' <=> WhollyPublished(u)
  BY <1>1, <1>7 DEF WhollyPublished
<1> QED
  BY <1>1, <1>2, <1>4, <1>5, <1>6, <1>7, <1>8

LEMMA BindingStays ==
  ASSUME content' = content, items' = items, NEW r, NEW a
  PROVE  Binding(r, a)' = Binding(r, a)
<1>1. \A id, at : ReadObject(r, id, at)' = ReadObject(r, id, at)
  BY ReadsStay
<1>2. SchemaIds(r)' = SchemaIds(r)
  BY ReadsStay DEF SchemaIds
<1>3. BoundSchemas(r)' = BoundSchemas(r)
  BY <1>1, <1>2 DEF BoundSchemas
<1>4. EntityOf(r, a.object)' = EntityOf(r, a.object)
  BY <1>1 DEF EntityOf
<1>5. Matching(r, a)' = Matching(r, a)
  BY <1>3, <1>4 DEF Matching, SchemasFor
<1>6. ASSUME NEW u PROVE InstanceOrigin(r, u)' = InstanceOrigin(r, u)
  BY <1>1 DEF InstanceOrigin
<1>7. InstanceBinding(r, a)' = InstanceBinding(r, a)
  BY <1>1, <1>6, ReadsStay DEF InstanceBinding
<1> QED
  BY <1>1, <1>5, <1>7 DEF Binding

LEMMA PartsStay ==
  ASSUME content' = content, items' = items
  PROVE  /\ \A r, a : Unheld(r, a)' <=> Unheld(r, a)
         /\ \A k, p : PartHolds(k, p)' <=> PartHolds(k, p)
         /\ \A a, u : Wanted(a, u)' <=> Wanted(a, u)
         /\ \A g : AnswerHolds(g)' <=> AnswerHolds(g)
<1>1. ASSUME NEW r, NEW a PROVE Unheld(r, a)' <=> Unheld(r, a)
  BY DEF Unheld
<1>2. ASSUME NEW k, NEW p PROVE TreePart(k, p)' <=> TreePart(k, p)
  BY ReadsStay DEF TreePart
<1>3. ASSUME NEW k, NEW p PROVE OriginPart(k, p)' <=> OriginPart(k, p)
  <2>1. Binding(p.repo, p.address)' = Binding(p.repo, p.address)
    BY BindingStays
  <2> QED
    BY <1>1, <2>1 DEF OriginPart
<1>4. ASSUME NEW a, NEW u PROVE Wanted(a, u)' <=> Wanted(a, u)
  BY ReadsStay DEF Wanted
<1>5. ASSUME NEW g PROVE AnswerHolds(g)' <=> AnswerHolds(g)
  BY <1>2, <1>3, <1>4 DEF AnswerHolds, PartHolds
<1> QED
  BY <1>1, <1>2, <1>3, <1>4, <1>5 DEF PartHolds

-----------------------------------------------------------------------------
LEMMA ServingStart == ASSUME ReleaseTaken, ServingInit PROVE ServingInv
<1>1. members \in Seq(MemberRepositories) /\ Len(members) = 0
  BY DEF ServingInit
<1>2. Len(Repositories) \in Nat
  BY DEF ReleaseTaken
<1>3. ask.kind = None
  BY DEF ServingInit, NoAsk
<1>4. ServingTypeOK
  BY <1>1, <1>2 DEF ServingTypeOK, ServingInit, AskShape
<1> QED
  BY <1>3, <1>4 DEF ServingInv, ServingInit, OwedHolds, GatheredSoFar, StoredNowhere, None

\* The next member in turn.
LEMMA NextMember ==
  ASSUME ReleaseTaken, ServingInv, Turn, members' = Tail(members)
  PROVE  /\ members' \in Seq(MemberRepositories) /\ Len(members') <= Len(Repositories)
         /\ \A i \in 1 .. Len(members') :
              members'[i] = Repositories[(Len(Repositories) - Len(members')) + i]
         /\ \A j \in Asked' : j \in Asked \/ Repositories[j] = Member
         /\ Asked' # {} /\ MemberAsked' = Member /\ Member \in MemberRepositories
<1>1. /\ members \in Seq(MemberRepositories) /\ members # <<>> /\ Len(members) <= Len(Repositories)
      /\ \A i \in 1 .. Len(members) : members[i] = Repositories[(Len(Repositories) - Len(members)) + i]
      /\ Len(Repositories) \in Nat
  BY DEF ServingInv, ServingTypeOK, Turn, ReleaseTaken
<1>2. /\ members' \in Seq(MemberRepositories) /\ Len(members') = Len(members) - 1 /\ Len(members) \in Nat \ {0}
      /\ \A i \in 1 .. Len(members') : members'[i] = members[i + 1]
      /\ Head(members) = members[1] /\ members[1] \in MemberRepositories
  BY <1>1
<1>3. \A i \in 1 .. Len(members') : members'[i] = Repositories[(Len(Repositories) - Len(members')) + i]
  BY <1>1, <1>2
<1>4. Len(Repositories) - Len(members') = (Len(Repositories) - Len(members)) + 1
  BY <1>1, <1>2
<1>5. Member = Repositories[Len(Repositories) - Len(members')]
  BY <1>1, <1>2, <1>4 DEF Member
<1>6. \A j \in Asked' : j \in Asked \/ j = Len(Repositories) - Len(members')
  BY <1>1, <1>2, <1>4 DEF Asked
<1>7. 1 \in Asked'
  BY <1>1, <1>2, <1>4 DEF Asked
<1> QED
  BY <1>1, <1>2, <1>3, <1>5, <1>6, <1>7 DEF MemberAsked, Member

\* An answer of whose parts each holds, and whole where it is given.
LEMMA RespondKeeps ==
  ASSUME ReleaseTaken, ServingInv, content' = content, items' = items,
         NEW verdict, NEW gathered, Respond(verdict, gathered),
         AnswerHolds([ask |-> ask, verdict |-> verdict, parts |-> gathered])
  PROVE  ServingInv'
<1>1. /\ given' = given \cup {[ask |-> ask, verdict |-> verdict, parts |-> gathered]}
      /\ ask' = NoAsk /\ members' = <<>> /\ owed' = {} /\ parts' = {}
  BY DEF Respond
<1>2. members' \in Seq(MemberRepositories) /\ Len(members') = 0
  BY <1>1
<1>3. Len(Repositories) \in Nat
  BY DEF ReleaseTaken
<1>4. ask'.kind = None
  BY <1>1 DEF NoAsk
<1>5. content' \in Contents /\ items' \in Publications
  BY DEF ServingInv, ServingTypeOK
<1>6. ServingTypeOK'
  BY <1>1, <1>2, <1>3, <1>5 DEF ServingTypeOK, AskShape
<1>7. \A g \in given' : AnswerHolds(g)'
  BY <1>1, PartsStay DEF ServingInv
<1>8. (OwedHolds /\ GatheredSoFar /\ StoredNowhere)'
  BY <1>1, <1>4 DEF OwedHolds, GatheredSoFar, StoredNowhere, None
<1> QED
  BY <1>1, <1>6, <1>7, <1>8 DEF ServingInv

LEMMA RefusalHolds ==
  ASSUME NEW verdict, verdict # None
  PROVE  AnswerHolds([ask |-> ask, verdict |-> verdict, parts |-> {}])
  BY DEF AnswerHolds

LEMMA StartServes == ASSUME ReleaseTaken, ServingInv, Start PROVE ServingInv'
<1>1. /\ ask = NoAsk /\ ask' \in Asks /\ members' = Repositories
      /\ content' = content /\ items' = items /\ owed' = owed /\ parts' = parts /\ given' = given
  BY DEF Start
<1>2. owed = {} /\ parts = {}
  BY <1>1 DEF ServingInv, ServingTypeOK
<1>3. WellPosed(ask')
  BY <1>1 DEF ReleaseTaken
<1>4. AskShape(ask') /\ (ask'.kind = "address" => ~ ask'.bound)
  <2>1. CASE ask'.kind \in {"read", "hit", "inspect"}
    BY <2>1 DEF AskShape
  <2>2. CASE ask' = [kind |-> "address", address |-> ask'.address, stored |-> FALSE, bound |-> FALSE]
    <3>1. ask'.stored = FALSE /\ ask'.bound = FALSE
      BY <2>2
    <3> QED
      BY <2>2, <3>1 DEF AskShape
  <2> QED
    BY <1>3, <2>1, <2>2 DEF WellPosed
<1>5. Repositories \in Seq(MemberRepositories) /\ Len(Repositories) \in Nat
  BY DEF ReleaseTaken
<1>6. Asked' = {}
  BY <1>1, <1>5 DEF Asked
<1>7. ServingTypeOK'
  BY <1>1, <1>2, <1>4, <1>5 DEF ServingInv, ServingTypeOK, AskShape
<1>8. (OwedHolds /\ GatheredSoFar /\ StoredNowhere)'
  BY <1>1, <1>2, <1>4, <1>6 DEF OwedHolds, GatheredSoFar, StoredNowhere
<1>9. \A g \in given' : AnswerHolds(g)'
  BY <1>1, PartsStay DEF ServingInv
<1> QED
  BY <1>1, <1>2, <1>7, <1>8, <1>9 DEF ServingInv

LEMMA FinishServes == ASSUME ReleaseTaken, ServingInv, Finish PROVE ServingInv'
<1>1. /\ ask # NoAsk /\ owed = {} /\ members = <<>> /\ Respond(None, parts)
      /\ content' = content /\ items' = items
  BY DEF Finish
<1>2. ASSUME ask.kind \in {"read", "hit"}, NEW u \in content, Wanted(ask, u) PROVE Shows(parts, u)
  <2>1. u.repo \in MemberRepositories
    BY DEF ServingInv, ServingTypeOK, ReleaseTaken, WellFormed
  <2>2. Asked = DOMAIN Repositories
    BY <1>1 DEF Asked, ReleaseTaken
  <2>3. PICK j \in Asked : Repositories[j] = u.repo
    BY <2>1, <2>2 DEF MemberRepositories
  <2> QED
    BY <1>1, <1>2, <2>3 DEF ServingInv, GatheredSoFar
<1>3. AnswerHolds([ask |-> ask, verdict |-> None, parts |-> parts])
  BY <1>2 DEF AnswerHolds, ServingInv
<1> QED
  BY <1>1, <1>3, RespondKeeps

\* A member was asked: what it answered and what waits hold, and none of it is missing.
LEMMA Advances ==
  ASSUME ReleaseTaken, ServingInv, Turn, members' = Tail(members),
         content' = content, items' = items, given' = given,
         ask' = ask \/ (ask.kind = "address" /\ ask'.kind = "address" /\ ask'.stored /\ AskShape(ask')),
         parts \subseteq parts', \A p \in parts' : PartHolds(ask.kind, p),
         owed' # {} => ask.kind # "inspect",
         \A w \in owed' : InDataset(Member, w.address.object) => Unheld(Member, w.address),
         ask.kind \in {"read", "hit"} =>
           \A u \in content : Wanted(ask, u) /\ u.repo = Member =>
             Shows(parts', u) \/ Waiting(Address(u), u.source) \in owed',
         ask.kind = "address" /\ ~ ask'.stored => ask.bound \/ ReadUnit(Member, ask.address) = {}
  PROVE  ServingInv'
<1>1. /\ members' \in Seq(MemberRepositories) /\ Len(members') <= Len(Repositories)
      /\ \A i \in 1 .. Len(members') :
           members'[i] = Repositories[(Len(Repositories) - Len(members')) + i]
      /\ \A j \in Asked' : j \in Asked \/ Repositories[j] = Member
      /\ Asked' # {} /\ MemberAsked' = Member
  BY NextMember
<1>2. ask # NoAsk /\ owed = {} /\ ask'.kind = ask.kind /\ ask' # NoAsk /\ AskShape(ask')
  <2>1. ask # NoAsk /\ owed = {} /\ AskShape(ask)
    BY DEF Turn, ServingInv, ServingTypeOK
  <2>2. CASE ask' = ask
    BY <2>1, <2>2
  <2>3. CASE ask.kind = "address" /\ ask'.kind = "address" /\ AskShape(ask')
    <3>1. NoAsk.kind # "address"
      BY DEF NoAsk, None
    <3>2. ask' # NoAsk
      BY <2>3, <3>1
    <3> QED
      BY <2>1, <2>3, <3>2
  <2> QED
    BY <2>1, <2>2, <2>3
<1>3. ServingTypeOK'
  BY <1>1, <1>2 DEF ServingInv, ServingTypeOK, AskShape
<1>4. OwedHolds'
  <2>1. \A id : InDataset(MemberAsked, id)' <=> InDataset(Member, id)
    <3>1. \A id : InDataset(MemberAsked, id)' <=> InDataset(MemberAsked', id)
      BY ReadsStay
    <3> QED
      BY <1>1, <3>1
  <2>2. \A a : Unheld(MemberAsked, a)' <=> Unheld(Member, a)
    <3>1. \A a : Unheld(MemberAsked, a)' <=> Unheld(MemberAsked', a)
      BY PartsStay
    <3> QED
      BY <1>1, <3>1
  <2> QED
    BY <1>1, <1>2, <2>1, <2>2 DEF OwedHolds
<1>5. GatheredSoFar'
  <2> SUFFICES ASSUME ask.kind \in {"read", "hit"}, NEW u \in content, Wanted(ask, u),
                      NEW j \in Asked', Repositories[j] = u.repo
               PROVE  Shows(parts', u) \/ (u.repo = Member /\ Waiting(Address(u), u.source) \in owed')
    <3>1. ask.kind \in {"read", "hit"} => ask' = ask
      OBVIOUS
    <3>2. \A u : Wanted(ask, u)' <=> Wanted(ask', u)
      BY PartsStay
    <3>3. \A u : Shows(parts, u)' <=> Shows(parts', u)
      BY DEF Shows
    <3> QED
      BY <1>1, <1>2, <3>1, <3>2, <3>3 DEF GatheredSoFar
  <2>1. CASE j \in Asked
    <3>1. Shows(parts, u)
      BY <1>2, <2>1 DEF ServingInv, GatheredSoFar
    <3> QED
      BY <3>1 DEF Shows
  <2>2. CASE Repositories[j] = Member
    BY <2>2
  <2> QED
    BY <1>1, <2>1, <2>2
<1>6. StoredNowhere'
  <2> SUFFICES ASSUME ask'.kind = "address", ~ ask'.stored, NEW j \in 1 .. Len(Repositories), j \in Asked' \/ ask'.bound
               PROVE  ReadUnit(Repositories[j], ask.address) = {}
    <3>1. ask'.kind = "address" /\ ~ ask'.stored => ask' = ask
      OBVIOUS
    <3>2. \A r, a : ReadUnit(r, a)' = ReadUnit(r, a)
      BY ReadsStay
    <3> QED
      BY <3>1, <3>2 DEF StoredNowhere
  <2>1. ask' = ask
    OBVIOUS
  <2>2. CASE j \in Asked \/ ask.bound
    BY <2>1, <2>2 DEF ServingInv, StoredNowhere
  <2>3. CASE j \notin Asked /\ ~ ask.bound
    BY <1>1, <2>1, <2>3
  <2> QED
    BY <2>2, <2>3
<1>7. \A g \in given' : AnswerHolds(g)'
  BY PartsStay DEF ServingInv
<1>8. \A p \in parts' : PartHolds(ask.kind, p)'
  <2>1. \A p : PartHolds(ask.kind, p)' <=> PartHolds(ask'.kind, p)
    BY PartsStay
  <2> QED
    BY <1>2, <2>1
<1> QED
  BY <1>3, <1>4, <1>5, <1>6, <1>7, <1>8 DEF ServingInv

\* A unit of the tree that declares its value to live elsewhere is the only one at its address.
LEMMA ElsewhereUnheld ==
  ASSUME WellFormed(content), NEW u \in content, u.at = Pin[u.repo], u.source # "snapshot"
  PROVE  Unheld(u.repo, Address(u))
  BY DEF Unheld, WellFormed

LEMMA GathersServe ==
  ASSUME ReleaseTaken, ServingInv, Turn, ask.kind \in {"read", "hit"},
         InDataset(Member, ask.object), GatherObject(Member, UnitsOf(Member, ask.object, Pin[Member])),
         members' = Tail(members), content' = content, items' = items, given' = given, ask' = ask
  PROVE  ServingInv'
<1> DEFINE units == UnitsOf(Member, ask.object, Pin[Member])
<1>1. WellFormed(content)
  BY DEF ReleaseTaken, ServingInv, ServingTypeOK
<1>2. \A u \in units : /\ u \in content /\ u.repo = Member /\ u.object = ask.object /\ u.at = Pin[Member]
                        /\ InRelease(u) /\ WhollyPublished(u)
  BY <1>1, ScopeWhole DEF InRelease
<1>3. ASSUME NEW p \in parts' PROVE PartHolds(ask.kind, p)
  <2>1. CASE p \in parts
    BY <2>1 DEF ServingInv
  <2>2. CASE p \notin parts
    <3>1. PICK u \in units : u.source = "snapshot" /\ p = Pinned(Member, u)
      BY <2>2 DEF GatherObject
    <3> QED
      BY <1>2, <3>1 DEF PartHolds, TreePart
  <2> QED
    BY <2>1, <2>2
<1>4. ASSUME NEW w \in owed' PROVE Unheld(Member, w.address)
  <2> DEFINE implied == {a \in ImpliedUnits(Member, ask.object, units) : Selected(a.aspect, ask.selector)}
  <2>1. \/ \E u \in units : u.source # "snapshot" /\ w = Waiting(Address(u), u.source)
        \/ \E a \in implied : w = Waiting(a, "state")
    BY DEF GatherObject
  <2>2. ASSUME NEW u \in units, u.source # "snapshot", w = Waiting(Address(u), u.source)
        PROVE  Unheld(Member, w.address)
    <3>1. w.address = Address(u)
      BY <2>2 DEF Waiting
    <3> QED
      BY <1>1, <1>2, <2>2, <3>1, ElsewhereUnheld
  <2>3. ASSUME NEW a \in implied, w = Waiting(a, "state")
        PROVE  Unheld(Member, w.address)
    <3>1. w.address = a
      BY <2>3 DEF Waiting
    <3>2. a.object = ask.object /\ \A u \in units : u.aspect # a.aspect
      BY DEF ImpliedUnits
    <3>3. \A u \in content : u.repo = Member /\ u.at = Pin[Member] /\ Address(u) = a => u \in units
      BY <3>2 DEF UnitsOf, Address
    <3>4. \A u \in content : ~ (u.repo = Member /\ u.at = Pin[Member] /\ Address(u) = a)
      BY <3>2, <3>3 DEF Address
    <3> QED
      BY <3>1, <3>4 DEF Unheld
  <2> QED
    BY <2>1, <2>2, <2>3
<1>5. ASSUME NEW u \in content, Wanted(ask, u), u.repo = Member
      PROVE  Shows(parts', u) \/ Waiting(Address(u), u.source) \in owed'
  <2>1. u \in units /\ Selected(u.aspect, ask.selector)
    BY <1>5 DEF Wanted, UnitsOf
  <2>2. CASE u.source = "snapshot"
    <3>1. Pinned(Member, u) \in parts'
      BY <2>1, <2>2 DEF GatherObject
    <3> QED
      BY <1>5, <3>1 DEF Shows, Pinned
  <2>3. CASE u.source # "snapshot"
    BY <2>1, <2>3 DEF GatherObject
  <2> QED
    BY <2>2, <2>3
<1>6. parts \subseteq parts'
  BY DEF GatherObject
<1> QED
  BY <1>3, <1>4, <1>5, <1>6, Advances

LEMMA ReadMemberServes == ASSUME ReleaseTaken, ServingInv, ReadMember PROVE ServingInv'
<1> DEFINE units == ReadObject(Member, ask.object, Pin[Member])
<1>1. /\ Turn /\ ask.kind = "read" /\ members' = Tail(members)
      /\ content' = content /\ items' = items /\ ask' = ask /\ given' = given
      /\ IF units = {} THEN parts' = parts /\ owed' = owed ELSE GatherObject(Member, units)
  BY DEF ReadMember
<1>2. WellFormed(content)
  BY DEF ReleaseTaken, ServingInv, ServingTypeOK
<1>3. CASE units # {}
  <2>1. InDataset(Member, ask.object) /\ units = UnitsOf(Member, ask.object, Pin[Member])
    BY <1>3 DEF ReadObject, InScope
  <2> QED
    BY <1>1, <1>3, <2>1, GathersServe
<1>4. CASE units = {}
  <2>1. owed = {} /\ parts' = parts /\ owed' = owed
    BY <1>1, <1>4 DEF Turn
  <2>2. ASSUME NEW u \in content, Wanted(ask, u), u.repo = Member PROVE FALSE
    <3>1. InDataset(Member, ask.object) /\ u \in UnitsOf(Member, ask.object, Pin[Member])
      BY <2>2, WholeScope DEF Wanted
    <3> QED
      BY <1>4, <3>1 DEF ReadObject, InScope
  <2>3. \A p \in parts' : PartHolds(ask.kind, p)
    BY <2>1 DEF ServingInv
  <2> QED
    BY <1>1, <2>1, <2>2, <2>3, Advances
<1> QED
  BY <1>3, <1>4

LEMMA HitMemberServes == ASSUME ReleaseTaken, ServingInv, HitMember PROVE ServingInv'
<1>1. Turn /\ ask.kind = "hit" /\ content' = content /\ items' = items
  BY DEF HitMember
<1>2. CASE Member # ask.repo
  <2>1. owed = {} /\ members' = Tail(members) /\ ask' = ask /\ owed' = owed /\ parts' = parts /\ given' = given
    BY <1>2 DEF HitMember, Turn
  <2>2. \A u : Wanted(ask, u) => u.repo # Member
    BY <1>1, <1>2 DEF Wanted
  <2>3. \A p \in parts' : PartHolds(ask.kind, p)
    BY <2>1 DEF ServingInv
  <2> QED
    BY <1>1, <2>1, <2>2, <2>3, Advances
<1>3. CASE Member = ask.repo /\ ~ InScope(Member, ask.object, ask.at)
  <2>1. Respond("KNOWLEDGE_REF_UNRESOLVED", {})
    BY <1>3 DEF HitMember
  <2>2. "KNOWLEDGE_REF_UNRESOLVED" # None
    BY DEF None
  <2> QED
    BY <1>1, <2>1, <2>2, RespondKeeps, RefusalHolds
<1>4. CASE Member = ask.repo /\ InScope(Member, ask.object, ask.at)
  <2>1. /\ GatherObject(Member, UnitsOf(Member, ask.object, ask.at))
        /\ members' = Tail(members) /\ ask' = ask /\ given' = given
    BY <1>4 DEF HitMember
  <2>2. ask.at = Pin[Member] /\ InDataset(Member, ask.object)
    BY <1>4 DEF InScope
  <2> QED
    BY <1>1, <2>1, <2>2, GathersServe
<1> QED
  BY <1>2, <1>3, <1>4

LEMMA AddressMemberServes == ASSUME ReleaseTaken, ServingInv, AddressMember PROVE ServingInv'
<1> DEFINE found == ReadUnit(Member, ask.address)
<1>1. /\ Turn /\ ask.kind = "address" /\ ~ ask.bound
      /\ parts' = parts \cup {Pinned(Member, u) : u \in {v \in found : v.source = "snapshot"}}
      /\ owed' = {Waiting(Address(u), u.source) : u \in {v \in found : v.source # "snapshot"}}
      /\ members' = Tail(members)
      /\ ask' = IF found = {} THEN ask ELSE [ask EXCEPT !.stored = TRUE]
      /\ content' = content /\ items' = items /\ given' = given
  BY DEF AddressMember
<1>2. WellFormed(content)
  BY DEF ReleaseTaken, ServingInv, ServingTypeOK
<1>3. \A u \in found : u \in content /\ u.repo = Member /\ u.at = Pin[Member] /\ InRelease(u)
  BY <1>2, UnitRead DEF InRelease
<1>4. ASSUME NEW p \in parts' PROVE PartHolds(ask.kind, p)
  <2>1. CASE p \in parts
    BY <2>1 DEF ServingInv
  <2>2. CASE p \notin parts
    <3>1. PICK u \in found : u.source = "snapshot" /\ p = Pinned(Member, u)
      BY <1>1, <2>2
    <3> QED
      BY <1>1, <1>3, <3>1 DEF PartHolds, TreePart
  <2> QED
    BY <2>1, <2>2
<1>5. ASSUME NEW w \in owed' PROVE Unheld(Member, w.address)
  <2>1. PICK u \in found : u.source # "snapshot" /\ w = Waiting(Address(u), u.source)
    BY <1>1
  <2>2. w.address = Address(u)
    BY <2>1 DEF Waiting
  <2> QED
    BY <1>2, <1>3, <2>1, <2>2, ElsewhereUnheld
<1>6. CASE found = {}
  <2>1. ask' = ask
    BY <1>1, <1>6
  <2> QED
    BY <1>1, <1>4, <1>5, <1>6, <2>1, Advances
<1>7. CASE found # {}
  <2>1. /\ ask = [kind |-> "address", address |-> ask.address, stored |-> ask.stored, bound |-> ask.bound]
        /\ ask.bound \in BOOLEAN
    <3>1. AskShape(ask) /\ ask # NoAsk
      BY <1>1 DEF ServingInv, ServingTypeOK, Turn
    <3> QED
      BY <1>1, <3>1 DEF AskShape
  <2>2. ask' = [kind |-> "address", address |-> ask.address, stored |-> TRUE, bound |-> FALSE]
    BY <1>1, <1>7, <2>1
  <2>3. ask'.kind = "address" /\ ask'.stored = TRUE /\ ask'.bound = FALSE /\ ask'.address = ask.address
    BY <2>2
  <2>4. AskShape(ask')
    BY <2>2, <2>3 DEF AskShape
  <2> QED
    BY <1>1, <1>4, <1>5, <2>3, <2>4, Advances
<1> QED
  BY <1>6, <1>7

LEMMA AddressUnstoredServes == ASSUME ReleaseTaken, ServingInv, AddressUnstored PROVE ServingInv'
<1>1. /\ ask.kind = "address" /\ ~ ask.stored /\ ~ ask.bound /\ owed = {} /\ members = <<>>
      /\ ask' = [ask EXCEPT !.bound = TRUE] /\ members' = Repositories
      /\ content' = content /\ items' = items /\ owed' = owed /\ parts' = parts /\ given' = given
  BY DEF AddressUnstored
<1>2. /\ ask = [kind |-> "address", address |-> ask.address, stored |-> ask.stored, bound |-> ask.bound]
      /\ ask.stored \in BOOLEAN
  <2>1. NoAsk.kind # "address"
    BY DEF NoAsk, None
  <2>2. AskShape(ask) /\ ask # NoAsk
    BY <1>1, <2>1 DEF ServingInv, ServingTypeOK
  <2> QED
    BY <1>1, <2>2 DEF AskShape
<1>3. ask' = [kind |-> "address", address |-> ask.address, stored |-> FALSE, bound |-> TRUE]
  BY <1>1, <1>2
<1>4. /\ ask'.kind = "address" /\ ask'.stored = FALSE /\ ask'.bound = TRUE /\ ask'.address = ask.address
      /\ AskShape(ask') /\ ask' # NoAsk
  <2>1. NoAsk.kind # "address"
    BY DEF NoAsk, None
  <2>2. ask'.kind = "address" /\ ask'.stored = FALSE /\ ask'.bound = TRUE /\ ask'.address = ask.address
    BY <1>3
  <2>3. AskShape(ask')
    BY <1>3, <2>2 DEF AskShape
  <2> QED
    BY <2>1, <2>2, <2>3
<1>5. Repositories \in Seq(MemberRepositories) /\ Len(Repositories) \in Nat
  BY DEF ReleaseTaken
<1>6. ServingTypeOK'
  BY <1>1, <1>4, <1>5 DEF ServingInv, ServingTypeOK
<1>7. OwedHolds' /\ GatheredSoFar'
  BY <1>1, <1>4 DEF OwedHolds, GatheredSoFar
<1>8. StoredNowhere'
  <2>1. \A j \in 1 .. Len(Repositories) : ReadUnit(Repositories[j], ask.address) = {}
    <3>1. Asked = 1 .. Len(Repositories)
      BY <1>1, <1>5 DEF Asked
    <3> QED
      BY <1>1, <3>1 DEF ServingInv, StoredNowhere
  <2>2. \A r, a : ReadUnit(r, a)' = ReadUnit(r, a)
    BY <1>1, ReadsStay
  <2>3. \A j : ReadUnit(Repositories[j], ask.address)' = ReadUnit(Repositories[j], ask'.address)
    BY <2>2
  <2> QED
    BY <1>4, <2>1, <2>3 DEF StoredNowhere
<1>9. /\ \A p \in parts' : PartHolds(ask.kind, p)'
      /\ \A g \in given' : AnswerHolds(g)'
  <2>1. \A p : PartHolds(ask.kind, p)' <=> PartHolds(ask'.kind, p)
    BY <1>1, PartsStay
  <2>2. ask'.kind = ask.kind
    BY <1>1, <1>4
  <2> QED
    BY <1>1, <2>1, <2>2, PartsStay DEF ServingInv
<1> QED
  BY <1>6, <1>7, <1>8, <1>9 DEF ServingInv

LEMMA BoundMemberServes == ASSUME ReleaseTaken, ServingInv, BoundMember PROVE ServingInv'
<1> DEFINE binding == Binding(Member, ask.address)
<1>1. Turn /\ ask.kind = "address" /\ ask.bound /\ owed = {} /\ content' = content /\ items' = items
  BY DEF BoundMember, Turn
<1>2. ~ ask.stored
  <2>1. AskShape(ask) /\ ask # NoAsk
    BY <1>1 DEF ServingInv, ServingTypeOK, Turn
  <2> QED
    BY <1>1, <2>1 DEF AskShape
<1>3. CASE binding.code \in {"CAPABILITY_UNSATISFIED", "KNOWLEDGE_REF_UNRESOLVED"}
  <2>1. members' = Tail(members) /\ ask' = ask /\ owed' = owed /\ parts' = parts /\ given' = given
    BY <1>3 DEF BoundMember
  <2>2. \A p \in parts' : PartHolds(ask.kind, p)
    BY <2>1 DEF ServingInv
  <2> QED
    BY <1>1, <2>1, <2>2, Advances
<1>4. CASE binding.code \notin {"CAPABILITY_UNSATISFIED", "KNOWLEDGE_REF_UNRESOLVED"} /\ binding.code # None
  <2>1. Respond(binding.code, {})
    BY <1>4 DEF BoundMember
  <2> QED
    BY <1>1, <1>4, <2>1, RespondKeeps, RefusalHolds
<1>5. CASE binding.code = None
  <2>1. /\ owed' = {Waiting(ask.address, "state")} /\ members' = Tail(members)
        /\ ask' = ask /\ parts' = parts /\ given' = given
    BY <1>5 DEF BoundMember, None
  <2>2. \A p \in parts' : PartHolds(ask.kind, p)
    BY <2>1 DEF ServingInv
  <2>3. ASSUME InDataset(Member, ask.address.object) PROVE Unheld(Member, ask.address)
    <3>1. Member \in MemberRepositories
      BY <1>1, <2>1, NextMember
    <3>2. PICK j \in 1 .. Len(Repositories) : Repositories[j] = Member
      BY <3>1 DEF MemberRepositories, ReleaseTaken
    <3>3. ReadUnit(Member, ask.address) = {}
      BY <1>1, <1>2, <3>2 DEF ServingInv, StoredNowhere
    <3>4. UnitAt(UnitsOf(Member, ask.address.object, Pin[Member]), ask.address) = {}
      BY <2>3, <3>3 DEF ReadUnit
    <3> QED
      BY <3>4 DEF Unheld, UnitAt, UnitsOf, Address
  <2>4. \A w \in owed' : w.address = ask.address
    BY <2>1 DEF Waiting
  <2> QED
    BY <1>1, <2>1, <2>2, <2>3, <2>4, Advances
<1> QED
  BY <1>3, <1>4, <1>5

LEMMA InspectMemberServes == ASSUME ReleaseTaken, ServingInv, InspectMember PROVE ServingInv'
<1> DEFINE found == Inspected(Member)
<1>1. Turn /\ ask.kind = "inspect" /\ owed = {} /\ content' = content /\ items' = items
  BY DEF InspectMember, Turn
<1>2. CASE found.code # None
  <2>1. Respond(found.code, {})
    BY <1>2 DEF InspectMember
  <2> QED
    BY <1>1, <1>2, <2>1, RespondKeeps, RefusalHolds
<1>3. CASE found.code = None
  <2>1. /\ parts' = parts \cup {Pinned(Member, u) : u \in found.uses}
        /\ members' = Tail(members) /\ ask' = ask /\ owed' = owed /\ given' = given
    BY <1>3 DEF InspectMember
  <2>2. ASSUME NEW u \in found.uses PROVE \E id, at : u \in ReadObject(Member, id, at)
    <3>1. \A code : Refusal(code).uses = {}
      BY DEF Refusal
    <3>2. \A units : Shown(units).uses = units
      BY DEF Shown
    <3> DEFINE refs == {v.ref : v \in ReadObject(Member, ask.object, Pin[Member])} \ {NoSchemaRef}
    <3>3. \/ u \in ReadObject(Member, ask.object, Pin[Member])
          \/ u \in SchemasOf(Member, refs).uses
      BY <2>2, <3>1, <3>2 DEF Inspected
    <3>4. CASE u \in SchemasOf(Member, refs).uses
      <4> HIDE DEF refs
      <4>1. u \in UNION {ReadObject(Member, f.object, RefAt(Member, f)) : f \in refs}
        BY <3>1, <3>2, <3>4 DEF SchemasOf
      <4> QED
        BY <4>1
    <3> QED
      BY <3>3, <3>4
  <2>3. WellFormed(content)
    BY DEF ReleaseTaken, ServingInv, ServingTypeOK
  <2>4. \A u \in found.uses : u \in content /\ u.repo = Member /\ InRelease(u) /\ WhollyPublished(u)
    BY <2>2, <2>3, ReadWhole
  <2>5. ASSUME NEW p \in parts' PROVE PartHolds(ask.kind, p)
    <3>1. CASE p \in parts
      BY <3>1 DEF ServingInv
    <3>2. CASE p \notin parts
      <4>1. PICK u \in found.uses : p = Pinned(Member, u)
        BY <2>1, <3>2
      <4> QED
        BY <1>1, <2>4, <4>1 DEF PartHolds, TreePart
    <3> QED
      BY <3>1, <3>2
  <2> HIDE DEF found
  <2>6. parts \subseteq parts'
    BY <2>1
  <2> QED
    BY <1>1, <2>1, <2>5, <2>6, Advances
<1> QED
  BY <1>2, <1>3

LEMMA LookupServes == ASSUME ReleaseTaken, ServingInv, NEW w \in owed, Lookup(w) PROVE ServingInv'
<1> DEFINE r == MemberAsked
           binding == Binding(r, w.address)
           refusal == IF w.source = "stream" THEN "CAPABILITY_UNSATISFIED"
                      ELSE IF ~ InDataset(r, w.address.object) THEN "KNOWLEDGE_REF_UNRESOLVED"
                      ELSE IF binding.code # None THEN binding.code
                      ELSE IF binding.origin = None THEN "CAPABILITY_UNSATISFIED"
                      ELSE None
           part == Observed(r, w.address, binding)
<1>1. /\ content' = content /\ items' = items
      /\ IF refusal # None THEN Respond(refusal, {})
         ELSE \/ /\ parts' = parts \cup {part}
                 /\ owed' = owed \ {w}
                 /\ ask' = ask /\ members' = members /\ given' = given
              \/ \E code \in OriginFailures : Respond(code, {})
  BY DEF Lookup
<1>2. CASE refusal # None
  <2> HIDE DEF refusal
  <2> QED
    BY <1>1, <1>2, RespondKeeps, RefusalHolds
<1>3. ASSUME NEW code \in OriginFailures, Respond(code, {}) PROVE ServingInv'
  <2>1. code # None
    BY DEF OriginFailures, None
  <2> QED
    BY <1>1, <1>3, <2>1, RespondKeeps, RefusalHolds
<1>4. CASE /\ refusal = None
           /\ parts' = parts \cup {part} /\ owed' = owed \ {w}
           /\ ask' = ask /\ members' = members /\ given' = given
  <2>1. InDataset(r, w.address.object) /\ binding.code = None /\ binding.origin # None
    <3>1. "CAPABILITY_UNSATISFIED" # None /\ "KNOWLEDGE_REF_UNRESOLVED" # None
      BY DEF None
    <3> HIDE DEF binding
    <3> QED
      BY <1>4, <3>1
  <2>2. ask.kind # "inspect" /\ Asked # {} /\ Unheld(r, w.address)
    BY <2>1 DEF ServingInv, OwedHolds
  <2>3. part.repo = r /\ part.address = w.address /\ part.origin = binding.origin
    BY DEF Observed
  <2>4. PartHolds(ask.kind, part)
    BY <2>1, <2>2, <2>3 DEF PartHolds, OriginPart
  <2> HIDE DEF part
  <2>5. \A p \in parts' : PartHolds(ask.kind, p)'
    <3>1. \A p : PartHolds(ask.kind, p)' <=> PartHolds(ask'.kind, p)
      BY <1>1, PartsStay
    <3> QED
      BY <1>4, <2>4, <3>1 DEF ServingInv
  <2>6. \A g \in given' : AnswerHolds(g)'
    BY <1>1, <1>4, PartsStay DEF ServingInv
  <2>7. ask # NoAsk
    BY DEF ServingInv, ServingTypeOK
  <2>8. ServingTypeOK'
    BY <1>1, <1>4, <2>7 DEF ServingInv, ServingTypeOK, AskShape
  <2>9. MemberAsked' = r /\ Asked' = Asked
    BY <1>4 DEF MemberAsked, Asked
  <2>10. OwedHolds'
    <3>1. \A id : InDataset(MemberAsked, id)' <=> InDataset(MemberAsked', id)
      BY <1>1, ReadsStay
    <3>2. \A a : Unheld(MemberAsked, a)' <=> Unheld(MemberAsked', a)
      BY <1>1, PartsStay
    <3>3. \A v \in owed' : InDataset(r, v.address.object) => Unheld(r, v.address)
      BY <1>4 DEF ServingInv, OwedHolds
    <3> QED
      BY <1>4, <2>2, <2>9, <3>1, <3>2, <3>3 DEF OwedHolds
  <2>11. GatheredSoFar'
    <3> SUFFICES ASSUME ask.kind \in {"read", "hit"}, NEW u \in content, Wanted(ask, u),
                        NEW j \in Asked, Repositories[j] = u.repo
                 PROVE  Shows(parts', u) \/ (u.repo = r /\ Waiting(Address(u), u.source) \in owed')
      <4>1. \A u : Wanted(ask, u)' <=> Wanted(ask', u)
        BY <1>1, PartsStay
      <4>2. \A u : Shows(parts, u)' <=> Shows(parts', u)
        BY DEF Shows
      <4> QED
        BY <1>1, <1>4, <2>9, <4>1, <4>2 DEF GatheredSoFar
    <3>1. Shows(parts, u) \/ (u.repo = r /\ Waiting(Address(u), u.source) \in owed)
      BY DEF ServingInv, GatheredSoFar
    <3>2. CASE Shows(parts, u)
      BY <1>4, <3>2 DEF Shows
    <3>3. CASE u.repo = r /\ Waiting(Address(u), u.source) = w
      <4>1. w.address = Address(u)
        BY <3>3 DEF Waiting
      <4> QED
        BY <1>4, <2>3, <3>3, <4>1 DEF Shows
    <3>4. CASE u.repo = r /\ Waiting(Address(u), u.source) \in owed \ {w}
      BY <1>4, <3>4
    <3> QED
      BY <3>1, <3>2, <3>3, <3>4
  <2>12. StoredNowhere'
    <3>1. \A j : ReadUnit(Repositories[j], ask.address)' = ReadUnit(Repositories[j], ask'.address)
      BY <1>1, ReadsStay
    <3> QED
      BY <1>4, <2>9, <3>1 DEF ServingInv, StoredNowhere
  <2> QED
    BY <2>5, <2>6, <2>8, <2>10, <2>11, <2>12 DEF ServingInv
<1> HIDE DEF refusal, part
<1> QED
  BY <1>1, <1>2, <1>3, <1>4

LEMMA ServingStutters == ASSUME ReleaseTaken, ServingInv, UNCHANGED servedVars PROVE ServingInv'
<1>1. /\ content' = content /\ items' = items /\ ask' = ask /\ members' = members
      /\ owed' = owed /\ parts' = parts /\ given' = given
  BY DEF servedVars
<1>2. MemberAsked' = MemberAsked /\ Asked' = Asked
  BY <1>1 DEF MemberAsked, Asked
<1>3. ServingTypeOK'
  BY <1>1 DEF ServingInv, ServingTypeOK, AskShape
<1>4. OwedHolds'
  <2>1. \A id : InDataset(MemberAsked, id)' <=> InDataset(MemberAsked', id)
    BY <1>1, ReadsStay
  <2>2. \A a : Unheld(MemberAsked, a)' <=> Unheld(MemberAsked', a)
    BY <1>1, PartsStay
  <2> QED
    BY <1>1, <1>2, <2>1, <2>2 DEF ServingInv, OwedHolds
<1>5. GatheredSoFar'
  <2>1. \A u : Wanted(ask, u)' <=> Wanted(ask', u)
    BY <1>1, PartsStay
  <2>2. \A u : Shows(parts, u)' <=> Shows(parts', u)
    BY DEF Shows
  <2> QED
    BY <1>1, <1>2, <2>1, <2>2 DEF ServingInv, GatheredSoFar
<1>6. StoredNowhere'
  <2>1. \A j : ReadUnit(Repositories[j], ask.address)' = ReadUnit(Repositories[j], ask'.address)
    BY <1>1, ReadsStay
  <2> QED
    BY <1>1, <1>2, <2>1 DEF ServingInv, StoredNowhere
<1>7. \A p \in parts' : PartHolds(ask.kind, p)'
  <2>1. \A p : PartHolds(ask.kind, p)' <=> PartHolds(ask'.kind, p)
    BY <1>1, PartsStay
  <2> QED
    BY <1>1, <2>1 DEF ServingInv
<1>8. \A g \in given' : AnswerHolds(g)'
  BY <1>1, PartsStay DEF ServingInv
<1> QED
  BY <1>3, <1>4, <1>5, <1>6, <1>7, <1>8 DEF ServingInv

LEMMA ServingPreserved == ReleaseTaken /\ ServingInv /\ [ServingNext]_servedVars => ServingInv'
<1> SUFFICES ASSUME ReleaseTaken, ServingInv, [ServingNext]_servedVars PROVE ServingInv'
  OBVIOUS
<1>1. CASE Start
  BY <1>1, StartServes
<1>2. CASE ReadMember
  BY <1>2, ReadMemberServes
<1>3. CASE HitMember
  BY <1>3, HitMemberServes
<1>4. CASE AddressMember
  BY <1>4, AddressMemberServes
<1>5. CASE AddressUnstored
  BY <1>5, AddressUnstoredServes
<1>6. CASE BoundMember
  BY <1>6, BoundMemberServes
<1>7. CASE InspectMember
  BY <1>7, InspectMemberServes
<1>8. ASSUME NEW w \in owed, Lookup(w) PROVE ServingInv'
  BY <1>8, LookupServes
<1>9. CASE Finish
  BY <1>9, FinishServes
<1>10. CASE UNCHANGED servedVars
  BY <1>10, ServingStutters
<1> QED
  BY <1>1, <1>2, <1>3, <1>4, <1>5, <1>6, <1>7, <1>8, <1>9, <1>10 DEF ServingNext

(***************************************************************************)
(* Everything a consumer of a dataset release is answered stays within the *)
(* release, whole or refused, the same by whatever request it is asked for, *)
(* and looked up where the projection of the whole repository looks:       *)
(* knowledge/reader/serving.go, dataset_repository.go and binding.go,      *)
(* knowledge/serving/serving.go.  For every release, tree, request and     *)
(* number of members.                                                      *)
(***************************************************************************)
THEOREM ServedAnswersExact == ServingSpec => []ServingExact
<1>1. ServingInit => ServingInv
  BY ReleaseAssumption, ServingStart
<1>2. ServingInv /\ [ServingNext]_servedVars => ServingInv'
  BY ReleaseAssumption, ServingPreserved
<1>3. ServingInv => ServingExact
  BY ReleaseAssumption, ServingFollows
<1> QED
  BY <1>1, <1>2, <1>3, PTL DEF ServingSpec

=============================================================================
