------------------------ MODULE LakeFSPublishProofs ------------------------
(***************************************************************************)
(* With mutating invocations serialized, as the service facade does, the   *)
(* lakeFS publication protocol implements the compare-and-swap ref for any *)
(* number of publishers, crashes and lost responses; with publishers that  *)
(* contend, a head has two winners only after a lock was stolen.           *)
(***************************************************************************)
EXTENDS LakeFSPublish, TLAPS

(* Every running publication has the head it expects until it resets it,   *)
(* and a candidate whose base is that head.                                *)
Running ==
    \A p \in Publishers : pub[p].pc # "idle" =>
      /\ OthersIdle(p)
      /\ archived = "no"
      /\ pub[p].candidate \in 1 .. Len(parent)
      /\ parent[pub[p].candidate] = pub[p].expected
      /\ pub[p].pc \in {"lock", "readBranch", "readLock", "check", "reset"} =>
           branch = pub[p].expected

IInv == PublicationTypeOK /\ branch \in 0 .. Len(parent) /\ Running

LEMMA TypeStep == PublicationTypeOK /\ [PublishNext]_publishVars => PublicationTypeOK'
<1> SUFFICES ASSUME PublicationTypeOK, [PublishNext]_publishVars PROVE PublicationTypeOK'
    OBVIOUS
<1>1. ASSUME NEW p \in Publishers, Prepare(p) PROVE PublicationTypeOK'
    BY <1>1 DEF PublicationTypeOK, Prepare, Discarded, Publication, PublishPCs
<1>2. ASSUME NEW p \in Publishers, PublishStep(p) PROVE PublicationTypeOK'
  <2>1. pub[p] \in Publication
      BY <1>2 DEF PublicationTypeOK, NotPublishing, PublishStep, AcquireLock, AcquireLockLost, ReadBranch, ReadLock,
           ClearLock, Check, HardReset, HardResetLost, Verify, VerifyLost, ReleaseLock
  <2> DEFINE Moved == \E pc \in PublishPCs : pub' = [pub EXCEPT ![p].pc = pc]
             Ended == \E pc \in PublishPCs, r \in {"ok", "error"} :
                        pub' = [pub EXCEPT ![p].pc = pc, ![p].result = r]
             PubType == pub' \in [Publishers -> Publication \cup {NotPublishing}]
  <2>2. Moved \/ Ended \/ pub' = [pub EXCEPT ![p] = NotPublishing] => PubType
    <3>1. CASE Moved
        BY <2>1, <3>1 DEF PublicationTypeOK, Publication
    <3>2. CASE Ended
      <4>1. PICK pc \in PublishPCs, r \in {"ok", "error"} :
                   pub' = [pub EXCEPT ![p].pc = pc, ![p].result = r]
          BY <3>2
      <4>2. [pub[p] EXCEPT !.pc = pc, !.result = r] \in Publication
          BY <2>1 DEF Publication
      <4>3. \A q \in Publishers : pub'[q] \in Publication \cup {NotPublishing}
          BY <4>1, <4>2 DEF PublicationTypeOK
      <4> QED BY <4>1, <4>3 DEF PublicationTypeOK
    <3>3. CASE pub' = [pub EXCEPT ![p] = NotPublishing]
        BY <3>3 DEF PublicationTypeOK
    <3> QED BY <3>1, <3>2, <3>3
  <2>3. CASE AcquireLock(p) \/ AcquireLockLost(p)
    <3>1. Moved \/ pub' = [pub EXCEPT ![p] = NotPublishing]
        BY <2>3 DEF AcquireLock, AcquireLockLost, PublishGoto, PublishReturn, PublishPCs
    <3>2. /\ lock' \in Nat \cup {NoLock} /\ acked' = acked /\ publishFaults' \in Nat
          /\ UNCHANGED <<branch, parent, archived, stolen>>
        BY <2>1, <2>3 DEF AcquireLock, AcquireLockLost, PublishReturn, PublishFault, PublicationTypeOK, Publication
    <3> QED BY <2>2, <3>1, <3>2 DEF PublicationTypeOK
  <2>4. CASE ReadBranch(p) \/ ReadLock(p)
    <3>1. CASE ReadBranch(p)
        BY <2>1, <3>1 DEF PublicationTypeOK, ReadBranch, Publication, PublishPCs
    <3>2. CASE ReadLock(p)
      <4>1. Ended \/ pub' = [pub EXCEPT ![p] = NotPublishing]
          BY <3>2 DEF ReadLock, Finish, PublishReturn, PublishPCs
      <4>2. acked' \subseteq Nat /\ UNCHANGED <<branch, lock, parent, archived, publishFaults, stolen>>
          BY <2>1, <3>2 DEF ReadLock, PublishReturn, PublicationTypeOK, Publication
      <4> QED BY <2>2, <4>1, <4>2 DEF PublicationTypeOK
    <3> QED BY <2>4, <3>1, <3>2
  <2>5. CASE Check(p) \/ HardReset(p) \/ HardResetLost(p) \/ Verify(p) \/ VerifyLost(p)
    <3>1. Moved \/ Ended
        BY <2>5 DEF Check, HardReset, HardResetLost, Verify, VerifyLost, PublishGoto, Finish, PublishPCs
    <3>2. /\ branch' \in Nat /\ publishFaults' \in Nat
          /\ UNCHANGED <<lock, parent, archived, acked, stolen>>
        BY <2>1, <2>5 DEF Check, HardReset, HardResetLost, Verify, VerifyLost, PublishFault, PublicationTypeOK,
             Publication
    <3> QED BY <2>2, <3>1, <3>2 DEF PublicationTypeOK
  <2>6. CASE ClearLock(p) \/ ReleaseLock(p)
    <3>1. /\ lock' \in Nat \cup {NoLock} /\ publishFaults' \in Nat /\ stolen' \in {"no", "yes"}
          /\ UNCHANGED <<branch, parent, archived>>
        BY <2>6 DEF ClearLock, ReleaseLock, DeleteLock, PublishFault, PublicationTypeOK
    <3>2. acked' \subseteq Nat
        BY <2>1, <2>6 DEF ClearLock, ReleaseLock, PublishReturn, PublicationTypeOK, Publication
    <3>3. pub' = [pub EXCEPT ![p] = NotPublishing]
        BY <2>6 DEF ClearLock, ReleaseLock, PublishReturn
    <3> QED BY <2>2, <3>1, <3>2, <3>3 DEF PublicationTypeOK
  <2> QED BY <1>2, <2>3, <2>4, <2>5, <2>6 DEF PublishStep
<1>3. ASSUME NEW p \in Publishers, PublisherCrash(p) PROVE PublicationTypeOK'
    BY <1>3 DEF PublicationTypeOK, PublisherCrash, PublishFault
<1>4. CASE Archive \/ UNCHANGED publishVars
    BY <1>4 DEF PublicationTypeOK, Archive, publishVars
<1> QED BY <1>1, <1>2, <1>3, <1>4 DEF PublishNext

(* The type invariant of the publication protocol.                         *)
THEOREM PublishTypeOK == PublishSpec => []PublicationTypeOK
<1>1. PublishInit => PublicationTypeOK
    BY DEF PublishInit, PublicationTypeOK, NotPublishing
<1> QED BY <1>1, TypeStep, PTL DEF PublishSpec

(* One step: the invariant is preserved and the step is one of the         *)
(* abstract ref or leaves it alone.                                        *)
LEMMA RefStep ==
    ASSUME Serialized, IInv, [PublishNext]_publishVars
    PROVE  IInv' /\ [Ref!CNext]_(Ref!cvars)
<1> USE DEF IInv, Ref!cvars
<1>0. PublicationTypeOK'
    BY TypeStep
<1>1. ASSUME NEW p \in Publishers, Prepare(p) PROVE IInv' /\ [Ref!CNext]_(Ref!cvars)
  <2>1. PICK k \in IF Discarded = {} THEN {Len(parent) + 1} ELSE Discarded :
          /\ parent' = IF k \in DOMAIN parent THEN parent ELSE Append(parent, branch)
          /\ pub' = [pub EXCEPT ![p] = [pc |-> "lock", candidate |-> k,
                       expected |-> branch, seen |-> 0, result |-> "none"]]
      BY <1>1 DEF Prepare
  <2>2. /\ pub[p].pc = "idle" /\ OthersIdle(p) /\ archived = "no"
        /\ branch' = branch /\ archived' = archived
      BY <1>1 DEF Prepare
  <2>3. CASE k \in DOMAIN parent
    <3>1. k \in Discarded
        BY <2>1, <2>3 DEF PublicationTypeOK
    <3>2. parent' = parent /\ parent[k] = branch /\ k \in 1 .. Len(parent)
        BY <2>1, <2>3, <3>1 DEF Discarded, PublicationTypeOK
    <3>3. Running'
        BY <2>1, <2>2, <3>2 DEF Running, OthersIdle, PublicationTypeOK
    <3> QED BY <1>0, <2>2, <3>2, <3>3
  <2>4. CASE k \notin DOMAIN parent
    <3>1. k = Len(parent) + 1
        BY <2>1, <2>4 DEF Discarded
    <3>2. /\ parent' = Append(parent, branch) /\ Len(parent') = Len(parent) + 1
          /\ parent'[k] = branch
        BY <2>1, <2>4, <3>1 DEF PublicationTypeOK
    <3>3. Running'
        BY <2>1, <2>2, <3>1, <3>2 DEF Running, OthersIdle, PublicationTypeOK
    <3>4. Ref!CNext
        BY <2>2, <3>2 DEF Ref!CNext, Ref!NewCommit
    <3> QED BY <1>0, <2>2, <3>2, <3>3, <3>4 DEF PublicationTypeOK
  <2> QED BY <2>3, <2>4
<1>2. ASSUME NEW p \in Publishers, PublishStep(p) PROVE IInv' /\ [Ref!CNext]_(Ref!cvars)
  <2>1. pub[p] \in Publication /\ pub[p].pc # "idle"
      BY <1>2 DEF PublicationTypeOK, NotPublishing, PublishStep, AcquireLock, AcquireLockLost, ReadBranch, ReadLock,
           ClearLock, Check, HardReset, HardResetLost, Verify, VerifyLost, ReleaseLock
  <2>2. OthersIdle(p) /\ archived = "no"
      BY <2>1 DEF Running
  <2>3. /\ pub[p].candidate \in 1 .. Len(parent)
        /\ parent[pub[p].candidate] = pub[p].expected
      BY <2>1 DEF Running
  <2>4. parent' = parent /\ archived' = archived
      BY <1>2 DEF PublishStep, AcquireLock, AcquireLockLost, ReadBranch, ReadLock,
           ClearLock, Check, HardReset, HardResetLost, Verify, VerifyLost, ReleaseLock
  <2>5. ASSUME branch' = branch,
               \/ pub'[p].pc = "idle"
               \/ /\ pub'[p].candidate = pub[p].candidate /\ pub'[p].expected = pub[p].expected
                  /\ \/ pub'[p].pc \notin {"lock", "readBranch", "readLock", "check", "reset"}
                     \/ branch = pub[p].expected,
               \A q \in Publishers \ {p} : pub'[q] = pub[q]
        PROVE  IInv' /\ [Ref!CNext]_(Ref!cvars)
    <3>1. \A q \in Publishers \ {p} : pub'[q].pc = "idle"
        BY <2>2, <2>5 DEF OthersIdle
    <3>2. Running'
        BY <2>2, <2>3, <2>4, <2>5, <3>1 DEF Running, OthersIdle
    <3> QED BY <1>0, <2>4, <2>5, <3>2
  <2>6. CASE AcquireLock(p) \/ ReadBranch(p) \/ Check(p)
    <3>1. branch = pub[p].expected
        BY <2>1, <2>6 DEF AcquireLock, ReadBranch, Check, Running
    <3>2. branch' = branch /\ pub'[p].candidate = pub[p].candidate
            /\ pub'[p].expected = pub[p].expected
        BY <2>1, <2>6 DEF AcquireLock, ReadBranch, Check, PublishGoto, Finish, PublicationTypeOK, Publication
    <3>3. \A q \in Publishers \ {p} : pub'[q] = pub[q]
        BY <2>6 DEF AcquireLock, ReadBranch, Check, PublishGoto, Finish, PublicationTypeOK
    <3> QED BY <2>5, <3>1, <3>2, <3>3
  <2>7. CASE AcquireLockLost(p) \/ ReadLock(p) \/ ClearLock(p) \/ Verify(p) \/ VerifyLost(p)
              \/ ReleaseLock(p)
    <3>1. branch' = branch
        BY <2>7 DEF AcquireLockLost, ReadLock, ClearLock, Verify, VerifyLost, ReleaseLock
    <3>2. \/ pub' = [pub EXCEPT ![p] = NotPublishing]
          \/ \E pc \in {"clear", "release"}, r \in {"ok", "error"} :
               pub' = [pub EXCEPT ![p].pc = pc, ![p].result = r]
        BY <2>7 DEF AcquireLockLost, ReadLock, ClearLock, Verify, VerifyLost, ReleaseLock,
             PublishReturn, Finish
    <3>3. \A q \in Publishers \ {p} : pub'[q] = pub[q]
        BY <3>2 DEF PublicationTypeOK
    <3>4. \/ pub'[p].pc = "idle"
          \/ /\ pub'[p].candidate = pub[p].candidate /\ pub'[p].expected = pub[p].expected
             /\ pub'[p].pc \in {"clear", "release"}
        BY <2>1, <3>2 DEF PublicationTypeOK, Publication, NotPublishing
    <3> QED BY <2>5, <3>1, <3>3, <3>4
  <2>8. CASE HardReset(p) \/ HardResetLost(p)
    <3>1. branch = pub[p].expected /\ branch' \in {branch, pub[p].candidate}
        BY <2>1, <2>8 DEF HardReset, HardResetLost, Running
    <3>2. Running'
        BY <2>1, <2>2, <2>3, <2>4, <2>8 DEF HardReset, HardResetLost, PublishGoto, Finish,
             Running, OthersIdle, PublicationTypeOK, Publication
    <3>3. branch' = branch \/ Ref!CNext
        BY <2>2, <2>3, <2>4, <3>1 DEF Ref!CNext, Ref!Advance, PublicationTypeOK
    <3> QED BY <1>0, <2>3, <2>4, <3>1, <3>2, <3>3 DEF PublicationTypeOK
  <2> QED BY <1>2, <2>5, <2>6, <2>7, <2>8 DEF PublishStep
<1>3. ASSUME NEW p \in Publishers, PublisherCrash(p) PROVE IInv' /\ [Ref!CNext]_(Ref!cvars)
    BY <1>0, <1>3 DEF PublisherCrash, NotPublishing, Running, OthersIdle, PublicationTypeOK
<1>4. CASE Archive
    BY <1>0, <1>4 DEF Archive, Running, Ref!CNext, Ref!ArchiveRepo
<1>5. CASE UNCHANGED publishVars
    BY <1>0, <1>5 DEF publishVars, Running, OthersIdle
<1> QED BY <1>1, <1>2, <1>3, <1>4, <1>5 DEF PublishNext

(* Serialized publication refines the compare-and-swap ref.                *)
THEOREM PublishRefinesRef == ASSUME Serialized PROVE PublishSpec => RefSpec
<1>1. PublishInit => IInv /\ Ref!CInit
    BY DEF PublishInit, IInv, PublicationTypeOK, Running, NotPublishing, Ref!CInit
<1>2. IInv /\ [PublishNext]_publishVars => IInv' /\ [Ref!CNext]_(Ref!cvars)
    BY RefStep
<1> QED BY <1>1, <1>2, PTL DEF PublishSpec, RefSpec, Ref!CSpec
-----------------------------------------------------------------------------
(* Contending publishers.  S is the set of commits the branch has had.     *)

(* What the publication b knows of them, of the branch and of the lock.    *)
Knows(b, S, head, held, par) ==
    /\ b.candidate \in DOMAIN par /\ par[b.candidate] = b.expected
    /\ b.pc \in {"readLock", "clear"} => b.seen \in S
    /\ b.pc \in {"lock", "readBranch", "readLock", "check", "reset"} => b.candidate \notin S
    /\ b.pc \in {"clear", "release"} /\ b.result = "ok" => b.candidate \in S
    /\ b.pc \in {"check", "reset"} => held = b.candidate
    /\ b.pc = "reset" => head = b.expected

(* Candidates are numbered after their base, so the branch only grows and  *)
(* each head it has had has one successor among them.                      *)
Line(S, head, par, ok) ==
    /\ head \in S /\ \A k \in S : k <= head
    /\ S \ {0} \subseteq DOMAIN par
    /\ \A j, k \in S \ {0} : par[j] = par[k] => j = k
    /\ ok \subseteq S \ {0}
    /\ \A k \in DOMAIN par : par[k] < k

Distinct == \A p, q \in Publishers :
    p # q /\ pub[p].pc # "idle" /\ pub[q].pc # "idle" => pub[p].candidate # pub[q].candidate

Chain(S) ==
    /\ Line(S, branch, parent, acked)
    /\ Distinct
    /\ \A p \in Publishers : pub[p].pc # "idle" => Knows(pub[p], S, branch, lock, parent)

WInv == PublicationTypeOK /\ (stolen = "no" => \E S \in SUBSET Nat : Chain(S))

(* A step of p is good for every other publication, if it leaves alone     *)
(* what a lock holder relies on.                                           *)
LEMMA OthersKeep ==
    ASSUME PublicationTypeOK, NEW S \in SUBSET Nat, Chain(S), NEW T \in SUBSET Nat, S \subseteq T,
           NEW p \in Publishers, pub[p].pc # "idle", T \subseteq S \cup {pub[p].candidate},
           parent' = parent, \A q \in Publishers \ {p} : pub'[q] = pub[q],
           \A q \in Publishers \ {p} : pub[q].pc \in {"check", "reset"} => lock' = lock /\ branch' = branch,
           \/ pub'[p].pc = "idle"
           \/ /\ pub'[p].candidate = pub[p].candidate
              /\ Knows(pub'[p], T, branch', lock', parent),
           Line(T, branch', parent, acked')
    PROVE  Chain(T)'
<1>1. ASSUME NEW q \in Publishers, pub'[q].pc # "idle" PROVE Knows(pub'[q], T, branch', lock', parent')
  <2>1. CASE q = p
      BY <1>1, <2>1
  <2>2. CASE q # p
    <3>1. pub'[q] = pub[q] /\ Knows(pub[q], S, branch, lock, parent) /\ pub[q].candidate # pub[p].candidate
        BY <1>1, <2>2 DEF Chain, Distinct
    <3>2. pub[q].pc \in {"check", "reset"} => lock' = lock /\ branch' = branch
        BY <2>2
    <3>3. pub[q].candidate \in T => pub[q].candidate \in S
        BY <3>1
    <3> QED BY <3>1, <3>2, <3>3 DEF Knows
  <2> QED BY <2>1, <2>2
<1>2. Distinct'
    BY DEF Chain, Distinct
<1> QED BY <1>1, <1>2 DEF Chain

(* A new publication has a candidate that nobody else has and that was     *)
(* never the branch.                                                       *)
LEMMA PrepareKeeps ==
    ASSUME PublicationTypeOK, PublicationTypeOK', NEW S \in SUBSET Nat, Chain(S), NEW p \in Publishers, Prepare(p)
    PROVE  Chain(S)'
<1>1. PICK k \in IF Discarded = {} THEN {Len(parent) + 1} ELSE Discarded :
          /\ parent' = IF k \in DOMAIN parent THEN parent ELSE Append(parent, branch)
          /\ pub' = [pub EXCEPT ![p] = [pc |-> "lock", candidate |-> k,
                       expected |-> branch, seen |-> 0, result |-> "none"]]
    BY DEF Prepare
<1>2. UNCHANGED <<branch, lock, acked>>
    BY DEF Prepare
<1>3. parent \in Seq(Nat) /\ branch \in Nat /\ DOMAIN parent = 1 .. Len(parent) /\ Len(parent) \in Nat
    BY DEF PublicationTypeOK
<1>4. branch <= Len(parent) /\ \A j \in S : j <= branch
    BY <1>3 DEF Chain, Line
<1>5. ASSUME NEW q \in Publishers, pub[q].pc # "idle"
      PROVE  Knows(pub[q], S, branch, lock, parent)
    BY <1>5 DEF Chain
<1>6. /\ k \in Nat /\ k \in DOMAIN parent' /\ parent'[k] = branch /\ branch < k
      /\ DOMAIN parent \subseteq DOMAIN parent' /\ \A j \in DOMAIN parent : parent'[j] = parent[j]
      /\ \A j \in DOMAIN parent' : j \in DOMAIN parent \/ j = k
      /\ \A q \in Publishers : pub[q].pc # "idle" => pub[q].candidate # k
  <2>1. CASE k \in DOMAIN parent
    <3>1. k \in Discarded /\ parent' = parent
        BY <1>1, <1>3, <2>1
    <3>2. parent[k] < k
        BY <2>1 DEF Chain, Line
    <3> QED BY <1>3, <2>1, <3>1, <3>2 DEF Discarded
  <2>2. CASE k \notin DOMAIN parent
    <3>1. k = Len(parent) + 1
        BY <1>1, <2>2 DEF Discarded
    <3>2. /\ DOMAIN parent' = 1 .. Len(parent) + 1
          /\ parent'[k] = branch /\ \A j \in DOMAIN parent : parent'[j] = parent[j]
      <4>1. parent' = Append(parent, branch)
          BY <1>1, <2>2
      <4>2. \A f \in Seq(Nat), n \in Nat :
              /\ DOMAIN Append(f, n) = 1 .. Len(f) + 1
              /\ Append(f, n)[Len(f) + 1] = n /\ \A j \in 1 .. Len(f) : Append(f, n)[j] = f[j]
          OBVIOUS
      <4> QED BY <1>3, <3>1, <4>1, <4>2
    <3>3. \A q \in Publishers : pub[q].pc # "idle" => pub[q].candidate \in DOMAIN parent
        BY <1>5 DEF Knows
    <3> QED BY <1>3, <1>4, <2>2, <3>1, <3>2, <3>3
  <2> QED BY <2>1, <2>2
<1>7. Line(S, branch', parent', acked')
    BY <1>2, <1>6 DEF Chain, Line
<1>8. /\ pub'[p].pc = "lock" /\ pub'[p].candidate = k /\ pub'[p].expected = branch
      /\ \A q \in Publishers \ {p} : pub'[q] = pub[q]
    BY <1>1 DEF PublicationTypeOK
<1>9. Distinct'
    BY <1>6, <1>8 DEF Chain, Distinct
<1>10. Knows(pub'[p], S, branch', lock', parent')
  <2>1. k \notin S
      BY <1>3, <1>4, <1>6
  <2> QED BY <1>2, <1>6, <1>8, <2>1 DEF Knows
<1>11. ASSUME NEW q \in Publishers \ {p}, pub[q].pc # "idle"
       PROVE  Knows(pub[q], S, branch', lock', parent')
    BY <1>2, <1>5, <1>6, <1>11 DEF Knows
<1> QED BY <1>7, <1>8, <1>9, <1>10, <1>11 DEF Chain

(* Each request of a publication, and its crash.                           *)
LEMMA StepKeeps ==
    ASSUME PublicationTypeOK, PublicationTypeOK', stolen = "no", stolen' = "no", NEW S \in SUBSET Nat, Chain(S),
           NEW p \in Publishers, PublishStep(p) \/ PublisherCrash(p)
    PROVE  \E T \in SUBSET Nat : Chain(T)'
<1> DEFINE b == pub[p]
<1>1. b \in Publication /\ b.pc # "idle"
    BY DEF PublicationTypeOK, NotPublishing, PublishStep, AcquireLock, AcquireLockLost, ReadBranch, ReadLock,
         ClearLock, Check, HardReset, HardResetLost, Verify, VerifyLost, ReleaseLock, PublisherCrash
<1>2. Knows(b, S, branch, lock, parent) /\ Line(S, branch, parent, acked)
    BY <1>1 DEF Chain
<1>3. /\ parent' = parent /\ parent \in Seq(Nat) /\ branch \in Nat
      /\ b.candidate \in Nat \ {0} /\ b.candidate # NoLock
    BY <1>1, <1>2 DEF PublishStep, AcquireLock, AcquireLockLost, ReadBranch, ReadLock, ClearLock, Check,
         HardReset, HardResetLost, Verify, VerifyLost, ReleaseLock, PublisherCrash, PublicationTypeOK, Knows, NoLock, Publication
<1>4. ASSUME NEW q \in Publishers \ {p}, pub[q].pc \in {"check", "reset"}
      PROVE  lock = pub[q].candidate /\ lock \notin S /\ lock # NoLock /\ lock # b.candidate
  <2>1. Knows(pub[q], S, branch, lock, parent) /\ pub[q].candidate # b.candidate
      BY <1>1, <1>4 DEF Chain, Distinct
  <2>2. pub[q].candidate \in Nat
      BY <2>1 DEF Knows, PublicationTypeOK
  <2> QED BY <1>4, <2>1, <2>2 DEF Knows, NoLock
<1>5. CASE AcquireLock(p)
  <2>1. /\ b.pc = "lock" /\ UNCHANGED <<branch, acked>>
        /\ \/ lock = NoLock /\ lock' = b.candidate /\ pub' = [pub EXCEPT ![p].pc = "check"]
           \/ lock' = lock /\ pub' = [pub EXCEPT ![p].pc = "readBranch"]
      BY <1>5 DEF AcquireLock, PublishGoto
  <2>2. /\ pub'[p].candidate = b.candidate /\ pub'[p].expected = b.expected
        /\ \/ pub'[p].pc = "check" /\ lock' = b.candidate
           \/ pub'[p].pc = "readBranch"
        /\ \A q \in Publishers \ {p} : pub'[q] = pub[q]
      BY <1>1, <2>1 DEF PublicationTypeOK, Publication
  <2>3. Knows(pub'[p], S, branch', lock', parent)
      BY <1>2, <2>1, <2>2 DEF Knows
  <2>4. \A q \in Publishers \ {p} : pub[q].pc \in {"check", "reset"} => lock' = lock
      BY <1>4, <2>1
  <2> QED BY <1>1, <1>2, <1>3, <2>1, <2>2, <2>3, <2>4, OthersKeep
<1>6. CASE AcquireLockLost(p) \/ PublisherCrash(p)
  <2>1. /\ UNCHANGED <<branch, acked>> /\ pub' = [pub EXCEPT ![p] = NotPublishing]
        /\ lock' = lock \/ lock = NoLock
      BY <1>6 DEF AcquireLockLost, PublisherCrash, PublishReturn
  <2>2. pub'[p].pc = "idle" /\ \A q \in Publishers \ {p} : pub'[q] = pub[q]
      BY <2>1 DEF PublicationTypeOK, NotPublishing
  <2>3. \A q \in Publishers \ {p} : pub[q].pc \in {"check", "reset"} => lock' = lock
      BY <1>4, <2>1
  <2> QED BY <1>1, <1>2, <1>3, <2>1, <2>2, <2>3, OthersKeep
<1>7. CASE ReadBranch(p)
  <2>1. /\ b.pc = "readBranch" /\ UNCHANGED <<branch, lock, acked>>
        /\ pub' = [pub EXCEPT ![p].pc = "readLock", ![p].seen = branch]
      BY <1>7 DEF ReadBranch
  <2>2. /\ pub'[p].candidate = b.candidate /\ pub'[p].expected = b.expected
        /\ pub'[p].pc = "readLock" /\ pub'[p].seen = branch
        /\ \A q \in Publishers \ {p} : pub'[q] = pub[q]
      BY <1>1, <2>1 DEF PublicationTypeOK, Publication
  <2>3. Knows(pub'[p], S, branch', lock', parent)
      BY <1>2, <2>1, <2>2 DEF Knows, Line
  <2> QED BY <1>1, <1>2, <1>3, <2>1, <2>2, <2>3, OthersKeep
<1>8. CASE ReadLock(p) \/ Check(p) \/ Verify(p) \/ VerifyLost(p)
  <2>1. UNCHANGED <<branch, lock>>
      BY <1>8 DEF ReadLock, Check, Verify, VerifyLost
  <2>2. \/ pub' = [pub EXCEPT ![p] = NotPublishing] /\ acked' \in {acked, acked \cup {b.candidate}}
             /\ (acked' # acked => b.candidate \in S)
        \/ /\ acked' = acked
           /\ \E pc \in {"clear", "release"}, r \in {"ok", "error"} :
                /\ pub' = [pub EXCEPT ![p].pc = pc, ![p].result = r]
                /\ r = "ok" => b.candidate \in S
                /\ pc = "clear" => b.seen \in S
        \/ /\ acked' = acked /\ b.pc = "check" /\ branch = b.expected
           /\ pub' = [pub EXCEPT ![p].pc = "reset"]
    <3>1. CASE ReadLock(p)
      <4>1. b.seen \in S
          BY <1>2, <3>1 DEF ReadLock, Knows
      <4>2. \/ b.seen = b.candidate
            \/ b.seen # b.candidate
          OBVIOUS
      <4> QED BY <3>1, <4>1, <4>2 DEF ReadLock, Finish, PublishReturn
    <3>2. CASE Check(p) \/ Verify(p) \/ VerifyLost(p)
      <4>1. branch \in S
          BY <1>2 DEF Line
      <4> QED BY <3>2, <4>1 DEF Check, Verify, VerifyLost, PublishGoto, Finish
    <3> QED BY <1>8, <3>1, <3>2
  <2>3. \A q \in Publishers \ {p} : pub'[q] = pub[q]
    <3>1. \E e : pub' = [pub EXCEPT ![p] = e]
        BY <1>8 DEF ReadLock, Check, Verify, VerifyLost, PublishGoto, Finish, PublishReturn
    <3> QED BY <3>1 DEF PublicationTypeOK
  <2>4. Line(S, branch', parent, acked')
    <3>1. acked' = acked \/ (acked' = acked \cup {b.candidate} /\ b.candidate \in S \ {0})
        BY <1>3, <2>2
    <3> QED BY <1>2, <2>1, <3>1 DEF Line
  <2>5. \/ pub'[p].pc = "idle"
        \/ /\ pub'[p].candidate = b.candidate
           /\ Knows(pub'[p], S, branch', lock', parent)
    <3>1. CASE pub' = [pub EXCEPT ![p] = NotPublishing]
        BY <3>1 DEF PublicationTypeOK, NotPublishing
    <3>2. ASSUME NEW pc \in {"clear", "release"}, NEW r \in {"ok", "error"},
                 pub' = [pub EXCEPT ![p].pc = pc, ![p].result = r],
                 r = "ok" => b.candidate \in S, pc = "clear" => b.seen \in S
          PROVE  pub'[p].candidate = b.candidate /\ Knows(pub'[p], S, branch', lock', parent)
      <4>1. /\ pub'[p].candidate = b.candidate /\ pub'[p].expected = b.expected
            /\ pub'[p].pc = pc /\ pub'[p].result = r /\ pub'[p].seen = b.seen
          BY <1>1, <3>2 DEF PublicationTypeOK, Publication
      <4> QED BY <1>2, <3>2, <4>1 DEF Knows
    <3>3. ASSUME b.pc = "check", branch = b.expected, pub' = [pub EXCEPT ![p].pc = "reset"]
          PROVE  pub'[p].candidate = b.candidate /\ Knows(pub'[p], S, branch', lock', parent)
      <4>1. /\ pub'[p].candidate = b.candidate /\ pub'[p].expected = b.expected
            /\ pub'[p].pc = "reset"
          BY <1>1, <3>3 DEF PublicationTypeOK, Publication
      <4> QED BY <1>2, <2>1, <3>3, <4>1 DEF Knows
    <3> QED BY <2>2, <3>1, <3>2, <3>3
  <2> QED BY <1>1, <1>2, <1>3, <2>1, <2>3, <2>4, <2>5, OthersKeep
<1>9. CASE ClearLock(p) \/ ReleaseLock(p)
  <2>1. /\ UNCHANGED branch /\ pub' = [pub EXCEPT ![p] = NotPublishing]
        /\ acked' = IF b.result = "ok" THEN acked \cup {b.candidate} ELSE acked
        /\ b.pc \in {"clear", "release"}
      BY <1>9 DEF ClearLock, ReleaseLock, PublishReturn
  <2>2. lock' = lock \/ lock = NoLock \/ lock = b.candidate \/ lock \in S
    <3>1. CASE ClearLock(p)
        BY <1>2, <3>1 DEF ClearLock, DeleteLock, Knows
    <3>2. CASE ReleaseLock(p)
        BY <3>2 DEF ReleaseLock, DeleteLock
    <3> QED BY <1>9, <3>1, <3>2
  <2>3. pub'[p].pc = "idle" /\ \A q \in Publishers \ {p} : pub'[q] = pub[q]
      BY <2>1 DEF PublicationTypeOK, NotPublishing
  <2>4. b.result = "ok" => b.candidate \in S
      BY <1>2, <2>1 DEF Knows
  <2>5. Line(S, branch', parent, acked')
      BY <1>2, <1>3, <2>1, <2>4 DEF Line
  <2>6. \A q \in Publishers \ {p} : pub[q].pc \in {"check", "reset"} => lock' = lock
      BY <1>4, <2>2
  <2> QED BY <1>1, <1>2, <1>3, <2>1, <2>3, <2>5, <2>6, OthersKeep
<1>10. CASE HardReset(p) \/ HardResetLost(p)
  <2> DEFINE T == S \cup {branch'}
  <2>1. /\ b.pc = "reset" /\ UNCHANGED <<lock, acked>> /\ branch' \in {branch, b.candidate}
        /\ \/ pub' = [pub EXCEPT ![p].pc = "verify"]
           \/ pub' = [pub EXCEPT ![p].pc = "release", ![p].result = "error"]
      BY <1>10 DEF HardReset, HardResetLost, PublishGoto, Finish
  <2>2. /\ pub'[p].candidate = b.candidate /\ pub'[p].expected = b.expected
        /\ pub'[p].pc = "verify" \/ (pub'[p].pc = "release" /\ pub'[p].result = "error")
        /\ \A q \in Publishers \ {p} : pub'[q] = pub[q]
      BY <1>1, <2>1 DEF PublicationTypeOK, Publication
  <2>3. lock = b.candidate /\ branch = b.expected /\ parent[b.candidate] = b.expected
          /\ b.candidate \in DOMAIN parent /\ b.candidate \notin S
      BY <1>2, <2>1 DEF Knows
  <2>4. \A q \in Publishers \ {p} : pub[q].pc \notin {"check", "reset"}
      BY <1>4, <2>3
  <2>5. Line(T, branch', parent, acked')
    <3>1. CASE branch' = branch
      <4>1. T = S
          BY <1>2, <3>1 DEF Line
      <4> QED BY <1>2, <2>1, <3>1, <4>1
    <3>2. CASE branch' = b.candidate
      <4>1. branch < b.candidate
          BY <1>2, <2>3 DEF Line
      <4>2. \A k \in T : k <= b.candidate
          BY <1>2, <1>3, <3>2, <4>1 DEF Line
      <4>3. \A k \in S \ {0} : parent[k] # branch
        <5>1. \A k \in S \ {0} : k \in DOMAIN parent /\ parent[k] < k /\ k <= branch /\ parent[k] \in Nat
            BY <1>2, <1>3 DEF Line
        <5> QED BY <1>3, <5>1
      <4>4. \A j, k \in T \ {0} : parent[j] = parent[k] => j = k
          BY <1>2, <2>3, <3>2, <4>3 DEF Line
      <4> QED BY <1>2, <1>3, <2>1, <2>3, <3>2, <4>2, <4>4 DEF Line
    <3> QED BY <2>1, <3>1, <3>2
  <2>6. Knows(pub'[p], T, branch', lock', parent)
      BY <2>2, <2>3 DEF Knows
  <2>7. T \in SUBSET Nat /\ S \subseteq T /\ T \subseteq S \cup {b.candidate}
      BY <1>2, <1>3, <2>1 DEF Line
  <2> HIDE DEF T
  <2> QED BY <1>1, <1>3, <2>2, <2>4, <2>5, <2>6, <2>7, OthersKeep
<1> QED BY <1>5, <1>6, <1>7, <1>8, <1>9, <1>10 DEF PublishStep

LEMMA WinnerStep == WInv /\ [PublishNext]_publishVars => WInv'
<1> SUFFICES ASSUME WInv, [PublishNext]_publishVars, stolen' = "no" PROVE \E S \in SUBSET Nat : Chain(S)'
    BY TypeStep DEF WInv
<1>1. PublicationTypeOK /\ PublicationTypeOK'
    BY TypeStep DEF WInv
<1>2. stolen = "no"
  <2>1. stolen' = stolen \/ stolen' = "yes"
      BY DEF PublishNext, PublishStep, Prepare, AcquireLock, AcquireLockLost, ReadBranch, ReadLock, ClearLock, Check,
           HardReset, HardResetLost, Verify, VerifyLost, ReleaseLock, PublisherCrash, Archive, DeleteLock, publishVars
  <2> QED BY <2>1
<1>3. PICK S \in SUBSET Nat : Chain(S)
    BY <1>2 DEF WInv
<1>4. CASE Archive \/ UNCHANGED publishVars
  <2>1. UNCHANGED <<branch, lock, parent, pub, acked>>
      BY <1>4 DEF Archive, publishVars
  <2>2. Chain(S)'
      BY <1>3, <2>1 DEF Chain, Distinct
  <2> QED BY <2>2
<1>5. ASSUME NEW p \in Publishers, Prepare(p) PROVE \E T \in SUBSET Nat : Chain(T)'
    BY <1>1, <1>3, <1>5, PrepareKeeps
<1>6. ASSUME NEW p \in Publishers, PublishStep(p) \/ PublisherCrash(p) PROVE \E T \in SUBSET Nat : Chain(T)'
    BY <1>1, <1>2, <1>3, <1>6, StepKeeps
<1> QED BY <1>4, <1>5, <1>6 DEF PublishNext

(* Two candidates of one head are both acknowledged only if a deletion by  *)
(* name removed the lock of another publication, for any number of         *)
(* contending publishers, crashes and lost answers (publishBranch).        *)
THEOREM PublishOneWinner == PublishSpec => []OneWinnerUnlessStolen
<1>1. PublishInit => WInv
  <2> SUFFICES ASSUME PublishInit PROVE WInv
      OBVIOUS
  <2>1. PublicationTypeOK
      BY DEF PublishInit, PublicationTypeOK, NotPublishing
  <2>2. Chain({0})
      BY DEF PublishInit, Chain, Line, Distinct, NotPublishing
  <2> QED BY <2>1, <2>2 DEF WInv
<1>2. WInv => OneWinnerUnlessStolen
    BY DEF WInv, Chain, Line, OneWinnerUnlessStolen, OneWinner
<1> QED BY <1>1, <1>2, WinnerStep, PTL DEF PublishSpec
=============================================================================
