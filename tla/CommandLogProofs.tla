-------------------------- MODULE CommandLogProofs --------------------------
(***************************************************************************)
(* Proofs about the command ledger and the Writer over it, for every set   *)
(* of commands, payloads and callers and every bound.                      *)
(***************************************************************************)
EXTENDS WriterCommit, TLAPS

(* The command mutex admits one non-lookup caller per command.             *)
Mutex ==
    \A v, w \in Callers :
      /\ v # w
      /\ op[v].pc # "idle" /\ op[v].kind # "lookup"
      /\ op[w].pc # "idle" /\ op[w].kind # "lookup"
      => op[v].cmd # op[w].cmd

(* What an Execute in its critical section knows of the store and of its   *)
(* command's publications.                                                 *)
ClaimState ==
    \A w \in Callers : op[w].pc # "idle" /\ op[w].kind = "execute" =>
      /\ op[w].pc = "absent" =>
           db[op[w].cmd] = NoEntry /\ live[op[w].cmd] = 0
      /\ op[w].pc \in {"reserved", "apply", "failed"} =>
           db[op[w].cmd] = Pending(op[w].digest) /\ live[op[w].cmd] = 0
      /\ op[w].pc = "applied" =>
           db[op[w].cmd] = Pending(op[w].digest)

Published == \A c \in Commands : live[c] <= 1 /\ (live[c] > 0 => db[c] # NoEntry)

IInv == TypeOK /\ Mutex /\ ClaimState /\ Published

LEMMA Shapes ==
    /\ \A d \in Digests : Pending(d) \in Entry /\ Pending(d) # NoEntry
    /\ \A d \in Digests, k \in Nat : Applied(d, k) \in Entry /\ Applied(d, k) # NoEntry
    /\ \A e \in Entry : Decoded(e) \in Entry /\ Abandoned(e) \in Entry /\ e # NoEntry
<1>1. \A d \in Digests : Pending(d) \in Entry
    BY DEF Pending, Entry, Statuses
<1>2. \A d \in Digests, k \in Nat : Applied(d, k) \in Entry
    BY DEF Applied, Entry, Statuses
<1>3. \A e \in Entry : Decoded(e) \in Entry
    BY DEF Decoded, Entry
<1>4. \A e \in Entry : Abandoned(e) \in Entry
    BY DEF Abandoned, Entry, Statuses
<1> QED BY <1>1, <1>2, <1>3, <1>4, NoEntryAssumption

LEMMA TypeStep == TypeOK /\ [Next]_vars => TypeOK'
<1> SUFFICES ASSUME TypeOK, [Next]_vars PROVE TypeOK'
    OBVIOUS
<1> USE Shapes
<1>1. ASSUME NEW w \in Callers, NEW k \in Kinds, NEW c \in Commands, NEW d \in Digests,
             Start(w, k, c, d)
      PROVE  TypeOK'
    BY <1>1 DEF TypeOK, Start, Call, PCs
<1>2. ASSUME NEW w \in Callers, Step(w) PROVE TypeOK'
  <2>1. CASE op[w].pc = "idle"
      BY <2>1, <1>2 DEF Step, StoreGet, StoreGetFails, CacheEntry, LookupReturns,
           ExecuteKnown, Reserve, ReserveFails, RememberPending, ApplySucceeds, ApplyFails,
           DropClaim, ForgetClaim, SaveReceipt, SaveReceiptFails, RememberReceipt,
           Conclude, ConcludeRefused, Unresolved
  <2>2. CASE op[w].pc # "idle"
    <3>1. op[w] \in Call
        BY <2>2 DEF TypeOK, Idle
    <3>2. CASE StoreGet(w) \/ StoreGetFails(w) \/ CacheEntry(w) \/ LookupReturns(w)
        BY <3>1, <3>2 DEF TypeOK, StoreGet, StoreGetFails, CacheEntry, LookupReturns,
             Goto, Return, Idle, Fault, Call, PCs
    <3>3. CASE ExecuteKnown(w) \/ Reserve(w) \/ ReserveFails(w) \/ RememberPending(w)
        BY <2>2, <3>1, <3>3 DEF TypeOK, ExecuteKnown, Reserve, ReserveFails, RememberPending,
             Goto, Return, Idle, Fault, Ack, Call, PCs, Entry
    <3>4. CASE ApplySucceeds(w) \/ ApplyFails(w)
        BY <3>1, <3>4 DEF TypeOK, ApplySucceeds, ApplyFails, Publish, Goto, Call, PCs
    <3>5. CASE DropClaim(w) \/ ForgetClaim(w)
        BY <3>1, <3>5 DEF TypeOK, DropClaim, ForgetClaim, Goto, Return, Idle, Fault, Call, PCs
    <3>6. CASE SaveReceipt(w) \/ SaveReceiptFails(w)
        BY <3>1, <3>6 DEF TypeOK, SaveReceipt, SaveReceiptFails,
             Goto, Return, Idle, Fault, Call, PCs
    <3>9. CASE RememberReceipt(w)
        BY <3>1, <3>9 DEF TypeOK, RememberReceipt, Return, Idle, Ack, Call
    <3>7. CASE Conclude(w)
        BY <3>1, <3>7 DEF TypeOK, Conclude, ConcludedAs, Unresolved, Return, Idle, Call
    <3>8. CASE ConcludeRefused(w)
        BY <3>1, <3>8 DEF TypeOK, ConcludeRefused, Return, Idle, Fault
    <3> QED BY <1>2, <3>2, <3>3, <3>4, <3>5, <3>6, <3>7, <3>8, <3>9 DEF Step
  <2> QED BY <2>1, <2>2
<1>3. ASSUME NEW c \in Commands, Age(c) PROVE TypeOK'
    BY <1>3 DEF TypeOK, Age, Aged, Entry
<1>4. CASE PruneStore \/ PruneMemory \/ Crash
    BY <1>4 DEF TypeOK, PruneStore, PruneMemory, Crash, Sweep, Idle, Fault
<1>5. CASE UNCHANGED vars
    BY <1>5 DEF TypeOK, vars
<1> QED BY <1>1, <1>2, <1>3, <1>4, <1>5 DEF Next

(* Only Start enters a critical section, and only when nobody is inside.   *)
LEMMA MutexStep == TypeOK /\ Mutex /\ [Next]_vars => Mutex'
<1> SUFFICES ASSUME TypeOK, Mutex, [Next]_vars PROVE Mutex'
    OBVIOUS
<1>1. ASSUME NEW w \in Callers, NEW k \in Kinds, NEW c \in Commands, NEW d \in Digests,
             Start(w, k, c, d)
      PROVE  Mutex'
    BY <1>1 DEF Mutex, Start, Holds, TypeOK
<1>2. ASSUME NEW w \in Callers, Step(w) PROVE Mutex'
  <2>1. \/ op' = [op EXCEPT ![w] = Idle]
        \/ \E pc \in PCs : op' = [op EXCEPT ![w].pc = pc]
        \/ \E pc \in PCs : \E e : op' = [op EXCEPT ![w].pc = pc, ![w].entry = e]
        \/ \E pc \in PCs : \E k : op' = [op EXCEPT ![w].pc = pc, ![w].commit = k]
      BY <1>2 DEF Step, StoreGet, StoreGetFails, CacheEntry, LookupReturns,
           ExecuteKnown, Reserve, ReserveFails, RememberPending, ApplySucceeds, ApplyFails,
           DropClaim, ForgetClaim, SaveReceipt, SaveReceiptFails, RememberReceipt,
           Conclude, ConcludeRefused, Goto, Return, PCs
  <2>2. op[w].pc # "idle" 
      BY <1>2 DEF Step, StoreGet, StoreGetFails, CacheEntry, LookupReturns,
           ExecuteKnown, Reserve, ReserveFails, RememberPending, ApplySucceeds, ApplyFails,
           DropClaim, ForgetClaim, SaveReceipt, SaveReceiptFails, RememberReceipt,
           Conclude, ConcludeRefused, Unresolved
  <2>3. op[w] \in Call
      BY <2>2 DEF TypeOK, Idle
  <2>4. \A v \in Callers \ {w} : op'[v] = op[v]
      BY <2>1 DEF TypeOK
  <2>5. op'[w].pc = "idle" \/ (op'[w].kind = op[w].kind /\ op'[w].cmd = op[w].cmd)
    <3>1. CASE op' = [op EXCEPT ![w] = Idle]
        BY <3>1 DEF TypeOK, Idle
    <3>2. CASE \E pc \in PCs : op' = [op EXCEPT ![w].pc = pc]
        BY <3>2, <2>3 DEF TypeOK, Call
    <3>3. CASE \E pc \in PCs : \E e : op' = [op EXCEPT ![w].pc = pc, ![w].entry = e]
        BY <3>3, <2>3 DEF TypeOK, Call
    <3>4. CASE \E pc \in PCs : \E k : op' = [op EXCEPT ![w].pc = pc, ![w].commit = k]
        BY <3>4, <2>3 DEF TypeOK, Call
    <3> QED BY <2>1, <3>1, <3>2, <3>3, <3>4
  <2> QED BY <2>2, <2>4, <2>5 DEF Mutex
<1>3. CASE (\E c \in Commands : Age(c)) \/ PruneStore \/ PruneMemory \/ UNCHANGED vars
    BY <1>3 DEF Mutex, Age, PruneStore, PruneMemory, vars
<1>4. CASE Crash
    BY <1>4 DEF Mutex, Crash, Idle
<1> QED BY <1>1, <1>2, <1>3, <1>4 DEF Next

(* The claim is written before apply() and outlives it.                    *)
LEMMA ClaimStep ==
    ASSUME ~AmbiguousApply, IInv, [Next]_vars
    PROVE  ClaimState' /\ Published'
<1> USE DEF IInv
<1>0. TypeOK'
    BY TypeStep
<1>1. ASSUME NEW w \in Callers, NEW k \in Kinds, NEW c \in Commands, NEW d \in Digests,
             Start(w, k, c, d)
      PROVE  ClaimState' /\ Published'
    BY <1>1 DEF Start, ClaimState, Published, TypeOK
<1>2. ASSUME NEW w \in Callers, Step(w) PROVE ClaimState' /\ Published'
  <2>2. op[w].pc # "idle" 
      BY <1>2 DEF Step, StoreGet, StoreGetFails, CacheEntry, LookupReturns,
           ExecuteKnown, Reserve, ReserveFails, RememberPending, ApplySucceeds, ApplyFails,
           DropClaim, ForgetClaim, SaveReceipt, SaveReceiptFails, RememberReceipt,
           Conclude, ConcludeRefused, Unresolved
  <2>3. op[w] \in Call
      BY <2>2 DEF TypeOK, Idle
  <2>4. \A v \in Callers \ {w} : 
          op[v].pc # "idle" /\ op[v].kind = "execute" /\ op[w].kind # "lookup"
            => op[v].cmd # op[w].cmd
      BY <2>2 DEF Mutex
  <2>5. CASE StoreGet(w)
      BY <2>3, <2>5 DEF StoreGet, Goto, ClaimState, Published, TypeOK, Call
  <2>6. CASE StoreGetFails(w) \/ LookupReturns(w) \/ ExecuteKnown(w) \/ ReserveFails(w)
              \/ ConcludeRefused(w) \/ SaveReceiptFails(w)
      BY <2>6 DEF StoreGetFails, LookupReturns, ExecuteKnown, ReserveFails,
           ConcludeRefused, SaveReceiptFails, Return, Idle, ClaimState, Published, TypeOK
  <2>7. CASE CacheEntry(w) \/ RememberPending(w)
      BY <2>3, <2>7 DEF CacheEntry, RememberPending, Goto, ClaimState, Published, TypeOK, Call
  <2>8. CASE Reserve(w)
      BY <2>3, <2>4, <2>8, Shapes DEF Reserve, Goto, ClaimState, Published, TypeOK, Call
  <2>9. CASE ApplySucceeds(w)
      BY <2>3, <2>4, <2>9, Shapes DEF ApplySucceeds, Publish, ClaimState, Published, TypeOK, Call
  <2>10. CASE ApplyFails(w)
      BY <2>3, <2>10 DEF ApplyFails, Goto, ClaimState, Published, TypeOK, Call
  <2>11. CASE DropClaim(w)
    <3>1. live' = live /\ live[op[w].cmd] = 0
        BY <2>11 DEF DropClaim, ClaimState
    <3>2. \A c \in Commands : c # op[w].cmd => db'[c] = db[c]
        BY <2>11 DEF DropClaim, TypeOK
    <3>3. Published'
        BY <3>1, <3>2 DEF Published
    <3>4. op'[w].pc = "released" /\ \A v \in Callers \ {w} : op'[v] = op[v]
        BY <2>3, <2>11 DEF DropClaim, Goto, TypeOK, Call
    <3>5. \A v \in Callers : op[v].pc # "idle" => op[v].cmd \in Commands
        BY DEF TypeOK, Call, Idle
    <3>6. op[w].kind # "lookup"
        BY <2>11 DEF DropClaim
    <3>7. ClaimState'
        BY <3>1, <3>2, <3>4, <3>5, <3>6, <2>4 DEF ClaimState
    <3> QED BY <3>3, <3>7
  <2>12. CASE ForgetClaim(w) \/ RememberReceipt(w)
      BY <2>3, <2>12 DEF ForgetClaim, RememberReceipt, Return, Idle, ClaimState, Published, TypeOK
  <2>13. CASE SaveReceipt(w)
      BY <2>3, <2>4, <2>13, Shapes DEF SaveReceipt, Goto, ClaimState, Published, TypeOK, Call
  <2>14. CASE Conclude(w)
    <3>1. PICK e \in ConcludedAs(w) : db' = [db EXCEPT ![op[w].cmd] = e]
        BY <2>14 DEF Conclude
    <3>2. e # NoEntry
        BY <2>3, <2>14, Shapes DEF ConcludedAs, Conclude, Unresolved, TypeOK, Call
    <3> QED BY <2>3, <2>4, <2>14, <3>1, <3>2 DEF Conclude, Return, Idle, ClaimState,
              Published, TypeOK, Call
  <2> QED BY <1>2, <2>5, <2>6, <2>7, <2>8, <2>9, <2>10, <2>11, <2>12, <2>13, <2>14 DEF Step
<1>3. ASSUME NEW c \in Commands, Age(c) PROVE ClaimState' /\ Published'
  <2>1. \A b \in Commands : b # c => db'[b] = db[b]
      BY <1>3 DEF Age, Aged, TypeOK
  <2>2. db[c] # NoEntry => db'[c] # NoEntry
    <3> SUFFICES ASSUME db[c] # NoEntry PROVE db'[c] # NoEntry
        OBVIOUS
    <3>1. db'[c] \in Entry
        BY <1>3 DEF Age, Aged, TypeOK, Entry
    <3> QED BY <3>1, Shapes
  <2>3. \A w \in Callers : op[w].pc # "idle" => op[w].cmd # c /\ op[w].cmd \in Commands
      BY <1>3 DEF Age, TypeOK, Call, Idle
  <2>4. op' = op /\ live' = live
      BY <1>3 DEF Age
  <2>5. ClaimState'
      BY <2>1, <2>3, <2>4 DEF ClaimState
  <2>6. Published'
      BY <2>1, <2>2, <2>4 DEF Published
  <2> QED BY <2>5, <2>6
<1>4. CASE PruneStore
  <2>1. \A c \in Commands : Expired(db[c]) => db[c] # NoEntry /\ db[c].status # "PENDING"
      BY DEF Expired, Completed
  <2>2. \A c \in Commands : IF Expired(db[c]) THEN live'[c] = 0 /\ db'[c] = NoEntry
                                              ELSE live'[c] = live[c] /\ db'[c] = db[c]
      BY <1>4 DEF PruneStore, Sweep
  <2>3. \A w \in Callers : op[w].pc # "idle" => op[w].cmd \in Commands
      BY DEF TypeOK, Call, Idle
  <2>4. \A d : Pending(d).status = "PENDING"
      BY DEF Pending
  <2>5. op' = op
      BY <1>4 DEF PruneStore
  <2>6. ClaimState'
      BY <2>1, <2>2, <2>3, <2>4, <2>5 DEF ClaimState
  <2>7. Published'
      BY <2>2 DEF Published
  <2> QED BY <2>6, <2>7
<1>5. CASE PruneMemory \/ UNCHANGED vars
    BY <1>5 DEF PruneMemory, vars, ClaimState, Published
<1>6. CASE Crash
    BY <1>6 DEF Crash, Idle, ClaimState, Published, TypeOK
<1> QED BY <1>1, <1>2, <1>3, <1>4, <1>5, <1>6 DEF Next

(* The type invariant of the ledger.                                       *)
THEOREM LedgerTypeOK == Spec => []TypeOK
<1>1. Init => TypeOK
    BY DEF Init, TypeOK, Idle
<1> QED BY <1>1, TypeStep, PTL DEF Spec

(* Execute never applies a command twice and a publication never loses its *)
(* durable claim, if an apply() that returns an error has not published.   *)
THEOREM LedgerAtMostOnce == Spec => [](AtMostOnce /\ ClaimSurvives)
<1>1. CASE AmbiguousApply
  <2>1. AtMostOnce /\ ClaimSurvives
      BY <1>1 DEF AtMostOnce, ClaimSurvives
  <2> QED BY <2>1, PTL
<1>2. CASE ~AmbiguousApply
  <2>1. Init => IInv
      BY DEF Init, IInv, TypeOK, Mutex, ClaimState, Published, Idle
  <2>2. IInv /\ [Next]_vars => IInv'
      BY <1>2, TypeStep, MutexStep, ClaimStep DEF IInv
  <2>3. IInv => AtMostOnce /\ ClaimSurvives
      BY DEF IInv, Published, AtMostOnce, ClaimSurvives
  <2> QED BY <2>1, <2>2, <2>3, PTL DEF Spec
<1> QED BY <1>1, <1>2

(* Receipts.  A stored, remembered or held entry that names a commit names *)
(* one that its own command published under its own digest.                *)
Genuine(c, e) ==
    e # NoEntry /\ e.commit # 0 =>
      [cmd |-> c, digest |-> e.digest, commit |-> e.commit] \in published

Receipts ==
    /\ \A c \in Commands : Genuine(c, mem[c]) /\ Genuine(c, db[c])
    /\ \A w \in Callers : op[w].pc # "idle" =>
         /\ Genuine(op[w].cmd, op[w].entry)
         /\ op[w].pc \in {"applied", "saved"} =>
              [cmd |-> op[w].cmd, digest |-> op[w].digest, commit |-> op[w].commit]
                \in published

GInv == TypeOK /\ Receipts /\ ReceiptsGenuine

LEMMA FreshGenuine ==
    ASSUME NEW c, NEW d, NEW k, NEW e
    PROVE  /\ Genuine(c, Pending(d))
           /\ [cmd |-> c, digest |-> d, commit |-> k] \in published => Genuine(c, Applied(d, k))
           /\ Genuine(c, NoEntry)
           /\ e \in Entry /\ Genuine(c, e) => Genuine(c, Decoded(e)) /\ Genuine(c, Abandoned(e))
BY Shapes DEF Genuine, Pending, Applied, Decoded, Abandoned, Entry

LEMMA ReceiptStep == GInv /\ [Next]_vars => GInv'
<1> SUFFICES ASSUME GInv, [Next]_vars PROVE GInv'
    OBVIOUS
<1> USE DEF GInv
<1>0. TypeOK'
    BY TypeStep
<1>1. ASSUME NEW w \in Callers, NEW k \in Kinds, NEW c \in Commands, NEW d \in Digests,
             Start(w, k, c, d)
      PROVE  GInv'
    BY <1>0, <1>1 DEF Start, Receipts, ReceiptsGenuine, Genuine, TypeOK
<1>2. ASSUME NEW w \in Callers, Step(w) PROVE GInv'
  <2>2. op[w].pc # "idle"
      BY <1>2 DEF Step, StoreGet, StoreGetFails, CacheEntry, LookupReturns,
           ExecuteKnown, Reserve, ReserveFails, RememberPending, ApplySucceeds, ApplyFails,
           DropClaim, ForgetClaim, SaveReceipt, SaveReceiptFails, RememberReceipt,
           Conclude, ConcludeRefused, Unresolved
  <2>3. op[w] \in Call
      BY <2>2 DEF TypeOK, Idle
  <2> DEFINE c == op[w].cmd
  <2>5. CASE StoreGet(w)
    <3>1. db[c] # NoEntry => Genuine(c, Decoded(db[c]))
        BY <2>3, FreshGenuine DEF Receipts, TypeOK, Call
    <3> QED BY <1>0, <2>3, <2>5, <3>1
              DEF StoreGet, Goto, Receipts, ReceiptsGenuine, Genuine, TypeOK, Call
  <2>6. CASE StoreGetFails(w) \/ LookupReturns(w) \/ ReserveFails(w)
              \/ ConcludeRefused(w) \/ SaveReceiptFails(w)
      BY <1>0, <2>6 DEF StoreGetFails, LookupReturns, ReserveFails, ConcludeRefused,
           SaveReceiptFails, Return, Idle, Receipts, ReceiptsGenuine, Genuine, TypeOK
  <2>7. CASE ExecuteKnown(w)
    <3> DEFINE a == [cmd |-> op[w].cmd, digest |-> op[w].digest, commit |-> op[w].entry.commit]
    <3>1. acks' = acks \/ (acks' = acks \cup {a} /\ op[w].entry.digest = op[w].digest)
        BY <2>7 DEF ExecuteKnown, Ack
    <3>2. op[w].entry \in Entry
        BY <2>7 DEF ExecuteKnown, TypeOK
    <3>3. op[w].entry.digest = op[w].digest /\ op[w].entry.commit # 0 => a \in published
        BY <2>2, <3>2, Shapes DEF Receipts, Genuine
    <3>4. ReceiptsGenuine'
        BY <2>7, <3>1, <3>3 DEF ReceiptsGenuine, ExecuteKnown
    <3>5. Receipts'
        BY <2>7 DEF ExecuteKnown, Return, Idle, Receipts, Genuine, TypeOK
    <3> QED BY <1>0, <3>4, <3>5
  <2>8. CASE CacheEntry(w)
      BY <1>0, <2>2, <2>3, <2>8 DEF CacheEntry, Goto, Receipts, ReceiptsGenuine, Genuine,
           TypeOK, Call
  <2>9. CASE Reserve(w) \/ RememberPending(w)
    <3>1. /\ \A b \in Commands : mem'[b] = mem[b] \/ mem'[b] = Pending(op[w].digest)
          /\ \A b \in Commands : db'[b] = db[b] \/ db'[b] = Pending(op[w].digest)
        BY <2>9 DEF Reserve, RememberPending, TypeOK
    <3>2. published' = published /\ acks' = acks
        BY <2>9 DEF Reserve, RememberPending
    <3>3. /\ \A v \in Callers \ {w} : op'[v] = op[v]
          /\ op'[w].cmd = op[w].cmd /\ op'[w].entry = op[w].entry
          /\ op'[w].pc \notin {"applied", "saved"}
        BY <2>3, <2>9 DEF Reserve, RememberPending, Goto, TypeOK, Call
    <3>4. Pending(op[w].digest).commit = 0
        BY DEF Pending
    <3> QED BY <1>0, <2>2, <3>1, <3>2, <3>3, <3>4 DEF Receipts, ReceiptsGenuine, Genuine
  <2>10. CASE ApplySucceeds(w)
    <3>1. published \subseteq published'
        BY <2>10 DEF ApplySucceeds, Publish
    <3>2. [cmd |-> op'[w].cmd, digest |-> op'[w].digest, commit |-> op'[w].commit]
            \in published'
        BY <2>3, <2>10 DEF ApplySucceeds, Publish, TypeOK, Call
    <3>3. mem' = mem /\ db' = db /\ acks' = acks
        BY <2>10 DEF ApplySucceeds
    <3>4. /\ \A v \in Callers \ {w} : op'[v] = op[v]
          /\ op'[w].cmd = op[w].cmd /\ op'[w].entry = op[w].entry
        BY <2>3, <2>10 DEF ApplySucceeds, TypeOK, Call
    <3>5. Receipts'
        BY <2>2, <3>1, <3>2, <3>3, <3>4 DEF Receipts, Genuine
    <3>6. ReceiptsGenuine'
        BY <3>1, <3>3 DEF ReceiptsGenuine
    <3> QED BY <1>0, <3>5, <3>6
  <2>11. CASE ApplyFails(w)
      BY <1>0, <2>2, <2>3, <2>11 DEF ApplyFails, Publish, Goto, Receipts, ReceiptsGenuine,
           Genuine, TypeOK, Call
  <2>12. CASE DropClaim(w)
    <3>1. \A b \in Commands : db'[b] = db[b] \/ db'[b] = NoEntry
        BY <2>12 DEF DropClaim, TypeOK
    <3>2. mem' = mem /\ published' = published /\ acks' = acks
        BY <2>12 DEF DropClaim
    <3>3. /\ \A v \in Callers \ {w} : op'[v] = op[v]
          /\ op'[w].cmd = op[w].cmd /\ op'[w].entry = op[w].entry /\ op'[w].pc = "released"
        BY <2>3, <2>12 DEF DropClaim, Goto, TypeOK, Call
    <3> QED BY <1>0, <2>2, <3>1, <3>2, <3>3 DEF Receipts, ReceiptsGenuine, Genuine
  <2>13. CASE ForgetClaim(w)
      BY <1>0, <2>3, <2>13 DEF ForgetClaim, Return, Idle, Receipts, ReceiptsGenuine, Genuine,
           TypeOK, Call
  <2>14. CASE SaveReceipt(w)
      BY <1>0, <2>2, <2>3, <2>14 DEF SaveReceipt, Applied, Goto, Receipts, ReceiptsGenuine,
           Genuine, TypeOK, Call
  <2>15. CASE RememberReceipt(w)
    <3> DEFINE a == [cmd |-> op[w].cmd, digest |-> op[w].digest, commit |-> op[w].commit]
    <3>1. a \in published
        BY <2>2, <2>15 DEF RememberReceipt, Receipts
    <3>2. /\ acks' = acks \cup {a} /\ published' = published /\ db' = db
          /\ \A b \in Commands :
                mem'[b] = mem[b] \/ (b = op[w].cmd /\ mem'[b] = Applied(op[w].digest, op[w].commit))
        BY <2>15 DEF RememberReceipt, Ack, TypeOK
    <3>3. \A v \in Callers : op'[v] = op[v] \/ op'[v].pc = "idle"
        BY <2>15 DEF RememberReceipt, Return, Idle, TypeOK
    <3>4. Genuine(op[w].cmd, Applied(op[w].digest, op[w].commit))
        BY <3>1 DEF Genuine, Applied
    <3>5. \A b \in Commands : Genuine(b, mem'[b]) /\ Genuine(b, db'[b])
        BY <3>2, <3>4 DEF Receipts
    <3>6. ReceiptsGenuine'
        BY <3>1, <3>2 DEF ReceiptsGenuine
    <3> QED BY <1>0, <3>2, <3>3, <3>5, <3>6 DEF Receipts, Genuine
  <2>16. CASE Conclude(w)
    <3>1. PICK e \in ConcludedAs(w) : /\ db' = [db EXCEPT ![c] = e]
                                      /\ mem' = [mem EXCEPT ![c] = e]
        BY <2>16 DEF Conclude
    <3>2. Genuine(c, e)
      <4>1. op[w].entry \in Entry
          BY <2>3, <2>16 DEF Conclude, Unresolved, TypeOK
      <4>2. Genuine(c, Abandoned(op[w].entry))
          BY <4>1, <2>2, FreshGenuine DEF Receipts
      <4>3. \A p \in published : p.cmd = c /\ p.digest = op[w].digest =>
               Genuine(c, Applied(op[w].digest, p.commit))
          BY FreshGenuine DEF TypeOK
      <4> QED BY <4>2, <4>3 DEF ConcludedAs
    <3> QED BY <1>0, <2>3, <2>16, <3>1, <3>2 DEF Conclude, Return, Idle, Receipts,
              ReceiptsGenuine, Genuine, TypeOK, Call
  <2> QED BY <1>2, <2>5, <2>6, <2>7, <2>8, <2>9, <2>10, <2>11, <2>12, <2>13, <2>14, <2>15,
             <2>16 DEF Step
<1>3. ASSUME NEW c \in Commands, Age(c) PROVE GInv'
  <2>1. ASSUME NEW f \in [Commands -> Entry \cup {NoEntry}], NEW b \in Commands
        PROVE  Aged(f, c)[b] = NoEntry \/
                 (f[b] # NoEntry /\ Aged(f, c)[b].commit = f[b].commit
                                 /\ Aged(f, c)[b].digest = f[b].digest)
      BY DEF Aged, Entry
  <2>2. /\ mem' = Aged(mem, c) /\ db' = Aged(db, c)
        /\ op' = op /\ published' = published /\ acks' = acks
      BY <1>3 DEF Age
  <2>3. mem \in [Commands -> Entry \cup {NoEntry}] /\ db \in [Commands -> Entry \cup {NoEntry}]
      BY DEF TypeOK
  <2>4. \A b \in Commands : Genuine(b, mem[b])' /\ Genuine(b, db[b])'
      BY <2>1, <2>2, <2>3 DEF Receipts, Genuine
  <2> QED BY <1>0, <2>2, <2>4 DEF Receipts, ReceiptsGenuine, Genuine
<1>4. CASE PruneStore \/ PruneMemory
  <2>1. /\ \A b \in Commands : mem'[b] = mem[b] \/ mem'[b] = NoEntry
        /\ \A b \in Commands : db'[b] = db[b] \/ db'[b] = NoEntry
      BY <1>4 DEF PruneStore, PruneMemory, Sweep
  <2>2. op' = op /\ published' = published /\ acks' = acks
      BY <1>4 DEF PruneStore, PruneMemory
  <2> QED BY <1>0, <2>1, <2>2 DEF Receipts, ReceiptsGenuine, Genuine
<1>5. CASE Crash
    BY <1>0, <1>5 DEF Crash, Idle, Receipts, ReceiptsGenuine, Genuine
<1>6. CASE UNCHANGED vars
    BY <1>0, <1>6 DEF vars, Receipts, ReceiptsGenuine, Genuine
<1> QED BY <1>1, <1>2, <1>3, <1>4, <1>5, <1>6 DEF Next

(* No replay names a commit of another command or of another payload.      *)
THEOREM LedgerReceiptsGenuine == Spec => []ReceiptsGenuine
<1>1. Init => GInv
    BY DEF Init, GInv, TypeOK, Receipts, ReceiptsGenuine, Genuine, Idle
<1>2. GInv => ReceiptsGenuine
    BY DEF GInv
<1> QED BY <1>1, <1>2, ReceiptStep, PTL DEF Spec
-----------------------------------------------------------------------------
(* The Writer.  Its digests are a payload and the head it was computed     *)
(* from; every intent it holds would be one.                               *)
WTypeOK ==
    /\ TypeOK
    /\ commits <= MaxCommits
    /\ intent \in [Callers -> Intent \cup {NoIntent}]

LEMMA ReplayExpected ==
    ASSUME Digests = Payloads \X (0 .. MaxCommits), WTypeOK,
           NEW w \in Callers, Replayable(w)
    PROVE  op[w].entry.digest[2] \in 0 .. MaxCommits
BY DEF Replayable, WTypeOK, TypeOK, Entry

(* Each step of the Writer is a step of the ledger.                        *)
LEMMA WriterIsLedger ==
    ASSUME Digests = Payloads \X (0 .. MaxCommits), MaxCommits \in Nat, WTypeOK, [WNext]_wvars
    PROVE  [Next]_vars
<1>1. ASSUME NEW w \in Callers, NEW c \in Commands, NEW p \in Payloads, CommitIntent(w, c, p)
      PROVE  Next
  <2>1. <<p, 0>> \in Digests /\ "lookup" \in Kinds
      BY DEF Kinds
  <2> QED BY <1>1, <2>1 DEF CommitIntent, Next
<1>2. ASSUME NEW w \in Callers, NEW c \in Commands, NEW p \in Payloads, NEW e \in 0 .. MaxCommits,
             CommitAt(w, c, p, e)
      PROVE  Next
  <2>1. <<p, e>> \in Digests /\ "execute" \in Kinds
      BY DEF Kinds
  <2> QED BY <1>2, <2>1 DEF CommitAt, Next
<1>3. ASSUME NEW w \in Callers, Commit(w) PROVE Next
  <2>1. intent[w] \in Intent
      BY <1>3 DEF Commit, WTypeOK, NoIntent
  <2>2. /\ intent[w].cmd \in Commands /\ "execute" \in Kinds
        /\ <<intent[w].payload, intent[w].expected>> \in Digests
      BY <2>1 DEF Intent, Kinds
  <2> QED BY <1>3, <2>2 DEF Commit, Next
<1>4. ASSUME NEW w \in Callers, FillExpected(w) \/ ApplyCAS(w) \/ ApplyRefused(w) \/ LedgerStep(w)
      PROVE  Next
  <2>1. Step(w)
      BY <1>4 DEF FillExpected, ApplyCAS, ApplyRefused, LedgerStep, Step
  <2> QED BY <2>1 DEF Next
<1>5. CASE Restart
    BY <1>5 DEF Restart, Next
<1>6. CASE UNCHANGED wvars
    BY <1>6 DEF wvars
<1> QED BY <1>1, <1>2, <1>3, <1>4, <1>5, <1>6 DEF WNext

LEMMA WTypeStep ==
    ASSUME Digests = Payloads \X (0 .. MaxCommits), MaxCommits \in Nat, WTypeOK, [WNext]_wvars
    PROVE  WTypeOK'
<1>1. TypeOK'
    BY WriterIsLedger, TypeStep DEF WTypeOK
<1>2. commits' <= MaxCommits
  <2>1. commits \in Nat /\ commits <= MaxCommits
      BY DEF WTypeOK, TypeOK
  <2>2. commits' = commits \/ (commits < MaxCommits /\ commits' = commits + 1)
    <3>1. ASSUME NEW w \in Callers, ApplyCAS(w) \/ ApplyRefused(w)
          PROVE  commits' = commits \/ (commits < MaxCommits /\ commits' = commits + 1)
        BY <3>1 DEF ApplyCAS, ApplyRefused, ApplySucceeds, ApplyFails, Publish
    <3>2. ASSUME NEW w \in Callers, FillExpected(w) \/ Commit(w) \/ LedgerStep(w)
          PROVE  commits' = commits
        BY <3>2 DEF FillExpected, LookupReturns, StoreGetFails, Commit, Start, LedgerStep,
             StoreGet, CacheEntry, ExecuteKnown, Reserve, ReserveFails, RememberPending, DropClaim,
             ForgetClaim, SaveReceipt, SaveReceiptFails, RememberReceipt
    <3>3. ASSUME NEW w \in Callers, NEW c \in Commands, NEW p \in Payloads,
                 CommitIntent(w, c, p) \/ (\E e \in 0 .. MaxCommits : CommitAt(w, c, p, e))
          PROVE  commits' = commits
        BY <3>3 DEF CommitIntent, CommitAt, Start
    <3>4. Restart \/ UNCHANGED wvars => commits' = commits
        BY DEF Restart, Crash, wvars, vars
    <3> QED BY <3>1, <3>2, <3>3, <3>4 DEF WNext
  <2> QED BY <2>1, <2>2
<1>3. intent' \in [Callers -> Intent \cup {NoIntent}]
  <2>1. intent \in [Callers -> Intent \cup {NoIntent}]
      BY DEF WTypeOK
  <2>2. ASSUME NEW w \in Callers, NEW c \in Commands, NEW p \in Payloads, CommitIntent(w, c, p)
        PROVE  intent' \in [Callers -> Intent \cup {NoIntent}]
    <3>1. [phase |-> "lookup", cmd |-> c, payload |-> p, expected |-> 0] \in Intent
        BY DEF Intent
    <3> QED BY <2>1, <2>2, <3>1 DEF CommitIntent
  <2>3. ASSUME NEW w \in Callers, FillExpected(w)
        PROVE  intent' \in [Callers -> Intent \cup {NoIntent}]
    <3> DEFINE e == IF Replayable(w) THEN op[w].entry.digest[2] ELSE commits
    <3>1. e \in 0 .. MaxCommits
        BY ReplayExpected DEF WTypeOK, TypeOK
    <3>2. intent[w] \in Intent
        BY <2>1, <2>3 DEF FillExpected, NoIntent
    <3>3. intent' = [intent EXCEPT ![w].phase = "commit", ![w].expected = e]
        BY <2>3 DEF FillExpected
    <3> HIDE DEF e
    <3> QED BY <2>1, <3>1, <3>2, <3>3 DEF Intent
  <2>4. ASSUME NEW w \in Callers, Commit(w)
        PROVE  intent' \in [Callers -> Intent \cup {NoIntent}]
      BY <2>1, <2>4 DEF Commit
  <2>5. CASE Restart
      BY <2>5 DEF Restart
  <2>6. \/ UNCHANGED intent \/ Restart
        \/ \E w \in Callers, c \in Commands, p \in Payloads : CommitIntent(w, c, p)
        \/ \E w \in Callers : FillExpected(w) \/ Commit(w)
      BY DEF WNext, wvars, CommitAt, ApplyCAS, ApplyRefused, LedgerStep
  <2> QED BY <2>1, <2>2, <2>3, <2>4, <2>5, <2>6
<1> QED BY <1>1, <1>2, <1>3 DEF WTypeOK

LEMMA WTypeInit == ASSUME MaxCommits \in Nat, WInit PROVE WTypeOK
BY DEF WInit, Init, WTypeOK, TypeOK, Idle

(* The Writer implements the ledger's specification, with an apply() that  *)
(* compares the expected head: what holds of the ledger holds under it     *)
(* (Writer.CommitIntent, Writer.Commit, Ledger.Execute).                   *)
THEOREM WriterRefinesLedger ==
    ASSUME Digests = Payloads \X (0 .. MaxCommits), MaxCommits \in Nat
    PROVE  WSpec => Spec
<1>1. WInit => WTypeOK /\ Init
    BY WTypeInit DEF WInit
<1>2. WTypeOK /\ [WNext]_wvars => WTypeOK' /\ [Next]_vars
    BY WTypeStep, WriterIsLedger
<1> QED BY <1>1, <1>2, PTL DEF WSpec, Spec

(* A commit is published on the head its digest names only.                *)
LEMMA HeadStep == WTypeOK /\ NoLostUpdate /\ [WNext]_wvars => NoLostUpdate'
<1> SUFFICES ASSUME WTypeOK, NoLostUpdate, [WNext]_wvars PROVE NoLostUpdate'
    OBVIOUS
<1>1. ASSUME NEW w \in Callers, ApplyCAS(w) \/ ApplyRefused(w) PROVE NoLostUpdate'
  <2>1. \/ published' = published
        \/ /\ op[w].digest[2] = commits
           /\ published' = published \cup
                {[cmd |-> op[w].cmd, digest |-> op[w].digest, commit |-> commits + 1]}
    <3>1. commits + 1 # commits
        BY DEF WTypeOK, TypeOK
    <3> QED BY <1>1, <3>1 DEF ApplyCAS, ApplyRefused, ApplySucceeds, ApplyFails, Publish
  <2> QED BY <2>1 DEF NoLostUpdate
<1>2. ASSUME NEW w \in Callers, FillExpected(w) \/ Commit(w) \/ LedgerStep(w)
      PROVE  published' = published
    BY <1>2 DEF FillExpected, LookupReturns, StoreGetFails, Commit, Start, LedgerStep,
         StoreGet, CacheEntry, ExecuteKnown, Reserve, ReserveFails, RememberPending, DropClaim,
         ForgetClaim, SaveReceipt, SaveReceiptFails, RememberReceipt
<1>3. ASSUME NEW w \in Callers, NEW c \in Commands, NEW p \in Payloads,
             CommitIntent(w, c, p) \/ (\E e \in 0 .. MaxCommits : CommitAt(w, c, p, e))
      PROVE  published' = published
    BY <1>3 DEF CommitIntent, CommitAt, Start
<1>4. Restart \/ UNCHANGED wvars => published' = published
    BY DEF Restart, Crash, wvars, vars
<1>5. published' = published => NoLostUpdate'
    BY DEF NoLostUpdate
<1> QED BY <1>1, <1>2, <1>3, <1>4, <1>5 DEF WNext

(* One request is published at most once and on the head its author knew,  *)
(* although answers are lost between authority and ledger: the digest      *)
(* carries the expected head, and no head returns (Ledger.Execute,         *)
(* applySnapshot).                                                         *)
THEOREM WriterCommitExact ==
    ASSUME Digests = Payloads \X (0 .. MaxCommits), MaxCommits \in Nat
    PROVE  WSpec => []CommitExact
<1>1. WInit => WTypeOK /\ NoLostUpdate
    BY WTypeInit DEF WInit, Init, NoLostUpdate
<1>2. WTypeOK /\ NoLostUpdate /\ [WNext]_wvars => WTypeOK' /\ NoLostUpdate'
    BY WTypeStep, HeadStep
<1>3. WTypeOK /\ NoLostUpdate => CommitExact
  <2> SUFFICES ASSUME WTypeOK, NoLostUpdate, NEW p \in published, NEW q \in published,
                      p.cmd = q.cmd, p.digest = q.digest
               PROVE  p = q
      BY DEF CommitExact, RequestOnce
  <2>1. published \subseteq [cmd : Commands, digest : Digests, commit : Nat]
      BY DEF WTypeOK, TypeOK
  <2>2. p.commit = q.commit
      BY DEF NoLostUpdate
  <2> QED BY <2>1, <2>2
<1> QED BY <1>1, <1>2, <1>3, PTL DEF WSpec

=============================================================================
