----------------------------- MODULE CommandLog -----------------------------
(***************************************************************************)
(* The durable command-id ledger of snapshot/commandlog: one Ledger in one *)
(* process, its in-memory entries, the bbolt file behind it, and the       *)
(* callers that run Execute, ResolvePending, AbandonPending and the        *)
(* lock-free Lookup against it.  The closure Execute runs against the      *)
(* Snapshot authority is abstract here: it publishes a commit or it does   *)
(* not, and it returns a receipt or an error.                              *)
(***************************************************************************)
EXTENDS Naturals

CONSTANTS
    Commands,        \* command ids
    Digests,         \* canonical digests of request payloads
    Callers,         \* goroutines that call the ledger
    NoEntry,         \* "not found"
    MaxCommits,      \* bound: commits the authority may publish
    MaxFaults,       \* bound: store failures and process crashes
    AmbiguousApply   \* may apply() fail after the authority has published?

VARIABLES
    mem,        \* Ledger.entries: what this process remembers
    db,         \* the bbolt bucket: what survives the process
    op,         \* op[w]: the call that caller w is executing
    pruning,    \* Prune has swept the store and not yet the memory
    faults,     \* faults injected so far
    commits,    \* the authority's latest commit
    published,  \* ghost: [cmd, digest, commit] the authority accepted
    live,       \* ghost: publications of a command since it was last pruned
    acks        \* ghost: [cmd, digest, commit] reported to callers as success

vars == <<mem, db, op, pruning, faults, commits, published, live, acks>>

(***************************************************************************)
(* An Entry.  "receipt" is the raw JSON: absent (length 0), the four bytes *)
(* of the literal null, or a receipt that names a commit.  "age" says if   *)
(* UpdatedAt lies before the retention cutoff.                             *)
(***************************************************************************)
Statuses == {"PENDING", "APPLIED", "ABANDONED"}

Entry == [digest : Digests, status : Statuses,
          receipt : {"empty", "null", "value"}, commit : Nat, age : {"new", "old"}]

ASSUME NoEntryAssumption == NoEntry \notin Entry

Pending(d) == [digest |-> d, status |-> "PENDING", receipt |-> "empty",
               commit |-> 0, age |-> "new"]

Applied(d, k) == [digest |-> d, status |-> "APPLIED", receipt |-> "value",
                  commit |-> k, age |-> "new"]

Abandoned(e) == [e EXCEPT !.status = "ABANDONED", !.age = "new"]

Completed(e) == e # NoEntry /\ e.status \in {"APPLIED", "ABANDONED"}

(* BoltStore.Get decodes the JSON that Put encoded.  An absent receipt is  *)
(* written as null, and json.RawMessage reads null back as those 4 bytes.  *)
Decoded(e) == IF e.receipt = "empty" THEN [e EXCEPT !.receipt = "null"] ELSE e

(***************************************************************************)
(* A call.  pc names the next step; entry is the Entry lookup returned;    *)
(* commit is what apply() published.                                       *)
(***************************************************************************)
Kinds == {"lookup", "execute", "resolve", "abandon"}

PCs == {"idle", "get", "cache", "decide", "absent", "reserved", "apply",
        "applied", "saved", "failed", "released"}

Idle == [kind |-> "lookup", pc |-> "idle"]

Call == [kind : Kinds, pc : PCs \ {"idle"}, cmd : Commands, digest : Digests,
         entry : Entry \cup {NoEntry}, commit : Nat]

(* lockCommand: every operation but Lookup holds its command's mutex.      *)
Holds(w, c) == op[w].pc # "idle" /\ op[w].kind # "lookup" /\ op[w].cmd = c

Init ==
    /\ mem = [c \in Commands |-> NoEntry]
    /\ db = [c \in Commands |-> NoEntry]
    /\ op = [w \in Callers |-> Idle]
    /\ pruning = "no"
    /\ faults = 0
    /\ commits = 0
    /\ published = {}
    /\ live = [c \in Commands |-> 0]
    /\ acks = {}

Goto(w, pc) == op' = [op EXCEPT ![w].pc = pc]

Return(w) == op' = [op EXCEPT ![w] = Idle]

Ack(c, d, k) == acks' = acks \cup {[cmd |-> c, digest |-> d, commit |-> k]}

Fault == faults < MaxFaults /\ faults' = faults + 1

-----------------------------------------------------------------------------
(* Mutant: no mutex is taken.                                              *)
StartUnlocked(w, k, c, d) ==
    /\ op[w].pc = "idle"
    /\ op' = [op EXCEPT ![w] =
                [kind |-> k, pc |-> IF mem[c] = NoEntry THEN "get" ELSE "decide",
                 cmd |-> c, digest |-> d, entry |-> mem[c], commit |-> 0]]
    /\ UNCHANGED <<mem, db, pruning, faults, commits, published, live, acks>>

(* A caller enters: it takes the command's mutex unless it only looks up,  *)
(* and reads the in-memory entry.                                          *)
Start(w, k, c, d) ==
    /\ op[w].pc = "idle"
    /\ k # "lookup" => \A v \in Callers : ~Holds(v, c)
    /\ op' = [op EXCEPT ![w] =
                [kind |-> k, pc |-> IF mem[c] = NoEntry THEN "get" ELSE "decide",
                 cmd |-> c, digest |-> d, entry |-> mem[c], commit |-> 0]]
    /\ UNCHANGED <<mem, db, pruning, faults, commits, published, live, acks>>

(* lookup reads the store on a memory miss.                                *)
StoreGet(w) ==
    /\ op[w].pc = "get"
    /\ IF db[op[w].cmd] = NoEntry
         THEN Goto(w, "absent")
         ELSE op' = [op EXCEPT ![w].pc = "cache",
                               ![w].entry = Decoded(db[op[w].cmd])]
    /\ UNCHANGED <<mem, db, pruning, faults, commits, published, live, acks>>

(* A failing read returns TEMPORARY_UNAVAILABLE (Lookup: not found).       *)
StoreGetFails(w) ==
    /\ op[w].pc = "get"
    /\ Fault
    /\ Return(w)
    /\ UNCHANGED <<mem, db, pruning, commits, published, live, acks>>

(* lookup then caches what it read, whatever memory holds by now.          *)
CacheEntry(w) ==
    /\ op[w].pc = "cache"
    /\ mem' = [mem EXCEPT ![op[w].cmd] = op[w].entry]
    /\ Goto(w, "decide")
    /\ UNCHANGED <<db, pruning, faults, commits, published, live, acks>>

(* Lookup returns.                                                         *)
LookupReturns(w) ==
    /\ op[w].kind = "lookup"
    /\ op[w].pc \in {"decide", "absent"}
    /\ Return(w)
    /\ UNCHANGED <<mem, db, pruning, faults, commits, published, live, acks>>

-----------------------------------------------------------------------------
(* Execute.                                                                *)

(* Mutant: the digest of the stored entry is not compared.                 *)
ExecuteKnownAnyDigest(w) ==
    LET e == op[w].entry IN
    /\ op[w].kind = "execute" /\ op[w].pc = "decide"
    /\ IF e.receipt # "empty"
         THEN Ack(op[w].cmd, op[w].digest, e.commit)
         ELSE UNCHANGED acks
    /\ Return(w)
    /\ UNCHANGED <<mem, db, pruning, faults, commits, published, live>>

(* The command is known: conflict, unresolved, or replay of its receipt.   *)
ExecuteKnown(w) ==
    LET e == op[w].entry IN
    /\ op[w].kind = "execute" /\ op[w].pc = "decide"
    /\ IF e.digest = op[w].digest /\ e.receipt # "empty"
         THEN Ack(op[w].cmd, op[w].digest, e.commit)
         ELSE UNCHANGED acks
    /\ Return(w)
    /\ UNCHANGED <<mem, db, pruning, faults, commits, published, live>>

(* The durable claim precedes the authority.                               *)
Reserve(w) ==
    /\ op[w].kind = "execute" /\ op[w].pc = "absent"
    /\ db' = [db EXCEPT ![op[w].cmd] = Pending(op[w].digest)]
    /\ Goto(w, "reserved")
    /\ UNCHANGED <<mem, pruning, faults, commits, published, live, acks>>

ReserveFails(w) ==
    /\ op[w].kind = "execute" /\ op[w].pc = "absent"
    /\ Fault
    /\ Return(w)
    /\ UNCHANGED <<mem, db, pruning, commits, published, live, acks>>

RememberPending(w) ==
    /\ op[w].kind = "execute" /\ op[w].pc = "reserved"
    /\ mem' = [mem EXCEPT ![op[w].cmd] = Pending(op[w].digest)]
    /\ Goto(w, "apply")
    /\ UNCHANGED <<db, pruning, faults, commits, published, live, acks>>

(* The authority accepts the change: commit numbers are never reused.      *)
Publish(w) ==
    /\ commits < MaxCommits
    /\ commits' = commits + 1
    /\ published' = published \cup
         {[cmd |-> op[w].cmd, digest |-> op[w].digest,
           commit |-> commits']}
    /\ live' = [live EXCEPT ![op[w].cmd] = @ + 1]

(* apply() returns a receipt.                                              *)
ApplySucceeds(w) ==
    /\ op[w].kind = "execute" /\ op[w].pc = "apply"
    /\ Publish(w)
    /\ op' = [op EXCEPT ![w].pc = "applied",
                        ![w].commit = commits']
    /\ UNCHANGED <<mem, db, pruning, faults, acks>>

(* apply() returns an error, possibly after the authority has published.   *)
ApplyFails(w) ==
    /\ op[w].kind = "execute" /\ op[w].pc = "apply"
    /\ \/ UNCHANGED <<commits, published, live>>
       \/ AmbiguousApply /\ Publish(w)
    /\ Goto(w, "failed")
    /\ UNCHANGED <<mem, db, pruning, faults, acks>>

(* The error path deletes the claim and ignores a failing Delete.          *)
DropClaim(w) ==
    /\ op[w].kind = "execute" /\ op[w].pc = "failed"
    /\ \/ db' = [db EXCEPT ![op[w].cmd] = NoEntry] /\ UNCHANGED faults
       \/ Fault /\ UNCHANGED db
    /\ Goto(w, "released")
    /\ UNCHANGED <<mem, pruning, commits, published, live, acks>>

ForgetClaim(w) ==
    /\ op[w].kind = "execute" /\ op[w].pc = "released"
    /\ mem' = [mem EXCEPT ![op[w].cmd] = NoEntry]
    /\ Return(w)
    /\ UNCHANGED <<db, pruning, faults, commits, published, live, acks>>

(* The success path persists the receipt, then remembers it and returns.   *)
SaveReceipt(w) ==
    /\ op[w].kind = "execute" /\ op[w].pc = "applied"
    /\ db' = [db EXCEPT ![op[w].cmd] = Applied(op[w].digest, op[w].commit)]
    /\ Goto(w, "saved")
    /\ UNCHANGED <<mem, pruning, faults, commits, published, live, acks>>

SaveReceiptFails(w) ==
    /\ op[w].kind = "execute" /\ op[w].pc = "applied"
    /\ Fault
    /\ Return(w)
    /\ UNCHANGED <<mem, db, pruning, commits, published, live, acks>>

RememberReceipt(w) ==
    /\ op[w].kind = "execute" /\ op[w].pc = "saved"
    /\ mem' = [mem EXCEPT ![op[w].cmd] = Applied(op[w].digest, op[w].commit)]
    /\ Ack(op[w].cmd, op[w].digest, op[w].commit)
    /\ Return(w)
    /\ UNCHANGED <<db, pruning, faults, commits, published, live>>

-----------------------------------------------------------------------------
(* ResolvePending and AbandonPending, the operator's two answers to a      *)
(* claim whose outcome was lost.                                           *)

Unresolved(w) ==
    LET e == op[w].entry IN
    /\ op[w].pc = "decide"
    /\ e.status = "PENDING" /\ e.receipt = "empty" /\ e.digest = op[w].digest

(* What the operator supplies: a commit of this command that the authority *)
(* holds for ResolvePending; AbandonPending carries no receipt.            *)
ConcludedAs(w) ==
    IF op[w].kind = "abandon"
      THEN {Abandoned(op[w].entry)}
      ELSE {Applied(op[w].digest, p.commit) :
              p \in {q \in published : q.cmd = op[w].cmd /\ q.digest = op[w].digest}}

Conclude(w) ==
    /\ op[w].kind \in {"resolve", "abandon"}
    /\ Unresolved(w)
    /\ \E e \in ConcludedAs(w) :
         /\ db' = [db EXCEPT ![op[w].cmd] = e]
         /\ mem' = [mem EXCEPT ![op[w].cmd] = e]
    /\ Return(w)
    /\ UNCHANGED <<pruning, faults, commits, published, live, acks>>

(* Nothing to conclude, or the Put fails: nothing changes.                 *)
ConcludeRefused(w) ==
    /\ op[w].kind \in {"resolve", "abandon"}
    /\ op[w].pc \in {"decide", "absent"}
    /\ IF Unresolved(w) /\ ConcludedAs(w) # {} THEN Fault ELSE UNCHANGED faults
    /\ Return(w)
    /\ UNCHANGED <<mem, db, pruning, commits, published, live, acks>>

-----------------------------------------------------------------------------
(* Retention.  Prune sweeps the store in one transaction and then memory,  *)
(* without any command mutex.  Retention windows are longer than a call:   *)
(* an entry ages while no call has a copy of it in hand.                   *)

Aged(f, c) == IF f[c] = NoEntry THEN f ELSE [f EXCEPT ![c].age = "old"]

Age(c) ==
    /\ \E f \in {mem, db} : f[c] # NoEntry /\ f[c].age = "new"
    /\ \A w \in Callers : op[w].pc # "idle" => op[w].cmd # c
    /\ mem' = Aged(mem, c)
    /\ db' = Aged(db, c)
    /\ UNCHANGED <<op, pruning, faults, commits, published, live, acks>>

Expired(e) == Completed(e) /\ e.age = "old"

Sweep(f) == [c \in Commands |-> IF Expired(f[c]) THEN NoEntry ELSE f[c]]

PruneStore ==
    /\ pruning = "no"
    /\ \E c \in Commands : Expired(db[c]) \/ Expired(mem[c])
    /\ db' = Sweep(db)
    /\ live' = [c \in Commands |-> IF Expired(db[c]) THEN 0 ELSE live[c]]
    /\ pruning' = "memory"
    /\ UNCHANGED <<mem, op, faults, commits, published, acks>>

PruneMemory ==
    /\ pruning = "memory"
    /\ mem' = Sweep(mem)
    /\ pruning' = "no"
    /\ UNCHANGED <<db, op, faults, commits, published, live, acks>>

(* The process dies and a new one opens the same file.                     *)
Crash ==
    /\ Fault
    /\ mem' = [c \in Commands |-> NoEntry]
    /\ op' = [w \in Callers |-> Idle]
    /\ pruning' = "no"
    /\ UNCHANGED <<db, commits, published, live, acks>>

-----------------------------------------------------------------------------
Step(w) ==
    \/ StoreGet(w) \/ StoreGetFails(w) \/ CacheEntry(w) \/ LookupReturns(w)
    \/ ExecuteKnown(w) \/ Reserve(w) \/ ReserveFails(w) \/ RememberPending(w)
    \/ ApplySucceeds(w) \/ ApplyFails(w) \/ DropClaim(w) \/ ForgetClaim(w)
    \/ SaveReceipt(w) \/ SaveReceiptFails(w) \/ RememberReceipt(w)
    \/ Conclude(w) \/ ConcludeRefused(w)

Next ==
    \/ \E w \in Callers, k \in Kinds, c \in Commands, d \in Digests : Start(w, k, c, d)
    \/ \E w \in Callers : Step(w)
    \/ \E c \in Commands : Age(c)
    \/ PruneStore \/ PruneMemory
    \/ Crash

Spec == Init /\ [][Next]_vars

-----------------------------------------------------------------------------
(* The variables keep their types: memory, store and calls hold only       *)
(* well-formed entries (commandlog.Entry).                                 *)
TypeOK ==
    /\ mem \in [Commands -> Entry \cup {NoEntry}]
    /\ db \in [Commands -> Entry \cup {NoEntry}]
    /\ op \in [Callers -> Call \cup {Idle}]
    /\ pruning \in {"no", "memory"}
    /\ \A w \in Callers : op[w].pc \in {"cache", "decide"} => op[w].entry \in Entry
    /\ faults \in Nat
    /\ commits \in Nat
    /\ published \subseteq [cmd : Commands, digest : Digests, commit : Nat]
    /\ live \in [Commands -> Nat]
    /\ acks \subseteq [cmd : Commands, digest : Digests, commit : Nat]

(* Execute never applies a command twice: between two prunings of its      *)
(* entry a command publishes at most once, whatever crashes, store         *)
(* failures, lookups and concurrent callers do, as long as an apply() that *)
(* returns an error has not published.                                     *)
AtMostOnce == AmbiguousApply \/ \A c \in Commands : live[c] <= 1

(* A publication is never left without a durable claim: from the moment    *)
(* the authority accepts a command until retention prunes it, the store    *)
(* holds an entry, so a restarted ledger cannot take it for new.           *)
ClaimSurvives ==
    AmbiguousApply \/ \A c \in Commands : live[c] > 0 => db[c] # NoEntry

(* A receipt that names a commit is the receipt of that very command and   *)
(* payload: no replay ever hands out another command's or another          *)
(* payload's commit.                                                       *)
ReceiptsGenuine == \A a \in acks : a.commit # 0 => a \in published

(* "same key and same digest return the original Receipt": a success that  *)
(* a caller sees always names a publication of its command.                *)
ReplayNamesPublication == \A a \in acks : a \in published

=============================================================================
