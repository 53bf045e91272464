--------------------------- MODULE DesiredCommit ---------------------------
(***************************************************************************)
(* kc writer commit --dir: a client compares a directory with a commit,    *)
(* sends what differs, and finds out what became of it when the answer is  *)
(* lost.  Objects the directory does not hold are left alone.              *)
(*                                                                         *)
(* Resolving is done by concurrent requests at one commit, which cannot    *)
(* change: their order does not matter, and one error fails the whole.  A  *)
(* history is linear and a commit is its position.  The ledger's own       *)
(* crashes and races are those of CommandLog.                              *)
(***************************************************************************)
EXTENDS Naturals, Sequences, FiniteSets

CONSTANTS Clients,         \* running processes of kc: numbers, the least free one is taken
          CommandIds,      \* command ids
          A, B,            \* the addresses of two objects
          F, G, H,         \* files: two of them give the same address
          Absent,          \* no such file, no such unit
          MaxCommitRuns,   \* bound on the runs of kc
          MaxUpsets        \* bound on edits, commits of others and lost answers together

VARIABLES dir,       \* the directory
          history,   \* the trees of the target ref, oldest first
          receipt,   \* the receipt of each command, with what was applied
          client,    \* one process of kc in each slot
          server,    \* commands the server has yet to execute or answer, by client
          ran, upset

desiredVars == <<dir, history, receipt, client, server, ran, upset>>

Files == {F, G, H}
Addresses == {A, B}
Units == {<<0, "s">>, <<1, "s">>, <<1, "t">>}     \* a value and its schema
NoReceipt == [commit |-> 0]

\* The address of a file is in its front matter or made from its path without
\* the extension.
AddressOf(f) == IF f = H THEN B ELSE A

Digest(unit) == unit[1]

ASSUME AbsentIsNoUnit == Absent \notin Units

(***************************************************************************)
(* Comparing                                                               *)
(***************************************************************************)
\* One PUT for each file, hidden ones left out.
Ingested(files) == {[address |-> AddressOf(f), unit |-> files[f]] : f \in {g \in Files : files[g] # Absent}}

CurrentDigests(tree) == [a \in {b \in Addresses : tree[b] # Absent} |-> Digest(tree[a])]

Current(current, op) == op.address \in DOMAIN current /\ current[op.address] = Digest(op.unit)
OmitUnchangedByName(ops, current) == {op \in ops : op.address \notin DOMAIN current}   \* a mutant

\* A PUT whose value is there already is left out, whatever else it carries.
OmitUnchanged(ops, current) == {op \in ops : ~Current(current, op)}

\* Two files of one address are two PUTs of it: the last one stands, in an
\* order their names do not decide.
AppliedTo(tree, ops) ==
    {new \in [Addresses -> Units \cup {Absent}] :
        \A a \in Addresses :
            LET puts == {op.unit : op \in {o \in ops : o.address = a}}
            IN IF puts = {} THEN new[a] = tree[a] ELSE new[a] \in puts}

(***************************************************************************)
(* The server                                                              *)
(***************************************************************************)
HistoryTip == Len(history)
NoFiles == [f \in Files |-> Absent]
NoRun == [pc |-> "idle", command |-> "none", base |-> 0, files |-> NoFiles, ops |-> {},
          answer |-> "none", commit |-> 0]
Quiet == [state |-> "none", commit |-> 0]

DesiredInit == /\ dir = [f \in Files |-> IF f = G THEN Absent ELSE <<1, "s">>]
               /\ history = <<[a \in Addresses |-> IF a = A THEN <<0, "s">> ELSE Absent]>>
               /\ receipt = [c \in CommandIds |-> NoReceipt]
               /\ client = [k \in Clients |-> NoRun]
               /\ server = [k \in Clients |-> Quiet]
               /\ ran = 0 /\ upset = 0

Known(c) == receipt[c] # NoReceipt
BaseOf(k) == client[k].base

\* A repeated command keeps the base of its first run, so it is the same
\* command when its operations are the same; a new one needs the head it was
\* compared with.
Execute(k) ==
    LET r == client[k]
        entry == receipt[r.command]
        Reply(state, commit) == server' = [server EXCEPT ![k] = [state |-> state, commit |-> commit]]
    IN /\ server[k].state = "sent"
       /\ \/ /\ Known(r.command)
             /\ IF entry.ops = r.ops THEN Reply("replayed", entry.commit) ELSE Reply("conflict", 0)
             /\ UNCHANGED <<history, receipt>>
          \/ /\ ~Known(r.command) /\ BaseOf(k) # HistoryTip
             /\ Reply("stale", 0)
             /\ UNCHANGED <<history, receipt>>
          \/ /\ ~Known(r.command) /\ BaseOf(k) = HistoryTip
             /\ \E new \in AppliedTo(history[HistoryTip], r.ops) : history' = Append(history, new)
             /\ receipt' = [receipt EXCEPT ![r.command] =
                   [commit |-> HistoryTip + 1, base |-> r.base, ops |-> r.ops, files |-> r.files]]
             /\ Reply("applied", HistoryTip + 1)
       /\ UNCHANGED <<dir, client, ran, upset>>

(***************************************************************************)
(* The client                                                              *)
(***************************************************************************)
Go(k, from, r) == client[k].pc = from /\ client' = [client EXCEPT ![k] = r]
Done(r, answer, commit) == [r EXCEPT !.pc = "done", !.answer = answer, !.commit = commit]
FreeSlot(k) == client[k].pc \in {"idle", "done"} /\ server[k].state # "sent"

\* The base is the head of the ref unless the caller names one; the directory
\* is read after it.
StartRun(k) ==
    /\ FreeSlot(k) /\ \A j \in Clients : j < k => ~FreeSlot(j)
    /\ ran < MaxCommitRuns /\ ran' = ran + 1
    /\ \E c \in CommandIds, base \in {1, HistoryTip} :
         client' = [client EXCEPT ![k] = [NoRun EXCEPT !.pc = "ingest", !.command = c, !.base = base]]
    /\ server' = [server EXCEPT ![k] = Quiet]
    /\ UNCHANGED <<dir, history, receipt, upset>>

IngestDesired(k) == /\ Go(k, "ingest", [client[k] EXCEPT !.pc = "compare", !.files = dir])
                    /\ UNCHANGED <<dir, history, receipt, server, ran, upset>>

PrepareDesired(k) ==
    LET r == client[k]
        ops == OmitUnchanged(Ingested(r.files), CurrentDigests(history[r.base]))
    IN /\ Go(k, "compare", [r EXCEPT !.ops = ops, !.pc = IF ops = {} THEN "lookup" ELSE "post"])
       /\ UNCHANGED <<dir, history, receipt, server, ran, upset>>

\* Nothing to send: the command may have done it before.  A receipt that
\* cannot be read is taken for none.
ReplayedDesiredReceipt(k) ==
    LET r == client[k] IN
    /\ \/ Go(k, "lookup", Done(r, "looked up", receipt[r.command].commit)) /\ Known(r.command)
       \/ Go(k, "lookup", Done(r, "matches", r.base))
    /\ UNCHANGED <<dir, history, receipt, server, ran, upset>>

PostDesired(k) == /\ Go(k, "post", [client[k] EXCEPT !.pc = "waiting"])
                  /\ server' = [server EXCEPT ![k].state = "sent"]
                  /\ UNCHANGED <<dir, history, receipt, ran, upset>>

Receive(k) ==
    /\ server[k].state \notin {"none", "sent"}
    /\ Go(k, "waiting", Done(client[k], server[k].state, server[k].commit))
    /\ UNCHANGED <<dir, history, receipt, server, ran, upset>>

Upset == upset < MaxUpsets /\ upset' = upset + 1

\* The connection breaks or a gateway times out; the server goes on.
Lose(k) == /\ Upset
           /\ Go(k, "waiting", [client[k] EXCEPT !.pc = "poll"])
           /\ UNCHANGED <<dir, history, receipt, server, ran>>

\* Receipts are polled until the budget is spent; the commit is never sent again.
Poll(k) ==
    LET r == client[k] IN
    /\ \/ Go(k, "poll", Done(r, "recovered", receipt[r.command].commit)) /\ Known(r.command)
       \/ Go(k, "poll", Done(r, "unknown", 0))
    /\ UNCHANGED <<dir, history, receipt, server, ran, upset>>

(***************************************************************************)
(* Others                                                                  *)
(***************************************************************************)
EditFile == /\ Upset
            /\ \E f \in Files, c \in {<<0, "s">>, <<1, "t">>, Absent} : dir' = [dir EXCEPT ![f] = c]
            /\ UNCHANGED <<history, receipt, client, server, ran>>

CommitOfOthers == /\ Upset
                  /\ \E a \in Addresses, c \in Units :
                        history' = Append(history, [history[HistoryTip] EXCEPT ![a] = c])
                  /\ UNCHANGED <<dir, receipt, client, server, ran>>

DesiredNext == \/ \E k \in Clients : \/ StartRun(k) \/ IngestDesired(k) \/ PrepareDesired(k) \/ ReplayedDesiredReceipt(k)
                                     \/ PostDesired(k) \/ Execute(k) \/ Receive(k) \/ Lose(k) \/ Poll(k)
               \/ EditFile \/ CommitOfOthers

DesiredSpec == DesiredInit /\ [][DesiredNext]_desiredVars

(***************************************************************************)
(* What the client was told                                                *)
(***************************************************************************)
Told == {client[k] : k \in {c \in Clients : client[c].pc = "done"}}
HoldsValues(ops, tree) == \A op \in ops : \E other \in ops :
    /\ other.address = op.address
    /\ tree[op.address] # Absent /\ Digest(tree[op.address]) = Digest(other.unit)

\* The commit a client is told of holds its directory as the client read it,
\* by whichever way it was told, unless the directory was edited under a
\* command id that had been used; and then the server still answers for
\* everything it was sent.
ToldTrue == \A r \in Told :
    /\ r.answer \in {"applied", "replayed", "looked up", "recovered"}
          /\ r.files = receipt[r.command].files => HoldsValues(Ingested(r.files), history[r.commit])
    /\ r.answer \in {"applied", "replayed"} => HoldsValues(r.ops, history[r.commit])
    /\ r.answer = "matches" => HoldsValues(Ingested(r.files), history[r.base])
    /\ r.answer = "applied" => r.files = receipt[r.command].files

\* A commit of the client stands on the commit it was compared with, changes
\* something, and nothing but what the directory holds.
OnWhatWasSeen == \A c \in CommandIds : Known(c) =>
    LET entry == receipt[c]
        old == history[entry.commit - 1]
        new == history[entry.commit]
    IN /\ entry.commit = entry.base + 1
       /\ \E a \in Addresses : new[a] # old[a]
       /\ \A a \in Addresses : new[a] # old[a] => \E f \in Files : AddressOf(f) = a /\ new[a] = entry.files[f]

\* A refusal is of a command that did nothing in this run, and a command is
\* refused for good only by other work: another base or other operations.
RefusedForCause == \A r \in Told :
    /\ r.answer = "stale" => r.base < Len(history)
    /\ r.answer = "conflict" => receipt[r.command].ops # r.ops

DesiredStands == ToldTrue /\ OnWhatWasSeen /\ RefusedForCause
=============================================================================
