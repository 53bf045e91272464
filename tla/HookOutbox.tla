---- MODULE HookOutbox ----
(***************************************************************************)
(* Post hooks and their retry file, hook-outbox.jsonl (hook/ and           *)
(* invocation/home_hookrun.go WithHooks).                                  *)
(*                                                                         *)
(* After an action succeeded its runner flushes the outbox, delivers the   *)
(* event to every matching binding and appends what failed to the outbox.  *)
(* Flush and append are serialised per home by withOutboxLock (a process   *)
(* mutex and a file lock), delivery of fresh events is not.  Runners are   *)
(* goroutines of one server or several kc processes on one home.  Nothing  *)
(* flushes in the background: only the next post dispatch does.            *)
(***************************************************************************)
EXTENDS Naturals, Sequences, SequencesExt

CONSTANTS
    Runners,     \* goroutines or processes running hooked actions
    Events,      \* actions that succeed, one event each
    Bindings,    \* post bindings in hooks.json, all matching these events
    Torn,        \* half a line at the end of the file
    Garbled,     \* half a line with the next one behind it
    MaxHookFaults \* bound on failed deliveries, writes and crashes

VARIABLES
    accepted,   \* events whose action succeeded
    delivered,  \* (event, binding) pairs some receiver got
    outbox,     \* the lines of hook-outbox.jsonl
    run,        \* what each runner is doing
    lost,       \* ghost: pairs a killed runner held or a failed append dropped
    hookFaults

hookVars == <<accepted, delivered, outbox, run, lost, hookFaults>>

Items == Events \X Bindings

\* What the JSON decoder cannot get past.
Unreadable == {Torn, Garbled}

NoEvent == "none"

\* todo: bindings still to be delivered, failed: the one to be queued,
\* body / remaining: the lines a flush has read / will write back.
NotDispatching == [pc |-> "idle", event |-> NoEvent, todo |-> {}, body |-> << >>, remaining |-> << >>]

HookInit ==
    /\ accepted = {}
    /\ delivered = {}
    /\ outbox = << >>
    /\ run = [r \in Runners |-> NotDispatching]
    /\ lost = {}
    /\ hookFaults = 0

HookFault == hookFaults < MaxHookFaults /\ hookFaults' = hookFaults + 1

\* withOutboxLock: a flush holds the lock from reading the file to the end.
LockFree == \A r \in Runners : run[r].pc # "retry"

\* The flush is over, whatever its result: the lock is released and the fresh
\* event is delivered next.
FlushEnds(r) ==
    run' = [run EXCEPT ![r].pc = "deliver", ![r].body = << >>, ![r].remaining = << >>]

---------------------------------------------------------------------------
\* WithHooks: the pre hooks let the action pass and the action succeeded.
Accept(r, e) ==
    /\ run[r].pc = "idle"
    /\ e \notin accepted
    /\ accepted' = accepted \cup {e}
    /\ run' = [run EXCEPT ![r] = [NotDispatching EXCEPT !.pc = "flush", !.event = e, !.todo = Bindings]]
    /\ UNCHANGED <<delivered, outbox, lost, hookFaults>>

\* The same for an action that no post binding matches: it flushes all the same.
AcceptUnmatched(r) ==
    /\ run[r].pc = "idle"
    /\ run' = [run EXCEPT ![r] = [NotDispatching EXCEPT !.pc = "flush"]]
    /\ UNCHANGED <<accepted, delivered, outbox, lost, hookFaults>>

\* flushOutbox reads the whole file under the lock.
Flush(r) ==
    /\ run[r].pc = "flush"
    /\ LockFree
    /\ run' = [run EXCEPT ![r].pc = IF outbox = << >> THEN "deliver" ELSE "retry",
                          ![r].body = outbox]
    /\ UNCHANGED <<accepted, delivered, outbox, lost, hookFaults>>

\* One decoded line is delivered again ...
Retry(r) ==
    /\ run[r].pc = "retry"
    /\ run[r].body # << >>
    /\ Head(run[r].body) \notin Unreadable
    /\ delivered' = delivered \cup {Head(run[r].body)}
    /\ run' = [run EXCEPT ![r].body = Tail(@)]
    /\ UNCHANGED <<accepted, outbox, lost, hookFaults>>

\* ... or fails again, possibly after the receiver already got it (a timeout).
RetryFails(r) ==
    /\ run[r].pc = "retry"
    /\ run[r].body # << >>
    /\ Head(run[r].body) \notin Unreadable
    /\ HookFault
    /\ delivered' \in {delivered, delivered \cup {Head(run[r].body)}}
    /\ run' = [run EXCEPT ![r].body = Tail(@),
                          ![r].remaining = Append(@, Head(run[r].body))]
    /\ UNCHANGED <<accepted, outbox, lost>>

\* The decoder stops at a line it cannot parse: the flush returns the error
\* and leaves the file as it was.
RetryTorn(r) ==
    /\ run[r].pc = "retry"
    /\ run[r].body # << >>
    /\ Head(run[r].body) \in Unreadable
    /\ FlushEnds(r)
    /\ UNCHANGED <<accepted, delivered, outbox, lost, hookFaults>>

\* Mutant: the file is removed although some deliveries failed again.
ReplaceDrops(r) ==
    /\ run[r].pc = "retry"
    /\ run[r].body = << >>
    /\ outbox' = << >>
    /\ FlushEnds(r)
    /\ UNCHANGED <<accepted, delivered, lost, hookFaults>>

\* Mutant: the file is left alone when everything was delivered.
ReplaceKeeps(r) ==
    /\ run[r].pc = "retry"
    /\ run[r].body = << >>
    /\ outbox' = IF run[r].remaining = << >> THEN outbox ELSE run[r].remaining
    /\ FlushEnds(r)
    /\ UNCHANGED <<accepted, delivered, lost, hookFaults>>

\* The file is removed, or atomically replaced by the failed ones.
Replace(r) ==
    /\ run[r].pc = "retry"
    /\ run[r].body = << >>
    /\ outbox' = run[r].remaining
    /\ FlushEnds(r)
    /\ UNCHANGED <<accepted, delivered, lost, hookFaults>>

\* Writing, syncing or renaming the temporary file failed.
ReplaceFails(r) ==
    /\ run[r].pc = "retry"
    /\ run[r].body = << >>
    /\ HookFault
    /\ FlushEnds(r)
    /\ UNCHANGED <<accepted, delivered, outbox, lost>>

---------------------------------------------------------------------------
\* DispatchObserved delivers the fresh event to the next binding.
Deliver(r, b) ==
    /\ run[r].pc = "deliver"
    /\ b \in run[r].todo
    /\ delivered' = delivered \cup {<<run[r].event, b>>}
    /\ run' = [run EXCEPT ![r].todo = @ \ {b}]
    /\ UNCHANGED <<accepted, outbox, lost, hookFaults>>

DeliverFails(r, b) ==
    /\ run[r].pc = "deliver"
    /\ b \in run[r].todo
    /\ HookFault
    /\ delivered' \in {delivered, delivered \cup {<<run[r].event, b>>}}
    /\ run' = [run EXCEPT ![r].pc = "append", ![r].body = <<<<run[r].event, b>>>>]
    /\ UNCHANGED <<accepted, outbox, lost>>

\* AppendOutbox returned: on to the next binding.
Appended(r) ==
    run' = [run EXCEPT ![r].pc = "deliver", ![r].body = << >>,
                       ![r].todo = @ \ {Head(run[r].body)[2]}]

\* The file after one more write; behind half a line it runs into that half.
BehindTorn == outbox # << >> /\ Last(outbox) = Torn

WithLine(line) ==
    IF BehindTorn THEN Append(Front(outbox), IF line = Torn THEN Torn ELSE Garbled)
                  ELSE Append(outbox, line)

Lose(pairs) == lost' = lost \cup pairs

AppendOutbox(r) ==
    /\ run[r].pc = "append"
    /\ LockFree
    /\ outbox' = WithLine(Head(run[r].body))
    /\ Appended(r)
    /\ Lose(IF BehindTorn THEN {Head(run[r].body)} ELSE {})
    /\ UNCHANGED <<accepted, delivered, hookFaults>>

\* The file cannot be opened or the write is short (disk full): nothing or half
\* a line stays, and WithHooks ignores the error.
AppendFails(r) ==
    /\ run[r].pc = "append"
    /\ LockFree
    /\ HookFault
    /\ outbox' \in {outbox, WithLine(Torn)}
    /\ Appended(r)
    /\ Lose({Head(run[r].body)})
    /\ UNCHANGED <<accepted, delivered>>

Finish(r) ==
    /\ run[r].pc = "deliver"
    /\ run[r].todo = {}
    /\ run' = [run EXCEPT ![r] = NotDispatching]
    /\ UNCHANGED <<accepted, delivered, outbox, lost, hookFaults>>

\* The runner is killed; both locks are released by the system.  A retry of
\* the command is a ledger replay, for which WithHooks runs no hook at all.
RunnerCrash(r) ==
    /\ run[r].pc # "idle"
    /\ HookFault
    /\ run' = [run EXCEPT ![r] = NotDispatching]
    /\ Lose({run[r].event} \X run[r].todo)
    /\ UNCHANGED <<accepted, delivered, outbox>>

---------------------------------------------------------------------------
DispatchStep(r) ==
    \/ Flush(r) \/ Retry(r) \/ RetryFails(r) \/ RetryTorn(r) \/ Replace(r) \/ ReplaceFails(r)
    \/ \E b \in Bindings : Deliver(r, b) \/ DeliverFails(r, b)
    \/ AppendOutbox(r) \/ AppendFails(r) \/ Finish(r)

HookNext ==
    \E r \in Runners :
        \/ \E e \in Events : Accept(r, e)
        \/ AcceptUnmatched(r)
        \/ DispatchStep(r)
        \/ RunnerCrash(r)

HookSpec == HookInit /\ [][HookNext]_hookVars

\* Runners make progress, and hooked actions keep arriving: without the next
\* one nothing ever flushes.
HookFairSpec ==
    HookSpec /\ \A r \in Runners : WF_hookVars(DispatchStep(r)) /\ WF_hookVars(AcceptUnmatched(r))

---------------------------------------------------------------------------
Queued(x) == \E i \in DOMAIN outbox : outbox[i] = x

\* Some runner still has the pair to deliver or to queue.
InHand(x) ==
    \E r \in Runners : run[r].event = x[1] /\ x[2] \in run[r].todo

\* Every event of a succeeded action is, for every binding, delivered, queued
\* for retry or in the hands of a runner, unless its runner was killed or could
\* not append it: concurrent flushes, failed rewrites and redeliveries lose
\* none (hook/outbox.go replaceOutbox, DispatchObserved).
AtLeastOnce ==
    \A x \in Items :
        x[1] \in accepted => x \in delivered \/ Queued(x) \/ InHand(x) \/ x \in lost

\* A flush will stop at an unreadable line.
Damaged == \E i \in DOMAIN outbox : outbox[i] \in Unreadable

\* A failed delivery is retried until it succeeds, as long as hooked actions
\* keep arriving and the file is readable (docs/reviewed/hooks-and-gates.md: a
\* failed delivery enters retry); and once every action has run and receivers
\* answer again the backlog empties, flushOutbox does not deliver the same
\* readable lines for ever ("outbox should be cleared after flush",
\* hook/dispatch_test.go).
BacklogDelivered ==
    /\ \A x \in Items : Queued(x) ~> x \in delivered \/ Damaged
    /\ <>[](accepted = Events) => []<>(outbox = << >> \/ Damaged)

====
