---------------------------- MODULE IntegrationRun ----------------------------
(***************************************************************************)
(* integrationruntime: the host outside the server that runs a collector   *)
(* and publishes what it found through the Writer.  A daemon and `run`     *)
(* commands are processes over one bbolt ledger; a run holds a lease in    *)
(* that ledger, saves its command before it sends it, and moves the        *)
(* checkpoint only with a receipt.  A process may be killed or suspended   *)
(* anywhere, so a lease may run out under a run that goes on.              *)
(*                                                                         *)
(* The source is a log of items: what a collector finds after cursor c is  *)
(* items c+1 .. source, and the preview drops those the repository already *)
(* holds at the base it observed.  A command is its change set, which      *)
(* names that base.                                                        *)
(***************************************************************************)
EXTENDS Integers, Sequences, FiniteSets

CONSTANTS
    Runners,              \* processes
    MaxSource,            \* items the source produces
    MaxRuns,              \* leases ever taken
    MaxTargetCommits,     \* length of the target ref
    MaxIntegrationFaults  \* kills, lost answers, refusals and prunings

None == 0
NoCommand == [base |-> 0, items |-> {}, cursor |-> 0]
NotRunning == [pc |-> "idle", lease |-> None, pending |-> NoCommand, base |-> 0, cursor |-> 0, answer |-> "none"]

VARIABLES
    st,         \* the integration's record in runtime.db
    runs,       \* the Run call of each process
    leases,     \* lease ids given out
    source,     \* items the source has
    targetCommits, \* the target ref: the items and the command of each commit
    receipts,   \* commands the Writer's ledger answers from
    requests,   \* Commit requests on their way to the Writer
    integrationFaults

integrationVars == <<st, runs, leases, source, targetCommits, receipts, requests, integrationFaults>>

Tip == Len(targetCommits)
\* CommandID is the digest of the change set.
CommandID(p) == <<p.base, p.items>>
Content(n) == UNION {targetCommits[k].items : k \in 1 .. n}
IntegrationFault == integrationFaults < MaxIntegrationFaults /\ integrationFaults' = integrationFaults + 1

IntegrationInit ==
    /\ st = [active |-> TRUE, lease |-> None, expired |-> FALSE, pending |-> NoCommand, cursor |-> 0]
    /\ runs = [r \in Runners |-> NotRunning]
    /\ leases = 0 /\ source = 0 /\ integrationFaults = 0
    /\ targetCommits = <<>> /\ receipts = {} /\ requests = {}

-------------------------------------------------------------------------------
(* The ledger.                                                             *)

Free == st.lease = None \/ st.expired

\* Mutant: a run is trusted to be the only one.
OwnsAnyway(r) == TRUE

\* update refuses a run whose lease was taken over.
Owns(r) == st.lease = runs[r].lease

(* Activate again, with another artifact or scope.                         *)
Activate ==
    /\ st.pending = NoCommand /\ Free
    /\ st' = [st EXCEPT !.active = TRUE, !.lease = None, !.expired = FALSE]
    /\ st' # st
    /\ UNCHANGED <<runs, leases, source, targetCommits, receipts, requests, integrationFaults>>

(* Pause and resume do not look at the lease.                              *)
Pause ==
    /\ st' = [st EXCEPT !.active = ~@]
    /\ UNCHANGED <<runs, leases, source, targetCommits, receipts, requests, integrationFaults>>

(* LeaseUntil passes.                                                      *)
Expire ==
    /\ st.lease # None /\ ~st.expired
    /\ st' = [st EXCEPT !.expired = TRUE]
    /\ UNCHANGED <<runs, leases, source, targetCommits, receipts, requests, integrationFaults>>

-------------------------------------------------------------------------------
(* One run.                                                                *)

Begin(r) ==
    /\ runs[r].pc = "idle" /\ st.active /\ Free /\ leases < MaxRuns
    /\ leases' = leases + 1
    /\ st' = [st EXCEPT !.lease = leases', !.expired = FALSE]
    /\ runs' = [runs EXCEPT ![r] = [NotRunning EXCEPT !.pc = IF st.pending = NoCommand THEN "head" ELSE "send",
                                                !.lease = leases', !.pending = st.pending, !.cursor = st.cursor]]
    /\ UNCHANGED <<source, targetCommits, receipts, requests, integrationFaults>>

ReadHead(r) ==
    /\ runs[r].pc = "head"
    /\ runs' = [runs EXCEPT ![r].base = Tip, ![r].pc = "collect"]
    /\ UNCHANGED <<st, leases, source, targetCommits, receipts, requests, integrationFaults>>

(* Login, owner, head, collector or preview: the run ends, nothing saved.  *)
RunFails(r) ==
    /\ runs[r].pc \in {"head", "collect"} /\ IntegrationFault
    /\ runs' = [runs EXCEPT ![r].pc = "release"]
    /\ UNCHANGED <<st, leases, source, targetCommits, receipts, requests>>

Found(r) == (runs[r].cursor + 1 .. source) \ Content(runs[r].base)

Collect(r) ==
    /\ runs[r].pc = "collect"
    /\ runs' = [runs EXCEPT ![r].pending = [base |-> runs[r].base, items |-> Found(r), cursor |-> source],
                            ![r].pc = IF Found(r) = {} THEN "checkpoint" ELSE "save"]
    /\ UNCHANGED <<st, leases, source, targetCommits, receipts, requests, integrationFaults>>

(* The command is durable before it is sent.                               *)
SavePending(r) ==
    /\ runs[r].pc = "save"
    /\ st' = IF Owns(r) THEN [st EXCEPT !.pending = runs[r].pending] ELSE st
    /\ runs' = [runs EXCEPT ![r].pc = IF Owns(r) THEN "send" ELSE "release"]
    /\ UNCHANGED <<leases, source, targetCommits, receipts, requests, integrationFaults>>

Send(r) ==
    /\ runs[r].pc = "send"
    /\ requests' = requests \cup {[command |-> runs[r].pending, lease |-> runs[r].lease]}
    /\ runs' = [runs EXCEPT ![r].pc = "sent"]
    /\ UNCHANGED <<st, leases, source, targetCommits, receipts, integrationFaults>>

(* The answer is lost, the context ends, or the answer does not say        *)
(* whether the command was published: the command stays.                   *)
AnswerUnknown(r) ==
    /\ runs[r].pc = "sent"
    /\ \/ runs[r].answer = "unknown" /\ UNCHANGED integrationFaults
       \/ IntegrationFault
    /\ runs' = [runs EXCEPT ![r].pc = "release"]
    /\ UNCHANGED <<st, leases, source, targetCommits, receipts, requests>>

\* Mutant: the cursor moves with the command, not with its receipt.
RejectedAdvances(r) ==
    /\ runs[r].pc = "sent" /\ runs[r].answer = "rejected"
    /\ st' = IF Owns(r) THEN [st EXCEPT !.pending = NoCommand, !.cursor = runs[r].pending.cursor] ELSE st
    /\ runs' = [runs EXCEPT ![r].pc = "release"]
    /\ UNCHANGED <<leases, source, targetCommits, receipts, requests, integrationFaults>>

(* publicationWasRejected: the command is dropped, the cursor stays.       *)
Rejected(r) ==
    /\ runs[r].pc = "sent" /\ runs[r].answer = "rejected"
    /\ st' = IF Owns(r) THEN [st EXCEPT !.pending = NoCommand] ELSE st
    /\ runs' = [runs EXCEPT ![r].pc = "release"]
    /\ UNCHANGED <<leases, source, targetCommits, receipts, requests, integrationFaults>>

(* A receipt, or an empty preview.                                         *)
MoveCheckpoint(r) ==
    /\ \/ runs[r].pc = "checkpoint"
       \/ runs[r].pc = "sent" /\ runs[r].answer = "published"
    /\ st' = IF Owns(r) THEN [st EXCEPT !.cursor = runs[r].pending.cursor, !.pending = NoCommand] ELSE st
    /\ runs' = [runs EXCEPT ![r].pc = "release"]
    /\ UNCHANGED <<leases, source, targetCommits, receipts, requests, integrationFaults>>

Release(r) ==
    /\ runs[r].pc = "release"
    /\ st' = IF Owns(r) THEN [st EXCEPT !.lease = None, !.expired = FALSE] ELSE st
    /\ runs' = [runs EXCEPT ![r] = NotRunning]
    /\ UNCHANGED <<leases, source, targetCommits, receipts, requests, integrationFaults>>

Kill(r) ==
    /\ runs[r].pc # "idle" /\ IntegrationFault
    /\ runs' = [runs EXCEPT ![r] = NotRunning]
    /\ UNCHANGED <<st, leases, source, targetCommits, receipts, requests>>

-------------------------------------------------------------------------------
(* The Writer behind the HTTP interface, as WriterCommit models it.  A     *)
(* request may be handled long after its sender gave up.                   *)

Answered(q, answer) ==
    [r \in Runners |-> IF runs[r].pc = "sent" /\ runs[r].lease = q.lease
                       THEN [runs[r] EXCEPT !.answer = answer] ELSE runs[r]]

Handle(q) ==
    /\ requests' = requests \ {q}
    /\ \/ /\ CommandID(q.command) \in receipts
          /\ runs' = Answered(q, "published")
          /\ UNCHANGED <<targetCommits, receipts, integrationFaults>>
       \/ /\ CommandID(q.command) \notin receipts /\ q.command.base = Tip /\ Tip < MaxTargetCommits
          /\ targetCommits' = Append(targetCommits, [items |-> q.command.items, command |-> CommandID(q.command)])
          /\ \/ /\ receipts' = receipts \cup {CommandID(q.command)}
                /\ runs' = Answered(q, "published")
                /\ UNCHANGED integrationFaults
             \/ /\ IntegrationFault
                /\ runs' = Answered(q, "unknown")
                /\ UNCHANGED receipts
       \/ /\ CommandID(q.command) \notin receipts /\ q.command.base # Tip
          /\ runs' = Answered(q, "rejected")
          /\ UNCHANGED <<targetCommits, receipts, integrationFaults>>
       \/ /\ CommandID(q.command) \notin receipts /\ IntegrationFault
          /\ runs' = Answered(q, "rejected")
          /\ UNCHANGED <<targetCommits, receipts>>
    /\ UNCHANGED <<st, leases, source>>

(* Ledger retention.                                                       *)
Prune(c) ==
    /\ IntegrationFault /\ receipts' = receipts \ {c}
    /\ UNCHANGED <<st, runs, leases, source, targetCommits, requests>>

OtherWriter ==
    /\ Tip < MaxTargetCommits
    /\ targetCommits' = Append(targetCommits, [items |-> {}, command |-> CommandID(NoCommand)])
    /\ UNCHANGED <<st, runs, leases, source, receipts, requests, integrationFaults>>

Produce ==
    /\ source < MaxSource /\ source' = source + 1
    /\ UNCHANGED <<st, runs, leases, targetCommits, receipts, requests, integrationFaults>>

IntegrationNext ==
    \/ Activate \/ Pause \/ Expire \/ OtherWriter \/ Produce
    \/ \E r \in Runners :
          \/ Begin(r) \/ ReadHead(r) \/ RunFails(r) \/ Collect(r) \/ SavePending(r) \/ Send(r)
          \/ AnswerUnknown(r) \/ Rejected(r) \/ MoveCheckpoint(r) \/ Release(r) \/ Kill(r)
    \/ \E q \in requests : Handle(q)
    \/ \E c \in receipts : Prune(c)

IntegrationSpec == IntegrationInit /\ [][IntegrationNext]_integrationVars

-------------------------------------------------------------------------------
(* No item of the source is skipped or published twice: whatever lies at   *)
(* or before the checkpoint is in the repository, in one commit only, even *)
(* when a command is retried after its receipt was pruned, rejected after  *)
(* it was published, or sent by a run that lost its lease.                 *)
Holding(i) == {n \in 1 .. Tip : i \in targetCommits[n].items}
DeliveredOnce ==
    \A i \in 1 .. source :
        Cardinality(Holding(i)) \in (IF i <= st.cursor THEN {1} ELSE {0, 1})

(* The checkpoint never goes back, so a run that lost its lease cannot     *)
(* overwrite what a later run recorded (Run's update closure).             *)
CheckpointForward == [][st'.cursor >= st.cursor]_integrationVars

===============================================================================
