------------------------ MODULE IntegrationRunProofs ------------------------
(***************************************************************************)
(* The integration runtime delivers every item of its source exactly once, *)
(* for every number of processes, leases, commits and faults.              *)
(***************************************************************************)
EXTENDS IntegrationRun, FiniteSetTheorems, TLAPS

Command == [base : Nat, items : SUBSET Nat, cursor : Nat]

PCs == {"idle", "head", "collect", "checkpoint", "save", "send", "sent", "release"}

Run == [pc : PCs, lease : Nat, pending : Command, base : Nat, cursor : Nat,
        answer : {"none", "published", "unknown", "rejected"}]

Record == [active : BOOLEAN, lease : Nat, expired : BOOLEAN, pending : Command, cursor : Nat]

CommitRecord == [items : SUBSET Nat, command : Nat \X SUBSET Nat]

Request == [command : Command, lease : Nat]

TypeOK ==
    /\ st \in Record
    /\ runs \in [Runners -> Run]
    /\ leases \in Nat /\ source \in Nat /\ integrationFaults \in Nat
    /\ targetCommits \in Seq(CommitRecord)
    /\ receipts \subseteq Nat \X SUBSET Nat
    /\ requests \subseteq Request

(* Content of the target as a function of the ref.                         *)
Held(cs, n) == UNION {cs[k].items : k \in 1 .. n}

All(cs) == Held(cs, Len(cs))

(* A command adds only items its base lacks, and base and items together   *)
(* are all of the source up to its cursor.                                 *)
Exact(p, cs, src) ==
    /\ p.base <= Len(cs)
    /\ p.items \cap Held(cs, p.base) = {}
    /\ 1 .. p.cursor \subseteq Held(cs, p.base) \cup p.items
    /\ p.cursor <= src

(* No item lies in two commits.                                            *)
Disjoint == \A m, n \in 1 .. Tip : m # n => targetCommits[m].items \cap targetCommits[n].items = {}

(* What the ledger records: the checkpoint is delivered, the pending       *)
(* command is exact and does not lie behind it.                            *)
Recorded ==
    /\ st.lease <= leases
    /\ st.cursor <= source
    /\ 1 .. st.cursor \subseteq All(targetCommits)
    /\ Exact(st.pending, targetCommits, source)
    /\ st.pending # NoCommand => st.pending.cursor >= st.cursor

(* A lease is of one run.                                                  *)
Leased ==
    /\ \A r \in Runners : runs[r].pc # "idle" => runs[r].lease \in 1 .. leases
    /\ \A r, o \in Runners : r # o /\ runs[r].pc # "idle" /\ runs[o].pc # "idle"
                                => runs[r].lease # runs[o].lease

(* What a run knows of target, source and checkpoint.                      *)
Known(run, s, cs, src) ==
    /\ run.cursor <= src
    /\ 1 .. run.cursor \subseteq All(cs)
    /\ run.pc # "release" /\ s.lease = run.lease => s.cursor = run.cursor
    /\ run.pc = "collect" => run.base <= Len(cs) /\ 1 .. run.cursor \subseteq Held(cs, run.base)
    /\ run.pc \in {"save", "checkpoint", "send", "sent"} =>
         Exact(run.pending, cs, src) /\ run.pending.cursor >= run.cursor
    /\ run.pc = "checkpoint" => run.pending.items = {}
    /\ run.answer = "published" => run.pc \in {"sent", "release"}
    /\ run.pc = "sent" /\ run.answer = "published" => run.pending.items \subseteq All(cs)

(* A run that still waits for the answer to a request sent that command.   *)
Answers(run, q) ==
    run.pc # "idle" /\ run.lease = q.lease =>
      /\ run.pc \in {"sent", "release"}
      /\ run.pc = "sent" => run.pending = q.command

Waiting ==
    \A q \in requests :
      /\ Exact(q.command, targetCommits, source)
      /\ q.lease <= leases
      /\ \A r \in Runners : Answers(runs[r], q)

Receipted == \A c \in receipts : c[2] \subseteq All(targetCommits)

Running == \A r \in Runners : runs[r].pc # "idle" => Known(runs[r], st, targetCommits, source)

IInv == TypeOK /\ Disjoint /\ Recorded /\ Leased /\ Running /\ Waiting /\ Receipted

-----------------------------------------------------------------------------
(* The content of a prefix of the ref never changes.                       *)

LEMMA HeldMonotone ==
    ASSUME NEW cs, NEW m \in Nat, NEW n \in Nat, m <= n
    PROVE  Held(cs, m) \subseteq Held(cs, n)
BY DEF Held

LEMMA HeldAppend ==
    ASSUME NEW cs \in Seq(CommitRecord), NEW e \in CommitRecord
    PROVE  /\ Len(Append(cs, e)) = Len(cs) + 1
           /\ \A n \in 0 .. Len(cs) : Held(Append(cs, e), n) = Held(cs, n)
           /\ All(Append(cs, e)) = All(cs) \cup e.items
<1> DEFINE ds == Append(cs, e)
<1>1. /\ Len(ds) = Len(cs) + 1 /\ Len(cs) \in Nat
      /\ \A k \in 1 .. Len(cs) : ds[k] = cs[k]
      /\ ds[Len(cs) + 1] = e
    OBVIOUS
<1> HIDE DEF ds
<1>2. ASSUME NEW n \in 0 .. Len(cs) PROVE Held(ds, n) = Held(cs, n)
  <2>1. 1 .. n \subseteq 1 .. Len(cs)
      BY <1>1
  <2>2. \A k \in 1 .. n : ds[k].items = cs[k].items
      BY <1>1, <2>1
  <2> QED BY <2>2 DEF Held
<1>3. All(ds) = Held(ds, Len(cs)) \cup ds[Len(cs) + 1].items
  <2>1. 1 .. Len(cs) + 1 = (1 .. Len(cs)) \cup {Len(cs) + 1}
      BY <1>1
  <2> QED BY <1>1, <2>1 DEF All, Held
<1>4. All(ds) = All(cs) \cup e.items
    BY <1>1, <1>2, <1>3 DEF All
<1> QED BY <1>1, <1>2, <1>4 DEF ds

(* What was exact stays exact when target and source grow.                 *)
Grows(cs, ds) ==
    /\ Len(cs) <= Len(ds)
    /\ \A n \in 0 .. Len(cs) : Held(ds, n) = Held(cs, n)
    /\ All(cs) \subseteq All(ds)

LEMMA ExactKept ==
    ASSUME NEW cs \in Seq(CommitRecord), NEW ds \in Seq(CommitRecord), Grows(cs, ds),
           NEW src \in Nat, NEW src2 \in Nat, src <= src2,
           NEW p \in Command, Exact(p, cs, src)
    PROVE  Exact(p, ds, src2)
BY DEF Exact, Grows, Command

LEMMA KnownKept ==
    ASSUME NEW cs \in Seq(CommitRecord), NEW ds \in Seq(CommitRecord), Grows(cs, ds),
           NEW src \in Nat, NEW src2 \in Nat, src <= src2,
           NEW run \in Run, NEW s, Known(run, s, cs, src)
    PROVE  Known(run, s, ds, src2)
<1>1. run.pending \in Command /\ run.base \in Nat /\ run.cursor \in Nat
    BY DEF Run
<1>2. Exact(run.pending, cs, src) => Exact(run.pending, ds, src2)
    BY <1>1, ExactKept
<1> QED BY <1>1, <1>2 DEF Known, Grows

-----------------------------------------------------------------------------

LEMMA Shapes ==
    /\ NoCommand \in Command
    /\ NotRunning \in Run
    /\ \A p \in Command : CommandID(p) \in Nat \X SUBSET Nat
<1>1. NoCommand \in Command
    BY DEF NoCommand, Command
<1>2. NotRunning \in Run
    BY <1>1 DEF NotRunning, Run, PCs, None
<1> QED BY <1>1, <1>2 DEF CommandID, Command

(* The steps that only change the record, the request set or the target.   *)
LEMMA EnvironmentType ==
    ASSUME TypeOK,
           \/ Activate \/ Pause \/ Expire \/ OtherWriter \/ Produce
           \/ \E c \in receipts : Prune(c)
    PROVE  TypeOK'
<1> USE Shapes
<1>1. CASE Activate
  <2>1. st' \in Record
      BY <1>1 DEF Activate, TypeOK, Record, None
  <2> QED BY <1>1, <2>1 DEF Activate, TypeOK, Record
<1>2. CASE Pause
  <2>1. st' \in Record
      BY <1>2 DEF Pause, TypeOK, Record
  <2> QED BY <1>2, <2>1 DEF Pause, TypeOK, Record
<1>3. CASE Expire
  <2>1. st' \in Record
      BY <1>3 DEF Expire, TypeOK, Record
  <2> QED BY <1>3, <2>1 DEF Expire, TypeOK, Record
<1>4. CASE OtherWriter
  <2>1. [items |-> {}, command |-> CommandID(NoCommand)] \in CommitRecord
      BY DEF CommitRecord
  <2>2. targetCommits' \in Seq(CommitRecord)
      BY <1>4, <2>1 DEF OtherWriter, TypeOK
  <2> QED BY <1>4, <2>2 DEF OtherWriter, TypeOK
<1>5. CASE Produce
    BY <1>5 DEF Produce, TypeOK
<1>6. CASE \E c \in receipts : Prune(c)
    BY <1>6 DEF Prune, IntegrationFault, TypeOK
<1> QED BY <1>1, <1>2, <1>3, <1>4, <1>5, <1>6

LEMMA RunType ==
    ASSUME TypeOK, NEW r \in Runners,
           \/ Begin(r) \/ ReadHead(r) \/ RunFails(r) \/ Collect(r) \/ SavePending(r) \/ Send(r)
           \/ AnswerUnknown(r) \/ Rejected(r) \/ MoveCheckpoint(r) \/ Release(r) \/ Kill(r)
    PROVE  TypeOK'
<1> USE Shapes
<1>0. runs[r] \in Run /\ st \in Record /\ Tip \in Nat
    BY DEF TypeOK, Record, Tip
<1>1. runs'[r] \in Run
  <2>1. CASE Begin(r)
    <3>1. leases + 1 \in Nat /\ st.pending \in Command /\ st.cursor \in Nat
        BY <1>0 DEF TypeOK, Record
    <3>2. runs'[r] = [NotRunning EXCEPT !.pc = IF st.pending = NoCommand THEN "head" ELSE "send",
                                  !.lease = leases + 1, !.pending = st.pending, !.cursor = st.cursor]
        BY <2>1 DEF Begin, TypeOK
    <3> QED BY <3>1, <3>2 DEF Run, PCs, NotRunning
  <2>2. CASE ReadHead(r)
      BY <1>0, <2>2 DEF ReadHead, TypeOK, Run, PCs
  <2>3. CASE Collect(r)
    <3>1. [base |-> runs[r].base, items |-> Found(r), cursor |-> source] \in Command
      <4>1. runs[r].base \in Nat /\ runs[r].cursor \in Nat /\ source \in Nat
          BY <1>0 DEF TypeOK, Run
      <4>2. Found(r) \subseteq Nat
          BY <4>1 DEF Found
      <4> QED BY <4>1, <4>2 DEF Command
    <3> QED BY <1>0, <2>3, <3>1 DEF Collect, TypeOK, Run, PCs
  <2>4. ASSUME NEW pc \in PCs, runs' = [runs EXCEPT ![r].pc = pc] PROVE runs'[r] \in Run
      BY <1>0, <2>4 DEF TypeOK, Run
  <2>5. \/ Begin(r) \/ ReadHead(r) \/ Collect(r) \/ Release(r) \/ Kill(r)
        \/ \E pc \in PCs : runs' = [runs EXCEPT ![r].pc = pc]
      BY DEF RunFails, SavePending, Send, AnswerUnknown, Rejected, MoveCheckpoint, PCs
  <2>6. CASE Release(r) \/ Kill(r)
      BY <2>6 DEF Release, Kill, TypeOK
  <2> QED BY <2>1, <2>2, <2>3, <2>4, <2>5, <2>6
<1>2. runs' \in [Runners -> Run]
  <2>1. \E e : runs' = [runs EXCEPT ![r] = e]
      BY DEF Begin, ReadHead, RunFails, Collect, SavePending, Send, AnswerUnknown, Rejected,
           MoveCheckpoint, Release, Kill
  <2> QED BY <1>1, <2>1 DEF TypeOK
<1>3. st' \in Record
  <2>1. CASE Begin(r)
    <3>1. st' = [st EXCEPT !.lease = leases + 1, !.expired = FALSE] /\ leases + 1 \in Nat
        BY <2>1 DEF Begin, TypeOK
    <3> QED BY <1>0, <3>1 DEF Record
  <2>2. CASE SavePending(r)
      BY <1>0, <2>2 DEF SavePending, TypeOK, Run, Record
  <2>3. CASE Rejected(r) \/ MoveCheckpoint(r)
    <3>1. runs[r].pending \in Command /\ runs[r].pending.cursor \in Nat
        BY <1>0 DEF Run, Command
    <3> QED BY <1>0, <2>3, <3>1 DEF Rejected, MoveCheckpoint, Record
  <2>4. CASE Release(r)
      BY <1>0, <2>4 DEF Release, Record, None
  <2>5. CASE ReadHead(r) \/ RunFails(r) \/ Collect(r) \/ Send(r) \/ AnswerUnknown(r) \/ Kill(r)
      BY <1>0, <2>5 DEF ReadHead, RunFails, Collect, Send, AnswerUnknown, Kill
  <2> QED BY <2>1, <2>2, <2>3, <2>4, <2>5
<1>4. requests' \subseteq Request
    BY <1>0 DEF Begin, ReadHead, RunFails, Collect, SavePending, Send, AnswerUnknown, Rejected,
         MoveCheckpoint, Release, Kill, TypeOK, Run, Request
<1>5. /\ leases' \in Nat /\ integrationFaults' \in Nat
      /\ UNCHANGED <<source, targetCommits, receipts>>
    BY DEF Begin, ReadHead, RunFails, Collect, SavePending, Send, AnswerUnknown, Rejected,
         MoveCheckpoint, Release, Kill, IntegrationFault, TypeOK
<1> QED BY <1>2, <1>3, <1>4, <1>5 DEF TypeOK

LEMMA HandleType == ASSUME TypeOK, NEW q \in requests, Handle(q) PROVE TypeOK'
<1> USE Shapes
<1>1. q.command \in Command /\ CommandID(q.command) \in Nat \X SUBSET Nat
    BY DEF TypeOK, Request
<1>2. [items |-> q.command.items, command |-> CommandID(q.command)] \in CommitRecord
    BY <1>1 DEF CommitRecord, Command
<1>3. \E answer \in {"published", "unknown", "rejected"} : runs' = Answered(q, answer)
    BY DEF Handle
<1>4. runs' \in [Runners -> Run]
  <2>1. PICK answer \in {"published", "unknown", "rejected"} : runs' = Answered(q, answer)
      BY <1>3
  <2>2. \A r \in Runners : [runs[r] EXCEPT !.answer = answer] \in Run /\ runs[r] \in Run
      BY DEF TypeOK, Run
  <2> QED BY <2>1, <2>2 DEF Answered
<1>5. targetCommits' \in Seq(CommitRecord)
  <2>1. targetCommits \in Seq(CommitRecord)
      BY DEF TypeOK
  <2> DEFINE added == [items |-> q.command.items, command |-> CommandID(q.command)]
  <2>2. targetCommits' = targetCommits \/ targetCommits' = Append(targetCommits, added)
      BY DEF Handle
  <2>3. added \in CommitRecord
      BY <1>2
  <2> HIDE DEF added
  <2>4. Append(targetCommits, added) \in Seq(CommitRecord)
      BY <2>1, <2>3
  <2> QED BY <2>1, <2>2, <2>4
<1>6. receipts' \subseteq Nat \X SUBSET Nat
    BY <1>1 DEF Handle, TypeOK
<1>7. integrationFaults' \in Nat /\ requests' \subseteq requests /\ UNCHANGED <<st, leases, source>>
    BY DEF Handle, IntegrationFault, TypeOK
<1> QED BY <1>4, <1>5, <1>6, <1>7 DEF TypeOK

LEMMA TypeStep == TypeOK /\ [IntegrationNext]_integrationVars => TypeOK'
<1>1. CASE UNCHANGED integrationVars
    BY <1>1 DEF TypeOK, integrationVars
<1> QED BY <1>1, EnvironmentType, RunType, HandleType DEF IntegrationNext

(* The types of the ledger's record, the runs, the target and the Writer's *)
(* receipts (integrationruntime Record, Run).                              *)
THEOREM IntegrationTypeOK == IntegrationSpec => []TypeOK
<1>1. IntegrationInit => TypeOK
  <2> SUFFICES ASSUME IntegrationInit PROVE TypeOK
      OBVIOUS
  <2>1. st \in Record
      BY Shapes DEF IntegrationInit, Record, None
  <2>2. targetCommits \in Seq(CommitRecord)
      BY DEF IntegrationInit
  <2>3. runs \in [Runners -> Run]
      BY Shapes DEF IntegrationInit
  <2> QED BY <2>1, <2>2, <2>3 DEF IntegrationInit, TypeOK
<1> QED BY <1>1, TypeStep, PTL DEF IntegrationSpec

-----------------------------------------------------------------------------
(* Nothing is pending but the empty command, which is always exact.        *)
LEMMA EmptyExact ==
    ASSUME NEW cs \in Seq(CommitRecord), NEW src \in Nat
    PROVE  Exact(NoCommand, cs, src)
BY DEF Exact, NoCommand, Held

(* Activate, Pause and Expire touch neither cursor nor pending command.    *)
LEMMA RecordStep ==
    ASSUME IInv, TypeOK', Activate \/ Pause \/ Expire
    PROVE  IInv'
<1>1. /\ st'.lease \in {st.lease, 0} /\ st'.cursor = st.cursor /\ st'.pending = st.pending
      /\ UNCHANGED <<runs, leases, source, targetCommits, receipts, requests, integrationFaults>>
    BY DEF IInv, TypeOK, Record, Activate, Pause, Expire, None
<1>2. Recorded'
    BY <1>1 DEF IInv, Recorded, TypeOK, Record
<1>3. Running'
    BY <1>1 DEF IInv, Running, Known, Leased
<1> QED BY <1>1, <1>2, <1>3 DEF IInv, Disjoint, Leased, Waiting, Receipted, Tip

(* A step of run r that leaves target and source alone.                    *)
LEMMA RunStep ==
    ASSUME IInv, TypeOK', NEW r \in Runners, runs[r].pc # "idle",
           \A o \in Runners \ {r} : runs'[o] = runs[o],
           UNCHANGED <<leases, source, targetCommits, receipts, requests>>,
           \/ runs'[r].pc = "idle"
           \/ runs'[r].lease = runs[r].lease /\ Known(runs'[r], st', targetCommits, source),
           runs'[r].pc \in {"idle", "release"} \/ runs[r].pc \notin {"sent", "release"},
           st'.lease \in {st.lease, 0},
           st'.cursor = st.cursor \/ st.lease = runs[r].lease,
           Recorded'
    PROVE  IInv'
<1>1. Leased'
    BY DEF IInv, Leased
<1>2. ASSUME NEW o \in Runners, runs'[o].pc # "idle"
      PROVE  Known(runs'[o], st', targetCommits', source')
  <2>1. CASE o = r
      BY <1>2, <2>1
  <2>2. CASE o # r
    <3>1. runs'[o] = runs[o] /\ Known(runs[o], st, targetCommits, source) /\ runs[o].lease # runs[r].lease
        BY <1>2, <2>2 DEF IInv, Running, Leased
    <3>2. runs[o].lease # 0
        BY <1>2, <3>1 DEF IInv, Leased
    <3> QED BY <3>1, <3>2 DEF Known
  <2> QED BY <2>1, <2>2
<1>3. Waiting'
  <2>1. ASSUME NEW q \in requests, NEW o \in Runners PROVE Answers(runs'[o], q)
      BY DEF IInv, Waiting, Answers
  <2> QED BY <2>1 DEF IInv, Waiting
<1> QED BY <1>1, <1>2, <1>3 DEF IInv, Disjoint, Running, Receipted, Tip

(* Each step of a run before its command is sent.                          *)
LEMMA CollectingStep ==
    ASSUME IInv, TypeOK', NEW r \in Runners,
           ReadHead(r) \/ RunFails(r) \/ Collect(r) \/ SavePending(r)
    PROVE  IInv'
<1> DEFINE run == runs[r]
<1>1. /\ run \in Run /\ Tip \in Nat /\ source \in Nat /\ targetCommits \in Seq(CommitRecord)
      /\ run.cursor \in Nat /\ run.base \in Nat /\ run.pending \in Command
    BY DEF IInv, TypeOK, Run, Tip
<1>2. run.pc # "idle" /\ run.pc \notin {"sent", "release"} /\ Known(run, st, targetCommits, source)
    BY DEF IInv, Running, ReadHead, RunFails, Collect, SavePending
<1>3. CASE ReadHead(r)
  <2>1. runs'[r] = [run EXCEPT !.base = Tip, !.pc = "collect"] /\ st' = st
      BY <1>3 DEF ReadHead, IInv, TypeOK
  <2>2. Known(runs'[r], st', targetCommits, source)
      BY <1>1, <1>2, <2>1 DEF Known, Run, All, Tip
  <2>3. Recorded'
      BY <1>3 DEF IInv, Recorded, ReadHead
  <2>4. runs'[r].lease = run.lease
      BY <1>1, <2>1 DEF Run
  <2> QED BY <1>2, <1>3, <2>1, <2>2, <2>3, <2>4, RunStep DEF ReadHead, IInv, TypeOK
<1>4. CASE RunFails(r)
  <2>1. runs'[r] = [run EXCEPT !.pc = "release"] /\ st' = st
      BY <1>4 DEF RunFails, IInv, TypeOK
  <2>2. Known(runs'[r], st', targetCommits, source) /\ runs'[r].lease = run.lease
      BY <1>1, <1>2, <2>1 DEF Known, Run
  <2>3. Recorded'
      BY <1>4 DEF IInv, Recorded, RunFails
  <2> QED BY <1>2, <1>4, <2>1, <2>2, <2>3, RunStep DEF RunFails, IInv, TypeOK
<1>5. CASE Collect(r)
  <2> DEFINE p == [base |-> run.base, items |-> Found(r), cursor |-> source]
  <2>1. /\ runs'[r] = [run EXCEPT !.pending = p,
                                  !.pc = IF Found(r) = {} THEN "checkpoint" ELSE "save"]
        /\ st' = st
      BY <1>5 DEF Collect, IInv, TypeOK
  <2>2. Found(r) = (run.cursor + 1 .. source) \ Held(targetCommits, run.base)
      BY DEF Found, Content, Held
  <2>3. run.base <= Len(targetCommits) /\ 1 .. run.cursor \subseteq Held(targetCommits, run.base) /\ run.cursor <= source
      BY <1>2, <1>5 DEF Collect, Known
  <2>4. 1 .. source \subseteq Held(targetCommits, run.base) \cup Found(r)
      BY <1>1, <2>2, <2>3
  <2>5. Exact(p, targetCommits, source)
      BY <1>1, <2>2, <2>3, <2>4 DEF Exact
  <2>6. /\ runs'[r].cursor = run.cursor /\ runs'[r].lease = run.lease /\ runs'[r].pending = p
        /\ runs'[r].pc = IF Found(r) = {} THEN "checkpoint" ELSE "save"
        /\ runs'[r].answer = run.answer
      BY <1>1, <2>1 DEF Run
  <2>7. Known(runs'[r], st', targetCommits, source)
    <3> DEFINE now == runs'[r]
    <3>1. /\ run.pc = "collect" /\ now.pc \in {"checkpoint", "save"} /\ now.answer = run.answer
          /\ now.pc = "checkpoint" => now.pending.items = {}
      <4>1. run.pc = "collect"
          BY <1>5 DEF Collect
      <4>2. p.items = Found(r)
          OBVIOUS
      <4> HIDE DEF p
      <4> QED BY <2>6, <4>1, <4>2
    <3>2. /\ st.lease = run.lease => st.cursor = run.cursor
          /\ run.cursor <= source /\ 1 .. run.cursor \subseteq All(targetCommits) /\ run.answer # "published"
        BY <1>2, <3>1 DEF Known
    <3>3. Exact(now.pending, targetCommits, source) /\ now.pending.cursor >= now.cursor
        BY <2>3, <2>5, <2>6
    <3> HIDE DEF now, p
    <3> QED BY <2>1, <2>6, <3>1, <3>2, <3>3 DEF Known, now
  <2>8. Recorded'
      BY <1>5 DEF IInv, Recorded, Collect
  <2> QED BY <1>2, <1>5, <2>1, <2>6, <2>7, <2>8, RunStep DEF Collect, IInv, TypeOK
<1>6. CASE SavePending(r)
  <2>1. runs'[r] = [run EXCEPT !.pc = IF Owns(r) THEN "send" ELSE "release"]
      BY <1>6 DEF SavePending, IInv, TypeOK
  <2>2. /\ runs'[r].pc = IF Owns(r) THEN "send" ELSE "release"
        /\ runs'[r].cursor = run.cursor /\ runs'[r].lease = run.lease /\ runs'[r].pending = run.pending
      BY <1>1, <2>1 DEF Run
  <2>3. st'.lease = st.lease /\ st'.cursor = st.cursor
      BY <1>6 DEF SavePending, IInv, TypeOK, Record
  <2>4. Known(runs'[r], st', targetCommits, source)
      BY <1>2, <1>6, <2>2, <2>3 DEF Known, SavePending
  <2>5. Recorded'
    <3>1. st'.pending = IF Owns(r) THEN run.pending ELSE st.pending
        BY <1>6 DEF SavePending, IInv, TypeOK, Record
    <3>2. Owns(r) => Exact(run.pending, targetCommits, source) /\ run.pending.cursor >= st.cursor
        BY <1>2, <1>6 DEF Known, SavePending, Owns
    <3> QED BY <1>6, <2>3, <3>1, <3>2 DEF IInv, Recorded, SavePending
  <2> QED BY <1>2, <1>6, <2>2, <2>3, <2>4, <2>5, RunStep DEF SavePending, IInv, TypeOK
<1> QED BY <1>3, <1>4, <1>5, <1>6

(* Each step of a run after its command is sent, and its end.              *)
LEMMA EndingStep ==
    ASSUME IInv, TypeOK', NEW r \in Runners,
           AnswerUnknown(r) \/ Rejected(r) \/ MoveCheckpoint(r) \/ Release(r) \/ Kill(r)
    PROVE  IInv'
<1> DEFINE run == runs[r]
<1>1. /\ run \in Run /\ source \in Nat /\ targetCommits \in Seq(CommitRecord)
      /\ run.cursor \in Nat /\ run.pending \in Command /\ run.pending.cursor \in Nat
      /\ run.pending.base \in Nat
    BY DEF IInv, TypeOK, Run, Command
<1>2. run.pc # "idle" /\ Known(run, st, targetCommits, source)
    BY DEF IInv, Running, AnswerUnknown, Rejected, MoveCheckpoint, Release, Kill
<1>3. CASE AnswerUnknown(r) \/ Rejected(r) \/ MoveCheckpoint(r)
  <2>1. runs'[r] = [run EXCEPT !.pc = "release"]
      BY <1>3 DEF AnswerUnknown, Rejected, MoveCheckpoint, IInv, TypeOK
  <2>2. Known(runs'[r], st', targetCommits, source) /\ runs'[r].lease = run.lease /\ runs'[r].pc = "release"
      BY <1>1, <1>2, <2>1 DEF Known, Run
  <2>3. /\ st'.lease = st.lease
        /\ st'.cursor = st.cursor \/ st.lease = run.lease
      BY <1>3 DEF AnswerUnknown, Rejected, MoveCheckpoint, Owns, IInv, TypeOK, Record
  <2>4. Recorded'
    <3>1. CASE AnswerUnknown(r)
        BY <3>1 DEF IInv, Recorded, AnswerUnknown
    <3>2. CASE Rejected(r)
      <4>1. st'.cursor = st.cursor /\ st'.pending \in {st.pending, NoCommand}
          BY <3>2 DEF Rejected, IInv, TypeOK, Record
      <4> QED BY <1>1, <2>3, <3>2, <4>1, EmptyExact DEF IInv, Recorded, Rejected
    <3>3. CASE MoveCheckpoint(r)
      <4>1. Exact(run.pending, targetCommits, source) /\ run.pending.items \subseteq All(targetCommits)
          BY <1>2, <3>3 DEF Known, MoveCheckpoint
      <4>2. Held(targetCommits, run.pending.base) \subseteq All(targetCommits)
          BY <1>1, <4>1, HeldMonotone DEF Exact, All
      <4>3. 1 .. run.pending.cursor \subseteq All(targetCommits) /\ run.pending.cursor <= source
          BY <4>1, <4>2 DEF Exact
      <4>4. \/ st' = st
            \/ st'.cursor = run.pending.cursor /\ st'.pending = NoCommand /\ st'.lease = st.lease
          BY <3>3 DEF MoveCheckpoint, IInv, TypeOK, Record
      <4>5. UNCHANGED <<source, targetCommits, leases>>
          BY <3>3 DEF MoveCheckpoint
      <4> QED BY <1>1, <4>3, <4>4, <4>5, EmptyExact DEF IInv, Recorded
    <3> QED BY <1>3, <3>1, <3>2, <3>3
  <2> QED BY <1>2, <1>3, <2>1, <2>2, <2>3, <2>4, RunStep
          DEF AnswerUnknown, Rejected, MoveCheckpoint, IInv, TypeOK
<1>4. CASE Release(r) \/ Kill(r)
  <2>1. runs' = [runs EXCEPT ![r] = NotRunning]
      BY <1>4 DEF Release, Kill
  <2>2. runs'[r].pc = "idle" /\ \A o \in Runners \ {r} : runs'[o] = runs[o]
      BY <2>1 DEF IInv, TypeOK, NotRunning
  <2>3. st'.lease \in {st.lease, 0} /\ st'.cursor = st.cursor /\ st'.pending = st.pending
      BY <1>4 DEF Release, Kill, None, IInv, TypeOK, Record
  <2>4. UNCHANGED <<leases, source, targetCommits, receipts, requests>>
      BY <1>4 DEF Release, Kill
  <2>5. Recorded'
      BY <2>3, <2>4 DEF IInv, Recorded, TypeOK, Record
  <2> QED BY <1>2, <2>2, <2>3, <2>4, <2>5, RunStep
<1> QED BY <1>3, <1>4

(* A run sends its command: no earlier request has its lease.              *)
LEMMA SendStep == ASSUME IInv, TypeOK', NEW r \in Runners, Send(r) PROVE IInv'
<1> DEFINE run == runs[r]
           now == [command |-> run.pending, lease |-> run.lease]
<1>1. run \in Run /\ run.pc = "send" /\ Known(run, st, targetCommits, source)
    BY DEF IInv, TypeOK, Running, Send
<1>2. /\ runs'[r] = [run EXCEPT !.pc = "sent"]
      /\ \A o \in Runners \ {r} : runs'[o] = runs[o]
      /\ requests' = requests \cup {now}
      /\ UNCHANGED <<st, leases, source, targetCommits, receipts>>
    BY DEF Send, IInv, TypeOK
<1>3. /\ runs'[r].pc = "sent" /\ runs'[r].lease = run.lease /\ runs'[r].pending = run.pending
      /\ runs'[r].cursor = run.cursor /\ runs'[r].answer = run.answer
    BY <1>1, <1>2 DEF Run
<1>4. Known(runs'[r], st, targetCommits, source) /\ Exact(run.pending, targetCommits, source)
    BY <1>1, <1>3 DEF Known
<1>5. Running'
    BY <1>2, <1>4 DEF IInv, Running
<1>6. Leased'
  <2>1. \A o \in Runners : runs'[o].lease = runs[o].lease /\ (runs'[o].pc # "idle" => runs[o].pc # "idle")
      BY <1>1, <1>2, <1>3
  <2> QED BY <1>2, <2>1 DEF IInv, Leased
<1>7. ASSUME NEW q \in requests', NEW o \in Runners
      PROVE  Exact(q.command, targetCommits, source) /\ q.lease <= leases /\ Answers(runs'[o], q)
  <2>1. CASE q = now
    <3>1. q.command = run.pending /\ q.lease = run.lease
        BY <2>1
    <3>2. run.lease <= leases
        BY <1>1 DEF IInv, Leased, TypeOK
    <3>3. o # r /\ runs[o].pc # "idle" => runs[o].lease # run.lease
        BY <1>1 DEF IInv, Leased
    <3> QED BY <1>2, <1>3, <1>4, <3>1, <3>2, <3>3 DEF Answers
  <2>2. CASE q \in requests
    <3>1. Exact(q.command, targetCommits, source) /\ q.lease <= leases /\ Answers(runs[o], q) /\ Answers(run, q)
        BY <2>2 DEF IInv, Waiting
    <3> QED BY <1>1, <1>2, <1>3, <3>1 DEF Answers
  <2> QED BY <1>2, <2>1, <2>2
<1>8. Waiting'
    BY <1>2, <1>7 DEF Waiting
<1> QED BY <1>2, <1>5, <1>6, <1>8 DEF IInv, Disjoint, Recorded, Receipted, Tip

(* A new lease: nothing in the system has it.                              *)
LEMMA BeginStep == ASSUME IInv, TypeOK', NEW r \in Runners, Begin(r) PROVE IInv'
<1>1. /\ st \in Record /\ leases \in Nat /\ st.cursor \in Nat /\ st.pending \in Command
      /\ targetCommits \in Seq(CommitRecord) /\ source \in Nat
    BY DEF IInv, TypeOK, Record
<1>2. /\ leases' = leases + 1
      /\ st' = [st EXCEPT !.lease = leases + 1, !.expired = FALSE]
      /\ \A o \in Runners \ {r} : runs'[o] = runs[o]
      /\ UNCHANGED <<source, targetCommits, receipts, requests>>
    BY DEF Begin, IInv, TypeOK
<1>3. runs'[r] = [NotRunning EXCEPT !.pc = IF st.pending = NoCommand THEN "head" ELSE "send",
                              !.lease = leases + 1, !.pending = st.pending, !.cursor = st.cursor]
    BY DEF Begin, IInv, TypeOK
<1>4. /\ runs'[r].pc = IF st.pending = NoCommand THEN "head" ELSE "send"
      /\ runs'[r].lease = leases + 1 /\ runs'[r].pending = st.pending
      /\ runs'[r].cursor = st.cursor /\ runs'[r].answer = "none"
    BY <1>3 DEF NotRunning
<1>5. st'.lease = leases + 1 /\ st'.cursor = st.cursor /\ st'.pending = st.pending
    BY <1>1, <1>2 DEF Record
<1>6. Recorded'
    BY <1>1, <1>2, <1>5 DEF IInv, Recorded
<1>7. Leased'
    BY <1>1, <1>2, <1>4 DEF IInv, Leased
<1>8. ASSUME NEW o \in Runners, runs'[o].pc # "idle"
      PROVE  Known(runs'[o], st', targetCommits, source)
  <2>1. CASE o = r
      BY <1>1, <1>4, <1>5, <2>1 DEF IInv, Recorded, Known
  <2>2. CASE o # r
    <3>1. runs'[o] = runs[o] /\ Known(runs[o], st, targetCommits, source) /\ runs[o].lease # leases + 1
        BY <1>1, <1>2, <1>8, <2>2 DEF IInv, Running, Leased
    <3> QED BY <1>5, <3>1 DEF Known
  <2> QED BY <2>1, <2>2
<1>9. ASSUME NEW q \in requests, NEW o \in Runners
      PROVE  Exact(q.command, targetCommits, source) /\ q.lease <= leases + 1 /\ Answers(runs'[o], q)
  <2>1. Exact(q.command, targetCommits, source) /\ q.lease <= leases /\ q.lease \in Nat /\ Answers(runs[o], q)
      BY DEF IInv, Waiting, TypeOK, Request
  <2> QED BY <1>1, <1>2, <1>4, <2>1 DEF Answers
<1>10. Running' /\ Waiting'
    BY <1>2, <1>8, <1>9 DEF Running, Waiting
<1> QED BY <1>2, <1>6, <1>7, <1>10 DEF IInv, Disjoint, Receipted, Tip

(* Target and source grow.                                                 *)
LEMMA GrowStep ==
    ASSUME IInv, TypeOK', UNCHANGED <<st, leases>>, source <= source',
           Grows(targetCommits, targetCommits'), requests' \subseteq requests, Disjoint', Receipted',
           \A r \in Runners :
             \/ runs'[r] = runs[r]
             \/ \E answer : /\ runs'[r] = [runs[r] EXCEPT !.answer = answer] /\ runs[r].pc = "sent"
                            /\ answer = "published" => runs[r].pending.items \subseteq All(targetCommits')
    PROVE  IInv'
<1>1. /\ targetCommits \in Seq(CommitRecord) /\ targetCommits' \in Seq(CommitRecord)
      /\ source \in Nat /\ source' \in Nat /\ st \in Record
      /\ \A r \in Runners : runs[r] \in Run
    BY DEF IInv, TypeOK
<1>2. \A r \in Runners :
        /\ runs'[r].pc = runs[r].pc /\ runs'[r].lease = runs[r].lease
        /\ runs'[r].pending = runs[r].pending /\ runs'[r].cursor = runs[r].cursor
        /\ runs'[r].base = runs[r].base
        /\ \/ runs'[r].answer = runs[r].answer
           \/ /\ runs[r].pc = "sent"
              /\ runs'[r].answer = "published" => runs[r].pending.items \subseteq All(targetCommits')
  <2> SUFFICES ASSUME NEW r \in Runners
               PROVE  /\ runs'[r].pc = runs[r].pc /\ runs'[r].lease = runs[r].lease
                      /\ runs'[r].pending = runs[r].pending /\ runs'[r].cursor = runs[r].cursor
                      /\ runs'[r].base = runs[r].base
                      /\ \/ runs'[r].answer = runs[r].answer
                         \/ /\ runs[r].pc = "sent"
                            /\ runs'[r].answer = "published" => runs[r].pending.items \subseteq All(targetCommits')
      OBVIOUS
  <2>1. CASE runs'[r] = runs[r]
      BY <2>1
  <2>2. ASSUME NEW answer, runs'[r] = [runs[r] EXCEPT !.answer = answer], runs[r].pc = "sent",
               answer = "published" => runs[r].pending.items \subseteq All(targetCommits')
        PROVE  /\ runs'[r].pc = runs[r].pc /\ runs'[r].lease = runs[r].lease
               /\ runs'[r].pending = runs[r].pending /\ runs'[r].cursor = runs[r].cursor
               /\ runs'[r].base = runs[r].base /\ runs[r].pc = "sent"
               /\ runs'[r].answer = "published" => runs[r].pending.items \subseteq All(targetCommits')
    <3>1. runs[r] \in Run
        BY <1>1
    <3> QED BY <2>2, <3>1 DEF Run
  <2> QED BY <2>1, <2>2
<1>3. Recorded'
  <2>1. Exact(st.pending, targetCommits, source) /\ st.pending \in Command
      BY <1>1 DEF IInv, Recorded, Record
  <2>2. Exact(st.pending, targetCommits', source')
      BY <1>1, <2>1, ExactKept
  <2> QED BY <1>1, <2>2 DEF IInv, Recorded, Grows, Record
<1>4. Leased'
    BY <1>2 DEF IInv, Leased
<1>5. ASSUME NEW r \in Runners, runs'[r].pc # "idle"
      PROVE  Known(runs'[r], st', targetCommits', source')
  <2>1. Known(runs[r], st, targetCommits, source)
      BY <1>2, <1>5 DEF IInv, Running
  <2>2. Known(runs[r], st, targetCommits', source')
      BY <1>1, <2>1, KnownKept
  <2> QED BY <1>2, <2>2 DEF Known
<1>6. ASSUME NEW q \in requests'
      PROVE  Exact(q.command, targetCommits', source') /\ q.lease <= leases' /\ \A r \in Runners : Answers(runs'[r], q)
  <2>1. q \in requests /\ q.command \in Command
      BY DEF IInv, TypeOK, Request
  <2>2. Exact(q.command, targetCommits, source) /\ q.lease <= leases /\ \A r \in Runners : Answers(runs[r], q)
      BY <2>1 DEF IInv, Waiting
  <2>3. Exact(q.command, targetCommits', source')
      BY <1>1, <2>1, <2>2, ExactKept
  <2> QED BY <1>2, <2>2, <2>3 DEF Answers
<1>7. Running'
    BY <1>5 DEF Running
<1>8. Waiting'
  <2>1. \A q \in requests' : Exact(q.command, targetCommits', source') /\ q.lease <= leases'
      BY <1>6
  <2>2. \A q \in requests' : \A r \in Runners : Answers(runs'[r], q)
      BY <1>6
  <2> QED BY <2>1, <2>2 DEF Waiting
<1> QED BY <1>3, <1>4, <1>7, <1>8 DEF IInv

(* A commit at the tip, of items the tip does not hold.                    *)
LEMMA AppendStep ==
    ASSUME IInv, NEW e \in CommitRecord, e.items \cap All(targetCommits) = {}, targetCommits' = Append(targetCommits, e)
    PROVE  Grows(targetCommits, targetCommits') /\ Disjoint' /\ All(targetCommits') = All(targetCommits) \cup e.items
<1>1. targetCommits \in Seq(CommitRecord) /\ Len(targetCommits) \in Nat
    BY DEF IInv, TypeOK
<1>2. /\ Len(targetCommits') = Len(targetCommits) + 1
      /\ \A n \in 0 .. Len(targetCommits) : Held(targetCommits', n) = Held(targetCommits, n)
      /\ All(targetCommits') = All(targetCommits) \cup e.items
    BY <1>1, HeldAppend
<1>3. \A m \in 1 .. Len(targetCommits) : targetCommits'[m] = targetCommits[m] /\ targetCommits[m].items \subseteq All(targetCommits)
    BY <1>1 DEF All, Held
<1>4. targetCommits'[Len(targetCommits) + 1] = e
    BY <1>1
<1>5. Disjoint'
  <2> SUFFICES ASSUME NEW m \in 1 .. Len(targetCommits'), NEW n \in 1 .. Len(targetCommits'), m # n
               PROVE  targetCommits'[m].items \cap targetCommits'[n].items = {}
      BY DEF Disjoint, Tip
  <2>1. \A k \in 1 .. Len(targetCommits') : k \in 1 .. Len(targetCommits) \/ k = Len(targetCommits) + 1
      BY <1>1, <1>2
  <2>2. CASE m \in 1 .. Len(targetCommits) /\ n \in 1 .. Len(targetCommits)
      BY <1>3, <2>2 DEF IInv, Disjoint, Tip
  <2>3. CASE m = Len(targetCommits) + 1 \/ n = Len(targetCommits) + 1
      BY <1>3, <1>4, <2>1, <2>3
  <2> QED BY <2>1, <2>2, <2>3
<1> QED BY <1>1, <1>2, <1>5 DEF Grows

(* Another writer, the source, and ledger retention.                       *)
LEMMA OutsideStep ==
    ASSUME IInv, TypeOK', OtherWriter \/ Produce \/ (\E c \in receipts : Prune(c))
    PROVE  IInv'
<1>1. targetCommits \in Seq(CommitRecord) /\ source \in Nat
    BY DEF IInv, TypeOK
<1>2. CASE OtherWriter
  <2> DEFINE e == [items |-> {}, command |-> CommandID(NoCommand)]
  <2>1. e \in CommitRecord /\ e.items = {}
      BY Shapes DEF CommitRecord
  <2>2. targetCommits' = Append(targetCommits, e)
      BY <1>2 DEF OtherWriter
  <2> HIDE DEF e
  <2>3. Grows(targetCommits, targetCommits') /\ Disjoint' /\ All(targetCommits') = All(targetCommits)
      BY <2>1, <2>2, AppendStep
  <2>4. Receipted'
      BY <1>2, <2>3 DEF OtherWriter, IInv, Receipted
  <2> QED BY <1>1, <1>2, <2>3, <2>4, GrowStep DEF OtherWriter
<1>3. CASE Produce \/ (\E c \in receipts : Prune(c))
  <2>1. /\ UNCHANGED <<st, runs, leases, targetCommits, requests>> /\ receipts' \subseteq receipts
        /\ source' \in {source, source + 1}
      BY <1>3 DEF Produce, Prune
  <2>2. Grows(targetCommits, targetCommits') /\ Disjoint' /\ Receipted'
      BY <1>1, <2>1 DEF Grows, IInv, Disjoint, Receipted, Tip
  <2> QED BY <1>1, <2>1, <2>2, GrowStep
<1> QED BY <1>2, <1>3

(* The Writer handles a request.                                           *)
LEMMA HandleStep == ASSUME IInv, TypeOK', NEW q \in requests, Handle(q) PROVE IInv'
<1> DEFINE e == [items |-> q.command.items, command |-> CommandID(q.command)]
<1>1. /\ targetCommits \in Seq(CommitRecord) /\ source \in Nat /\ q.command \in Command
      /\ CommandID(q.command)[2] = q.command.items /\ Len(targetCommits) \in Nat
    BY DEF IInv, TypeOK, Request, CommandID
<1>2. e \in CommitRecord /\ e.items = q.command.items
    BY <1>1, Shapes DEF CommitRecord, Command
<1>3. UNCHANGED <<st, leases, source>> /\ requests' \subseteq requests
    BY DEF Handle
<1>4. Exact(q.command, targetCommits, source) /\ \A r \in Runners : Answers(runs[r], q)
    BY DEF IInv, Waiting
<1>5. PICK answer \in {"published", "unknown", "rejected"} :
        /\ runs' = Answered(q, answer)
        /\ \/ /\ UNCHANGED <<targetCommits, receipts>>
              /\ answer = "published" => CommandID(q.command) \in receipts
           \/ /\ targetCommits' = Append(targetCommits, e) /\ q.command.base = Tip
              /\ receipts' \in {receipts, receipts \cup {CommandID(q.command)}}
    BY DEF Handle
<1>6. /\ Grows(targetCommits, targetCommits') /\ Disjoint' /\ Receipted'
      /\ answer = "published" => q.command.items \subseteq All(targetCommits')
  <2>1. CASE /\ UNCHANGED <<targetCommits, receipts>>
             /\ answer = "published" => CommandID(q.command) \in receipts
      BY <1>1, <2>1 DEF Grows, IInv, Disjoint, Receipted, Tip
  <2>2. CASE /\ targetCommits' = Append(targetCommits, e) /\ q.command.base = Tip
             /\ receipts' \in {receipts, receipts \cup {CommandID(q.command)}}
    <3>1. e.items \cap All(targetCommits) = {}
        BY <1>2, <1>4, <2>2 DEF Exact, All, Tip
    <3> HIDE DEF e
    <3>2. Grows(targetCommits, targetCommits') /\ Disjoint' /\ All(targetCommits') = All(targetCommits) \cup e.items
        BY <1>2, <2>2, <3>1, AppendStep
    <3>3. Receipted'
        BY <1>1, <1>2, <2>2, <3>2 DEF IInv, Receipted
    <3> QED BY <1>2, <3>2, <3>3
  <2> QED BY <1>5, <2>1, <2>2
<1>7. ASSUME NEW r \in Runners
      PROVE  \/ runs'[r] = runs[r]
             \/ /\ runs'[r] = [runs[r] EXCEPT !.answer = answer] /\ runs[r].pc = "sent"
                /\ answer = "published" => runs[r].pending.items \subseteq All(targetCommits')
  <2>1. \/ runs'[r] = runs[r]
        \/ /\ runs'[r] = [runs[r] EXCEPT !.answer = answer]
           /\ runs[r].pc = "sent" /\ runs[r].lease = q.lease
      BY <1>5 DEF Answered
  <2>2. runs[r].pc = "sent" /\ runs[r].lease = q.lease => runs[r].pending = q.command
      BY <1>4 DEF Answers
  <2> QED BY <1>6, <2>1, <2>2
<1>8. source <= source'
    BY <1>1, <1>3
<1> QED BY <1>3, <1>6, <1>7, <1>8, GrowStep

-----------------------------------------------------------------------------

LEMMA InvariantStep == IInv /\ [IntegrationNext]_integrationVars => IInv'
<1> SUFFICES ASSUME IInv, [IntegrationNext]_integrationVars PROVE IInv'
    OBVIOUS
<1>1. TypeOK'
    BY TypeStep DEF IInv
<1>2. CASE UNCHANGED integrationVars
    BY <1>1, <1>2 DEF integrationVars, IInv, Disjoint, Recorded, Leased, Running, Waiting, Receipted, Tip
<1>3. CASE Activate \/ Pause \/ Expire
    BY <1>1, <1>3, RecordStep
<1>4. CASE OtherWriter \/ Produce \/ (\E c \in receipts : Prune(c))
    BY <1>1, <1>4, OutsideStep
<1>5. ASSUME NEW r \in Runners,
             \/ Begin(r) \/ ReadHead(r) \/ RunFails(r) \/ Collect(r) \/ SavePending(r) \/ Send(r)
             \/ AnswerUnknown(r) \/ Rejected(r) \/ MoveCheckpoint(r) \/ Release(r) \/ Kill(r)
      PROVE  IInv'
    BY <1>1, <1>5, BeginStep, CollectingStep, SendStep, EndingStep
<1>6. ASSUME NEW q \in requests, Handle(q) PROVE IInv'
    BY <1>1, <1>6, HandleStep
<1> QED BY <1>2, <1>3, <1>4, <1>5, <1>6 DEF IntegrationNext

LEMMA InvariantInit == IntegrationInit => IInv
<1> SUFFICES ASSUME IntegrationInit PROVE IInv
    OBVIOUS
<1>1. TypeOK
  <2>1. st \in Record
      BY Shapes DEF IntegrationInit, Record, None
  <2>2. targetCommits \in Seq(CommitRecord)
      BY DEF IntegrationInit
  <2>3. runs \in [Runners -> Run]
      BY Shapes DEF IntegrationInit
  <2> QED BY <2>1, <2>2, <2>3 DEF IntegrationInit, TypeOK
<1>2. Recorded
  <2>1. /\ st.pending = NoCommand /\ st.cursor = 0 /\ st.lease = 0
        /\ source = 0 /\ leases = 0 /\ targetCommits \in Seq(CommitRecord)
      BY <1>1 DEF IntegrationInit, TypeOK, None
  <2>2. Exact(st.pending, targetCommits, source)
      BY <2>1, EmptyExact
  <2> QED BY <2>1, <2>2 DEF Recorded
<1> QED BY <1>1, <1>2 DEF IntegrationInit, IInv, Disjoint, Leased, Running, Waiting, Receipted, Tip, NotRunning

(* The inductive invariant holds throughout.                               *)
THEOREM IntegrationInvariant == IntegrationSpec => []IInv
BY InvariantInit, InvariantStep, PTL DEF IntegrationSpec

(* No item of the source is skipped or published twice, and all items at   *)
(* or before the checkpoint are in the repository, whatever leases expire, *)
(* answers are lost, receipts pruned or requests handled late (Run,        *)
(* publicationWasRejected, the change set's base).                         *)
THEOREM IntegrationDeliveredOnce == IntegrationSpec => []DeliveredOnce
<1>1. IInv => DeliveredOnce
  <2> SUFFICES ASSUME IInv, NEW i \in 1 .. source
               PROVE  Cardinality(Holding(i)) \in (IF i <= st.cursor THEN {1} ELSE {0, 1})
      BY DEF DeliveredOnce
  <2>1. Tip \in Nat /\ source \in Nat /\ st.cursor \in Nat
      BY DEF IInv, TypeOK, Record, Tip
  <2>2. \A m, n \in Holding(i) : m = n
      BY DEF Holding, IInv, Disjoint
  <2>3. i <= st.cursor => Holding(i) # {}
    <3>1. i <= st.cursor => i \in All(targetCommits)
        BY <2>1 DEF IInv, Recorded
    <3> QED BY <3>1 DEF All, Held, Holding, Tip
  <2>4. CASE Holding(i) = {}
      BY <2>3, <2>4, FS_EmptySet
  <2>5. CASE Holding(i) # {}
    <3>1. PICK n \in Holding(i) : Holding(i) = {n}
        BY <2>2, <2>5
    <3>2. Cardinality(Holding(i)) = 1
        BY <3>1, FS_Singleton
    <3> QED BY <3>2
  <2> QED BY <2>4, <2>5
<1> QED BY <1>1, IntegrationInvariant, PTL

(* The checkpoint never goes back: only the owner of the lease moves it,   *)
(* and what it knows is what is recorded (Run's update closure).           *)
THEOREM IntegrationCheckpointForward == IntegrationSpec => CheckpointForward
<1>1. IInv /\ [IntegrationNext]_integrationVars => [st'.cursor >= st.cursor]_integrationVars
  <2> SUFFICES ASSUME IInv, IntegrationNext PROVE st'.cursor >= st.cursor
      BY DEF integrationVars
  <2>1. st \in Record /\ st.cursor \in Nat
      BY DEF IInv, TypeOK, Record
  <2>2. ASSUME NEW r \in Runners, MoveCheckpoint(r) PROVE st'.cursor >= st.cursor
    <3>1. /\ runs[r].pc \in {"checkpoint", "sent"}
          /\ st' = IF Owns(r) THEN [st EXCEPT !.cursor = runs[r].pending.cursor, !.pending = NoCommand]
                   ELSE st
        BY <2>2 DEF MoveCheckpoint
    <3>2. Known(runs[r], st, targetCommits, source)
        BY <3>1 DEF IInv, Running
    <3>3. Owns(r) => runs[r].pending.cursor >= st.cursor
        BY <3>1, <3>2 DEF Known, Owns
    <3> QED BY <2>1, <3>1, <3>3 DEF Record
  <2>3. st'.cursor = st.cursor \/ \E r \in Runners : MoveCheckpoint(r)
    <3>1. CASE Activate \/ Pause \/ Expire \/ OtherWriter \/ Produce \/ (\E c \in receipts : Prune(c))
        BY <2>1, <3>1 DEF Activate, Pause, Expire, OtherWriter, Produce, Prune, Record
    <3>2. ASSUME NEW r \in Runners,
                 \/ Begin(r) \/ ReadHead(r) \/ RunFails(r) \/ Collect(r) \/ SavePending(r) \/ Send(r)
                 \/ AnswerUnknown(r) \/ Rejected(r) \/ Release(r) \/ Kill(r)
          PROVE  st'.cursor = st.cursor
        BY <2>1, <3>2 DEF Begin, ReadHead, RunFails, Collect, SavePending, Send, AnswerUnknown, Rejected,
             Release, Kill, Record
    <3>3. ASSUME NEW q \in requests, Handle(q) PROVE st'.cursor = st.cursor
        BY <3>3 DEF Handle
    <3> QED BY <3>1, <3>2, <3>3 DEF IntegrationNext
  <2> QED BY <2>1, <2>2, <2>3
<1> QED BY <1>1, IntegrationInvariant, PTL DEF IntegrationSpec, CheckpointForward
=============================================================================
