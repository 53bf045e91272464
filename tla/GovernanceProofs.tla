-------------------------- MODULE GovernanceProofs --------------------------
(***************************************************************************)
(* A merge moves the target ref with the evidence of its exact preview,    *)
(* and only forward, for every number of proposals, reports, rules, other  *)
(* writers and failures; and the hooks after a governed action lose no     *)
(* event silently.                                                         *)
(***************************************************************************)
EXTENDS Governance, HookOutbox, TLAPS

Proposal == [base : Nat, ref : CandidateRefs, candidate : Nat]

Merge == [pc : {"candidate", "publish"}, proposal : Proposals, preview : Preview]

TypeOK ==
    /\ anc \in Seq(SUBSET Nat)
    /\ target \in DOMAIN anc
    /\ refs \in [CandidateRefs -> DOMAIN anc \cup {NoCommit}]
    /\ proposals \in [Proposals -> Proposal \cup {NoProposal}]
    /\ \A p \in Proposals : proposals[p] # NoProposal => proposals[p].candidate \in DOMAIN anc
    /\ merge = NotMerging \/ merge \in Merge

\* A commit is among its own ancestors.
Reflexive == \A k \in DOMAIN anc : k \in anc[k]

\* The merge under way is about the stored proposal, and its evidence stands as
\* long as gates.json can be read: nothing it was checked on changes meanwhile.
Evidence == merge # NotMerging =>
    /\ proposals[merge.proposal] # NoProposal
    /\ BoundTo(merge.preview, merge.proposal)
    /\ gates = "readable" => Reviewed(merge.preview)

IInv == TypeOK /\ Reflexive /\ Evidence

---------------------------------------------------------------------------
\* A new commit is an ancestor of itself and has those of its parent; no older
\* commit changes (snapshot refs, parents).
LEMMA CommitAppended ==
    ASSUME anc \in Seq(SUBSET Nat), Reflexive, NEW parent \in DOMAIN anc, NewCommit(parent)
    PROVE  /\ anc' \in Seq(SUBSET Nat) /\ Reflexive'
           /\ DOMAIN anc \subseteq DOMAIN anc' /\ Len(anc) + 1 \in DOMAIN anc'
           /\ anc'[Len(anc) + 1] = anc[parent] \cup {Len(anc) + 1}
<1> DEFINE e == anc[parent] \cup {Len(anc) + 1}
<1>1. anc' = Append(anc, e)
    BY DEF NewCommit, Ancestors
<1>2. e \in SUBSET Nat /\ Len(anc) \in Nat /\ Len(anc) + 1 \in e
    OBVIOUS
<1>3. \A f \in Seq(SUBSET Nat), x \in SUBSET Nat :
        /\ Append(f, x) \in Seq(SUBSET Nat)
        /\ DOMAIN f = 1 .. Len(f) /\ DOMAIN Append(f, x) = 1 .. Len(f) + 1
        /\ Append(f, x)[Len(f) + 1] = x /\ \A k \in 1 .. Len(f) : Append(f, x)[k] = f[k]
    OBVIOUS
<1> HIDE DEF e
<1>4. /\ anc' \in Seq(SUBSET Nat)
      /\ DOMAIN anc = 1 .. Len(anc) /\ DOMAIN anc' = 1 .. Len(anc) + 1
      /\ anc'[Len(anc) + 1] = e /\ \A k \in 1 .. Len(anc) : anc'[k] = anc[k]
    BY <1>1, <1>2, <1>3
<1>5. \A k \in DOMAIN anc' : k \in DOMAIN anc \/ k = Len(anc) + 1
    BY <1>2, <1>4
<1>6. Reflexive'
    BY <1>2, <1>4, <1>5 DEF Reflexive
<1>7. Len(anc) + 1 \in DOMAIN anc' /\ DOMAIN anc \subseteq DOMAIN anc'
    BY <1>2, <1>4
<1> QED BY <1>4, <1>6, <1>7 DEF e

\* Steps of other writers and of the server between merges.
LEMMA WriterStep ==
    ASSUME IInv, CommitTarget \/ \E r \in CandidateRefs : CommitCandidate(r)
    PROVE  IInv' /\ (target' # target => target \in anc'[target'])
<1> USE DEF IInv
<1>1. CASE CommitTarget
  <2>1. NewCommit(target) /\ target \in DOMAIN anc /\ anc \in Seq(SUBSET Nat)
      BY <1>1 DEF CommitTarget, TypeOK
  <2>2. /\ anc' \in Seq(SUBSET Nat) /\ Reflexive' /\ DOMAIN anc \subseteq DOMAIN anc'
        /\ Len(anc) + 1 \in DOMAIN anc' /\ anc'[Len(anc) + 1] = anc[target] \cup {Len(anc) + 1}
      BY <2>1, CommitAppended
  <2>3. /\ target' = Len(anc) + 1
        /\ UNCHANGED <<refs, proposals, previews, reports, rules, gates, merge>>
      BY <1>1 DEF CommitTarget
  <2>4. TypeOK'
      BY <2>2, <2>3 DEF TypeOK
  <2>5. Evidence'
      BY <2>3 DEF Evidence, BoundTo, Reviewed, PassedOn, RuleChecks
  <2> QED BY <2>1, <2>2, <2>3, <2>4, <2>5 DEF Reflexive
<1>2. ASSUME NEW r \in CandidateRefs, CommitCandidate(r)
      PROVE  IInv' /\ target' = target
  <2>1. NewCommit(refs[r]) /\ refs[r] \in DOMAIN anc /\ anc \in Seq(SUBSET Nat)
      BY <1>2 DEF CommitCandidate, TypeOK
  <2>2. /\ anc' \in Seq(SUBSET Nat) /\ Reflexive' /\ DOMAIN anc \subseteq DOMAIN anc'
        /\ Len(anc) + 1 \in DOMAIN anc'
      BY <2>1, CommitAppended
  <2>3. /\ refs' = [refs EXCEPT ![r] = Len(anc) + 1]
        /\ UNCHANGED <<target, proposals, previews, reports, rules, gates, merge>>
      BY <1>2 DEF CommitCandidate
  <2>4. TypeOK'
      BY <2>2, <2>3 DEF TypeOK
  <2>5. Evidence'
      BY <2>3 DEF Evidence, BoundTo, Reviewed, PassedOn, RuleChecks
  <2> QED BY <2>2, <2>3, <2>4, <2>5
<1> QED BY <1>1, <1>2

\* The invocations that write proposals, previews, reports and rules: no merge
\* is under way.
LEMMA InvocationStep ==
    ASSUME IInv, NEW p \in Proposals, NEW r \in CandidateRefs, NEW base \in Commits,
           Propose(p, r, base) \/ ProposeFails(p, r, base) \/ ProposeAgain(p, r, base)
    PROVE  IInv' /\ target' = target
<1> USE DEF IInv, Commits
<1>1. /\ merge = NotMerging /\ merge' = merge /\ target' = target
      /\ anc \in Seq(SUBSET Nat) /\ base \in Nat
    BY DEF Propose, ProposeFails, ProposeAgain, Unlocked, TypeOK
<1>2. Evidence'
    BY <1>1 DEF Evidence
<1>3. CASE Propose(p, r, base)
  <2>1. ProposalParent(r, base) \in DOMAIN anc /\ NewCommit(ProposalParent(r, base))
      BY <1>3 DEF Propose, ProposalParent, TypeOK
  <2>2. /\ anc' \in Seq(SUBSET Nat) /\ Reflexive' /\ DOMAIN anc \subseteq DOMAIN anc'
        /\ Len(anc) + 1 \in DOMAIN anc'
      BY <1>1, <2>1, CommitAppended
  <2>3. /\ refs' = [refs EXCEPT ![r] = Len(anc) + 1]
        /\ proposals' = [proposals EXCEPT ![p] = [base |-> base, ref |-> r, candidate |-> Len(anc) + 1]]
      BY <1>3 DEF Propose
  <2>4. [base |-> base, ref |-> r, candidate |-> Len(anc) + 1] \in Proposal
      BY <1>1 DEF Proposal
  <2>5. TypeOK'
      BY <1>1, <2>2, <2>3, <2>4 DEF TypeOK
  <2> QED BY <1>1, <1>2, <2>2, <2>5
<1>4. CASE ProposeFails(p, r, base)
    BY <1>1, <1>2, <1>4 DEF ProposeFails, TypeOK, Reflexive
<1>5. CASE ProposeAgain(p, r, base)
  <2>1. proposals[p] \in Proposal /\ proposals[p].candidate \in DOMAIN anc
      BY <1>5 DEF ProposeAgain, TypeOK
  <2>2. /\ proposals' = [proposals EXCEPT ![p].base = base, ![p].ref = r]
        /\ UNCHANGED <<anc, refs>>
      BY <1>5 DEF ProposeAgain
  <2>3. proposals'[p] = [proposals[p] EXCEPT !.base = base, !.ref = r]
      BY <2>2 DEF TypeOK
  <2>4. proposals'[p] \in Proposal /\ proposals'[p].candidate = proposals[p].candidate
      BY <1>1, <2>1, <2>3 DEF Proposal
  <2>5. \A q \in Proposals \ {p} : proposals'[q] = proposals[q]
      BY <2>2 DEF TypeOK
  <2>6. proposals' = [q \in Proposals |-> proposals'[q]]
      BY <2>2 DEF TypeOK
  <2>7. proposals' \in [Proposals -> Proposal \cup {NoProposal}]
      BY <2>4, <2>5, <2>6 DEF TypeOK
  <2>8. TypeOK'
      BY <1>1, <2>1, <2>2, <2>4, <2>5, <2>7 DEF TypeOK
  <2> QED BY <1>1, <1>2, <2>2, <2>8 DEF Reflexive
<1> QED BY <1>3, <1>4, <1>5

\* The gate was passed: the rules' checks stand on this preview, or without
\* rules the named report does.
LEMMA CheckIsReview ==
    ASSUME NEW v \in previews, NEW given \in SUBSET reports, \A x \in given : x.preview = v,
           GateSatisfied(v, given), gates = "readable"
    PROVE  Reviewed(v)
<1>1. MergeRequired = RuleChecks
    BY DEF MergeRequired
<1>2. CASE RuleChecks = {}
  <2>1. given # {} /\ \A x \in given : x \in reports /\ x.preview = v /\ x.outcome = "PASSED"
      BY <1>1, <1>2 DEF GateSatisfied
  <2> QED BY <1>2, <2>1 DEF Reviewed, PassedOn
<1>3. CASE RuleChecks # {}
  <2>1. PassedOn(RuleChecks, v)
      BY <1>1, <1>3 DEF GateSatisfied
  <2> QED BY <1>3, <2>1 DEF Reviewed, PassedOn
<1> QED BY <1>2, <1>3

\* A merge: check, candidate ref, publication.
LEMMA MergeStep ==
    ASSUME IInv,
           \/ \E p \in Proposals, v \in previews :
                MergeCheck(p, v, {}) \/ \E x \in reports : MergeCheck(p, v, {x})
           \/ MergeCandidate \/ MergePublish \/ MergeRefused \/ Restart
    PROVE  /\ IInv' /\ (target' # target => target \in anc'[target'])
           /\ Merging /\ gates = "readable" => Reviewed([base |-> target, candidate |-> target'])
<1> USE DEF IInv
<1>1. ASSUME NEW p \in Proposals, NEW v \in previews, NEW given \in SUBSET reports, MergeCheck(p, v, given)
      PROVE  IInv' /\ target' = target
  <2>1. /\ proposals[p] # NoProposal /\ BoundTo(v, p) /\ GateSatisfied(v, given)
        /\ \A x \in given : x.preview = v
        /\ merge' = [pc |-> "candidate", proposal |-> p, preview |-> v]
        /\ UNCHANGED <<target, refs, anc, proposals, previews, reports, rules, gates>>
      BY <1>1 DEF MergeCheck
  <2>2. proposals[p] \in Proposal
      BY <2>1 DEF TypeOK
  <2>3. v \in Preview
      BY <2>1, <2>2 DEF BoundTo, Preview, Proposal
  <2>4. TypeOK'
      BY <2>1, <2>3 DEF TypeOK, Merge
  <2>5. gates = "readable" => Reviewed(v)
      BY <2>1, CheckIsReview
  <2>6. merge'.proposal = p /\ merge'.preview = v
      BY <2>1
  <2>7. BoundTo(v, p)' /\ (gates' = "readable" => Reviewed(v)')
      BY <2>1, <2>5 DEF BoundTo, Reviewed, PassedOn, RuleChecks
  <2>8. Evidence'
      BY <2>1, <2>6, <2>7 DEF Evidence, BoundTo, Reviewed, PassedOn, RuleChecks
  <2> QED BY <2>1, <2>4, <2>8 DEF Reflexive
<1>2. CASE MergeCandidate
  <2>1. merge \in Merge /\ merge # NotMerging /\ (merge' = NotMerging \/ merge' = [merge EXCEPT !.pc = "publish"])
      BY <1>2 DEF MergeCandidate, TypeOK, NotMerging
  <2>2. UNCHANGED <<target, refs, anc, proposals, previews, reports, rules, gates>>
      BY <1>2 DEF MergeCandidate
  <2>3. merge' = NotMerging \/ (merge' \in Merge /\ merge'.proposal = merge.proposal /\ merge'.preview = merge.preview)
      BY <2>1 DEF Merge
  <2>4. TypeOK' /\ Reflexive'
      BY <2>2, <2>3 DEF TypeOK, Reflexive
  <2>5. Evidence'
      BY <2>1, <2>2, <2>3 DEF Evidence, BoundTo, Reviewed, PassedOn, RuleChecks
  <2> QED BY <2>2, <2>4, <2>5 DEF Merging
<1>3. CASE MergePublish
  <2> DEFINE q == proposals[merge.proposal]
  <2>1. /\ merge.pc = "publish" /\ target = q.base /\ q.base \in anc[q.candidate] /\ target' = q.candidate
        /\ merge' = NotMerging /\ UNCHANGED <<refs, anc, proposals, previews, reports, rules, gates>>
      BY <1>3 DEF MergePublish, Ancestors
  <2>2. merge # NotMerging /\ merge \in Merge
      BY <2>1 DEF TypeOK, NotMerging
  <2>3. /\ q # NoProposal /\ merge.preview = [base |-> q.base, candidate |-> q.candidate]
        /\ gates = "readable" => Reviewed(merge.preview)
      BY <2>2 DEF Evidence, BoundTo
  <2>4. q.candidate \in DOMAIN anc
      BY <2>2, <2>3 DEF TypeOK, Merge
  <2>5. TypeOK' /\ Reflexive' /\ Evidence'
      BY <2>1, <2>4 DEF TypeOK, Reflexive, Evidence
  <2> QED BY <2>1, <2>3, <2>5
<1>4. CASE MergeRefused \/ Restart
    BY <1>4 DEF MergeRefused, Restart, TypeOK, Reflexive, Evidence, Merging
<1> QED BY <1>1, <1>2, <1>3, <1>4 DEF Merging

\* Every step keeps the invariant; the ref moves forward, and by a merge only
\* with its evidence.
LEMMA GovernanceStep ==
    ASSUME IInv, [ControlNext]_controlVars
    PROVE  /\ IInv' /\ (target' # target => target \in anc'[target'])
           /\ Merging /\ gates = "readable" => Reviewed([base |-> target, candidate |-> target'])
<1> USE DEF IInv
<1>1. CASE CommitTarget \/ \E r \in CandidateRefs : CommitCandidate(r)
  <2>1. ~Merging
      BY <1>1 DEF CommitTarget, CommitCandidate, Merging, NotMerging
  <2> QED BY <1>1, <2>1, WriterStep
<1>2. CASE \E p \in Proposals, r \in CandidateRefs, base \in Commits :
             Propose(p, r, base) \/ ProposeFails(p, r, base) \/ ProposeAgain(p, r, base)
    BY <1>2, InvocationStep DEF Merging
<1>3. CASE \/ \E p \in Proposals, v \in previews :
                MergeCheck(p, v, {}) \/ \E x \in reports : MergeCheck(p, v, {x})
           \/ MergeCandidate \/ MergePublish \/ MergeRefused \/ Restart
    BY <1>3, MergeStep
<1>4. ASSUME UNCHANGED <<target, refs, anc, proposals>>,
             \/ merge = NotMerging /\ merge' = merge
             \/ /\ gates' = "damaged" /\ merge' = merge /\ UNCHANGED <<previews, reports, rules>>
             \/ UNCHANGED <<merge, previews, reports, rules, gates>>
      PROVE  IInv' /\ target' = target
  <2>1. TypeOK' /\ Reflexive'
      BY <1>4 DEF TypeOK, Reflexive
  <2>2. Evidence'
      BY <1>4 DEF Evidence, BoundTo, Reviewed, PassedOn, RuleChecks
  <2> QED BY <1>4, <2>1, <2>2
<1>5. CASE \/ \E p \in Proposals, pinned \in Ancestors(target) : CreatePreviewAt(p, pinned)
           \/ \E v \in previews, outcome \in {"PASSED", "FAILED"} :
                \/ ValidateStructure(v, outcome)
                \/ \E suite \in Suites \cup {"validate"} : RecordValidation(v, suite, outcome)
           \/ \E check \in Checks : GateAdd(check)
           \/ \E id \in 1 .. MaxRules : GateRm(id)
           \/ GatesDamaged \/ UNCHANGED controlVars
  <2>1. /\ UNCHANGED <<target, refs, anc, proposals>>
        /\ \/ merge = NotMerging /\ merge' = merge
           \/ /\ gates' = "damaged" /\ merge' = merge /\ UNCHANGED <<previews, reports, rules>>
           \/ UNCHANGED <<merge, previews, reports, rules, gates>>
      BY <1>5 DEF CreatePreviewAt, ValidateStructure, RecordValidation, GateAdd, GateRm, GatesDamaged,
           Unlocked, controlVars
  <2> QED BY <1>4, <2>1 DEF Merging
<1> QED BY <1>1, <1>2, <1>3, <1>5 DEF ControlNext

LEMMA GovernanceInit == ControlInit => IInv
<1> SUFFICES ASSUME ControlInit PROVE IInv
    OBVIOUS
<1>1. anc \in Seq(SUBSET Nat) /\ DOMAIN anc = {1} /\ anc[1] = {1}
    BY DEF ControlInit
<1> QED BY <1>1 DEF ControlInit, IInv, TypeOK, Reflexive, Evidence, NotMerging

\* Commits, refs, proposals and the merge under way keep their types, a merge
\* its evidence (ControlState, checkMergeGate).
THEOREM GovernanceInvariant == ControlSpec => []IInv
<1>1. IInv /\ [ControlNext]_controlVars => IInv'
    BY GovernanceStep
<1> QED BY <1>1, GovernanceInit, PTL DEF ControlSpec

\* As long as gates.json can be read a merge publishes exactly a previewed pair
\* on which every required check stands at that moment, and the target only
\* moves to descendants, whatever other writers do between the steps
\* (checkMergeGate, Repository.Merge).
THEOREM GovernanceMergeExact == ControlSpec => MergeExact
<1> DEFINE Gated == Merging /\ gates = "readable" => Reviewed([base |-> target, candidate |-> target'])
           Forward == target' # target => target \in Ancestors(target)'
<1>1. IInv /\ [ControlNext]_controlVars => [Gated]_controlVars /\ [Forward]_controlVars
    BY GovernanceStep DEF Ancestors
<1> QED BY <1>1, GovernanceInvariant, PTL DEF ControlSpec, MergeExact, MergeGated, FastForward

---------------------------------------------------------------------------
(***************************************************************************)
(* The post hooks that follow a governed action: no event is lost          *)
(* silently, for every number of runners, events, bindings and failures.   *)
(***************************************************************************)
Lines == Items \cup Unreadable

PCs == {"idle", "flush", "retry", "deliver", "append"}

Runner == [pc : PCs, event : Events \cup {NoEvent}, todo : SUBSET Bindings,
           body : Seq(Lines), remaining : Seq(Lines)]

HookTypeOK ==
    /\ accepted \subseteq Events
    /\ outbox \in Seq(Lines)
    /\ run \in [Runners -> Runner]

In(x, s) == \E i \in DOMAIN s : s[i] = x

\* What a runner with bindings left knows of its event, one that appends of its
\* line, and one that flushes of the file: whatever it does not write back was
\* delivered or is still to be retried.
Duty(b, file, got) ==
    /\ b.pc = "idle" => b.todo = {}
    /\ b.todo # {} => b.event \in Events
    /\ b.pc = "append" =>
         /\ b.body # << >> /\ Head(b.body) = <<b.event, Head(b.body)[2]>> /\ Head(b.body)[2] \in b.todo
    /\ b.pc = "retry" =>
         \A x \in Items : In(x, file) => x \in got \/ In(x, b.body) \/ In(x, b.remaining)

\* One flush at a time.
Locked == \A r, o \in Runners : run[r].pc = "retry" /\ run[o].pc = "retry" => r = o

HookInv ==
    /\ HookTypeOK /\ Locked /\ AtLeastOnce
    /\ \A r \in Runners : Duty(run[r], outbox, delivered)

---------------------------------------------------------------------------
\* Lines of a file that one line is added to or taken from.

LEMMA InAppend ==
    ASSUME NEW S, NEW s \in Seq(S), NEW e \in S
    PROVE  /\ Append(s, e) \in Seq(S)
           /\ \A x : In(x, s) => In(x, Append(s, e))
           /\ In(e, Append(s, e))
<1>1. /\ DOMAIN s = 1 .. Len(s) /\ DOMAIN Append(s, e) = 1 .. Len(s) + 1 /\ Len(s) \in Nat
      /\ \A i \in 1 .. Len(s) : Append(s, e)[i] = s[i]
      /\ Append(s, e)[Len(s) + 1] = e /\ Append(s, e) \in Seq(S)
    OBVIOUS
<1> QED BY <1>1 DEF In

LEMMA InTail ==
    ASSUME NEW S, NEW s \in Seq(S), s # << >>
    PROVE  /\ Tail(s) \in Seq(S) /\ Head(s) \in S
           /\ \A x : In(x, s) => x = Head(s) \/ In(x, Tail(s))
<1>1. /\ DOMAIN s = 1 .. Len(s) /\ DOMAIN Tail(s) = 1 .. Len(s) - 1 /\ Len(s) \in Nat \ {0}
      /\ \A i \in 1 .. Len(s) - 1 : Tail(s)[i] = s[i + 1]
      /\ Head(s) = s[1] /\ Tail(s) \in Seq(S) /\ Head(s) \in S
    OBVIOUS
<1>2. \A i \in 1 .. Len(s) : i = 1 \/ (i - 1 \in 1 .. Len(s) - 1 /\ s[i] = Tail(s)[i - 1])
    BY <1>1
<1> QED BY <1>1, <1>2 DEF In

LEMMA InFront ==
    ASSUME NEW S, NEW s \in Seq(S), s # << >>
    PROVE  /\ Front(s) \in Seq(S)
           /\ \A x : In(x, s) => x = Last(s) \/ In(x, Front(s))
<1>1. /\ DOMAIN s = 1 .. Len(s) /\ Len(s) \in Nat \ {0}
      /\ Front(s) \in Seq(S) /\ DOMAIN Front(s) = 1 .. Len(s) - 1
      /\ \A i \in 1 .. Len(s) - 1 : Front(s)[i] = s[i]
      /\ Last(s) = s[Len(s)]
    BY DEF Front, Last
<1>2. \A n \in Nat \ {0} : \A i \in 1 .. n : i = n \/ i \in 1 .. n - 1
    OBVIOUS
<1> QED BY <1>1, <1>2 DEF In

LEMMA ShortFiles == << >> \in Seq(Lines) /\ \A line \in Lines : <<line>> \in Seq(Lines)
OBVIOUS

\* A runner's record after a step.
LEMMA RunnerMoved ==
    ASSUME NEW b \in Runner, NEW p \in PCs, NEW t \in SUBSET Bindings,
           NEW s \in Seq(Lines), NEW u \in Seq(Lines)
    PROVE  /\ [b EXCEPT !.pc = p, !.body = s] \in Runner
           /\ [b EXCEPT !.pc = p, !.body = s, !.remaining = u] \in Runner
           /\ [b EXCEPT !.pc = p, !.body = s, !.todo = t] \in Runner
BY DEF Runner

\* A write keeps every event\* A write keeps every event the file has, and adds its own unless it stands
\* behind half a line.
LEMMA LineWritten ==
    ASSUME Items \cap Unreadable = {}, outbox \in Seq(Lines), NEW line \in Lines
    PROVE  /\ WithLine(line) \in Seq(Lines)
           /\ \A x \in Items : In(x, outbox) => In(x, WithLine(line))
           /\ ~BehindTorn => In(line, WithLine(line))
<1>1. CASE BehindTorn
  <2>1. outbox # << >> /\ Last(outbox) = Torn /\ Torn \notin Items
      BY <1>1 DEF BehindTorn, Unreadable
  <2>2. /\ Front(outbox) \in Seq(Lines)
        /\ \A x \in Items : In(x, outbox) => In(x, Front(outbox))
      BY <2>1, InFront
  <2>3. \E e \in Lines : WithLine(line) = Append(Front(outbox), e)
      BY <1>1 DEF WithLine, Lines, Unreadable
  <2> QED BY <1>1, <2>2, <2>3, InAppend
<1>2. CASE ~BehindTorn
    BY <1>2, InAppend DEF WithLine
<1> QED BY <1>1, <1>2

---------------------------------------------------------------------------
\* What a step of runner r owes: the events of the file stay in the file unless
\* they were delivered, and a binding leaves its hands delivered, queued or lost.
LEMMA RunnerStep ==
    ASSUME HookInv, NEW r \in Runners, accepted' = accepted,
           NEW now \in Runner, run' = [run EXCEPT ![r] = now], outbox' \in Seq(Lines),
           delivered \subseteq delivered', lost \subseteq lost',
           outbox' = outbox \/ \A o \in Runners \ {r} : run[o].pc # "retry",
           \A x \in Items : In(x, outbox) => x \in delivered' \/ In(x, outbox'),
           \A b \in run[r].todo :
              \/ now.event = run[r].event /\ b \in now.todo
              \/ <<run[r].event, b>> \in delivered' \cup lost'
              \/ In(<<run[r].event, b>>, outbox'),
           now.pc = "retry" => run[r].pc = "retry" \/ LockFree,
           Duty(now, outbox', delivered')
    PROVE  HookInv'
<1>1. /\ run'[r] = now /\ \A o \in Runners \ {r} : run'[o] = run[o]
      /\ run' \in [Runners -> Runner]
    BY DEF HookInv, HookTypeOK
<1>2. HookTypeOK'
    BY <1>1 DEF HookInv, HookTypeOK
<1>3. Locked'
    BY <1>1 DEF HookInv, Locked, LockFree
<1>4. ASSUME NEW o \in Runners PROVE Duty(run'[o], outbox', delivered')
  <2>1. CASE o = r
      BY <1>1, <2>1
  <2>2. CASE o # r
      BY <1>1, <2>2 DEF HookInv, Duty
  <2> QED BY <2>1, <2>2
<1>5. ASSUME NEW x \in Items, x[1] \in accepted
      PROVE  x \in delivered' \/ In(x, outbox') \/ InHand(x)' \/ x \in lost'
  <2>1. x \in delivered \/ In(x, outbox) \/ InHand(x) \/ x \in lost
      BY <1>5 DEF HookInv, AtLeastOnce, Queued, In
  <2>2. CASE InHand(x)
    <3>1. PICK o \in Runners : run[o].event = x[1] /\ x[2] \in run[o].todo
        BY <2>2 DEF InHand
    <3>2. CASE o = r
      <4>1. x = <<run[r].event, x[2]>>
          BY <3>1, <3>2 DEF Items
      <4> QED BY <1>1, <3>1, <3>2, <4>1 DEF InHand
    <3>3. CASE o # r
        BY <1>1, <3>1, <3>3 DEF InHand
    <3> QED BY <3>2, <3>3
  <2> QED BY <2>1, <2>2
<1>6. AtLeastOnce'
    BY <1>5 DEF AtLeastOnce, Queued, In
<1> QED BY <1>2, <1>3, <1>4, <1>6 DEF HookInv

\* Reading the file, delivering its lines again, and ending the flush.
LEMMA FlushStep ==
    ASSUME HookInv, NEW r \in Runners, Items \cap Unreadable = {},
           Flush(r) \/ Retry(r) \/ RetryFails(r) \/ RetryTorn(r) \/ Replace(r) \/ ReplaceFails(r)
    PROVE  HookInv'
<1> DEFINE b == run[r]
<1>1. b \in Runner /\ Duty(b, outbox, delivered) /\ outbox \in Seq(Lines)
    BY DEF HookInv, HookTypeOK
<1>2. b.body \in Seq(Lines) /\ b.remaining \in Seq(Lines) /\ b.pc \in {"flush", "retry"}
    BY <1>1 DEF Runner, Flush, Retry, RetryFails, RetryTorn, Replace, ReplaceFails
<1>3. UNCHANGED <<accepted, lost>>
    BY DEF Flush, Retry, RetryFails, RetryTorn, Replace, ReplaceFails
<1>4. CASE Flush(r)
  <2> DEFINE now == [b EXCEPT !.pc = IF outbox = << >> THEN "deliver" ELSE "retry", !.body = outbox]
  <2>1. /\ run' = [run EXCEPT ![r] = now] /\ LockFree /\ UNCHANGED <<delivered, outbox>>
      BY <1>4 DEF Flush, HookInv, HookTypeOK
  <2>2. /\ now \in Runner /\ now.event = b.event /\ now.todo = b.todo /\ now.body = outbox
        /\ now.pc \in {"deliver", "retry"}
      BY <1>1 DEF Runner, PCs
  <2> HIDE DEF now
  <2>3. Duty(now, outbox', delivered')
      BY <1>1, <2>1, <2>2 DEF Duty
  <2> QED BY <1>1, <1>3, <2>1, <2>2, <2>3, RunnerStep
<1>5. CASE Retry(r) \/ RetryFails(r)
  <2>1. /\ b.pc = "retry" /\ b.body # << >> /\ outbox' = outbox
        /\ delivered \subseteq delivered'
      BY <1>5 DEF Retry, RetryFails
  <2>2. /\ Tail(b.body) \in Seq(Lines) /\ Head(b.body) \in Lines
        /\ \A x : In(x, b.body) => x = Head(b.body) \/ In(x, Tail(b.body))
      BY <1>2, <2>1, InTail
  <2>3. \E rest \in Seq(Lines) :
          /\ run' = [run EXCEPT ![r] = [b EXCEPT !.body = Tail(b.body), !.remaining = rest]]
          /\ \A x : In(x, b.remaining) => In(x, rest)
          /\ Head(b.body) \in delivered' \/ In(Head(b.body), rest)
    <3>1. CASE Retry(r)
      <4>1. run' = [run EXCEPT ![r].body = Tail(b.body)] /\ Head(b.body) \in delivered'
          BY <3>1 DEF Retry
      <4>2. [b EXCEPT !.body = Tail(b.body)] = [b EXCEPT !.body = Tail(b.body), !.remaining = b.remaining]
          BY <1>1 DEF Runner
      <4>3. run' = [run EXCEPT ![r] = [b EXCEPT !.body = Tail(b.body), !.remaining = b.remaining]]
          BY <4>1, <4>2 DEF HookInv, HookTypeOK
      <4> QED BY <1>2, <4>1, <4>3
    <3>2. CASE RetryFails(r)
      <4>1. run' = [run EXCEPT ![r] = [b EXCEPT !.body = Tail(b.body),
                                               !.remaining = Append(b.remaining, Head(b.body))]]
          BY <3>2 DEF RetryFails, HookInv, HookTypeOK
      <4>2. /\ Append(b.remaining, Head(b.body)) \in Seq(Lines)
            /\ \A x : In(x, b.remaining) => In(x, Append(b.remaining, Head(b.body)))
            /\ In(Head(b.body), Append(b.remaining, Head(b.body)))
          BY <1>2, <2>2, InAppend
      <4> QED BY <4>1, <4>2
    <3> QED BY <1>5, <3>1, <3>2
  <2>4. PICK rest \in Seq(Lines) :
          /\ run' = [run EXCEPT ![r] = [b EXCEPT !.body = Tail(b.body), !.remaining = rest]]
          /\ \A x : In(x, b.remaining) => In(x, rest)
          /\ Head(b.body) \in delivered' \/ In(Head(b.body), rest)
      BY <2>3
  <2> DEFINE now == [b EXCEPT !.body = Tail(b.body), !.remaining = rest]
  <2>5. /\ now \in Runner /\ now.event = b.event /\ now.todo = b.todo /\ now.pc = "retry"
        /\ now.body = Tail(b.body) /\ now.remaining = rest
      BY <1>1, <2>1, <2>2 DEF Runner
  <2>6. run' = [run EXCEPT ![r] = now]
      BY <2>4
  <2> HIDE DEF now
  <2>7. Duty(now, outbox', delivered')
      BY <1>1, <2>1, <2>2, <2>4, <2>5 DEF Duty
  <2> QED BY <1>1, <1>3, <2>1, <2>5, <2>6, <2>7, RunnerStep
<1>6. CASE RetryTorn(r) \/ Replace(r) \/ ReplaceFails(r)
  <2> DEFINE now == [b EXCEPT !.pc = "deliver", !.body = << >>, !.remaining = << >>]
  <2>1. /\ run' = [run EXCEPT ![r] = now] /\ b.pc = "retry" /\ delivered' = delivered
        /\ outbox' = outbox \/ (outbox' = b.remaining /\ b.body = << >>)
      BY <1>6 DEF RetryTorn, Replace, ReplaceFails, FlushEnds, HookInv, HookTypeOK
  <2>2. /\ now \in Runner /\ now.event = b.event /\ now.todo = b.todo /\ now.pc = "deliver"
    <3>1. now \in Runner
        BY <1>1, ShortFiles, RunnerMoved DEF PCs
    <3> QED BY <1>1, <3>1 DEF Runner
  <2>3. \A x : ~In(x, << >>)
      BY DEF In
  <2>4. \A x \in Items : In(x, outbox) => x \in delivered' \/ In(x, outbox')
      BY <1>1, <2>1, <2>3 DEF Duty
  <2>5. outbox' \in Seq(Lines) /\ \A o \in Runners \ {r} : run[o].pc # "retry"
      BY <1>1, <1>2, <2>1 DEF HookInv, Locked
  <2> HIDE DEF now
  <2>6. Duty(now, outbox', delivered')
      BY <1>1, <2>2 DEF Duty
  <2> QED BY <1>1, <1>3, <2>1, <2>2, <2>4, <2>5, <2>6, RunnerStep
<1> QED BY <1>4, <1>5, <1>6

\* Delivering the fresh event and queueing what failed.
LEMMA DeliveryStep ==
    ASSUME HookInv, NEW r \in Runners, Items \cap Unreadable = {},
           \/ \E binding \in Bindings : Deliver(r, binding) \/ DeliverFails(r, binding)
           \/ AppendOutbox(r) \/ AppendFails(r)
    PROVE  HookInv'
<1> DEFINE b == run[r]
<1>1. b \in Runner /\ Duty(b, outbox, delivered) /\ outbox \in Seq(Lines)
    BY DEF HookInv, HookTypeOK
<1>2. accepted' = accepted /\ b.todo \subseteq Bindings
    BY <1>1 DEF Deliver, DeliverFails, AppendOutbox, AppendFails, Runner
<1>3. ASSUME NEW binding \in Bindings, Deliver(r, binding) PROVE HookInv'
  <2> DEFINE now == [b EXCEPT !.todo = b.todo \ {binding}]
  <2>1. /\ run' = [run EXCEPT ![r] = now] /\ b.pc = "deliver" /\ UNCHANGED <<outbox, lost>>
        /\ delivered' = delivered \cup {<<b.event, binding>>}
      BY <1>3 DEF Deliver, HookInv, HookTypeOK
  <2>2. now \in Runner /\ now.event = b.event /\ now.todo = b.todo \ {binding} /\ now.pc = "deliver"
      BY <1>1, <2>1 DEF Runner
  <2> HIDE DEF now
  <2>3. Duty(now, outbox', delivered')
      BY <1>1, <2>2 DEF Duty
  <2> QED BY <1>1, <1>2, <2>1, <2>2, <2>3, RunnerStep
<1>4. ASSUME NEW binding \in Bindings, DeliverFails(r, binding) PROVE HookInv'
  <2> DEFINE line == <<b.event, binding>>
             now == [b EXCEPT !.pc = "append", !.body = <<line>>]
  <2>1. /\ run' = [run EXCEPT ![r] = now] /\ UNCHANGED <<outbox, lost>>
        /\ delivered \subseteq delivered' /\ binding \in b.todo
      BY <1>4 DEF DeliverFails, HookInv, HookTypeOK
  <2>2. line \in Lines
      BY <1>1, <2>1 DEF Duty, Lines, Items
  <2>3. /\ now \in Runner /\ now.event = b.event /\ now.todo = b.todo /\ now.pc = "append"
        /\ now.body = <<line>>
    <3> HIDE DEF line
    <3>1. now \in Runner
        BY <1>1, <2>2, ShortFiles, RunnerMoved DEF PCs
    <3> QED BY <1>1, <3>1 DEF Runner
  <2>4. now.body # << >> /\ Head(now.body) = <<b.event, binding>> /\ Head(now.body)[2] = binding
      BY <2>3
  <2> HIDE DEF now, line
  <2>5. Duty(now, outbox', delivered')
      BY <1>1, <2>1, <2>3, <2>4 DEF Duty
  <2> QED BY <1>1, <1>2, <2>1, <2>3, <2>5, RunnerStep
<1>5. CASE AppendOutbox(r) \/ AppendFails(r)
  <2> DEFINE line == Head(b.body)
             now == [b EXCEPT !.pc = "deliver", !.body = << >>, !.todo = b.todo \ {line[2]}]
  <2>1. /\ run' = [run EXCEPT ![r] = now] /\ b.pc = "append" /\ LockFree /\ delivered' = delivered
        /\ lost \subseteq lost'
        /\ \/ outbox' = WithLine(line) /\ (BehindTorn => line \in lost')
           \/ outbox' \in {outbox, WithLine(Torn)} /\ line \in lost'
      BY <1>5 DEF AppendOutbox, AppendFails, Appended, Lose, HookInv, HookTypeOK
  <2>2. line = <<b.event, line[2]>> /\ line[2] \in b.todo /\ b.event \in Events
      BY <1>1, <2>1 DEF Duty
  <2>3. line \in Lines /\ Torn \in Lines
    <3> HIDE DEF line
    <3>1. <<b.event, line[2]>> \in Items
        BY <1>2, <2>2 DEF Items
    <3> QED BY <2>2, <3>1 DEF Lines, Unreadable
  <2>4. /\ now \in Runner /\ now.event = b.event /\ now.todo = b.todo \ {line[2]} /\ now.pc = "deliver"
    <3> HIDE DEF line
    <3>1. b.todo \ {line[2]} \in SUBSET Bindings
        BY <1>1 DEF Runner
    <3>2. now \in Runner
        BY <1>1, <3>1, ShortFiles, RunnerMoved DEF PCs
    <3> QED BY <1>1, <3>2 DEF Runner
  <2> HIDE DEF now, line
  <2>5. /\ outbox' \in Seq(Lines)
        /\ \A x \in Items : In(x, outbox) => In(x, outbox')
        /\ In(line, outbox') \/ line \in lost'
      BY <1>1, <2>1, <2>3, LineWritten
  <2>6. \A o \in Runners \ {r} : run[o].pc # "retry"
      BY <2>1 DEF LockFree
  <2>7. Duty(now, outbox', delivered')
      BY <1>1, <2>4 DEF Duty
  <2> QED BY <1>2, <2>1, <2>2, <2>4, <2>5, <2>6, <2>7, RunnerStep
<1> QED BY <1>3, <1>4, <1>5

\* A runner that has nothing, and one that only has its event and bindings.
LEMMA IdleRunner ==
    /\ NotDispatching \in Runner /\ NotDispatching.pc = "idle" /\ NotDispatching.todo = {}
    /\ [NotDispatching EXCEPT !.pc = "flush"] \in Runner
    /\ \A e \in Events : [NotDispatching EXCEPT !.pc = "flush", !.event = e, !.todo = Bindings] \in Runner
<1>1. NotDispatching \in Runner /\ [NotDispatching EXCEPT !.pc = "flush"] \in Runner
    BY ShortFiles DEF NotDispatching, Runner, PCs
<1>2. ASSUME NEW e \in Events
      PROVE  [NotDispatching EXCEPT !.pc = "flush", !.event = e, !.todo = Bindings] \in Runner
    BY ShortFiles DEF NotDispatching, Runner, PCs
<1>3. NotDispatching.pc = "idle" /\ NotDispatching.todo = {}
    BY DEF NotDispatching
<1> QED BY <1>1, <1>2, <1>3, Zenon

\* A runner takes an action up, ends it or is killed.
LEMMA ActionStep ==
    ASSUME HookInv, NEW r \in Runners,
           (\E e \in Events : Accept(r, e)) \/ AcceptUnmatched(r) \/ Finish(r) \/ RunnerCrash(r)
    PROVE  HookInv'
<1> DEFINE b == run[r]
<1>1. b \in Runner /\ Duty(b, outbox, delivered) /\ outbox \in Seq(Lines)
    BY DEF HookInv, HookTypeOK
<1>2. ASSUME NEW e \in Events, Accept(r, e) PROVE HookInv'
  <2> DEFINE now == [NotDispatching EXCEPT !.pc = "flush", !.event = e, !.todo = Bindings]
  <2>1. /\ run' = [run EXCEPT ![r] = now] /\ b.pc = "idle" /\ accepted' = accepted \cup {e}
        /\ UNCHANGED <<delivered, outbox, lost>>
      BY <1>2 DEF Accept
  <2>2. now \in Runner /\ now.pc = "flush" /\ now.event = e /\ now.todo = Bindings
      BY IdleRunner DEF NotDispatching
  <2> HIDE DEF now
  <2>3. b.todo = {}
      BY <1>1, <2>1 DEF Duty
  <2>4. /\ run'[r] = now /\ \A o \in Runners \ {r} : run'[o] = run[o]
        /\ run' \in [Runners -> Runner]
      BY <2>1, <2>2 DEF HookInv, HookTypeOK
  <2>5. HookTypeOK' /\ Locked'
      BY <2>1, <2>2, <2>4 DEF HookInv, HookTypeOK, Locked
  <2>6. \A o \in Runners : Duty(run'[o], outbox', delivered')
      BY <2>1, <2>2, <2>4 DEF HookInv, Duty
  <2>7. ASSUME NEW x \in Items, x[1] \in accepted'
        PROVE  x \in delivered' \/ Queued(x)' \/ InHand(x)' \/ x \in lost'
    <3>1. CASE x[1] = e
        BY <2>2, <2>4, <3>1 DEF InHand, Items
    <3>2. CASE x[1] \in accepted
      <4>1. x \in delivered \/ Queued(x) \/ InHand(x) \/ x \in lost
          BY <3>2 DEF HookInv, AtLeastOnce
      <4>2. InHand(x) => InHand(x)'
          BY <2>3, <2>4 DEF InHand
      <4> QED BY <2>1, <4>1, <4>2 DEF Queued
    <3> QED BY <2>1, <2>7, <3>1, <3>2
  <2>8. AtLeastOnce'
      BY <2>7 DEF AtLeastOnce
  <2> QED BY <2>5, <2>6, <2>8 DEF HookInv
<1>3. CASE AcceptUnmatched(r)
  <2> DEFINE now == [NotDispatching EXCEPT !.pc = "flush"]
  <2>1. /\ run' = [run EXCEPT ![r] = now] /\ b.pc = "idle"
        /\ UNCHANGED <<accepted, delivered, outbox, lost>>
      BY <1>3 DEF AcceptUnmatched
  <2>2. now \in Runner /\ now.pc = "flush" /\ now.todo = {}
      BY IdleRunner DEF NotDispatching
  <2> HIDE DEF now
  <2>3. b.todo = {} /\ Duty(now, outbox', delivered')
      BY <1>1, <2>1, <2>2 DEF Duty
  <2> QED BY <1>1, <2>1, <2>2, <2>3, RunnerStep
<1>4. CASE Finish(r) \/ RunnerCrash(r)
  <2>1. /\ run' = [run EXCEPT ![r] = NotDispatching] /\ UNCHANGED <<accepted, delivered, outbox>>
        /\ lost \subseteq lost' /\ \A x \in b.todo : <<b.event, x>> \in lost'
      BY <1>4 DEF Finish, RunnerCrash, Lose
  <2>2. Duty(NotDispatching, outbox', delivered')
      BY IdleRunner DEF Duty
  <2> QED BY <1>1, <2>1, <2>2, IdleRunner, RunnerStep
<1> QED BY <1>2, <1>3, <1>4

\* An event of a succeeded action is, for every binding, delivered, queued, in
\* the hands of a runner or visibly given up: no interleaving of flushes,
\* rewrites, appends and failures drops it (replaceOutbox, DispatchObserved,
\* AppendOutbox).
THEOREM HooksAtLeastOnce ==
    ASSUME Items \cap Unreadable = {}
    PROVE  HookSpec => []AtLeastOnce
<1>1. HookInit => HookInv
  <2> SUFFICES ASSUME HookInit PROVE HookInv
      OBVIOUS
  <2>1. HookTypeOK /\ Locked
      BY IdleRunner, ShortFiles DEF HookInit, HookTypeOK, Locked
  <2>2. \A r \in Runners : Duty(run[r], outbox, delivered)
      BY IdleRunner DEF HookInit, Duty
  <2> QED BY <2>1, <2>2 DEF HookInit, HookInv, AtLeastOnce
<1>2. HookInv /\ [HookNext]_hookVars => HookInv'
  <2> SUFFICES ASSUME HookInv, [HookNext]_hookVars PROVE HookInv'
      OBVIOUS
  <2>1. CASE UNCHANGED hookVars
      BY <2>1 DEF hookVars, HookInv, HookTypeOK, Locked, AtLeastOnce, Queued, InHand, Duty
  <2>2. ASSUME NEW r \in Runners,
               (\E e \in Events : Accept(r, e)) \/ AcceptUnmatched(r) \/ DispatchStep(r) \/ RunnerCrash(r)
        PROVE  HookInv'
      BY <2>2, FlushStep, DeliveryStep, ActionStep DEF DispatchStep
  <2> QED BY <2>1, <2>2 DEF HookNext
<1>3. HookInv => AtLeastOnce
    BY DEF HookInv
<1> QED BY <1>1, <1>2, <1>3, PTL DEF HookSpec
=============================================================================
