---- MODULE Governance ----
(***************************************************************************)
(* The governance loop of controlplane/, gate/ and the governance verbs of *)
(* invocation/: proposal -> preview -> validation evidence -> merge.       *)
(*                                                                         *)
(* One repository.  A proposal puts a commit on a candidate ref; a preview *)
(* fixes the pair (pinned base, candidate); reports are evidence about one *)
(* preview; gate rules name the checks a merge needs; a merge moves the    *)
(* target ref from the base to the candidate by compare-and-set.           *)
(*                                                                         *)
(* The server runs mutating invocations one at a time (lockTypedInvocation)*)
(* so control state and gate rules change only between invocations.  The   *)
(* refs belong to the snapshot authority: other writers move them between  *)
(* any two steps of a merge.                                               *)
(***************************************************************************)
EXTENDS Naturals, Sequences, FiniteSets

CONSTANTS
    Proposals,      \* proposal ids
    CandidateRefs,  \* refs a proposal may be written to
    Suites,         \* external suites; "structure" is the built-in check
    MaxRefCommits,  \* bound on commits ever created
    MaxPreviews,    \* bound on the previews kept
    MaxReports,     \* bound on the reports kept
    MaxRules,       \* bound on the gate rules kept in gates.json
    MaxGateFaults   \* bound on failed ref writes and unreadable gates.json

VARIABLES
    target,     \* commit of the target ref
    refs,       \* candidate ref -> commit, NoCommit when it does not exist
    anc,        \* anc[k]: the ancestors of commit k, itself included
    proposals,  \* ControlState.Proposals
    previews,   \* ControlState.Previews: fixed (base, candidate) pairs
    reports,    \* ControlState.Validations: at most one per (preview, suite)
    rules,      \* gates.json
    gates,      \* "readable" or "damaged": what reading gates.json gives
    merge,      \* the merge under way in the server, or Idle
    gateFaults

controlVars == <<target, refs, anc, proposals, previews, reports, rules, gates, merge, gateFaults>>

NoCommit == 0

Commits == DOMAIN anc

NoProposal == [base |-> NoCommit]

Preview == [base : Nat, candidate : Nat]

\* Names a report may carry: the built-in suite, "validate" recorded by hand,
\* or an external suite.
SuiteNames == {"structure", "validate"} \cup Suites

\* Names a gate rule may require (gate.ValidateRequire).
Checks == {"validate"} \cup Suites

NotMerging == [pc |-> "idle"]

ControlInit ==
    /\ target = 1
    /\ refs = [r \in CandidateRefs |-> NoCommit]
    /\ anc = <<{1}>>
    /\ proposals = [p \in Proposals |-> NoProposal]
    /\ previews = {}
    /\ reports = {}
    /\ rules = << >>
    /\ gates = "readable"
    /\ merge = NotMerging
    /\ gateFaults = 0

GovernanceFault == gateFaults < MaxGateFaults /\ gateFaults' = gateFaults + 1

\* No invocation holds the server's invocation lock.
Unlocked == merge = NotMerging

Ancestors(k) == anc[k]

\* A commit on top of parent.
NewCommit(parent) ==
    /\ Len(anc) < MaxRefCommits
    /\ anc' = Append(anc, Ancestors(parent) \cup {Len(anc) + 1})

---------------------------------------------------------------------------
\* Writers of the snapshot authority outside this server.

\* writer.commit on the target ref.
CommitTarget ==
    /\ NewCommit(target)
    /\ target' = Len(anc) + 1
    /\ UNCHANGED <<refs, proposals, previews, reports, rules, gates, merge, gateFaults>>

\* writer.commit with a candidate ref as its target.
CommitCandidate(r) ==
    /\ refs[r] # NoCommit
    /\ NewCommit(refs[r])
    /\ refs' = [refs EXCEPT ![r] = Len(anc) + 1]
    /\ UNCHANGED <<target, proposals, previews, reports, rules, gates, merge, gateFaults>>

---------------------------------------------------------------------------
\* governance.proposal.create

\* Where writer.Propose puts the candidate: on top of the candidate ref when
\* it exists, whatever base the caller names.
ProposalParent(r, base) == IF refs[r] = NoCommit THEN base ELSE refs[r]

Propose(p, r, base) ==
    /\ Unlocked
    /\ proposals[p] = NoProposal
    /\ NewCommit(ProposalParent(r, base))
    /\ refs' = [refs EXCEPT ![r] = Len(anc) + 1]
    /\ proposals' = [proposals EXCEPT ![p] =
            [base |-> base, ref |-> r, candidate |-> Len(anc) + 1]]
    /\ UNCHANGED <<target, previews, reports, rules, gates, merge, gateFaults>>

\* CreateRef succeeded and the commit on it did not: the ref stays at base.
ProposeFails(p, r, base) ==
    /\ Unlocked
    /\ proposals[p] = NoProposal
    /\ refs[r] = NoCommit
    /\ GovernanceFault
    /\ refs' = [refs EXCEPT ![r] = base]
    /\ UNCHANGED <<target, anc, proposals, previews, reports, rules, gates, merge>>

\* The command "proposal:<id>" is already in the ledger: the receipt is
\* replayed, and the proposal saved again with this call's base and ref.
ProposeAgain(p, r, base) ==
    /\ Unlocked
    /\ proposals[p] # NoProposal
    /\ proposals' = [proposals EXCEPT ![p].base = base, ![p].ref = r]
    /\ UNCHANGED <<target, refs, anc, previews, reports, rules, gates, merge, gateFaults>>

---------------------------------------------------------------------------
\* governance.preview.create, governance.validate, governance.validation.record

\* The dataset resolves to a pin; the proposal's base must be the pinned
\* member.  A pin may be as old as any commit the target once had.
CreatePreviewAt(p, pinned) ==
    /\ Unlocked
    /\ proposals[p] # NoProposal
    /\ pinned = proposals[p].base
    /\ previews' = previews \cup
            {[base |-> proposals[p].base, candidate |-> proposals[p].candidate]}
    /\ Cardinality(previews') <= MaxPreviews
    /\ UNCHANGED <<target, refs, anc, proposals, reports, rules, gates, merge, gateFaults>>

\* ReportID = "val-" + preview + "-" + suite: a later report of a suite on a
\* preview replaces the earlier one.
SaveReport(v, suite, outcome) ==
    reports' = {x \in reports : <<x.preview, x.suite>> # <<v, suite>>} \cup
               {[preview |-> v, suite |-> suite, outcome |-> outcome]}

\* The structural checks read the members, which may have been detached: any
\* outcome.
ValidateStructure(v, outcome) ==
    /\ Unlocked
    /\ SaveReport(v, "structure", outcome)
    /\ Cardinality(reports') <= MaxReports
    /\ UNCHANGED <<target, refs, anc, proposals, previews, rules, gates, merge, gateFaults>>

RecordValidation(v, suite, outcome) ==
    /\ Unlocked
    /\ SaveReport(v, suite, outcome)
    /\ Cardinality(reports') <= MaxReports
    /\ UNCHANGED <<target, refs, anc, proposals, previews, rules, gates, merge, gateFaults>>

---------------------------------------------------------------------------
\* gate.add, gate.rm

\* NextID is the length plus one.
GateAdd(check) ==
    /\ Unlocked
    /\ gates = "readable"
    /\ Len(rules) < MaxRules
    /\ rules' = Append(rules, [id |-> Len(rules) + 1, require |-> check])
    /\ UNCHANGED <<target, refs, anc, proposals, previews, reports, gates, merge, gateFaults>>

\* DropByID keeps the rules with another id.
GateRm(id) ==
    /\ Unlocked
    /\ gates = "readable"
    /\ \E i \in DOMAIN rules : rules[i].id = id
    /\ rules' = SelectSeq(rules, LAMBDA rule : rule.id # id)
    /\ UNCHANGED <<target, refs, anc, proposals, previews, reports, gates, merge, gateFaults>>

\* gates.json cannot be read or parsed (permission, disk, a hand edit).
GatesDamaged ==
    /\ GovernanceFault
    /\ gates' = "damaged"
    /\ UNCHANGED <<target, refs, anc, proposals, previews, reports, rules, merge>>

---------------------------------------------------------------------------
\* governance.merge

\* The checks the rules of gates.json ask for.
RuleChecks == {rules[i].require : i \in DOMAIN rules}

\* MergeRequired: an unreadable gates.json requires nothing.
MergeRequired == IF gates = "readable" THEN RuleChecks ELSE {}

\* gate.nameMatch: which report satisfies which required check.
NameMatch(check, suite) ==
    suite \in (IF check = "validate" THEN {"validate", "structure"} ELSE {check})

\* gate.Check over gate.OnBasis: every required check PASSED on this preview.
PassedOn(required, v) ==
    \A check \in required : \E x \in reports :
        x.preview = v /\ x.outcome = "PASSED" /\ NameMatch(check, x.suite)

\* Mutant: evidence counts whatever preview it is about.
GateSatisfiedAnyBasis(v, given) ==
    \A check \in MergeRequired : \E x \in reports :
        x.outcome = "PASSED" /\ NameMatch(check, x.suite)

\* checkMergeGate: without rules the named report itself must have passed.
GateSatisfied(v, given) ==
    IF MergeRequired = {} THEN given # {} /\ \A x \in given : x.outcome = "PASSED"
                          ELSE PassedOn(MergeRequired, v)

\* The preview is of this proposal: same candidate, same base.
BoundTo(v, p) == v = [base |-> proposals[p].base, candidate |-> proposals[p].candidate]

\* VerbMerge up to the gate: stored proposal, preview and (optional) report,
\* which must be about this preview.
MergeCheck(p, v, given) ==
    /\ Unlocked
    /\ proposals[p] # NoProposal
    /\ BoundTo(v, p)
    /\ \A x \in given : x.preview = v
    /\ GateSatisfied(v, given)
    /\ merge' = [pc |-> "candidate", proposal |-> p, preview |-> v]
    /\ UNCHANGED <<target, refs, anc, proposals, previews, reports, rules, gates, gateFaults>>

\* The candidate ref must still be at the candidate commit.
MergeCandidate ==
    /\ merge.pc = "candidate"
    /\ LET q == proposals[merge.proposal] IN
       merge' = IF refs[q.ref] = q.candidate THEN [merge EXCEPT !.pc = "publish"] ELSE NotMerging
    /\ UNCHANGED <<target, refs, anc, proposals, previews, reports, rules, gates, gateFaults>>

\* Mutant: the compare-and-set without the descendant check.
MergePublishUnrelated ==
    /\ merge.pc = "publish"
    /\ target = proposals[merge.proposal].base
    /\ target' = proposals[merge.proposal].candidate
    /\ merge' = NotMerging
    /\ UNCHANGED <<refs, anc, proposals, previews, reports, rules, gates, gateFaults>>

\* Repository.Merge: only from the base, only to a descendant of it.
MergePublish ==
    /\ merge.pc = "publish"
    /\ LET q == proposals[merge.proposal] IN
       /\ target = q.base
       /\ q.base \in Ancestors(q.candidate)
       /\ target' = q.candidate
    /\ merge' = NotMerging
    /\ UNCHANGED <<refs, anc, proposals, previews, reports, rules, gates, gateFaults>>

\* NON_FAST_FORWARD: the target moved, or the candidate is not built on it.
MergeRefused ==
    /\ merge.pc = "publish"
    /\ LET q == proposals[merge.proposal] IN
       target = q.base => q.base \notin Ancestors(q.candidate)
    /\ merge' = NotMerging
    /\ UNCHANGED <<target, refs, anc, proposals, previews, reports, rules, gates, gateFaults>>

\* The server stops in the middle of a merge; control.json and the refs stay.
Restart ==
    /\ merge # NotMerging
    /\ merge' = NotMerging
    /\ UNCHANGED <<target, refs, anc, proposals, previews, reports, rules, gates, gateFaults>>

---------------------------------------------------------------------------
ControlNext ==
    \/ CommitTarget
    \/ \E r \in CandidateRefs : CommitCandidate(r)
    \/ \E p \in Proposals, r \in CandidateRefs, base \in Commits :
            Propose(p, r, base) \/ ProposeFails(p, r, base) \/ ProposeAgain(p, r, base)
    \/ \E p \in Proposals, pinned \in Ancestors(target) : CreatePreviewAt(p, pinned)
    \/ \E v \in previews, outcome \in {"PASSED", "FAILED"} :
            \/ ValidateStructure(v, outcome)
            \/ \E suite \in Suites \cup {"validate"} : RecordValidation(v, suite, outcome)
    \/ \E check \in Checks : GateAdd(check)
    \/ \E id \in 1..MaxRules : GateRm(id)
    \/ GatesDamaged
    \/ \E p \in Proposals, v \in previews :
            MergeCheck(p, v, {}) \/ \E x \in reports : MergeCheck(p, v, {x})
    \/ MergeCandidate \/ MergePublish \/ MergeRefused \/ Restart

ControlSpec == ControlInit /\ [][ControlNext]_controlVars

---------------------------------------------------------------------------

\* The evidence gates.json asks for is on record for this very preview; with
\* no rules, at least one report of it passed.
Reviewed(v) ==
    /\ v \in previews
    /\ PassedOn(RuleChecks, v)
    /\ \E x \in reports : x.preview = v /\ x.outcome = "PASSED"

\* The ref moves by a merge that is about to publish.
Merging == merge.pc = "publish" /\ target' # target /\ merge' = NotMerging

\* A merge moves the target from a base to a candidate only when that exact
\* pair was previewed and every check the rules require is PASSED on that
\* preview at the moment the ref moves (controlplane/merge.go merge,
\* checkMergeGate), while gates.json can be read: not on an older preview of
\* the proposal, not superseded by a FAILED rerun, and whatever other writers
\* did to the refs meanwhile.
MergeGated ==
    [][Merging /\ gates = "readable"
        => Reviewed([base |-> target, candidate |-> target'])]_controlVars

\* The gate is "fail-closed" (docs/reviewed/capability-organization.md): the
\* same also when gates.json cannot be read (home_sidecar.go MergeRequired).
MergeFailsClosed ==
    [][Merging => Reviewed([base |-> target, candidate |-> target'])]_controlVars

\* The target ref only ever moves to a descendant of where it was, so no
\* accepted commit is dropped, although a reused candidate ref carries commits
\* that were never built on the proposal's base (writer.Propose, Merge).
FastForward == [][target' # target => target \in Ancestors(target)']_controlVars

\* What a merge promises of the ref it moves.
MergeExact == MergeGated /\ FastForward

====
