---- MODULE MCGovernance ----
EXTENDS Governance, TLC

Symmetry == Permutations(Proposals) \cup Permutations(CandidateRefs)
====
