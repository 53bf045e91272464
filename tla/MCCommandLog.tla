---------------------------- MODULE MCCommandLog ----------------------------
(* Small instances of the command ledger.                                  *)
EXTENDS CommandLog, TLC

CallerSymmetry == Permutations(Callers)
=============================================================================
