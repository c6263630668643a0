---------------------------- MODULE MCRunnerRuns ----------------------------
(* RunnerRuns for TLC.                                                       *)
EXTENDS RunnerRuns, TLC

Symmetry == Permutations(Runs) \cup Permutations(Workers)
              \cup Permutations(Resumers)
=============================================================================
