--------------------------- MODULE MCRunnerGraphs ---------------------------
(* The runner alone, for the promise that it does not keep.                  *)
EXTENDS RunnerGraphs
=============================================================================
