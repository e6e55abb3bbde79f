------------------------- MODULE MCExecutionGeneric -------------------------
(* Model-checking instance of ExecutionGeneric: three tasks, each making   *)
(* up to four engine calls, instruction counters up to 1.                  *)
EXTENDS ExecutionGeneric

MCMaxTasks == 3
MCMaxOps == 4
MCMaxInstr == 1
=============================================================================
