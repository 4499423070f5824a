-------------------------- MODULE MCPaperExecution --------------------------
(***************************************************************************)
(* Small instances of PaperExecution.                                      *)
(***************************************************************************)
EXTENDS PaperExecution

Interchangeable == Permutations(Worker)

\* One worker, interchangeable constructions; ImplementsLedger is an action
\* property about all of them.
SameConstructions == Permutations(Construction)
=============================================================================
