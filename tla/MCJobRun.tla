------------------------------ MODULE MCJobRun ------------------------------
(* JobRun for TLC: three addresses in chunks of two, so that the last      *)
(* chunk is short; each configuration chooses the faults.                  *)
EXTENDS JobRun
============================================================================
