-------------------------------- MODULE Backend --------------------------------
(***************************************************************************)
(* What the modules of the single services have in common: HTTP calls and  *)
(* cron jobs are async handlers of one Node process (or of several), each  *)
(* await is a point where others run, and any of them may end in an error  *)
(* or with the process.                                                    *)
(***************************************************************************)
EXTENDS Integers, Sequences, FiniteSets

CONSTANTS Handler,      \* the calls that can be in flight at once
          MaxFailures   \* bound: calls that may end in an error or a crash

ASSUME BackendAssumption == MaxFailures \in Nat
================================================================================
