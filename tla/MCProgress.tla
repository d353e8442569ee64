------------------------------ MODULE MCProgress ------------------------------
(***************************************************************************)
(* What must go on, for TLC: devices that come back and go out again, the  *)
(* sweeps for breached SLAs, and the connections of the pool.  A behaviour *)
(* looks at one of them, so that their states add up and do not multiply.  *)
(***************************************************************************)
EXTENDS MCWarehouse, SlaNotifier, ConnectionPool

CONSTANT Parts          \* what a run looks at

VARIABLE focus          \* what the behaviour looks at

MCInit == /\ focus \in Parts
          /\ Init
          /\ SlaInit
          /\ PoolInit
          /\ focus # "pool" => poolSize = 1

MCNext ==
    \/ focus = "returns" /\ ReturnsNext /\ UNCHANGED <<focus, slaVars, poolVars>>
    \/ focus = "sla" /\ SlaNext /\ UNCHANGED <<focus, vars, poolVars>>
    \/ focus = "pool" /\ PoolNext /\ UNCHANGED <<focus, vars, slaVars>>

\* A failed redeployment is only logged: devices are looked at without failures.
NoneFails == failures = 0

MCSpec == /\ MCInit
          /\ [][MCNext /\ NoneFails']_<<focus, vars, slaVars, poolVars>>
          /\ Goes
          /\ SlaFairness
          /\ PoolFairness
===============================================================================
