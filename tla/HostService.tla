----------------------------- MODULE HostService -----------------------------
(***************************************************************************)
(* What the supervisor promises its callers (src/src/msp/host.rs,           *)
(* `Supervisor::ready` and SupervisorStatus): one host that serves, is down *)
(* for a while, and recovers at most MaxRestarts times; a failure that is   *)
(* final; and a shutdown.  Nothing of processes, connections or tasks.      *)
(***************************************************************************)
EXTENDS Naturals

CONSTANT MaxRestarts

VARIABLES
  phase,  \* what a call to `ready` is told now: "down" means wait
  spent   \* restarts charged to the budget

serviceVars == <<phase, spent>>

Phases == {"serving", "down", "failed", "stopped"}

Init == phase = "serving" /\ spent = 0

Fail == phase = "serving" /\ phase' = "down" /\ UNCHANGED spent

Charge == spent < MaxRestarts /\ spent' = spent + 1

Recover == phase = "down" /\ phase' = "serving" /\ Charge

Waste == phase = "down" /\ phase' \in {"down", "failed"} /\ Charge

GiveUp == phase = "down" /\ phase' = "failed" /\ UNCHANGED spent

Stop == phase # "stopped" /\ phase' = "stopped" /\ UNCHANGED spent

(* A shutdown does not stop the step the monitor is in the middle of.        *)
Overtaken ==
  /\ phase = "stopped"
  /\ phase' \in Phases
  /\ UNCHANGED spent \/ Charge

Next == Fail \/ Recover \/ Waste \/ GiveUp \/ Stop \/ Overtaken

Spec == Init /\ [][Next]_serviceVars
=============================================================================
