---------------------------- MODULE MCSupervisor -----------------------------
(* Two handlers calling `ready` on a supervisor with a budget of two         *)
(* restarts: enough for a relaunch that works, one that fails and one that   *)
(* the budget refuses.                                                       *)
EXTENDS Supervisor

CONSTANTS r1, r2

MCClients == {r1, r2}
=============================================================================
