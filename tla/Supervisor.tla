----------------------------- MODULE Supervisor ------------------------------
(***************************************************************************)
(* The supervisor of the `muse serve` process (src/src/msp/host.rs,         *)
(* struct Supervisor and monitor_loop; src/src/msp/spawn.rs, ChildHandle):  *)
(* a monitor task that reaps and relaunches dead hosts within a budget,     *)
(* request handlers that poll `ready`, and a shutdown that aborts the       *)
(* monitor.  They share one RwLock.                                         *)
(*                                                                         *)
(* Each launch gets a generation.  Host processes are external.             *)
(*                                                                         *)
(* Spared, AnyExit, NoBudget, Polite and EagerVerdict are mutants: faulty   *)
(* variants of the definition that follows each, which show that the        *)
(* properties tell the two apart.                                           *)
(***************************************************************************)
EXTENDS Naturals

CONSTANTS
  Clients,      \* request handlers, each calling `ready` once
  MaxRestarts   \* MAX_RESTARTS

ASSUME SupervisorAssumption == MaxRestarts \in Nat \ {0}

(* One generation more than the budget allows, so that an overrun shows.     *)
Gens == 1..(MaxRestarts + 2)

VARIABLES
  proc,      \* per generation: the host process, or how it exited
  conn,      \* per generation: HostState of its connection
  durable,   \* per generation: HandshakeInfo::restartable
  launched,  \* generations spawned so far
  monitor,   \* where the monitor task is suspended
  exit,      \* the exit class it reaped
  status,    \* SupervisorInner.status
  current,   \* SupervisorInner.conn and .child, by generation
  restarts,  \* SupervisorInner.restarts_used
  stop,      \* Supervisor::shutdown
  call       \* per client: its call of `ready`

hostVars    == <<proc, conn, durable, launched>>
monitorVars == <<monitor, exit>>
innerVars   == <<status, current, restarts>>
vars        == <<hostVars, monitorVars, innerVars, stop, call>>

(* "Crash" stands for every class `restartable` accepts, "Config" for the    *)
(* others.                                                                   *)
ExitClass == {"Crash", "Config"}
Running == {"up", "lingering"}
Live(g) == proc[g] \in Running

Init ==
  /\ proc = [g \in Gens |-> IF g = 1 THEN "up" ELSE "none"]
  /\ conn = [g \in Gens |-> "Alive"]
  /\ \E d \in BOOLEAN : durable = [g \in Gens |-> IF g = 1 THEN d ELSE FALSE]
  /\ launched = 1
  /\ monitor = "watching"
  /\ exit = "Crash"
  /\ status = "Serving"
  /\ current = 1
  /\ restarts = 0
  /\ stop = "running"
  /\ call = [c \in Clients |-> "idle"]

(* The RwLock is fair: a queued shutdown keeps new readers out while the     *)
(* monitor, reaping, holds its read guard.                                   *)
WriteFree == stop # "stopping" /\ monitor # "reaping"
ReadFree == stop # "stopping" /\ ~(stop = "locking" /\ monitor = "reaping")

Aborted == stop # "running"

-----------------------------------------------------------------------------
(* Host processes (external) and the reader of each connection.              *)

(* stdout closes while the process lives on.                                 *)
HostCloses(g) ==
  /\ proc[g] = "up"
  /\ proc' = [proc EXCEPT ![g] = "lingering"]
  /\ UNCHANGED <<conn, durable, launched, monitorVars, innerVars, stop, call>>

HostExits(g) ==
  /\ Live(g)
  /\ \E class \in ExitClass : proc' = [proc EXCEPT ![g] = class]
  /\ UNCHANGED <<conn, durable, launched, monitorVars, innerVars, stop, call>>

ReaderEnds(g) ==
  /\ conn[g] = "Alive"
  /\ proc[g] \in {"lingering"} \cup ExitClass
  /\ conn' = [conn EXCEPT ![g] = "Dead"]
  /\ UNCHANGED <<proc, durable, launched, monitorVars, innerVars, stop, call>>

(* SIGKILL, or the exit it comes too late for.                               *)
Spared(g) == proc
Killed(g) == IF Live(g) THEN [proc EXCEPT ![g] = "Crash"] ELSE proc

-----------------------------------------------------------------------------
(* The monitor.  An aborted task still finishes the poll it is in, so the    *)
(* steps that follow an await without suspending do not ask for ~Aborted.    *)

MonitorWakes ==
  /\ monitor = "watching"
  /\ ~Aborted /\ ReadFree
  /\ conn[current] = "Dead"
  /\ monitor' = "reaping"
  /\ UNCHANGED <<hostVars, exit, innerVars, stop, call>>

(* try_reap found nothing: the process outlived its stdout.                  *)
KillWedged ==
  /\ monitor = "reaping"
  /\ ~Aborted
  /\ Live(current)
  /\ proc' = Killed(current)
  /\ UNCHANGED <<conn, durable, launched, monitorVars, innerVars, stop, call>>

Reap ==
  /\ monitor = "reaping"
  /\ ~Aborted
  /\ proc[current] \in ExitClass
  /\ exit' = proc[current]
  /\ monitor' = "deciding"
  /\ UNCHANGED <<hostVars, innerVars, stop, call>>

(* ExitClass::restartable, and the durability the handshake reported.        *)
AnyExit == durable[current]
MayRestart == durable[current] /\ exit = "Crash"

NoBudget == TRUE
WithinBudget == restarts < MaxRestarts

Restart ==
  /\ monitor = "deciding"
  /\ WriteFree
  /\ MayRestart /\ WithinBudget
  /\ status' = "Restarting"
  /\ monitor' = "backoff"
  /\ UNCHANGED <<hostVars, exit, current, restarts, stop, call>>

GiveUp ==
  /\ monitor = "deciding"
  /\ WriteFree
  /\ ~(MayRestart /\ WithinBudget)
  /\ status' = "Exhausted"
  /\ monitor' = "ended"
  /\ UNCHANGED <<hostVars, exit, current, restarts, stop, call>>

(* launch: the process is spawned, or cannot be ...                          *)
Spawn ==
  /\ monitor = "backoff"
  /\ ~Aborted
  /\ \/ /\ launched' = launched + 1
        /\ proc' = [proc EXCEPT ![launched + 1] = "up"]
        /\ monitor' = "handshaking"
     \/ /\ UNCHANGED <<launched, proc>>
        /\ monitor' = "failed"
  /\ UNCHANGED <<conn, durable, exit, innerVars, stop, call>>

(* ... its handshake succeeds ...                                            *)
HandshakeOk ==
  /\ monitor = "handshaking"
  /\ ~Aborted
  /\ Live(launched)
  /\ \E d \in BOOLEAN : durable' = [durable EXCEPT ![launched] = d]
  /\ monitor' = "launched"
  /\ UNCHANGED <<proc, conn, launched, exit, innerVars, stop, call>>

(* ... or fails, for whatever reason, and the child is killed and reaped; its *)
(* exit class is discarded.                                                  *)
HandshakeFails ==
  /\ monitor = "handshaking"
  /\ ~Aborted
  /\ proc' = Killed(launched)
  /\ monitor' = "failed"
  /\ UNCHANGED <<conn, durable, launched, exit, innerVars, stop, call>>

Install ==
  /\ monitor = "launched"
  /\ WriteFree
  /\ current' = launched
  /\ status' = "Serving"
  /\ restarts' = restarts + 1
  /\ monitor' = "watching"
  /\ UNCHANGED <<hostVars, exit, stop, call>>

LaunchFailed ==
  /\ monitor = "failed"
  /\ WriteFree
  /\ restarts' = restarts + 1
  /\ IF restarts + 1 >= MaxRestarts
     THEN status' = "Exhausted" /\ monitor' = "ended"
     ELSE UNCHANGED status /\ monitor' = "watching"
  /\ UNCHANGED <<hostVars, exit, current, stop, call>>

(* The abort lands at an await: locals are dropped, and with them a child    *)
(* being launched (kill_on_drop).                                            *)
Cancelled ==
  /\ Aborted
  /\ monitor # "ended"
  /\ monitor' = "ended"
  /\ proc' = IF monitor \in {"handshaking", "launched"} THEN Killed(launched) ELSE proc
  /\ UNCHANGED <<conn, durable, launched, exit, innerVars, stop, call>>

-----------------------------------------------------------------------------
(* Supervisor::shutdown holds the write guard until the child is reaped.     *)

Abort ==
  /\ stop = "running"
  /\ stop' = "locking"
  /\ UNCHANGED <<hostVars, monitorVars, innerVars, call>>

SendEof ==
  /\ stop = "locking"
  /\ WriteFree
  /\ status' = "Shutdown"
  /\ stop' = "stopping"
  /\ UNCHANGED <<hostVars, monitorVars, current, restarts, call>>

(* SHUTDOWN_GRACE ran out.                                                   *)
Polite == FALSE
GraceOver == stop = "stopping" /\ Live(current)

KillAtShutdown ==
  /\ GraceOver
  /\ proc' = Killed(current)
  /\ UNCHANGED <<conn, durable, launched, monitorVars, innerVars, stop, call>>

Stopped ==
  /\ stop = "stopping"
  /\ proc[current] \in ExitClass
  /\ stop' = "done"
  /\ UNCHANGED <<hostVars, monitorVars, innerVars, call>>

-----------------------------------------------------------------------------
(* Supervisor::ready.                                                        *)

EagerVerdict ==
  CASE status = "Serving" /\ conn[current] = "Alive" -> "served"
    [] status = "Exhausted" \/ restarts = MaxRestarts -> "exhausted"
    [] status = "Shutdown" -> "refused"
    [] OTHER -> "wait"

Verdict ==
  CASE status = "Serving" /\ conn[current] = "Alive" -> "served"
    [] status = "Exhausted" -> "exhausted"
    [] status = "Shutdown" -> "refused"
    [] OTHER -> "wait"

Ask(c) ==
  /\ call[c] = "idle"
  /\ call' = [call EXCEPT ![c] = "polling"]
  /\ UNCHANGED <<hostVars, monitorVars, innerVars, stop>>

Told(c) ==
  /\ call[c] = "polling"
  /\ ReadFree
  /\ Verdict # "wait"
  /\ call' = [call EXCEPT ![c] = Verdict]
  /\ UNCHANGED <<hostVars, monitorVars, innerVars, stop>>

(* READY_DEADLINE is looked at only after a poll that yielded nothing.       *)
DeadlinePassed(c) ==
  /\ call[c] = "polling"
  /\ ReadFree
  /\ Verdict = "wait"
  /\ call' = [call EXCEPT ![c] = "timeout"]
  /\ UNCHANGED <<hostVars, monitorVars, innerVars, stop>>

-----------------------------------------------------------------------------
HostStep == \E g \in Gens : HostCloses(g) \/ HostExits(g) \/ ReaderEnds(g)

MonitorStep ==
  \/ MonitorWakes \/ KillWedged \/ Reap \/ Restart \/ GiveUp \/ Spawn
  \/ HandshakeOk \/ HandshakeFails \/ Install \/ LaunchFailed \/ Cancelled

ShutdownStep == Abort \/ SendEof \/ KillAtShutdown \/ Stopped

ReadyStep == \E c \in Clients : Ask(c) \/ Told(c) \/ DeadlinePassed(c)

Next == HostStep \/ MonitorStep \/ ShutdownStep \/ ReadyStep

SafeSpec == Init /\ [][Next]_vars

(* Tokio polls every ready task and fires every timer; a killed process is   *)
(* reaped; EOF on stdout is read.  Nobody has to call `ready` or `shutdown`, *)
(* and no host has to exit or to answer.                                     *)
Fairness ==
  /\ \A g \in Gens : WF_vars(ReaderEnds(g))
  /\ WF_vars(MonitorStep)
  /\ WF_vars(SendEof \/ KillAtShutdown \/ Stopped)
  /\ \A c \in Clients : WF_vars(Told(c) \/ DeadlinePassed(c))

Spec == SafeSpec /\ Fairness

-----------------------------------------------------------------------------
(* Properties.                                                               *)

TypeOK ==
  /\ proc \in [Gens -> {"none"} \cup Running \cup ExitClass]
  /\ conn \in [Gens -> {"Alive", "Dead"}]
  /\ durable \in [Gens -> BOOLEAN]
  /\ launched \in Gens
  /\ monitor \in {"watching", "reaping", "deciding", "backoff", "handshaking",
                  "launched", "failed", "ended"}
  /\ exit \in ExitClass
  /\ status \in {"Serving", "Restarting", "Exhausted", "Shutdown"}
  /\ current \in 1..launched
  /\ restarts \in 0..MaxRestarts
  /\ stop \in {"running", "locking", "stopping", "done"}
  /\ call \in [Clients -> {"idle", "polling", "served", "exhausted", "refused", "timeout"}]

(* Two hosts never run at once: a wedged one is killed before it is          *)
(* replaced, and a child whose launch fails or is aborted dies with it.      *)
OneLiveHost == \A g, h \in Gens : Live(g) /\ Live(h) => g = h

(* The initial host and at most MaxRestarts more: failed launches count.     *)
LaunchesBounded == launched <= MaxRestarts + 1

(* A handler that is told "exhausted" is told so for good: no host runs, and *)
(* the monitor is not about to launch one.                                   *)
RefusalIsTruthful ==
  \A c \in Clients : call[c] = "exhausted" =>
    /\ monitor = "ended"
    /\ \A g \in Gens : ~Live(g)

(* A host is only ever spawned after the one in service died restartably, on *)
(* a durable profile (spawn.rs: other exits "never self-heal").              *)
RestartsJustified ==
  [][launched' # launched => durable[current] /\ proc[current] = "Crash"]_vars

(* A dead connection does not stay in service: it is replaced, or callers    *)
(* are told that it will not be.                                             *)
DeathHandled ==
  conn[current] = "Dead" ~>
    conn[current] = "Alive" \/ status = "Exhausted" \/ Aborted

(* Every call of `ready` returns, also across a shutdown that holds the lock *)
(* for its whole grace period.                                               *)
ReadyReturns == \A c \in Clients : call[c] = "polling" ~> call[c] # "polling"

(* A shutdown completes whatever the monitor and the host are doing.         *)
ShutdownCompletes == stop = "locking" ~> stop = "done"

Responsive == DeathHandled /\ ReadyReturns /\ ShutdownCompletes

(* Callers see the service HostService describes.                            *)
Phase ==
  CASE Verdict = "served" -> "serving"
    [] Verdict = "exhausted" -> "failed"
    [] Verdict = "refused" -> "stopped"
    [] OTHER -> "down"
Service == INSTANCE HostService WITH phase <- Phase, spent <- restarts
ImplementsService == Service!Spec
=============================================================================
