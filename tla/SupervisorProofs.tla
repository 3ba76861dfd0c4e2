-------------------------- MODULE SupervisorProofs ---------------------------
(***************************************************************************)
(* Theorems about Supervisor, for every restart budget and every number of  *)
(* callers: one live host, bounded and justified launches, truthful         *)
(* refusals, and that callers see the service HostService describes.        *)
(***************************************************************************)
EXTENDS Supervisor, TLAPS

(* From the reap until the next host is in service, the one it replaces is   *)
(* dead, and the monitor knows how it exited.                                *)
Relaunching == {"backoff", "handshaking", "launched", "failed"}
CurrentReaped ==
  /\ monitor \notin {"watching", "ended"} => conn[current] = "Dead"
  /\ monitor \in {"deciding"} \cup Relaunching =>
       proc[current] \in ExitClass /\ proc[current] = exit
  /\ monitor \in Relaunching => durable[current] /\ exit = "Crash"

(* Every live host is in service or being launched.                          *)
NoOrphan ==
  \A g \in Gens : Live(g) =>
    \/ g = current
    \/ monitor \in {"handshaking", "launched"} /\ g = launched

(* Every launch is charged to the budget, save one that is under way or was  *)
(* aborted.                                                                  *)
LaunchesCharged ==
  /\ monitor \in {"watching", "reaping", "deciding", "backoff"} => launched <= restarts + 1
  /\ launched <= restarts + 2
  /\ launched <= MaxRestarts + 1
  /\ monitor \in Relaunching => restarts < MaxRestarts

NobodyRuns == \A g \in Gens : ~Live(g)

ExhaustedIsFinal == status = "Exhausted" => monitor = "ended" /\ NobodyRuns

SupervisorInv ==
  /\ TypeOK
  /\ CurrentReaped
  /\ NoOrphan
  /\ LaunchesCharged
  /\ ExhaustedIsFinal
  /\ RefusalIsTruthful

-----------------------------------------------------------------------------
(* A supervisor that has just launched its first host satisfies the          *)
(* invariant.                                                                *)
LEMMA InitSupervisor == Init => SupervisorInv
<1> SUFFICES ASSUME Init PROVE SupervisorInv
  OBVIOUS
<1> USE SupervisorAssumption DEF Init, Gens, Running, ExitClass, Relaunching
<1>1. TypeOK
  <2>1. PICK d \in BOOLEAN : durable = [g \in Gens |-> IF g = 1 THEN d ELSE FALSE]
    OBVIOUS
  <2>2. durable \in [Gens -> BOOLEAN]
    BY <2>1
  <2>3. proc \in [Gens -> {"none"} \cup Running \cup ExitClass] /\ conn \in [Gens -> {"Alive", "Dead"}]
    OBVIOUS
  <2>4. launched \in Gens /\ current \in 1..launched /\ restarts \in 0..MaxRestarts
    OBVIOUS
  <2>5. call \in [Clients -> {"idle", "polling", "served", "exhausted", "refused", "timeout"}]
    OBVIOUS
  <2> QED
    BY <2>2, <2>3, <2>4, <2>5 DEF TypeOK
<1>2. CurrentReaped /\ NoOrphan /\ LaunchesCharged /\ ExhaustedIsFinal
  BY DEF CurrentReaped, NoOrphan, LaunchesCharged, ExhaustedIsFinal, Live
<1>3. RefusalIsTruthful
  BY DEF RefusalIsTruthful
<1> QED
  BY <1>1, <1>2, <1>3 DEF SupervisorInv

(* A host that closes its stdout stays as alive as it was.                   *)
LEMMA HostClosesKeeps ==
  ASSUME SupervisorInv, NEW g \in Gens, HostCloses(g)
  PROVE  SupervisorInv'
<1> USE SupervisorAssumption DEF SupervisorInv, HostCloses, Gens, Running, ExitClass, Relaunching,
        hostVars, monitorVars, innerVars, Live
<1>1. TypeOK'
  BY DEF TypeOK
<1>2. CurrentReaped'
  BY DEF TypeOK, CurrentReaped
<1>3. NoOrphan'
  BY DEF TypeOK, CurrentReaped, NoOrphan, Live
<1>4. ExhaustedIsFinal'
  BY DEF TypeOK, CurrentReaped, NoOrphan, ExhaustedIsFinal, NobodyRuns, Live
<1>5. RefusalIsTruthful'
  BY DEF TypeOK, CurrentReaped, NoOrphan, ExhaustedIsFinal, NobodyRuns, RefusalIsTruthful, Live
<1>6. LaunchesCharged'
  BY DEF LaunchesCharged, Live
<1> QED
  BY <1>1, <1>2, <1>3, <1>4, <1>5, <1>6

(* A host that exits is live no more.                                        *)
LEMMA HostExitsKeeps ==
  ASSUME SupervisorInv, NEW g \in Gens, HostExits(g)
  PROVE  SupervisorInv'
<1> USE SupervisorAssumption DEF SupervisorInv, HostExits, Gens, Running, ExitClass, Relaunching,
        hostVars, monitorVars, innerVars, Live
<1>1. TypeOK'
  BY DEF TypeOK
<1>2. CurrentReaped'
  BY DEF TypeOK, CurrentReaped
<1>3. NoOrphan'
  BY DEF TypeOK, CurrentReaped, NoOrphan, Live
<1>4. ExhaustedIsFinal'
  BY DEF TypeOK, CurrentReaped, NoOrphan, ExhaustedIsFinal, NobodyRuns, Live
<1>5. RefusalIsTruthful'
  BY DEF TypeOK, CurrentReaped, NoOrphan, ExhaustedIsFinal, NobodyRuns, RefusalIsTruthful, Live
<1>6. LaunchesCharged'
  BY DEF LaunchesCharged, Live
<1> QED
  BY <1>1, <1>2, <1>3, <1>4, <1>5, <1>6

(* A connection only ever dies.                                              *)
LEMMA ReaderEndsKeeps ==
  ASSUME SupervisorInv, NEW g \in Gens, ReaderEnds(g)
  PROVE  SupervisorInv'
<1> USE SupervisorAssumption DEF SupervisorInv, ReaderEnds, Gens, Running, ExitClass, Relaunching,
        hostVars, monitorVars, innerVars
<1>1. TypeOK'
  BY DEF TypeOK
<1>2. CurrentReaped'
  BY DEF TypeOK, CurrentReaped
<1>3. NoOrphan' /\ LaunchesCharged' /\ ExhaustedIsFinal' /\ RefusalIsTruthful'
  BY DEF NoOrphan, LaunchesCharged, ExhaustedIsFinal, RefusalIsTruthful, NobodyRuns, Live
<1> QED
  BY <1>1, <1>2, <1>3

(* The monitor wakes for a dead connection ...                               *)
LEMMA MonitorWakesKeeps ==
  ASSUME SupervisorInv, MonitorWakes
  PROVE  SupervisorInv'
<1> USE SupervisorAssumption DEF SupervisorInv, MonitorWakes, Gens, Running, ExitClass, Relaunching,
        hostVars, monitorVars, innerVars
<1>1. TypeOK'
  BY DEF TypeOK
<1>2. CurrentReaped'
  BY DEF TypeOK, CurrentReaped
<1>3. NoOrphan'
  BY DEF TypeOK, CurrentReaped, NoOrphan, Live
<1>4. LaunchesCharged'
  BY DEF TypeOK, CurrentReaped, LaunchesCharged
<1>5. ExhaustedIsFinal'
  BY DEF TypeOK, CurrentReaped, NoOrphan, ExhaustedIsFinal, NobodyRuns, Live
<1>6. RefusalIsTruthful'
  BY DEF TypeOK, CurrentReaped, NoOrphan, ExhaustedIsFinal, NobodyRuns, RefusalIsTruthful, Live
<1> QED
  BY <1>1, <1>2, <1>3, <1>4, <1>5, <1>6

(* ... kills a process that outlived it ...                                  *)
LEMMA KillWedgedKeeps ==
  ASSUME SupervisorInv, KillWedged
  PROVE  SupervisorInv'
<1> USE SupervisorAssumption DEF SupervisorInv, KillWedged, Gens, Running, ExitClass, Relaunching,
        hostVars, monitorVars, innerVars, Killed, Live
<1>1. TypeOK'
  BY DEF TypeOK
<1>2. CurrentReaped'
  BY DEF TypeOK, CurrentReaped
<1>3. NoOrphan'
  BY DEF TypeOK, CurrentReaped, NoOrphan, Live
<1>4. ExhaustedIsFinal'
  BY DEF TypeOK, CurrentReaped, NoOrphan, ExhaustedIsFinal, NobodyRuns, Live
<1>5. RefusalIsTruthful'
  BY DEF TypeOK, CurrentReaped, NoOrphan, ExhaustedIsFinal, NobodyRuns, RefusalIsTruthful, Live
<1>6. LaunchesCharged'
  BY DEF LaunchesCharged, Live
<1> QED
  BY <1>1, <1>2, <1>3, <1>4, <1>5, <1>6

(* ... and learns how it exited.                                             *)
LEMMA ReapKeeps ==
  ASSUME SupervisorInv, Reap
  PROVE  SupervisorInv'
<1> USE SupervisorAssumption DEF SupervisorInv, Reap, Gens, Running, ExitClass, Relaunching,
        hostVars, monitorVars, innerVars
<1>1. TypeOK'
  BY DEF TypeOK
<1>2. CurrentReaped'
  BY DEF TypeOK, CurrentReaped
<1>3. NoOrphan'
  BY DEF TypeOK, CurrentReaped, NoOrphan, Live
<1>4. LaunchesCharged'
  BY DEF TypeOK, CurrentReaped, LaunchesCharged
<1>5. ExhaustedIsFinal'
  BY DEF TypeOK, CurrentReaped, NoOrphan, ExhaustedIsFinal, NobodyRuns, Live
<1>6. RefusalIsTruthful'
  BY DEF TypeOK, CurrentReaped, NoOrphan, ExhaustedIsFinal, NobodyRuns, RefusalIsTruthful, Live
<1> QED
  BY <1>1, <1>2, <1>3, <1>4, <1>5, <1>6

(* It relaunches a durable host that died restartably, within its budget ... *)
LEMMA RestartKeeps ==
  ASSUME SupervisorInv, Restart
  PROVE  SupervisorInv'
<1> USE SupervisorAssumption DEF SupervisorInv, Restart, Gens, Running, ExitClass, Relaunching,
        hostVars, monitorVars, innerVars, MayRestart, WithinBudget
<1>1. TypeOK'
  BY DEF TypeOK
<1>2. CurrentReaped'
  BY DEF TypeOK, CurrentReaped
<1>3. NoOrphan'
  BY DEF TypeOK, CurrentReaped, NoOrphan, Live
<1>4. LaunchesCharged'
  BY DEF TypeOK, CurrentReaped, LaunchesCharged
<1>5. ExhaustedIsFinal'
  BY DEF TypeOK, CurrentReaped, NoOrphan, ExhaustedIsFinal, NobodyRuns, Live
<1>6. RefusalIsTruthful'
  BY DEF TypeOK, CurrentReaped, NoOrphan, ExhaustedIsFinal, NobodyRuns, RefusalIsTruthful, Live
<1> QED
  BY <1>1, <1>2, <1>3, <1>4, <1>5, <1>6

(* ... and gives up otherwise, with no host alive.                           *)
LEMMA GiveUpKeeps ==
  ASSUME SupervisorInv, GiveUp
  PROVE  SupervisorInv'
<1> USE SupervisorAssumption DEF SupervisorInv, GiveUp, Gens, Running, ExitClass, Relaunching,
        hostVars, monitorVars, innerVars, MayRestart, WithinBudget
<1>1. TypeOK'
  BY DEF TypeOK
<1>2. CurrentReaped'
  BY DEF TypeOK, CurrentReaped
<1>3. NoOrphan'
  BY DEF TypeOK, CurrentReaped, NoOrphan, Live
<1>4. LaunchesCharged'
  BY DEF TypeOK, CurrentReaped, LaunchesCharged
<1>5. ExhaustedIsFinal'
  BY DEF TypeOK, CurrentReaped, NoOrphan, ExhaustedIsFinal, NobodyRuns, Live
<1>6. RefusalIsTruthful'
  BY DEF TypeOK, CurrentReaped, NoOrphan, ExhaustedIsFinal, NobodyRuns, RefusalIsTruthful, Live
<1> QED
  BY <1>1, <1>2, <1>3, <1>4, <1>5, <1>6

(* The host it spawns is the only live one.                                  *)
LEMMA SpawnKeeps ==
  ASSUME SupervisorInv, Spawn
  PROVE  SupervisorInv'
<1> USE SupervisorAssumption DEF SupervisorInv, Spawn, Gens, Running, ExitClass, Relaunching,
        hostVars, monitorVars, innerVars
<1>1. TypeOK'
  BY DEF TypeOK, LaunchesCharged
<1>2. CurrentReaped'
  BY DEF TypeOK, CurrentReaped
<1>3. NoOrphan'
  BY DEF TypeOK, CurrentReaped, NoOrphan, Live
<1>4. LaunchesCharged'
  BY DEF TypeOK, CurrentReaped, LaunchesCharged
<1>5. ExhaustedIsFinal'
  BY DEF TypeOK, CurrentReaped, NoOrphan, ExhaustedIsFinal, NobodyRuns, Live
<1>6. RefusalIsTruthful'
  BY DEF TypeOK, CurrentReaped, NoOrphan, ExhaustedIsFinal, NobodyRuns, RefusalIsTruthful, Live
<1> QED
  BY <1>1, <1>2, <1>3, <1>4, <1>5, <1>6

(* A handshake tells the durability of the new host, not of the old one.     *)
LEMMA HandshakeOkKeeps ==
  ASSUME SupervisorInv, HandshakeOk
  PROVE  SupervisorInv'
<1> USE SupervisorAssumption DEF SupervisorInv, HandshakeOk, Gens, Running, ExitClass, Relaunching,
        hostVars, monitorVars, innerVars
<1>1. TypeOK'
  BY DEF TypeOK
<1>2. CurrentReaped'
  <2>1. current # launched
    BY DEF CurrentReaped, Live
  <2>2. durable'[current] = durable[current]
    BY <2>1 DEF TypeOK
  <2> QED
    BY <2>2 DEF CurrentReaped
<1>3. NoOrphan'
  BY DEF TypeOK, CurrentReaped, NoOrphan, Live
<1>4. LaunchesCharged'
  BY DEF TypeOK, CurrentReaped, LaunchesCharged
<1>5. ExhaustedIsFinal'
  BY DEF TypeOK, CurrentReaped, NoOrphan, ExhaustedIsFinal, NobodyRuns, Live
<1>6. RefusalIsTruthful'
  BY DEF TypeOK, CurrentReaped, NoOrphan, ExhaustedIsFinal, NobodyRuns, RefusalIsTruthful, Live
<1> QED
  BY <1>1, <1>2, <1>3, <1>4, <1>5, <1>6

(* A failed launch leaves no process behind ...                              *)
LEMMA HandshakeFailsKeeps ==
  ASSUME SupervisorInv, HandshakeFails
  PROVE  SupervisorInv'
<1> USE SupervisorAssumption DEF SupervisorInv, HandshakeFails, Gens, Running, ExitClass, Relaunching,
        hostVars, monitorVars, innerVars, Killed, Live
<1>1. TypeOK'
  BY DEF TypeOK
<1>2. CurrentReaped'
  BY DEF TypeOK, CurrentReaped
<1>3. NoOrphan'
  BY DEF TypeOK, CurrentReaped, NoOrphan, Live
<1>4. LaunchesCharged'
  BY DEF TypeOK, CurrentReaped, LaunchesCharged
<1>5. ExhaustedIsFinal'
  BY DEF TypeOK, CurrentReaped, NoOrphan, ExhaustedIsFinal, NobodyRuns, Live
<1>6. RefusalIsTruthful'
  BY DEF TypeOK, CurrentReaped, NoOrphan, ExhaustedIsFinal, NobodyRuns, RefusalIsTruthful, Live
<1> QED
  BY <1>1, <1>2, <1>3, <1>4, <1>5, <1>6

(* ... and a successful one is charged when it enters service.               *)
LEMMA InstallKeeps ==
  ASSUME SupervisorInv, Install
  PROVE  SupervisorInv'
<1> USE SupervisorAssumption DEF SupervisorInv, Install, Gens, Running, ExitClass, Relaunching,
        hostVars, monitorVars, innerVars
<1>1. TypeOK'
  BY DEF TypeOK, LaunchesCharged
<1>2. CurrentReaped'
  BY DEF TypeOK, CurrentReaped
<1>3. NoOrphan'
  BY DEF TypeOK, CurrentReaped, NoOrphan, Live
<1>4. LaunchesCharged'
  BY DEF TypeOK, CurrentReaped, LaunchesCharged
<1>5. ExhaustedIsFinal'
  BY DEF TypeOK, CurrentReaped, NoOrphan, ExhaustedIsFinal, NobodyRuns, Live
<1>6. RefusalIsTruthful'
  BY DEF TypeOK, CurrentReaped, NoOrphan, ExhaustedIsFinal, NobodyRuns, RefusalIsTruthful, Live
<1> QED
  BY <1>1, <1>2, <1>3, <1>4, <1>5, <1>6

(* So is a failed one.                                                       *)
LEMMA LaunchFailedKeeps ==
  ASSUME SupervisorInv, LaunchFailed
  PROVE  SupervisorInv'
<1> USE SupervisorAssumption DEF SupervisorInv, LaunchFailed, Gens, Running, ExitClass, Relaunching,
        hostVars, monitorVars, innerVars
<1>1. TypeOK'
  BY DEF TypeOK, LaunchesCharged
<1>2. CurrentReaped'
  BY DEF TypeOK, CurrentReaped
<1>3. NoOrphan'
  BY DEF TypeOK, CurrentReaped, NoOrphan, Live
<1>4. LaunchesCharged'
  BY DEF TypeOK, CurrentReaped, LaunchesCharged
<1>5. ExhaustedIsFinal'
  BY DEF TypeOK, CurrentReaped, NoOrphan, ExhaustedIsFinal, NobodyRuns, Live
<1>6. RefusalIsTruthful'
  BY DEF TypeOK, CurrentReaped, NoOrphan, ExhaustedIsFinal, NobodyRuns, RefusalIsTruthful, Live
<1> QED
  BY <1>1, <1>2, <1>3, <1>4, <1>5, <1>6

(* An aborted monitor takes the child it was launching with it.              *)
LEMMA CancelledKeeps ==
  ASSUME SupervisorInv, Cancelled
  PROVE  SupervisorInv'
<1> USE SupervisorAssumption DEF SupervisorInv, Cancelled, Gens, Running, ExitClass, Relaunching,
        hostVars, monitorVars, innerVars, Killed, Live
<1>1. TypeOK'
  BY DEF TypeOK
<1>2. CurrentReaped'
  BY DEF TypeOK, CurrentReaped
<1>3. NoOrphan'
  BY DEF TypeOK, CurrentReaped, NoOrphan, Live
<1>4. LaunchesCharged'
  BY DEF TypeOK, CurrentReaped, LaunchesCharged
<1>5. ExhaustedIsFinal'
  BY DEF TypeOK, CurrentReaped, NoOrphan, ExhaustedIsFinal, NobodyRuns, Live
<1>6. RefusalIsTruthful'
  BY DEF TypeOK, CurrentReaped, NoOrphan, ExhaustedIsFinal, NobodyRuns, RefusalIsTruthful, Live
<1> QED
  BY <1>1, <1>2, <1>3, <1>4, <1>5, <1>6

(* Aborting the monitor changes nothing else.                                *)
LEMMA AbortKeeps ==
  ASSUME SupervisorInv, Abort
  PROVE  SupervisorInv'
<1> USE SupervisorAssumption DEF SupervisorInv, Abort, Gens, Running, ExitClass, Relaunching,
        hostVars, monitorVars, innerVars
<1>1. TypeOK'
  BY DEF TypeOK
<1>2. CurrentReaped' /\ NoOrphan' /\ LaunchesCharged' /\ ExhaustedIsFinal' /\ RefusalIsTruthful'
  BY DEF CurrentReaped, NoOrphan, LaunchesCharged, ExhaustedIsFinal, RefusalIsTruthful, NobodyRuns, Live
<1> QED
  BY <1>1, <1>2

(* Shutdown publishes itself ...                                             *)
LEMMA SendEofKeeps ==
  ASSUME SupervisorInv, SendEof
  PROVE  SupervisorInv'
<1> USE SupervisorAssumption DEF SupervisorInv, SendEof, Gens, Running, ExitClass, Relaunching,
        hostVars, monitorVars, innerVars
<1>1. TypeOK'
  BY DEF TypeOK
<1>2. ExhaustedIsFinal'
  BY DEF TypeOK, CurrentReaped, NoOrphan, ExhaustedIsFinal, NobodyRuns, Live
<1>3. CurrentReaped' /\ NoOrphan' /\ LaunchesCharged' /\ RefusalIsTruthful'
  BY DEF CurrentReaped, NoOrphan, LaunchesCharged, RefusalIsTruthful, Live
<1> QED
  BY <1>1, <1>2, <1>3

(* ... kills the host in service if it must ...                              *)
LEMMA KillAtShutdownKeeps ==
  ASSUME SupervisorInv, KillAtShutdown
  PROVE  SupervisorInv'
<1> USE SupervisorAssumption DEF SupervisorInv, KillAtShutdown, Gens, Running, ExitClass, Relaunching,
        hostVars, monitorVars, innerVars, Killed, GraceOver, Live
<1>1. TypeOK'
  BY DEF TypeOK
<1>2. CurrentReaped'
  BY DEF TypeOK, CurrentReaped
<1>3. NoOrphan'
  BY DEF TypeOK, CurrentReaped, NoOrphan, Live
<1>4. ExhaustedIsFinal'
  BY DEF TypeOK, CurrentReaped, NoOrphan, ExhaustedIsFinal, NobodyRuns, Live
<1>5. RefusalIsTruthful'
  BY DEF TypeOK, CurrentReaped, NoOrphan, ExhaustedIsFinal, NobodyRuns, RefusalIsTruthful, Live
<1>6. LaunchesCharged'
  BY DEF LaunchesCharged, Live
<1> QED
  BY <1>1, <1>2, <1>3, <1>4, <1>5, <1>6

(* ... and completes.                                                        *)
LEMMA StoppedKeeps ==
  ASSUME SupervisorInv, Stopped
  PROVE  SupervisorInv'
<1> USE SupervisorAssumption DEF SupervisorInv, Stopped, Gens, Running, ExitClass, Relaunching,
        hostVars, monitorVars, innerVars
<1>1. TypeOK'
  BY DEF TypeOK
<1>2. CurrentReaped' /\ NoOrphan' /\ LaunchesCharged' /\ ExhaustedIsFinal' /\ RefusalIsTruthful'
  BY DEF CurrentReaped, NoOrphan, LaunchesCharged, ExhaustedIsFinal, RefusalIsTruthful, NobodyRuns, Live
<1> QED
  BY <1>1, <1>2

(* A handler that starts to poll has been told nothing yet.                  *)
LEMMA AskKeeps ==
  ASSUME SupervisorInv, NEW c \in Clients, Ask(c)
  PROVE  SupervisorInv'
<1> USE SupervisorAssumption DEF SupervisorInv, Ask, Gens, Running, ExitClass, Relaunching,
        hostVars, monitorVars, innerVars
<1>1. TypeOK'
  BY DEF TypeOK
<1>2. RefusalIsTruthful'
  BY DEF TypeOK, CurrentReaped, NoOrphan, ExhaustedIsFinal, NobodyRuns, RefusalIsTruthful, Live
<1>3. CurrentReaped' /\ NoOrphan' /\ LaunchesCharged' /\ ExhaustedIsFinal'
  BY DEF CurrentReaped, NoOrphan, LaunchesCharged, ExhaustedIsFinal, NobodyRuns, Live
<1> QED
  BY <1>1, <1>2, <1>3

(* It is told "exhausted" only when the status says so ...                   *)
LEMMA ToldKeeps ==
  ASSUME SupervisorInv, NEW c \in Clients, Told(c)
  PROVE  SupervisorInv'
<1> USE SupervisorAssumption DEF SupervisorInv, Told, Gens, Running, ExitClass, Relaunching,
        hostVars, monitorVars, innerVars, Verdict, Live
<1>1. TypeOK'
  BY DEF TypeOK
<1>2. RefusalIsTruthful'
  BY DEF TypeOK, CurrentReaped, NoOrphan, ExhaustedIsFinal, NobodyRuns, RefusalIsTruthful, Live
<1>3. CurrentReaped' /\ NoOrphan' /\ LaunchesCharged' /\ ExhaustedIsFinal'
  BY DEF CurrentReaped, NoOrphan, LaunchesCharged, ExhaustedIsFinal, NobodyRuns, Live
<1> QED
  BY <1>1, <1>2, <1>3

(* ... and not because it waited too long.                                   *)
LEMMA DeadlinePassedKeeps ==
  ASSUME SupervisorInv, NEW c \in Clients, DeadlinePassed(c)
  PROVE  SupervisorInv'
<1> USE SupervisorAssumption DEF SupervisorInv, DeadlinePassed, Gens, Running, ExitClass, Relaunching,
        hostVars, monitorVars, innerVars
<1>1. TypeOK'
  BY DEF TypeOK
<1>2. RefusalIsTruthful'
  BY DEF TypeOK, CurrentReaped, NoOrphan, ExhaustedIsFinal, NobodyRuns, RefusalIsTruthful, Live
<1>3. CurrentReaped' /\ NoOrphan' /\ LaunchesCharged' /\ ExhaustedIsFinal'
  BY DEF CurrentReaped, NoOrphan, LaunchesCharged, ExhaustedIsFinal, NobodyRuns, Live
<1> QED
  BY <1>1, <1>2, <1>3

(* The invariant is inductive.                                               *)
LEMMA NextKeeps ==
  ASSUME SupervisorInv, [Next]_vars
  PROVE  SupervisorInv'
<1>1. CASE HostStep
  BY <1>1, HostClosesKeeps, HostExitsKeeps, ReaderEndsKeeps DEF HostStep
<1>2. CASE MonitorStep
  BY <1>2, MonitorWakesKeeps, KillWedgedKeeps, ReapKeeps, RestartKeeps, GiveUpKeeps,
     SpawnKeeps, HandshakeOkKeeps, HandshakeFailsKeeps, InstallKeeps,
     LaunchFailedKeeps, CancelledKeeps DEF MonitorStep
<1>3. CASE ShutdownStep
  BY <1>3, AbortKeeps, SendEofKeeps, KillAtShutdownKeeps, StoppedKeeps DEF ShutdownStep
<1>4. CASE ReadyStep
  BY <1>4, AskKeeps, ToldKeeps, DeadlinePassedKeeps DEF ReadyStep
<1>5. CASE UNCHANGED vars
  BY <1>5 DEF SupervisorInv, TypeOK, CurrentReaped, NoOrphan, LaunchesCharged,
     ExhaustedIsFinal, NobodyRuns, RefusalIsTruthful, Live, vars, hostVars,
     monitorVars, innerVars
<1> QED
  BY <1>1, <1>2, <1>3, <1>4, <1>5 DEF Next

(* The inductive invariant holds of every supervisor.                        *)
THEOREM SupervisorInvariant == SafeSpec => []SupervisorInv
<1>1. SupervisorInv /\ [Next]_vars => SupervisorInv'
  BY NextKeeps
<1> QED
  BY InitSupervisor, <1>1, PTL DEF SafeSpec

(* Every variable keeps its type; in particular restarts_used never exceeds  *)
(* MAX_RESTARTS.                                                             *)
THEOREM TypeCorrect == SafeSpec => []TypeOK
<1>1. SupervisorInv => TypeOK
  BY DEF SupervisorInv
<1> QED
  BY SupervisorInvariant, <1>1, PTL

(* No two hosts run at once, whatever the monitor and a shutdown interleave. *)
THEOREM AtMostOneHost == SafeSpec => []OneLiveHost
<1>1. SupervisorInv => OneLiveHost
  <2> SUFFICES ASSUME SupervisorInv, NEW g \in Gens, NEW h \in Gens, Live(g), Live(h)
               PROVE  g = h
    BY DEF OneLiveHost
  <2>1. CASE monitor \in {"handshaking", "launched"}
    <3>1. ~Live(current)
      BY <2>1 DEF SupervisorInv, CurrentReaped, Relaunching, Live, Running, ExitClass
    <3> QED
      BY <3>1 DEF SupervisorInv, NoOrphan
  <2>2. CASE monitor \notin {"handshaking", "launched"}
    BY <2>2 DEF SupervisorInv, NoOrphan
  <2> QED
    BY <2>1, <2>2
<1> QED
  BY SupervisorInvariant, <1>1, PTL

(* The initial host and at most MAX_RESTARTS more are ever spawned.          *)
THEOREM BoundedLaunches == SafeSpec => []LaunchesBounded
<1>1. SupervisorInv => LaunchesBounded
  BY DEF SupervisorInv, LaunchesCharged, LaunchesBounded
<1> QED
  BY SupervisorInvariant, <1>1, PTL

(* A caller that `ready` refused for good missed nothing.                    *)
THEOREM TruthfulRefusals == SafeSpec => []RefusalIsTruthful
<1>1. SupervisorInv => RefusalIsTruthful
  BY DEF SupervisorInv
<1> QED
  BY SupervisorInvariant, <1>1, PTL

(* A host is spawned only to replace a durable one that died restartably.    *)
THEOREM JustifiedRestarts == SafeSpec => RestartsJustified
<1> DEFINE Justified == launched' # launched => durable[current] /\ proc[current] = "Crash"
<1>1. SupervisorInv /\ [Next]_vars => [Justified]_vars
  <2> SUFFICES ASSUME SupervisorInv, Next, launched' # launched
               PROVE  durable[current] /\ proc[current] = "Crash"
    OBVIOUS
  <2>1. Spawn
    <3>1. CASE HostStep
      BY <3>1 DEF HostStep, HostCloses, HostExits, ReaderEnds
    <3>2. CASE MonitorStep
      BY <3>2 DEF MonitorStep, MonitorWakes, KillWedged, Reap, Restart, GiveUp,
         HandshakeOk, HandshakeFails, Install, LaunchFailed, Cancelled, hostVars
    <3>3. CASE ShutdownStep
      BY <3>3 DEF ShutdownStep, Abort, SendEof, KillAtShutdown, Stopped, hostVars
    <3>4. CASE ReadyStep
      BY <3>4 DEF ReadyStep, Ask, Told, DeadlinePassed, hostVars
    <3> QED
      BY <3>1, <3>2, <3>3, <3>4 DEF Next
  <2> QED
    BY <2>1 DEF Spawn, SupervisorInv, CurrentReaped, Relaunching
<1> QED
  BY SupervisorInvariant, <1>1, PTL DEF SafeSpec, RestartsJustified

-----------------------------------------------------------------------------
(* The phase, by the status and the connection in service.                   *)
PhaseByStatus ==
  /\ status = "Exhausted" => Phase = "failed"
  /\ status = "Shutdown" => Phase = "stopped"
  /\ status = "Restarting" => Phase = "down"
  /\ status = "Serving" /\ conn[current] = "Dead" => Phase = "down"
  /\ status = "Serving" /\ conn[current] = "Alive" => Phase = "serving"

(* The phase depends on nothing else.                                        *)
LEMMA PhaseIsByStatus ==
  ASSUME TypeOK
  PROVE  PhaseByStatus
BY DEF TypeOK, Phase, Verdict, PhaseByStatus

(* Every step of the supervisor is a step of the service, or changes nothing *)
(* that a caller of `ready` can see.                                         *)
LEMMA StepService ==
  ASSUME SupervisorInv, SupervisorInv', [Next]_vars
  PROVE  [Service!Next]_(Service!serviceVars)
<1> DEFINE Unseen == UNCHANGED <<Phase, restarts>>
<1>1. PhaseByStatus
  BY PhaseIsByStatus DEF SupervisorInv
<1>2. PhaseByStatus'
  BY DEF SupervisorInv, TypeOK, Phase, Verdict, PhaseByStatus
<1>3. /\ status \in {"Serving", "Restarting", "Exhausted", "Shutdown"}
      /\ conn \in [Gens -> {"Alive", "Dead"}] /\ current \in Gens
      /\ restarts \in Nat /\ MaxRestarts \in Nat
  BY SupervisorAssumption DEF SupervisorInv, TypeOK, Gens
<1>4. ASSUME UNCHANGED <<status, conn, current, restarts>>
      PROVE  Unseen
  BY <1>4 DEF Phase, Verdict
<1>5. ASSUME Unseen
      PROVE  [Service!Next]_(Service!serviceVars)
  BY <1>5 DEF Service!serviceVars
<1>6. CASE HostStep
  <2>1. PICK g \in Gens : HostCloses(g) \/ HostExits(g) \/ ReaderEnds(g)
    BY <1>6 DEF HostStep
  <2>2. CASE HostCloses(g) \/ HostExits(g)
    BY <1>4, <1>5, <2>2 DEF HostCloses, HostExits, innerVars
  <2>3. CASE ReaderEnds(g) /\ status = "Serving" /\ g = current
    <3>1. Phase = "serving" /\ Phase' = "down" /\ UNCHANGED restarts
      BY <1>1, <1>2, <1>3, <2>3 DEF ReaderEnds, PhaseByStatus, innerVars
    <3> QED
      BY <3>1 DEF Service!Next, Service!Fail
  <2>4. CASE ReaderEnds(g) /\ ~(status = "Serving" /\ g = current)
    <3>1. UNCHANGED <<status, current, restarts>> /\ conn' = [conn EXCEPT ![g] = "Dead"]
      BY <2>4 DEF ReaderEnds, innerVars
    <3>2. CASE status = "Serving"
      BY <1>3, <1>4, <1>5, <2>4, <3>1, <3>2 DEF Phase, Verdict
    <3>3. CASE status # "Serving"
      BY <1>1, <1>2, <1>3, <1>5, <3>1, <3>3 DEF PhaseByStatus
    <3> QED
      BY <3>2, <3>3
  <2> QED
    BY <2>1, <2>2, <2>3, <2>4
<1>7. CASE MonitorStep
  <2>1. CASE \/ MonitorWakes \/ KillWedged \/ Reap \/ Spawn \/ HandshakeOk
             \/ HandshakeFails \/ Cancelled
    BY <1>4, <1>5, <2>1 DEF MonitorWakes, KillWedged, Reap, Spawn, HandshakeOk,
       HandshakeFails, Cancelled, innerVars, hostVars
  <2>2. ASSUME monitor \in {"deciding"} \cup Relaunching
        PROVE  conn[current] = "Dead" /\ status # "Exhausted"
    BY <2>2 DEF SupervisorInv, CurrentReaped, ExhaustedIsFinal, Relaunching
  <2>3. ASSUME monitor \in {"deciding"} \cup Relaunching
        PROVE  Phase \in {"down", "stopped"}
    BY <1>1, <1>3, <2>2, <2>3 DEF PhaseByStatus
  <2>4. CASE Restart
    <3>1. Phase' = "down" /\ UNCHANGED restarts
      BY <1>2, <2>4 DEF Restart, PhaseByStatus
    <3>2. Phase \in {"down", "stopped"}
      BY <2>3, <2>4 DEF Restart
    <3> QED
      BY <1>5, <3>1, <3>2 DEF Service!Next, Service!Overtaken, Service!Phases
  <2>5. CASE GiveUp
    <3>1. Phase' = "failed" /\ UNCHANGED restarts
      BY <1>2, <2>5 DEF GiveUp, PhaseByStatus
    <3>2. Phase \in {"down", "stopped"}
      BY <2>3, <2>5 DEF GiveUp
    <3> QED
      BY <3>1, <3>2 DEF Service!Next, Service!GiveUp, Service!Overtaken, Service!Phases
  <2>6. CASE Install
    <3>1. Phase' \in {"serving", "down"}
      BY <1>2, <2>6 DEF Install, PhaseByStatus, SupervisorInv, TypeOK, hostVars, Gens
    <3>2. Phase \in {"down", "stopped"} /\ restarts < MaxRestarts /\ restarts' = restarts + 1
      BY <2>3, <2>6 DEF Install, Relaunching, SupervisorInv, LaunchesCharged
    <3> QED
      BY <3>1, <3>2 DEF Service!Next, Service!Recover, Service!Waste, Service!Overtaken,
         Service!Charge, Service!Phases
  <2>7. CASE LaunchFailed
    <3>1. Phase \in {"down", "stopped"} /\ restarts < MaxRestarts /\ restarts' = restarts + 1
      BY <2>3, <2>7 DEF LaunchFailed, Relaunching, SupervisorInv, LaunchesCharged
    <3>2. Phase' = "failed" \/ Phase' = Phase
      <4>1. CASE status' = "Exhausted"
        BY <1>2, <4>1 DEF PhaseByStatus
      <4>2. CASE UNCHANGED status
        BY <2>7, <4>2 DEF LaunchFailed, Phase, Verdict, hostVars
      <4> QED
        BY <2>7, <4>1, <4>2 DEF LaunchFailed
    <3> QED
      BY <3>1, <3>2 DEF Service!Next, Service!Waste, Service!Overtaken, Service!Charge,
         Service!Phases
  <2> QED
    BY <1>7, <2>1, <2>4, <2>5, <2>6, <2>7 DEF MonitorStep
<1>8. CASE ShutdownStep
  <2>1. CASE Abort \/ KillAtShutdown \/ Stopped
    BY <1>4, <1>5, <2>1 DEF Abort, KillAtShutdown, Stopped, innerVars, hostVars
  <2>2. CASE SendEof
    <3>1. Phase' = "stopped" /\ UNCHANGED restarts
      BY <1>2, <2>2 DEF SendEof, PhaseByStatus
    <3> QED
      BY <1>5, <3>1 DEF Service!Next, Service!Stop
  <2> QED
    BY <1>8, <2>1, <2>2 DEF ShutdownStep
<1>9. CASE ReadyStep
  BY <1>4, <1>5, <1>9 DEF ReadyStep, Ask, Told, DeadlinePassed, innerVars, hostVars
<1>10. CASE UNCHANGED vars
  BY <1>4, <1>5, <1>10 DEF vars, innerVars, hostVars
<1> QED
  BY <1>6, <1>7, <1>8, <1>9, <1>10 DEF Next

(* The supervisor implements the service its callers rely on: one that fails *)
(* for good only after MAX_RESTARTS recoveries or an unrecoverable exit.     *)
THEOREM SupervisorImplementsService == SafeSpec => ImplementsService
<1>1. Init => Service!Init
  <2> SUFFICES ASSUME Init PROVE Service!Init
    OBVIOUS
  <2>1. Verdict = "served" /\ restarts = 0
    BY SupervisorAssumption DEF Init, Verdict, Gens
  <2> QED
    BY <2>1 DEF Service!Init, Phase
<1>2. SupervisorInv /\ SupervisorInv' /\ [Next]_vars => [Service!Next]_(Service!serviceVars)
  BY StepService
<1> QED
  BY SupervisorInvariant, <1>1, <1>2, PTL DEF SafeSpec, ImplementsService, Service!Spec
=============================================================================
