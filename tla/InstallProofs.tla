---------------------------- MODULE InstallProofs ----------------------------
(***************************************************************************)
(* Theorems about the two installers.  ServiceInstall: whatever child      *)
(* processes fail, time out or are killed, and whatever becomes of the     *)
(* service between commands, what serve reported of the machine is so and  *)
(* stays so.  SettingsEdit, as the instance Settings of MCInstall: what a  *)
(* command makes of an editor's settings file.                             *)
(***************************************************************************)
EXTENDS MCInstall, SequenceTheorems, TLAPS

(***************************************************************************)
(* The service installer.                                                  *)
(***************************************************************************)
Texts    == {"none", "torn"} \union Definitions
Machines == [disk : Texts, loaded : Texts, running : Texts,
             wanted : BOOLEAN, enabled : BOOLEAN, forward : BOOLEAN]

(* The steps a command goes through, by the backend that takes them.         *)
SystemdSteps  == {"reload", "enable", "restart", "enablenow", "active"}
LaunchdSteps  == {"bootout", "register", "bootstrap"}
SchtasksSteps == {"create", "change", "run"}
SharedSteps   == {"probe", "write", "health", "forward", "stop", "disable",
                  "unforward", "status"}

TypeOK ==
  /\ platform \in Platforms /\ foreign \in BOOLEAN
  /\ mach \in Machines
  /\ cmd \in [job : {"on", "off", "status"}, want : Definitions, tail : BOOLEAN,
              state : {"New", "Unchanged", "Updated"}, outdated : BOOLEAN]
  /\ at \in {"none"} \union SystemdSteps \union LaunchdSteps \union SchtasksSteps
              \union SharedSteps
  /\ said \in {"none", "on", "off", "error", "planned", "unsure", "healthy"}
  /\ count \in Nat /\ accidents \in Nat

(* A command takes the steps of its backend, and has not reported yet.       *)
Backend ==
  /\ at \in SystemdSteps => platform = "systemd"
  /\ at \in LaunchdSteps => platform = "launchd"
  /\ at \in SchtasksSteps => platform = "schtasks"
  /\ at \in {"probe", "write"} => platform # "schtasks"
  /\ at = "disable" => platform # "systemd"
  /\ at # "none" => said = "none"

(* What the steps up to the current one have established, and what a report  *)
(* of "on" keeps.                                                            *)
Reached(steps) == at \in steps \/ said = "on"
Current == mach.running \in {"none", cmd.want}
Installed ==
  /\ Reached((SystemdSteps \union LaunchdSteps \union SchtasksSteps
               \union {"health", "forward"}) \ {"create"}) => mach.disk = cmd.want
  /\ Reached({"enable", "enablenow", "restart", "change", "run", "health", "active",
              "forward"}) => mach.loaded = cmd.want
  /\ Reached({"restart", "bootstrap", "run", "health", "active", "forward"}) => mach.enabled
  /\ Reached({"health", "active", "forward"}) =>
       Current \/ platform = "schtasks" \/ cmd.outdated
  /\ said = "on" /\ cmd.tail => mach.forward

(* systemd, when no service older than the file was met: until the file is   *)
(* written no such service appears, and then the service is left alone only  *)
(* if it runs the definition written or does not run.                        *)
NotOutdated ==
  platform = "systemd" /\ ~cmd.outdated =>
    /\ at \in {"probe", "write"} => ~Outdated
    /\ at = "reload" /\ cmd.state = "Unchanged" => ~Outdated
    /\ at = "reload" /\ cmd.state = "New" =>
         mach.running = "none" /\ (mach.wanted => mach.loaded = "none")
    /\ at = "enablenow" => Current

(* serve --off: what its steps have established, and its report keeps.       *)
Stopped == mach.running = "none" /\ ~mach.wanted
Removed ==
  /\ at = "disable" => Stopped \/ platform = "schtasks"
  /\ at = "unforward" \/ said = "off" => ~mach.enabled /\ (Stopped \/ platform = "schtasks")
  /\ said = "off" /\ cmd.tail => ~mach.forward

InstallInv == TypeOK /\ Backend /\ Installed /\ NotOutdated /\ Removed

-----------------------------------------------------------------------------
(* A child reports success of work it has done, only.                        *)
LEMMA EndsTruthful == \A e \in Ends : e.good => e.did
<1> SUFFICES ASSUME NEW e \in Ends, ~e.did PROVE ~e.good
  OBVIOUS
<1>1. e # [did |-> TRUE, good |-> TRUE]
  OBVIOUS
<1>2. e \in [did : BOOLEAN, good : {FALSE}]
  BY <1>1 DEF Ends
<1>3. e.good = FALSE
  BY <1>2
<1> QED
  BY <1>3

(* What a child that counts does: its work is done when it goes on.          *)
LEMMA ChildEnds ==
  ASSUME NEW STATE here, NEW STATE after, NEW STATE step, Child(here, after, step)
  PROVE  /\ at = here /\ cmd' = cmd /\ Rest
         /\ \/ at' = step /\ said' = said /\ mach' = after
            \/ at' = "none" /\ said' = "error" /\ mach' \in {after, mach}
<1>1. \A e \in Ends : e.good => e.did
  BY EndsTruthful
<1>2. PICK e \in Ends : /\ mach' = IF e.did THEN after ELSE mach
                       /\ IF e.good THEN Goto(step) ELSE Over("error")
  BY DEF Child
<1>3. CASE e.good
  BY <1>1, <1>2, <1>3 DEF Goto, Child
<1>4. CASE ~e.good
  BY <1>2, <1>4 DEF Over, Child
<1> QED
  BY <1>3, <1>4

(* What a child whose failure is ignored does.                               *)
LEMMA BestEffortEnds ==
  ASSUME NEW STATE here, NEW STATE after, NEW STATE step, BestEffort(here, after, step)
  PROVE  /\ at = here /\ cmd' = cmd /\ Rest
         /\ at' = step /\ said' = said /\ mach' \in {after, mach}
BY DEF BestEffort, Ends, Goto

(* A machine where nothing is installed satisfies the invariant.             *)
LEMMA InitInstall == Init => InstallInv
<1> SUFFICES ASSUME Init PROVE InstallInv
  OBVIOUS
<1>1. TypeOK
  BY DEF Init, TypeOK, Machines, Texts, Definitions, Platforms
<1>2. Backend /\ Installed /\ NotOutdated /\ Removed
  BY DEF Init, Backend, Installed, NotOutdated, Removed, Reached, SystemdSteps, LaunchdSteps,
         SchtasksSteps
<1> QED
  BY <1>1, <1>2 DEF InstallInv

(* A step that ends the command with another report than "on" and "off".     *)
LEMMA EndStep ==
  ASSUME InstallInv, TypeOK', at' = "none", said' \notin {"on", "off"}
  PROVE  InstallInv'
BY DEF InstallInv, Backend, Installed, NotOutdated, Removed, Reached, SystemdSteps, LaunchdSteps,
       SchtasksSteps

(* serve of a systemd user service.                                          *)
LEMMA SystemdStep == ASSUME InstallInv, Systemd PROVE InstallInv'
<1> USE DEF Rest, InstallInv, Reached, SystemdSteps, LaunchdSteps, SchtasksSteps, SharedSteps
<1>1. ASSUME Child("reload", [mach EXCEPT !.loaded = mach.disk], AfterReload) PROVE InstallInv'
  <2>1. /\ at = "reload" /\ cmd' = cmd /\ Rest
        /\ \/ at' = AfterReload /\ said' = said /\ mach' = [mach EXCEPT !.loaded = mach.disk]
           \/ /\ at' = "none" /\ said' = "error"
              /\ mach' \in {[mach EXCEPT !.loaded = mach.disk], mach}
    BY <1>1, ChildEnds
  <2>2. TypeOK'
    BY <2>1 DEF TypeOK, Machines, AfterReload
  <2> QED
    BY <2>1, <2>2 DEF TypeOK, Machines, Backend, Installed, NotOutdated, Removed, AfterReload, StartMode, Outdated, Current, Stopped
<1>2. ASSUME Child("enable", [mach EXCEPT !.enabled = TRUE], "restart") PROVE InstallInv'
  <2>1. /\ at = "enable" /\ cmd' = cmd /\ Rest
        /\ \/ at' = "restart" /\ said' = said /\ mach' = [mach EXCEPT !.enabled = TRUE]
           \/ /\ at' = "none" /\ said' = "error"
              /\ mach' \in {[mach EXCEPT !.enabled = TRUE], mach}
    BY <1>2, ChildEnds
  <2>2. TypeOK'
    BY <2>1, ZenonT(30) DEF TypeOK, Machines
  <2> QED
    BY <2>1, <2>2 DEF TypeOK, Machines, Backend, Installed, NotOutdated, Removed, Outdated, Current, Stopped
<1>3. ASSUME Child("restart", Up(mach.loaded), "health") PROVE InstallInv'
  <2>1. /\ at = "restart" /\ cmd' = cmd /\ Rest
        /\ \/ at' = "health" /\ said' = said /\ mach' = Up(mach.loaded)
           \/ at' = "none" /\ said' = "error" /\ mach' \in {Up(mach.loaded), mach}
    BY <1>3, ChildEnds
  <2>2. TypeOK'
    <3>1. Up(mach.loaded) \in Machines
      BY DEF TypeOK, Up, Machines
    <3>2. mach' \in Machines
      BY <2>1, <3>1 DEF TypeOK
    <3> QED
      BY <2>1, <3>2 DEF TypeOK
  <2> QED
    BY <2>1, <2>2, ZenonT(30) DEF TypeOK, Machines, Backend, Installed, NotOutdated, Removed, Outdated, Current, Stopped, Up
<1>4. ASSUME Child("enablenow", [(IF mach.running = "none" THEN Up(mach.loaded) ELSE mach)
                                    EXCEPT !.enabled = TRUE], "health")
      PROVE  InstallInv'
  <2> DEFINE after == [(IF mach.running = "none" THEN Up(mach.loaded) ELSE mach)
                         EXCEPT !.enabled = TRUE]
  <2>1. /\ at = "enablenow" /\ cmd' = cmd /\ Rest
        /\ \/ at' = "health" /\ said' = said /\ mach' = after
           \/ at' = "none" /\ said' = "error" /\ mach' \in {after, mach}
    BY <1>4, ChildEnds
  <2>2. /\ after \in Machines /\ after.enabled /\ after.loaded = mach.loaded
        /\ after.disk = mach.disk
        /\ after.running = IF mach.running = "none" THEN mach.loaded ELSE mach.running
    BY DEF TypeOK, Machines, Up
  <2>3. TypeOK'
    <3>1. mach' \in Machines
      BY <2>1, <2>2 DEF TypeOK
    <3> QED
      BY <2>1, <3>1 DEF TypeOK
  <2> HIDE DEF after
  <2> QED
    BY <2>1, <2>2, <2>3 DEF TypeOK, Backend, Installed, NotOutdated, Removed, Current
<1> QED
  BY <1>1, <1>2, <1>3, <1>4 DEF Systemd

(* serve of a launchd agent.                                                 *)
LEMMA LaunchdStep == ASSUME InstallInv, Launchd PROVE InstallInv'
<1> USE DEF Rest, InstallInv, Reached, SystemdSteps, LaunchdSteps, SchtasksSteps, SharedSteps
<1>1. ASSUME BestEffort("bootout", [Gone EXCEPT !.loaded = "none"], "register")
      PROVE  InstallInv'
  <2> DEFINE after == [Gone EXCEPT !.loaded = "none"]
  <2>1. /\ at = "bootout" /\ cmd' = cmd /\ Rest
        /\ at' = "register" /\ said' = said /\ mach' \in {after, mach}
    BY <1>1, BestEffortEnds
  <2>2. after \in Machines /\ after.disk = mach.disk
    BY DEF TypeOK, Machines, Gone, Texts
  <2> HIDE DEF after
  <2>3. TypeOK'
    BY <2>1, <2>2 DEF TypeOK
  <2> QED
    BY <2>1, <2>2, <2>3 DEF Backend, Installed, NotOutdated, Removed
<1>2. ASSUME Child("register", [mach EXCEPT !.enabled = TRUE], "bootstrap") PROVE InstallInv'
  <2> DEFINE after == [mach EXCEPT !.enabled = TRUE]
  <2>1. /\ at = "register" /\ cmd' = cmd /\ Rest
        /\ \/ at' = "bootstrap" /\ said' = said /\ mach' = after
           \/ at' = "none" /\ said' = "error" /\ mach' \in {after, mach}
    BY <1>2, ChildEnds
  <2>2. after \in Machines /\ after.disk = mach.disk /\ after.enabled
    BY DEF TypeOK, Machines
  <2> HIDE DEF after
  <2>3. TypeOK'
    BY <2>1, <2>2 DEF TypeOK
  <2> QED
    BY <2>1, <2>2, <2>3 DEF Backend, Installed, NotOutdated, Removed
<1>3. ASSUME Child("bootstrap", [Up(mach.disk) EXCEPT !.loaded = mach.disk], "health")
      PROVE  InstallInv'
  <2> DEFINE after == [Up(mach.disk) EXCEPT !.loaded = mach.disk]
  <2>1. /\ at = "bootstrap" /\ cmd' = cmd /\ Rest
        /\ \/ at' = "health" /\ said' = said /\ mach' = after
           \/ at' = "none" /\ said' = "error" /\ mach' \in {after, mach}
    BY <1>3, ChildEnds
  <2>2. /\ after \in Machines /\ after.disk = mach.disk /\ after.enabled = mach.enabled
        /\ after.loaded = mach.disk /\ after.running = mach.disk
    BY DEF TypeOK, Machines, Up
  <2> HIDE DEF after
  <2>3. TypeOK'
    BY <2>1, <2>2 DEF TypeOK
  <2> QED
    BY <2>1, <2>2, <2>3 DEF Backend, Installed, NotOutdated, Removed, Current
<1>4. ASSUME Ending("bootstrap", "error") PROVE InstallInv'
  <2>1. TypeOK'
    BY <1>4 DEF Ending, Over, TypeOK
  <2> QED
    BY <1>4, <2>1, EndStep DEF Ending, Over
<1> QED
  BY <1>1, <1>2, <1>3, <1>4 DEF Launchd

(* serve of a scheduled task.                                                *)
LEMMA SchtasksStep == ASSUME InstallInv, Schtasks PROVE InstallInv'
<1> USE DEF Rest, InstallInv, Reached, SystemdSteps, LaunchdSteps, SchtasksSteps, SharedSteps
<1>1. ASSUME Child("create", [mach EXCEPT !.disk = cmd.want, !.loaded = cmd.want], "change")
      PROVE  InstallInv'
  <2> DEFINE after == [mach EXCEPT !.disk = cmd.want, !.loaded = cmd.want]
  <2>1. /\ at = "create" /\ cmd' = cmd /\ Rest
        /\ \/ at' = "change" /\ said' = said /\ mach' = after
           \/ at' = "none" /\ said' = "error" /\ mach' \in {after, mach}
    BY <1>1, ChildEnds
  <2>2. after \in Machines /\ after.disk = cmd.want /\ after.loaded = cmd.want
    BY DEF TypeOK, Machines, Texts
  <2> HIDE DEF after
  <2>3. TypeOK'
    BY <2>1, <2>2 DEF TypeOK
  <2> QED
    BY <2>1, <2>2, <2>3 DEF Backend, Installed, NotOutdated, Removed
<1>2. ASSUME Child("change", [mach EXCEPT !.enabled = TRUE], "run") PROVE InstallInv'
  <2> DEFINE after == [mach EXCEPT !.enabled = TRUE]
  <2>1. /\ at = "change" /\ cmd' = cmd /\ Rest
        /\ \/ at' = "run" /\ said' = said /\ mach' = after
           \/ at' = "none" /\ said' = "error" /\ mach' \in {after, mach}
    BY <1>2, ChildEnds
  <2>2. /\ after \in Machines /\ after.disk = mach.disk /\ after.enabled
        /\ after.loaded = mach.loaded
    BY DEF TypeOK, Machines
  <2> HIDE DEF after
  <2>3. TypeOK'
    BY <2>1, <2>2 DEF TypeOK
  <2> QED
    BY <2>1, <2>2, <2>3 DEF Backend, Installed, NotOutdated, Removed
<1>3. ASSUME Child("run", Up(mach.loaded), "health") PROVE InstallInv'
  <2> DEFINE after == Up(mach.loaded)
  <2>1. /\ at = "run" /\ cmd' = cmd /\ Rest
        /\ \/ at' = "health" /\ said' = said /\ mach' = after
           \/ at' = "none" /\ said' = "error" /\ mach' \in {after, mach}
    BY <1>3, ChildEnds
  <2>2. /\ after \in Machines /\ after.disk = mach.disk /\ after.enabled = mach.enabled
        /\ after.loaded = mach.loaded
    BY DEF TypeOK, Machines, Up
  <2> HIDE DEF after
  <2>3. TypeOK'
    BY <2>1, <2>2 DEF TypeOK
  <2> QED
    BY <2>1, <2>2, <2>3 DEF Backend, Installed, NotOutdated, Removed
<1>4. ASSUME Skip("run", "health") PROVE InstallInv'
  <2>1. TypeOK'
    BY <1>4 DEF Skip, Goto, TypeOK
  <2> QED
    BY <1>4, <2>1 DEF Skip, Goto, Backend, Installed, NotOutdated, Removed
<1> QED
  BY <1>1, <1>2, <1>3, <1>4 DEF Schtasks

(* The checks after a start, and the forward.                                *)
LEMMA CheckStep == ASSUME InstallInv, Health \/ Tailscale PROVE InstallInv'
<1> USE DEF Rest, InstallInv, Reached, SystemdSteps, LaunchdSteps, SchtasksSteps, SharedSteps
<1>1. ASSUME NEW here \in {"health", "active"}, NEW step \in {"active", "forward"},
             Skip(here, step), step = "active" => platform = "systemd"
      PROVE  InstallInv'
  <2>1. TypeOK'
    BY <1>1 DEF Skip, Goto, TypeOK
  <2> QED
    BY <1>1, <2>1 DEF Skip, Goto, Backend, Installed, NotOutdated, Removed, Current
<1>2. ASSUME NEW here \in {"health", "active", "forward"}, Ending(here, "error")
      PROVE  InstallInv'
  <2>1. TypeOK'
    BY <1>2 DEF Ending, Over, TypeOK
  <2> QED
    BY <1>2, <2>1, EndStep DEF Ending, Over
<1>3. ASSUME Ending("forward", "on"), ~cmd.tail \/ mach.forward PROVE InstallInv'
  <2>1. TypeOK'
    BY <1>3 DEF Ending, Over, TypeOK
  <2> QED
    BY <1>3, <2>1 DEF Ending, Over, Backend, Installed, NotOutdated, Removed, Current
<1>4. ASSUME Child("forward", [mach EXCEPT !.forward = TRUE], "forward") PROVE InstallInv'
  <2> DEFINE after == [mach EXCEPT !.forward = TRUE]
  <2>1. /\ at = "forward" /\ cmd' = cmd /\ Rest
        /\ \/ at' = "forward" /\ said' = said /\ mach' = after
           \/ at' = "none" /\ said' = "error" /\ mach' \in {after, mach}
    BY <1>4, ChildEnds
  <2>2. /\ after \in Machines /\ after.disk = mach.disk /\ after.enabled = mach.enabled
        /\ after.loaded = mach.loaded /\ after.running = mach.running /\ after.forward
    BY DEF TypeOK, Machines
  <2> HIDE DEF after
  <2>3. TypeOK'
    BY <2>1, <2>2 DEF TypeOK
  <2> QED
    BY <2>1, <2>2, <2>3 DEF Backend, Installed, NotOutdated, Removed, Current
<1>5. CASE Health
  BY <1>1, <1>2, <1>5 DEF Health
<1>6. CASE Tailscale
  BY <1>2, <1>3, <1>4, <1>6 DEF Tailscale
<1> QED
  BY <1>5, <1>6

(* The file: what it said decides whether the service is started anew.       *)
LEMMA WriteStep == ASSUME InstallInv, Probe \/ Write \/ WriteFails PROVE InstallInv'
<1> USE DEF Rest, InstallInv, Reached, SystemdSteps, LaunchdSteps, SchtasksSteps, SharedSteps
<1>1. CASE Probe
  <2>1. /\ at = "probe" /\ cmd' = cmd /\ Rest /\ mach' = mach
        /\ \/ at' = "write" /\ said' = said
           \/ at' = "none" /\ said' = "error"
    BY <1>1, ChildEnds DEF Probe
  <2>2. TypeOK'
    BY <2>1 DEF TypeOK
  <2> QED
    BY <2>1, <2>2 DEF Backend, Installed, NotOutdated, Removed, Outdated
<1>2. CASE Write
  <2>1. /\ mach' \in Machines /\ mach'.disk = cmd.want
        /\ mach'.loaded = mach.loaded /\ mach'.running = mach.running
        /\ mach'.wanted = mach.wanted
    BY <1>2 DEF Write, TypeOK, Machines, Texts
  <2>2. /\ cmd'.want = cmd.want /\ cmd'.tail = cmd.tail /\ cmd'.outdated = cmd.outdated
        /\ cmd'.job = cmd.job /\ cmd'.state = FileState(cmd.want)
    BY <1>2 DEF Write, TypeOK
  <2>3. TypeOK'
    <3>1. cmd' = [cmd EXCEPT !.state = FileState(cmd.want)] /\ at' = AfterWrite
      BY <1>2 DEF Write, Goto
    <3>2. FileState(cmd.want) \in {"New", "Unchanged", "Updated"}
      BY DEF FileState
    <3> QED
      BY <1>2, <2>1, <3>1, <3>2 DEF Write, Goto, AfterWrite, TypeOK
  <2>4. Backend' /\ Installed' /\ Removed'
    BY <1>2, <2>1, <2>2 DEF Write, Goto, AfterWrite, TypeOK, Platforms, Backend, Installed, Removed
  <2>5. NotOutdated'
    <3>1. CASE platform = "systemd" /\ ~cmd.outdated
      <4>1. ~Outdated
        BY <1>2, <3>1 DEF Write, NotOutdated
      <4>2. cmd'.state = "Unchanged" => mach.disk = cmd.want
        BY <2>2 DEF FileState
      <4>3. cmd'.state = "New" => mach.disk = "none"
        BY <2>2 DEF FileState
      <4>4. cmd'.state = "Unchanged" => ~Outdated'
        BY <2>1, <4>1, <4>2 DEF Outdated
      <4>5. cmd'.state = "New" =>
              mach'.running = "none" /\ (mach'.wanted => mach'.loaded = "none")
        BY <2>1, <4>1, <4>3 DEF Outdated
      <4> QED
        BY <1>2, <4>4, <4>5 DEF Write, Goto, AfterWrite, NotOutdated
    <3>2. CASE ~(platform = "systemd" /\ ~cmd.outdated)
      BY <1>2, <2>2, <3>2 DEF Write, NotOutdated
    <3> QED
      BY <3>1, <3>2
  <2> QED
    BY <2>3, <2>4, <2>5
<1>3. CASE WriteFails
  <2>1. TypeOK'
    BY <1>3 DEF WriteFails, Over, TypeOK, Machines, Texts
  <2> QED
    BY <1>3, <2>1, EndStep DEF WriteFails, Over
<1> QED
  BY <1>1, <1>2, <1>3

(* serve --off.                                                              *)
LEMMA OffStep == ASSUME InstallInv, Off \/ Unforward PROVE InstallInv'
<1> USE DEF Rest, InstallInv, Reached, SystemdSteps, LaunchdSteps, SchtasksSteps, SharedSteps
<1>1. ASSUME platform = "systemd", Child("stop", Disabled, "unforward") PROVE InstallInv'
  <2>1. /\ at = "stop" /\ cmd' = cmd /\ Rest
        /\ \/ at' = "unforward" /\ said' = said /\ mach' = Disabled
           \/ at' = "none" /\ said' = "error" /\ mach' \in {Disabled, mach}
    BY <1>1, ChildEnds
  <2>2. /\ Disabled \in Machines /\ ~Disabled.enabled
        /\ Disabled.running = "none" /\ ~Disabled.wanted
    BY DEF TypeOK, Machines, Disabled, Gone, Texts
  <2>3. TypeOK'
    BY <2>1, <2>2 DEF TypeOK
  <2> QED
    BY <2>1, <2>2, <2>3 DEF Backend, Installed, NotOutdated, Removed, Stopped
<1>2. ASSUME platform = "launchd", Child("stop", [Gone EXCEPT !.loaded = "none"], "disable")
      PROVE  InstallInv'
  <2> DEFINE after == [Gone EXCEPT !.loaded = "none"]
  <2>1. /\ at = "stop" /\ cmd' = cmd /\ Rest
        /\ \/ at' = "disable" /\ said' = said /\ mach' = after
           \/ at' = "none" /\ said' = "error" /\ mach' \in {after, mach}
    BY <1>2, ChildEnds
  <2>2. after \in Machines /\ after.running = "none" /\ ~after.wanted
    BY DEF TypeOK, Machines, Gone, Texts
  <2> HIDE DEF after
  <2>3. TypeOK'
    BY <2>1, <2>2 DEF TypeOK
  <2> QED
    BY <1>2, <2>1, <2>2, <2>3 DEF Backend, Installed, NotOutdated, Removed, Stopped
<1>3. ASSUME platform = "schtasks", BestEffort("stop", Gone, "disable") PROVE InstallInv'
  <2>1. /\ at = "stop" /\ cmd' = cmd /\ Rest
        /\ at' = "disable" /\ said' = said /\ mach' \in {Gone, mach}
    BY <1>3, BestEffortEnds
  <2>2. Gone \in Machines
    BY DEF TypeOK, Machines, Gone, Texts
  <2>3. TypeOK'
    BY <2>1, <2>2 DEF TypeOK
  <2> QED
    BY <1>3, <2>1, <2>3 DEF Backend, Installed, NotOutdated, Removed
<1>4. ASSUME Child("disable", [mach EXCEPT !.enabled = FALSE], "unforward") PROVE InstallInv'
  <2> DEFINE after == [mach EXCEPT !.enabled = FALSE]
  <2>1. /\ at = "disable" /\ cmd' = cmd /\ Rest
        /\ \/ at' = "unforward" /\ said' = said /\ mach' = after
           \/ at' = "none" /\ said' = "error" /\ mach' \in {after, mach}
    BY <1>4, ChildEnds
  <2>2. /\ after \in Machines /\ ~after.enabled
        /\ after.running = mach.running /\ after.wanted = mach.wanted
    BY DEF TypeOK, Machines
  <2> HIDE DEF after
  <2>3. TypeOK'
    BY <2>1, <2>2 DEF TypeOK
  <2> QED
    BY <2>1, <2>2, <2>3 DEF Backend, Installed, NotOutdated, Removed, Stopped
<1>5. CASE Unforward
  <2>1. /\ at = "unforward" /\ cmd' = cmd /\ at' = "none"
        /\ said' \in {"off", "error", "unsure"}
    BY <1>5 DEF Unforward, Over
  <2>2. /\ mach' \in Machines /\ mach'.enabled = mach.enabled
        /\ mach'.running = mach.running /\ mach'.wanted = mach.wanted
    <3>1. CASE mach' = mach
      BY <3>1 DEF TypeOK
    <3>2. ASSUME NEW e \in Ends, mach' = [mach EXCEPT !.forward = ~e.did]
          PROVE  /\ mach' \in Machines /\ mach'.enabled = mach.enabled
                 /\ mach'.running = mach.running /\ mach'.wanted = mach.wanted
      BY <3>2 DEF TypeOK, Machines
    <3> QED
      BY <1>5, <3>1, <3>2 DEF Unforward
  <2>3. said' = "off" /\ cmd.tail => ~mach'.forward
    <3> SUFFICES ASSUME said' = "off", cmd.tail PROVE ~mach'.forward
      OBVIOUS
    <3>1. CASE ~mach.forward /\ mach' = mach
      BY <3>1
    <3>2. ASSUME NEW e \in Ends, mach' = [mach EXCEPT !.forward = ~e.did],
                 Over(IF e.good THEN "off" ELSE "error") \/ (~e.good /\ Over("unsure"))
          PROVE  ~mach'.forward
      <4>1. e.good
        BY <3>2 DEF Over
      <4>2. e.did
        BY <4>1, <3>2, EndsTruthful
      <4> QED
        BY <3>2, <4>2 DEF TypeOK, Machines
    <3> QED
      BY <1>5, <3>1, <3>2 DEF Unforward
  <2>4. TypeOK'
    BY <1>5, <2>1, <2>2 DEF Unforward, TypeOK
  <2> QED
    BY <1>5, <2>1, <2>2, <2>3, <2>4
    DEF Unforward, Backend, Installed, NotOutdated, Removed, Stopped
<1> QED
  BY <1>1, <1>2, <1>3, <1>4, <1>5 DEF Off

(* A command begins, or ends before its first child.                         *)
LEMMA StartStep == ASSUME InstallInv, Start \/ Refuse \/ DryRun PROVE InstallInv'
<1> USE DEF Rest, InstallInv, Reached, SystemdSteps, LaunchdSteps, SchtasksSteps, SharedSteps
<1>1. CASE Start
  <2>1. PICK job \in {"on", "off", "status"}, d \in Definitions, t \in BOOLEAN :
          /\ cmd' = [job |-> job, want |-> d, tail |-> t, state |-> "Unchanged",
                     outdated |-> platform = "systemd" /\ Outdated]
          /\ at' = First(job)
    BY <1>1 DEF Start
  <2>2. /\ at' \in {"stop", "status", "create", "probe"}
        /\ at' = "create" => platform = "schtasks"
        /\ at' = "probe" => platform # "schtasks"
    BY <2>1 DEF First
  <2>3. /\ cmd' \in [job : {"on", "off", "status"}, want : Definitions, tail : BOOLEAN,
                    state : {"New", "Unchanged", "Updated"}, outdated : BOOLEAN]
        /\ cmd'.outdated <=> platform = "systemd" /\ Outdated
    BY <2>1
  <2>4. said' = "none" /\ mach' = mach /\ platform' = platform
    BY <1>1 DEF Start
  <2>5. TypeOK'
    BY <1>1, <2>2, <2>3, <2>4 DEF Start, TypeOK
  <2>6. NotOutdated'
    BY <2>2, <2>3, <2>4 DEF NotOutdated, Outdated
  <2> QED
    BY <2>2, <2>4, <2>5, <2>6 DEF Backend, Installed, Removed
<1>2. ASSUME NEW word \in {"error", "planned"}, Brief(word) PROVE InstallInv'
  <2>1. TypeOK'
    BY <1>2 DEF Brief, Over, TypeOK
  <2> QED
    BY <1>2, <2>1, EndStep DEF Brief, Over
<1> QED
  BY <1>1, <1>2 DEF Refuse, DryRun

(* The service dies, its manager starts it again, the user logs in anew.     *)
LEMMA AccidentStep == ASSUME InstallInv, Die \/ Respawn \/ Login PROVE InstallInv'
<1> USE DEF Rest, InstallInv, Reached, SystemdSteps, LaunchdSteps, SchtasksSteps, SharedSteps
<1>a. /\ cmd' = cmd /\ at' = at /\ said' = said /\ platform' = platform
      /\ foreign' = foreign /\ count' = count /\ accidents' \in Nat
  BY DEF Die, Respawn, Login, Accident, TypeOK
<1>1. CASE Die
  <2>1. /\ mach' \in Machines /\ mach'.disk = mach.disk /\ mach'.enabled = mach.enabled
        /\ mach'.loaded = mach.loaded /\ mach'.running = "none"
        /\ mach'.wanted = mach.wanted /\ mach'.forward = mach.forward
        /\ mach.running # "none"
    BY <1>1 DEF Die, TypeOK, Machines, Texts
  <2>2. TypeOK'
    BY <1>a, <2>1 DEF TypeOK
  <2> QED
    BY <1>a, <2>1, <2>2
    DEF Backend, Installed, NotOutdated, Removed, Outdated, Current, Stopped
<1>2. CASE Respawn
  <2>1. /\ mach' \in Machines /\ mach'.disk = mach.disk /\ mach'.enabled = mach.enabled
        /\ mach'.loaded = mach.loaded /\ mach'.running = mach.loaded
        /\ mach'.wanted = mach.wanted /\ mach'.forward = mach.forward
        /\ mach.running = "none" /\ mach.wanted
    BY <1>2 DEF Respawn, TypeOK, Machines
  <2>2. TypeOK'
    BY <1>a, <2>1 DEF TypeOK
  <2>3. Backend' /\ Installed' /\ Removed'
    BY <1>a, <2>1 DEF Backend, Installed, Removed, Current, Stopped
  <2>4. NotOutdated'
    BY <1>a, <2>1 DEF Installed, NotOutdated, Outdated, Current
  <2> QED
    BY <2>2, <2>3, <2>4
<1>3. CASE Login
  <2>1. at = "none"
    BY <1>3 DEF Login
  <2>2. CASE mach.enabled /\ mach.disk # "torn"
    <3>1. mach' = [Up(Read) EXCEPT !.loaded = Read] /\ Read \in Texts
      BY <1>3, <2>2 DEF Login, Read, TypeOK, Machines
    <3>2. /\ mach' \in Machines /\ mach'.disk = mach.disk /\ mach'.enabled = mach.enabled
          /\ mach'.loaded = Read /\ mach'.running = Read /\ mach'.forward = mach.forward
      BY <3>1 DEF TypeOK, Machines, Up
    <3>3. said = "on" => Read = cmd.want
      BY DEF Read, Installed
    <3>4. TypeOK'
      BY <1>a, <3>2 DEF TypeOK
    <3> QED
      BY <1>a, <2>1, <2>2, <3>2, <3>3, <3>4
      DEF Backend, Installed, NotOutdated, Removed, Current
  <2>3. CASE ~(mach.enabled /\ mach.disk # "torn")
    <3>1. mach' = [Gone EXCEPT !.loaded = "none"]
      BY <1>3, <2>3 DEF Login
    <3>2. /\ mach' \in Machines /\ mach'.disk = mach.disk /\ mach'.enabled = mach.enabled
          /\ mach'.running = "none" /\ ~mach'.wanted /\ mach'.forward = mach.forward
      BY <3>1 DEF TypeOK, Machines, Gone, Texts
    <3>3. said # "on"
      <4>1. said = "on" => mach.enabled /\ mach.disk = cmd.want
        BY DEF Installed
      <4>2. cmd.want # "torn"
        BY DEF TypeOK, Definitions
      <4> QED
        BY <2>3, <4>1, <4>2
    <3>4. TypeOK'
      BY <1>a, <3>2 DEF TypeOK
    <3> QED
      BY <1>a, <2>1, <3>2, <3>3, <3>4
      DEF Backend, Installed, NotOutdated, Removed, Stopped
  <2> QED
    BY <2>2, <2>3
<1> QED
  BY <1>1, <1>2, <1>3

(* Every step keeps the invariant.                                           *)
LEMMA InstallStep == InstallInv /\ [Next]_vars => InstallInv'
<1> SUFFICES ASSUME InstallInv, [Next]_vars PROVE InstallInv'
  OBVIOUS
<1>1. CASE Start \/ Refuse \/ DryRun
  BY <1>1, StartStep
<1>2. CASE Probe \/ Write \/ WriteFails
  BY <1>2, WriteStep
<1>3. CASE Systemd
  BY <1>3, SystemdStep
<1>4. CASE Launchd
  BY <1>4, LaunchdStep
<1>5. CASE Schtasks
  BY <1>5, SchtasksStep
<1>6. CASE Health \/ Tailscale
  BY <1>6, CheckStep
<1>7. CASE Off \/ Unforward
  BY <1>7, OffStep
<1>8. CASE Status
  <2>1. TypeOK'
    BY <1>8 DEF Status, Ending, Over, Rest, InstallInv, TypeOK
  <2> QED
    BY <1>8, <2>1, EndStep DEF Status, Ending, Over, Rest
<1>9. CASE Crash
  <2>1. TypeOK'
    BY <1>9 DEF Crash, Over, Rest, InstallInv, TypeOK
  <2> QED
    BY <1>9, <2>1, EndStep DEF Crash, Over, Rest
<1>10. CASE Die \/ Respawn \/ Login
  BY <1>10, AccidentStep
<1>11. CASE UNCHANGED vars
  BY <1>11 DEF vars, InstallInv, TypeOK, Backend, Installed, NotOutdated, Removed, Reached,
               Outdated, Current, Stopped
<1> QED
  BY <1>1, <1>2, <1>3, <1>4, <1>5, <1>6, <1>7, <1>8, <1>9, <1>10, <1>11 DEF Next

(* The invariant holds in every reachable state.                             *)
THEOREM InstallInvariant == Spec => []InstallInv
<1> QED
  BY InitInstall, InstallStep, PTL DEF Spec

(* serve, its exit status: whatever fails, is killed or started again, now   *)
(* or later, the machine is as the last report of "on" or "off" says.        *)
THEOREM ReportsAreTruthful == Spec => []ReportsTruthful
<1>1. InstallInv => ReportsTruthful
  <2> SUFFICES ASSUME InstallInv PROVE ReportsTruthful
    OBVIOUS
  <2> USE DEF InstallInv, Reached
  <2>1. said = "on" => SaysOn
    BY DEF Installed, Current, SaysOn
  <2>2. said = "off" => SaysOff
    BY DEF Removed, Stopped, SaysOff
  <2> QED
    BY <2>1, <2>2 DEF ReportsTruthful
<1> QED
  BY <1>1, InstallInvariant, PTL

(***************************************************************************)
(* The settings of an editor.                                              *)
(***************************************************************************)
Values == {"old", "new"} \union Scalars
Entry  == [key : Others \union {"ours", "agents", "theme"}, val : Values, comma : BOOLEAN]
Pairs(obj) == {<<obj[i].key, obj[i].val>> : i \in DOMAIN obj}
Object(obj) == obj \in Seq(Entry) /\ Settings!Parses(obj)

(* RemoveAt, index by index.                                                 *)
LEMMA RemovedAt ==
  ASSUME NEW s \in Seq(Entry), NEW i \in DOMAIN s
  PROVE  /\ Settings!RemoveAt(s, i) \in Seq(Entry)
         /\ Len(Settings!RemoveAt(s, i)) = Len(s) - 1
         /\ \A j \in 1..(Len(s) - 1) :
              Settings!RemoveAt(s, i)[j] = s[IF j < i THEN j ELSE j + 1]
<1> DEFINE a == SubSeq(s, 1, i - 1)
           b == SubSeq(s, i + 1, Len(s))
<1>1. i \in Nat /\ 1 <= i /\ i <= Len(s) /\ Len(s) \in Nat /\ \A k \in 1..Len(s) : s[k] \in Entry
  BY ElementOfSeq, LenProperties
<1>2. a \in Seq(Entry) /\ Len(a) = i - 1 /\ \A k \in 1..(i - 1) : a[k] = s[k]
  <2>1. \A k \in 1..(i - 1) : s[k] \in Entry
    BY <1>1
  <2>2. /\ a \in Seq(Entry) /\ Len(a) = IF 1 <= i - 1 THEN (i - 1) - 1 + 1 ELSE 0
        /\ \A k \in 1..((i - 1) - 1 + 1) : a[k] = s[1 + k - 1]
    BY <1>1, <2>1, SubSeqProperties
  <2> HIDE DEF a
  <2>3. QED
    BY <1>1, <2>2
<1>3. b \in Seq(Entry) /\ Len(b) = Len(s) - i /\ \A k \in 1..(Len(s) - i) : b[k] = s[i + k]
  <2>1. \A k \in (i + 1)..Len(s) : s[k] \in Entry
    BY <1>1
  <2>2. /\ b \in Seq(Entry) /\ Len(b) = IF i + 1 <= Len(s) THEN Len(s) - (i + 1) + 1 ELSE 0
        /\ \A k \in 1..(Len(s) - (i + 1) + 1) : b[k] = s[i + 1 + k - 1]
    BY <1>1, <2>1, SubSeqProperties
  <2> HIDE DEF b
  <2>3. QED
    BY <1>1, <2>2
<1>4. Settings!RemoveAt(s, i) = a \o b
  BY DEF Settings!RemoveAt
<1> HIDE DEF a, b
<1>5. /\ a \o b \in Seq(Entry) /\ Len(a \o b) = Len(a) + Len(b)
      /\ \A k \in 1..(Len(a) + Len(b)) : (a \o b)[k] = IF k <= Len(a) THEN a[k] ELSE b[k - Len(a)]
  BY <1>2, <1>3, ConcatProperties
<1>6. Len(a) + Len(b) = Len(s) - 1
  BY <1>1, <1>2, <1>3
<1>7. ASSUME NEW j \in 1..(Len(s) - 1)
      PROVE  (a \o b)[j] = s[IF j < i THEN j ELSE j + 1]
  <2>1. CASE j < i
    BY <1>1, <1>2, <1>5, <1>6, <2>1
  <2>2. CASE j >= i
    <3>1. j - (i - 1) \in 1..(Len(s) - i) /\ i + (j - (i - 1)) = j + 1 /\ ~(j <= i - 1)
      BY <1>1, <2>2
    <3>2. (a \o b)[j] = b[j - (i - 1)]
      BY <1>2, <1>5, <1>6, <3>1
    <3>3. QED
      BY <1>1, <1>3, <2>2, <3>1, <3>2
  <2>3. j < i \/ j >= i
    BY <1>1
  <2>4. QED
    BY <2>1, <2>2, <2>3
<1>8. QED
  BY <1>4, <1>5, <1>6, <1>7

(* Place finds a key.                                                        *)
LEMMA Placed ==
  ASSUME NEW obj, NEW k \in Settings!Keys(obj)
  PROVE  Settings!Place(obj, k) \in DOMAIN obj /\ obj[Settings!Place(obj, k)].key = k
<1>1. \E i \in DOMAIN obj : obj[i].key = k
  BY DEF Settings!Keys
<1>2. QED
  BY <1>1 DEF Settings!Place

(* An entry with another comma or value.                                     *)
LEMMA EntryUpdated ==
  ASSUME NEW e \in Entry
  PROVE  /\ \A x \in BOOLEAN : /\ [e EXCEPT !.comma = x] \in Entry
                               /\ [e EXCEPT !.comma = x].key = e.key
                               /\ [e EXCEPT !.comma = x].val = e.val
                               /\ [e EXCEPT !.comma = x].comma = x
         /\ [e EXCEPT !.val = "new"] \in Entry
         /\ [e EXCEPT !.val = "new"].key = e.key
         /\ [e EXCEPT !.val = "new"].val = "new"
         /\ [e EXCEPT !.val = "new"].comma = e.comma
BY DEF Entry, Values

(* An object with the comma of one entry set or taken away.                  *)
LEMMA Punctuated ==
  ASSUME NEW s \in Seq(Entry), NEW i \in DOMAIN s, NEW x \in BOOLEAN
  PROVE  LET t == [s EXCEPT ![i].comma = x]
         IN  /\ t \in Seq(Entry) /\ Len(t) = Len(s)
             /\ \A j \in 1..Len(s) : /\ t[j].key = s[j].key /\ t[j].val = s[j].val
                                     /\ t[j].comma = IF j = i THEN x ELSE s[j].comma
<1> DEFINE e == [s[i] EXCEPT !.comma = x]
           t == [s EXCEPT ![i] = e]
<1>1. i \in 1..Len(s) /\ s[i] \in Entry
  BY ElementOfSeq, LenProperties
<1>2. e \in Entry /\ e.key = s[i].key /\ e.val = s[i].val /\ e.comma = x
  BY <1>1 DEF Entry
<1>3. t = [s EXCEPT ![i].comma = x]
  OBVIOUS
<1> HIDE DEF e
<1>4. t \in Seq(Entry) /\ Len(t) = Len(s) /\ \A j \in 1..Len(s) : t[j] = IF j = i THEN e ELSE s[j]
  BY <1>1, <1>2, ExceptSeq
<1> HIDE DEF t
<1>5. QED
  BY <1>2, <1>3, <1>4

(* An object parses if its entries but the last have commas and their keys   *)
(* differ.                                                                   *)
LEMMA ObjectIs ==
  ASSUME NEW s \in Seq(Entry)
  PROVE  /\ Len(s) \in Nat /\ DOMAIN s = 1..Len(s)
         /\ \A j \in 1..Len(s) : s[j] \in Entry
         /\ Settings!Parses(s) <=> /\ \A j \in 1..Len(s) : j < Len(s) => s[j].comma
                                  /\ \A j, k \in 1..Len(s) : s[j].key = s[k].key => j = k
<1>1. /\ Len(s) \in Nat /\ DOMAIN s = 1..Len(s)
      /\ \A j \in 1..Len(s) : s[j] \in Entry
  BY ElementOfSeq, LenProperties
<1>2. \A j : j \in 1..Len(s) - 1 <=> j \in 1..Len(s) /\ j < Len(s)
  BY <1>1
<1>3. QED
  BY <1>1, <1>2 DEF Settings!Parses

(* A new entry behind the others: what is in the object, and its commas.     *)
LEMMA AddedIs ==
  ASSUME NEW s \in Seq(Entry), NEW e \in Entry
  PROVE  LET t == Settings!Added(s, e)
             n == Len(s)
         IN  /\ t \in Seq(Entry) /\ Len(t) = n + 1 /\ t[n + 1] = e
             /\ \A j \in 1..n : /\ t[j].key = s[j].key /\ t[j].val = s[j].val
                                /\ t[j].comma = IF j = n THEN TRUE ELSE s[j].comma
<1> DEFINE n == Len(s)
           m == [s EXCEPT ![n].comma = TRUE]
<1>1. CASE s = <<>>
  BY <1>1 DEF Settings!Added
<1>2. CASE s # <<>>
  <2>1. n \in DOMAIN s
    BY <1>2
  <2>2. /\ m \in Seq(Entry) /\ Len(m) = n
        /\ \A j \in 1..n : /\ m[j].key = s[j].key /\ m[j].val = s[j].val
                           /\ m[j].comma = IF j = n THEN TRUE ELSE s[j].comma
    BY <2>1, Punctuated
  <2>3. Settings!Added(s, e) = Append(m, e)
    BY <1>2 DEF Settings!Added
  <2> HIDE DEF m
  <2>4. /\ Append(m, e) \in Seq(Entry) /\ Len(Append(m, e)) = n + 1
        /\ \A j \in 1..n : Append(m, e)[j] = m[j]
        /\ Append(m, e)[n + 1] = e
    BY <2>2, AppendProperties
  <2>5. QED
    BY <2>2, <2>3, <2>4
<1>3. QED
  BY <1>1, <1>2

(* It parses, and has one key and one pair more.                             *)
LEMMA AddedKeeps ==
  ASSUME NEW s, Object(s), NEW e \in Entry, e.key \notin Settings!Keys(s)
  PROVE  /\ Object(Settings!Added(s, e))
         /\ Settings!Keys(Settings!Added(s, e)) = Settings!Keys(s) \union {e.key}
         /\ Pairs(Settings!Added(s, e)) = Pairs(s) \union {<<e.key, e.val>>}
<1> DEFINE t == Settings!Added(s, e)
           n == Len(s)
<1>1. s \in Seq(Entry) /\ Settings!Parses(s)
  BY DEF Object
<1>2. /\ n \in Nat /\ DOMAIN s = 1..n
      /\ \A j \in 1..n : j < n => s[j].comma
      /\ \A j, k \in 1..n : s[j].key = s[k].key => j = k
      /\ \A j \in 1..n : s[j].key # e.key
  BY <1>1, ObjectIs DEF Settings!Keys
<1>3. /\ t \in Seq(Entry) /\ Len(t) = n + 1 /\ t[n + 1] = e
      /\ \A j \in 1..n : /\ t[j].key = s[j].key /\ t[j].val = s[j].val
                         /\ t[j].comma = IF j = n THEN TRUE ELSE s[j].comma
  BY <1>1, AddedIs
<1> HIDE DEF t
<1>4. DOMAIN t = 1..(n + 1) /\ \A j \in 1..(n + 1) : j \in 1..n \/ j = n + 1
  <2>1. t \in Seq(Entry) /\ Len(t) = n + 1
    BY <1>3
  <2>2. DOMAIN t = 1..(n + 1)
    BY <2>1, LenProperties
  <2>3. n \in Nat
    BY <1>2
  <2>4. QED
    BY <2>2, <2>3
<1>5. 1..n \subseteq 1..(n + 1) /\ n + 1 \in 1..(n + 1) /\ n + 1 \notin 1..n
  BY <1>2
<1>6. Object(t)
  <2>1. ASSUME NEW j \in 1..(n + 1), j < n + 1 PROVE t[j].comma
    <3>1. j \in 1..n /\ (j = n \/ j < n)
      <4>1. n \in Nat
        BY <1>2
      <4>2. QED
        BY <2>1, <4>1
    <3>2. QED
      BY <1>2, <1>3, <3>1
  <2>2. ASSUME NEW j \in 1..(n + 1), NEW k \in 1..(n + 1), t[j].key = t[k].key
        PROVE  j = k
    <3>1. CASE j \in 1..n /\ k \in 1..n
      BY <1>2, <1>3, <2>2, <3>1
    <3>2. CASE j \in 1..n /\ k = n + 1
      BY <1>2, <1>3, <2>2, <3>2
    <3>3. CASE j = n + 1 /\ k \in 1..n
      BY <1>2, <1>3, <2>2, <3>3
    <3>4. QED
      BY <1>4, <3>1, <3>2, <3>3
  <2>3. QED
    BY <1>3, <2>1, <2>2, ObjectIs DEF Object
<1>7. Settings!Keys(t) = Settings!Keys(s) \union {e.key}
  <2>1. \A j \in 1..n : t[j].key = s[j].key
    BY <1>3
  <2>2. t[n + 1].key = e.key
    BY <1>3
  <2>3. QED
    BY <1>2, <1>4, <1>5, <2>1, <2>2 DEF Settings!Keys
<1>8. Pairs(t) = Pairs(s) \union {<<e.key, e.val>>}
  <2>1. \A j \in 1..n : <<t[j].key, t[j].val>> = <<s[j].key, s[j].val>>
    BY <1>3
  <2>2. <<t[n + 1].key, t[n + 1].val>> = <<e.key, e.val>>
    BY <1>3
  <2>3. QED
    BY <1>2, <1>4, <1>5, <2>1, <2>2 DEF Pairs
<1>9. QED
  BY <1>6, <1>7, <1>8 DEF t

(* Without an entry: what is in the object, and its commas.                  *)
LEMMA WithoutIs ==
  ASSUME NEW s, Object(s), NEW i \in DOMAIN s
  PROVE  LET t == Settings!Without(s, i)
             n == Len(s)
             From(j) == s[IF j < i THEN j ELSE j + 1]
         IN  /\ t \in Seq(Entry) /\ Len(t) = n - 1
             /\ \A j \in 1..(n - 1) : /\ t[j].key = From(j).key /\ t[j].val = From(j).val
                                      /\ j < n - 1 => t[j].comma
<1> DEFINE n == Len(s)
           From(j) == s[IF j < i THEN j ELSE j + 1]
<1>1. s \in Seq(Entry) /\ Settings!Parses(s)
  BY DEF Object
<1>2. /\ n \in Nat /\ DOMAIN s = 1..n /\ i \in 1..n
      /\ \A j \in 1..n : j < n => s[j].comma
  BY <1>1, ObjectIs
<1>3. \A j \in 1..(n - 1) : /\ (IF j < i THEN j ELSE j + 1) \in 1..n
                            /\ j < n - 1 => (IF j < i THEN j ELSE j + 1) < n
  BY <1>2
<1>4. CASE s[i].comma \/ i = 1
  <2>1. Settings!Without(s, i) = Settings!RemoveAt(s, i)
    BY <1>4 DEF Settings!Without
  <2>2. /\ Settings!RemoveAt(s, i) \in Seq(Entry) /\ Len(Settings!RemoveAt(s, i)) = n - 1
        /\ \A j \in 1..(n - 1) : Settings!RemoveAt(s, i)[j] = From(j)
    BY <1>1, RemovedAt
  <2>3. \A j \in 1..(n - 1) : j < n - 1 => From(j).comma
    BY <1>2, <1>3
  <2>4. QED
    BY <2>1, <2>2, <2>3
<1>5. CASE ~s[i].comma /\ i # 1
  <2> DEFINE m == [s EXCEPT ![i - 1].comma = FALSE]
  <2>1. i = n /\ i - 1 \in DOMAIN s
    BY <1>2, <1>5
  <2>2. /\ m \in Seq(Entry) /\ Len(m) = n
        /\ \A j \in 1..n : /\ m[j].key = s[j].key /\ m[j].val = s[j].val
                           /\ m[j].comma = IF j = i - 1 THEN FALSE ELSE s[j].comma
    BY <1>1, <2>1, Punctuated
  <2>3. Settings!Without(s, i) = Settings!RemoveAt(m, i)
    BY <1>5 DEF Settings!Without
  <2> HIDE DEF m
  <2>4. i \in DOMAIN m
    BY <1>2, <2>2, ObjectIs
  <2>5. /\ Settings!RemoveAt(m, i) \in Seq(Entry) /\ Len(Settings!RemoveAt(m, i)) = n - 1
        /\ \A j \in 1..(n - 1) : Settings!RemoveAt(m, i)[j] = m[IF j < i THEN j ELSE j + 1]
    BY <2>2, <2>4, RemovedAt
  <2>6. \A j \in 1..(n - 1) : /\ j \in 1..n /\ j < i
                              /\ j < n - 1 => j # i - 1 /\ j < n
    <3>1. n \in Nat /\ i = n
      BY <1>2, <2>1
    <3>2. QED
      BY <3>1
  <2>7. \A j \in 1..(n - 1) : Settings!RemoveAt(m, i)[j] = m[j] /\ From(j) = s[j]
    BY <2>5, <2>6
  <2>8. \A j \in 1..(n - 1) : j < n - 1 => m[j].comma
    BY <1>2, <2>2, <2>6
  <2>9. \A j \in 1..(n - 1) : m[j].key = From(j).key /\ m[j].val = From(j).val
    BY <2>2, <2>6, <2>7
  <2> HIDE DEF From
  <2>10. QED
    BY <2>3, <2>5, <2>7, <2>8, <2>9 DEF From
<1>6. QED
  BY <1>4, <1>5

(* It parses, and lacks that key and that pair.                              *)
LEMMA WithoutKeeps ==
  ASSUME NEW s, Object(s), NEW i \in DOMAIN s
  PROVE  /\ Object(Settings!Without(s, i))
         /\ Settings!Keys(Settings!Without(s, i)) = Settings!Keys(s) \ {s[i].key}
         /\ Pairs(Settings!Without(s, i)) = Pairs(s) \ {<<s[i].key, s[i].val>>}
<1> DEFINE t == Settings!Without(s, i)
           n == Len(s)
           from(j) == IF j < i THEN j ELSE j + 1
<1>1. s \in Seq(Entry) /\ Settings!Parses(s)
  BY DEF Object
<1>2. /\ n \in Nat /\ DOMAIN s = 1..n /\ i \in 1..n
      /\ \A j, k \in 1..n : s[j].key = s[k].key => j = k
  BY <1>1, ObjectIs
<1>3. /\ t \in Seq(Entry) /\ Len(t) = n - 1
      /\ \A j \in 1..(n - 1) : t[j].key = s[from(j)].key /\ t[j].val = s[from(j)].val
      /\ \A j \in 1..(n - 1) : j < n - 1 => t[j].comma
  BY WithoutIs
<1> HIDE DEF t
<1>4. DOMAIN t = 1..(n - 1)
  BY <1>3, LenProperties
<1>5. /\ \A j \in 1..(n - 1) : from(j) \in 1..n /\ from(j) # i
      /\ \A j, k \in 1..(n - 1) : from(j) = from(k) => j = k
      /\ \A m \in 1..n : m # i => \E j \in 1..(n - 1) : from(j) = m
  <2>0. n \in Nat /\ i \in 1..n
    BY <1>2
  <2>1. \A j \in 1..(n - 1) : from(j) \in 1..n /\ from(j) # i
    BY <2>0
  <2>2. \A j, k \in 1..(n - 1) : from(j) = from(k) => j = k
    BY <2>0
  <2>3. ASSUME NEW m \in 1..n, m # i PROVE \E j \in 1..(n - 1) : from(j) = m
    <3>1. CASE m < i
      <4>1. m \in 1..(n - 1) /\ from(m) = m
        BY <2>0, <3>1
      <4>2. QED
        BY <4>1
    <3>2. CASE m > i
      <4>1. m - 1 \in 1..(n - 1) /\ from(m - 1) = m
        BY <2>0, <3>2
      <4>2. QED
        BY <4>1
    <3>3. m < i \/ m > i
      BY <2>0, <2>3
    <3>4. QED
      BY <3>1, <3>2, <3>3
  <2>4. QED
    BY <2>1, <2>2, <2>3
<1> HIDE DEF from
<1>6. Object(t)
  <2>1. \A j, k \in 1..(n - 1) : t[j].key = t[k].key => j = k
    <3> SUFFICES ASSUME NEW j \in 1..(n - 1), NEW k \in 1..(n - 1), t[j].key = t[k].key
                 PROVE  j = k
      OBVIOUS
    <3>1. s[from(j)].key = s[from(k)].key /\ from(j) \in 1..n /\ from(k) \in 1..n
      BY <1>3, <1>5
    <3>2. from(j) = from(k)
      BY <1>2, <3>1
    <3>3. QED
      BY <1>5, <3>2
  <2>2. QED
    BY <1>3, <2>1, ObjectIs DEF Object
<1>7. Settings!Keys(t) = Settings!Keys(s) \ {s[i].key}
  <2>1. ASSUME NEW x \in Settings!Keys(t) PROVE x \in Settings!Keys(s) /\ x # s[i].key
    <3>1. PICK j \in 1..(n - 1) : x = t[j].key
      BY <1>4 DEF Settings!Keys
    <3>2. x = s[from(j)].key /\ from(j) \in 1..n /\ from(j) # i
      BY <1>3, <1>5, <3>1
    <3>3. QED
      BY <1>2, <3>2 DEF Settings!Keys
  <2>2. ASSUME NEW x \in Settings!Keys(s), x # s[i].key PROVE x \in Settings!Keys(t)
    <3>1. PICK m \in 1..n : x = s[m].key /\ m # i
      BY <1>2, <2>2 DEF Settings!Keys
    <3>2. PICK j \in 1..(n - 1) : from(j) = m
      BY <1>5, <3>1
    <3>3. t[j].key = x
      BY <1>3, <3>1, <3>2
    <3>4. QED
      BY <1>4, <3>3 DEF Settings!Keys
  <2>3. QED
    BY <2>1, <2>2
<1>8. Pairs(t) = Pairs(s) \ {<<s[i].key, s[i].val>>}
  <2>1. ASSUME NEW x \in Pairs(t) PROVE x \in Pairs(s) /\ x # <<s[i].key, s[i].val>>
    <3>1. PICK j \in 1..(n - 1) : x = <<t[j].key, t[j].val>>
      BY <1>4 DEF Pairs
    <3>2. x = <<s[from(j)].key, s[from(j)].val>> /\ from(j) \in 1..n /\ from(j) # i
      BY <1>3, <1>5, <3>1
    <3>3. s[from(j)].key # s[i].key
      BY <1>2, <3>2
    <3>4. x \in Pairs(s)
      BY <1>2, <3>2 DEF Pairs
    <3>5. QED
      BY <3>2, <3>3, <3>4
  <2>2. ASSUME NEW x \in Pairs(s), x # <<s[i].key, s[i].val>> PROVE x \in Pairs(t)
    <3>1. PICK m \in 1..n : x = <<s[m].key, s[m].val>> /\ m # i
      BY <1>2, <2>2 DEF Pairs
    <3>2. PICK j \in 1..(n - 1) : from(j) = m
      BY <1>5, <3>1
    <3>3. <<t[j].key, t[j].val>> = x
      BY <1>3, <3>1, <3>2
    <3>4. QED
      BY <1>4, <3>3 DEF Pairs
  <2>3. QED
    BY <2>1, <2>2
<1>9. QED
  BY <1>6, <1>7, <1>8 DEF t

(* Our entry rewritten: the other pairs stay.                                *)
LEMMA Renewed ==
  ASSUME NEW s, Object(s), NEW i \in DOMAIN s, s[i].key = "ours"
  PROVE  LET t == [s EXCEPT ![i].val = "new"]
             own == {<<"ours", v>> : v \in Values}
         IN  Object(t) /\ Settings!Keys(t) = Settings!Keys(s) /\ Pairs(t) \ own = Pairs(s) \ own
<1> DEFINE e == [s[i] EXCEPT !.val = "new"]
           t == [s EXCEPT ![i] = e]
           own == {<<"ours", v>> : v \in Values}
           n == Len(s)
<1>1. s \in Seq(Entry) /\ Settings!Parses(s)
  BY DEF Object
<1>2. /\ n \in Nat /\ DOMAIN s = 1..n /\ i \in 1..n /\ s[i] \in Entry
      /\ \A j \in 1..n : j < n => s[j].comma
      /\ \A j, k \in 1..n : s[j].key = s[k].key => j = k
  BY <1>1, ObjectIs
<1>3. e \in Entry /\ e.key = s[i].key /\ e.val = "new" /\ e.comma = s[i].comma
  BY <1>2, EntryUpdated
<1>4. t = [s EXCEPT ![i].val = "new"]
  OBVIOUS
<1> HIDE DEF e
<1>5. t \in Seq(Entry) /\ Len(t) = n /\ \A j \in 1..n : t[j] = IF j = i THEN e ELSE s[j]
  BY <1>1, <1>2, <1>3, ExceptSeq
<1> HIDE DEF t
<1>6. /\ DOMAIN t = 1..n
      /\ \A j \in 1..n : t[j].key = s[j].key /\ t[j].comma = s[j].comma
      /\ \A j \in 1..n : j # i => t[j].val = s[j].val
  BY <1>3, <1>5, LenProperties
<1>7. Object(t)
  BY <1>1, <1>2, <1>5, <1>6, ObjectIs DEF Object
<1>8. Settings!Keys(t) = Settings!Keys(s)
  BY <1>2, <1>6 DEF Settings!Keys
<1>9. s[i].val \in Values /\ t[i].key = "ours" /\ t[i].val = "new"
  BY <1>2, <1>3, <1>5 DEF Entry
<1>10. \A j \in 1..n : j # i => <<t[j].key, t[j].val>> = <<s[j].key, s[j].val>>
  BY <1>6
<1>11. <<t[i].key, t[i].val>> \in own /\ <<s[i].key, s[i].val>> \in own
  BY <1>9 DEF Values
<1> HIDE DEF own
<1>12. Pairs(t) \ own = Pairs(s) \ own
  BY <1>2, <1>6, <1>10, <1>11 DEF Pairs
<1>13. QED
  BY <1>4, <1>7, <1>8, <1>12 DEF own

-----------------------------------------------------------------------------
(* The texts a settings file can hold.                                       *)
Own      == {<<"ours", v>> : v \in Values}
Sound(t) ==
  \/ t = Settings!Empty \/ t = Settings!Cut
  \/ \E r, s : /\ t = Settings!Text(r, s) /\ Object(r) /\ Object(s)
               /\ "agents" \notin Settings!Keys(r) => s = <<>>

(* What a text says of others' entries.                                      *)
LEMMA TextIs ==
  ASSUME NEW r, NEW s, Object(r), Object(s), "agents" \notin Settings!Keys(r) => s = <<>>
  PROVE  /\ Settings!Text(r, s).is = "object" /\ Settings!Text(r, s).root = r
         /\ Settings!Text(r, s).servers = s
         /\ Settings!Text(r, s) # Settings!Empty /\ Settings!Text(r, s) # Settings!Cut
         /\ Sound(Settings!Text(r, s)) /\ Settings!Valid(Settings!Text(r, s))
         /\ Settings!Servers(Settings!Text(r, s)) = s
         /\ Settings!Foreign(Settings!Text(r, s)) = [root |-> Settings!Keys(r) \ {"agents"},
                                                     servers |-> Pairs(s) \ Own]
<1> DEFINE t == Settings!Text(r, s)
<1>1. /\ t.is = "object" /\ t.root = r /\ t.servers = s
      /\ t # Settings!Empty /\ t # Settings!Cut
  BY DEF Settings!Text, Settings!Empty, Settings!Cut
<1>2. Sound(t)
  BY DEF Sound
<1>3. Settings!Valid(t)
  BY <1>1 DEF Settings!Valid, Object
<1>4. Settings!Servers(t) = s
  BY <1>1 DEF Settings!Servers
<1> HIDE DEF t
<1>5. {<<e.key, e.val>> : e \in {s[i] : i \in DOMAIN s}} = Pairs(s)
  BY DEF Pairs
<1>6. Settings!Foreign(t) = [root |-> Settings!Keys(r) \ {"agents"}, servers |-> Pairs(s) \ Own]
  BY <1>1, <1>4, <1>5 DEF Settings!Foreign, Own, Values
<1>7. QED
  BY <1>1, <1>2, <1>3, <1>4, <1>6 DEF t

(* A new object with one entry, or none.                                     *)
LEMMA Single ==
  /\ \A e \in Entry : /\ Object(<<e>>) /\ Settings!Keys(<<e>>) = {e.key}
                      /\ Pairs(<<e>>) = {<<e.key, e.val>>}
  /\ Object(<<>>) /\ Settings!Keys(<<>>) = {} /\ Pairs(<<>>) = {}
<1>1. ASSUME NEW e \in Entry
      PROVE  Object(<<e>>) /\ Settings!Keys(<<e>>) = {e.key} /\ Pairs(<<e>>) = {<<e.key, e.val>>}
  <2>1. <<e>> \in Seq(Entry) /\ Len(<<e>>) = 1 /\ DOMAIN <<e>> = {1} /\ <<e>>[1] = e
    OBVIOUS
  <2>2. \A i, j \in DOMAIN <<e>> : i = j
    BY <2>1
  <2>3. \A i \in 1..Len(<<e>>) - 1 : <<e>>[i].comma
    BY <2>1
  <2>4. Object(<<e>>)
    BY <2>1, <2>2, <2>3 DEF Object, Settings!Parses
  <2>5. QED
    BY <2>1, <2>4 DEF Settings!Keys, Pairs
<1>2. Object(<<>>) /\ Settings!Keys(<<>>) = {} /\ Pairs(<<>>) = {}
  <2>1. <<>> \in Seq(Entry) /\ Len(<<>>) = 0 /\ DOMAIN <<>> = {}
    OBVIOUS
  <2>2. QED
    BY <2>1 DEF Object, Settings!Parses, Settings!Keys, Pairs
<1>3. QED
  BY <1>1, <1>2

(* Without a brace in a comment the scanner finds every entry.               *)
LEMMA AllFound ==
  ASSUME "braced" \notin Scalars, NEW s, Object(s)
  PROVE  ~Settings!Braced(s) /\ Settings!Found(s) = Settings!Keys(s)
<1>1. \A i \in DOMAIN s : s[i] \in Entry
  BY ElementOfSeq DEF Object
<1>2. \A i \in DOMAIN s : s[i].val # "braced"
  BY <1>1 DEF Entry, Values
<1>3. ~Settings!Braced(s)
  BY <1>2 DEF Settings!Braced
<1>4. \A i \in DOMAIN s : \A j \in 1..i - 1 : j \in DOMAIN s
  <2>1. DOMAIN s = 1..Len(s) /\ Len(s) \in Nat
    BY LenProperties DEF Object
  <2>2. QED
    BY <2>1
<1>5. Settings!Seen(s) = DOMAIN s
  BY <1>2, <1>4 DEF Settings!Seen
<1>6. QED
  BY <1>3, <1>5 DEF Settings!Found, Settings!Keys

(* If what Behind makes parses, the comma is where it should be.             *)
LEMMA BehindIs ==
  ASSUME "braced" \notin Scalars, NEW s, Object(s), NEW e \in Entry,
         Settings!Parses(Settings!Behind(s, e))
  PROVE  Settings!Behind(s, e) = Settings!Added(s, e)
<1>1. ~Settings!Braced(s)
  BY AllFound
<1>2. CASE s # <<>> /\ Settings!Last(s).val = "noted" /\ ~Settings!Last(s).comma
  <2> DEFINE n == Len(s)
             t == Append(s, e)
  <2>1. Settings!Behind(s, e) = t /\ Settings!Last(s) = s[n]
    BY <1>1, <1>2 DEF Settings!Behind, Settings!Last
  <2>2. s \in Seq(Entry) /\ n \in Nat /\ n >= 1
    <3>1. s \in Seq(Entry)
      BY DEF Object
    <3>2. n \in Nat /\ n # 0
      BY <1>2, <3>1, EmptySeq, LenProperties
    <3>3. QED
      BY <3>1, <3>2
  <2>3. Len(t) = n + 1 /\ t[n] = s[n]
    BY <2>2, AppendProperties
  <2>4. n \in 1..Len(t) - 1
    BY <2>2, <2>3
  <2>5. t[n].comma
    BY <2>1, <2>4 DEF Settings!Parses
  <2>6. QED
    BY <1>2, <2>1, <2>3, <2>5
<1>3. CASE ~(s # <<>> /\ Settings!Last(s).val = "noted" /\ ~Settings!Last(s).comma)
  BY <1>1, <1>3 DEF Settings!Behind
<1>4. QED
  BY <1>2, <1>3

(* The entries the installer writes.                                         *)
LEMMA Written ==
  /\ Settings!Ours \in Entry /\ Settings!Ours.key = "ours" /\ Settings!Ours.val = "new"
  /\ LET agents == Settings!Item("agents", "old", FALSE)
     IN  agents \in Entry /\ agents.key = "agents"
BY DEF Settings!Ours, Settings!Item, Entry, Values

(* An install of a text that parses: it parses still, has our entry, and     *)
(* everything else it had.                                                   *)
LEMMA InstallEdits ==
  ASSUME "braced" \notin Scalars, NEW t, Sound(t), t.is # "cut",
         Settings!Valid(Settings!Installed(t))
  PROVE  LET m == Settings!Installed(t)
         IN  /\ Sound(m) /\ Settings!Valid(m) /\ m # Settings!Empty /\ m # Settings!Cut
             /\ "ours" \in Settings!Keys(Settings!Servers(m))
             /\ Settings!Foreign(m) = Settings!Foreign(t)
<1> DEFINE agents == Settings!Item("agents", "old", FALSE)
<1>0. /\ Settings!Ours \in Entry /\ Settings!Ours.key = "ours" /\ Settings!Ours.val = "new"
      /\ agents \in Entry /\ agents.key = "agents"
  BY Written
<1> HIDE DEF agents
<1>1. CASE t = Settings!Empty
  <2>1. Settings!Foreign(t) = [root |-> {}, servers |-> {}]
    <3>1. t.is # "object" /\ Settings!Servers(t) = <<>> /\ DOMAIN <<>> = {}
      BY <1>1 DEF Settings!Empty, Settings!Servers
    <3>2. QED
      BY <3>1 DEF Settings!Foreign
  <2>2. Settings!Installed(t) = Settings!Text(<<agents>>, <<Settings!Ours>>)
    <3>1. t.is = "empty" /\ ~Settings!HoldsOurs(t)
      BY <1>1 DEF Settings!Empty, Settings!HoldsOurs
    <3>2. QED
      BY <3>1 DEF Settings!Installed, agents
  <2>3. /\ Object(<<agents>>) /\ Settings!Keys(<<agents>>) = {"agents"}
        /\ Object(<<Settings!Ours>>) /\ Settings!Keys(<<Settings!Ours>>) = {"ours"}
        /\ Pairs(<<Settings!Ours>>) = {<<"ours", "new">>}
    BY <1>0, Single
  <2>4. Settings!Keys(<<agents>>) \ {"agents"} = {} /\ Pairs(<<Settings!Ours>>) \ Own = {}
    BY <2>3 DEF Own, Values
  <2> DEFINE m == Settings!Text(<<agents>>, <<Settings!Ours>>)
  <2>5. /\ Sound(m) /\ Settings!Valid(m) /\ m # Settings!Empty /\ m # Settings!Cut
        /\ Settings!Servers(m) = <<Settings!Ours>>
        /\ Settings!Foreign(m) = [root |-> Settings!Keys(<<agents>>) \ {"agents"},
                                  servers |-> Pairs(<<Settings!Ours>>) \ Own]
    BY <2>3, TextIs
  <2> HIDE DEF m
  <2>6. QED
    BY <2>1, <2>2, <2>3, <2>4, <2>5 DEF m
<1>2. CASE t # Settings!Empty
  <2>0. t # Settings!Cut
    BY DEF Settings!Cut
  <2>1. PICK r, s : /\ t = Settings!Text(r, s) /\ Object(r) /\ Object(s)
                    /\ "agents" \notin Settings!Keys(r) => s = <<>>
    BY <1>2, <2>0 DEF Sound
  <2>2. /\ t.is = "object" /\ t.root = r /\ t.servers = s /\ Settings!Servers(t) = s
        /\ Settings!Foreign(t) = [root |-> Settings!Keys(r) \ {"agents"},
                                  servers |-> Pairs(s) \ Own]
    BY <2>1, TextIs
  <2>7. /\ Settings!Found(r) = Settings!Keys(r) /\ Settings!Found(s) = Settings!Keys(s)
        /\ ~Settings!Braced(r)
    BY <2>1, AllFound
  <2>8. Settings!HoldsOurs(t) <=> "agents" \in Settings!Keys(r) /\ "ours" \in Settings!Keys(s)
    BY <2>2, <2>7 DEF Settings!HoldsOurs
  <2>9. t.is # "empty"
    BY <2>2
  <2>3. CASE "agents" \notin Settings!Keys(r)
    <3>1. s = <<>> /\ Settings!Keys(s) = {} /\ Pairs(s) = {}
      BY <2>1, <2>3, Single
    <3>2. Settings!Installed(t) = Settings!Text(Settings!Added(r, agents), <<Settings!Ours>>)
      <4>1. Settings!Installed(t) = Settings!Text(Settings!Behind(r, agents),
                                                <<Settings!Ours>>)
        BY <2>2, <2>3, <2>7, <2>8, <2>9 DEF Settings!Installed, agents
      <4>2. Settings!Parses(Settings!Behind(r, agents))
        BY <4>1 DEF Settings!Valid, Settings!Text
      <4>3. Settings!Behind(r, agents) = Settings!Added(r, agents)
        BY <1>0, <2>1, <4>2, BehindIs
      <4>4. QED
        BY <4>1, <4>3
    <3>3. Object(Settings!Added(r, agents))
          /\ Settings!Keys(Settings!Added(r, agents)) = Settings!Keys(r) \union {"agents"}
      BY <1>0, <2>1, <2>3, AddedKeeps
    <3>4. Object(<<Settings!Ours>>) /\ Settings!Keys(<<Settings!Ours>>) = {"ours"}
                                    /\ Pairs(<<Settings!Ours>>) = {<<"ours", "new">>}
      BY <1>0, Single
    <3>5. /\ Settings!Keys(Settings!Added(r, agents)) \ {"agents"} = Settings!Keys(r) \ {"agents"}
          /\ Pairs(<<Settings!Ours>>) \ Own = Pairs(s) \ Own
      BY <3>1, <3>3, <3>4 DEF Own, Values
    <3> DEFINE m == Settings!Text(Settings!Added(r, agents), <<Settings!Ours>>)
    <3>6. /\ Sound(m) /\ Settings!Valid(m) /\ m # Settings!Empty /\ m # Settings!Cut
          /\ Settings!Servers(m) = <<Settings!Ours>>
          /\ Settings!Foreign(m) = [root |-> Settings!Keys(Settings!Added(r, agents)) \ {"agents"},
                           servers |-> Pairs(<<Settings!Ours>>) \ Own]
      BY <3>3, <3>4, TextIs
    <3>7. Settings!Installed(t) = m
      BY <3>2
    <3> HIDE DEF m
    <3>8. QED
      BY <2>2, <3>4, <3>5, <3>6, <3>7
  <2>4. CASE "agents" \in Settings!Keys(r) /\ "ours" \in Settings!Keys(s)
    <3> DEFINE i == Settings!Place(s, "ours")
               renewed == [s EXCEPT ![i].val = "new"]
    <3>1. i \in DOMAIN s /\ s[i].key = "ours"
      BY <2>4, Placed
    <3>2. Settings!Installed(t) = [t EXCEPT !.servers[i].val = "new"]
      BY <2>2, <2>4, <2>7, <2>8, <2>9 DEF Settings!Installed
    <3>3. [t EXCEPT !.servers[i].val = "new"] = Settings!Text(r, renewed)
      BY <2>1 DEF Settings!Text
    <3>4. Object(renewed) /\ Settings!Keys(renewed) = Settings!Keys(s)
                          /\ Pairs(renewed) \ Own = Pairs(s) \ Own
      BY <2>1, <3>1, Renewed DEF Own
    <3> HIDE DEF i, renewed
    <3>5. Settings!Installed(t) = Settings!Text(r, renewed)
      BY <3>2, <3>3
    <3> DEFINE m == Settings!Text(r, renewed)
    <3>6. /\ Sound(m) /\ Settings!Valid(m) /\ m # Settings!Empty /\ m # Settings!Cut
          /\ Settings!Servers(m) = renewed
          /\ Settings!Foreign(m) = [root |-> Settings!Keys(r) \ {"agents"},
                                    servers |-> Pairs(renewed) \ Own]
      BY <2>1, <2>4, <3>4, TextIs
    <3>7. /\ Settings!Installed(t) = m
          /\ [root |-> Settings!Keys(r) \ {"agents"}, servers |-> Pairs(renewed) \ Own]
               = [root |-> Settings!Keys(r) \ {"agents"}, servers |-> Pairs(s) \ Own]
          /\ "ours" \in Settings!Keys(renewed)
      BY <2>4, <3>4, <3>5
    <3> HIDE DEF m
    <3>8. QED
      BY <2>2, <3>6, <3>7
  <2>5. CASE "agents" \in Settings!Keys(r) /\ "ours" \notin Settings!Keys(s)
    <3>1. Settings!Installed(t) = [t EXCEPT !.servers = Settings!Behind(s, Settings!Ours)]
      BY <2>2, <2>5, <2>7, <2>8, <2>9 DEF Settings!Installed
    <3>2. Settings!Installed(t) = Settings!Text(r, Settings!Added(s, Settings!Ours))
      <4>1. Settings!Installed(t) = Settings!Text(r, Settings!Behind(s, Settings!Ours))
        BY <2>1, <3>1 DEF Settings!Text
      <4>2. Settings!Parses(Settings!Behind(s, Settings!Ours))
        BY <4>1 DEF Settings!Valid, Settings!Text
      <4>3. Settings!Behind(s, Settings!Ours) = Settings!Added(s, Settings!Ours)
        BY <1>0, <2>1, <4>2, BehindIs
      <4>4. QED
        BY <4>1, <4>3
    <3>3. /\ Object(Settings!Added(s, Settings!Ours))
          /\ Settings!Keys(Settings!Added(s, Settings!Ours)) = Settings!Keys(s) \union {"ours"}
          /\ Pairs(Settings!Added(s, Settings!Ours)) = Pairs(s) \union {<<"ours", "new">>}
      BY <1>0, <2>1, <2>5, AddedKeeps
    <3>4. Pairs(Settings!Added(s, Settings!Ours)) \ Own = Pairs(s) \ Own
      BY <3>3 DEF Own, Values
    <3>5. QED
      BY <2>1, <2>2, <2>5, <3>2, <3>3, <3>4, TextIs
  <2>6. QED
    BY <2>3, <2>4, <2>5
<1>3. QED
  BY <1>1, <1>2

(* An uninstall of a text that has our entry: it parses still, and has all   *)
(* the others.                                                               *)
LEMMA UninstallEdits ==
  ASSUME "braced" \notin Scalars, NEW t, Sound(t), Settings!HoldsOurs(t)
  PROVE  LET m == Settings!Uninstalled(t)
         IN  /\ Sound(m) /\ Settings!Valid(m) /\ m # Settings!Empty /\ m # Settings!Cut
             /\ "ours" \notin Settings!Keys(Settings!Servers(m))
             /\ Settings!Foreign(m) = Settings!Foreign(t)
<1>1. t # Settings!Empty /\ t # Settings!Cut
  <2>1. ASSUME t = Settings!Empty \/ t = Settings!Cut PROVE FALSE
    <3>1. t.is # "object"
      BY <2>1 DEF Settings!Empty, Settings!Cut
    <3>2. QED
      BY <3>1 DEF Settings!HoldsOurs
  <2>2. QED
    BY <2>1
<1>2. PICK r, s : /\ t = Settings!Text(r, s) /\ Object(r) /\ Object(s)
                  /\ "agents" \notin Settings!Keys(r) => s = <<>>
  BY <1>1 DEF Sound
<1>3. /\ t.is = "object" /\ t.root = r /\ t.servers = s /\ Settings!Servers(t) = s
      /\ Settings!Foreign(t) = [root |-> Settings!Keys(r) \ {"agents"}, servers |-> Pairs(s) \ Own]
  BY <1>2, TextIs
<1>4. "ours" \in Settings!Keys(s) /\ "agents" \in Settings!Keys(r)
  BY <1>2, <1>3, AllFound DEF Settings!HoldsOurs
<1> DEFINE i == Settings!Place(s, "ours")
           j == Settings!Place(r, "agents")
           left == Settings!Without(s, i)
           root == Settings!Without(r, j)
<1>5. i \in DOMAIN s /\ s[i].key = "ours" /\ j \in DOMAIN r /\ r[j].key = "agents"
  BY <1>4, Placed
<1>6. s[i].val \in Values
  <2>1. s \in Seq(Entry)
    BY <1>2 DEF Object
  <2>2. s[i] \in Entry
    BY <1>5, <2>1, ObjectIs
  <2>3. QED
    BY <2>2 DEF Entry
<1>7. <<s[i].key, s[i].val>> \in Own
  BY <1>5, <1>6 DEF Own
<1>8. Settings!Uninstalled(t) = IF left = <<>> THEN Settings!Text(root, <<>>)
      ELSE Settings!Text(r, left)
  <2>1. [t EXCEPT !.servers = left] = Settings!Text(r, left)
    BY <1>2 DEF Settings!Text
  <2>2. QED
    BY <1>3, <2>1 DEF Settings!Uninstalled
<1> HIDE DEF i, j
<1>9. /\ Object(left) /\ Settings!Keys(left) = Settings!Keys(s) \ {"ours"}
      /\ Pairs(left) = Pairs(s) \ {<<s[i].key, s[i].val>>}
  BY <1>2, <1>5, WithoutKeeps
<1>10. Object(root) /\ Settings!Keys(root) = Settings!Keys(r) \ {"agents"}
  BY <1>2, <1>5, WithoutKeeps
<1>11. Pairs(left) \ Own = Pairs(s) \ Own
  BY <1>7, <1>9
<1> HIDE DEF left, root
<1>12. CASE left = <<>>
  <2> DEFINE m == Settings!Text(root, <<>>)
  <2>1. /\ Sound(m) /\ Settings!Valid(m) /\ m # Settings!Empty /\ m # Settings!Cut
        /\ Settings!Servers(m) = <<>>
        /\ Settings!Foreign(m) = [root |-> Settings!Keys(root) \ {"agents"},
                                  servers |-> Pairs(<<>>) \ Own]
    BY <1>10, Single, TextIs
  <2>2. /\ Settings!Uninstalled(t) = m /\ Pairs(<<>>) \ Own = Pairs(s) \ Own
        /\ Settings!Keys(root) \ {"agents"} = Settings!Keys(r) \ {"agents"}
        /\ Settings!Keys(<<>>) = {}
    BY <1>8, <1>10, <1>11, <1>12, Single
  <2> HIDE DEF m
  <2>3. QED
    BY <1>3, <2>1, <2>2
<1>13. CASE left # <<>>
  <2> DEFINE m == Settings!Text(r, left)
  <2>1. /\ Sound(m) /\ Settings!Valid(m) /\ m # Settings!Empty /\ m # Settings!Cut
        /\ Settings!Servers(m) = left
        /\ Settings!Foreign(m) = [root |-> Settings!Keys(r) \ {"agents"},
                                  servers |-> Pairs(left) \ Own]
    BY <1>2, <1>4, <1>9, TextIs
  <2>2. Settings!Uninstalled(t) = m /\ "ours" \notin Settings!Keys(left)
    BY <1>8, <1>9, <1>13
  <2> HIDE DEF m
  <2>3. QED
    BY <1>3, <1>11, <2>1, <2>2
<1>14. QED
  BY <1>12, <1>13

(* What a command makes of a text it does not refuse.                        *)
Made(c, t, m) ==
  /\ Sound(m) /\ Settings!Valid(m) /\ m # Settings!Empty /\ m # Settings!Cut
  /\ (c \in Installs) <=> ("ours" \in Settings!Keys(Settings!Servers(m)))
  /\ Settings!Foreign(m) = Settings!Foreign(t)

(* An edit that is not refused makes what it should of a sound text.         *)
LEMMA Edits ==
  ASSUME "braced" \notin Scalars, NEW c, NEW t, Sound(t), ~Settings!Refused(c, t),
         ~Settings!Spoilt(c, t)
  PROVE  Made(c, t, Settings!Edit(c, t))
<1>1. CASE c \in Installs
  <2>1. /\ Settings!Edit(c, t) = Settings!Installed(t) /\ t.is # "cut"
        /\ Settings!Valid(Settings!Installed(t))
    BY <1>1 DEF Settings!Edit, Settings!Refused, Settings!Spoilt
  <2>2. QED
    BY <1>1, <2>1, InstallEdits DEF Made
<1>2. CASE c \notin Installs
  <2>1. Settings!Edit(c, t) = Settings!Uninstalled(t) /\ Settings!HoldsOurs(t)
    BY <1>2 DEF Settings!Edit, Settings!Refused
  <2>2. QED
    BY <1>2, <2>1, UninstallEdits DEF Made
<1>3. QED
  BY <1>1, <1>2

-----------------------------------------------------------------------------
(* The state.                                                                *)
SettingsTexts == {Settings!Empty, Settings!Cut}
      \union {Settings!Text(r, s) : r \in Seq(Entry), s \in Seq(Entry)}
CommandSteps == {"idle", "done", "internal error", "backup", "temp", "rename", "rollback", "refill", "failed",
                 "killed"}
Underway == {"backup", "temp", "rename", "rollback", "refill"}
Command == [at : CommandSteps, read : SettingsTexts, made : SettingsTexts, since : Nat,
            kept : BOOLEAN]

(* A command under way holds a text it may edit, and the edit of it; only a  *)
(* failed replacement of a text that was there is rolled back.  The backup   *)
(* it took is the file, as long as nobody wrote either of them since.        *)
Doing(c) ==
  /\ editing[c].at \in {"idle", "backup"} => ~editing[c].kept
  /\ editing[c].at \in {"backup", "rollback", "refill"} => editing[c].read # Settings!Empty
  /\ editing[c].at \in Underway =>
       /\ Sound(editing[c].read) /\ ~Settings!Refused(c, editing[c].read)
       /\ ~Settings!Spoilt(c, editing[c].read)
       /\ editing[c].made = Settings!Edit(c, editing[c].read)
  /\ editing[c].since <= changes
  /\ editing[c].kept /\ editing[c].since = changes /\ ~Settings!Warned => backup = file

SettingsInv ==
  /\ "braced" \notin Scalars
  /\ Sound(file) /\ changes \in Nat /\ editing \in [Commands -> Command]
  /\ \A c \in Commands : Doing(c)

(* Every sound text is one of these.                                         *)
LEMMA SoundTexts == \A t : Sound(t) => t \in SettingsTexts
BY DEF Sound, SettingsTexts, Object

(* The texts of the initial file.                                            *)
LEMMA ObjectsAre ==
  ASSUME MaxEntries \in Nat, NEW keys, keys \subseteq Others \union {"ours", "agents", "theme"},
         NEW o \in Settings!Objects(keys)
  PROVE  Object(o)
<1>1. PICK n \in 0..MaxEntries : o \in [1..n -> Settings!Entries(keys)]
  BY DEF Settings!Objects
<1>2. Settings!Parses(o)
  BY DEF Settings!Objects
<1>3. n \in Nat /\ Settings!Entries(keys) \subseteq Entry
  BY DEF Entry, Values, Settings!Entries
<1>4. o \in [1..n -> Entry]
  BY <1>1, <1>3
<1>5. QED
  BY <1>2, <1>3, <1>4 DEF Object

(* They are sound.                                                           *)
LEMMA InitialTexts == MaxEntries \in Nat => \A t \in Settings!Texts : Sound(t)
<1> SUFFICES ASSUME MaxEntries \in Nat, NEW t \in Settings!Texts PROVE Sound(t)
  OBVIOUS
<1> DEFINE full == {o \in Settings!Roots : Settings!Agents(o)}
           bare == {o \in Settings!Roots : ~Settings!Agents(o)}
           list == Settings!Objects(Others \union {"ours"})
           A == {Settings!Text(r, s) : r \in full, s \in list}
           B == {Settings!Text(r, <<>>) : r \in bare}
<1>1. t \in {Settings!Empty, Settings!Cut} \union A \union B
  <2>1. Settings!AnyText = {Settings!Empty, Settings!Cut} \union A \union B
    BY DEF Settings!AnyText
  <2> HIDE DEF A, B
  <2>2. t \in Settings!AnyText
    BY DEF Settings!Texts
  <2>3. QED
    BY <2>1, <2>2
<1> HIDE DEF full, bare, list
<1>2. CASE t \in {Settings!Empty, Settings!Cut}
  BY <1>2 DEF Sound
<1>3. ASSUME t \in A PROVE Sound(t)
  <2>1. PICK r \in full, s \in list : t = Settings!Text(r, s)
    BY <1>3
  <2>2. Object(r) /\ Object(s) /\ "agents" \in Settings!Keys(r)
    BY ObjectsAre DEF full, list, Settings!Roots, Settings!Agents
  <2>3. QED
    BY <2>1, <2>2 DEF Sound
<1>4. ASSUME t \in B PROVE Sound(t)
  <2>1. PICK r \in bare : t = Settings!Text(r, <<>>)
    BY <1>4
  <2>2. Object(r) /\ Object(<<>>)
    BY <2>1, ObjectsAre, Single DEF bare, Settings!Roots
  <2>3. QED
    BY <2>1, <2>2 DEF Sound
<1>5. QED
  BY <1>1, <1>2, <1>3, <1>4

(* The invariant holds at first: no command has read the file.               *)
LEMMA InitSettings ==
  MaxEntries \in Nat /\ "braced" \notin Scalars /\ Settings!Init => SettingsInv
<1> SUFFICES ASSUME MaxEntries \in Nat, "braced" \notin Scalars, Settings!Init
      PROVE SettingsInv
  OBVIOUS
<1>1. Sound(file) /\ changes = 0 /\ editing = [c \in Commands |-> Settings!Idle]
  BY InitialTexts DEF Settings!Init
<1>2. Settings!Idle \in Command
  BY DEF Settings!Idle, Command, CommandSteps, SettingsTexts
<1>3. \A c \in Commands : editing[c] = Settings!Idle
  BY <1>1
<1>4. \A c \in Commands : Doing(c)
  BY <1>1, <1>3 DEF Doing, Settings!Idle, Underway
<1>5. QED
  BY <1>1, <1>2, <1>4 DEF SettingsInv

-----------------------------------------------------------------------------
(* Steps of one command.                                                     *)
LEMMA StepTaken ==
  ASSUME editing \in [Commands -> Command], NEW c \in Commands, NEW x \in CommandSteps,
         editing' = [editing EXCEPT ![c].at = x]
  PROVE  /\ editing' \in [Commands -> Command]
         /\ \A d \in Commands : d # c => editing'[d] = editing[d]
         /\ editing'[c].at = x /\ editing'[c].read = editing[c].read
         /\ editing'[c].made = editing[c].made
         /\ editing'[c].since = editing[c].since /\ editing'[c].kept = editing[c].kept
<1>1. editing[c] \in Command
  OBVIOUS
<1> DEFINE e == [editing[c] EXCEPT !.at = x]
<1>2. /\ e \in Command /\ e.at = x /\ e.read = editing[c].read /\ e.made = editing[c].made
      /\ e.since = editing[c].since /\ e.kept = editing[c].kept
  BY <1>1 DEF Command
<1>3. editing' = [editing EXCEPT ![c] = e]
  OBVIOUS
<1> HIDE DEF e
<1>4. QED
  BY <1>2, <1>3

(* A command that is past its backup keeps what it was warned of.            *)
LEMMA WarnedStays ==
  ASSUME editing \in [Commands -> Command], NEW c \in Commands, NEW x \in CommandSteps \ {"idle",
         "backup"},
         editing' = [editing EXCEPT ![c].at = x], Settings!Warned
  PROVE  Settings!Warned'
<1>1. PICK d \in Commands : /\ editing[d].at \notin {"idle", "backup"}
                            /\ editing[d].read # Settings!Empty /\ ~editing[d].kept
  BY DEF Settings!Warned
<1>2. /\ editing'[d].at \notin {"idle", "backup"}
      /\ editing'[d].read # Settings!Empty /\ ~editing'[d].kept
  BY <1>1, StepTaken
<1>3. QED
  BY <1>2 DEF Settings!Warned

(* A step of a command that writes nothing.                                  *)
LEMMA QuietStep ==
  ASSUME SettingsInv, NEW c \in Commands, NEW x \in CommandSteps \ {"idle", "backup"},
         editing' = [editing EXCEPT ![c].at = x], UNCHANGED <<file, backup, changes>>,
         x \in Underway => editing[c].at \in Underway,
         x \in {"rollback", "refill"} => editing[c].read # Settings!Empty
  PROVE  SettingsInv'
<1>1. /\ editing \in [Commands -> Command] /\ \A d \in Commands : Doing(d)
      /\ Sound(file) /\ changes \in Nat
  BY DEF SettingsInv
<1>2. /\ editing' \in [Commands -> Command]
      /\ \A d \in Commands : d # c => editing'[d] = editing[d]
      /\ editing'[c].at = x /\ editing'[c].read = editing[c].read
      /\ editing'[c].made = editing[c].made
      /\ editing'[c].since = editing[c].since /\ editing'[c].kept = editing[c].kept
  BY <1>1, StepTaken
<1>3. Settings!Warned => Settings!Warned'
  BY <1>1, WarnedStays
<1>4. ASSUME NEW d \in Commands, d # c PROVE Doing(d)'
  <2>1. Doing(d) /\ editing'[d] = editing[d]
    BY <1>1, <1>2, <1>4
  <2>2. QED
    BY <1>3, <2>1 DEF Doing
<1>5. Doing(c)'
  <2>1. Doing(c)
    BY <1>1
  <2>2. QED
    BY <1>2, <1>3, <2>1 DEF Doing
<1>6. Sound(file')
  BY <1>1
<1>7. QED
  BY <1>1, <1>2, <1>4, <1>5, <1>6 DEF SettingsInv

(* A write of the file: no backup is told to be the file any more.           *)
LEMMA FileWritten ==
  ASSUME SettingsInv, NEW c \in Commands, NEW x \in CommandSteps \ {"idle", "backup"},
         editing' = [editing EXCEPT ![c].at = x], Settings!Writes(file'), Sound(file'),
         x \in Underway => editing[c].at \in Underway,
         x \in {"rollback", "refill"} => editing[c].read # Settings!Empty
  PROVE  SettingsInv'
<1>1. /\ editing \in [Commands -> Command] /\ \A d \in Commands : Doing(d)
      /\ changes \in Nat /\ changes' = changes + 1
  BY DEF SettingsInv, Settings!Writes
<1>2. /\ editing' \in [Commands -> Command]
      /\ \A d \in Commands : d # c => editing'[d] = editing[d]
      /\ editing'[c].at = x /\ editing'[c].read = editing[c].read
      /\ editing'[c].made = editing[c].made
      /\ editing'[c].since = editing[c].since /\ editing'[c].kept = editing[c].kept
  BY <1>1, StepTaken
<1>3. \A d \in Commands : editing'[d].since <= changes' /\ editing'[d].since # changes'
  <2> SUFFICES ASSUME NEW d \in Commands
               PROVE  editing'[d].since <= changes' /\ editing'[d].since # changes'
    OBVIOUS
  <2>1. editing[d].since \in Nat /\ editing[d].since <= changes
        /\ editing'[d].since = editing[d].since
    BY <1>1, <1>2 DEF Doing, Command
  <2>2. QED
    BY <1>1, <2>1
<1>4. ASSUME NEW d \in Commands, d # c PROVE Doing(d)'
  <2>1. Doing(d) /\ editing'[d] = editing[d]
    BY <1>1, <1>2, <1>4
  <2>2. QED
    BY <1>3, <2>1 DEF Doing
<1>5. Doing(c)'
  <2>1. Doing(c)
    BY <1>1
  <2>2. QED
    BY <1>2, <1>3, <2>1 DEF Doing
<1>6. QED
  BY <1>1, <1>2, <1>4, <1>5 DEF SettingsInv

(* The editor saves a text that parses.                                      *)
LEMMA Saved ==
  ASSUME Sound(file), Settings!Save
  PROVE  Sound(file') /\ file' # Settings!Empty /\ file' # Settings!Cut
<1>1. PICK k \in Others :
        file' = [file EXCEPT !.servers = IF k \in Settings!Keys(file.servers)
                                           THEN Settings!Without(@, Settings!Place(@, k))
                                           ELSE Settings!Added(@, Settings!Item(k, "old", FALSE))]
  BY DEF Settings!Save, Settings!Writes
<1>2. file.is = "object" /\ "agents" \in Settings!Keys(file.root)
  BY DEF Settings!Save, Settings!Agents
<1>3. PICK r, s : file = Settings!Text(r, s) /\ Object(r) /\ Object(s)
  BY <1>2 DEF Sound, Settings!Empty, Settings!Cut
<1>4. file.root = r /\ file.servers = s /\ "agents" \in Settings!Keys(r)
  BY <1>2, <1>3 DEF Settings!Text
<1> DEFINE e == Settings!Item(k, "old", FALSE)
           t == IF k \in Settings!Keys(s) THEN Settings!Without(s, Settings!Place(s, k))
                 ELSE Settings!Added(s, e)
<1>5. e \in Entry /\ e.key = k
  BY DEF Settings!Item, Entry, Values
<1>6. Object(t)
  BY <1>3, <1>5, Placed, WithoutKeeps, AddedKeeps
<1>7. file' = Settings!Text(r, t)
  BY <1>1, <1>3, <1>4 DEF Settings!Text
<1> HIDE DEF t
<1>8. QED
  BY <1>3, <1>4, <1>6, <1>7, TextIs

(* What a step keeps of the file, as SettingsKept states it.                 *)
Keeps ==
  /\ file' \in {Settings!Empty, Settings!Cut}
        => file' = file \/ \E c \in Commands : editing[c].at = "rollback"
  /\ \A c \in Commands :
       editing[c].at = "rename" /\ editing'[c].at = "done" => Settings!RenamesWell(c)

(* A step of a command other than a rename.                                  *)
LEMMA OtherStep ==
  ASSUME SettingsInv, SettingsInv', NEW c \in Commands, NEW x,
         editing[c].at # "rename" \/ x # "done",
         editing'[c].at = x, \A d \in Commands : d # c => editing'[d] = editing[d],
         file' = file \/ editing[c].at = "rollback" \/ file' \notin {Settings!Empty, Settings!Cut}
  PROVE  Keeps
<1>1. \A d \in Commands : ~(editing[d].at = "rename" /\ editing'[d].at = "done")
  OBVIOUS
<1>2. QED
  BY <1>1 DEF Keeps

(* A command reads the file.                                                 *)
LEMMA ReadStep ==
  ASSUME SettingsInv, NEW c \in Commands, Settings!Read(c)
  PROVE  SettingsInv' /\ Keeps
<1> DEFINE spoilt == Settings!Spoilt(c, file)
           e == IF Settings!Refused(c, file) THEN [Settings!Idle EXCEPT !.at = "done"]
                ELSE IF spoilt THEN [Settings!Idle EXCEPT !.at = "internal error"]
                ELSE [at |-> IF file = Settings!Empty THEN "temp" ELSE "backup", read |-> file,
                      made |-> Settings!Edit(c, file), since |-> changes, kept |-> FALSE]
<1>1. /\ editing \in [Commands -> Command] /\ \A d \in Commands : Doing(d)
      /\ Sound(file) /\ changes \in Nat /\ "braced" \notin Scalars
      /\ editing[c].at = "idle" /\ UNCHANGED <<file, backup, changes>>
  BY DEF SettingsInv, Settings!Read, Settings!Quiet
<1>2. ~Settings!Refused(c, file) /\ ~spoilt => Made(c, file, Settings!Edit(c, file))
  BY <1>1, Edits
<1>3. editing' = [editing EXCEPT ![c] = e]
  BY DEF Settings!Read
<1>4. /\ e \in Command
      /\ e.at = "backup" => e.read # Settings!Empty
      /\ ~e.kept /\ e.at # "idle" /\ e.since <= changes
      /\ e.at \notin {"rollback", "refill"}
      /\ e.at \in Underway => /\ Sound(e.read) /\ ~Settings!Refused(c, e.read)
                              /\ ~Settings!Spoilt(c, e.read)
                              /\ e.made = Settings!Edit(c, e.read)
  <2>1. CASE Settings!Refused(c, file)
    <3>1. e = [at |-> "done", read |-> Settings!Empty, made |-> Settings!Empty, since |-> 0,
               kept |-> FALSE]
      BY <2>1 DEF Settings!Idle
    <3> HIDE DEF e
    <3>2. e \in Command
      BY <3>1 DEF Command, CommandSteps, SettingsTexts
    <3>3. e.at \notin Underway
      BY <3>1 DEF Underway
    <3>4. 0 <= changes
      BY <1>1
    <3>5. QED
      BY <3>1, <3>2, <3>3, <3>4
  <2>4. CASE ~Settings!Refused(c, file) /\ spoilt
    <3>1. e = [at |-> "internal error", read |-> Settings!Empty, made |-> Settings!Empty,
               since |-> 0, kept |-> FALSE]
      BY <2>4 DEF Settings!Idle
    <3> HIDE DEF e
    <3>2. e \in Command
      <4>1. "internal error" \in CommandSteps
        BY DEF CommandSteps
      <4>2. Settings!Empty \in SettingsTexts
        BY DEF SettingsTexts
      <4>3. QED
        BY <3>1, <4>1, <4>2 DEF Command
    <3>3. e.at \notin Underway
      BY <3>1 DEF Underway
    <3>4. 0 <= changes
      BY <1>1
    <3>5. e.at = "internal error" /\ ~e.kept /\ e.since = 0
      BY <3>1
    <3>6. QED
      BY <3>2, <3>3, <3>4, <3>5
  <2>2. CASE ~Settings!Refused(c, file) /\ ~spoilt
    <3>1. /\ e.at = (IF file = Settings!Empty THEN "temp" ELSE "backup") /\ e.read = file
          /\ e.made = Settings!Edit(c, file) /\ e.since = changes /\ e.kept = FALSE
      BY <2>2
    <3>2. file \in SettingsTexts /\ Settings!Edit(c, file) \in SettingsTexts
      BY <1>1, <1>2, <2>2, SoundTexts DEF Made
    <3>3. e \in Command
      BY <1>1, <2>2, <3>2 DEF Command, CommandSteps
    <3> HIDE DEF e
    <3>4. QED
      BY <1>1, <2>2, <3>1, <3>3
  <2>3. QED
    BY <2>1, <2>2, <2>4
<1> HIDE DEF e
<1>5. /\ editing' \in [Commands -> Command] /\ editing'[c] = e
      /\ \A d \in Commands : d # c => editing'[d] = editing[d]
  BY <1>1, <1>3, <1>4
<1>6. Settings!Warned => Settings!Warned'
  BY <1>1, <1>5 DEF Settings!Warned
<1>7. ASSUME NEW d \in Commands, d # c PROVE Doing(d)'
  <2>1. Doing(d) /\ editing'[d] = editing[d]
    BY <1>1, <1>5, <1>7
  <2>2. QED
    BY <1>1, <1>6, <2>1 DEF Doing
<1>8. Doing(c)'
  BY <1>1, <1>4, <1>5 DEF Doing
<1>9. SettingsInv'
  BY <1>1, <1>4, <1>5, <1>7, <1>8 DEF SettingsInv
<1>10. QED
  BY <1>1, <1>5, <1>9, OtherStep

(* A command takes its backup, which is the file, or is warned.              *)
LEMMA BackupStep ==
  ASSUME SettingsInv, NEW c \in Commands, Settings!Backup(c)
  PROVE  SettingsInv' /\ Keeps
<1>1. /\ editing \in [Commands -> Command] /\ \A d \in Commands : Doing(d)
      /\ Sound(file) /\ changes \in Nat
      /\ editing[c].at = "backup" /\ UNCHANGED <<file, changes>>
  BY DEF SettingsInv, Settings!Backup
<1>2. /\ ~editing[c].kept /\ editing[c].read # Settings!Empty /\ editing[c].since <= changes
      /\ Sound(editing[c].read) /\ ~Settings!Refused(c, editing[c].read)
      /\ ~Settings!Spoilt(c, editing[c].read)
      /\ editing[c].made = Settings!Edit(c, editing[c].read)
  BY <1>1 DEF Doing, Underway
<1>3. CASE backup' = file /\ editing' = [editing EXCEPT ![c].at = "temp", ![c].kept = TRUE]
  <2> DEFINE a == [editing[c] EXCEPT !.at = "temp"]
             e == [a EXCEPT !.kept = TRUE]
  <2>1. /\ a \in Command /\ a.at = "temp" /\ a.read = editing[c].read /\ a.made = editing[c].made
        /\ a.since = editing[c].since
    BY <1>1 DEF Command, CommandSteps
  <2>2. editing' = [editing EXCEPT ![c] = e]
    BY <1>3
  <2> HIDE DEF a
  <2>3. /\ e \in Command /\ e.at = "temp" /\ e.read = editing[c].read /\ e.made = editing[c].made
        /\ e.since = editing[c].since
    BY <2>1 DEF Command
  <2> HIDE DEF e
  <2>4. /\ editing' \in [Commands -> Command] /\ editing'[c] = e
        /\ \A d \in Commands : d # c => editing'[d] = editing[d]
    BY <1>1, <2>2, <2>3
  <2>5. ASSUME NEW d \in Commands, d # c PROVE Doing(d)'
    <3>1. Doing(d) /\ editing'[d] = editing[d]
      BY <1>1, <2>4, <2>5
    <3>2. QED
      BY <1>1, <1>3, <3>1 DEF Doing
  <2>6. Doing(c)'
    BY <1>1, <1>2, <1>3, <2>3, <2>4 DEF Doing
  <2>7. SettingsInv'
    BY <1>1, <2>3, <2>4, <2>5, <2>6 DEF SettingsInv
  <2>8. QED
    BY <1>1, <2>3, <2>4, <2>7, OtherStep
<1>4. CASE editing' = [editing EXCEPT ![c].at = "temp"]
  <2>1. /\ editing' \in [Commands -> Command]
        /\ \A d \in Commands : d # c => editing'[d] = editing[d]
        /\ editing'[c].at = "temp" /\ editing'[c].read = editing[c].read
        /\ editing'[c].made = editing[c].made
        /\ editing'[c].since = editing[c].since /\ editing'[c].kept = editing[c].kept
    BY <1>1, <1>4, StepTaken DEF CommandSteps
  <2>2. Settings!Warned'
    BY <1>2, <2>1 DEF Settings!Warned
  <2>3. ASSUME NEW d \in Commands, d # c PROVE Doing(d)'
    <3>1. Doing(d) /\ editing'[d] = editing[d]
      BY <1>1, <2>1, <2>3
    <3>2. QED
      BY <1>1, <2>2, <3>1 DEF Doing
  <2>4. Doing(c)'
    BY <1>1, <1>2, <2>1, <2>2 DEF Doing
  <2>5. SettingsInv'
    BY <1>1, <2>1, <2>3, <2>4 DEF SettingsInv
  <2>6. QED
    BY <1>1, <2>1, <2>5, OtherStep
<1>5. QED
  BY <1>3, <1>4 DEF Settings!Backup

-----------------------------------------------------------------------------
(* A rename replaces the file by the edit of what the command read.          *)
LEMMA RenameStep ==
  ASSUME SettingsInv, NEW c \in Commands, Settings!Rename(c)
  PROVE  SettingsInv' /\ Keeps
<1>1. /\ editing \in [Commands -> Command] /\ Doing(c)
      /\ editing[c].at = "rename" /\ editing' = [editing EXCEPT ![c].at = "done"]
      /\ file' = editing[c].made /\ Settings!Writes(file')
  BY DEF SettingsInv, Settings!Rename, Settings!Step, Settings!Writes
<1>2. /\ Sound(editing[c].read) /\ ~Settings!Refused(c, editing[c].read)
      /\ ~Settings!Spoilt(c, editing[c].read)
      /\ editing[c].made = Settings!Edit(c, editing[c].read)
  BY <1>1 DEF Doing, Underway
<1>3. Made(c, editing[c].read, file')
  <2>1. "braced" \notin Scalars
    BY DEF SettingsInv
  <2>2. Made(c, editing[c].read, Settings!Edit(c, editing[c].read))
    BY <1>2, <2>1, Edits
  <2>3. QED
    BY <1>1, <1>2, <2>2
<1>4. SettingsInv'
  <2>1. Sound(file') /\ "done" \in CommandSteps \ {"idle", "backup"} /\ "done" \notin Underway
        /\ "done" \notin {"rollback", "refill"}
    BY <1>3 DEF Made, CommandSteps, Underway
  <2>2. QED
    BY <1>1, <2>1, FileWritten
<1>5. Settings!RenamesWell(c)
  <2>1. Settings!Valid(file')
        /\ ((c \in Installs) = ("ours" \in Settings!Keys(Settings!Servers(file'))))
    BY <1>3 DEF Made
  <2>2. Settings!Alone(c) => Settings!Foreign(file') = Settings!Foreign(file)
    BY <1>3 DEF Made, Settings!Alone
  <2>3. ASSUME Settings!Alone(c), editing[c].read # Settings!Empty, ~Settings!Warned
        PROVE backup = file
    <3>1. editing[c].kept
      BY <1>1, <2>3 DEF Settings!Warned
    <3>2. QED
      BY <1>1, <2>3, <3>1 DEF Settings!Alone, Doing
  <2>4. QED
    BY <2>1, <2>2, <2>3 DEF Settings!RenamesWell
<1>6. /\ file' \notin {Settings!Empty, Settings!Cut}
      /\ \A d \in Commands : d # c => editing'[d] = editing[d]
  BY <1>1, <1>3 DEF Made
<1>7. \A d \in Commands : editing[d].at = "rename" /\ editing'[d].at = "done"
      => Settings!RenamesWell(d)
  <2>1. \A d \in Commands : editing[d].at = "rename" /\ editing'[d].at = "done" => d = c
    BY <1>6
  <2>2. QED
    BY <1>5, <2>1
<1>8. QED
  BY <1>4, <1>6, <1>7 DEF Keeps

(* A rollback: the file is cut, then filled with what the command read.      *)
LEMMA RollbackStep ==
  ASSUME SettingsInv, NEW c \in Commands, Settings!Truncate(c) \/ Settings!Refill(c)
  PROVE  SettingsInv' /\ Keeps
<1>1. editing \in [Commands -> Command] /\ Doing(c)
  BY DEF SettingsInv
<1>2. CASE Settings!Truncate(c)
  <2>1. /\ editing[c].at = "rollback" /\ editing' = [editing EXCEPT ![c].at = "refill"]
        /\ file' \in {Settings!Empty, Settings!Cut} /\ Settings!Writes(file')
    BY <1>2 DEF Settings!Truncate, Settings!Step, Settings!Writes
  <2>2. /\ Sound(file') /\ "refill" \in CommandSteps \ {"idle", "backup"}
        /\ editing[c].at \in Underway /\ editing[c].read # Settings!Empty
    BY <1>1, <2>1 DEF Sound, CommandSteps, Underway, Doing
  <2>3. SettingsInv'
    BY <2>1, <2>2, FileWritten
  <2>4. /\ editing'[c].at = "refill" /\ \A d \in Commands : d # c => editing'[d] = editing[d]
    BY <1>1, <2>1, <2>2, StepTaken
  <2>5. QED
    BY <2>1, <2>3, <2>4, OtherStep
<1>3. CASE Settings!Refill(c)
  <2>1. /\ editing[c].at = "refill" /\ editing' = [editing EXCEPT ![c].at = "failed"]
        /\ file' = editing[c].read /\ Settings!Writes(file')
    BY <1>3 DEF Settings!Refill, Settings!Step, Settings!Writes
  <2>2. /\ Sound(file') /\ "failed" \in CommandSteps \ {"idle", "backup"}
        /\ "failed" \notin Underway /\ "failed" \notin {"rollback", "refill"}
    BY <1>1, <2>1 DEF CommandSteps, Underway, Doing
  <2>3. SettingsInv'
    BY <2>1, <2>2, FileWritten
  <2>4. editing'[c].at = "failed" /\ \A d \in Commands : d # c => editing'[d] = editing[d]
    BY <1>1, <2>1, <2>2, StepTaken
  <2>5. file' \notin {Settings!Empty, Settings!Cut}
    <3>1. editing[c].read # Settings!Empty /\ ~Settings!Refused(c, editing[c].read)
      BY <1>1, <2>1 DEF Doing, Underway
    <3>2. editing[c].read # Settings!Cut
      BY <3>1 DEF Settings!Refused, Settings!Cut
    <3>3. QED
      BY <2>1, <3>1, <3>2
  <2>6. QED
    BY <2>1, <2>3, <2>4, <2>5, OtherStep
<1>4. QED
  BY <1>2, <1>3

(* The steps of a command that write nothing.                                *)
LEMMA RestingStep ==
  ASSUME SettingsInv, NEW c \in Commands,
         \/ Settings!Temp(c) \/ Settings!TempFails(c) \/ Settings!RenameFails(c)
         \/ Settings!RefillFails(c) \/ Settings!Kill(c)
  PROVE  SettingsInv' /\ Keeps
<1>1. editing \in [Commands -> Command] /\ UNCHANGED <<file, backup, changes>>
  BY DEF SettingsInv, Settings!Temp, Settings!TempFails, Settings!RenameFails,
       Settings!RefillFails, Settings!Kill, Settings!Quiet
<1> DEFINE Goes(x) == /\ editing' = [editing EXCEPT ![c].at = x] /\ editing[c].at \in Underway
                      /\ x \in {"rollback", "refill"} => editing[c].read # Settings!Empty
           Exits    == CommandSteps \ {"idle", "backup", "done"}
<1>2. PICK x \in Exits : Goes(x)
  <2>0. {"rename", "rollback", "failed", "killed"} \subseteq Exits
    BY DEF CommandSteps
  <2>1. CASE Settings!Temp(c)
    <3>1. Goes("rename")
      BY <2>1 DEF Settings!Temp, Settings!Step, Underway
    <3>2. QED
      BY <2>0, <3>1
  <2>2. CASE Settings!TempFails(c) \/ Settings!RenameFails(c)
    <3>1. editing' = [editing EXCEPT ![c].at = Settings!Rolls(c)] /\ editing[c].at \in Underway
      BY <2>2 DEF Settings!TempFails, Settings!RenameFails, Settings!Step, Underway
    <3>2. CASE editing[c].read = Settings!Empty
      <4>1. Goes("failed")
        BY <3>1, <3>2 DEF Settings!Rolls
      <4>2. QED
        BY <2>0, <4>1
    <3>3. CASE editing[c].read # Settings!Empty
      <4>1. Goes("rollback")
        BY <3>1, <3>3 DEF Settings!Rolls
      <4>2. QED
        BY <2>0, <4>1
    <3>4. QED
      BY <3>2, <3>3
  <2>3. CASE Settings!RefillFails(c)
    <3>1. Goes("failed")
      BY <2>3 DEF Settings!RefillFails, Settings!Step, Underway
    <3>2. QED
      BY <2>0, <3>1
  <2>4. CASE Settings!Kill(c)
    <3>1. Goes("killed")
      BY <2>4 DEF Settings!Kill, Underway
    <3>2. QED
      BY <2>0, <3>1
  <2>5. QED
    BY <2>1, <2>2, <2>3, <2>4
<1>3. SettingsInv'
  BY <1>1, <1>2, QuietStep
<1>4. editing'[c].at = x /\ \A d \in Commands : d # c => editing'[d] = editing[d]
  BY <1>1, <1>2, StepTaken
<1>5. QED
  BY <1>1, <1>2, <1>3, <1>4, OtherStep

(* The editor saves.                                                         *)
LEMMA SaveStep ==
  ASSUME SettingsInv, Settings!Save
  PROVE  SettingsInv' /\ Keeps
<1>1. /\ editing \in [Commands -> Command] /\ \A d \in Commands : Doing(d)
      /\ Sound(file) /\ changes \in Nat
  BY DEF SettingsInv
<1>2. editing' = editing /\ changes' = changes + 1
  BY DEF Settings!Save, Settings!Writes
<1>3. Sound(file') /\ file' # Settings!Empty /\ file' # Settings!Cut
  BY <1>1, Saved
<1>4. ASSUME NEW d \in Commands PROVE Doing(d)'
  <2>1. /\ Doing(d) /\ editing'[d] = editing[d] /\ editing[d].since \in Nat
    BY <1>1, <1>2, <1>4 DEF Command
  <2>2. editing[d].since <= changes
    BY <2>1 DEF Doing
  <2>3. editing'[d].since <= changes' /\ editing'[d].since # changes'
    BY <1>1, <1>2, <2>1, <2>2
  <2>4. QED
    BY <2>1, <2>3 DEF Doing
<1>5. SettingsInv'
  BY <1>1, <1>2, <1>3, <1>4 DEF SettingsInv
<1>6. QED
  BY <1>2, <1>3, <1>5 DEF Keeps

(* Every step keeps the invariant, and what SettingsKept states.             *)
LEMMA SettingsStep == SettingsInv /\ [Settings!Next]_(Settings!vars)
      => SettingsInv' /\ [Keeps]_(Settings!vars)
<1> SUFFICES ASSUME SettingsInv, [Settings!Next]_(Settings!vars)
      PROVE SettingsInv' /\ [Keeps]_(Settings!vars)
  OBVIOUS
<1>1. CASE UNCHANGED Settings!vars
  <2>1. /\ file' = file /\ backup' = backup /\ editing' = editing /\ changes' = changes
    BY <1>1 DEF Settings!vars
  <2>2. Sound(file') /\ changes' \in Nat /\ editing' \in [Commands -> Command]
    BY <2>1 DEF SettingsInv
  <2>3. Settings!Warned' <=> Settings!Warned
    BY <2>1 DEF Settings!Warned
  <2>4. ASSUME NEW d \in Commands PROVE Doing(d)'
    BY <2>1, <2>3, <2>4 DEF SettingsInv, Doing
  <2>5. QED
    BY <1>1, <2>2, <2>4 DEF SettingsInv
<1>2. CASE Settings!Save
  BY <1>2, SaveStep
<1>3. ASSUME NEW c \in Commands, Settings!Read(c) PROVE SettingsInv' /\ Keeps
  BY <1>3, ReadStep
<1>4. ASSUME NEW c \in Commands, Settings!Backup(c) PROVE SettingsInv' /\ Keeps
  BY <1>4, BackupStep
<1>5. ASSUME NEW c \in Commands, Settings!Rename(c) PROVE SettingsInv' /\ Keeps
  BY <1>5, RenameStep
<1>6. ASSUME NEW c \in Commands, Settings!Truncate(c) \/ Settings!Refill(c)
      PROVE SettingsInv' /\ Keeps
  BY <1>6, RollbackStep
<1>7. ASSUME NEW c \in Commands,
             \/ Settings!Temp(c) \/ Settings!TempFails(c) \/ Settings!RenameFails(c)
             \/ Settings!RefillFails(c) \/ Settings!Kill(c)
      PROVE  SettingsInv' /\ Keeps
  BY <1>7, RestingStep
<1>8. QED
  BY <1>1, <1>2, <1>3, <1>4, <1>5, <1>6, <1>7 DEF Settings!Next

(* The invariant holds in every reachable state.                             *)
THEOREM SettingsInvariant ==
  ASSUME "braced" \notin Scalars
  PROVE  Settings!Spec => []SettingsInv
<1>1. Settings!Init => SettingsInv
  BY SettingsAssumption, InitSettings
<1>2. SettingsInv /\ [Settings!Next]_(Settings!vars) => SettingsInv'
  BY SettingsStep
<1>3. QED
  BY <1>1, <1>2, PTL DEF Settings!Spec

(* `muse-acp install` and `uninstall`: whatever other commands run, whatever *)
(* the editor saves meanwhile and whichever write fails or command is        *)
(* killed, a rename leaves a text that parses, with the entry of muse-acp in *)
(* or out as the command says, and if nobody wrote the file since it was     *)
(* read, with every other entry as it was; only a rollback cuts the file.    *)
(* A braced comment is left out: an install may put its entry into it.       *)
THEOREM SettingsAreKept ==
  ASSUME "braced" \notin Scalars
  PROVE  Settings!Spec => SettingsKept
<1>1. SettingsInv /\ [Settings!Next]_(Settings!vars) => [Keeps]_(Settings!vars)
  BY SettingsStep
<1>2. Settings!Spec => []SettingsInv
  BY SettingsInvariant
<1>3. QED
  BY <1>1, <1>2, PTL DEF Settings!Spec, SettingsKept, Settings!SettingsKept, Keeps
=============================================================================
