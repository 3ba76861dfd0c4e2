---------------------------- MODULE ServiceInstall ----------------------------
(* `muse-bridge serve`, --off, --status: install, start, stop, expose the    *)
(* bridge as a user service (src/service.rs).  The command is a sequence of   *)
(* child processes (systemctl, launchctl, schtasks, tailscale); each may      *)
(* fail, may time out after it took effect, and the command may be killed     *)
(* between any two.  The service managers are external: what a child does to  *)
(* them is `mach`.  A command is run once the one before it is over.          *)
(* StartsOnly is a mutant of the definition that follows it.                  *)
EXTENDS Naturals

CONSTANTS Faults,       \* SUBSET {"fail", "crash", "restart"}
          MaxCommands,  \* bound: commands in a row
          MaxAccidents  \* bound: deaths of the service and logins, together

ASSUME ServiceAssumption ==
  /\ Faults \subseteq {"fail", "crash", "restart"}
  /\ MaxCommands \in Nat /\ MaxAccidents \in Nat

Platforms   == {"systemd", "launchd", "schtasks"}
Definitions == {"a", "b"}       \* what two configurations render

VARIABLES
  platform,  \* the backend of this build
  foreign,   \* another process answers /healthz on the port
  mach,      \* the machine: definition file, definition the manager holds, the
             \* one the service runs, whether it is to run, autostart, forward
  cmd,       \* the command under way: job, definition, --tailscale, FileState,
             \* and whether it met a service older than the file (a history)
  at,        \* its next step, "none" when no command runs
  said,      \* what the last command reported
  count, accidents
vars == <<platform, foreign, mach, cmd, at, said, count, accidents>>

(* The service runs, or would be started again with, another definition than  *)
(* the one in the file.                                                       *)
Outdated == \/ mach.running \notin {"none", mach.disk}
            \/ mach.wanted /\ mach.loaded # mach.disk

Init == /\ platform \in Platforms /\ foreign \in BOOLEAN
        /\ mach = [disk |-> "none", loaded |-> "none", running |-> "none",
                   wanted |-> FALSE, enabled |-> FALSE, forward |-> FALSE]
        /\ cmd = [job |-> "on", want |-> "a", tail |-> FALSE, state |-> "New",
                  outdated |-> FALSE]
        /\ at = "none" /\ said = "none" /\ count = 0 /\ accidents = 0

Rest == UNCHANGED <<platform, foreign, count, accidents>>
Goto(step) == at' = step /\ UNCHANGED said
Over(word) == at' = "none" /\ said' = word
Skip(here, step) == at = here /\ Goto(step) /\ UNCHANGED <<mach, cmd>> /\ Rest

First(job) == CASE job = "off"            -> "stop"
               [] job = "status"         -> "status"
               [] platform = "schtasks"  -> "create"
               [] OTHER                  -> "probe"
Start == /\ at = "none" /\ count < MaxCommands
         /\ \E job \in {"on", "off", "status"}, d \in Definitions, t \in BOOLEAN :
              /\ cmd' = [job |-> job, want |-> d, tail |-> t, state |-> "Unchanged",
                         outdated |-> platform = "systemd" /\ Outdated]
              /\ at' = First(job)
         /\ count' = count + 1 /\ said' = "none"
         /\ UNCHANGED <<platform, foreign, mach, accidents>>

(* run_cmd: a child does its work or not, and says so or not; success is only *)
(* reported of work that was done.                                            *)
Ends == {[did |-> TRUE, good |-> TRUE]} \union
        (IF "fail" \in Faults THEN [did : BOOLEAN, good : {FALSE}] ELSE {})
Child(here, after, step) ==
  /\ at = here /\ UNCHANGED cmd /\ Rest
  /\ \E e \in Ends : /\ mach' = IF e.did THEN after ELSE mach
                     /\ IF e.good THEN Goto(step) ELSE Over("error")
(* A child whose failure is ignored.                                          *)
BestEffort(here, after, step) ==
  /\ at = here /\ Goto(step) /\ UNCHANGED cmd /\ Rest
  /\ \E e \in Ends : mach' = IF e.did THEN after ELSE mach
(* The command ends here, with nothing done.                                  *)
Ending(here, word) == at = here /\ Over(word) /\ UNCHANGED <<mach, cmd>> /\ Rest
(* Arguments that make no configuration, or a backend that is not there, end  *)
(* it before its first child; --dry-run prints the plan and runs no child.    *)
Brief(word) == /\ at = "none" /\ count < MaxCommands /\ count' = count + 1
               /\ Over(word) /\ UNCHANGED <<platform, foreign, mach, cmd, accidents>>
Refuse == Brief("error")
DryRun == Brief("planned")
(* Any process on the port answers.                                           *)
Answers == mach.running # "none" \/ foreign

-----------------------------------------------------------------------------
(* serve                                                                      *)
FileState(d) == CASE mach.disk = "none" -> "New"
                  [] mach.disk = d      -> "Unchanged"
                  [] OTHER              -> "Updated"
(* The first child looks whether the manager is there (the user, launchd).    *)
Probe == Child("probe", mach, "write")
AfterWrite == IF platform = "systemd" THEN "reload" ELSE "bootout"
Write == /\ at = "write" /\ Goto(AfterWrite) /\ Rest
         /\ cmd' = [cmd EXCEPT !.state = FileState(cmd.want)]
         /\ mach' = [mach EXCEPT !.disk = cmd.want]
(* std::fs::write truncates before it writes.                                 *)
WriteFails == /\ at = "write" /\ "fail" \in Faults /\ Over("error") /\ Rest
              /\ FileState(cmd.want) # "Unchanged"
              /\ mach' \in {mach, [mach EXCEPT !.disk = "torn"]} /\ UNCHANGED cmd

StartsOnly(state) == "Start"
StartMode(state)  == IF state = "Updated" THEN "Restart" ELSE "Start"
AfterReload == IF StartMode(cmd.state) = "Restart" THEN "enable" ELSE "enablenow"
Up(d)       == [mach EXCEPT !.running = d, !.wanted = TRUE]
Systemd ==
  \/ Child("reload", [mach EXCEPT !.loaded = mach.disk], AfterReload)
  \/ Child("enable", [mach EXCEPT !.enabled = TRUE], "restart")
  \/ Child("restart", Up(mach.loaded), "health")
  \/ Child("enablenow", [(IF mach.running = "none" THEN Up(mach.loaded) ELSE mach)
                           EXCEPT !.enabled = TRUE], "health")

Gone == [mach EXCEPT !.running = "none", !.wanted = FALSE]
Launchd ==
  \/ BestEffort("bootout", [Gone EXCEPT !.loaded = "none"], "register")
  \/ Child("register", [mach EXCEPT !.enabled = TRUE], "bootstrap")
  \/ mach.loaded = "none" /\ Child("bootstrap", [Up(mach.disk) EXCEPT !.loaded = mach.disk], "health")
  \/ mach.loaded # "none" /\ Ending("bootstrap", "error")

(* The task's definition is the manager's; a run of a running task is refused *)
(* and the old instance keeps serving.                                        *)
Schtasks ==
  \/ Child("create", [mach EXCEPT !.disk = cmd.want, !.loaded = cmd.want], "change")
  \/ Child("change", [mach EXCEPT !.enabled = TRUE], "run")
  \/ mach.running = "none" /\ Child("run", Up(mach.loaded), "health")
  \/ mach.running # "none" /\ Skip("run", "health")

(* wait_healthy, then (systemd) is-active.                                    *)
Health ==
  \/ /\ Answers
     /\ Skip("health", IF platform = "systemd" THEN "active" ELSE "forward")
  \/ (~Answers \/ "fail" \in Faults) /\ Ending("health", "error")
  \/ mach.running # "none" /\ Skip("active", "forward")
  \/ /\ mach.running = "none" \/ "fail" \in Faults
     /\ Ending("active", "error")
(* tailscale_on: asks for the forwards there are, then sets this one.         *)
Tailscale ==
  \/ cmd.tail /\ "fail" \in Faults /\ Ending("forward", "error")
  \/ (~cmd.tail \/ mach.forward) /\ Ending("forward", "on")
  \/ cmd.tail /\ ~mach.forward /\ Child("forward", [mach EXCEPT !.forward = TRUE], "forward")

-----------------------------------------------------------------------------
(* serve --off.  What is not installed is already off.                        *)
Disabled == [Gone EXCEPT !.enabled = FALSE]
Off ==
  \/ platform = "systemd" /\ Child("stop", Disabled, "unforward")
  \/ platform = "launchd" /\ Child("stop", [Gone EXCEPT !.loaded = "none"], "disable")
  \/ platform = "schtasks" /\ BestEffort("stop", Gone, "disable")
  \/ Child("disable", [mach EXCEPT !.enabled = FALSE], "unforward")
(* tailscale_off: after a status query that failed the removal is tried all   *)
(* the same, and its failure is only reported; if tailscale cannot be run the *)
(* forward stays.                                                             *)
Unforward ==
  /\ at = "unforward" /\ UNCHANGED cmd /\ Rest
  /\ \/ (~cmd.tail \/ ~mach.forward) /\ Over("off") /\ UNCHANGED mach
     \/ /\ cmd.tail /\ mach.forward
        /\ \E e \in Ends : /\ mach' = [mach EXCEPT !.forward = ~e.did]
                           /\ \/ Over(IF e.good THEN "off" ELSE "error")
                              \/ ~e.good /\ Over("unsure")

(* serve --status exits 0 if the port answers and the manager could be asked; *)
(* it changes nothing.                                                        *)
Status ==
  \/ Answers /\ Ending("status", "healthy")
  \/ (~Answers \/ "fail" \in Faults) /\ Ending("status", "error")

-----------------------------------------------------------------------------
(* The command is killed; the service dies and its manager (Restart=on-       *)
(* failure, KeepAlive, RestartOnFailure) starts it again; the user logs in    *)
(* anew, when a manager reads the file and starts what is enabled.            *)
Crash == /\ at # "none" /\ "crash" \in Faults
         /\ Over("none") /\ UNCHANGED <<mach, cmd>> /\ Rest
Accident == /\ "restart" \in Faults /\ UNCHANGED <<platform, foreign, cmd, at, said, count>>
Die == /\ Accident /\ mach.running # "none" /\ accidents < MaxAccidents
       /\ mach' = [mach EXCEPT !.running = "none"] /\ accidents' = accidents + 1
Respawn == /\ Accident /\ mach.running = "none" /\ mach.wanted
           /\ mach' = [mach EXCEPT !.running = mach.loaded] /\ UNCHANGED accidents
Read == IF platform = "schtasks" \/ mach.disk = "torn" THEN mach.loaded ELSE mach.disk
Login == /\ Accident /\ at = "none" /\ accidents < MaxAccidents
         /\ accidents' = accidents + 1
         /\ mach' = IF mach.enabled /\ mach.disk # "torn"
                    THEN [Up(Read) EXCEPT !.loaded = Read] ELSE [Gone EXCEPT !.loaded = "none"]

Next == \/ Start \/ Refuse \/ DryRun \/ Probe \/ Write \/ WriteFails \/ Systemd \/ Launchd \/ Schtasks
        \/ Health \/ Tailscale \/ Off \/ Unforward \/ Status
        \/ Crash \/ Die \/ Respawn \/ Login
Spec == Init /\ [][Next]_vars

-----------------------------------------------------------------------------
(* What serve reports is so (its exit status is what scripts go by).  "on":   *)
(* autostart is enabled, the manager holds the definition asked for and no    *)
(* other one runs, except that schtasks lets the old instance run on and that *)
(* a systemd service that an earlier command left outdated is not restarted;  *)
(* the forward is up if asked for.  "off": autostart is disabled and nothing  *)
(* runs or is to be run (schtasks: the stop is best effort), and a forward    *)
(* asked to go is gone.                                                       *)
SaysOn  == /\ mach.enabled /\ mach.loaded = cmd.want
           /\ \/ mach.running \in {"none", cmd.want}
              \/ platform = "schtasks" \/ cmd.outdated
           /\ cmd.tail => mach.forward
SaysOff == /\ ~mach.enabled
           /\ platform # "schtasks" => mach.running = "none" /\ ~mach.wanted
           /\ cmd.tail => ~mach.forward
ReportsTruthful == (said = "on" => SaysOn) /\ (said = "off" => SaysOff)
=============================================================================
