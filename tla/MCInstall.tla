------------------------------- MODULE MCInstall -------------------------------
(* The two installers on one machine.  They share no state and no process:    *)
(* interleaving their steps would only multiply the states of one by those of *)
(* the other, so a behaviour uses one of them while the other rests.          *)
EXTENDS ServiceInstall

CONSTANTS Commands, Installs, Others, Scalars, MaxEntries, MaxChanges, SettingsFaults
ASSUME SettingsAssumption == MaxEntries \in Nat

VARIABLES file, backup, editing, changes

Settings == INSTANCE SettingsEdit WITH Faults <- SettingsFaults, cmd <- editing
setting  == <<file, backup, editing, changes>>

EitherInit == /\ Init /\ Settings!Init
              /\ file = Settings!Empty \/ (platform = "systemd" /\ ~foreign)
EitherNext == \/ /\ Next /\ UNCHANGED setting
                 /\ changes = 0 /\ \A c \in Commands : editing[c].at = "idle"
              \/ /\ Settings!Next /\ UNCHANGED vars
                 /\ count = 0 /\ accidents = 0
EitherSpec == EitherInit /\ [][EitherNext]_<<vars, setting>>

(* A settings file is never cut short or damaged but by a rollback, and loses *)
(* nothing but its entry: see SettingsKept of SettingsEdit (src/acp/compat.rs)*)
SettingsKept == Settings!SettingsKept
=============================================================================
