----------------------------- MODULE SettingsEdit -----------------------------
(* `muse-acp install` and `uninstall` (src/acp/compat.rs): the agent_servers  *)
(* entry in an editor's settings file is put in, rewritten or taken out of    *)
(* the text in place, and the file replaced by a rename.  The editor saves    *)
(* the same file at any moment, a write may fail, the command may be killed.  *)
(* Of the text are kept the entries of the root object and of agent_servers,  *)
(* in order, each with the comma after it (a trailing one is legal JSONC),    *)
(* and the comment between a scalar and its comma, which the code's scanner   *)
(* takes for a part of the scalar.  Other comments it skips.                  *)
(* Unchecked is a mutant of the definition that follows it.                   *)
EXTENDS Naturals, SequencesExt

CONSTANTS Commands,   \* the commands: each an install or an uninstall
          Installs,   \* the ones that install; SUBSET Commands
          Others,     \* keys in the file that are neither "ours" nor "agents"
          Scalars,    \* the numbers, true, false and null of the initial file
                      \* with a comment right behind: SUBSET {"noted" (a line
                      \* comment), "listed" (a comment with a comma in it),
                      \* "braced" (a block comment with a brace in it)}
          MaxEntries, \* bound: entries of an object in the initial file
          MaxChanges, \* bound: writes of the file after which the editor rests
          Faults      \* SUBSET {"full", "rename", "kill"}

VARIABLES file,    \* the settings file
          backup,  \* the file beside it, .bak
          cmd,     \* [Commands -> its step, the text it read, the text it made,
                   \* when it read, whether the backup was taken]
          changes  \* how often the file was written
vars == <<file, backup, cmd, changes>>

-----------------------------------------------------------------------------
(* Texts.  No file and an empty file are one text; Cut stands for a text that *)
(* is not a JSONC object.                                                     *)
Empty == [is |-> "empty"]
Cut   == [is |-> "cut"]
Text(root, servers) == [is |-> "object", root |-> root, servers |-> servers]
Item(k, v, c)  == [key |-> k, val |-> v, comma |-> c]
Keys(obj)      == {obj[i].key : i \in DOMAIN obj}
Place(obj, k)  == CHOOSE i \in DOMAIN obj : obj[i].key = k

(* An object parses if only its last entry has no comma; no key comes twice.  *)
Parses(obj) == /\ \A i \in 1..Len(obj) - 1 : obj[i].comma
               /\ \A i, j \in DOMAIN obj : obj[i].key = obj[j].key => i = j
Entries(keys) == [key : keys, val : {"old"} \union Scalars, comma : BOOLEAN]
Objects(keys) == {o \in UNION {[1..n -> Entries(keys)] : n \in 0..MaxEntries} : Parses(o)}
Agents(obj)   == "agents" \in Keys(obj) /\ obj[Place(obj, "agents")].val = "old"
Roots == Objects({"agents", "theme"})
AnyText == {Empty, Cut} \union
           {Text(r, s) : r \in {o \in Roots : Agents(o)}, s \in Objects(Others \union {"ours"})}
           \union {Text(r, <<>>) : r \in {o \in Roots : ~Agents(o)}}
(* A bound on the initial file: comments in agent_servers are rare.           *)
Remarked(obj) == {i \in DOMAIN obj : obj[i].val \in Scalars}
Texts == {t \in AnyText : t.is = "object" => \A i \in Remarked(t.servers) :
                              i = Len(t.servers) /\ t.servers[i].key # "ours" /\ Len(t.root) = 1}
Valid(t) == t.is = "empty" \/ (t.is = "object" /\ Parses(t.root) /\ Parses(t.servers))
Servers(t) == IF t.is = "object" /\ "agents" \in Keys(t.root) THEN t.servers ELSE <<>>

(* What the scanner finds in an object: it takes the brace in a comment for   *)
(* the end of the object, and gives up at a comma in one.                     *)
Braced(obj)  == \E i \in DOMAIN obj : obj[i].val = "braced"
Seen(obj)    == {i \in DOMAIN obj : \A j \in 1..i - 1 : obj[j].val # "braced"}
Found(obj)   == {obj[i].key : i \in Seen(obj)}
Scanned(obj) == \A i \in Seen(obj) : obj[i].val # "listed"
Readable(t)  == /\ Scanned(t.root)
                /\ "agents" \in Found(t.root) => Agents(t.root) /\ Scanned(t.servers)

(* The new entry goes after the last one found, behind its comma or a new     *)
(* one.  The new comma may be in the line comment, or all of it in the braced.*)
Added(obj, new) ==
  IF obj = <<>> THEN <<new>>
  ELSE Append([obj EXCEPT ![Len(obj)].comma = TRUE], new)
Behind(obj, new) ==
  IF Braced(obj) THEN obj
  ELSE IF obj # <<>> /\ Last(obj).val = "noted" /\ ~Last(obj).comma THEN Append(obj, new)
  ELSE Added(obj, new)
(* An entry goes with its comma; the last one without, with the one before.   *)
Without(obj, i) ==
  IF obj[i].comma \/ i = 1 THEN RemoveAt(obj, i)
  ELSE RemoveAt([obj EXCEPT ![i - 1].comma = FALSE], i)

(* Whether the entry is found: install rewrites it, uninstall removes it.     *)
HoldsOurs(t) == t.is = "object" /\ "agents" \in Found(t.root) /\ "ours" \in Found(t.servers)

(* install_settings_edit.                                                     *)
Ours == Item("ours", "new", FALSE)
Installed(t) ==
  CASE t.is = "empty" -> Text(<<Item("agents", "old", FALSE)>>, <<Ours>>)
    [] t.is = "object" /\ "agents" \notin Found(t.root) ->
         Text(Behind(t.root, Item("agents", "old", FALSE)),
              IF Braced(t.root) THEN t.servers ELSE <<Ours>>)
    [] HoldsOurs(t) ->
         [t EXCEPT !.servers[Place(t.servers, "ours")].val = "new"]
    [] OTHER -> [t EXCEPT !.servers = Behind(t.servers, Ours)]
(* uninstall_settings_edit; agent_servers goes when it is left empty.         *)
Uninstalled(t) ==
  LET left == Without(t.servers, Place(t.servers, "ours"))
  IN  IF left = <<>> THEN Text(Without(t.root, Place(t.root, "agents")), <<>>)
                     ELSE [t EXCEPT !.servers = left]

-----------------------------------------------------------------------------
Idle == [at |-> "idle", read |-> Empty, made |-> Empty, since |-> 0, kept |-> FALSE]
Init == /\ file \in Texts /\ backup = Empty /\ changes = 0
        /\ cmd = [c \in Commands |-> Idle]

Step(c, here, next) == cmd[c].at = here /\ cmd' = [cmd EXCEPT ![c].at = next]
Quiet == UNCHANGED <<file, backup, changes>>
Writes(t) == file' = t /\ changes' = changes + 1 /\ UNCHANGED backup

(* Read, edit, check what was made; nothing is written unless it parses.      *)
Refused(c, t) == \/ t.is = "cut"
                 \/ t.is = "object" /\ ~Readable(t)
                 \/ c \notin Installs /\ ~HoldsOurs(t)
Edit(c, t)    == IF c \in Installs THEN Installed(t) ELSE Uninstalled(t)
Unchecked(c, t) == FALSE
Spoilt(c, t)  == ~Valid(Edit(c, t))
Read(c) ==
  /\ cmd[c].at = "idle" /\ Quiet
  /\ cmd' = [cmd EXCEPT ![c] =
       IF Refused(c, file) THEN [Idle EXCEPT !.at = "done"]
       ELSE IF Spoilt(c, file) THEN [Idle EXCEPT !.at = "internal error"]
       ELSE [at |-> IF file = Empty THEN "temp" ELSE "backup", read |-> file,
             made |-> Edit(c, file), since |-> changes, kept |-> FALSE]]

(* write_backup copies what the file holds now; its failure is a warning.     *)
Backup(c) ==
  /\ cmd[c].at = "backup" /\ UNCHANGED <<file, changes>>
  /\ \/ /\ backup' = file
        /\ cmd' = [cmd EXCEPT ![c].at = "temp", ![c].kept = TRUE]
     \/ /\ "full" \in Faults /\ backup' \in {backup, Empty, Cut}
        /\ cmd' = [cmd EXCEPT ![c].at = "temp"]

(* write_atomic: a temporary file of this process, then a rename.             *)
Temp(c)   == Step(c, "temp", "rename") /\ Quiet
Rename(c) == Step(c, "rename", "done") /\ Writes(cmd[c].made)
(* It fails, and the text that was read is written over the file in place:    *)
(* the file is cut, then filled.                                              *)
Rolls(c)       == IF cmd[c].read = Empty THEN "failed" ELSE "rollback"
TempFails(c)   == "full" \in Faults /\ Step(c, "temp", Rolls(c)) /\ Quiet
RenameFails(c) == "rename" \in Faults /\ Step(c, "rename", Rolls(c)) /\ Quiet
Truncate(c)    == Step(c, "rollback", "refill") /\ \E t \in {Empty, Cut} : Writes(t)
Refill(c)      == Step(c, "refill", "failed") /\ Writes(cmd[c].read)
RefillFails(c) == "full" \in Faults /\ Step(c, "refill", "failed") /\ Quiet
Kill(c) == /\ "kill" \in Faults
           /\ cmd[c].at \in {"backup", "temp", "rename", "rollback", "refill"}
           /\ cmd' = [cmd EXCEPT ![c].at = "killed"] /\ Quiet

(* The editor saves the file with an agent of its own added or removed.       *)
Save == /\ changes < MaxChanges /\ file.is = "object" /\ Agents(file.root)
        /\ \E k \in Others :
             Writes([file EXCEPT !.servers =
                       IF k \in Keys(file.servers) THEN Without(@, Place(@, k))
                       ELSE Added(@, Item(k, "old", FALSE))])
        /\ UNCHANGED cmd

Next == \/ Save
        \/ \E c \in Commands :
             \/ Read(c) \/ Backup(c) \/ Temp(c) \/ Rename(c) \/ TempFails(c)
             \/ RenameFails(c) \/ Truncate(c) \/ Refill(c) \/ RefillFails(c) \/ Kill(c)
Spec == Init /\ [][Next]_vars

-----------------------------------------------------------------------------
(* What a command makes of the file.  The file is emptied or cut by nothing but a rollback,     *)
(* which comes after a failed write; other writes leave a text that parses.   *)
(* If nobody wrote the file since the command read it, its rename changes the *)
(* entry "ours" alone, and the backup, if no command warned, is the text it   *)
(* replaces.                                                                  *)
Foreign(t) == [root |-> IF t.is = "object" THEN Keys(t.root) \ {"agents"} ELSE {},
               servers |-> {<<s.key, s.val>> : s \in {Servers(t)[i] : i \in DOMAIN Servers(t)}}
                             \ {<<"ours", v>> : v \in {"old", "new"} \union Scalars}]
Alone(c)    == cmd[c].since = changes /\ file = cmd[c].read
Warned      == \E c \in Commands : /\ cmd[c].at \notin {"idle", "backup"}
                                    /\ cmd[c].read # Empty /\ ~cmd[c].kept
RenamesWell(c) ==
  /\ Valid(file')
  /\ (c \in Installs) = ("ours" \in Keys(Servers(file')))
  /\ Alone(c) => /\ Foreign(file') = Foreign(file)
                 /\ cmd[c].read # Empty /\ ~Warned => backup = file
SettingsKept ==
  [][/\ file' \in {Empty, Cut} => file' = file \/ \E c \in Commands : cmd[c].at = "rollback"
     /\ \A c \in Commands :
          cmd[c].at = "rename" /\ cmd'[c].at = "done" => RenamesWell(c)]_vars
=============================================================================
