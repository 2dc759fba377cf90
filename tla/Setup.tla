-------------------------------- MODULE Setup --------------------------------
(***************************************************************************)
(* The first-run setup of the desktop hub (middleware/desktop/             *)
(* setup_wizard.py, middleware/rco_bridge/desktop_setup.py): it adds the   *)
(* connection to the settings files of two apps, installs their skills and *)
(* makes their keys, one after the other, and puts the settings back when  *)
(* one of these fails.  The apps and the user save the same files.         *)
(*                                                                         *)
(* One process at a time runs it on a workspace: launcher.InstanceLock.    *)
(***************************************************************************)
EXTENDS Integers

CONSTANTS
  Begin,     (* the states of the disk a first setup may find              *)
  BeginKeys, (* the keys it may find                                       *)
  MaxSaves,  (* bound: the saves of the apps and the user                  *)
  AppsQuiet  (* nobody saves a settings file while configure runs          *)

(* What a file holds: its RCO part, the connection of all projects (only   *)
(* .claude.json has one) and the version of everything else.  A skill file *)
(* is all RCO part.  "inline" is a connection in a layout that _codex_text *)
(* refuses; one that is as configure writes it is "ok" in any layout.      *)
Servers == {"none", "ok", "other", "inline"}
Content == [kind : {"absent", "bad", "good"}, rco : Servers,
            global : Servers \ {"inline"}, rest : 0 .. MaxSaves]
Absent  == [kind |-> "absent", rco |-> "none", global |-> "none", rest |-> 0]

Settings == {"codex", "local", "claude", "mcp"}
Skills   == {"codex_skill", "codex_yaml", "claude_skill"}
Names    == {"RCO_TOKEN_C", "RCO_TOKEN_O"}
Places   == Settings \cup Skills

(* configure writes them one after the other.                              *)
Order == [codex |-> 1, local |-> 2, claude |-> 3, mcp |-> 4,
          codex_skill |-> 5, codex_yaml |-> 6, claude_skill |-> 7,
          RCO_TOKEN_C |-> 8, RCO_TOKEN_O |-> 9]
IsFirst(i, S) == i \in S /\ \A j \in S : Order[i] <= Order[j]
IsLast(i, S)  == i \in S /\ \A j \in S : Order[j] <= Order[i]

Disks ==
  {d \in [Places -> Content] : \A p \in Places \ {"claude"} : d[p].global = "none"}

NoKey == 0
Short == -1     (* a key of less than 32 characters                        *)
Keys  == [Names -> {Short, NoKey} \cup 1 .. 3]

ASSUME SetupAssumption ==
  /\ MaxSaves \in Nat
  /\ AppsQuiet \in BOOLEAN
  /\ Begin \subseteq Disks
  /\ BeginKeys \subseteq Keys

VARIABLES
  disk,    (* what the files hold                                          *)
  key,     (* the keys in the environment of the user                      *)
  setup,   (* the process: the window, and configure where it is           *)
  backups  (* the contents of each file that were backed up                *)

vars == <<disk, key, setup, backups>>

(* shown: the window offers to replace a connection.  found: the files as  *)
(* configure parsed them, before: as it read them for the backup.  todo:   *)
(* what is left to do, written: the settings files it wrote.               *)
Process ==
  [phase : {"away", "asked", "planned", "writing", "undoing", "failed", "stuck", "done"},
   shown : BOOLEAN, found : Disks, before : Disks,
   todo : SUBSET (Places \cup Names), written : SUBSET Settings]

Nothing == [p \in Places |-> Absent]
Window(phase, shown) ==
  [phase |-> phase, shown |-> shown, found |-> Nothing, before |-> Nothing,
   todo |-> {}, written |-> {}]
Away == Window("away", FALSE)

Init ==
  /\ disk \in Begin
  /\ key \in BeginKeys
  /\ setup = Away
  /\ backups = [p \in Places |-> {}]

-----------------------------------------------------------------------------
(* inspect_setup.                                                          *)

(* Another connection is there, in the file or in force through it.        *)
Differs(c) == c.rco \in {"other", "inline"} \/ (c.rco = "none" /\ c.global = "other")
Conflicts  == {f \in Settings : Differs(disk[f])}

(* Settings that cannot be read, and keys that setup would not use.        *)
KeysInvalid ==
  \/ \E n \in Names : key[n] = Short
  \/ key["RCO_TOKEN_C"] = key["RCO_TOKEN_O"] /\ key["RCO_TOKEN_C"] # NoKey
Raises == KeysInvalid \/ \E f \in Settings : disk[f].kind = "bad"

FirstOf(a, b) == IF a # "none" THEN a ELSE b

Ready ==
  /\ ~Raises
  /\ Conflicts = {}
  /\ FirstOf(disk["local"].rco, disk["codex"].rco) = "ok"
  /\ FirstOf(FirstOf(disk["claude"].rco, disk["claude"].global), disk["mcp"].rco) = "ok"
  /\ \A n \in Names : key[n] # NoKey
  /\ disk["codex_skill"].rco = "ok" /\ disk["claude_skill"].rco = "ok"

-----------------------------------------------------------------------------
(* The window.                                                             *)

(* ensure_setup shows the window unless all is ready; a setup that raises  *)
(* or is ready changes nothing here.                                       *)
Launch ==
  /\ setup.phase = "away"
  /\ ~Raises /\ ~Ready
  /\ setup' = Window("asked", Conflicts # {})
  /\ UNCHANGED <<disk, key, backups>>

Cancel ==
  /\ setup.phase = "asked"
  /\ setup' = Away
  /\ UNCHANGED <<disk, key, backups>>

(* The user has read the error.  The window keeps its button.              *)
Acknowledge ==
  /\ setup.phase \in {"failed", "stuck"}
  /\ setup' = Window("asked", setup.shown)
  /\ UNCHANGED <<disk, key, backups>>

(* The hub runs, and is closed some day.                                   *)
Close ==
  /\ setup.phase = "done"
  /\ setup' = Away
  /\ UNCHANGED <<disk, key, backups>>

(* The process is killed, wherever it is.                                  *)
Dies ==
  /\ setup.phase # "away"
  /\ setup' = Away
  /\ UNCHANGED <<disk, key, backups>>

-----------------------------------------------------------------------------
(* configure.                                                              *)

(* A file with the connection of this application, all else as it was.     *)
Configured(c) == [c EXCEPT !.kind = "good", !.rco = "ok"]

(* Mutant of Changes: the project's own files are left alone.              *)
ChangesAtHome == {f \in {"codex", "claude"} : disk[f].rco # "ok"}

(* The connection is added at home; the project's files may override it    *)
(* and are changed when they do.                                           *)
Changes ==
  {f \in Settings : /\ disk[f].rco # "ok"
                    /\ f \in {"local", "mcp"} => disk[f].rco # "none"}

Planned ==
  setup' = [setup EXCEPT !.phase = "planned", !.found = disk,
                         !.todo = Changes \cup Skills \cup Names]

(* Mutant of Configure: the files are as they were when the window opened. *)
ConfigureAsInspected ==
  /\ setup.phase = "asked"
  /\ ~Raises
  /\ Planned
  /\ UNCHANGED <<disk, key, backups>>

(* The button: configure looks at everything again, and works out all new  *)
(* texts before it writes one.  What it refuses changes nothing.           *)
Configure ==
  /\ setup.phase = "asked"
  /\ ~Raises
  /\ Conflicts # {} => setup.shown
  /\ \A f \in Settings : disk[f].rco # "inline"
  /\ Planned
  /\ UNCHANGED <<disk, key, backups>>

ToChange == setup.todo \cap Settings

(* Mutant of BackUp: only what lies in the home directory.                 *)
BackUpHome ==
  /\ setup.phase = "planned"
  /\ setup' = [setup EXCEPT !.phase = "writing", !.before = disk]
  /\ backups' = [p \in Places |->
       IF p \in ToChange \ {"local", "mcp"} /\ disk[p] # Absent
       THEN backups[p] \cup {disk[p]} ELSE backups[p]]
  /\ UNCHANGED <<disk, key>>

(* The files are read again, and copied, before the first is changed.      *)
BackUp ==
  /\ setup.phase = "planned"
  /\ setup' = [setup EXCEPT !.phase = "writing", !.before = disk]
  /\ backups' = [p \in Places |->
       IF p \in ToChange /\ disk[p] # Absent
       THEN backups[p] \cup {disk[p]} ELSE backups[p]]
  /\ UNCHANGED <<disk, key>>

BackUpFails ==
  /\ setup.phase = "planned"
  /\ setup' = [setup EXCEPT !.phase = "failed"]
  /\ UNCHANGED <<disk, key, backups>>

(* What configure does now.                                                *)
At(i) == setup.phase = "writing" /\ IsFirst(i, setup.todo)

(* _atomic of the text worked out from the file as it was parsed.          *)
Write(f) ==
  /\ At(f)
  /\ disk' = [disk EXCEPT ![f] = Configured(setup.found[f])]
  /\ setup' = [setup EXCEPT !.todo = @ \ {f}, !.written = @ \cup {f}]
  /\ UNCHANGED <<key, backups>>

(* A current skill file is left alone, as is a codex_yaml the user has.    *)
Outdated(i) == disk[i].rco # "ok" /\ (i = "codex_yaml" => disk[i] = Absent)

(* install_desktop_skills, file by file: a copy of an outdated file, then  *)
(* its replacement.                                                        *)
Install(i) ==
  /\ At(i)
  /\ disk' = [disk EXCEPT ![i] = IF Outdated(i) THEN Configured(@) ELSE @]
  /\ backups' = [backups EXCEPT ![i] =
       IF Outdated(i) /\ disk[i] # Absent THEN @ \cup {disk[i]} ELSE @]
  /\ setup' = [setup EXCEPT !.todo = @ \ {i}]
  /\ UNCHANGED key

(* secrets.token_urlsafe: a key that nobody has.                           *)
FreshKey == CHOOSE k \in 1 .. 3 : \A n \in Names : key[n] # k

(* Mutant of SetKey: a new pair of keys for each setup.                    *)
SetFreshKey(n) ==
  /\ At(n)
  /\ key' = [key EXCEPT ![n] = FreshKey]
  /\ setup' = [setup EXCEPT !.todo = @ \ {n}]
  /\ UNCHANGED <<disk, backups>>

SetKey(n) ==
  /\ At(n)
  /\ key' = [key EXCEPT ![n] = IF @ = NoKey THEN FreshKey ELSE @]
  /\ setup' = [setup EXCEPT !.todo = @ \ {n}]
  /\ UNCHANGED <<disk, backups>>

Done ==
  /\ setup.phase = "writing"
  /\ setup.todo = {}
  /\ setup' = [setup EXCEPT !.phase = "done"]
  /\ UNCHANGED <<disk, key, backups>>

(* A write, a copy or a key fails: the settings written are put back, last *)
(* first, skills and keys are not.  One that cannot be put back ends this. *)
Fails ==
  /\ setup.phase = "writing"
  /\ setup.todo # {}
  /\ setup' = [setup EXCEPT !.phase = "undoing"]
  /\ UNCHANGED <<disk, key, backups>>

(* Mutant of Undo: a file that was not there is not removed again.         *)
UndoExisting(f) ==
  /\ setup.phase = "undoing"
  /\ IsLast(f, setup.written)
  /\ disk' = [disk EXCEPT ![f] = IF setup.before[f] = Absent THEN @ ELSE setup.before[f]]
  /\ setup' = [setup EXCEPT !.written = @ \ {f}]
  /\ UNCHANGED <<key, backups>>

Undo(f) ==
  /\ setup.phase = "undoing"
  /\ IsLast(f, setup.written)
  /\ disk' = [disk EXCEPT ![f] = setup.before[f]]
  /\ setup' = [setup EXCEPT !.written = @ \ {f}]
  /\ UNCHANGED <<key, backups>>

UndoFails ==
  /\ setup.phase = "undoing"
  /\ setup.written # {}
  /\ setup' = [setup EXCEPT !.phase = "stuck"]
  /\ UNCHANGED <<disk, key, backups>>

Undone ==
  /\ setup.phase = "undoing"
  /\ setup.written = {}
  /\ setup' = [setup EXCEPT !.phase = "failed"]
  /\ UNCHANGED <<disk, key, backups>>

-----------------------------------------------------------------------------
(* The apps and the user.                                                  *)

(* The next version of the settings.                                       *)
IsNewest(v) ==
  /\ \A f \in Settings : disk[f].rest < v
  /\ v = 1 \/ \E f \in Settings : disk[f].rest = v - 1

Saved(c, kind, rco, v) == [c EXCEPT !.kind = kind, !.rco = rco, !.rest = v]

(* A settings file is saved, with a change of its own, perhaps another     *)
(* connection, perhaps not well formed.                                    *)
Saves(f) ==
  /\ AppsQuiet => setup.phase \notin {"planned", "writing", "undoing"}
  /\ \E v \in 1 .. MaxSaves, kind \in {"good", "bad"}, rco \in {disk[f].rco, "other"} :
       /\ IsNewest(v)
       /\ disk' = [disk EXCEPT ![f] = Saved(@, kind, rco, v)]
  /\ UNCHANGED <<key, setup, backups>>

Next ==
  \/ Launch \/ Cancel \/ Acknowledge \/ Close \/ Dies
  \/ Configure \/ BackUp \/ BackUpFails
  \/ \E f \in Settings : Write(f) \/ Undo(f) \/ Saves(f)
  \/ \E i \in Skills : Install(i)
  \/ \E n \in Names : SetKey(n)
  \/ Done \/ Fails \/ UndoFails \/ Undone

Spec == Init /\ [][Next]_vars

-----------------------------------------------------------------------------
TypeOK ==
  /\ disk \in Disks
  /\ key \in Keys
  /\ setup \in Process
  /\ backups \in [Places -> SUBSET Content]

(* What a step of the process, and not of an app or the user, changes.     *)
Touched == {p \in Places : setup' # setup /\ disk'[p] # disk[p]}

(* A setup that reports success leaves a workspace that the next launch    *)
(* finds ready, whatever files, stale overrides and half done setups it    *)
(* began with (configure, inspect_setup).                                  *)
DoneMeansReady ==
  [][setup.phase # "done" /\ setup'.phase = "done" => Ready']_vars

(* A setup that fails and puts back what it wrote leaves every settings    *)
(* file as it found it, the ones it created included (the except clause of *)
(* configure).                                                             *)
FailedLeavesSettings ==
  [][setup.phase # "failed" /\ setup'.phase = "failed" =>
       \A f \in Settings : disk'[f] = setup.found[f]]_vars

(* "Changed settings are backed up first": what the process overwrites is  *)
(* in a backup, or it wrote it itself a moment ago (configure,             *)
(* install_desktop_skills).                                                *)
BackedUpFirst ==
  [][\A p \in Touched :
       \/ disk[p] \in backups'[p] \cup {Absent}
       \/ p \in setup.written /\ disk[p] = Configured(setup.found[p])]_vars

(* Another connection gives way only to a user who saw the button that     *)
(* says so, also when it was made while the window was open (the second    *)
(* inspect_setup, in configure).                                           *)
ReplacedWhenShown ==
  [][\A f \in Touched \cap Settings :
       Differs(disk[f]) /\ ~Differs(disk'[f]) => setup.shown]_vars

(* A key that an app may already use is never changed, over failures,      *)
(* deaths and repeated setups (configure: "never replace an existing       *)
(* connection key").                                                       *)
KeysStay ==
  [][\A n \in Names : key[n] # NoKey => key'[n] = key[n]]_vars
=============================================================================
