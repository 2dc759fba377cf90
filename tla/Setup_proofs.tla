----------------------------- MODULE Setup_proofs -----------------------------
(***************************************************************************)
(* Theorems about the first-run setup, from any files and keys and for any *)
(* number of saves: it never changes a key; and, when nobody saves a file  *)
(* while configure runs, it backs up what it replaces, replaces another    *)
(* connection only when it said so, leaves the settings of a failed setup  *)
(* as they were, and reports success only when all is ready.               *)
(***************************************************************************)
EXTENDS Setup, TLAPS

USE DEF NoKey, Short

LEMMA FreshKeyIsFresh ==
  ASSUME TypeOK
  PROVE  FreshKey \in 1 .. 3 /\ \A n \in Names : key[n] # FreshKey
<1>1. \E k \in 1 .. 3 : \A n \in Names : key[n] # k
  BY DEF TypeOK, Keys, Names
<1> QED  BY <1>1 DEF FreshKey

LEMMA OnDisk ==
  ASSUME NEW d \in Disks, NEW p \in Places
  PROVE  d[p] \in Content /\ (p # "claude" => d[p].global = "none")
BY DEF Disks

LEMMA DiskChanged ==
  ASSUME NEW d \in Disks, NEW p \in Places, NEW c \in Content,
         p # "claude" => c.global = "none"
  PROVE  [d EXCEPT ![p] = c] \in Disks
BY DEF Disks

LEMMA ConfiguredContent ==
  ASSUME NEW c \in Content
  PROVE  /\ Configured(c) \in Content
         /\ Configured(c).global = c.global
         /\ Configured(c).rco = "ok"
         /\ Configured(c).kind = "good"
BY DEF Content, Configured, Servers

LEMMA SavedContent ==
  ASSUME NEW c \in Content, NEW kind \in {"good", "bad"}, NEW rco \in Servers,
         NEW v \in 1 .. MaxSaves
  PROVE  /\ Saved(c, kind, rco, v) \in Content
         /\ Saved(c, kind, rco, v).global = c.global
<1>1. v \in 0 .. MaxSaves
  BY SetupAssumption
<1> QED  BY <1>1 DEF Content, Saved

LEMMA FileConfigured ==
  ASSUME NEW d \in Disks, NEW e \in Disks, NEW p \in Places
  PROVE  [d EXCEPT ![p] = Configured(e[p])] \in Disks
BY OnDisk, DiskChanged, ConfiguredContent

LEMMA TypeStep ==
  ASSUME TypeOK, [Next]_vars
  PROVE  TypeOK'
<1> USE DEF TypeOK, Process
<1>1. Nothing \in Disks
  BY SetupAssumption DEF Nothing, Disks, Content, Absent, Servers
<1>2. \A phase \in {"away", "asked"}, shown \in BOOLEAN : Window(phase, shown) \in Process
  BY <1>1 DEF Window
<1>3. CASE UNCHANGED vars
  BY <1>3 DEF vars
<1>4. CASE Launch \/ Cancel \/ Acknowledge \/ Close \/ Dies
  BY <1>2, <1>4 DEF Launch, Cancel, Acknowledge, Close, Dies, Away
<1>5. CASE Configure
  <2>1. Changes \cup Skills \cup Names \subseteq Places \cup Names
    BY DEF Changes, Places
  <2> QED  BY <1>5, <2>1 DEF Configure, Planned
<1>6. CASE BackUp \/ BackUpFails
  <2>1. \A p \in Places : disk[p] \in Content
    BY DEF Disks
  <2>2. CASE BackUp
    <3>1. backups' \in [Places -> SUBSET Content]
      BY <2>1, <2>2 DEF BackUp
    <3> QED  BY <2>2, <3>1 DEF BackUp
  <2>3. CASE BackUpFails
    BY <2>3 DEF BackUpFails
  <2> QED  BY <1>6, <2>2, <2>3
<1>7. ASSUME NEW f \in Settings, Write(f)
      PROVE  TypeOK'
  <2>1. disk' \in Disks
    BY <1>7, FileConfigured DEF Write, Places
  <2> QED  BY <1>7, <2>1 DEF Write
<1>8. ASSUME NEW f \in Settings, Undo(f)
      PROVE  TypeOK'
  <2>1. disk' \in Disks
    BY <1>8, OnDisk, DiskChanged DEF Undo, Places
  <2> QED  BY <1>8, <2>1 DEF Undo
<1>9. ASSUME NEW f \in Settings, Saves(f)
      PROVE  TypeOK'
  <2>1. PICK v \in 1 .. MaxSaves, kind \in {"good", "bad"}, rco \in {disk[f].rco, "other"} :
          disk' = [disk EXCEPT ![f] = Saved(@, kind, rco, v)]
    BY <1>9 DEF Saves
  <2>2. f \in Places /\ disk[f] \in Content /\ (f # "claude" => disk[f].global = "none")
    BY OnDisk DEF Places
  <2>3. rco \in Servers
    BY <2>2 DEF Content, Servers
  <2>4. disk' \in Disks
    <3> DEFINE c == Saved(disk[f], kind, rco, v)
    <3>1. c \in Content /\ c.global = disk[f].global
      BY <2>2, <2>3, SavedContent
    <3>2. disk' = [disk EXCEPT ![f] = c]
      BY <2>1
    <3> HIDE DEF c
    <3> QED  BY <2>2, <3>1, <3>2, DiskChanged
  <2> QED  BY <1>9, <2>4 DEF Saves
<1>10. ASSUME NEW i \in Skills, Install(i)
       PROVE  TypeOK'
  <2>1. i \in Places /\ disk[i] \in Content
    BY DEF Places, Disks
  <2>2. disk' \in Disks
    <3>1. CASE Outdated(i)
      BY <1>10, <3>1, <2>1, FileConfigured DEF Install
    <3>2. CASE ~Outdated(i)
      BY <1>10, <3>2, <2>1, OnDisk, DiskChanged DEF Install
    <3> QED  BY <3>1, <3>2
  <2> QED  BY <1>10, <2>1, <2>2 DEF Install
<1>11. ASSUME NEW n \in Names, SetKey(n)
       PROVE  TypeOK'
  BY <1>11, FreshKeyIsFresh DEF SetKey, Keys
<1>12. CASE Done \/ Fails \/ UndoFails \/ Undone
  BY <1>12 DEF Done, Fails, UndoFails, Undone
<1> QED
  BY <1>3, <1>4, <1>5, <1>6, <1>7, <1>8, <1>9, <1>10, <1>11, <1>12 DEF Next

(* Every state is one the types allow, for any files, keys and saves.      *)
THEOREM TypesKept == Spec => []TypeOK
<1>1. Init => TypeOK
  <2>1. Nothing \in Disks
    BY SetupAssumption DEF Nothing, Disks, Content, Absent, Servers
  <2> QED
    BY <2>1, SetupAssumption DEF Init, TypeOK, Process, Away, Window
<1> QED  BY <1>1, TypeStep, PTL DEF Spec

(* A key that is there stays, over any failures, deaths and repeated       *)
(* setups.                                                                 *)
THEOREM KeysAlwaysStay == Spec => KeysStay
<1>1. ASSUME TypeOK, [Next]_vars
      PROVE  [\A n \in Names : key[n] # NoKey => key'[n] = key[n]]_vars
  <2> SUFFICES ASSUME NEW n \in Names, key[n] # NoKey
               PROVE  key'[n] = key[n]
    OBVIOUS
  <2>1. ASSUME NEW m \in Names, SetKey(m)
        PROVE  key'[n] = key[n]
    BY <1>1, <2>1 DEF SetKey, TypeOK, Keys
  <2> QED
    BY <1>1, <2>1 DEF Next, vars, Launch, Cancel, Acknowledge, Close, Dies, Configure,
         BackUp, BackUpFails, Write, Install, Done, Fails, Undo, UndoFails, Undone, Saves
<1> QED  BY <1>1, TypesKept, PTL DEF Spec, KeysStay

-----------------------------------------------------------------------------
(* The invariant of configure, when nobody saves a file while it runs.     *)

Runs   == setup.phase \in {"planned", "writing", "undoing"}
Writes == setup.phase \in {"writing", "undoing"}

(* A file is as it was found, or as configure writes it.                   *)
FilesKnown ==
  /\ setup.phase \in {"away", "asked", "planned"} => setup.written = {}
  /\ Runs => \A f \in Settings :
       \/ disk[f] = setup.found[f]
       \/ f \in setup.written /\ disk[f] = Configured(setup.found[f])

(* What was or will be written was read as it was found, and backed up.    *)
CopiesMade ==
  Writes => \A f \in (setup.todo \cap Settings) \cup setup.written :
    /\ setup.before[f] = setup.found[f]
    /\ setup.before[f] \in backups[f] \cup {Absent}

(* The window told of the connections that are to be replaced.             *)
Told == Runs => \A f \in Settings : Differs(setup.found[f]) => setup.shown

(* All that is not ready is still to be done.                              *)
WorkListed ==
  /\ setup.phase \in {"planned", "writing"} =>
       /\ ~KeysInvalid
       /\ \A f \in Settings :
            /\ setup.found[f].kind # "bad"
            /\ \/ setup.found[f].rco = "ok"
               \/ f \in {"local", "mcp"} /\ setup.found[f].rco = "none"
               \/ f \in setup.todo \cup setup.written
       /\ \A i \in {"codex_skill", "claude_skill"} : i \in setup.todo \/ disk[i].rco = "ok"
       /\ \A n \in Names : n \in setup.todo \/ key[n] # NoKey
  /\ setup.phase = "writing" =>
       \A f \in setup.written : disk[f] = Configured(setup.found[f])

Known == FilesKnown /\ CopiesMade /\ Told /\ WorkListed

LEMMA KnownStep ==
  ASSUME AppsQuiet = TRUE, TypeOK, Known, [Next]_vars
  PROVE  Known'
<1> USE DEF Runs, Writes
<1>1. CASE UNCHANGED vars
  BY <1>1 DEF vars, Known, FilesKnown, CopiesMade, Told, WorkListed, KeysInvalid
<1>2. CASE Launch \/ Cancel \/ Acknowledge \/ Close \/ Dies
  BY <1>2 DEF Launch, Cancel, Acknowledge, Close, Dies, Away, Window,
       Known, FilesKnown, CopiesMade, Told, WorkListed
<1>3. CASE Done \/ Fails \/ UndoFails \/ Undone \/ BackUpFails
  BY <1>3 DEF Done, Fails, UndoFails, Undone, BackUpFails, TypeOK, Process,
       Known, FilesKnown, CopiesMade, Told, WorkListed
<1>4. CASE Configure
  <2>1. /\ setup'.phase = "planned" /\ setup'.found = disk /\ setup'.written = {}
        /\ setup'.todo = Changes \cup Skills \cup Names /\ setup'.shown = setup.shown
        /\ disk' = disk /\ key' = key
    BY <1>4 DEF Configure, Planned, TypeOK, Process, Known, FilesKnown
  <2>2. FilesKnown' /\ CopiesMade'
    BY <2>1 DEF FilesKnown, CopiesMade
  <2>3. Told'
    BY <1>4, <2>1 DEF Told, Configure, Conflicts
  <2>4. WorkListed'
    BY <1>4, <2>1 DEF WorkListed, Configure, Raises, KeysInvalid, Changes, Skills
  <2> QED  BY <2>2, <2>3, <2>4 DEF Known
<1>5. CASE BackUp
  <2>1. /\ setup.phase = "planned" /\ setup'.phase = "writing"
        /\ setup'.found = setup.found /\ setup'.before = disk
        /\ setup'.written = {} /\ setup.written = {} /\ setup'.todo = setup.todo
        /\ setup'.shown = setup.shown /\ disk' = disk /\ key' = key
    BY <1>5 DEF BackUp, TypeOK, Process, Known, FilesKnown
  <2>2. \A f \in Settings : disk[f] = setup.found[f]
    BY <2>1 DEF Known, FilesKnown
  <2>3. \A f \in setup.todo \cap Settings : disk[f] \in backups'[f] \cup {Absent}
    BY <1>5 DEF BackUp, ToChange, Places
  <2>4. FilesKnown' /\ CopiesMade' /\ Told'
    BY <2>1, <2>2, <2>3 DEF Known, FilesKnown, CopiesMade, Told
  <2>5. WorkListed'
    BY <2>1 DEF Known, WorkListed, KeysInvalid
  <2> QED  BY <2>4, <2>5 DEF Known
<1>6. ASSUME NEW f \in Settings, Write(f)
      PROVE  Known'
  <2>1. /\ setup.phase = "writing" /\ setup'.phase = "writing" /\ f \in setup.todo
        /\ setup'.found = setup.found /\ setup'.before = setup.before
        /\ setup'.written = setup.written \cup {f} /\ setup'.todo = setup.todo \ {f}
        /\ setup'.shown = setup.shown /\ backups' = backups /\ key' = key
        /\ disk' = [disk EXCEPT ![f] = Configured(setup.found[f])]
    BY <1>6 DEF Write, At, IsFirst, TypeOK, Process
  <2>2. /\ disk'[f] = Configured(setup.found[f])
        /\ \A p \in Places \ {f} : disk'[p] = disk[p]
    BY <2>1 DEF TypeOK, Disks, Places
  <2>3. FilesKnown'
    BY <2>1, <2>2 DEF Known, FilesKnown, Places
  <2>4. CopiesMade' /\ Told'
    BY <2>1 DEF Known, CopiesMade, Told
  <2>5. WorkListed'
    <3>1. ~KeysInvalid'
      BY <2>1 DEF Known, WorkListed, KeysInvalid
    <3>2. \A i \in {"codex_skill", "claude_skill"} : i # f /\ i \in Places
      BY DEF Settings, Skills, Places
    <3>3. \A n \in Names : n # f
      BY DEF Settings, Names
    <3>4. \A g \in setup.written : g \in Places
      BY DEF TypeOK, Process, Places
    <3> QED  BY <2>1, <2>2, <3>1, <3>2, <3>3, <3>4 DEF Known, WorkListed
  <2> QED  BY <2>3, <2>4, <2>5 DEF Known
<1>7. ASSUME NEW f \in Settings, Undo(f)
      PROVE  Known'
  <2>1. /\ setup.phase = "undoing" /\ setup'.phase = "undoing" /\ f \in setup.written
        /\ setup'.found = setup.found /\ setup'.before = setup.before
        /\ setup'.written = setup.written \ {f} /\ setup'.todo = setup.todo
        /\ setup'.shown = setup.shown /\ backups' = backups
        /\ disk' = [disk EXCEPT ![f] = setup.before[f]]
    BY <1>7 DEF Undo, IsLast, TypeOK, Process
  <2>2. /\ disk'[f] = setup.found[f]
        /\ \A p \in Places \ {f} : disk'[p] = disk[p]
    BY <2>1 DEF TypeOK, Disks, Places, Known, CopiesMade
  <2>3. FilesKnown'
    BY <2>1, <2>2 DEF Known, FilesKnown, Places
  <2> QED  BY <2>1, <2>3 DEF Known, CopiesMade, Told, WorkListed
<1>8. ASSUME NEW f \in Settings, Saves(f)
      PROVE  Known'
  <2>1. setup' = setup /\ key' = key /\ backups' = backups /\ ~Runs
    BY <1>8 DEF Saves
  <2> QED  BY <2>1 DEF Known, FilesKnown, CopiesMade, Told, WorkListed
<1>9. ASSUME NEW i \in Skills, Install(i)
      PROVE  Known'
  <2>1. /\ setup.phase = "writing" /\ setup'.phase = "writing"
        /\ setup'.found = setup.found /\ setup'.before = setup.before
        /\ setup'.written = setup.written /\ setup'.todo = setup.todo \ {i}
        /\ setup'.shown = setup.shown /\ key' = key
        /\ setup.written \subseteq Settings
    BY <1>9 DEF Install, At, TypeOK, Process
  <2>2. i \in Places /\ i \notin Settings /\ i \notin Names
    BY DEF Skills, Settings, Names, Places
  <2>3. \A f \in Settings : disk'[f] = disk[f] /\ backups'[f] = backups[f]
    BY <1>9, <2>2 DEF Install, TypeOK, Disks, Places
  <2>4. \A j \in {"codex_skill", "claude_skill"} :
          disk[j].rco = "ok" \/ j = i => disk'[j].rco = "ok"
    <3>1. i # "codex_yaml" => disk'[i].rco = "ok"
      <4>1. disk[i] \in Content
        BY <2>2, OnDisk DEF TypeOK
      <4> QED  BY <1>9, <2>2, <4>1, ConfiguredContent DEF Install, Outdated, TypeOK, Disks
    <3>2. \A j \in Places \ {i} : disk'[j] = disk[j]
      BY <1>9 DEF Install, TypeOK, Disks
    <3> QED  BY <3>1, <3>2 DEF Places, Skills
  <2>5. FilesKnown' /\ CopiesMade' /\ Told'
    BY <2>1, <2>3 DEF Known, FilesKnown, CopiesMade, Told
  <2>6. WorkListed'
    BY <2>1, <2>2, <2>3, <2>4 DEF Known, WorkListed, KeysInvalid
  <2> QED  BY <2>5, <2>6 DEF Known
<1>10. ASSUME NEW n \in Names, SetKey(n)
       PROVE  Known'
  <2>1. /\ setup.phase = "writing" /\ setup'.phase = "writing"
        /\ setup'.found = setup.found /\ setup'.before = setup.before
        /\ setup'.written = setup.written /\ setup'.todo = setup.todo \ {n}
        /\ setup'.shown = setup.shown /\ disk' = disk /\ backups' = backups
    BY <1>10 DEF SetKey, At, TypeOK, Process
  <2>2. n \notin Settings /\ n \notin Skills
    BY DEF Names, Settings, Skills
  <2>3. ~KeysInvalid /\ (\A m \in Names : m \in setup.todo \/ key[m] # NoKey)
    BY <2>1 DEF Known, WorkListed
  <2>4. ~KeysInvalid' /\ (\A m \in Names : m \in setup'.todo \/ key'[m] # NoKey)
    BY <1>10, <2>1, <2>3, FreshKeyIsFresh DEF SetKey, KeysInvalid, TypeOK, Keys, Names
  <2>5. FilesKnown' /\ CopiesMade' /\ Told'
    BY <2>1, <2>2 DEF Known, FilesKnown, CopiesMade, Told
  <2>6. WorkListed'
    BY <2>1, <2>2, <2>4 DEF Known, WorkListed, Skills
  <2> QED  BY <2>5, <2>6 DEF Known
<1> QED
  BY <1>1, <1>2, <1>3, <1>4, <1>5, <1>6, <1>7, <1>8, <1>9, <1>10 DEF Next

LEMMA AlwaysKnown == AppsQuiet = TRUE => (Spec => [](TypeOK /\ Known))
<1> SUFFICES ASSUME AppsQuiet = TRUE
             PROVE  Spec => [](TypeOK /\ Known)
  OBVIOUS
<1>1. Init => Known
  BY DEF Init, Away, Window, Known, FilesKnown, CopiesMade, Told, WorkListed, Runs, Writes
<1>2. TypeOK /\ Known /\ [Next]_vars => Known'
  BY KnownStep
<1> QED  BY <1>1, <1>2, TypesKept, PTL DEF Spec

-----------------------------------------------------------------------------
(* What configure does to a settings file it wrote, or will write.         *)
LEMMA FileKnown ==
  ASSUME TypeOK, Known, Writes, NEW f \in Settings
  PROVE  /\ disk[f] = setup.found[f] \/ (f \in setup.written /\ disk[f] = Configured(setup.found[f]))
         /\ f \in setup.todo \cup setup.written =>
              /\ setup.before[f] = setup.found[f]
              /\ setup.before[f] \in backups[f] \cup {Absent}
         /\ f \in Places /\ setup.found[f] \in Content
         /\ Differs(setup.found[f]) => setup.shown
         /\ ~Differs(Configured(setup.found[f]))
<1>1. f \in Places /\ setup.found[f] \in Content
  BY OnDisk DEF Places, TypeOK, Process
<1>2. ~Differs(Configured(setup.found[f]))
  BY <1>1, ConfiguredContent DEF Differs
<1> QED  BY <1>1, <1>2 DEF Known, FilesKnown, CopiesMade, Told, Runs, Writes

(* The steps of the process that change a file.                            *)
LEMMA WhoTouches ==
  ASSUME TypeOK, [Next]_vars, NEW p \in Places, setup' # setup, disk'[p] # disk[p]
  PROVE  (p \in Settings /\ (Write(p) \/ Undo(p))) \/ (p \in Skills /\ Install(p))
<1>1. ASSUME NEW f \in Settings, Write(f) \/ Undo(f)
      PROVE  p = f
  BY <1>1 DEF Write, Undo, TypeOK, Disks
<1>2. ASSUME NEW i \in Skills, Install(i)
      PROVE  p = i
  BY <1>2 DEF Install, TypeOK, Disks
<1> QED
  BY <1>1, <1>2 DEF Next, vars, Launch, Cancel, Acknowledge, Close, Dies, Configure,
     BackUp, BackUpFails, SetKey, Done, Fails, UndoFails, Undone, Saves

(* The steps that end configure.                                           *)
LEMMA WhoEnds ==
  ASSUME TypeOK, [Next]_vars, setup'.phase # setup.phase
  PROVE  /\ setup'.phase = "failed" => BackUpFails \/ Undone
         /\ setup'.phase = "done" => Done
<1>1. CASE Launch \/ Cancel \/ Acknowledge \/ Close \/ Dies
  BY <1>1 DEF Launch, Cancel, Acknowledge, Close, Dies, Away, Window
<1>2. CASE Configure \/ BackUp \/ Fails \/ UndoFails
  BY <1>2 DEF Configure, Planned, BackUp, Fails, UndoFails, TypeOK, Process
<1>3. CASE BackUpFails \/ Done \/ Undone
  BY <1>3 DEF BackUpFails, Done, Undone, TypeOK, Process
<1>4. ASSUME NEW f \in Settings, Write(f) \/ Undo(f) \/ Saves(f)
      PROVE  FALSE
  BY <1>4 DEF Write, Undo, Saves, TypeOK, Process
<1>5. ASSUME NEW i \in Skills, Install(i)
      PROVE  FALSE
  BY <1>5 DEF Install, TypeOK, Process
<1>6. ASSUME NEW n \in Names, SetKey(n)
      PROVE  FALSE
  BY <1>6 DEF SetKey, TypeOK, Process
<1> QED  BY <1>1, <1>2, <1>3, <1>4, <1>5, <1>6 DEF Next, vars

LEMMA BackedUpStep ==
  ASSUME TypeOK, Known, [Next]_vars, NEW p \in Touched
  PROVE  \/ disk[p] \in backups'[p] \cup {Absent}
         \/ p \in setup.written /\ disk[p] = Configured(setup.found[p])
<1>1. p \in Places /\ setup' # setup /\ disk'[p] # disk[p]
  BY DEF Touched
<1>2. CASE p \in Settings /\ Write(p)
  <2>1. Writes /\ p \in setup.todo /\ backups' = backups
    BY <1>2 DEF Write, At, IsFirst, Writes
  <2> QED  BY <1>2, <2>1, FileKnown
<1>3. CASE p \in Settings /\ Undo(p)
  <2>1. Writes /\ p \in setup.written /\ disk'[p] = setup.before[p]
    BY <1>1, <1>3 DEF Undo, IsLast, Writes, TypeOK, Disks
  <2> QED  BY <1>1, <1>3, <2>1, FileKnown
<1>4. CASE p \in Skills /\ Install(p)
  <2>1. Outdated(p)
    BY <1>1, <1>4 DEF Install, TypeOK, Disks
  <2> QED  BY <1>1, <1>4, <2>1 DEF Install, TypeOK
<1> QED  BY <1>1, <1>2, <1>3, <1>4, WhoTouches

(* What setup overwrites is in a backup, unless it wrote it itself.        *)
THEOREM AlwaysBackedUpFirst == AppsQuiet = TRUE => (Spec => BackedUpFirst)
<1> SUFFICES ASSUME AppsQuiet = TRUE
             PROVE  Spec => BackedUpFirst
  OBVIOUS
<1>1. TypeOK /\ Known /\ [Next]_vars =>
        [\A p \in Touched :
           \/ disk[p] \in backups'[p] \cup {Absent}
           \/ p \in setup.written /\ disk[p] = Configured(setup.found[p])]_vars
  BY BackedUpStep
<1> QED  BY <1>1, AlwaysKnown, PTL DEF Spec, BackedUpFirst

LEMMA ReplacedStep ==
  ASSUME TypeOK, Known, [Next]_vars, NEW f \in Touched \cap Settings,
         Differs(disk[f]), ~Differs(disk'[f])
  PROVE  setup.shown
<1>1. f \in Places /\ f \notin Skills /\ setup' # setup /\ disk'[f] # disk[f]
  BY DEF Touched, Settings, Skills
<1>2. Write(f) \/ Undo(f)
  BY <1>1, WhoTouches
<1>3. Writes
  BY <1>2 DEF Write, Undo, At, Writes
<1> QED  BY <1>3, FileKnown

(* Another connection gives way only to a user who was told of one.        *)
THEOREM AlwaysReplacedWhenShown == AppsQuiet = TRUE => (Spec => ReplacedWhenShown)
<1> SUFFICES ASSUME AppsQuiet = TRUE
             PROVE  Spec => ReplacedWhenShown
  OBVIOUS
<1>1. TypeOK /\ Known /\ [Next]_vars =>
        [\A f \in Touched \cap Settings :
           Differs(disk[f]) /\ ~Differs(disk'[f]) => setup.shown]_vars
  BY ReplacedStep
<1> QED  BY <1>1, AlwaysKnown, PTL DEF Spec, ReplacedWhenShown

LEMMA FailedStep ==
  ASSUME TypeOK, Known, [Next]_vars, setup.phase # "failed", setup'.phase = "failed"
  PROVE  \A f \in Settings : disk'[f] = setup.found[f]
<1>1. BackUpFails \/ Undone
  BY WhoEnds
<1>2. disk' = disk /\ Runs /\ setup.written = {}
  BY <1>1 DEF BackUpFails, Undone, Runs, Known, FilesKnown
<1> QED  BY <1>2 DEF Known, FilesKnown

(* A setup that fails leaves every settings file as it found it.           *)
THEOREM FailedAlwaysLeavesSettings == AppsQuiet = TRUE => (Spec => FailedLeavesSettings)
<1> SUFFICES ASSUME AppsQuiet = TRUE
             PROVE  Spec => FailedLeavesSettings
  OBVIOUS
<1>1. TypeOK /\ Known /\ [Next]_vars =>
        [setup.phase # "failed" /\ setup'.phase = "failed" =>
           \A f \in Settings : disk'[f] = setup.found[f]]_vars
  BY FailedStep
<1> QED  BY <1>1, AlwaysKnown, PTL DEF Spec, FailedLeavesSettings

LEMMA DoneStep ==
  ASSUME TypeOK, Known, [Next]_vars, setup.phase # "done", setup'.phase = "done"
  PROVE  Ready'
<1>1. Done
  BY WhoEnds
<1>2. setup.phase = "writing" /\ setup.todo = {} /\ disk' = disk /\ key' = key
  BY <1>1 DEF Done
<1>3. ASSUME NEW f \in Settings
      PROVE  /\ disk[f].kind # "bad"
             /\ ~Differs(disk[f])
             /\ disk[f].rco = "ok" \/ (f \in {"local", "mcp"} /\ disk[f].rco = "none")
  <2>1. f \in Places /\ disk[f] \in Content /\ setup.found[f] \in Content
        /\ (f # "claude" => disk[f].global = "none")
    BY OnDisk DEF TypeOK, Process, Places
  <2>2. CASE f \in setup.written
    BY <1>2, <2>1, <2>2, ConfiguredContent DEF Known, WorkListed, Differs
  <2>3. CASE f \notin setup.written
    BY <1>2, <2>1, <2>3 DEF Known, FilesKnown, WorkListed, Runs, Differs
  <2> QED  BY <2>2, <2>3
<1>4. /\ ~KeysInvalid
      /\ \A n \in Names : key[n] # NoKey
      /\ disk["codex_skill"].rco = "ok" /\ disk["claude_skill"].rco = "ok"
  BY <1>2 DEF Known, WorkListed
<1>5. ~Raises /\ Conflicts = {}
  BY <1>3, <1>4 DEF Raises, Conflicts
<1>6. /\ FirstOf(disk["local"].rco, disk["codex"].rco) = "ok"
      /\ FirstOf(FirstOf(disk["claude"].rco, disk["claude"].global), disk["mcp"].rco) = "ok"
  BY <1>3 DEF FirstOf, Settings
<1>7. Ready
  BY <1>4, <1>5, <1>6 DEF Ready
<1> QED  BY <1>2, <1>7 DEF Ready, Raises, KeysInvalid, Conflicts

(* A setup that reports success leaves what the next launch finds ready.   *)
THEOREM DoneAlwaysMeansReady == AppsQuiet = TRUE => (Spec => DoneMeansReady)
<1> SUFFICES ASSUME AppsQuiet = TRUE
             PROVE  Spec => DoneMeansReady
  OBVIOUS
<1>1. TypeOK /\ Known /\ [Next]_vars =>
        [setup.phase # "done" /\ setup'.phase = "done" => Ready']_vars
  BY DoneStep
<1> QED  BY <1>1, AlwaysKnown, PTL DEF Spec, DoneMeansReady
===============================================================================
