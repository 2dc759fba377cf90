-------------------------------- MODULE Skills --------------------------------
(***************************************************************************)
(* The skill catalog (rco/skills.py): the files of a folder that describe  *)
(* themselves, scanned in a worker thread while the files change and while *)
(* the callers of rescan wait, give up, or ask again.  A scan looks at one *)
(* file after another and its result is applied at once, one record for    *)
(* each difference to the catalog.  Each record may be refused, and an     *)
(* exception may end the scan, or its application, before the catalog is   *)
(* replaced.                                                               *)
(*                                                                         *)
(* A file's bytes are a member of Shas; NameOf says what the adapter makes *)
(* of them.                                                                *)
(***************************************************************************)
EXTENDS Integers, FiniteSets, FiniteSetsExt

CONSTANTS
  Files,       (* file names, as numbers in their sorted order             *)
  Shas,        (* contents                                                 *)
  NameOf,      (* the name a content declares, or Bad                      *)
  Bad,
  Nothing,
  Folder,      (* the content the hub finds in each file, or Nothing       *)
  Arrivals,    (* bound: what a changed file is, if it is there at all     *)
  Callers,     (* who calls rescan: tools, registrations, the poll         *)
  MaxChanges,  (* bound: changes to the folder                             *)
  MaxScans     (* bound: scans begun                                       *)

(* How a file looks to a scan: changed less than settle_ms ago, at rest,   *)
(* dated in the future, at rest but locked, or a placeholder of the cloud. *)
Looks  == {"recent", "rest", "future", "locked", "cloud"}
NoFile == [sha |-> Nothing, look |-> "rest"]
Entry  == [sha : Shas, look : Looks] \cup {NoFile}

ASSUME SkillsAssumption ==
  /\ IsFiniteSet(Files) /\ Files \subseteq Nat
  /\ DOMAIN NameOf = Shas
  /\ Nothing \notin Shas /\ Folder \in [Files -> Shas \cup {Nothing}]
  /\ Arrivals \subseteq [sha : Shas, look : Looks]
  /\ {MaxChanges, MaxScans} \subseteq Nat

VARIABLES
  disk,      (* the folder                                                 *)
  changes,   (* changes to it so far                                       *)
  policy,    (* [records] on_write_failure                                 *)
  observed,  (* what _observed knows of the present size and mtime         *)
  skills,    (* SkillCatalog.skills                                        *)
  rejected,  (* SkillCatalog.rejected                                      *)
  reported,  (* SkillCatalog._reported                                     *)
  scans,     (* the scans begun, the latest is _task                       *)
  latest,    (* how many there are                                         *)
  calls,     (* the callers inside rescan                                  *)
  asOf,      (* history: the scan that made the catalog                    *)
  told,      (* history: the catalog that the records tell of              *)
  astray     (* history: the files of which the records do not tell        *)

outside == <<disk, changes, policy>>
catalog == <<skills, rejected, reported, asOf, told, astray>>
vars    == <<outside, observed, catalog, scans, latest, calls>>

Catalog == [Files -> Shas \cup {Nothing}]
Reasons == Shas \cup {"unreadable", "cloud", Nothing}

(* After a refused record the hub that fails the action and the one that   *)
(* stops do the same here.                                                 *)
Policies == {"fail_action", "continue"}

Phases == {"begun", "stat", "read", "over", "failed"}
Scan   == [phase : Phases, todo : SUBSET Files, old : Catalog, found : Catalog,
           bad : [Files -> Reasons]]

Empty == [f \in Files |-> Nothing]

NewScan ==
  [phase |-> "begun", todo |-> {}, old |-> Empty, found |-> Empty, bad |-> Empty]

(* A scan that is done: its result is applied, or an exception kept the    *)
(* last catalog.                                                           *)
Over   == [NewScan EXCEPT !.phase = "over"]
Failed == [NewScan EXCEPT !.phase = "failed"]

Done(i) == scans[i].phase \in {"over", "failed"}

Away == [on |-> 0, fresh |-> FALSE, since |-> 0]

(* The hub starts on a folder at rest.                                     *)
Init ==
  /\ disk = [f \in Files |-> [sha |-> Folder[f], look |-> "rest"]]
  /\ changes = 0 /\ policy \in Policies
  /\ observed = [f \in Files |-> "no"]
  /\ skills = Empty /\ rejected = Empty /\ reported = {}
  /\ scans = [i \in 1 .. MaxScans |-> Over]
  /\ latest = 0
  /\ calls = [c \in Callers |-> Away]
  /\ asOf = 0 /\ told = Empty /\ astray = {}

-----------------------------------------------------------------------------
(* The folder.                                                             *)

(* A file is written, moved in with the time it had, or removed; a change  *)
(* of bytes changes its size or its mtime.                                 *)
Change(f) ==
  /\ changes < MaxChanges
  /\ \E e \in (Arrivals \cup {NoFile}) \ {disk[f]} : disk' = [disk EXCEPT ![f] = e]
  /\ changes' = changes + 1
  /\ observed' = [observed EXCEPT ![f] = "no"]
  /\ UNCHANGED <<policy, catalog, scans, latest, calls>>

(* settle_ms go by without a change of the file.  A scan asks the clocks   *)
(* once, before it lists the folder, so what rests during a scan counts    *)
(* for the next one.                                                       *)
Rests(f) ==
  /\ \A i \in 1 .. MaxScans : scans[i].todo = {}
  /\ disk[f].look = "recent" \/ observed[f] = "new"
  /\ disk' = [disk EXCEPT ![f].look = IF @ = "recent" THEN "rest" ELSE @]
  /\ observed' = [observed EXCEPT ![f] = IF @ = "new" THEN "stable" ELSE @]
  /\ UNCHANGED <<changes, policy, catalog, scans, latest, calls>>

-----------------------------------------------------------------------------
(* rescan.                                                                 *)

Running == latest > 0 /\ ~Done(latest)

Begin ==
  /\ latest < MaxScans
  /\ latest' = latest + 1
  /\ scans' = [scans EXCEPT ![latest + 1] = NewScan]

Call(on, fresh, since) == [on |-> on, fresh |-> fresh, since |-> since]

(* Mutant of rescan: it does not wait for the scan that runs.              *)
AskAtOnce(c) ==
  /\ calls[c] = Away
  /\ Begin
  /\ calls' = [calls EXCEPT ![c] = Call(latest + 1, TRUE, latest)]
  /\ UNCHANGED <<outside, observed, catalog>>

(* A scan that runs may be older than the call: it is waited for first.    *)
Ask(c) ==
  /\ calls[c] = Away
  /\ \/ /\ Running
        /\ calls' = [calls EXCEPT ![c] = Call(latest, FALSE, latest)]
        /\ UNCHANGED <<scans, latest>>
     \/ /\ ~Running
        /\ Begin
        /\ calls' = [calls EXCEPT ![c] = Call(latest + 1, TRUE, latest)]
  /\ UNCHANGED <<outside, observed, catalog>>

Awaited(c) == calls[c].on > 0 /\ Done(calls[c].on)

(* Of several callers that waited one begins the next scan.                *)
AskAgain(c) ==
  /\ Awaited(c) /\ ~calls[c].fresh
  /\ IF Running THEN UNCHANGED <<scans, latest>> ELSE Begin
  /\ calls' = [calls EXCEPT ![c] = Call(latest', TRUE, calls[c].since)]
  /\ UNCHANGED <<outside, observed, catalog>>

(* Mutant of rescan: the scan that ran is new enough.                      *)
ReturnsAtOnce(c) ==
  /\ Awaited(c)
  /\ calls' = [calls EXCEPT ![c] = Away]
  /\ UNCHANGED <<outside, observed, catalog, scans, latest>>

Returns(c) ==
  /\ Awaited(c) /\ calls[c].fresh
  /\ calls' = [calls EXCEPT ![c] = Away]
  /\ UNCHANGED <<outside, observed, catalog, scans, latest>>

(* scan_deadline_ms are over: the scan goes on without the caller.         *)
GivesUp(c) ==
  /\ calls[c].on > 0
  /\ calls' = [calls EXCEPT ![c] = Away]
  /\ UNCHANGED <<outside, observed, catalog, scans, latest>>

-----------------------------------------------------------------------------
(* The scan in its thread (_scan).                                         *)

Scanning(i, phase) ==
  /\ scans[i].phase = phase
  /\ UNCHANGED <<outside, catalog, latest, calls>>

(* A folder that cannot be listed has no files.                            *)
Listings == {{f \in Files : disk[f].sha # Nothing}, {}}

(* What is observed of files that are not there is forgotten.              *)
Lists(i) ==
  /\ Scanning(i, "begun")
  /\ \E files \in Listings :
       /\ scans' = [scans EXCEPT
            ![i] = [@ EXCEPT !.phase = "stat", !.old = skills, !.todo = files]]
       /\ observed' = [f \in Files |-> IF f \in files THEN observed[f] ELSE "no"]

First(s) == Min(s.todo)

NamesIn(cat) == {NameOf[cat[f]] : f \in {g \in Files : cat[g] # Nothing}}

(* Mutant of keep_old: two files may keep one name.                        *)
KeepAnyOld(s, f) == s.old[f]

(* keep_old: the file stays what it was if its name is still free.         *)
KeepOld(s, f) ==
  IF s.old[f] # Nothing /\ NameOf[s.old[f]] \notin NamesIn(s.found)
  THEN s.old[f]
  ELSE Nothing

(* The scan goes on to the next file, with what it made of this one.       *)
Passes(s, f, sha, reason) ==
  [s EXCEPT !.phase = "stat", !.todo = @ \ {f},
            !.found[f] = sha, !.bad[f] = reason]

Unsettled(f) == disk[f].look \in {"recent", "future"} /\ observed[f] # "stable"

(* The file is gone or cannot be looked at, a placeholder, or what it is.  *)
Stats(i) ==
  LET s == scans[i]  f == First(s)
  IN  /\ Scanning(i, "stat") /\ s.todo # {}
      /\ \/ /\ scans' = [scans EXCEPT ![i] = Passes(s, f, Nothing, Nothing)]
            /\ UNCHANGED observed
         \/ /\ disk[f].sha # Nothing /\ disk[f].look = "cloud"
            /\ scans' = [scans EXCEPT ![i] = Passes(s, f, KeepOld(s, f), "cloud")]
            /\ UNCHANGED observed
         \/ /\ disk[f].sha # Nothing /\ disk[f].look # "cloud"
            /\ observed' = [observed EXCEPT ![f] = IF @ = "no" THEN "new" ELSE @]
            /\ scans' = [scans EXCEPT ![i] =
                 IF Unsettled(f)
                 THEN Passes(s, f, KeepOld(s, f), rejected[f])
                 ELSE [s EXCEPT !.phase = "read"]]

Takes(s, sha) == NameOf[sha] # Bad /\ NameOf[sha] \notin NamesIn(s.found)

(* The file may have changed since, or be gone.                            *)
Reads(i) ==
  LET s == scans[i]  f == First(s)  sha == disk[f].sha
  IN  /\ Scanning(i, "read")
      /\ scans' = [scans EXCEPT ![i] =
           IF sha = Nothing \/ disk[f].look \in {"locked", "cloud"}
           THEN Passes(s, f, KeepOld(s, f), "unreadable")
           ELSE IF Takes(s, sha) THEN Passes(s, f, sha, Nothing)
                                 ELSE Passes(s, f, Nothing, sha)]
      /\ UNCHANGED observed

-----------------------------------------------------------------------------
(* _apply.                                                                 *)

Discovered(s) == {f \in Files : s.found[f] # Nothing /\ s.old[f] = Nothing}
Changed(s)    == {f \in Files : s.found[f] # s.old[f]} \ Discovered(s)
Rejections(s) ==
  {<<f, s.bad[f]>> : f \in {g \in Files : s.bad[g] # Nothing}} \ reported

(* Mutant of _apply: a discovery that was refused is in the catalog.       *)
ApplyAnyway(s, lost) == s.found

(* A discovery whose record is refused did not happen.                     *)
ApplySkills(s, lost) ==
  [f \in Files |-> IF f \in Discovered(s) \cap lost THEN Nothing ELSE s.found[f]]

(* What the records tell when those of some files are written.             *)
Tell(s, recorded) ==
  [f \in Files |-> IF f \in recorded THEN s.found[f] ELSE told[f]]

Ready(i) == scans[i].phase = "stat" /\ scans[i].todo = {}

(* Under "continue" the hub says of every record that it is written: what  *)
(* is lost goes into the catalog like the rest.                            *)
Applies(i) ==
  LET s == scans[i]
      differs == Discovered(s) \cup Changed(s)
  IN  /\ Ready(i)
      /\ \E lost \in SUBSET differs :
           LET recorded == differs \ lost
               refused  == IF policy = "continue" THEN {} ELSE lost
           IN  /\ skills' = ApplySkills(s, refused)
               /\ told' = Tell(s, recorded)
               /\ astray' = (astray \ recorded) \cup (lost \ (Discovered(s) \cap refused))
      /\ rejected' = s.bad
      /\ \E new \in SUBSET Rejections(s) :
           /\ policy = "continue" => new = Rejections(s)
           /\ reported' = reported \cup new
      /\ asOf' = i
      /\ scans' = [scans EXCEPT ![i] = Over]
      /\ UNCHANGED <<outside, observed, latest, calls>>

(* An exception ends _scan, wherever it is: the last catalog is kept.      *)
Fails(i) ==
  /\ ~Done(i) /\ i <= latest
  /\ scans' = [scans EXCEPT ![i] = Failed]
  /\ UNCHANGED <<outside, observed, catalog, latest, calls>>

(* An exception ends _apply between two records, or after the last: what   *)
(* was written stays written, and the catalog is what it was.              *)
Breaks(i) ==
  LET s == scans[i]
  IN  /\ Ready(i)
      /\ \E recorded \in SUBSET (Discovered(s) \cup Changed(s)) :
           /\ told' = Tell(s, recorded)
           /\ astray' = astray \cup recorded
      /\ \E new \in SUBSET Rejections(s) : reported' = reported \cup new
      /\ scans' = [scans EXCEPT ![i] = Failed]
      /\ UNCHANGED <<outside, observed, skills, rejected, asOf, latest, calls>>

-----------------------------------------------------------------------------
Scanner(i) ==
  Lists(i) \/ Stats(i) \/ Reads(i) \/ Applies(i) \/ Fails(i) \/ Breaks(i)

Next ==
  \/ \E f \in Files : Change(f) \/ Rests(f)
  \/ \E c \in Callers : Ask(c) \/ AskAgain(c) \/ Returns(c) \/ GivesUp(c)
  \/ \E i \in 1 .. MaxScans : Scanner(i)

Spec == Init /\ [][Next]_vars

-----------------------------------------------------------------------------
(* What must hold.                                                         *)

(* Every part of the state has its type, and what is in the catalog has a  *)
(* name.                                                                   *)
TypeOK ==
  /\ disk \in [Files -> Entry] /\ policy \in Policies
  /\ observed \in [Files -> {"no", "new", "stable"}]
  /\ {skills, told} \subseteq Catalog /\ astray \subseteq Files
  /\ rejected \in [Files -> Reasons]
  /\ reported \subseteq Files \X Reasons
  /\ scans \in [1 .. MaxScans -> Scan]
  /\ latest \in 0 .. MaxScans /\ asOf \in 0 .. latest
  /\ calls \in [Callers -> [on : 0 .. latest, fresh : BOOLEAN, since : 0 .. latest]]
  /\ Bad \notin NamesIn(skills)

(* No two skills of the catalog have one name, however names move between  *)
(* files while some of them are still being written (find, _scan).         *)
NamesUnique ==
  \A f, g \in Files :
    f # g /\ skills[f] # Nothing /\ skills[g] # Nothing =>
      NameOf[skills[f]] # NameOf[skills[g]]

(* A caller that was not cut off by its deadline answers from a scan that  *)
(* began after its call, or has waited for one that did and failed: never  *)
(* because another scan was old or failed (rescan).                        *)
FreshAnswer ==
  [][\A c \in Callers : Returns(c) =>
       \/ asOf > calls[c].since
       \/ /\ calls[c].on > calls[c].since
          /\ scans[calls[c].on].phase = "failed"]_vars

(* The result of a scan never replaces that of a later one.                *)
NeverBack == [][asOf' >= asOf]_asOf

(* The records of discoveries, changes and removals tell of every file     *)
(* what the catalog says of it, also when a discovery was refused. A file  *)
(* goes astray when its record is lost but for that, or is written by a    *)
(* scan that then fails, and comes back with its next record (_apply).     *)
RecordTells == \A f \in Files \ astray : told[f] = skills[f]

=============================================================================
