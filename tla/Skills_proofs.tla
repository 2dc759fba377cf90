---------------------------- MODULE Skills_proofs ----------------------------
(***************************************************************************)
(* That the answers of the catalog are fresh, that its contents never go   *)
(* back, that its records tell them and that its names are unique, for any *)
(* files, callers and scans.  The first three come from one fact: there is *)
(* one scan at a time, it is the latest, and the catalog it compares with  *)
(* stays what it was until the scan is applied or fails.  The last needs   *)
(* only what a scan keeps and takes.  The types come at the end.           *)
(***************************************************************************)
EXTENDS Skills, TLAPS

ScanFields == {"phase", "todo", "old", "found", "bad"}

(* The numbers and the shape of the scans.                                 *)
Shape ==
  /\ latest \in Nat /\ asOf \in Nat /\ latest <= MaxScans
  /\ DOMAIN scans = 1 .. MaxScans
  /\ \A i \in 1 .. MaxScans : DOMAIN scans[i] = ScanFields
  /\ calls \in [Callers -> [on : Nat, fresh : BOOLEAN, since : Nat]]

(* One scan at a time: every other one is done, and if it has not failed   *)
(* the catalog is its result or that of a later one.                       *)
OneScan ==
  /\ \A i \in 1 .. MaxScans : ~Done(i) => i = latest
  /\ asOf <= latest /\ (Running => asOf < latest)
  /\ \A i \in 1 .. MaxScans : i <= latest /\ scans[i].phase = "over" => asOf >= i

(* The catalog a scan compares with is the catalog.                        *)
OldIsPresent ==
  \A i \in 1 .. MaxScans : scans[i].phase \in {"stat", "read"} => scans[i].old = skills

(* A caller waits for a scan that was there when it called or, the second  *)
(* time, for a later one.                                                  *)
CallsInOrder ==
  \A c \in Callers : calls[c].on > 0 =>
    /\ calls[c].on <= latest
    /\ IF calls[c].fresh THEN calls[c].on > calls[c].since
                         ELSE calls[c].on = calls[c].since

IInv == Shape /\ OneScan /\ OldIsPresent /\ CallsInOrder /\ RecordTells

-----------------------------------------------------------------------------
LEMMA Bounds == MaxScans \in Nat
BY SkillsAssumption DEF SkillsAssumption

LEMMA InitInvariant == Init => IInv
<1> SUFFICES ASSUME Init PROVE IInv
  OBVIOUS
<1>1. Shape
  BY Bounds DEF Init, Shape, Over, NewScan, ScanFields, Away
<1>2. OneScan /\ OldIsPresent
  BY Bounds DEF Init, OneScan, OldIsPresent, Running, Done, Over, NewScan
<1>3. CallsInOrder /\ RecordTells
  BY DEF Init, CallsInOrder, RecordTells, Away
<1> QED
  BY <1>1, <1>2, <1>3 DEF IInv

-----------------------------------------------------------------------------
(* The steps.                                                              *)

(* The folder changes, or a caller returns or gives up.                    *)
LEMMA OutsideStep ==
  ASSUME IInv, UNCHANGED <<catalog, scans, latest>>,
         calls' = calls \/ \E c \in Callers : calls' = [calls EXCEPT ![c] = Away]
  PROVE  IInv'
<1> USE DEF catalog
<1>1. Shape'
  <2>1. calls' \in [Callers -> [on : Nat, fresh : BOOLEAN, since : Nat]]
    <3>1. Away \in [on : Nat, fresh : BOOLEAN, since : Nat]
      BY DEF Away
    <3> QED
      BY <3>1 DEF IInv, Shape
  <2>2. UNCHANGED <<asOf, scans, latest>>
    OBVIOUS
  <2> QED
    BY <2>1, <2>2 DEF IInv, Shape
<1>2. OneScan' /\ OldIsPresent' /\ RecordTells'
  BY DEF IInv, OneScan, Running, Done, OldIsPresent, RecordTells
<1>3. CallsInOrder'
  <2> SUFFICES ASSUME NEW c \in Callers, calls'[c].on > 0
               PROVE  calls'[c] = calls[c] /\ latest' = latest
    BY DEF IInv, CallsInOrder
  <2> QED
    BY DEF IInv, Shape, Away
<1> QED
  BY <1>1, <1>2, <1>3 DEF IInv

(* A scan begins, the one before being over.                               *)
LEMMA Begins ==
  ASSUME IInv, Begin, ~Running
  PROVE  /\ latest' = latest + 1 /\ latest' <= MaxScans
         /\ DOMAIN scans' = 1 .. MaxScans
         /\ scans'[latest'] = NewScan
         /\ \A i \in 1 .. MaxScans : i # latest' => scans'[i] = scans[i]
         /\ \A i \in 1 .. MaxScans : Done(i)
<1> USE Bounds
<1>1. latest + 1 \in 1 .. MaxScans
  BY DEF IInv, Shape, Begin
<1>2. \A i \in 1 .. MaxScans : Done(i)
  BY DEF IInv, Shape, OneScan, Running
<1> QED
  BY <1>1, <1>2 DEF IInv, Shape, Begin

LEMMA BeginStep ==
  ASSUME IInv, Begin, ~Running, UNCHANGED catalog
  PROVE  /\ latest' \in Nat /\ asOf' \in Nat /\ latest' <= MaxScans
         /\ DOMAIN scans' = 1 .. MaxScans
         /\ \A i \in 1 .. MaxScans : DOMAIN scans'[i] = ScanFields
         /\ OneScan' /\ OldIsPresent' /\ RecordTells'
<1> USE Bounds
<1>0. latest \in Nat /\ asOf \in Nat /\ asOf' = asOf /\ asOf <= latest
  BY DEF IInv, Shape, OneScan, catalog
<1>1. DOMAIN NewScan = ScanFields /\ NewScan.phase = "begun"
  BY DEF NewScan, ScanFields
<1>2. \A i \in 1 .. MaxScans : DOMAIN scans'[i] = ScanFields
  BY <1>1, Begins DEF IInv, Shape
<1>3. OneScan'
  BY <1>0, <1>1, Begins DEF IInv, OneScan, Running, Done
<1>4. OldIsPresent'
  BY <1>1, Begins DEF OldIsPresent, Done
<1>5. RecordTells'
  BY DEF IInv, RecordTells, catalog
<1> QED
  BY <1>0, <1>2, <1>3, <1>4, <1>5, Begins

LEMMA AskStep == ASSUME IInv, NEW c \in Callers, Ask(c) PROVE IInv'
<1> USE Bounds
<1>0. latest \in Nat /\ UNCHANGED catalog
  BY DEF IInv, Shape, Ask
<1>1. CASE Running /\ calls' = [calls EXCEPT ![c] = Call(latest, FALSE, latest)]
           /\ UNCHANGED <<scans, latest>>
  <2>1. Shape'
    BY <1>0, <1>1 DEF IInv, Shape, Call, catalog
  <2>2. OneScan' /\ OldIsPresent' /\ RecordTells'
    BY <1>0, <1>1 DEF IInv, OneScan, Running, Done, OldIsPresent, RecordTells, catalog
  <2>3. CallsInOrder'
    BY <1>0, <1>1 DEF IInv, Shape, CallsInOrder, Call
  <2> QED
    BY <2>1, <2>2, <2>3 DEF IInv
<1>2. CASE ~Running /\ Begin
           /\ calls' = [calls EXCEPT ![c] = Call(latest + 1, TRUE, latest)]
  <2>1. Shape'
    BY <1>0, <1>2, BeginStep DEF IInv, Shape, Call
  <2>2. CallsInOrder'
    BY <1>0, <1>2, Begins DEF IInv, Shape, CallsInOrder, Call
  <2> QED
    BY <1>0, <1>2, <2>1, <2>2, BeginStep DEF IInv
<1> QED
  BY <1>1, <1>2 DEF Ask

LEMMA AskAgainStep == ASSUME IInv, NEW c \in Callers, AskAgain(c) PROVE IInv'
<1> USE Bounds
<1>0. /\ latest \in Nat /\ UNCHANGED catalog
      /\ calls[c].on \in Nat /\ calls[c].since \in Nat
      /\ calls' = [calls EXCEPT ![c] = Call(latest', TRUE, calls[c].since)]
  BY DEF IInv, Shape, AskAgain
<1>1. calls[c].on > 0 /\ calls[c].since = calls[c].on /\ calls[c].on <= latest
      /\ Done(calls[c].on)
  BY DEF IInv, AskAgain, Awaited, CallsInOrder
<1>2. CASE Running /\ UNCHANGED <<scans, latest>>
  <2>1. Shape'
    BY <1>0, <1>2 DEF IInv, Shape, Call, catalog
  <2>2. OneScan' /\ OldIsPresent' /\ RecordTells'
    BY <1>0, <1>2 DEF IInv, OneScan, Running, Done, OldIsPresent, RecordTells, catalog
  <2>3. calls[c].since < latest
    BY <1>0, <1>1, <1>2 DEF Running
  <2>4. CallsInOrder'
    BY <1>0, <1>2, <2>3 DEF IInv, Shape, CallsInOrder, Call
  <2> QED
    BY <2>1, <2>2, <2>4 DEF IInv
<1>3. CASE ~Running /\ Begin
  <2>1. Shape'
    BY <1>0, <1>3, BeginStep DEF IInv, Shape, Call
  <2>2. CallsInOrder'
    BY <1>0, <1>1, <1>3, Begins DEF IInv, Shape, CallsInOrder, Call
  <2> QED
    BY <1>0, <1>3, <2>1, <2>2, BeginStep DEF IInv
<1> QED
  BY <1>2, <1>3 DEF AskAgain

(* The scanning thread goes on; only Lists reads the catalog.              *)
LEMMA ScanStep ==
  ASSUME IInv, NEW i \in 1 .. MaxScans, ~Done(i),
         UNCHANGED <<catalog, latest, calls>>,
         NEW s, scans' = [scans EXCEPT ![i] = s],
         DOMAIN s = ScanFields, s.phase \in {"stat", "read"}, s.old = skills
  PROVE  IInv'
<1> USE Bounds DEF catalog
<1>1. /\ DOMAIN scans' = 1 .. MaxScans /\ scans'[i] = s
      /\ \A j \in 1 .. MaxScans : j # i => scans'[j] = scans[j]
      /\ i = latest
  BY DEF IInv, Shape, OneScan
<1>2. Shape'
  BY <1>1 DEF IInv, Shape
<1>3. OneScan'
  BY <1>1 DEF IInv, Shape, OneScan, Running, Done
<1>4. OldIsPresent'
  BY <1>1 DEF IInv, OldIsPresent
<1>5. CallsInOrder' /\ RecordTells'
  BY DEF IInv, CallsInOrder, RecordTells
<1> QED
  BY <1>2, <1>3, <1>4, <1>5 DEF IInv

LEMMA ScannerStep ==
  ASSUME IInv, NEW i \in 1 .. MaxScans, Lists(i) \/ Stats(i) \/ Reads(i)
  PROVE  IInv'
<1> DEFINE r == scans[i]
<1>1. DOMAIN r = ScanFields /\ (r.phase \in {"stat", "read"} => r.old = skills)
  BY DEF IInv, Shape, OldIsPresent
<1>2. ASSUME NEW f, NEW sha, NEW reason, r.phase \in {"stat", "read"}
      PROVE  /\ DOMAIN Passes(r, f, sha, reason) = ScanFields
             /\ Passes(r, f, sha, reason).phase = "stat"
             /\ Passes(r, f, sha, reason).old = skills
  BY <1>1, <1>2 DEF Passes, ScanFields
<1>3. CASE Lists(i)
  <2>1. PICK files \in Listings : scans' = [scans EXCEPT
          ![i] = [r EXCEPT !.phase = "stat", !.old = skills, !.todo = files]]
    BY <1>3 DEF Lists
  <2> DEFINE s == [r EXCEPT !.phase = "stat", !.old = skills, !.todo = files]
  <2>2. DOMAIN s = ScanFields /\ s.phase = "stat" /\ s.old = skills
    BY <1>1 DEF ScanFields
  <2>3. ~Done(i) /\ UNCHANGED <<outside, catalog, latest, calls>>
    BY <1>3 DEF Lists, Scanning, Done
  <2>4. scans' = [scans EXCEPT ![i] = s]
    BY <2>1
  <2> HIDE DEF s
  <2> QED
    BY <2>2, <2>3, <2>4, ScanStep
<1>4. CASE Stats(i)
  <2>1. r.phase = "stat" /\ ~Done(i) /\ UNCHANGED <<outside, catalog, latest, calls>>
    BY <1>4 DEF Stats, Scanning, Done
  <2> DEFINE s == [r EXCEPT !.phase = "read"]
  <2>2. DOMAIN s = ScanFields /\ s.phase = "read" /\ s.old = skills
    BY <1>1, <2>1 DEF ScanFields
  <2>3. \/ \E f, sha, reason : scans' = [scans EXCEPT ![i] = Passes(r, f, sha, reason)]
        \/ scans' = [scans EXCEPT ![i] = s]
    BY <1>4 DEF Stats
  <2>4. CASE scans' = [scans EXCEPT ![i] = s]
    BY ONLY IInv, <2>1, <2>2, <2>4, ScanStep
  <2>5. ASSUME NEW f, NEW sha, NEW reason,
               scans' = [scans EXCEPT ![i] = Passes(r, f, sha, reason)]
        PROVE  IInv'
    <3> DEFINE t == Passes(r, f, sha, reason)
    <3>1. DOMAIN t = ScanFields /\ t.phase = "stat" /\ t.old = skills
      BY <1>2, <2>1
    <3> HIDE DEF t
    <3> QED
      BY <2>1, <2>5, <3>1, ScanStep DEF t
  <2> QED
    BY <2>3, <2>4, <2>5
<1>5. CASE Reads(i)
  <2>1. r.phase = "read" /\ ~Done(i) /\ UNCHANGED <<outside, catalog, latest, calls>>
    BY <1>5 DEF Reads, Scanning, Done
  <2>2. \E f, sha, reason : scans' = [scans EXCEPT ![i] = Passes(r, f, sha, reason)]
    BY <1>5 DEF Reads
  <2>3. PICK f, sha, reason : scans' = [scans EXCEPT ![i] = Passes(r, f, sha, reason)]
    BY <2>2
  <2> DEFINE t == Passes(r, f, sha, reason)
  <2>4. DOMAIN t = ScanFields /\ t.phase = "stat" /\ t.old = skills
    BY <1>2, <2>1
  <2>5. scans' = [scans EXCEPT ![i] = t]
    BY <2>3
  <2> HIDE DEF t
  <2> QED
    BY <2>1, <2>4, <2>5, ScanStep
<1> QED
  BY <1>3, <1>4, <1>5

(* A scan is done: its result replaces the catalog, or nothing does.       *)
LEMMA DoneStep ==
  ASSUME IInv, NEW i \in 1 .. MaxScans, ~Done(i), UNCHANGED <<latest, calls>>,
         \/ scans' = [scans EXCEPT ![i] = Over] /\ asOf' = i
         \/ scans' = [scans EXCEPT ![i] = Failed] /\ asOf' = asOf
  PROVE  Shape' /\ OneScan' /\ OldIsPresent' /\ CallsInOrder'
<1> USE Bounds
<1>1. i = latest /\ asOf < i /\ latest \in Nat /\ asOf \in Nat
  BY DEF IInv, Shape, OneScan, Running
<1>2. /\ DOMAIN Over = ScanFields /\ Over.phase = "over"
      /\ DOMAIN Failed = ScanFields /\ Failed.phase = "failed"
  BY DEF Over, Failed, NewScan, ScanFields
<1>3. Shape'
  BY <1>1, <1>2 DEF IInv, Shape
<1>4. /\ \A j \in 1 .. MaxScans : j # i => scans'[j] = scans[j]
      /\ \/ scans'[i].phase = "over" /\ asOf' = i
         \/ scans'[i].phase = "failed" /\ asOf' = asOf
  BY <1>2 DEF IInv, Shape
<1>5. \A j \in 1 .. MaxScans : scans'[j].phase \in {"over", "failed"}
  BY <1>1, <1>4 DEF IInv, OneScan, Done
<1>6. OneScan' /\ OldIsPresent'
  BY <1>1, <1>4, <1>5 DEF IInv, OneScan, OldIsPresent, Running, Done
<1>7. CallsInOrder'
  BY DEF IInv, CallsInOrder
<1> QED
  BY <1>3, <1>6, <1>7

(* The result is applied: the records tell the differences to a catalog    *)
(* that is still the one the scan compared with.                           *)
LEMMA AppliesStep == ASSUME IInv, NEW i \in 1 .. MaxScans, Applies(i) PROVE IInv'
<1> DEFINE s == scans[i]
           differs == Discovered(s) \cup Changed(s)
<1>1. ~Done(i) /\ s.old = skills
  BY DEF IInv, Applies, Ready, Done, OldIsPresent
<1>2. Shape' /\ OneScan' /\ OldIsPresent' /\ CallsInOrder'
  BY <1>1, DoneStep DEF Applies
<1>3. RecordTells'
  <2>1. PICK lost \in SUBSET differs, refused \in SUBSET differs :
          /\ refused \subseteq lost
          /\ skills' = ApplySkills(s, refused)
          /\ told' = Tell(s, differs \ lost)
          /\ astray' = (astray \ (differs \ lost))
                         \cup (lost \ (Discovered(s) \cap refused))
    BY DEF Applies
  <2> SUFFICES ASSUME NEW f \in Files, f \notin astray' PROVE told'[f] = skills'[f]
    BY DEF RecordTells
  <2>2. CASE f \in differs \ lost
    BY <2>1, <2>2 DEF Tell, ApplySkills
  <2>3. CASE f \in lost
    <3>1. f \in Discovered(s) \cap refused /\ f \notin astray
      BY <2>1, <2>3
    <3> QED
      BY <1>1, <2>1, <2>3, <3>1 DEF IInv, RecordTells, Tell, ApplySkills, Discovered
  <2>4. CASE f \notin differs
    <3>1. f \notin astray /\ s.found[f] = s.old[f]
      BY <2>1, <2>4 DEF Changed
    <3> QED
      BY <1>1, <2>1, <2>4, <3>1 DEF IInv, RecordTells, Tell, ApplySkills
  <2> QED
    BY <2>2, <2>3, <2>4
<1> QED
  BY <1>2, <1>3 DEF IInv

(* An exception leaves the catalog; what it wrote before is astray.        *)
LEMMA FailStep ==
  ASSUME IInv, NEW i \in 1 .. MaxScans, Fails(i) \/ Breaks(i) PROVE IInv'
<1>1. ~Done(i)
  BY DEF Fails, Breaks, Ready, Done
<1>2. Shape' /\ OneScan' /\ OldIsPresent' /\ CallsInOrder'
  BY <1>1, DoneStep DEF Fails, Breaks, catalog
<1>3. RecordTells'
  <2>1. CASE Fails(i)
    BY <2>1 DEF IInv, Fails, RecordTells, catalog
  <2>2. CASE Breaks(i)
    BY <2>2 DEF IInv, Breaks, RecordTells, Tell
  <2> QED
    BY <2>1, <2>2
<1> QED
  BY <1>2, <1>3 DEF IInv

LEMMA StepInvariant == IInv /\ [Next]_vars => IInv'
<1> SUFFICES ASSUME IInv, [Next]_vars PROVE IInv'
  OBVIOUS
<1>1. CASE UNCHANGED vars
  BY <1>1, OutsideStep DEF vars
<1>2. ASSUME NEW f \in Files, Change(f) \/ Rests(f) PROVE IInv'
  BY <1>2, OutsideStep DEF Change, Rests
<1>3. ASSUME NEW c \in Callers, Returns(c) \/ GivesUp(c) PROVE IInv'
  BY <1>3, OutsideStep DEF Returns, GivesUp
<1>4. ASSUME NEW c \in Callers, Ask(c) \/ AskAgain(c) PROVE IInv'
  BY <1>4, AskStep, AskAgainStep
<1>5. ASSUME NEW i \in 1 .. MaxScans, Scanner(i) PROVE IInv'
  BY <1>5, ScannerStep, AppliesStep, FailStep DEF Scanner
<1> QED
  BY <1>1, <1>2, <1>3, <1>4, <1>5 DEF Next

LEMMA AlwaysIInv == Spec => []IInv
BY InitInvariant, StepInvariant, PTL DEF Spec

-----------------------------------------------------------------------------
(* The properties.                                                         *)

(* The records of discoveries, changes and removals tell the catalog of    *)
(* every file that is not astray, for any files, refusals, exceptions and  *)
(* either policy.                                                          *)
THEOREM RecordsAlwaysTell == Spec => []RecordTells
<1>1. IInv => RecordTells
  BY DEF IInv
<1> QED
  BY <1>1, AlwaysIInv, PTL

(* No scan, however slow, replaces the result of a later one.              *)
THEOREM NeverGoesBack == Spec => NeverBack
<1>1. IInv /\ [Next]_vars => [asOf' >= asOf]_asOf
  <2> SUFFICES ASSUME IInv, Next, asOf' # asOf PROVE asOf' >= asOf
    BY DEF vars, catalog
  <2>1. PICK i \in 1 .. MaxScans : Applies(i)
    BY DEF Next, Change, Rests, Ask, AskAgain, Returns, GivesUp, Scanner, Lists,
           Stats, Reads, Scanning, Fails, Breaks, catalog
  <2>2. asOf' = latest /\ asOf <= latest
    BY <2>1 DEF IInv, Applies, Ready, OneScan, Done
  <2> QED
    BY <2>2 DEF IInv, Shape
<1> QED
  BY <1>1, AlwaysIInv, PTL DEF Spec, NeverBack

(* Whoever waits for the answer gets it from a scan that began after the   *)
(* call, unless such a scan, the one it waited for, has failed: however    *)
(* many callers wait, give up and ask again, and whatever else fails.      *)
THEOREM AnswersAreFresh == Spec => FreshAnswer
<1> DEFINE Fresh(c) == \/ asOf > calls[c].since
                       \/ /\ calls[c].on > calls[c].since
                          /\ scans[calls[c].on].phase = "failed"
<1>1. IInv /\ [Next]_vars => [\A c \in Callers : Returns(c) => Fresh(c)]_vars
  <2> SUFFICES ASSUME IInv, NEW c \in Callers, Returns(c) PROVE Fresh(c)
    OBVIOUS
  <2> USE Bounds
  <2>1. /\ calls[c].on > calls[c].since /\ calls[c].on <= latest
        /\ calls[c].on \in 1 .. MaxScans /\ Done(calls[c].on)
    BY DEF IInv, Shape, Returns, Awaited, CallsInOrder
  <2>2. CASE scans[calls[c].on].phase = "over"
    BY <2>1, <2>2 DEF IInv, Shape, OneScan
  <2>3. CASE scans[calls[c].on].phase = "failed"
    BY <2>1, <2>3
  <2> QED
    BY <2>1, <2>2, <2>3 DEF Done
<1> QED
  BY <1>1, AlwaysIInv, PTL DEF Spec, FreshAnswer

-----------------------------------------------------------------------------
(* Names.  The catalog and the findings of every scan have one file for    *)
(* each name, whatever a scan keeps or takes.                              *)

UniqueIn(cat) ==
  \A f, g \in Files :
    f # g /\ cat[f] # Nothing /\ cat[g] # Nothing => NameOf[cat[f]] # NameOf[cat[g]]

UniqueScan(s) == DOMAIN s = ScanFields /\ DOMAIN s.found = Files /\ UniqueIn(s.found)

Names ==
  /\ DOMAIN scans = 1 .. MaxScans
  /\ \A i \in 1 .. MaxScans : UniqueScan(scans[i])
  /\ UniqueIn(skills)

LEMMA EmptyUnique ==
  UniqueScan(NewScan) /\ UniqueScan(Over) /\ UniqueScan(Failed) /\ UniqueIn(Empty)
BY DEF UniqueScan, UniqueIn, NewScan, Over, Failed, Empty, ScanFields

LEMMA PassesUnique ==
  ASSUME NEW s, UniqueScan(s), NEW f, NEW sha, NEW reason,
         sha = Nothing \/ NameOf[sha] \notin NamesIn(s.found)
  PROVE  UniqueScan(Passes(s, f, sha, reason))
<1> DEFINE found == [s.found EXCEPT ![f] = sha]
<1>1. DOMAIN Passes(s, f, sha, reason) = ScanFields
      /\ Passes(s, f, sha, reason).found = found
  BY DEF Passes, UniqueScan, ScanFields
<1>2. DOMAIN found = Files /\ \A g \in Files : found[g] = IF g = f THEN sha ELSE s.found[g]
  BY DEF UniqueScan
<1>3. UniqueIn(found)
  BY <1>2 DEF UniqueScan, UniqueIn, NamesIn
<1> QED
  BY <1>1, <1>2, <1>3 DEF UniqueScan

LEMMA KeepOldFree ==
  ASSUME NEW s, NEW f
  PROVE  KeepOld(s, f) = Nothing \/ NameOf[KeepOld(s, f)] \notin NamesIn(s.found)
BY DEF KeepOld

LEMMA ScanUnique ==
  ASSUME Names, NEW i \in 1 .. MaxScans, NEW s, UniqueScan(s),
         scans' = [scans EXCEPT ![i] = s], UNCHANGED skills
  PROVE  Names'
BY DEF Names

LEMMA StatsUnique ==
  ASSUME Names, NEW i \in 1 .. MaxScans, Stats(i) PROVE Names'
<1> DEFINE r == scans[i]  f == First(r)
<1>0. UniqueScan(r) /\ UNCHANGED skills
  BY DEF Names, Stats, Scanning, catalog
<1>1. PICK s : /\ scans' = [scans EXCEPT ![i] = s]
               /\ \/ \E reason : s = Passes(r, f, Nothing, reason)
                  \/ \E reason : s = Passes(r, f, KeepOld(r, f), reason)
                  \/ s = [r EXCEPT !.phase = "read"]
  BY DEF Stats
<1>2. UniqueScan([r EXCEPT !.phase = "read"])
  BY <1>0 DEF UniqueScan, ScanFields
<1> HIDE DEF r, f
<1>3. UniqueScan(s)
  BY <1>0, <1>1, <1>2, PassesUnique, KeepOldFree
<1> QED
  BY <1>0, <1>1, <1>3, ScanUnique

LEMMA ReadsUnique ==
  ASSUME Names, NEW i \in 1 .. MaxScans, Reads(i) PROVE Names'
<1> DEFINE r == scans[i]  f == First(r)  sha == disk[f].sha
<1>0. UniqueScan(r) /\ UNCHANGED skills
  BY DEF Names, Reads, Scanning, catalog
<1>1. PICK s : /\ scans' = [scans EXCEPT ![i] = s]
               /\ \/ s = Passes(r, f, KeepOld(r, f), "unreadable")
                  \/ Takes(r, sha) /\ s = Passes(r, f, sha, Nothing)
                  \/ s = Passes(r, f, Nothing, sha)
  BY DEF Reads
<1> HIDE DEF r, f, sha
<1>2. UniqueScan(s)
  BY <1>0, <1>1, PassesUnique, KeepOldFree DEF Takes
<1> QED
  BY <1>0, <1>1, <1>2, ScanUnique

LEMMA AppliesUnique ==
  ASSUME Names, NEW i \in 1 .. MaxScans, Applies(i) PROVE Names'
<1> DEFINE s == scans[i]
<1>1. PICK lost : skills' = ApplySkills(s, lost)
  BY DEF Applies
<1>2. UniqueIn(skills')
  BY <1>1 DEF Names, UniqueScan, UniqueIn, ApplySkills
<1>3. scans' = [scans EXCEPT ![i] = Over]
  BY DEF Applies
<1> QED
  BY <1>2, <1>3, EmptyUnique DEF Names

LEMMA FailUnique ==
  ASSUME Names, NEW i \in 1 .. MaxScans, Fails(i) \/ Breaks(i) PROVE Names'
<1>1. scans' = [scans EXCEPT ![i] = Failed] /\ UNCHANGED skills
  BY DEF Fails, Breaks, catalog
<1> QED
  BY <1>1, EmptyUnique, ScanUnique

LEMMA NamesStep == Names /\ [Next]_vars => Names'
<1> SUFFICES ASSUME Names, [Next]_vars PROVE Names'
  OBVIOUS
<1>1. CASE UNCHANGED <<scans, skills>>
  BY <1>1 DEF Names
<1>2. ASSUME Begin, UNCHANGED skills PROVE Names'
  BY <1>2, EmptyUnique DEF Names, Begin
<1>3. ASSUME NEW i \in 1 .. MaxScans, Scanner(i) PROVE Names'
  <2>1. CASE Lists(i)
    <3>1. PICK files \in Listings : scans' = [scans EXCEPT
            ![i] = [@ EXCEPT !.phase = "stat", !.old = skills, !.todo = files]]
      BY <2>1 DEF Lists
    <3> DEFINE s == [scans[i] EXCEPT !.phase = "stat", !.old = skills, !.todo = files]
    <3>2. UniqueScan(s)
      BY DEF Names, UniqueScan, ScanFields
    <3>3. scans' = [scans EXCEPT ![i] = s] /\ UNCHANGED skills
      BY <2>1, <3>1 DEF Lists, Scanning, catalog
    <3> HIDE DEF s
    <3> QED
      BY <3>2, <3>3, ScanUnique
  <2> QED
    BY <1>3, <2>1, StatsUnique, ReadsUnique, AppliesUnique, FailUnique DEF Scanner
<1>4. ASSUME NEW c \in Callers, Ask(c) \/ AskAgain(c) PROVE Names'
  <2>1. UNCHANGED skills /\ (Begin \/ UNCHANGED scans)
    BY <1>4 DEF Ask, AskAgain, catalog
  <2> QED
    BY <1>1, <1>2, <2>1
<1>5. CASE UNCHANGED vars
  BY <1>1, <1>5 DEF vars, catalog
<1>6. ASSUME NEW f \in Files, Change(f) \/ Rests(f) PROVE Names'
  BY <1>1, <1>6 DEF Change, Rests, catalog
<1>7. ASSUME NEW c \in Callers, Returns(c) \/ GivesUp(c) PROVE Names'
  BY <1>1, <1>7 DEF Returns, GivesUp, catalog
<1> QED
  BY <1>3, <1>4, <1>5, <1>6, <1>7 DEF Next

(* No two skills ever have one name, for any files, contents and adapter.  *)
THEOREM NamesAlwaysUnique == Spec => []NamesUnique
<1>1. Init => Names
  BY EmptyUnique DEF Init, Names
<1>2. Names => NamesUnique
  BY DEF Names, NamesUnique, UniqueIn
<1> QED
  BY <1>1, <1>2, NamesStep, PTL DEF Spec

-----------------------------------------------------------------------------
(* Types.  What a scan finds or compares with has names, as the catalog    *)
(* has.                                                                    *)

Named(cat) == Bad \notin NamesIn(cat)

TypedScan(s) == s \in Scan /\ Named(s.found) /\ Named(s.old)

Typed == TypeOK /\ \A i \in 1 .. MaxScans : TypedScan(scans[i])

LEMMA EmptyTyped ==
  /\ TypedScan(NewScan) /\ TypedScan(Over) /\ TypedScan(Failed)
  /\ Empty \in Catalog /\ Named(Empty)
<1>1. Empty \in Catalog /\ Empty \in [Files -> Reasons] /\ Named(Empty)
  BY DEF Empty, Catalog, Reasons, Named, NamesIn
<1>2. NewScan \in Scan /\ Over \in Scan /\ Failed \in Scan
  BY <1>1 DEF NewScan, Over, Failed, Scan, Phases
<1> QED
  BY <1>1, <1>2 DEF TypedScan, NewScan, Over, Failed

(* Whichever file is next, one of the folder or none.                      *)
LEMMA PassesTyped ==
  ASSUME NEW s, TypedScan(s), NEW f, NEW sha, NEW reason,
         f \in Files => /\ sha \in Shas \cup {Nothing} /\ reason \in Reasons
                        /\ sha = Nothing \/ NameOf[sha] # Bad
  PROVE  TypedScan(Passes(s, f, sha, reason))
<1> DEFINE t == Passes(s, f, sha, reason)
           found == [s.found EXCEPT ![f] = sha]
           bad == [s.bad EXCEPT ![f] = reason]
<1>1. s \in Scan /\ s.found \in Catalog /\ s.old \in Catalog /\ s.bad \in [Files -> Reasons]
      /\ s.todo \subseteq Files
  BY DEF TypedScan, Scan
<1>2. t = [phase |-> "stat", todo |-> s.todo \ {f}, old |-> s.old, found |-> found,
           bad |-> bad]
  <2> DEFINE s1 == [s EXCEPT !.phase = "stat"]
             s2 == [s1 EXCEPT !.todo = s.todo \ {f}]
             s3 == [s2 EXCEPT !.found = [s2.found EXCEPT ![f] = sha]]
             s4 == [s3 EXCEPT !.bad = [s3.bad EXCEPT ![f] = reason]]
  <2>1. t = s4
    BY DEF Passes
  <2>2. s1 = [phase |-> "stat", todo |-> s.todo, old |-> s.old, found |-> s.found,
              bad |-> s.bad]
    BY ONLY <1>1 DEF Scan
  <2> HIDE DEF t, s1
  <2>3. s2 = [phase |-> "stat", todo |-> s.todo \ {f}, old |-> s.old, found |-> s.found,
              bad |-> s.bad]
    BY ONLY <2>2
  <2> HIDE DEF s2
  <2>4. s3 = [phase |-> "stat", todo |-> s.todo \ {f}, old |-> s.old, found |-> found,
              bad |-> s.bad]
    BY ONLY <2>3
  <2> HIDE DEF s3
  <2> QED
    BY ONLY <2>1, <2>4
<1>3. found \in Catalog /\ bad \in [Files -> Reasons]
  BY <1>1 DEF Catalog
<1>4. t \in Scan
  BY <1>1, <1>2, <1>3 DEF Scan, Phases
<1>5. \A g \in Files : found[g] = s.found[g] \/ found[g] = Nothing \/ NameOf[found[g]] # Bad
  BY <1>1 DEF Catalog
<1>6. Named(found)
  BY <1>5 DEF TypedScan, Named, NamesIn
<1> QED
  BY <1>2, <1>4, <1>6 DEF TypedScan

LEMMA KeepOldTyped ==
  ASSUME NEW s, TypedScan(s), NEW f \in Files
  PROVE  /\ KeepOld(s, f) \in Shas \cup {Nothing}
         /\ KeepOld(s, f) = Nothing \/ NameOf[KeepOld(s, f)] # Bad
<1>1. s.old \in Catalog /\ Named(s.old)
  BY DEF TypedScan, Scan
<1> QED
  BY <1>1 DEF KeepOld, Named, NamesIn, Catalog

(* A step that replaces one scan.                                          *)
LEMMA ScanTyped ==
  ASSUME Typed, NEW i \in 1 .. MaxScans, NEW s, TypedScan(s),
         scans' = [scans EXCEPT ![i] = s], UNCHANGED <<outside, catalog, latest, calls>>,
         observed' \in [Files -> {"no", "new", "stable"}]
  PROVE  Typed'
<1>1. scans' \in [1 .. MaxScans -> Scan] /\ \A j \in 1 .. MaxScans : TypedScan(scans'[j])
  BY DEF Typed, TypeOK, TypedScan
<1> QED
  BY <1>1 DEF Typed, TypeOK, outside, catalog

LEMMA StatsTyped == ASSUME Typed, NEW i \in 1 .. MaxScans, Stats(i) PROVE Typed'
<1> DEFINE r == scans[i]  f == First(r)
<1>0. /\ TypedScan(r) /\ UNCHANGED <<outside, catalog, latest, calls>>
      /\ rejected \in [Files -> Reasons]
  BY DEF Typed, TypeOK, Stats, Scanning
<1>1. observed' \in [Files -> {"no", "new", "stable"}]
  <2>1. \/ observed' = observed
        \/ observed' = [observed EXCEPT ![f] = IF @ = "no" THEN "new" ELSE @]
    BY DEF Stats
  <2> HIDE DEF f
  <2>2. observed \in [Files -> {"no", "new", "stable"}]
    BY DEF Typed, TypeOK
  <2> QED
    BY <2>1, <2>2
<1>2. PICK s : /\ scans' = [scans EXCEPT ![i] = s]
               /\ \/ s = Passes(r, f, Nothing, Nothing)
                  \/ s = Passes(r, f, KeepOld(r, f), "cloud")
                  \/ s = Passes(r, f, KeepOld(r, f), rejected[f])
                  \/ s = [r EXCEPT !.phase = "read"]
  BY DEF Stats
<1>3. TypedScan([r EXCEPT !.phase = "read"])
  BY <1>0 DEF TypedScan, Scan, Phases
<1> HIDE DEF r, f
<1>4. TypedScan(s)
  BY <1>0, <1>2, <1>3, PassesTyped, KeepOldTyped DEF Reasons
<1> QED
  BY <1>0, <1>1, <1>2, <1>4, ScanTyped

LEMMA ReadsTyped == ASSUME Typed, NEW i \in 1 .. MaxScans, Reads(i) PROVE Typed'
<1> DEFINE r == scans[i]  f == First(r)  sha == disk[f].sha
<1>0. /\ TypedScan(r) /\ UNCHANGED <<outside, catalog, latest, calls, observed>>
      /\ disk \in [Files -> Entry]
  BY DEF Typed, TypeOK, Reads, Scanning
<1>1. PICK s : /\ scans' = [scans EXCEPT ![i] = s]
               /\ \/ s = Passes(r, f, KeepOld(r, f), "unreadable")
                  \/ sha # Nothing /\ Takes(r, sha) /\ s = Passes(r, f, sha, Nothing)
                  \/ sha # Nothing /\ s = Passes(r, f, Nothing, sha)
  BY DEF Reads
<1>2. f \in Files => disk[f] \in Entry
  BY <1>0
<1>3. f \in Files /\ sha # Nothing => sha \in Shas
  BY <1>2 DEF Entry, NoFile
<1> HIDE DEF r, f, sha
<1>4. TypedScan(s)
  BY <1>0, <1>1, <1>3, PassesTyped, KeepOldTyped DEF Takes, Reasons
<1>5. observed' \in [Files -> {"no", "new", "stable"}]
  BY DEF Typed, TypeOK, Reads
<1> QED
  BY <1>0, <1>1, <1>4, <1>5, ScanTyped

LEMMA AppliesTyped == ASSUME IInv, Typed, NEW i \in 1 .. MaxScans, Applies(i) PROVE Typed'
<1> USE Bounds
<1> DEFINE s == scans[i]
<1>1. TypedScan(s) /\ s \in Scan /\ {skills, told} \subseteq Catalog /\ Named(s.found)
      /\ s.found \in Catalog /\ s.bad \in [Files -> Reasons]
  BY DEF Typed, TypeOK, TypedScan, Scan
<1>2. /\ UNCHANGED <<outside, observed, latest, calls>> /\ asOf' = i /\ i = latest
      /\ scans' = [scans EXCEPT ![i] = Over] /\ rejected' = s.bad
  BY DEF Applies, Ready, Done, IInv, OneScan
<1>3. PICK lost \in SUBSET (Discovered(s) \cup Changed(s)),
           refused \in SUBSET Files, recorded \in SUBSET Files :
        /\ skills' = ApplySkills(s, refused)
        /\ told' = Tell(s, recorded)
        /\ astray' = (astray \ recorded) \cup (lost \ (Discovered(s) \cap refused))
  BY DEF Applies, Discovered, Changed
<1> HIDE DEF s
<1>4. skills' \in Catalog /\ Named(skills')
  BY <1>1, <1>3 DEF ApplySkills, Catalog, Named, NamesIn
<1>5. told' \in Catalog /\ astray' \subseteq Files
  <2>1. told' \in Catalog
    BY <1>1, <1>3 DEF Catalog, Tell
  <2>2. astray' \subseteq Files
    BY <1>3 DEF Typed, TypeOK, Discovered, Changed
  <2> QED
    BY <2>1, <2>2
<1>6. reported' \subseteq Files \X Reasons
  <2>1. Rejections(s) \subseteq Files \X Reasons
    BY <1>1 DEF Rejections
  <2>2. PICK new \in SUBSET Rejections(s) : reported' = reported \cup new
    BY DEF Applies, s
  <2> QED
    BY <2>1, <2>2 DEF Typed, TypeOK
<1>7. /\ scans' \in [1 .. MaxScans -> Scan]
      /\ \A j \in 1 .. MaxScans : TypedScan(scans'[j])
  BY <1>2, EmptyTyped DEF Typed, TypeOK, TypedScan
<1>8. asOf' \in 0 .. latest'
  BY <1>2 DEF IInv, Shape
<1> QED
  BY <1>1, <1>2, <1>4, <1>5, <1>6, <1>7, <1>8 DEF Typed, TypeOK, outside, Named

LEMMA FailTyped ==
  ASSUME Typed, NEW i \in 1 .. MaxScans, Fails(i) \/ Breaks(i) PROVE Typed'
<1> DEFINE s == scans[i]
<1>1. scans' = [scans EXCEPT ![i] = Failed]
  BY DEF Fails, Breaks
<1>2. CASE Fails(i)
  <2>1. UNCHANGED <<outside, observed, catalog, latest, calls>>
    BY <1>2 DEF Fails
  <2>2. observed' \in [Files -> {"no", "new", "stable"}]
    BY <2>1 DEF Typed, TypeOK
  <2> QED
    BY <1>1, <2>1, <2>2, EmptyTyped, ScanTyped
<1>3. CASE Breaks(i)
  <2>1. /\ s \in Scan /\ told \in Catalog /\ s.found \in Catalog /\ s.bad \in [Files -> Reasons]
    BY DEF Typed, TypeOK, TypedScan, Scan
  <2>2. PICK recorded \in SUBSET (Discovered(s) \cup Changed(s)) :
          told' = Tell(s, recorded) /\ astray' = astray \cup recorded
    BY <1>3 DEF Breaks
  <2>3. PICK new \in SUBSET Rejections(s) : reported' = reported \cup new
    BY <1>3 DEF Breaks
  <2>4. UNCHANGED <<outside, observed, skills, rejected, asOf, latest, calls>>
    BY <1>3 DEF Breaks
  <2> HIDE DEF s
  <2>5. told' \in Catalog
    BY <2>1, <2>2 DEF Catalog, Tell
  <2>6. astray' \subseteq Files
    BY <2>2 DEF Typed, TypeOK, Discovered, Changed
  <2>7. reported' \subseteq Files \X Reasons
    BY <2>1, <2>3 DEF Typed, TypeOK, Rejections
  <2>8. /\ scans' \in [1 .. MaxScans -> Scan]
        /\ \A j \in 1 .. MaxScans : TypedScan(scans'[j])
    BY <1>1, EmptyTyped DEF Typed, TypeOK, TypedScan
  <2> QED
    BY <2>4, <2>5, <2>6, <2>7, <2>8 DEF Typed, TypeOK, outside
<1> QED
  BY <1>2, <1>3

(* A scan begins, or none does, for a caller that waits.                   *)
LEMMA AsksTyped ==
  ASSUME IInv, Typed, NEW c \in Callers, Ask(c) \/ AskAgain(c) PROVE Typed'
<1> USE Bounds
<1>1. /\ UNCHANGED <<outside, observed, catalog>>
      /\ (Begin \/ UNCHANGED <<scans, latest>>)
  BY DEF Ask, AskAgain
<1>2. latest \in 0 .. MaxScans /\ latest' \in 0 .. MaxScans /\ latest <= latest'
  BY <1>1 DEF Typed, TypeOK, Begin
<1> DEFINE Waits == [on : 0 .. latest', fresh : BOOLEAN, since : 0 .. latest']
<1>3. PICK w \in Waits : calls' = [calls EXCEPT ![c] = w]
  <2>1. CASE Ask(c)
    <3>1. \/ calls' = [calls EXCEPT ![c] = Call(latest, FALSE, latest)]
          \/ /\ latest' = latest + 1
             /\ calls' = [calls EXCEPT ![c] = Call(latest + 1, TRUE, latest)]
      BY ONLY <2>1 DEF Ask, Begin
    <3>2. /\ Call(latest, FALSE, latest) \in Waits
          /\ latest' = latest + 1 => Call(latest + 1, TRUE, latest) \in Waits
      BY ONLY <1>2, Bounds DEF Call
    <3> HIDE DEF Waits
    <3> QED
      BY ONLY <3>1, <3>2
  <2>2. CASE AskAgain(c)
    <3>1. calls[c].since \in 0 .. latest
      BY DEF Typed, TypeOK
    <3>2. Call(latest', TRUE, calls[c].since) \in Waits
      BY ONLY <1>2, <3>1, Bounds DEF Call
    <3>3. calls' = [calls EXCEPT ![c] = Call(latest', TRUE, calls[c].since)]
      BY ONLY <2>2 DEF AskAgain
    <3> HIDE DEF Waits
    <3> QED
      BY ONLY <3>2, <3>3
  <2> QED
    BY <2>1, <2>2
<1>4. calls' \in [Callers -> [on : 0 .. latest', fresh : BOOLEAN, since : 0 .. latest']]
  BY <1>2, <1>3 DEF Typed, TypeOK
<1>5. /\ scans' \in [1 .. MaxScans -> Scan]
      /\ \A j \in 1 .. MaxScans : TypedScan(scans'[j])
  BY <1>1, EmptyTyped DEF Typed, TypeOK, TypedScan, Begin
<1> QED
  BY <1>1, <1>2, <1>4, <1>5 DEF Typed, TypeOK, outside, catalog

LEMMA TypedStep == IInv /\ Typed /\ [Next]_vars => Typed'
<1> SUFFICES ASSUME IInv, Typed, [Next]_vars PROVE Typed'
  OBVIOUS
<1>1. CASE UNCHANGED vars
  BY <1>1 DEF vars, outside, catalog, Typed, TypeOK
<1>2. ASSUME NEW f \in Files, Change(f) \/ Rests(f) PROVE Typed'
  <2>1. disk' \in [Files -> Entry]
    <3>1. CASE Change(f)
      <4>1. PICK e \in Arrivals \cup {NoFile} : disk' = [disk EXCEPT ![f] = e]
        BY <3>1 DEF Change
      <4>2. e \in Entry
        BY SkillsAssumption DEF SkillsAssumption, Entry
      <4> QED
        BY <4>1, <4>2 DEF Typed, TypeOK
    <3>2. CASE Rests(f)
      <4>1. disk[f] \in Entry /\ disk \in [Files -> Entry]
        BY DEF Typed, TypeOK
      <4>2. [disk[f] EXCEPT !.look = IF @ = "recent" THEN "rest" ELSE @] \in Entry
        BY <4>1 DEF Entry, Looks, NoFile
      <4> QED
        BY <3>2, <4>1, <4>2 DEF Rests
    <3> QED
      BY <1>2, <3>1, <3>2
  <2>2. observed' \in [Files -> {"no", "new", "stable"}]
    BY <1>2 DEF Change, Rests, Typed, TypeOK
  <2>3. UNCHANGED <<policy, catalog, scans, latest, calls>>
    BY <1>2 DEF Change, Rests
  <2> QED
    BY <2>1, <2>2, <2>3 DEF catalog, Typed, TypeOK
<1>3. ASSUME NEW c \in Callers, Returns(c) \/ GivesUp(c) PROVE Typed'
  <2>1. Away \in [on : 0 .. latest, fresh : BOOLEAN, since : 0 .. latest]
    BY Bounds DEF Away, Typed, TypeOK
  <2>2. calls' = [calls EXCEPT ![c] = Away]
        /\ UNCHANGED <<outside, observed, catalog, scans, latest>>
    BY <1>3 DEF Returns, GivesUp
  <2> QED
    BY <2>1, <2>2 DEF outside, catalog, Typed, TypeOK
<1>4. ASSUME NEW c \in Callers, Ask(c) \/ AskAgain(c) PROVE Typed'
  BY <1>4, AsksTyped
<1>5. ASSUME NEW i \in 1 .. MaxScans, Scanner(i) PROVE Typed'
  <2>1. CASE Lists(i)
    <3>1. PICK files \in Listings :
            /\ scans' = [scans EXCEPT
                 ![i] = [@ EXCEPT !.phase = "stat", !.old = skills, !.todo = files]]
            /\ observed' = [f \in Files |-> IF f \in files THEN observed[f] ELSE "no"]
      BY <2>1 DEF Lists
    <3> DEFINE s == [scans[i] EXCEPT !.phase = "stat", !.old = skills, !.todo = files]
    <3>2. TypedScan(s)
      BY DEF Typed, TypeOK, TypedScan, Scan, Phases, Named, Listings
    <3>3. scans' = [scans EXCEPT ![i] = s] /\ UNCHANGED <<outside, catalog, latest, calls>>
      BY <2>1, <3>1 DEF Lists, Scanning
    <3>4. observed' \in [Files -> {"no", "new", "stable"}]
      BY <3>1 DEF Typed, TypeOK
    <3> HIDE DEF s
    <3> QED
      BY <3>2, <3>3, <3>4, ScanTyped
  <2> QED
    BY <1>5, <2>1, StatsTyped, ReadsTyped, AppliesTyped, FailTyped DEF Scanner
<1> QED
  BY <1>1, <1>2, <1>3, <1>4, <1>5 DEF Next

(* The types of the folder, the catalog, the scans and the callers, and    *)
(* that every skill of the catalog has a name, for any files and contents. *)
THEOREM TypesKept == Spec => []TypeOK
<1>1. Init => Typed
  <2> SUFFICES ASSUME Init PROVE Typed
    OBVIOUS
  <2>1. disk \in [Files -> Entry]
    BY SkillsAssumption DEF SkillsAssumption, Init, Entry, Looks, NoFile
  <2>2. calls \in [Callers -> [on : 0 .. latest, fresh : BOOLEAN, since : 0 .. latest]]
    BY Bounds DEF Init, Away
  <2>3. rejected \in [Files -> Reasons]
    BY DEF Init, Empty, Reasons
  <2> QED
    BY <2>1, <2>2, <2>3, EmptyTyped, Bounds DEF Init, Typed, TypeOK, TypedScan, Named
<1>2. Typed => TypeOK
  BY DEF Typed
<1> QED
  BY <1>1, <1>2, TypedStep, InitInvariant, StepInvariant, PTL DEF Spec

=============================================================================
