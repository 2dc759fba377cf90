---------------------------- MODULE Desktop_proofs ----------------------------
(***************************************************************************)
(* What holds of Desktop for all modes, limits and bounds.                 *)
(*                                                                         *)
(* A write may fail, and the process may end, between any two steps of a   *)
(* handler: the invariant says, for each place at which a handler can      *)
(* stand, how far the book, the workflow, the record of the run and the    *)
(* file have come (HandlerOk, WorkflowOk), and, until a refused start cuts *)
(* a run, how the cursors of the workflow and of the record stand to the   *)
(* answers (UncutOk).  A restart finds nothing else.                       *)
(***************************************************************************)
EXTENDS Desktop, TLAPS

Thens == {"end", "pump", "steps", "tell", "ended"}
Lost  == {"blocked", "stopped"}

(* The handler at work is to do this next, or once it has saved.           *)
Ahead(do) == at.do = do \/ (at.do \in {"note", "file"} /\ at.then = do)

(* The same, once the checkpoint is recorded.                              *)
Recorded(do) == at.do = do \/ (at.do = "file" /\ at.then = do)

(* An answer is in the book and not yet in the workflow.                   *)
Between == at.do = "after" \/ (at.do = "block" /\ book.live = "none")

(* What the steps up to the cursor have done to the candidate.             *)
Proved(d) == /\ d.cursor >= 2 => d.prepared \in edited
             /\ d.cursor = Steps => d.retained

Agrees(d) == d.cursor = Len(book.given)

(* What is true of the workflow and of what was saved of it.               *)
Sane(d) == /\ d \in Desktop
           /\ d.prepared <= book.last
           /\ d.status = "completed" => d.cursor = Steps
           /\ d.armed => d.status \notin Final

Saved(d) == d = None \/ Sane(d)

BookOk ==
  /\ book.run <= book.last
  /\ book.run = 0 => book.live = "none" /\ book.given = <<>> /\ ~book.stopping
  /\ book.stopping => book.live = "none"
  /\ book.live # "none" => Len(book.given) < Steps

HandlerOk ==
  /\ at \in [do : Doings, by : Callers, then : Thens]
  /\ at.do = "idle" => at = Idle
  /\ at.do = "start" => book.run = 0 /\ at.then \in {"end", "ended"}
  /\ at.then = "ended" => at.do = "start"
  /\ at.do = "prepare" => /\ book.run # 0 /\ book.live = "none" /\ book.given = <<>>
                          /\ checkpoint = None /\ desktop.armed
                          /\ desktop.status \notin Final
  /\ Ahead("steps") => book.run # 0 /\ desktop.armed /\ desktop.status = "running"
  /\ Ahead("tell") => /\ book.live = "claimed" /\ desktop.status = "running"
                      /\ at.by \in Apps
  /\ Recorded("tell") => checkpoint # None /\ checkpoint.cursor < Steps
  /\ at.do = "tell" => file # None
  /\ at.do = "after" => book.run # 0 /\ book.live = "none" /\ desktop.cursor < Steps

WorkflowOk ==
  /\ Sane(desktop) /\ Saved(checkpoint) /\ Saved(file)
  /\ desktop.status = "approval" =>
       desktop.cursor \in 1 .. LastStep /\ book.live = "none" /\ at.do # "after"
  /\ desktop.approved # 0 => desktop.approved \in granted
  /\ told => /\ desktop.cursor < Steps
             /\ file # None /\ checkpoint # None /\ checkpoint.cursor < Steps
  /\ desktop.status \notin Lost =>
       /\ book.live # "none" => desktop.cursor < Steps
       /\ ~Between => Len(book.given) <= desktop.cursor
       /\ at.do = "after" => Len(book.given) <= desktop.cursor + 1

UncutOk ==
  /\ book.run = 0 => \/ at.do = "start" /\ at.then = "ended"
                     \/ desktop.cursor = 0
  /\ book.run # 0 =>
       /\ desktop.status \notin Lost /\ ~Between => Agrees(desktop)
       /\ desktop.status = "completed" => Agrees(desktop)
       /\ at.do = "after" => desktop.cursor + 1 = Len(book.given) /\ Proved(desktop)
       /\ told => Agrees(desktop) /\ Agrees(checkpoint)
       /\ Recorded("tell") => Agrees(checkpoint)
       /\ Agrees(desktop) => Proved(desktop)
       /\ checkpoint # None /\ Agrees(checkpoint) => Proved(checkpoint)
       /\ checkpoint = None => book.given = <<>>
       /\ book.live # "none" => book.step = Len(book.given)
       /\ \A i \in 1 .. Len(book.given) : book.given[i] = i - 1

IInv == /\ TypeOK /\ BookOk /\ HandlerOk /\ WorkflowOk
        /\ ~cut => UncutOk

-----------------------------------------------------------------------------
(* The parts of the state an action gives a value, and what it leaves.     *)
(* In the lemmas that follow <1>book and <1>desktop say what an action     *)
(* gives them, field by field.                                             *)

LEMMA FreshTyped == \A mode \in Modes : Fresh(mode) \in Desktop
  BY DesktopAssumption DEF Fresh, Desktop, Statuses, Steps, LastStep

LEMMA EmptyTyped == EmptyBook \in Book
<1>1. <<>> \in Seq(0 .. LastStep)
  OBVIOUS
<1> QED
  BY <1>1 DEF EmptyBook, Book, LastStep, Steps

LEMMA InitKeeps == Init => IInv
<1> SUFFICES ASSUME Init PROVE IInv
  OBVIOUS
<1> USE DesktopAssumption, NamesAssumption
<1>1. TypeOK
  <2>1. desktop \in Desktop
    BY FreshTyped DEF Init
  <2>2. book \in Book
    BY EmptyTyped DEF Init
  <2>3. /\ {checkpoint, file} \subseteq Desktop \cup {None}
        /\ edited \subseteq 1 .. book.last /\ granted \subseteq 1 .. LastStep
        /\ {hubPaused, monitor, told, late, cut} \subseteq BOOLEAN
    BY DEF Init, EmptyBook
  <2>4. /\ at.do \in Doings /\ at.by \in Callers
        /\ listening \subseteq ready /\ ready \subseteq Apps
        /\ told => book.live = "claimed"
    BY DEF Init, Doings, Callers, Others, Do, Idle, Apps
  <2> QED
    BY <2>1, <2>2, <2>3, <2>4 DEF Init, EmptyBook, TypeOK
<1>2. BookOk
  BY DEF Init, Fresh, EmptyBook, BookOk, Steps
<1>3. HandlerOk
  BY DEF Init, Fresh, EmptyBook, HandlerOk, Ahead, Recorded, Doings, Callers, Others,
       Apps, Thens, Do, Idle
<1>4. WorkflowOk
  BY <1>1 DEF Init, Fresh, EmptyBook, TypeOK, WorkflowOk, Sane, Saved, Steps, LastStep,
       Statuses, Final, Lost, Between, Do, Idle
<1>5. UncutOk
  BY DEF Init, Fresh, EmptyBook, UncutOk
<1> QED
  BY <1>1, <1>2, <1>3, <1>4, <1>5 DEF IInv

LEMMA Facts ==
  ASSUME IInv
  PROVE  /\ desktop \in Desktop /\ desktop # None /\ desktop.cursor \in 0 .. Steps
         /\ desktop.prepared \in Nat
         /\ book \in Book /\ book.run \in Nat /\ book.last \in Nat
         /\ book.given \in Seq(0 .. LastStep) /\ Len(book.given) \in Nat
<1>1. desktop \in Desktop /\ book \in Book
  BY DEF IInv, TypeOK
<1>2. desktop.cursor \in 0 .. Steps /\ desktop.prepared \in Nat /\ desktop # None
  BY <1>1, NamesAssumption DEF Desktop
<1>3. book.run \in Nat /\ book.last \in Nat /\ book.given \in Seq(0 .. LastStep)
  BY <1>1 DEF Book
<1> QED
  BY <1>1, <1>2, <1>3

LEMMA Kept ==
  ASSUME IInv, book' \in Book, book'.last >= book.last
  PROVE  /\ UNCHANGED desktop => Sane(desktop)'
         /\ UNCHANGED checkpoint => Saved(checkpoint)'
         /\ UNCHANGED file => Saved(file)'
<1>1. book.last \in Nat /\ book'.last \in Nat
  BY DEF IInv, TypeOK, Book
<1>2. \A d : Sane(d) => d.prepared <= book'.last
  BY <1>1 DEF Sane, Desktop
<1> QED
  BY <1>2 DEF IInv, WorkflowOk, Sane, Saved

LEMMA SaveNoteKeeps == ASSUME IInv, SaveNote PROVE IInv'
<1> USE DesktopAssumption, NamesAssumption
<1> USE DEF IInv, SaveNote, Apps, Others, Steps, LastStep, Final, Lost, Statuses, Doings,
            Callers, Thens, Do, Idle, outside, history
<1>facts. /\ desktop \in Desktop /\ desktop # None /\ desktop.cursor \in 0 .. Steps
          /\ desktop.prepared \in Nat
          /\ book \in Book /\ book.run \in Nat /\ book.last \in Nat
          /\ book.given \in Seq(0 .. LastStep) /\ Len(book.given) \in Nat
  BY Facts
<1>1. book' \in Book /\ book'.last >= book.last
  BY <1>facts
<1>2. Sane(desktop)'
  BY <1>1, Kept
<1>3. Saved(checkpoint)' /\ Saved(file)'
  BY <1>1, <1>2, Kept DEF Saved
<1>4. at' \in [do : Doings, by : Callers, then : Thens]
  BY DEF HandlerOk
<1>5. TypeOK'
  BY <1>1, <1>2, <1>3, <1>4, <1>facts DEF TypeOK, Saved, Sane
<1>6. BookOk'
  BY <1>facts DEF BookOk
<1>7. HandlerOk'
  <2>1. CASE book.run = 0
    BY <1>facts, <1>4, <2>1 DEF BookOk, HandlerOk, Ahead, Recorded
  <2>2. CASE book.run # 0
    BY <1>facts, <1>4, <2>2 DEF TypeOK, BookOk, HandlerOk, WorkflowOk, Sane, Saved, Ahead,
         Recorded
  <2> QED
    BY <2>1, <2>2
<1>8. WorkflowOk'
  BY <1>2, <1>3, <1>facts DEF TypeOK, BookOk, HandlerOk, WorkflowOk, Sane, Ahead,
       Recorded, Between
<1>9. ~cut' => UncutOk'
  BY <1>facts DEF TypeOK, BookOk, HandlerOk, WorkflowOk, UncutOk, Sane, Saved, Ahead,
       Recorded, Between, Agrees, Proved
<1> QED
  BY <1>5, <1>6, <1>7, <1>8, <1>9

LEMMA SaveFileKeeps == ASSUME IInv, SaveFile PROVE IInv'
<1> USE DesktopAssumption, NamesAssumption
<1> USE DEF IInv, SaveFile, Then, Apps, Others, Steps, LastStep, Final, Lost, Statuses,
            Doings, Callers, Thens, Do, Idle, outside, history
<1>facts. /\ desktop \in Desktop /\ desktop # None /\ desktop.cursor \in 0 .. Steps
          /\ desktop.prepared \in Nat
          /\ book \in Book /\ book.run \in Nat /\ book.last \in Nat
          /\ book.given \in Seq(0 .. LastStep) /\ Len(book.given) \in Nat
  BY Facts
<1>1. book' \in Book /\ book'.last >= book.last
  BY <1>facts
<1>2. Sane(desktop)'
  BY <1>1, Kept
<1>3. Saved(checkpoint)' /\ Saved(file)'
  BY <1>1, <1>2, Kept DEF Saved
<1>4. at' \in [do : Doings, by : Callers, then : Thens]
  BY DEF HandlerOk
<1>5. TypeOK'
  BY <1>1, <1>2, <1>3, <1>4, <1>facts DEF TypeOK, Saved, Sane
<1>6. BookOk'
  BY <1>facts DEF BookOk
<1>7. HandlerOk'
  <2>1. CASE at.then = "end"
    BY <1>facts, <1>4, <2>1 DEF TypeOK, BookOk, HandlerOk, WorkflowOk, Sane, Saved, Ahead,
         Recorded
  <2>2. CASE at.then # "end"
    <3>1. /\ at'.do = at.then /\ at'.then = "end"
          /\ at'.by = IF at.by = "checkpoint" THEN "call" ELSE at.by
      BY <2>2
    <3>2. at'.do \in {"pump", "steps", "tell"}
      BY <2>2, <3>1 DEF HandlerOk
    <3> QED
      BY <1>facts, <1>4, <3>1, <3>2 DEF TypeOK, HandlerOk, WorkflowOk, Ahead, Recorded
  <2> QED
    BY <2>1, <2>2
<1>8. WorkflowOk'
  BY <1>2, <1>3, <1>facts DEF TypeOK, BookOk, HandlerOk, WorkflowOk, Sane, Ahead,
       Recorded, Between
<1>9. ~cut' => UncutOk'
  BY <1>facts DEF TypeOK, BookOk, HandlerOk, WorkflowOk, UncutOk, Sane, Saved, Ahead,
       Recorded, Between, Agrees, Proved
<1> QED
  BY <1>5, <1>6, <1>7, <1>8, <1>9

LEMMA HaltKeeps == ASSUME IInv, Halt PROVE IInv'
<1> USE DesktopAssumption, NamesAssumption
<1> USE DEF IInv, Halt, Save, Apps, Others, Steps, LastStep, Final, Lost, Statuses,
            Doings, Callers, Thens, Do, Idle, outside, history
<1>facts. /\ desktop \in Desktop /\ desktop # None /\ desktop.cursor \in 0 .. Steps
          /\ desktop.prepared \in Nat
          /\ book \in Book /\ book.run \in Nat /\ book.last \in Nat
          /\ book.given \in Seq(0 .. LastStep) /\ Len(book.given) \in Nat
  BY Facts
<1>book. /\ book' \in Book /\ book'.live = "none"
         /\ book'.run = book.run /\ book'.last = book.last
         /\ book'.given = book.given /\ book'.step = book.step
         /\ book'.stopping => book.stopping \/ book.live # "none"
  BY <1>facts DEF Book, Recalled
<1>desktop. /\ desktop' \in Desktop /\ desktop'.status \in Lost
            /\ ~desktop'.armed /\ desktop'.approved = 0
            /\ desktop'.cursor = desktop.cursor /\ desktop'.prepared = desktop.prepared
            /\ desktop'.retained = desktop.retained /\ desktop'.mode = desktop.mode
  <2>1. PICK s \in Lost : desktop' = [desktop EXCEPT !.status = s, !.armed = FALSE, !.approved = 0]
    OBVIOUS
  <2>2. s \in Statuses /\ 0 \in 0 .. LastStep
    OBVIOUS
  <2> QED
    BY <1>facts, <2>1, <2>2 DEF Desktop
<1>1. book' \in Book /\ book'.last >= book.last
  BY <1>facts, <1>book, <1>desktop
<1>2. Sane(desktop)'
  BY <1>1, <1>facts, <1>book, <1>desktop DEF Sane, WorkflowOk
<1>3. Saved(checkpoint)' /\ Saved(file)'
  BY <1>1, <1>2, Kept DEF Saved
<1>4. at' \in [do : Doings, by : Callers, then : Thens]
  BY DEF HandlerOk
<1>5. TypeOK'
  BY <1>1, <1>2, <1>3, <1>4, <1>facts, <1>book, <1>desktop DEF TypeOK, Saved, Sane
<1>6. BookOk'
  BY <1>facts, <1>book, <1>desktop DEF BookOk
<1>7. HandlerOk'
  BY <1>4, <1>facts, <1>book, <1>desktop DEF TypeOK, BookOk, HandlerOk, WorkflowOk, Sane,
       Saved, Ahead, Recorded
<1>8. WorkflowOk'
  BY <1>2, <1>3, <1>facts, <1>book, <1>desktop DEF TypeOK, BookOk, HandlerOk, WorkflowOk,
       Sane, Ahead, Recorded, Between
<1>9. ~cut' => UncutOk'
  BY <1>facts, <1>book, <1>desktop DEF TypeOK, BookOk, HandlerOk, WorkflowOk, UncutOk,
       Sane, Saved, Ahead, Recorded, Between, Agrees, Proved
<1> QED
  BY <1>5, <1>6, <1>7, <1>8, <1>9

LEMMA StartKeeps == ASSUME IInv, Start PROVE IInv'
<1> USE DesktopAssumption, NamesAssumption
<1> USE DEF IInv, Start, Control, Apps, Others, Steps, LastStep, Final, Lost, Statuses,
            Doings, Callers, Thens, Do, Idle, outside, history
<1>facts. /\ desktop \in Desktop /\ desktop # None /\ desktop.cursor \in 0 .. Steps
          /\ desktop.prepared \in Nat
          /\ book \in Book /\ book.run \in Nat /\ book.last \in Nat
          /\ book.given \in Seq(0 .. LastStep) /\ Len(book.given) \in Nat
  BY Facts
<1>book. /\ book' \in Book /\ book'.live = "none" /\ book'.run = 0 /\ book'.last = book.last
         /\ book'.given = <<>> /\ ~book'.stopping
  BY <1>facts, EmptyTyped DEF Book, CommitEnd, EmptyBook, BookOk
<1>1. book' \in Book /\ book'.last >= book.last
  BY <1>facts, <1>book
<1>2. Sane(desktop)'
  BY <1>1, Kept
<1>3. Saved(checkpoint)' /\ Saved(file)'
  BY <1>1, <1>2, Kept DEF Saved
<1>4. at' \in [do : Doings, by : Callers, then : Thens]
  BY DEF HandlerOk
<1>5. TypeOK'
  BY <1>1, <1>2, <1>3, <1>4, <1>facts, <1>book DEF TypeOK, Saved, Sane
<1>6. BookOk'
  BY <1>facts, <1>book DEF BookOk
<1>7. HandlerOk'
  BY <1>4, <1>facts, <1>book DEF TypeOK, BookOk, HandlerOk, WorkflowOk, Sane, Saved,
       Ahead, Recorded
<1>8. WorkflowOk'
  BY <1>2, <1>3, <1>facts, <1>book DEF TypeOK, BookOk, HandlerOk, WorkflowOk, Sane, Ahead,
       Recorded, Between
<1>9. ~cut' => UncutOk'
  BY <1>facts, <1>book DEF TypeOK, BookOk, HandlerOk, WorkflowOk, UncutOk, Sane, Saved,
       Ahead, Recorded, Between, Agrees, Proved
<1> QED
  BY <1>5, <1>6, <1>7, <1>8, <1>9

LEMMA StartSetsKeeps == ASSUME IInv, StartSets PROVE IInv'
<1> USE DesktopAssumption, NamesAssumption
<1> USE DEF IInv, StartSets, Save, Apps, Others, Steps, LastStep, Final, Lost, Statuses,
            Doings, Callers, Thens, Do, Idle, outside, history
<1>facts. /\ desktop \in Desktop /\ desktop # None /\ desktop.cursor \in 0 .. Steps
          /\ desktop.prepared \in Nat
          /\ book \in Book /\ book.run \in Nat /\ book.last \in Nat
          /\ book.given \in Seq(0 .. LastStep) /\ Len(book.given) \in Nat
  BY Facts
<1>desktop. /\ desktop' \in Desktop /\ desktop'.status = "waiting" /\ desktop'.prepared = 0
            /\ desktop'.cursor = 0 /\ desktop'.approved = 0 /\ desktop'.armed
  <2>1. PICK mode \in Modes : desktop' = [Fresh(mode) EXCEPT !.started = desktop.started]
    OBVIOUS
  <2>2. desktop' \in Desktop
    BY <1>facts, <2>1, FreshTyped DEF Desktop
  <2> QED
    BY <2>1, <2>2 DEF Fresh
<1>1. book' \in Book /\ book'.last >= book.last
  BY <1>facts, <1>desktop
<1>2. Sane(desktop)'
  BY <1>1, <1>facts, <1>desktop DEF Sane, WorkflowOk
<1>3. Saved(checkpoint)' /\ Saved(file)'
  BY <1>1, <1>2, Kept DEF Saved
<1>4. at' \in [do : Doings, by : Callers, then : Thens]
  BY DEF HandlerOk
<1>5. TypeOK'
  BY <1>1, <1>2, <1>3, <1>4, <1>facts, <1>desktop DEF TypeOK, Saved, Sane
<1>6. BookOk'
  BY <1>facts, <1>desktop DEF BookOk
<1>7. HandlerOk'
  BY <1>4, <1>facts, <1>desktop DEF TypeOK, BookOk, HandlerOk, WorkflowOk, Sane, Saved,
       Ahead, Recorded
<1>8. WorkflowOk'
  BY <1>2, <1>3, <1>facts, <1>desktop DEF TypeOK, BookOk, HandlerOk, WorkflowOk, Sane,
       Ahead, Recorded, Between
<1>9. ~cut' => UncutOk'
  BY <1>facts, <1>desktop DEF TypeOK, BookOk, HandlerOk, WorkflowOk, UncutOk, Sane, Saved,
       Ahead, Recorded, Between, Agrees, Proved
<1> QED
  BY <1>5, <1>6, <1>7, <1>8, <1>9

LEMMA StartRefusedKeeps == ASSUME IInv, StartRefused PROVE IInv'
<1> USE DesktopAssumption, NamesAssumption
<1> USE DEF IInv, StartRefused, Apps, Others, Steps, LastStep, Final, Lost, Statuses,
            Doings, Callers, Thens, Do, Idle, outside, history
<1>facts. /\ desktop \in Desktop /\ desktop # None /\ desktop.cursor \in 0 .. Steps
          /\ desktop.prepared \in Nat
          /\ book \in Book /\ book.run \in Nat /\ book.last \in Nat
          /\ book.given \in Seq(0 .. LastStep) /\ Len(book.given) \in Nat
  BY Facts
<1>1. book' \in Book /\ book'.last >= book.last
  BY <1>facts
<1>2. Sane(desktop)'
  BY <1>1, Kept
<1>3. Saved(checkpoint)' /\ Saved(file)'
  BY <1>1, <1>2, Kept DEF Saved
<1>4. at' \in [do : Doings, by : Callers, then : Thens]
  BY DEF HandlerOk
<1>5. TypeOK'
  BY <1>1, <1>2, <1>3, <1>4, <1>facts DEF TypeOK, Saved, Sane
<1>6. BookOk'
  BY <1>facts DEF BookOk
<1>7. HandlerOk'
  BY <1>4, <1>facts DEF TypeOK, BookOk, HandlerOk, WorkflowOk, Sane, Saved, Ahead, Recorded
<1>8. WorkflowOk'
  BY <1>2, <1>3, <1>facts DEF TypeOK, BookOk, HandlerOk, WorkflowOk, Sane, Ahead,
       Recorded, Between
<1>9. ~cut' => UncutOk'
  BY <1>facts DEF TypeOK, BookOk, HandlerOk, WorkflowOk, UncutOk, Sane, Saved, Ahead,
       Recorded, Between, Agrees, Proved
<1> QED
  BY <1>5, <1>6, <1>7, <1>8, <1>9

LEMMA ApproveKeeps == ASSUME IInv, Approve PROVE IInv'
<1> USE DesktopAssumption, NamesAssumption
<1> USE DEF IInv, Approve, Control, Save, Apps, Others, Steps, LastStep, Final, Lost,
            Statuses, Doings, Callers, Thens, Do, Idle, outside, history
<1>facts. /\ desktop \in Desktop /\ desktop # None /\ desktop.cursor \in 0 .. Steps
          /\ desktop.prepared \in Nat
          /\ book \in Book /\ book.run \in Nat /\ book.last \in Nat
          /\ book.given \in Seq(0 .. LastStep) /\ Len(book.given) \in Nat
  BY Facts
<1>desktop. /\ desktop' \in Desktop /\ desktop'.status = "running"
            /\ desktop'.armed = desktop.armed
            /\ desktop'.approved = desktop.cursor /\ desktop.cursor \in 1 .. LastStep
            /\ desktop'.cursor = desktop.cursor /\ desktop'.prepared = desktop.prepared
            /\ desktop'.retained = desktop.retained /\ desktop'.mode = desktop.mode
  <2>1. desktop.cursor \in 1 .. LastStep /\ desktop.cursor \in 0 .. LastStep
    BY <1>facts DEF WorkflowOk
  <2>2. "running" \in Statuses
    OBVIOUS
  <2>3. desktop' \in Desktop
    BY <1>facts, <2>1, <2>2 DEF Desktop
  <2> QED
    BY <1>facts, <2>1, <2>3 DEF Desktop
<1>1. book' \in Book /\ book'.last >= book.last
  BY <1>facts, <1>desktop
<1>2. Sane(desktop)'
  BY <1>1, <1>facts, <1>desktop DEF Sane, WorkflowOk
<1>3. Saved(checkpoint)' /\ Saved(file)'
  BY <1>1, <1>2, Kept DEF Saved
<1>4. at' \in [do : Doings, by : Callers, then : Thens]
  BY DEF HandlerOk
<1>5. TypeOK'
  BY <1>1, <1>2, <1>3, <1>4, <1>facts, <1>desktop DEF TypeOK, Saved, Sane
<1>6. BookOk'
  BY <1>facts, <1>desktop DEF BookOk
<1>7. HandlerOk'
  BY <1>4, <1>facts, <1>desktop DEF TypeOK, BookOk, HandlerOk, WorkflowOk, Sane, Saved,
       Ahead, Recorded
<1>8. WorkflowOk'
  BY <1>2, <1>3, <1>facts, <1>desktop DEF TypeOK, BookOk, HandlerOk, WorkflowOk, Sane,
       Ahead, Recorded, Between
<1>9. ~cut' => UncutOk'
  BY <1>facts, <1>desktop DEF TypeOK, BookOk, HandlerOk, WorkflowOk, UncutOk, Sane, Saved,
       Ahead, Recorded, Between, Agrees, Proved
<1> QED
  BY <1>5, <1>6, <1>7, <1>8, <1>9

LEMMA PauseKeeps == ASSUME IInv, Pause PROVE IInv'
<1> USE DesktopAssumption, NamesAssumption
<1> USE DEF IInv, Pause, Control, Save, Apps, Others, Steps, LastStep, Final, Lost,
            Statuses, Doings, Callers, Thens, Do, Idle, outside, history
<1>facts. /\ desktop \in Desktop /\ desktop # None /\ desktop.cursor \in 0 .. Steps
          /\ desktop.prepared \in Nat
          /\ book \in Book /\ book.run \in Nat /\ book.last \in Nat
          /\ book.given \in Seq(0 .. LastStep) /\ Len(book.given) \in Nat
  BY Facts
<1>desktop. /\ desktop' \in Desktop /\ desktop'.status = "paused"
            /\ desktop'.armed = desktop.armed
            /\ desktop'.approved = 0
            /\ desktop'.cursor = desktop.cursor /\ desktop'.prepared = desktop.prepared
            /\ desktop'.retained = desktop.retained /\ desktop'.mode = desktop.mode
  <2>1. "paused" \in Statuses /\ 0 \in 0 .. LastStep
    OBVIOUS
  <2> QED
    BY <1>facts, <2>1 DEF Desktop
<1>1. book' \in Book /\ book'.last >= book.last
  BY <1>facts, <1>desktop
<1>2. Sane(desktop)'
  BY <1>1, <1>facts, <1>desktop DEF Sane, WorkflowOk
<1>3. Saved(checkpoint)' /\ Saved(file)'
  BY <1>1, <1>2, Kept DEF Saved
<1>4. at' \in [do : Doings, by : Callers, then : Thens]
  BY DEF HandlerOk
<1>5. TypeOK'
  BY <1>1, <1>2, <1>3, <1>4, <1>facts, <1>desktop DEF TypeOK, Saved, Sane
<1>6. BookOk'
  BY <1>facts, <1>desktop DEF BookOk
<1>7. HandlerOk'
  BY <1>4, <1>facts, <1>desktop DEF TypeOK, BookOk, HandlerOk, WorkflowOk, Sane, Saved,
       Ahead, Recorded
<1>8. WorkflowOk'
  BY <1>2, <1>3, <1>facts, <1>desktop DEF TypeOK, BookOk, HandlerOk, WorkflowOk, Sane,
       Ahead, Recorded, Between
<1>9. ~cut' => UncutOk'
  BY <1>facts, <1>desktop DEF TypeOK, BookOk, HandlerOk, WorkflowOk, UncutOk, Sane, Saved,
       Ahead, Recorded, Between, Agrees, Proved
<1> QED
  BY <1>5, <1>6, <1>7, <1>8, <1>9

LEMMA ResumeKeeps == ASSUME IInv, Resume PROVE IInv'
<1> USE DesktopAssumption, NamesAssumption
<1> USE DEF IInv, Resume, Control, Save, Apps, Others, Steps, LastStep, Final, Lost,
            Statuses, Doings, Callers, Thens, Do, Idle, outside, history
<1>facts. /\ desktop \in Desktop /\ desktop # None /\ desktop.cursor \in 0 .. Steps
          /\ desktop.prepared \in Nat
          /\ book \in Book /\ book.run \in Nat /\ book.last \in Nat
          /\ book.given \in Seq(0 .. LastStep) /\ Len(book.given) \in Nat
  BY Facts
<1>book. /\ book' \in Book /\ book'.live = book.live
         /\ book'.run = book.run /\ book'.last = book.last
         /\ book'.given = book.given /\ book'.step = book.step /\ book'.stopping = book.stopping
  BY <1>facts DEF Book
<1>desktop. /\ desktop' \in Desktop /\ desktop'.status \in {"waiting", "running"}
            /\ desktop'.approved = 0
            /\ desktop'.cursor = desktop.cursor /\ desktop'.prepared = desktop.prepared
            /\ desktop'.retained = desktop.retained /\ desktop'.mode = desktop.mode
  <2>1. PICK s \in {"waiting", "running"} :
           desktop' = [desktop EXCEPT !.status = s, !.armed = TRUE, !.approved = 0]
    OBVIOUS
  <2>2. s \in Statuses /\ 0 \in 0 .. LastStep
    OBVIOUS
  <2> QED
    BY <1>facts, <2>1, <2>2 DEF Desktop
<1>1. book' \in Book /\ book'.last >= book.last
  BY <1>facts, <1>book, <1>desktop
<1>2. Sane(desktop)'
  BY <1>1, <1>facts, <1>book, <1>desktop DEF Sane, WorkflowOk
<1>3. Saved(checkpoint)' /\ Saved(file)'
  BY <1>1, <1>2, Kept DEF Saved
<1>4. at' \in [do : Doings, by : Callers, then : Thens]
  BY DEF HandlerOk
<1>5. TypeOK'
  BY <1>1, <1>2, <1>3, <1>4, <1>facts, <1>book, <1>desktop DEF TypeOK, Saved, Sane
<1>6. BookOk'
  BY <1>facts, <1>book, <1>desktop DEF BookOk
<1>7. HandlerOk'
  BY <1>4, <1>facts, <1>book, <1>desktop DEF TypeOK, BookOk, HandlerOk, WorkflowOk, Sane,
       Saved, Ahead, Recorded
<1>8. WorkflowOk'
  BY <1>2, <1>3, <1>facts, <1>book, <1>desktop DEF TypeOK, BookOk, HandlerOk, WorkflowOk,
       Sane, Ahead, Recorded, Between
<1>9. ~cut' => UncutOk'
  BY <1>facts, <1>book, <1>desktop DEF TypeOK, BookOk, HandlerOk, WorkflowOk, UncutOk,
       Sane, Saved, Ahead, Recorded, Between, Agrees, Proved
<1> QED
  BY <1>5, <1>6, <1>7, <1>8, <1>9

LEMMA StopKeeps == ASSUME IInv, Stop PROVE IInv'
<1> USE DesktopAssumption, NamesAssumption
<1> USE DEF IInv, Stop, Control, Apps, Others, Steps, LastStep, Final, Lost, Statuses,
            Doings, Callers, Thens, Do, Idle, outside, history
<1>facts. /\ desktop \in Desktop /\ desktop # None /\ desktop.cursor \in 0 .. Steps
          /\ desktop.prepared \in Nat
          /\ book \in Book /\ book.run \in Nat /\ book.last \in Nat
          /\ book.given \in Seq(0 .. LastStep) /\ Len(book.given) \in Nat
  BY Facts
<1>1. book' \in Book /\ book'.last >= book.last
  BY <1>facts
<1>2. Sane(desktop)'
  BY <1>1, Kept
<1>3. Saved(checkpoint)' /\ Saved(file)'
  BY <1>1, <1>2, Kept DEF Saved
<1>4. at' \in [do : Doings, by : Callers, then : Thens]
  BY DEF HandlerOk
<1>5. TypeOK'
  BY <1>1, <1>2, <1>3, <1>4, <1>facts DEF TypeOK, Saved, Sane
<1>6. BookOk'
  BY <1>facts DEF BookOk
<1>7. HandlerOk'
  BY <1>4, <1>facts DEF TypeOK, BookOk, HandlerOk, WorkflowOk, Sane, Saved, Ahead, Recorded
<1>8. WorkflowOk'
  BY <1>2, <1>3, <1>facts DEF TypeOK, BookOk, HandlerOk, WorkflowOk, Sane, Ahead,
       Recorded, Between
<1>9. ~cut' => UncutOk'
  BY <1>facts DEF TypeOK, BookOk, HandlerOk, WorkflowOk, UncutOk, Sane, Saved, Ahead,
       Recorded, Between, Agrees, Proved
<1> QED
  BY <1>5, <1>6, <1>7, <1>8, <1>9

LEMMA ConfirmStoppedKeeps == ASSUME IInv, ConfirmStopped PROVE IInv'
<1> USE DesktopAssumption, NamesAssumption
<1> USE DEF IInv, ConfirmStopped, Control, Save, Apps, Others, Steps, LastStep, Final,
            Lost, Statuses, Doings, Callers, Thens, Do, Idle, outside, history
<1>facts. /\ desktop \in Desktop /\ desktop # None /\ desktop.cursor \in 0 .. Steps
          /\ desktop.prepared \in Nat
          /\ book \in Book /\ book.run \in Nat /\ book.last \in Nat
          /\ book.given \in Seq(0 .. LastStep) /\ Len(book.given) \in Nat
  BY Facts
<1>book. /\ book' \in Book /\ book'.live = book.live
         /\ book'.run = book.run /\ book'.last = book.last
         /\ book'.given = book.given /\ book'.step = book.step /\ ~book'.stopping
  BY <1>facts DEF Book
<1>1. book' \in Book /\ book'.last >= book.last
  BY <1>facts, <1>book
<1>2. Sane(desktop)'
  BY <1>1, Kept
<1>3. Saved(checkpoint)' /\ Saved(file)'
  BY <1>1, <1>2, Kept DEF Saved
<1>4. at' \in [do : Doings, by : Callers, then : Thens]
  BY DEF HandlerOk
<1>5. TypeOK'
  BY <1>1, <1>2, <1>3, <1>4, <1>facts, <1>book DEF TypeOK, Saved, Sane
<1>6. BookOk'
  BY <1>facts, <1>book DEF BookOk
<1>7. HandlerOk'
  BY <1>4, <1>facts, <1>book DEF TypeOK, BookOk, HandlerOk, WorkflowOk, Sane, Saved,
       Ahead, Recorded
<1>8. WorkflowOk'
  BY <1>2, <1>3, <1>facts, <1>book DEF TypeOK, BookOk, HandlerOk, WorkflowOk, Sane, Ahead,
       Recorded, Between
<1>9. ~cut' => UncutOk'
  BY <1>facts, <1>book DEF TypeOK, BookOk, HandlerOk, WorkflowOk, UncutOk, Sane, Saved,
       Ahead, Recorded, Between, Agrees, Proved
<1> QED
  BY <1>5, <1>6, <1>7, <1>8, <1>9

LEMMA PumpHoldsKeeps == ASSUME IInv, NEW by \in Callers, PumpHolds(by) PROVE IInv'
<1> USE DesktopAssumption, NamesAssumption
<1> USE DEF IInv, PumpHolds, Pump, Pumping, Then, Apps, Others, Steps, LastStep, Final,
            Lost, Statuses, Doings, Callers, Thens, Do, Idle, outside, history
<1>facts. /\ desktop \in Desktop /\ desktop # None /\ desktop.cursor \in 0 .. Steps
          /\ desktop.prepared \in Nat
          /\ book \in Book /\ book.run \in Nat /\ book.last \in Nat
          /\ book.given \in Seq(0 .. LastStep) /\ Len(book.given) \in Nat
  BY Facts
<1>1. book' \in Book /\ book'.last >= book.last
  BY <1>facts
<1>2. Sane(desktop)'
  BY <1>1, Kept
<1>3. Saved(checkpoint)' /\ Saved(file)'
  BY <1>1, <1>2, Kept DEF Saved
<1>4. at' \in [do : Doings, by : Callers, then : Thens]
  BY DEF HandlerOk
<1>5. TypeOK'
  BY <1>1, <1>2, <1>3, <1>4, <1>facts DEF TypeOK, Saved, Sane
<1>6. BookOk'
  BY <1>facts DEF BookOk
<1>7. HandlerOk'
  BY <1>4, <1>facts DEF TypeOK, BookOk, HandlerOk, WorkflowOk, Sane, Saved, Ahead, Recorded
<1>8. WorkflowOk'
  BY <1>2, <1>3, <1>facts DEF TypeOK, BookOk, HandlerOk, WorkflowOk, Sane, Ahead,
       Recorded, Between
<1>9. ~cut' => UncutOk'
  BY <1>facts DEF TypeOK, BookOk, HandlerOk, WorkflowOk, UncutOk, Sane, Saved, Ahead,
       Recorded, Between, Agrees, Proved
<1> QED
  BY <1>5, <1>6, <1>7, <1>8, <1>9

LEMMA PumpWaitsKeeps == ASSUME IInv, NEW by \in Callers, PumpWaits(by) PROVE IInv'
<1> USE DesktopAssumption, NamesAssumption
<1> USE DEF IInv, PumpWaits, Pump, Pumping, Held, Then, Apps, Others, Steps, LastStep,
            Final, Lost, Statuses, Doings, Callers, Thens, Do, Idle, outside, history
<1>facts. /\ desktop \in Desktop /\ desktop # None /\ desktop.cursor \in 0 .. Steps
          /\ desktop.prepared \in Nat
          /\ book \in Book /\ book.run \in Nat /\ book.last \in Nat
          /\ book.given \in Seq(0 .. LastStep) /\ Len(book.given) \in Nat
  BY Facts
<1>desktop. /\ desktop' \in Desktop /\ desktop'.status = "waiting"
            /\ desktop'.approved = desktop.approved
            /\ desktop'.cursor = desktop.cursor /\ desktop'.prepared = desktop.prepared
            /\ desktop'.retained = desktop.retained /\ desktop'.mode = desktop.mode
  <2>1. "waiting" \in Statuses
    OBVIOUS
  <2> QED
    BY <1>facts, <2>1 DEF Desktop
<1>1. book' \in Book /\ book'.last >= book.last
  BY <1>facts, <1>desktop
<1>2. Sane(desktop)'
  BY <1>1, <1>facts, <1>desktop DEF Sane, WorkflowOk
<1>3. Saved(checkpoint)' /\ Saved(file)'
  BY <1>1, <1>2, Kept DEF Saved
<1>4. at' \in [do : Doings, by : Callers, then : Thens]
  BY DEF HandlerOk
<1>5. TypeOK'
  BY <1>1, <1>2, <1>3, <1>4, <1>facts, <1>desktop DEF TypeOK, Saved, Sane
<1>6. BookOk'
  BY <1>facts, <1>desktop DEF BookOk
<1>7. HandlerOk'
  BY <1>4, <1>facts, <1>desktop DEF TypeOK, BookOk, HandlerOk, WorkflowOk, Sane, Saved,
       Ahead, Recorded
<1>8. WorkflowOk'
  BY <1>2, <1>3, <1>facts, <1>desktop DEF TypeOK, BookOk, HandlerOk, WorkflowOk, Sane,
       Ahead, Recorded, Between
<1>9. ~cut' => UncutOk'
  BY <1>facts, <1>desktop DEF TypeOK, BookOk, HandlerOk, WorkflowOk, UncutOk, Sane, Saved,
       Ahead, Recorded, Between, Agrees, Proved
<1> QED
  BY <1>5, <1>6, <1>7, <1>8, <1>9

LEMMA OpenRunKeeps == ASSUME IInv, NEW by \in Callers, OpenRun(by) PROVE IInv'
<1> USE DesktopAssumption, NamesAssumption
<1> USE DEF IInv, OpenRun, Pump, Pumping, Held, Apps, Others, Steps, LastStep, Final,
            Lost, Statuses, Doings, Callers, Thens, Do, Idle, outside, history
<1>facts. /\ desktop \in Desktop /\ desktop # None /\ desktop.cursor \in 0 .. Steps
          /\ desktop.prepared \in Nat
          /\ book \in Book /\ book.run \in Nat /\ book.last \in Nat
          /\ book.given \in Seq(0 .. LastStep) /\ Len(book.given) \in Nat
  BY Facts
<1>book. /\ book' \in Book /\ book'.live = "none"
         /\ book'.run = book.last + 1 /\ book'.last = book.last + 1
         /\ book'.given = <<>> /\ ~book'.stopping
  <2>1. book.last + 1 \in Nat
    BY <1>facts
  <2>2. book' = [EmptyBook EXCEPT !.run = book.last + 1, !.last = book.last + 1]
    BY DEF CommitOpen
  <2>3. book' \in Book
    BY <2>1, <2>2, EmptyTyped DEF Book
  <2> QED
    BY <2>2, <2>3 DEF EmptyBook
<1>desktop. /\ desktop' \in Desktop /\ desktop'.status = desktop.status
            /\ desktop'.approved = desktop.approved
            /\ desktop'.armed = desktop.armed
            /\ desktop'.cursor = desktop.cursor /\ desktop'.prepared = desktop.prepared
            /\ desktop'.retained = desktop.retained /\ desktop'.mode = desktop.mode
  <2>1. book'.run \in Nat
    BY <1>facts, <1>book
  <2>2. desktop' = [desktop EXCEPT !.started = book'.run]
    OBVIOUS
  <2> QED
    BY <1>facts, <2>1, <2>2 DEF Desktop
<1>1. book' \in Book /\ book'.last >= book.last
  BY <1>facts, <1>book, <1>desktop
<1>2. Sane(desktop)'
  BY <1>facts, <1>book, <1>desktop DEF Sane, WorkflowOk
<1>3. Saved(checkpoint)' /\ Saved(file)'
  BY <1>1, <1>2, Kept DEF Saved
<1>4. at' \in [do : Doings, by : Callers, then : Thens]
  BY DEF HandlerOk
<1>5. TypeOK'
  <2>1. edited' \subseteq 1 .. book'.last
    BY <1>facts, <1>book DEF TypeOK
  <2>2. expired' \in 0 .. book'.last
    BY <1>facts, <1>book DEF TypeOK
  <2>3. told' => book'.live = "claimed"
    BY <1>facts, <1>book DEF TypeOK, BookOk
  <2> QED
    BY <1>1, <1>2, <1>3, <1>4, <2>1, <2>2, <2>3 DEF TypeOK, Saved, Sane
<1>6. BookOk'
  BY <1>facts, <1>book, <1>desktop DEF BookOk
<1>7. HandlerOk'
  BY <1>4, <1>facts, <1>book, <1>desktop DEF TypeOK, BookOk, HandlerOk, WorkflowOk, Sane,
       Saved, Ahead, Recorded
<1>8. WorkflowOk'
  BY <1>2, <1>3, <1>facts, <1>book, <1>desktop DEF TypeOK, BookOk, HandlerOk, WorkflowOk,
       Sane, Ahead, Recorded, Between
<1>9. ~cut' => UncutOk'
  BY <1>facts, <1>book, <1>desktop DEF TypeOK, BookOk, HandlerOk, WorkflowOk, UncutOk,
       Sane, Saved, Ahead, Recorded, Between, Agrees, Proved
<1> QED
  BY <1>5, <1>6, <1>7, <1>8, <1>9

LEMMA PrepareKeeps == ASSUME IInv, Prepare PROVE IInv'
<1> USE DesktopAssumption, NamesAssumption
<1> USE DEF IInv, Prepare, Save, Apps, Others, Steps, LastStep, Final, Lost, Statuses,
            Doings, Callers, Thens, Do, Idle, outside, history
<1>facts. /\ desktop \in Desktop /\ desktop # None /\ desktop.cursor \in 0 .. Steps
          /\ desktop.prepared \in Nat
          /\ book \in Book /\ book.run \in Nat /\ book.last \in Nat
          /\ book.given \in Seq(0 .. LastStep) /\ Len(book.given) \in Nat
  BY Facts
<1>desktop. /\ desktop' \in Desktop /\ desktop'.cursor = desktop.cursor
            /\ desktop'.approved = desktop.approved /\ desktop'.armed = desktop.armed
            /\ \/ desktop'.status = "running" /\ desktop'.prepared = book.run
               \/ at'.do = "block" /\ desktop' = desktop
  <2>1. "running" \in Statuses
    OBVIOUS
  <2>2. CASE at' = [at EXCEPT !.do = "block"] /\ UNCHANGED desktop
    BY <1>facts, <2>2 DEF HandlerOk
  <2>3. CASE desktop' = [desktop EXCEPT !.status = "running", !.prepared = book.run,
                                        !.retained = FALSE]
    BY <1>facts, <2>1, <2>3 DEF Desktop
  <2> QED
    BY <2>2, <2>3
<1>1. book' \in Book /\ book'.last >= book.last
  BY <1>facts, <1>desktop
<1>2. Sane(desktop)'
  BY <1>facts, <1>1, <1>desktop DEF Sane, WorkflowOk, BookOk
<1>3. Saved(checkpoint)' /\ Saved(file)'
  BY <1>1, <1>2, Kept DEF Saved
<1>4. at' \in [do : Doings, by : Callers, then : Thens]
  BY DEF HandlerOk
<1>5. TypeOK'
  BY <1>1, <1>2, <1>3, <1>4, <1>facts, <1>desktop DEF TypeOK, Saved, Sane
<1>6. BookOk'
  BY <1>facts, <1>desktop DEF BookOk
<1>7. HandlerOk'
  BY <1>4, <1>facts, <1>desktop DEF TypeOK, BookOk, HandlerOk, WorkflowOk, Sane, Saved,
       Ahead, Recorded
<1>8. WorkflowOk'
  BY <1>2, <1>3, <1>facts, <1>desktop DEF TypeOK, BookOk, HandlerOk, WorkflowOk, Sane,
       Ahead, Recorded, Between
<1>9. ~cut' => UncutOk'
  BY <1>facts, <1>desktop DEF TypeOK, BookOk, HandlerOk, WorkflowOk, UncutOk, Sane, Saved,
       Ahead, Recorded, Between, Agrees, Proved
<1> QED
  BY <1>5, <1>6, <1>7, <1>8, <1>9

LEMMA CompleteKeeps == ASSUME IInv, NEW by \in Callers, Complete(by) PROVE IInv'
<1> USE DesktopAssumption, NamesAssumption
<1> USE DEF IInv, Complete, PumpSteps, GoesOn, Pumping, Held, Save, Apps, Others, Steps,
            LastStep, Final, Lost, Statuses, Doings, Callers, Thens, Do, Idle, outside,
            history
<1>facts. /\ desktop \in Desktop /\ desktop # None /\ desktop.cursor \in 0 .. Steps
          /\ desktop.prepared \in Nat
          /\ book \in Book /\ book.run \in Nat /\ book.last \in Nat
          /\ book.given \in Seq(0 .. LastStep) /\ Len(book.given) \in Nat
  BY Facts
<1>desktop. /\ desktop' \in Desktop /\ desktop'.status = "completed" /\ ~desktop'.armed
            /\ desktop'.approved = desktop.approved
            /\ desktop'.cursor = desktop.cursor /\ desktop'.prepared = desktop.prepared
            /\ desktop'.retained = desktop.retained /\ desktop'.mode = desktop.mode
  <2>1. "completed" \in Statuses
    OBVIOUS
  <2> QED
    BY <1>facts, <2>1 DEF Desktop
<1>1. book' \in Book /\ book'.last >= book.last
  BY <1>facts, <1>desktop
<1>2. Sane(desktop)'
  BY <1>1, <1>facts, <1>desktop DEF Sane, WorkflowOk
<1>3. Saved(checkpoint)' /\ Saved(file)'
  BY <1>1, <1>2, Kept DEF Saved
<1>4. at' \in [do : Doings, by : Callers, then : Thens]
  BY DEF HandlerOk
<1>5. TypeOK'
  BY <1>1, <1>2, <1>3, <1>4, <1>facts, <1>desktop DEF TypeOK, Saved, Sane
<1>6. BookOk'
  BY <1>facts, <1>desktop DEF BookOk
<1>7. HandlerOk'
  BY <1>4, <1>facts, <1>desktop DEF TypeOK, BookOk, HandlerOk, WorkflowOk, Sane, Saved,
       Ahead, Recorded
<1>8. WorkflowOk'
  BY <1>2, <1>3, <1>facts, <1>desktop DEF TypeOK, BookOk, HandlerOk, WorkflowOk, Sane,
       Ahead, Recorded, Between
<1>9. ~cut' => UncutOk'
  BY <1>facts, <1>desktop DEF TypeOK, BookOk, HandlerOk, WorkflowOk, UncutOk, Sane, Saved,
       Ahead, Recorded, Between, Agrees, Proved
<1> QED
  BY <1>5, <1>6, <1>7, <1>8, <1>9

LEMMA ExceedKeeps == ASSUME IInv, NEW by \in Callers, Exceed(by) PROVE IInv'
<1> USE DesktopAssumption, NamesAssumption
<1> USE DEF IInv, Exceed, PumpSteps, GoesOn, Pumping, Apps, Others, Steps, LastStep,
            Final, Lost, Statuses, Doings, Callers, Thens, Do, Idle, outside, history
<1>facts. /\ desktop \in Desktop /\ desktop # None /\ desktop.cursor \in 0 .. Steps
          /\ desktop.prepared \in Nat
          /\ book \in Book /\ book.run \in Nat /\ book.last \in Nat
          /\ book.given \in Seq(0 .. LastStep) /\ Len(book.given) \in Nat
  BY Facts
<1>1. book' \in Book /\ book'.last >= book.last
  BY <1>facts
<1>2. Sane(desktop)'
  BY <1>1, Kept
<1>3. Saved(checkpoint)' /\ Saved(file)'
  BY <1>1, <1>2, Kept DEF Saved
<1>4. at' \in [do : Doings, by : Callers, then : Thens]
  BY DEF HandlerOk
<1>5. TypeOK'
  BY <1>1, <1>2, <1>3, <1>4, <1>facts DEF TypeOK, Saved, Sane
<1>6. BookOk'
  BY <1>facts DEF BookOk
<1>7. HandlerOk'
  BY <1>4, <1>facts DEF TypeOK, BookOk, HandlerOk, WorkflowOk, Sane, Saved, Ahead, Recorded
<1>8. WorkflowOk'
  BY <1>2, <1>3, <1>facts DEF TypeOK, BookOk, HandlerOk, WorkflowOk, Sane, Ahead,
       Recorded, Between
<1>9. ~cut' => UncutOk'
  BY <1>facts DEF TypeOK, BookOk, HandlerOk, WorkflowOk, UncutOk, Sane, Saved, Ahead,
       Recorded, Between, Agrees, Proved
<1> QED
  BY <1>5, <1>6, <1>7, <1>8, <1>9

LEMMA AwaitAnswerKeeps == ASSUME IInv, NEW by \in Callers, AwaitAnswer(by) PROVE IInv'
<1> USE DesktopAssumption, NamesAssumption
<1> USE DEF IInv, AwaitAnswer, PumpSteps, GoesOn, Pumping, Held, Then, Apps, Others,
            Steps, LastStep, Final, Lost, Statuses, Doings, Callers, Thens, Do, Idle,
            outside, history
<1>facts. /\ desktop \in Desktop /\ desktop # None /\ desktop.cursor \in 0 .. Steps
          /\ desktop.prepared \in Nat
          /\ book \in Book /\ book.run \in Nat /\ book.last \in Nat
          /\ book.given \in Seq(0 .. LastStep) /\ Len(book.given) \in Nat
  BY Facts
<1>1. book' \in Book /\ book'.last >= book.last
  BY <1>facts
<1>2. Sane(desktop)'
  BY <1>1, Kept
<1>3. Saved(checkpoint)' /\ Saved(file)'
  BY <1>1, <1>2, Kept DEF Saved
<1>4. at' \in [do : Doings, by : Callers, then : Thens]
  BY DEF HandlerOk
<1>5. TypeOK'
  BY <1>1, <1>2, <1>3, <1>4, <1>facts DEF TypeOK, Saved, Sane
<1>6. BookOk'
  BY <1>facts DEF BookOk
<1>7. HandlerOk'
  BY <1>4, <1>facts DEF TypeOK, BookOk, HandlerOk, WorkflowOk, Sane, Saved, Ahead, Recorded
<1>8. WorkflowOk'
  BY <1>2, <1>3, <1>facts DEF TypeOK, BookOk, HandlerOk, WorkflowOk, Sane, Ahead,
       Recorded, Between
<1>9. ~cut' => UncutOk'
  BY <1>facts DEF TypeOK, BookOk, HandlerOk, WorkflowOk, UncutOk, Sane, Saved, Ahead,
       Recorded, Between, Agrees, Proved
<1> QED
  BY <1>5, <1>6, <1>7, <1>8, <1>9

LEMMA AskApprovalKeeps == ASSUME IInv, NEW by \in Callers, AskApproval(by) PROVE IInv'
<1> USE DesktopAssumption, NamesAssumption
<1> USE DEF IInv, AskApproval, PumpSteps, GoesOn, Pumping, Held, Save, MayHandOff,
            Approved, NeedsApproval, Apps, Others, Steps, LastStep, Final, Lost, Statuses,
            Doings, Callers, Thens, Do, Idle, outside, history
<1>facts. /\ desktop \in Desktop /\ desktop # None /\ desktop.cursor \in 0 .. Steps
          /\ desktop.prepared \in Nat
          /\ book \in Book /\ book.run \in Nat /\ book.last \in Nat
          /\ book.given \in Seq(0 .. LastStep) /\ Len(book.given) \in Nat
  BY Facts
<1>desktop. /\ desktop' \in Desktop /\ desktop'.status = "approval"
            /\ desktop'.armed = desktop.armed
            /\ desktop'.approved = desktop.approved
            /\ desktop'.cursor = desktop.cursor /\ desktop'.prepared = desktop.prepared
            /\ desktop'.retained = desktop.retained /\ desktop'.mode = desktop.mode
  <2>1. "approval" \in Statuses
    OBVIOUS
  <2> QED
    BY <1>facts, <2>1 DEF Desktop
<1>1. book' \in Book /\ book'.last >= book.last
  BY <1>facts, <1>desktop
<1>2. Sane(desktop)'
  BY <1>1, <1>facts, <1>desktop DEF Sane, WorkflowOk
<1>3. Saved(checkpoint)' /\ Saved(file)'
  BY <1>1, <1>2, Kept DEF Saved
<1>4. at' \in [do : Doings, by : Callers, then : Thens]
  BY DEF HandlerOk
<1>5. TypeOK'
  BY <1>1, <1>2, <1>3, <1>4, <1>facts, <1>desktop DEF TypeOK, Saved, Sane
<1>6. BookOk'
  BY <1>facts, <1>desktop DEF BookOk
<1>7. HandlerOk'
  BY <1>4, <1>facts, <1>desktop DEF TypeOK, BookOk, HandlerOk, WorkflowOk, Sane, Saved,
       Ahead, Recorded
<1>8. WorkflowOk'
  BY <1>2, <1>3, <1>facts, <1>desktop DEF TypeOK, BookOk, HandlerOk, WorkflowOk, Sane,
       Ahead, Recorded, Between
<1>9. ~cut' => UncutOk'
  BY <1>facts, <1>desktop DEF TypeOK, BookOk, HandlerOk, WorkflowOk, UncutOk, Sane, Saved,
       Ahead, Recorded, Between, Agrees, Proved
<1> QED
  BY <1>5, <1>6, <1>7, <1>8, <1>9

LEMMA OfferKeeps == ASSUME IInv, NEW by \in Callers, Offer(by) PROVE IInv'
<1> USE DesktopAssumption, NamesAssumption
<1> USE DEF IInv, Offer, PumpSteps, GoesOn, Pumping, Held, Save, MayHandOff, Apps, Others,
            Steps, LastStep, Final, Lost, Statuses, Doings, Callers, Thens, Do, Idle,
            outside, history
<1>facts. /\ desktop \in Desktop /\ desktop # None /\ desktop.cursor \in 0 .. Steps
          /\ desktop.prepared \in Nat
          /\ book \in Book /\ book.run \in Nat /\ book.last \in Nat
          /\ book.given \in Seq(0 .. LastStep) /\ Len(book.given) \in Nat
  BY Facts
<1>book. /\ book' \in Book /\ book'.live = "offered"
         /\ book'.step = desktop.cursor /\ ~book.stopping
         /\ book'.given = book.given /\ ~book'.stopping /\ book.live = "none"
         /\ book'.run = book.run /\ book'.last = book.last
  <2>1. desktop.cursor \in 0 .. LastStep
    BY <1>facts
  <2> QED
    BY <1>facts, <2>1 DEF Book, CommitOffer
<1>desktop. /\ desktop' \in Desktop /\ desktop'.status = "running"
            /\ desktop'.armed = desktop.armed
            /\ desktop'.approved = 0
            /\ desktop'.cursor = desktop.cursor /\ desktop'.prepared = desktop.prepared
            /\ desktop'.retained = desktop.retained /\ desktop'.mode = desktop.mode
  <2>1. "running" \in Statuses /\ 0 \in 0 .. LastStep
    OBVIOUS
  <2> QED
    BY <1>facts, <2>1 DEF Desktop
<1>1. book' \in Book /\ book'.last >= book.last
  BY <1>facts, <1>book, <1>desktop
<1>2. Sane(desktop)'
  BY <1>1, <1>facts, <1>book, <1>desktop DEF Sane, WorkflowOk
<1>3. Saved(checkpoint)' /\ Saved(file)'
  BY <1>1, <1>2, Kept DEF Saved
<1>4. at' \in [do : Doings, by : Callers, then : Thens]
  BY DEF HandlerOk
<1>5. TypeOK'
  BY <1>1, <1>2, <1>3, <1>4, <1>facts, <1>book, <1>desktop DEF TypeOK, Saved, Sane
<1>6. BookOk'
  <2>1. desktop.status \notin Lost /\ at.do \in {"idle", "pump", "steps"}
    BY DEF HandlerOk, Ahead
  <2>2. Len(book.given) <= desktop.cursor
    BY <2>1 DEF WorkflowOk, Between
  <2>3. book.run # 0
    BY DEF HandlerOk, Ahead
  <2> QED
    BY <1>facts, <1>book, <1>desktop, <2>2, <2>3 DEF BookOk
<1>7. HandlerOk'
  BY <1>4, <1>facts, <1>book, <1>desktop DEF TypeOK, BookOk, HandlerOk, WorkflowOk, Sane,
       Saved, Ahead, Recorded
<1>8. WorkflowOk'
  BY <1>2, <1>3, <1>facts, <1>book, <1>desktop DEF TypeOK, BookOk, HandlerOk, WorkflowOk,
       Sane, Ahead, Recorded, Between
<1>9. ~cut' => UncutOk'
  BY <1>facts, <1>book, <1>desktop DEF TypeOK, BookOk, HandlerOk, WorkflowOk, UncutOk,
       Sane, Saved, Ahead, Recorded, Between, Agrees, Proved
<1> QED
  BY <1>5, <1>6, <1>7, <1>8, <1>9

LEMMA FetchClaimsKeeps == ASSUME IInv, NEW c \in Apps, FetchClaims(c) PROVE IInv'
<1> USE DesktopAssumption, NamesAssumption
<1> USE DEF IInv, FetchClaims, App, MayClaim, Save, Apps, Others, Steps, LastStep, Final,
            Lost, Statuses, Doings, Callers, Thens, Do, Idle, outside, history
<1>facts. /\ desktop \in Desktop /\ desktop # None /\ desktop.cursor \in 0 .. Steps
          /\ desktop.prepared \in Nat
          /\ book \in Book /\ book.run \in Nat /\ book.last \in Nat
          /\ book.given \in Seq(0 .. LastStep) /\ Len(book.given) \in Nat
  BY Facts
<1>book. /\ book' \in Book /\ book'.live = "claimed" /\ book'.step = book.step /\ book.run # 0
         /\ book'.given = book.given /\ book'.stopping = book.stopping /\ book.live = "offered"
         /\ book'.run = book.run /\ book'.last = book.last
  BY <1>facts DEF Book, CommitClaim
<1>desktop. /\ desktop' \in Desktop /\ desktop'.status = desktop.status
            /\ desktop'.armed = desktop.armed
            /\ desktop'.approved = desktop.approved
            /\ desktop'.cursor = desktop.cursor /\ desktop'.prepared = desktop.prepared
            /\ desktop'.retained = desktop.retained /\ desktop'.mode = desktop.mode
  <2>1. PICK n \in Nat : desktop' = [desktop EXCEPT !.turns = n]
    <3>1. desktop.turns + 1 \in Nat
      BY <1>facts DEF Desktop
    <3>2. desktop' = [desktop EXCEPT !.turns = desktop.turns + 1]
      OBVIOUS
    <3> QED
      BY <3>1, <3>2
  <2> QED
    BY <1>facts, <2>1 DEF Desktop
<1>1. book' \in Book /\ book'.last >= book.last
  BY <1>facts, <1>book, <1>desktop
<1>2. Sane(desktop)'
  BY <1>1, <1>facts, <1>book, <1>desktop DEF Sane, WorkflowOk
<1>3. Saved(checkpoint)' /\ Saved(file)'
  BY <1>1, <1>2, Kept DEF Saved
<1>4. at' \in [do : Doings, by : Callers, then : Thens]
  BY DEF HandlerOk
<1>5. TypeOK'
  BY <1>1, <1>2, <1>3, <1>4, <1>facts, <1>book, <1>desktop DEF TypeOK, Saved, Sane
<1>6. BookOk'
  BY <1>facts, <1>book, <1>desktop DEF BookOk
<1>7. HandlerOk'
  BY <1>4, <1>facts, <1>book, <1>desktop DEF TypeOK, BookOk, HandlerOk, WorkflowOk, Sane,
       Saved, Ahead, Recorded
<1>8. WorkflowOk'
  BY <1>2, <1>3, <1>facts, <1>book, <1>desktop DEF TypeOK, BookOk, HandlerOk, WorkflowOk,
       Sane, Ahead, Recorded, Between
<1>9. ~cut' => UncutOk'
  BY <1>facts, <1>book, <1>desktop DEF TypeOK, BookOk, HandlerOk, WorkflowOk, UncutOk,
       Sane, Saved, Ahead, Recorded, Between, Agrees, Proved
<1> QED
  BY <1>5, <1>6, <1>7, <1>8, <1>9

LEMMA TellKeeps == ASSUME IInv, Tell PROVE IInv'
<1> USE DesktopAssumption, NamesAssumption
<1> USE DEF IInv, Tell, Apps, Others, Steps, LastStep, Final, Lost, Statuses, Doings,
            Callers, Thens, Do, Idle, outside, history
<1>facts. /\ desktop \in Desktop /\ desktop # None /\ desktop.cursor \in 0 .. Steps
          /\ desktop.prepared \in Nat
          /\ book \in Book /\ book.run \in Nat /\ book.last \in Nat
          /\ book.given \in Seq(0 .. LastStep) /\ Len(book.given) \in Nat
  BY Facts
<1>1. book' \in Book /\ book'.last >= book.last
  BY <1>facts
<1>2. Sane(desktop)'
  BY <1>1, Kept
<1>3. Saved(checkpoint)' /\ Saved(file)'
  BY <1>1, <1>2, Kept DEF Saved
<1>4. at' \in [do : Doings, by : Callers, then : Thens]
  BY DEF HandlerOk
<1>5. TypeOK'
  BY <1>1, <1>2, <1>3, <1>4, <1>facts DEF TypeOK, HandlerOk, Ahead, Saved, Sane
<1>6. BookOk'
  BY <1>facts DEF BookOk
<1>7. HandlerOk'
  BY <1>4, <1>facts DEF TypeOK, BookOk, HandlerOk, WorkflowOk, Sane, Saved, Ahead, Recorded
<1>8. WorkflowOk'
  BY <1>2, <1>3, <1>facts DEF TypeOK, BookOk, HandlerOk, WorkflowOk, Sane, Ahead,
       Recorded, Between
<1>9. ~cut' => UncutOk'
  BY <1>facts DEF TypeOK, BookOk, HandlerOk, WorkflowOk, UncutOk, Sane, Saved, Ahead,
       Recorded, Between, Agrees, Proved
<1> QED
  BY <1>5, <1>6, <1>7, <1>8, <1>9

LEMMA SubmitTooLateKeeps == ASSUME IInv, SubmitTooLate PROVE IInv'
<1> USE DesktopAssumption, NamesAssumption
<1> USE DEF IInv, SubmitTooLate, App, Apps, Others, Steps, LastStep, Final, Lost,
            Statuses, Doings, Callers, Thens, Do, Idle, outside, history
<1>facts. /\ desktop \in Desktop /\ desktop # None /\ desktop.cursor \in 0 .. Steps
          /\ desktop.prepared \in Nat
          /\ book \in Book /\ book.run \in Nat /\ book.last \in Nat
          /\ book.given \in Seq(0 .. LastStep) /\ Len(book.given) \in Nat
  BY Facts
<1>1. book' \in Book /\ book'.last >= book.last
  BY <1>facts
<1>2. Sane(desktop)'
  BY <1>1, Kept
<1>3. Saved(checkpoint)' /\ Saved(file)'
  BY <1>1, <1>2, Kept DEF Saved
<1>4. at' \in [do : Doings, by : Callers, then : Thens]
  BY DEF HandlerOk
<1>5. TypeOK'
  BY <1>1, <1>2, <1>3, <1>4, <1>facts DEF TypeOK, Saved, Sane
<1>6. BookOk'
  BY <1>facts DEF BookOk
<1>7. HandlerOk'
  BY <1>4, <1>facts DEF TypeOK, BookOk, HandlerOk, WorkflowOk, Sane, Saved, Ahead, Recorded
<1>8. WorkflowOk'
  BY <1>2, <1>3, <1>facts DEF TypeOK, BookOk, HandlerOk, WorkflowOk, Sane, Ahead,
       Recorded, Between
<1>9. ~cut' => UncutOk'
  BY <1>facts DEF TypeOK, BookOk, HandlerOk, WorkflowOk, UncutOk, Sane, Saved, Ahead,
       Recorded, Between, Agrees, Proved
<1> QED
  BY <1>5, <1>6, <1>7, <1>8, <1>9

LEMMA SubmitKeeps == ASSUME IInv, NEW status \in {"done", "blocked"}, Submit(status) PROVE IInv'
<1> USE DesktopAssumption, NamesAssumption
<1> USE DEF IInv, Submit, App, Apps, Others, Steps, LastStep, Final, Lost, Statuses,
            Doings, Callers, Thens, Do, Idle, outside, history
<1>facts. /\ desktop \in Desktop /\ desktop # None /\ desktop.cursor \in 0 .. Steps
          /\ desktop.prepared \in Nat
          /\ book \in Book /\ book.run \in Nat /\ book.last \in Nat
          /\ book.given \in Seq(0 .. LastStep) /\ Len(book.given) \in Nat
  BY Facts
<1>book. /\ book' \in Book /\ book'.live = "none"
         /\ book'.step = book.step /\ book.live = "claimed"
         /\ book'.given = Append(book.given, book.step) /\ book'.stopping = book.stopping
         /\ book'.run = book.run /\ book'.last = book.last
  <2>1. book.step \in 0 .. LastStep /\ book.live = "claimed"
    BY <1>facts DEF Book, TypeOK
  <2>2. Append(book.given, book.step) \in Seq(0 .. LastStep)
    BY <1>facts, <2>1
  <2>3. PICK p \in BOOLEAN :
          book' = [book EXCEPT !.live = "none", !.given = Append(book.given, book.step), !.paused = p]
    BY <1>facts DEF Book, CommitAnswer
  <2> QED
    BY <1>facts, <2>1, <2>2, <2>3 DEF Book
<1>1. book' \in Book /\ book'.last >= book.last
  BY <1>facts, <1>book
<1>2. Sane(desktop)'
  BY <1>1, Kept
<1>3. Saved(checkpoint)' /\ Saved(file)'
  BY <1>1, <1>2, Kept DEF Saved
<1>4. at' \in [do : Doings, by : Callers, then : Thens]
  BY DEF HandlerOk
<1>5. TypeOK'
  BY <1>1, <1>2, <1>3, <1>4, <1>facts, <1>book DEF TypeOK, Saved, Sane
<1>6. BookOk'
  BY <1>facts, <1>book DEF BookOk
<1>7. HandlerOk'
  BY <1>4, <1>facts, <1>book DEF TypeOK, BookOk, HandlerOk, WorkflowOk, Sane, Saved,
       Ahead, Recorded
<1>8. WorkflowOk'
  <2>1. /\ ~told' /\ at.do = "idle" /\ at'.do \in {"after", "block"} /\ granted' = granted
        /\ desktop' = desktop /\ book.live = "claimed"
    BY <1>book
  <2>2. Len(book'.given) = Len(book.given) + 1
    BY <1>facts, <1>book
  <2>3. /\ desktop.status # "approval"
        /\ desktop.status \notin Lost => Len(book.given) <= desktop.cursor
    BY <2>1 DEF WorkflowOk, Between
  <2> QED
    BY <1>2, <1>3, <1>facts, <1>book, <2>1, <2>2, <2>3 DEF WorkflowOk, Between
<1>9. ~cut' => UncutOk'
  <2> SUFFICES ASSUME ~cut PROVE UncutOk'
    BY DEF App
  <2>1. /\ told /\ ~told' /\ at.do = "idle" /\ at'.do \in {"after", "block"} /\ UncutOk
        /\ desktop' = desktop /\ checkpoint' = checkpoint /\ edited' = edited
    OBVIOUS
  <2>2. /\ book.run # 0 /\ Len(book'.given) = Len(book.given) + 1
        /\ \A i \in 1 .. Len(book.given) : book'.given[i] = book.given[i]
        /\ book'.given[Len(book.given) + 1] = book.step
    BY <1>facts, <1>book DEF BookOk
  <2>3. \A i \in 1 .. Len(book'.given) : book'.given[i] = i - 1
    <3>1. book.step = Len(book.given) /\ \A i \in 1 .. Len(book.given) : book.given[i] = i - 1
      BY <1>book, <2>1, <2>2 DEF UncutOk
    <3> SUFFICES ASSUME NEW i \in 1 .. Len(book'.given)
                 PROVE  book'.given[i] = i - 1
      OBVIOUS
    <3>2. CASE i = Len(book.given) + 1
      BY <1>facts, <2>2, <3>1, <3>2
    <3>3. CASE i \in 1 .. Len(book.given)
      BY <1>facts, <2>2, <3>1, <3>3
    <3> QED
      BY <1>facts, <2>2, <3>2, <3>3
  <2>4. /\ desktop.cursor = Len(book.given) /\ checkpoint.cursor = Len(book.given)
        /\ Proved(desktop) /\ checkpoint # None
        /\ desktop.status # "completed"
    BY <1>book, <2>1, <2>2 DEF UncutOk, Agrees, WorkflowOk, Sane
  <2> QED
    BY <1>facts, <1>book, <2>1, <2>2, <2>3, <2>4 DEF UncutOk, Agrees, Ahead, Recorded,
         Between, Proved
<1> QED
  BY <1>5, <1>6, <1>7, <1>8, <1>9

LEMMA AcceptKeeps == ASSUME IInv, Accept PROVE IInv'
<1> USE DesktopAssumption, NamesAssumption
<1> USE DEF IInv, Accept, AfterTurn, Verified, Save, Apps, Others, Steps, LastStep, Final,
            Lost, Statuses, Doings, Callers, Thens, Do, Idle, outside, history
<1>facts. /\ desktop \in Desktop /\ desktop # None /\ desktop.cursor \in 0 .. Steps
          /\ desktop.prepared \in Nat
          /\ book \in Book /\ book.run \in Nat /\ book.last \in Nat
          /\ book.given \in Seq(0 .. LastStep) /\ Len(book.given) \in Nat
  BY Facts
<1>desktop. /\ desktop' \in Desktop /\ desktop'.status = desktop.status
            /\ desktop'.armed = desktop.armed
            /\ desktop'.approved = desktop.approved /\ desktop'.prepared = desktop.prepared
            /\ desktop'.cursor = desktop.cursor + 1 /\ desktop.cursor < Steps
            /\ desktop.cursor = LastStep => desktop'.retained
  <2>1. desktop.cursor + 1 \in 0 .. Steps /\ desktop.cursor < Steps
    BY <1>facts DEF HandlerOk
  <2>2. PICK r \in BOOLEAN : /\ r = (desktop.retained \/ desktop.cursor = LastStep)
                             /\ desktop' = [desktop EXCEPT !.cursor = desktop.cursor + 1, !.retained = r]
    BY <1>facts DEF Desktop
  <2> QED
    BY <1>facts, <2>1, <2>2 DEF Desktop
<1>1. book' \in Book /\ book'.last >= book.last
  BY <1>facts, <1>desktop
<1>2. Sane(desktop)'
  BY <1>1, <1>facts, <1>desktop DEF Sane, WorkflowOk
<1>3. Saved(checkpoint)' /\ Saved(file)'
  BY <1>1, <1>2, Kept DEF Saved
<1>4. at' \in [do : Doings, by : Callers, then : Thens]
  BY DEF HandlerOk
<1>5. TypeOK'
  <2>1. Change \subseteq 1 .. book.last
    BY <1>facts DEF Change, WorkflowOk, Sane
  <2> QED
    BY <1>1, <1>2, <1>3, <1>4, <1>facts, <2>1 DEF TypeOK, Saved, Sane
<1>6. BookOk'
  BY <1>facts, <1>desktop DEF BookOk
<1>7. HandlerOk'
  BY <1>4, <1>facts, <1>desktop DEF TypeOK, BookOk, HandlerOk, WorkflowOk, Sane, Saved,
       Ahead, Recorded
<1>8. WorkflowOk'
  BY <1>2, <1>3, <1>facts, <1>desktop DEF TypeOK, BookOk, HandlerOk, WorkflowOk, Sane,
       Ahead, Recorded, Between
<1>9. ~cut' => UncutOk'
  <2> SUFFICES ASSUME ~cut PROVE UncutOk'
    BY DEF AfterTurn
  <2>1. at.do = "after" /\ at'.do = "note" /\ at'.then = "pump" /\ ~told /\ UncutOk
    BY DEF TypeOK, HandlerOk
  <2>2. book.run # 0 /\ desktop.cursor + 1 = Len(book.given) /\ Proved(desktop)
    BY <2>1 DEF HandlerOk, UncutOk
  <2>3. edited \subseteq edited' /\ checkpoint' = checkpoint /\ book' = book
    OBVIOUS
  <2>4. Proved(desktop)'
    <3>1. CASE desktop.cursor = 1
      BY <1>facts, <1>desktop, <3>1 DEF Proved, Change
    <3>2. CASE desktop.cursor # 1
      BY <1>facts, <1>desktop, <2>2, <2>3, <3>2 DEF Proved
    <3> QED
      BY <3>1, <3>2
  <2>5. (checkpoint # None /\ Agrees(checkpoint) => Proved(checkpoint))'
    BY <1>facts, <2>1, <2>2, <2>3 DEF Proved, UncutOk, Agrees
  <2> QED
    BY <1>facts, <1>desktop, <2>1, <2>2, <2>3, <2>4, <2>5 DEF UncutOk, Agrees, Ahead,
         Recorded, Between
<1> QED
  BY <1>5, <1>6, <1>7, <1>8, <1>9

LEMMA RejectKeeps == ASSUME IInv, Reject PROVE IInv'
<1> USE DesktopAssumption, NamesAssumption
<1> USE DEF IInv, Reject, AfterTurn, Apps, Others, Steps, LastStep, Final, Lost, Statuses,
            Doings, Callers, Thens, Do, Idle, outside, history
<1>facts. /\ desktop \in Desktop /\ desktop # None /\ desktop.cursor \in 0 .. Steps
          /\ desktop.prepared \in Nat
          /\ book \in Book /\ book.run \in Nat /\ book.last \in Nat
          /\ book.given \in Seq(0 .. LastStep) /\ Len(book.given) \in Nat
  BY Facts
<1>1. book' \in Book /\ book'.last >= book.last
  BY <1>facts
<1>2. Sane(desktop)'
  BY <1>1, Kept
<1>3. Saved(checkpoint)' /\ Saved(file)'
  BY <1>1, <1>2, Kept DEF Saved
<1>4. at' \in [do : Doings, by : Callers, then : Thens]
  BY DEF HandlerOk
<1>5. TypeOK'
  <2>1. Change \subseteq 1 .. book.last
    BY <1>facts DEF Change, WorkflowOk, Sane
  <2> QED
    BY <1>1, <1>2, <1>3, <1>4, <1>facts, <2>1 DEF TypeOK, Saved, Sane
<1>6. BookOk'
  BY <1>facts DEF BookOk
<1>7. HandlerOk'
  BY <1>4, <1>facts DEF TypeOK, BookOk, HandlerOk, WorkflowOk, Sane, Saved, Ahead, Recorded
<1>8. WorkflowOk'
  BY <1>2, <1>3, <1>facts DEF TypeOK, BookOk, HandlerOk, WorkflowOk, Sane, Ahead,
       Recorded, Between
<1>9. ~cut' => UncutOk'
  BY <1>facts DEF TypeOK, BookOk, HandlerOk, WorkflowOk, UncutOk, Sane, Saved, Ahead,
       Recorded, Between, Agrees, Proved
<1> QED
  BY <1>5, <1>6, <1>7, <1>8, <1>9

LEMMA WriteFailsKeeps == ASSUME IInv, NEW by \in Callers, WriteFails(by) PROVE IInv'
<1> USE DesktopAssumption, NamesAssumption
<1> USE DEF IInv, WriteFails, Raises, Trouble, Apps, Others, Steps, LastStep, Final, Lost,
            Statuses, Doings, Callers, Thens, Do, Idle, outside, history
<1>facts. /\ desktop \in Desktop /\ desktop # None /\ desktop.cursor \in 0 .. Steps
          /\ desktop.prepared \in Nat
          /\ book \in Book /\ book.run \in Nat /\ book.last \in Nat
          /\ book.given \in Seq(0 .. LastStep) /\ Len(book.given) \in Nat
  BY Facts
<1>mid. at.do \notin {"start", "after"} /\ ~Between /\ at'.do \in {"block", "idle"}
  BY DEF Writing, Pumping, GoesOn, HandlerOk, Between
<1>1. book' \in Book /\ book'.last >= book.last
  BY <1>facts
<1>2. Sane(desktop)'
  BY <1>1, Kept
<1>3. Saved(checkpoint)' /\ Saved(file)'
  BY <1>1, <1>2, Kept DEF Saved
<1>4. at' \in [do : Doings, by : Callers, then : Thens]
  BY DEF HandlerOk
<1>5. TypeOK'
  BY <1>1, <1>2, <1>3, <1>4, <1>facts DEF TypeOK, Saved, Sane
<1>6. BookOk'
  BY <1>facts DEF BookOk
<1>7. HandlerOk'
  BY <1>4, <1>facts DEF TypeOK, BookOk, HandlerOk, WorkflowOk, Sane, Saved, Ahead, Recorded
<1>8. WorkflowOk'
  BY <1>2, <1>3, <1>facts, <1>mid DEF TypeOK, BookOk, HandlerOk, WorkflowOk, Sane, Ahead,
       Recorded, Between
<1>9. ~cut' => UncutOk'
  BY <1>facts, <1>mid DEF TypeOK, HandlerOk, WorkflowOk, UncutOk, Ahead, Recorded,
       Between, Agrees, Proved
<1> QED
  BY <1>5, <1>6, <1>7, <1>8, <1>9

-----------------------------------------------------------------------------
(* Apps that come, go, listen and hang up, and time that passes.           *)

Elsewhere ==
  /\ UNCHANGED <<desktop, book, checkpoint, file, edited, hubPaused, monitor, at, told,
                 history>>
  /\ listening' \subseteq ready' /\ ready' \subseteq Apps
  /\ late' \in BOOLEAN
  /\ expired' \in 0 .. book.last
  /\ troubles' \in 0 .. MaxTroubles

LEMMA ElsewhereKeeps == ASSUME IInv, Elsewhere PROVE IInv'
<1> USE DEF IInv, Elsewhere, history
<1>1. TypeOK'
  BY DEF TypeOK
<1>2. BookOk' /\ HandlerOk' /\ WorkflowOk'
  BY DEF BookOk, HandlerOk, WorkflowOk, Ahead, Recorded, Between, Sane, Saved
<1>3. ~cut' => UncutOk'
  BY DEF UncutOk, Recorded, Between, Agrees, Proved
<1> QED
  BY <1>1, <1>2, <1>3

LEMMA VisitsAreElsewhere ==
  ASSUME IInv, \/ \E c \in Apps : \/ Joins(c) \/ Leaves(c) \/ Listens(c) \/ HangsUp(c)
                                  \/ FetchEnds(c)
               \/ TimePasses
  PROVE  Elsewhere
<1> USE DesktopAssumption
<1> USE DEF IInv, TypeOK, Elsewhere, App, Trouble, history
<1>1. book.last \in Nat
  BY Facts
<1>2. ASSUME NEW c \in Apps, Joins(c) \/ Leaves(c) \/ Listens(c) \/ HangsUp(c) \/ FetchEnds(c)
      PROVE  Elsewhere
  BY <1>2 DEF Joins, Leaves, Listens, HangsUp, FetchEnds
<1>3. CASE TimePasses
  BY <1>1, <1>3 DEF TimePasses
<1> QED
  BY <1>2, <1>3

-----------------------------------------------------------------------------
(* The restart.                                                            *)

LEMMA RestartKeeps == ASSUME IInv, Restart PROVE IInv'
<1> USE DesktopAssumption, NamesAssumption
<1> USE DEF IInv, Restart, Trouble, Apps, Others, Steps, LastStep, Final, Lost, Statuses,
            Doings, Callers, Thens, Do, Idle, outside, history
<1> DEFINE saved == IF checkpoint = None THEN file ELSE checkpoint
<1>facts. /\ desktop \in Desktop /\ desktop # None /\ desktop.cursor \in 0 .. Steps
          /\ desktop.prepared \in Nat
          /\ book \in Book /\ book.run \in Nat /\ book.last \in Nat
          /\ book.given \in Seq(0 .. LastStep) /\ Len(book.given) \in Nat
  BY Facts
<1>book. /\ book' \in Book /\ book'.live = book.live /\ book'.step = book.step
         /\ book'.given = book.given /\ book'.stopping = book.stopping
         /\ book'.run = book.run /\ book'.last = book.last
  BY <1>facts DEF Book
<1>fresh. /\ Fresh("human") \in Desktop /\ Fresh("human").status = "waiting"
          /\ Fresh("human").cursor = 0 /\ Fresh("human").approved = 0
          /\ Fresh("human").prepared = 0
  BY FreshTyped DEF Fresh
<1>saved. file # None => Sane(saved)
  BY DEF WorkflowOk, Saved
<1>desktop. /\ Sane(desktop)' /\ desktop'.approved = 0 /\ desktop'.status # "approval"
            /\ book.run = 0 => desktop'.cursor = 0 /\ desktop'.status = "waiting"
            /\ book.run # 0 /\ file = None => desktop'.cursor = 0 /\ desktop'.status = "blocked"
            /\ book.run # 0 /\ file # None =>
                 /\ desktop'.cursor = saved.cursor /\ desktop'.prepared = saved.prepared
                 /\ desktop'.retained = saved.retained
                 /\ desktop'.status = "blocked" \/ saved.cursor = Len(book.given)
  <2> HIDE DEF saved
  <2>1. CASE book.run = 0 /\ file = None
    <3>1. desktop' = Fresh("human")
      BY <2>1 DEF Recovered
    <3> QED
      BY <1>facts, <1>book, <1>fresh, <2>1, <3>1 DEF Sane
  <2>2. CASE book.run = 0 /\ file # None
    <3>1. desktop' = [file EXCEPT !.status = "waiting", !.armed = FALSE, !.cursor = 0,
                                  !.approved = 0]
      BY <2>2 DEF Recovered
    <3>2. file \in Desktop /\ file.prepared <= book.last
      BY <2>2 DEF WorkflowOk, Saved, Sane
    <3>3. "waiting" \in Statuses /\ 0 \in 0 .. LastStep /\ 0 \in 0 .. Steps
      OBVIOUS
    <3>4. /\ desktop' \in Desktop /\ desktop'.status = "waiting" /\ ~desktop'.armed
          /\ desktop'.cursor = 0 /\ desktop'.approved = 0 /\ desktop'.prepared = file.prepared
      BY <3>1, <3>2, <3>3 DEF Desktop
    <3> QED
      BY <1>facts, <1>book, <2>2, <3>2, <3>4 DEF Sane
  <2>3. CASE book.run # 0 /\ file = None
    <3>1. desktop' = [Fresh("human") EXCEPT !.status = "blocked", !.armed = FALSE]
      BY <2>3 DEF Recovered
    <3>2. "blocked" \in Statuses
      OBVIOUS
    <3>3. /\ desktop' \in Desktop /\ desktop'.status = "blocked" /\ ~desktop'.armed
          /\ desktop'.cursor = 0 /\ desktop'.approved = 0 /\ desktop'.prepared = 0
      BY <1>fresh, <3>1, <3>2 DEF Desktop
    <3> QED
      BY <1>facts, <1>book, <2>3, <3>3 DEF Sane
  <2>4. CASE book.run # 0 /\ file # None
    <3>1. PICK s \in {"blocked", "paused", saved.status} :
            /\ desktop' = [saved EXCEPT !.status = s, !.armed = FALSE, !.approved = 0]
            /\ s = "blocked" \/ saved.cursor = Len(book.given)
            /\ s = saved.status => s = "blocked" \/ saved.status \in Final \cup {"paused"}
      BY <2>4 DEF Recovered, saved
    <3>2. saved \in Desktop /\ s \in Statuses /\ 0 \in 0 .. LastStep
      BY <1>saved, <2>4 DEF Sane, Desktop
    <3>3. /\ desktop' \in Desktop /\ desktop'.status = s /\ ~desktop'.armed
          /\ desktop'.cursor = saved.cursor /\ desktop'.approved = 0
          /\ desktop'.prepared = saved.prepared /\ desktop'.retained = saved.retained
      BY <3>1, <3>2 DEF Desktop
    <3> QED
      BY <1>facts, <1>book, <1>saved, <2>4, <3>1, <3>3 DEF Sane
  <2> QED
    BY <2>1, <2>2, <2>3, <2>4
<1>3. Saved(checkpoint)' /\ Saved(file)'
  BY <1>facts, <1>book, Kept DEF Saved
<1>5. TypeOK'
  <2>1. {hubPaused', monitor', told', late', cut'} \subseteq BOOLEAN
    BY DEF TypeOK
  <2>2. /\ at'.do \in Doings /\ at'.by \in Callers
        /\ listening' \subseteq ready' /\ ready' \subseteq Apps
        /\ told' => book'.live = "claimed"
    BY <1>book DEF TypeOK
  <2>3. /\ edited' \subseteq 1 .. book'.last /\ expired' \in 0 .. book'.last
        /\ troubles' \in 0 .. MaxTroubles /\ granted' \subseteq 1 .. LastStep
    BY <1>book DEF TypeOK
  <2> QED
    BY <1>book, <1>desktop, <1>3, <2>1, <2>2, <2>3 DEF TypeOK, Saved, Sane
<1>6. BookOk'
  BY <1>facts, <1>book DEF BookOk
<1>7. HandlerOk'
  BY <1>book DEF HandlerOk, Ahead, Recorded
<1>8. WorkflowOk'
  BY <1>facts, <1>book, <1>desktop, <1>3 DEF BookOk, WorkflowOk, Between
<1>9. ~cut' => UncutOk'
  <2> HIDE DEF saved
  <2>1. CASE book.run = 0
    BY <1>book, <1>desktop, <2>1 DEF UncutOk
  <2> SUFFICES ASSUME ~cut, book.run # 0, UncutOk
               PROVE  UncutOk'
    BY <2>1
  <2>2. UNCHANGED <<checkpoint, file, edited, told>> /\ at' = Idle
    OBVIOUS
  <2>3. CASE file = None
    BY <1>facts, <1>book, <1>desktop, <2>2, <2>3 DEF UncutOk, WorkflowOk, Recorded,
         Agrees, Proved
  <2>4. CASE file # None
    <3>1. Agrees(saved) => Proved(saved)
      BY <1>facts, <2>4 DEF UncutOk, Agrees, Proved, saved
    <3>2. told => Agrees(saved)
      BY <2>4 DEF UncutOk, WorkflowOk, saved
    <3>3. Agrees(desktop)' <=> Agrees(saved)
      BY <1>book, <1>desktop, <2>4 DEF Agrees
    <3>4. Agrees(desktop)' => Proved(desktop)'
      BY <1>desktop, <2>2, <2>4, <3>1, <3>3 DEF Proved
    <3>5. desktop'.status # "blocked" => Agrees(desktop)'
      BY <1>book, <1>desktop, <2>4, <3>3 DEF Agrees
    <3> QED
      BY <1>book, <2>2, <3>2, <3>3, <3>4, <3>5 DEF UncutOk, Recorded, Agrees, Proved
  <2> QED
    BY <2>3, <2>4
<1> QED
  BY <1>5, <1>6, <1>7, <1>8, <1>9

LEMMA StepKeeps == ASSUME IInv, [Next]_vars PROVE IInv'
<1>1. CASE Controls
  BY <1>1, StartKeeps, ApproveKeeps, PauseKeeps, ResumeKeeps, StopKeeps, ConfirmStoppedKeeps
  DEF Controls
<1>2. CASE Chain
  BY <1>2, StartSetsKeeps, StartRefusedKeeps, HaltKeeps, SaveNoteKeeps, SaveFileKeeps,
     PrepareKeeps, TellKeeps, AcceptKeeps, RejectKeeps
  DEF Chain
<1>3. CASE AppCalls
  BY <1>3, VisitsAreElsewhere, ElsewhereKeeps, FetchClaimsKeeps, SubmitTooLateKeeps,
     SubmitKeeps
  DEF AppCalls
<1>4. ASSUME NEW by \in Callers, Pumps(by) \/ WriteFails(by)
      PROVE  IInv'
  BY <1>4, PumpHoldsKeeps, PumpWaitsKeeps, OpenRunKeeps, CompleteKeeps, ExceedKeeps,
     AwaitAnswerKeeps, AskApprovalKeeps, OfferKeeps, WriteFailsKeeps
  DEF Pumps
<1>5. CASE TimePasses \/ Restart
  BY <1>5, VisitsAreElsewhere, ElsewhereKeeps, RestartKeeps
<1>6. CASE UNCHANGED vars
  BY <1>6 DEF vars, outside, history, IInv, TypeOK, BookOk, HandlerOk, WorkflowOk, UncutOk,
              Ahead, Recorded, Between, Sane, Saved, Agrees, Proved
<1> QED
  BY <1>1, <1>2, <1>3, <1>4, <1>5, <1>6 DEF Next

-----------------------------------------------------------------------------
(* What follows.                                                           *)

THEOREM InvariantHolds == Spec => []IInv
<1>1. Init => IInv
  BY InitKeeps
<1>2. IInv /\ [Next]_vars => IInv'
  BY StepKeeps
<1> QED
  BY <1>1, <1>2, PTL DEF Spec

(* The state has its type, whatever the modes, limits and bounds.          *)
THEOREM TypesKept == Spec => []TypeOK
<1>1. IInv => TypeOK
  BY DEF IInv
<1> QED
  BY <1>1, InvariantHolds, PTL

(* An armed workflow is where the answers of its run say it is.            *)
THEOREM CursorAlwaysAgrees == Spec => []CursorAgrees
<1>1. IInv => CursorAgrees
  <2> SUFFICES ASSUME IInv, at = Idle, desktop.armed, book.run # 0, ~cut
               PROVE  desktop.cursor = Len(book.given)
    BY DEF CursorAgrees
  <2>1. desktop.status \notin Lost /\ ~Between
    BY DEF IInv, WorkflowOk, Sane, Final, Lost, Between, Idle, Do
  <2> QED
    BY <2>1 DEF IInv, UncutOk, Agrees
<1> QED
  BY <1>1, InvariantHolds, PTL

(* The steps of a run are answered in their order, each once.              *)
THEOREM StepsAlwaysInOrder == Spec => []StepsInOrder
<1>1. IInv => StepsInOrder
  <2> SUFFICES ASSUME IInv, ~cut
               PROVE  \A i \in 1 .. Len(book.given) : book.given[i] = i - 1
    BY DEF StepsInOrder
  <2>1. CASE book.run = 0
    BY <2>1, Facts DEF IInv, BookOk
  <2>2. CASE book.run # 0
    BY <2>2 DEF IInv, UncutOk
  <2> QED
    BY <2>1, <2>2
<1> QED
  BY <1>1, InvariantHolds, PTL

(* Completed means that every step was answered and the change verified.   *)
THEOREM CompletedAlwaysVerified == Spec => []CompletedMeansVerified
<1>1. IInv => CompletedMeansVerified
  <2> SUFFICES ASSUME IInv, desktop.status = "completed", book.run # 0, ~cut
               PROVE  /\ desktop.retained
                      /\ desktop.prepared \in edited
                      /\ Len(book.given) = Steps
    BY DEF CompletedMeansVerified
  <2>1. desktop.cursor = Steps /\ Agrees(desktop) /\ Proved(desktop)
    BY DEF IInv, UncutOk, WorkflowOk, Sane
  <2>2. desktop.prepared \in edited /\ Len(book.given) = Steps
    <3>1. desktop.cursor = 4
      BY <2>1 DEF Steps
    <3>2. desktop.cursor >= 2
      BY <3>1
    <3> QED
      BY <2>1, <3>2 DEF Agrees, Proved
  <2>3. desktop.retained
    BY <2>1 DEF Proved
  <2> QED
    BY <2>2, <2>3
<1> QED
  BY <1>1, InvariantHolds, PTL

(* No handoff without an approval of the operator that is still unused.    *)
THEOREM HandoffsAlwaysApproved == Spec => HandoffsApproved
<1>1. IInv /\ [Next]_vars => [Offered /\ NeedsApproval(book'.step) => book'.step \in granted]_vars
  <2> SUFFICES ASSUME IInv, Next, Offered, NeedsApproval(book'.step)
               PROVE  book'.step \in granted
    OBVIOUS
  <2>1. PICK by \in Callers : Offer(by)
    <3>0. book \in Book
      BY Facts
    <3>1. ~Controls
      BY <3>0 DEF Controls, Start, Approve, Pause, Resume, Stop, ConfirmStopped, Control,
           CommitEnd,
                  EmptyBook, Offered, Book
    <3>2. ~Chain
      BY <3>0 DEF Chain, StartSets, StartRefused, Halt, SaveNote, SaveFile, Prepare, Tell,
           Accept,
                  Reject, AfterTurn, Recalled, Offered, Book
    <3>3. ~AppCalls
      BY <3>0 DEF AppCalls, App, Joins, Leaves, Listens, HangsUp, FetchEnds, FetchClaims,
                  SubmitTooLate, Submit, CommitClaim, CommitAnswer, Offered, Book
    <3>4. ~TimePasses /\ ~Restart
      BY <3>0 DEF TimePasses, Restart, Offered, Book
    <3>5. \A b \in Callers : ~WriteFails(b) /\ (Pumps(b) => Offer(b))
      BY <3>0 DEF WriteFails, Pumps, PumpHolds, PumpWaits, OpenRun, Complete, Exceed,
           AwaitAnswer,
                  AskApproval, Pump, PumpSteps, CommitOpen, EmptyBook, Offered, Book
    <3> QED
      BY <3>1, <3>2, <3>3, <3>4, <3>5 DEF Next
  <2>2. book'.step = desktop.cursor /\ Approved
    BY <2>1, Facts DEF Offer, CommitOffer, Book
  <2>3. desktop.approved # 0 /\ desktop.approved = desktop.cursor
    BY <2>2, <2>1, Facts DEF Approved, NeedsApproval, Offer, PumpSteps
  <2> QED
    BY <2>2, <2>3 DEF IInv, WorkflowOk
<1> QED
  BY <1>1, InvariantHolds, PTL DEF Spec, HandoffsApproved

(* A workflow that was over, and was saved as such, stays so.              *)
THEOREM FinalAlwaysKept == Spec => FinalIsKept
<1>1. IInv /\ [Next]_vars =>
        [desktop.status \in Final /\ checkpoint = desktop /\ book.run # 0 /\ at = Idle =>
           desktop'.status \in Final /\ ~Offered]_vars
  <2> SUFFICES ASSUME IInv, Next, desktop.status \in Final, checkpoint = desktop,
                      book.run # 0, at = Idle
               PROVE  desktop'.status \in Final /\ ~Offered
    OBVIOUS
  <2>0. desktop \in Desktop /\ desktop # None /\ book \in Book
    BY Facts
  <2>1. at.do = "idle" /\ Held /\ desktop.status \notin {"running", "waiting", "approval", "paused"}
    BY DEF Idle, Do, Held, Final
  <2>2. CASE Controls
    <3>1. desktop' = desktop /\ book'.live \in {"none", book.live}
      BY <2>0, <2>1, <2>2 DEF Controls, Start, Approve, Pause, Resume, Stop, ConfirmStopped,
           Control, CommitEnd, EmptyBook, Book
    <3> QED
      BY <3>1 DEF Offered
  <2>3. ~Chain
    BY <2>1 DEF Chain, StartSets, StartRefused, Halt, SaveNote, SaveFile, Prepare, Tell,
         Accept,
         Reject, AfterTurn
  <2>4. CASE AppCalls
    <3>1. desktop' = desktop /\ book'.live \in {"none", book.live}
      BY <2>0, <2>1, <2>4 DEF AppCalls, App, Joins, Leaves, Listens, HangsUp, FetchEnds,
           FetchClaims, MayClaim, SubmitTooLate, Submit, CommitAnswer, Book
    <3> QED
      BY <3>1 DEF Offered
  <2>5. ASSUME NEW by \in Callers, Pumps(by) \/ WriteFails(by)
        PROVE  desktop' = desktop /\ book' = book
    BY <2>1, <2>5 DEF Pumps, PumpHolds, PumpWaits, OpenRun, Complete, Exceed, AwaitAnswer,
         AskApproval, Offer, PumpSteps, GoesOn, WriteFails
  <2>6. CASE Restart
    <3>1. file = None => desktop' = [Fresh("human") EXCEPT !.status = "blocked", !.armed = FALSE]
      BY <2>0, <2>6 DEF Restart, Recovered
    <3>2. file # None => \E s \in {"blocked", desktop.status} :
            desktop' = [desktop EXCEPT !.status = s, !.armed = FALSE, !.approved = 0]
      BY <2>0, <2>6 DEF Restart, Recovered
    <3>3. desktop'.status \in Final
      BY <2>0, <3>1, <3>2 DEF Fresh, Final, Desktop
    <3>4. book'.live = book.live
      BY <2>0, <2>6 DEF Restart, Book
    <3> QED
      BY <3>3, <3>4 DEF Offered
  <2>7. CASE TimePasses
    BY <2>7 DEF TimePasses, Offered
  <2> QED
    BY <2>2, <2>3, <2>4, <2>5, <2>6, <2>7 DEF Next, Offered
<1> QED
  BY <1>1, InvariantHolds, PTL DEF Spec, FinalIsKept

-----------------------------------------------------------------------------
(* The workflow uses the hub as the baton allows.  Only the book counts,   *)
(* and not its pause.                                                      *)

SameBook ==
  /\ book'.run = book.run /\ book'.last = book.last /\ book'.live = book.live
  /\ book'.step = book.step /\ book'.given = book.given /\ book'.stopping = book.stopping

LEMMA SameBookStutters == ASSUME SameBook PROVE UNCHANGED B!vars
  BY DEF SameBook, B!vars

LEMMA InitIsBaton == Init => B!Init
  BY DEF Init, EmptyBook, B!Init, B!NoAnswers, Steps

LEMMA StepIsBaton == ASSUME IInv, [Next]_vars PROVE [B!Next]_(B!vars)
<1> USE DesktopAssumption
<1>facts. book \in Book /\ book.run \in Nat /\ book.last \in Nat /\ Len(book.given) \in Nat
  BY Facts
<1>mid. \A k \in 0 .. LastStep : Worker(k) \in Apps
  BY DEF Worker, Apps
<1>1. CASE UNCHANGED book
  BY <1>1, SameBookStutters DEF SameBook
<1>2. CASE Start
  <2>1. CASE book.run = 0
    BY <1>1, <1>2, <2>1 DEF Start
  <2>2. CASE book.run # 0
    <3>1. /\ book'.run = 0 /\ book'.last = book.last /\ book'.live = "none"
          /\ book'.given = <<>> /\ ~book'.stopping /\ book.live = "none" /\ ~book.stopping
      BY <1>facts, <1>2, <2>2 DEF Start, CommitEnd, EmptyBook, Book
    <3>2. B!Close
      BY <2>2, <3>1 DEF B!Close, B!NoAnswers, Steps
    <3> QED
      BY <3>2 DEF B!Next
  <2> QED
    BY <2>1, <2>2
<1>3. CASE Resume \/ Restart
  <2>1. SameBook
    BY <1>facts, <1>3 DEF Resume, Restart, SameBook, Book
  <2> QED
    BY <2>1, SameBookStutters
<1>4. CASE ConfirmStopped
  <2>1. /\ book'.run = book.run /\ book'.last = book.last /\ book'.live = "none"
        /\ book'.given = book.given /\ ~book'.stopping /\ book.live = "none" /\ book.stopping
    BY <1>facts, <1>4 DEF ConfirmStopped, Book, IInv, BookOk
  <2>2. B!ConfirmStopped
    BY <2>1 DEF B!ConfirmStopped
  <2> QED
    BY <2>2 DEF B!Next
<1>5. CASE Halt
  <2>1. CASE book.live = "none"
    BY <1>1, <1>5, <2>1 DEF Halt, Recalled
  <2>2. CASE book.live = "offered"
    <3>1. /\ book'.run = book.run /\ book'.last = book.last /\ book'.live = "none"
          /\ book'.given = book.given /\ ~book'.stopping /\ ~book.stopping
      BY <1>facts, <1>5, <2>2 DEF Halt, Recalled, Book, IInv, BookOk
    <3>2. B!Withdraw
      BY <2>2, <3>1 DEF B!Withdraw
    <3> QED
      BY <3>2 DEF B!Next
  <2>3. CASE book.live = "claimed"
    <3>1. /\ book'.run = book.run /\ book'.last = book.last /\ book'.live = "none"
          /\ book'.given = book.given /\ book'.stopping /\ ~book.stopping
          /\ book'.step = book.step
      BY <1>facts, <1>5, <2>3 DEF Halt, Recalled, Book, IInv, BookOk
    <3>2. B!Interrupt
      BY <2>3, <3>1 DEF B!Interrupt
    <3> QED
      BY <3>2 DEF B!Next
  <2> QED
    BY <1>facts, <2>1, <2>2, <2>3 DEF Book
<1>6. ASSUME NEW by \in Callers, OpenRun(by)
      PROVE  B!Next
  <2>1. /\ book'.run = book.last + 1 /\ book'.last = book.last + 1 /\ book'.live = "none"
        /\ book'.given = <<>> /\ ~book'.stopping
    BY <1>facts, <1>6 DEF OpenRun, CommitOpen, EmptyBook
  <2>2. book.run = 0 /\ book.live = "none" /\ ~book.stopping /\ book.given = <<>>
    BY <1>6 DEF OpenRun, IInv, BookOk
  <2>3. B!Open
    BY <1>facts, <2>1, <2>2 DEF B!Open, B!NoAnswers, Steps
  <2> QED
    BY <2>3 DEF B!Next
<1>7. ASSUME NEW by \in Callers, Offer(by)
      PROVE  B!Next
  <2>1. /\ book'.run = book.run /\ book'.last = book.last /\ book'.live = "offered"
        /\ book'.given = book.given /\ ~book'.stopping /\ ~book.stopping
        /\ book.live = "none" /\ book'.step = desktop.cursor
    BY <1>facts, <1>7 DEF Offer, CommitOffer, Book
  <2>2. book.run # 0 /\ desktop.cursor \in 0 .. LastStep
    BY <1>7, Facts DEF Offer, PumpSteps, GoesOn, MayHandOff, IInv, HandlerOk, Ahead,
         Steps, LastStep
  <2>3. B!Offer
    BY <1>mid, <2>1, <2>2 DEF B!Offer
  <2> QED
    BY <2>3 DEF B!Next
<1>8. ASSUME NEW c \in Apps, FetchClaims(c)
      PROVE  B!Next
  <2>1. /\ book'.run = book.run /\ book'.last = book.last /\ book'.live = "claimed"
        /\ book'.given = book.given /\ ~book'.stopping /\ ~book.stopping
        /\ book.live = "offered" /\ book'.step = book.step
    BY <1>facts, <1>8 DEF FetchClaims, MayClaim, CommitClaim, Book, IInv, BookOk
  <2>2. B!Take
    BY <2>1 DEF B!Take
  <2> QED
    BY <2>2 DEF B!Next
<1>9. ASSUME NEW status \in {"done", "blocked"}, Submit(status)
      PROVE  B!Next
  <2> DEFINE k == Len(book.given) + 1
  <2>1. book.live = "claimed" /\ ~book.stopping /\ book.step \in 0 .. LastStep
    BY <1>facts, <1>9 DEF Submit, IInv, TypeOK, BookOk, Book
  <2>2. /\ book'.run = book.run /\ book'.last = book.last /\ book'.live = "none"
        /\ book'.given = Append(book.given, book.step) /\ ~book'.stopping
    BY <1>facts, <1>9, <2>1 DEF Submit, CommitAnswer, Book
  <2>3. k \in 1 .. Steps
    BY <1>facts, <2>1 DEF IInv, BookOk, Steps
  <2>4. /\ Len(book'.given) = k /\ book'.given[k] = book.step
        /\ \A j \in 1 .. Len(book.given) : book'.given[j] = book.given[j]
    BY <1>facts, <2>1, <2>2 DEF Book
  <2>5. Len(book.given) = k - 1 /\ k \in Nat
    BY <1>facts
  <2> HIDE DEF k
  <2> DEFINE A(g) == [j \in 1 .. Steps |-> IF j <= Len(g) THEN g[j] ELSE None]
  <2>6. A(book'.given) = [A(book.given) EXCEPT ![k] = book.step]
    <3>1. \A j \in 1 .. Steps :
            A(book'.given)[j] = IF j = k THEN book.step ELSE A(book.given)[j]
      BY <2>3, <2>4, <2>5
    <3> QED
      BY <3>1
  <2>7. A(book.given)[k] = None
    BY <2>3, <2>5
  <2>8. B!Answer(k, book.step)
    BY <2>1, <2>2, <2>6, <2>7 DEF B!Answer
  <2> QED
    BY <2>1, <2>3, <2>8 DEF B!Next, B!Answer
<1>10. CASE Next
  <2>1. CASE Controls
    BY <1>1, <1>2, <1>3, <1>4, <2>1 DEF Controls, Approve, Pause, Stop
  <2>2. CASE Chain
    BY <1>1, <1>5, <2>2 DEF Chain, StartSets, StartRefused, SaveNote, SaveFile, Prepare,
         Tell,
         Accept, Reject, AfterTurn
  <2>3. CASE AppCalls
    BY <1>1, <1>8, <1>9, <2>3 DEF AppCalls, Joins, Leaves, Listens, HangsUp, FetchEnds,
         SubmitTooLate
  <2>4. ASSUME NEW by \in Callers, Pumps(by) \/ WriteFails(by)
        PROVE  UNCHANGED book \/ OpenRun(by) \/ Offer(by)
    BY <2>4 DEF Pumps, PumpHolds, PumpWaits, Complete, Exceed, AwaitAnswer, AskApproval,
         WriteFails
  <2>5. CASE TimePasses \/ Restart
    BY <1>1, <1>3, <2>5 DEF TimePasses
  <2> QED
    BY <1>1, <1>6, <1>7, <1>10, <2>1, <2>2, <2>3, <2>4, <2>5 DEF Next
<1>11. CASE UNCHANGED vars
  BY <1>1, <1>11 DEF vars
<1> QED
  BY <1>10, <1>11

(* Every behaviour of the workflow is one of the baton.                    *)
THEOREM AlwaysUsesBaton == Spec => UsesBaton
<1>1. Init => B!Init
  BY InitIsBaton
<1>2. IInv /\ [Next]_vars => [B!Next]_(B!vars)
  BY StepIsBaton
<1> QED
  BY <1>1, <1>2, InvariantHolds, PTL DEF Spec, UsesBaton, B!Spec

=============================================================================
