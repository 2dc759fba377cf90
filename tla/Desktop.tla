------------------------------- MODULE Desktop -------------------------------
(***************************************************************************)
(* The desktop hub (middleware/desktop/server.py): one workflow of four    *)
(* steps that drives the turn book by itself.  Every handler runs under    *)
(* the scheduler lock and does not yield while it holds it, so nothing     *)
(* interleaves with it but the end of the process, and its writes may      *)
(* fail.  A handler is therefore a chain of actions, one for each write    *)
(* to a file, and at says which comes next.                                *)
(*                                                                         *)
(* The turn book is what Baton says of it: the live turn, the answers of   *)
(* the open run, the stop still to be confirmed, the pause.  checkpoint_   *)
(* rounds is 1, its default; coordinator operations are limited as model   *)
(* turns are, and are left out.                                            *)
(***************************************************************************)
EXTENDS Integers, Sequences, FiniteSets

CONSTANTS
  Builder, Reviewer,  (* the two apps                                      *)
  None,
  Modes,              (* operating modes: human, supervised or auto        *)
  TurnLimit,          (* limits.max_model_turns                            *)
  MaxRuns,            (* bound: runs opened                                *)
  MaxTroubles         (* bound: failed writes, crashes, departures and     *)
                      (* time limits reached                               *)

ASSUME DesktopAssumption ==
  /\ Builder # Reviewer
  /\ Modes \subseteq {"human", "supervised", "auto"} /\ "human" \in Modes
  /\ {TurnLimit, MaxRuns, MaxTroubles} \subseteq Nat
  /\ TurnLimit >= 4

VARIABLES
  desktop,     (* DesktopHub.desktop                                       *)
  book,        (* the turn book                                            *)
  checkpoint,  (* the latest run_note of the open run                      *)
  file,        (* desktop-state.json                                       *)
  edited,      (* the runs whose candidate holds the change                *)
  hubPaused,   (* Hub.paused                                               *)
  monitor,     (* the task _monitor still runs                             *)
  at,          (* what the handler at work does next                       *)
  ready,       (* apps registered, present and activated                   *)
  listening,   (* apps inside get_turn                                     *)
  told,        (* the app of the claimed turn knows its nonce              *)
  late,        (* an app knows the nonce of a turn the book has not kept   *)
  expired,     (* runs 1 to expired are over their time limit              *)
  troubles,    (* failed writes, crashes, departures, limits reached       *)
  granted,     (* history: approvals of the operator not yet used          *)
  cut          (* history: a refused start has ended a run                 *)

outside == <<ready, listening, told, late, expired>>
history == <<granted, cut>>
vars == <<desktop, book, checkpoint, file, edited, hubPaused, monitor, at,
          outside, troubles, history>>

Apps     == {Builder, Reviewer}
Steps    == 4
LastStep == Steps - 1
Worker(k) == IF k % 2 = 0 THEN Builder ELSE Reviewer

Final    == {"completed", "blocked", "stopped"}
Statuses == Final \cup {"waiting", "running", "approval", "paused"}

(* started and prepared are runs, 0 for none; approved is a cursor, 0 for  *)
(* none, as the first step needs no approval.                              *)
Desktop ==
  [status : Statuses, armed : BOOLEAN, mode : Modes, cursor : 0 .. Steps,
   approved : 0 .. LastStep, turns : Nat, started : Nat, prepared : Nat,
   retained : BOOLEAN]

Book ==
  [run : Nat, last : Nat, live : {"none", "offered", "claimed"},
   step : 0 .. LastStep, given : Seq(0 .. LastStep), stopping : BOOLEAN,
   paused : BOOLEAN]

Fresh(mode) ==
  [status |-> "waiting", armed |-> TRUE, mode |-> mode, cursor |-> 0,
   approved |-> 0, turns |-> 0, started |-> 0, prepared |-> 0,
   retained |-> FALSE]

EmptyBook ==
  [run |-> 0, last |-> 0, live |-> "none", step |-> 0,
   given |-> <<>>, stopping |-> FALSE, paused |-> FALSE]

(* What the handler does next, and what becomes of an exception: it ends   *)
(* the call of the panel or of an app ("call", or the app inside           *)
(* get_turn), halts the workflow ("checkpoint", "monitor"), or ends the    *)
(* monitor itself ("halting").  then is what follows a save.               *)
Do(do, by, then) == [do |-> do, by |-> by, then |-> then]
Idle == Do("idle", "call", "end")

Doings == {"idle", "start", "stop", "block", "note", "file", "pump", "steps",
           "prepare", "tell", "after"}
Others  == {"call", "checkpoint", "monitor", "halting"}
Callers == Apps \cup Others

ASSUME NamesAssumption ==
  /\ None \notin Desktop \cup Apps
  /\ Apps \cap Others = {}

Init ==
  /\ desktop = Fresh("human")
  /\ book = EmptyBook
  /\ checkpoint = None
  /\ file = None
  /\ edited = {}
  /\ hubPaused = FALSE
  /\ monitor = TRUE
  /\ at = Idle
  /\ ready = {}
  /\ listening = {}
  /\ told = FALSE
  /\ late = FALSE
  /\ expired = 0
  /\ troubles = 0
  /\ granted = {}
  /\ cut = FALSE

-----------------------------------------------------------------------------
(* The turn book, as far as the workflow sees it.                          *)

CommitOpen ==
  book' = [EmptyBook EXCEPT !.run = book.last + 1, !.last = book.last + 1]

CommitEnd ==
  book' = [EmptyBook EXCEPT !.last = book.last]

CommitOffer(k) ==
  /\ book.live = "none" /\ ~book.stopping /\ ~book.paused
  /\ book' = [book EXCEPT !.live = "offered", !.step = k]

CommitClaim == book' = [book EXCEPT !.live = "claimed"]

CommitAnswer(status) ==
  book' = [book EXCEPT !.live = "none", !.given = Append(@, book.step),
                       !.paused = @ \/ status = "blocked"]

Recalled ==
  IF book.live = "none"
  THEN book
  ELSE [book EXCEPT !.live = "none", !.stopping = book.live = "claimed"]

-----------------------------------------------------------------------------
(* The chain of a handler.                                                 *)

Then(do, by) ==
  IF do = "end"
  THEN Idle
  ELSE Do(do, IF by = "checkpoint" THEN "call" ELSE by, "end")

Save(by, then) == at' = Do("note", by, then)

Raises(by) ==
  /\ at' = CASE by = "monitor" -> Do("block", "halting", "end")
             [] by = "checkpoint" -> Do("block", "call", "end")
             [] OTHER -> Idle
  /\ monitor' = (monitor /\ by # "halting")
  /\ listening' = listening \ {by}

(* DesktopHub.save: the record of the open run, then the file.             *)
SaveNote ==
  /\ at.do = "note"
  /\ checkpoint' = IF book.run = 0 THEN checkpoint ELSE desktop
  /\ at' = [at EXCEPT !.do = "file"]
  /\ UNCHANGED <<desktop, book, file, edited, hubPaused, monitor, outside,
                 troubles, history>>

SaveFile ==
  /\ at.do = "file"
  /\ file' = desktop
  /\ at' = Then(at.then, at.by)
  /\ UNCHANGED <<desktop, book, checkpoint, edited, hubPaused, monitor,
                 outside, troubles, history>>

(* DesktopHub.halt, up to its save.                                        *)
Halt ==
  /\ at.do \in {"stop", "block"}
  /\ book' = Recalled
  /\ told' = FALSE
  /\ late' = (late \/ told)
  /\ desktop' = [desktop EXCEPT
       !.status = IF at.do = "stop" THEN "stopped" ELSE "blocked",
       !.armed = FALSE, !.approved = 0]
  /\ Save(at.by, "end")
  /\ UNCHANGED <<checkpoint, file, edited, hubPaused, monitor, ready, listening,
                 expired, troubles, history>>

-----------------------------------------------------------------------------
(* The controls of the panel (DesktopHub.control).                         *)

Control ==
  /\ at = Idle
  /\ UNCHANGED <<checkpoint, file, edited, monitor, ready, listening, told,
                 expired, troubles>>

(* Mutant of start: a turn still at work does not hold it.                 *)
StartAnyway ==
  /\ Control
  /\ book.last < MaxRuns
  /\ IF book.run = 0 THEN UNCHANGED book ELSE CommitEnd
  /\ at' = Do("start", "call", IF book.run = 0 THEN "end" ELSE "ended")
  /\ late' = (late \/ book.given # <<>>)
  /\ UNCHANGED <<desktop, hubPaused, history>>

(* The open run is ended before the rest of the request is looked at.      *)
Start ==
  /\ Control
  /\ book.last < MaxRuns
  /\ book.live = "none" /\ ~book.stopping
  /\ IF book.run = 0 THEN UNCHANGED book ELSE CommitEnd
  /\ at' = Do("start", "call", IF book.run = 0 THEN "end" ELSE "ended")
  /\ late' = (late \/ book.given # <<>>)
  /\ UNCHANGED <<desktop, hubPaused, history>>

(* started_at stays what it was.                                           *)
StartSets ==
  /\ at.do = "start"
  /\ \E mode \in Modes :
       desktop' = [Fresh(mode) EXCEPT !.started = desktop.started]
  /\ hubPaused' = FALSE
  /\ Save("call", "pump")
  /\ granted' = {}
  /\ cut' = FALSE
  /\ UNCHANGED <<book, checkpoint, file, edited, monitor, outside, troubles>>

(* A mode, task or limit that is not accepted.                             *)
StartRefused ==
  /\ at.do = "start"
  /\ at' = Idle
  /\ cut' = (cut \/ at.then = "ended")
  /\ UNCHANGED <<desktop, book, checkpoint, file, edited, hubPaused, monitor,
                 outside, troubles, granted>>

Approve ==
  /\ Control
  /\ desktop.status = "approval"
  /\ desktop' = [desktop EXCEPT !.approved = desktop.cursor, !.status = "running"]
  /\ granted' = granted \cup {desktop.cursor}
  /\ Save("call", "pump")
  /\ UNCHANGED <<book, hubPaused, cut, late>>

Pause ==
  /\ Control
  /\ desktop.status \in {"running", "waiting", "approval"}
  /\ desktop' = [desktop EXCEPT !.status = "paused", !.approved = 0]
  /\ hubPaused' = TRUE
  /\ Save("call", "pump")
  /\ UNCHANGED <<book, history, late>>

Resume ==
  /\ Control
  /\ desktop.status = "paused"
  /\ book.live # "claimed" /\ ~book.stopping
  /\ book' = [book EXCEPT !.paused = FALSE]
  /\ hubPaused' = FALSE
  /\ desktop' = [desktop EXCEPT
       !.status = IF book.run = 0 THEN "waiting" ELSE "running",
       !.armed = TRUE, !.approved = 0]
  /\ Save("call", "pump")
  /\ UNCHANGED <<history, late>>

Stop ==
  /\ Control
  /\ at' = Do("stop", "call", "end")
  /\ UNCHANGED <<desktop, book, hubPaused, history, late>>

ConfirmStopped ==
  /\ Control
  /\ book.stopping
  /\ book' = [book EXCEPT !.stopping = FALSE]
  /\ Save("call", "pump")
  /\ UNCHANGED <<desktop, hubPaused, history, late>>

-----------------------------------------------------------------------------
(* The scheduler (pump_locked).                                            *)

Over == desktop.started \in 1 .. expired

(* Mutant of exceeded: a turn in progress may end before anything is       *)
(* looked at.                                                              *)
ExceededBetweenTurns == book.live = "none" /\ (Over \/ desktop.turns >= TurnLimit)

(* DesktopHub.exceeded.                                                    *)
Exceeded == Over \/ (book.live = "none" /\ desktop.turns >= TurnLimit)

Held == ~desktop.armed \/ desktop.status \in Final \cup {"paused"}

(* Both apps are there, and in get_turn if no run is open.                 *)
QuorumOk == ready = Apps /\ ~hubPaused
Attended == QuorumOk /\ (book.run = 0 => listening = Apps)

NeedsApproval(k) ==
  k > 0 /\ (desktop.mode = "human" \/ (desktop.mode = "supervised" /\ k % 2 = 0))

(* The monitor comes by once a second, an app in get_turn once a second or *)
(* when something changed; a control or an answer ends with a pump.        *)
Pumping(by) ==
  \/ at = Idle /\ by \in listening
  \/ at = Idle /\ by = "monitor" /\ monitor
  \/ at.do = "pump" /\ at.by = by

Pump(by) ==
  /\ Pumping(by)
  /\ UNCHANGED <<file, edited, hubPaused, monitor, outside, troubles, history>>

PumpHolds(by) ==
  /\ Pump(by)
  /\ Held
  /\ at' = Then("end", by)
  /\ UNCHANGED <<desktop, book, checkpoint>>

PumpWaits(by) ==
  /\ Pump(by)
  /\ ~Held /\ ~Attended
  /\ desktop' = [desktop EXCEPT !.status = "waiting"]
  /\ at' = Then("end", by)
  /\ UNCHANGED <<book, checkpoint>>

(* The new run has no run_note yet.                                        *)
OpenRun(by) ==
  /\ Pump(by)
  /\ ~Held /\ Attended /\ book.run = 0
  /\ CommitOpen
  /\ desktop' = [desktop EXCEPT !.started = book'.run]
  /\ checkpoint' = None
  /\ at' = Do("prepare", by, "end")

(* profile.prepare copies the baseline, or raises if it changed.           *)
Prepare ==
  /\ at.do = "prepare"
  /\ \/ /\ desktop' = [desktop EXCEPT !.status = "running",
                         !.prepared = book.run, !.retained = FALSE]
        /\ Save(at.by, "steps")
     \/ /\ UNCHANGED desktop
        /\ at' = [at EXCEPT !.do = "block"]
  /\ UNCHANGED <<book, checkpoint, file, edited, hubPaused, monitor, outside,
                 troubles, history>>

(* The rest of pump_locked, once a run is open.                            *)
GoesOn(by) ==
  \/ Pumping(by) /\ ~Held /\ Attended /\ book.run # 0
  \/ at.do = "steps" /\ at.by = by

PumpSteps(by) ==
  /\ GoesOn(by)
  /\ UNCHANGED <<checkpoint, file, edited, hubPaused, monitor, outside,
                 troubles, cut>>

Complete(by) ==
  /\ PumpSteps(by)
  /\ desktop.cursor >= Steps
  /\ desktop' = [desktop EXCEPT !.status = "completed", !.armed = FALSE]
  /\ Save(by, "end")
  /\ UNCHANGED <<book, granted>>

Exceed(by) ==
  /\ PumpSteps(by)
  /\ desktop.cursor < Steps /\ Exceeded
  /\ at' = Do("block", by, "end")
  /\ UNCHANGED <<desktop, book, granted>>

AwaitAnswer(by) ==
  /\ PumpSteps(by)
  /\ desktop.cursor < Steps /\ ~Exceeded /\ book.live # "none"
  /\ at' = Then("end", by)
  /\ UNCHANGED <<desktop, book, granted>>

MayHandOff == desktop.cursor < Steps /\ ~Exceeded /\ book.live = "none"

(* Mutant of the approval: one is enough while the workflow runs.          *)
ApprovedWhileRunning ==
  NeedsApproval(desktop.cursor) =>
    desktop.status = "running" \/ desktop.approved = desktop.cursor

Approved ==
  NeedsApproval(desktop.cursor) => desktop.approved = desktop.cursor

AskApproval(by) ==
  /\ PumpSteps(by)
  /\ MayHandOff /\ ~Approved
  /\ desktop' = [desktop EXCEPT !.status = "approval"]
  /\ Save(by, "end")
  /\ UNCHANGED <<book, granted>>

Offer(by) ==
  /\ PumpSteps(by)
  /\ MayHandOff /\ Approved
  /\ CommitOffer(desktop.cursor)
  /\ desktop' = [desktop EXCEPT !.status = "running", !.approved = 0]
  /\ granted' = granted \ {desktop.cursor}
  /\ Save(by, "end")

-----------------------------------------------------------------------------
(* The tools of the apps.                                                  *)

Trouble == troubles < MaxTroubles /\ troubles' = troubles + 1

App ==
  /\ at = Idle
  /\ UNCHANGED <<checkpoint, file, edited, hubPaused, monitor, expired,
                 troubles, history>>

(* register; and silence, or the end of the activation.                    *)
Joins(c) ==
  /\ App
  /\ c \notin ready
  /\ ready' = ready \cup {c}
  /\ UNCHANGED <<desktop, book, at, listening, told, late>>

Leaves(c) ==
  /\ at = Idle
  /\ Trouble
  /\ c \in ready \ listening
  /\ ready' = ready \ {c}
  /\ UNCHANGED <<desktop, book, checkpoint, file, edited, hubPaused, monitor,
                 at, listening, told, late, expired, history>>

(* get_turn begins, and gives up at its deadline.                          *)
Listens(c) ==
  /\ App
  /\ c \in ready \ listening
  /\ listening' = listening \cup {c}
  /\ UNCHANGED <<desktop, book, at, ready, told, late>>

HangsUp(c) ==
  /\ App
  /\ c \in listening
  /\ listening' = listening \ {c}
  /\ UNCHANGED <<desktop, book, at, ready, told, late>>

(* get_turn pumps, and then looks for the end of the workflow or a turn.   *)
(* Where it finds either the pump before it changes nothing, so the two    *)
(* need not be tied together.                                              *)
(*                                                                         *)
(* The app is told that the workflow is over and is no longer active.      *)
FetchEnds(c) ==
  /\ App
  /\ c \in listening
  /\ desktop.status \in Final
  /\ ready' = ready \ {c}
  /\ listening' = listening \ {c}
  /\ UNCHANGED <<desktop, book, at, told, late>>

MayClaim(c) ==
  /\ desktop.status = "running" /\ ~hubPaused /\ ~Exceeded
  /\ QuorumOk /\ book.run # 0 /\ ~book.paused
  /\ book.live = "offered" /\ Worker(book.step) = c

FetchClaims(c) ==
  /\ App
  /\ c \in listening
  /\ MayClaim(c)
  /\ CommitClaim
  /\ desktop' = [desktop EXCEPT !.turns = @ + 1]
  /\ Save(c, "tell")
  /\ UNCHANGED <<ready, listening, told, late>>

(* get_turn returns the claim with its nonce.                              *)
Tell ==
  /\ at.do = "tell"
  /\ told' = TRUE
  /\ listening' = listening \ {at.by}
  /\ at' = Idle
  /\ UNCHANGED <<desktop, book, checkpoint, file, edited, hubPaused, monitor,
                 ready, late, expired, troubles, history>>

(* submit_turn, over the time limit, of a turn that is not submitted as    *)
(* far as the book knows: the workflow halts first, and the result is      *)
(* refused.                                                                *)
SubmitTooLate ==
  /\ App
  /\ told \/ late
  /\ Over
  /\ at' = Do("block", "call", "end")
  /\ UNCHANGED <<desktop, book, ready, listening, told, late>>

(* Any other result of a turn that is no longer live is refused or, if it  *)
(* was submitted, repeated, and changes nothing.                           *)
Submit(status) ==
  /\ App
  /\ told /\ ~Over
  /\ CommitAnswer(status)
  /\ told' = FALSE
  /\ at' = Do(IF status = "done" THEN "after" ELSE "block", "call", "end")
  /\ UNCHANGED <<desktop, ready, listening, late>>

(* profile.after_turn: the reviewer's first approval changes the           *)
(* candidate, the second retains it if it is the one that was changed.     *)
Change == IF desktop.cursor = 1 THEN {desktop.prepared} \ {0} ELSE {}

(* Mutant of after_turn: it does not ask for the candidate of the run.     *)
VerifiedAnyhow == TRUE

Verified ==
  /\ desktop.cursor = 1 => desktop.prepared \notin edited \cup {0}
  /\ desktop.cursor = LastStep => desktop.prepared \in edited

AfterTurn ==
  /\ at.do = "after"
  /\ UNCHANGED <<book, checkpoint, file, hubPaused, monitor, outside, troubles,
                 history>>

Accept ==
  /\ AfterTurn
  /\ Verified
  /\ edited' = edited \cup Change
  /\ desktop' = [desktop EXCEPT !.cursor = @ + 1, !.retained = @ \/ desktop.cursor = LastStep]
  /\ Save("checkpoint", "pump")

(* Mutant of the exception handler: it lets the workflow go on.            *)
RejectGoesOn ==
  /\ AfterTurn
  /\ desktop.cursor % 2 = 1
  /\ edited' \in {edited, edited \cup Change}
  /\ UNCHANGED desktop
  /\ at' = Do("pump", "call", "end")

(* The reviewer objects, or a check fails before or after the change.      *)
Reject ==
  /\ AfterTurn
  /\ desktop.cursor % 2 = 1
  /\ edited' \in {edited, edited \cup Change}
  /\ UNCHANGED desktop
  /\ at' = Do("block", "call", "end")

-----------------------------------------------------------------------------
(* Time, failed writes and the end of the process.                         *)

TimePasses ==
  /\ at = Idle
  /\ Trouble
  /\ expired < book.last
  /\ expired' = expired + 1
  /\ UNCHANGED <<desktop, book, checkpoint, file, edited, hubPaused, monitor,
                 at, ready, listening, told, late, history>>

Writing(by) ==
  \/ Pumping(by) /\ ~Held /\ Attended /\ book.run = 0
  \/ GoesOn(by) /\ MayHandOff /\ Approved
  \/ /\ at.by = by
     /\ \/ at.do \in {"note", "file"}
        \/ at.do \in {"stop", "block"} /\ book.live # "none"
  \/ at = Idle /\ by \in listening /\ MayClaim(by)

WriteFails(by) ==
  /\ Trouble
  /\ Writing(by)
  /\ Raises(by)
  /\ UNCHANGED <<desktop, book, checkpoint, file, edited, hubPaused, ready,
                 told, late, expired, history>>

(* Mutants of the recovery: answers are not counted; the workflow is       *)
(* always held as paused.                                                  *)
RecoveredUncounted ==
  LET saved == IF checkpoint = None THEN file ELSE checkpoint
  IN IF file = None
     THEN Fresh("human")
     ELSE [saved EXCEPT
            !.status = IF @ \in Final THEN @ ELSE "paused",
            !.armed = FALSE, !.approved = 0]

RecoveredPaused ==
  LET saved == IF checkpoint = None THEN file ELSE checkpoint
  IN IF file = None
     THEN Fresh("human")
     ELSE [saved EXCEPT
            !.status =
              IF Len(book.given) # saved.cursor THEN "blocked" ELSE "paused",
            !.armed = FALSE, !.approved = 0]

(* DesktopHub.__init__: the latest checkpoint of the open run goes over    *)
(* the file; the workflow is held unless it was over.                      *)
Recovered ==
  LET saved == IF checkpoint = None THEN file ELSE checkpoint
  IN CASE book.run = 0 /\ file = None -> Fresh("human")
       [] book.run = 0 /\ file # None ->
            [file EXCEPT !.status = "waiting", !.armed = FALSE, !.cursor = 0,
                         !.approved = 0]
       [] book.run # 0 /\ file = None ->
            [Fresh("human") EXCEPT !.status = "blocked", !.armed = FALSE]
       [] book.run # 0 /\ file # None ->
            [saved EXCEPT
              !.status = CASE Len(book.given) # saved.cursor -> "blocked"
                           [] @ \in Final /\ Len(book.given) = saved.cursor -> @
                           [] OTHER -> "paused",
              !.armed = FALSE, !.approved = 0]

Restart ==
  /\ Trouble
  /\ desktop' = Recovered
  /\ book' = [book EXCEPT !.paused = book.run # 0]
  /\ hubPaused' = FALSE
  /\ monitor' = TRUE
  /\ at' = Idle
  /\ ready' = {}
  /\ listening' = {}
  /\ cut' = (cut /\ book.run # 0)
  /\ UNCHANGED <<checkpoint, file, edited, told, late, expired, granted>>

-----------------------------------------------------------------------------
Controls ==
  Start \/ Approve \/ Pause \/ Resume \/ Stop \/ ConfirmStopped

Chain ==
  \/ StartSets \/ StartRefused
  \/ Halt \/ SaveNote \/ SaveFile
  \/ Prepare
  \/ Tell
  \/ Accept \/ Reject

Pumps(by) ==
  \/ PumpHolds(by) \/ PumpWaits(by) \/ OpenRun(by)
  \/ Complete(by) \/ Exceed(by) \/ AwaitAnswer(by)
  \/ AskApproval(by) \/ Offer(by)

AppCalls ==
  \/ \E c \in Apps : Joins(c) \/ Leaves(c) \/ Listens(c) \/ HangsUp(c)
  \/ \E c \in Apps : FetchEnds(c) \/ FetchClaims(c)
  \/ SubmitTooLate
  \/ \E status \in {"done", "blocked"} : Submit(status)

Next ==
  \/ Controls \/ Chain \/ AppCalls
  \/ \E by \in Callers : Pumps(by) \/ WriteFails(by)
  \/ TimePasses \/ Restart

Spec == Init /\ [][Next]_vars

(* A handler at work goes on, and the monitor comes by again and again     *)
(* between the others.                                                     *)
GoesOnWorking == Chain \/ (at # Idle /\ \E by \in Callers : Pumps(by))
MonitorSpec == Spec /\ WF_vars(GoesOnWorking) /\ SF_vars(Pumps("monitor"))

-----------------------------------------------------------------------------
(* What must hold.                                                         *)

(* Every part of the state has its type.                                   *)
TypeOK ==
  /\ desktop \in Desktop
  /\ book \in Book
  /\ {checkpoint, file} \subseteq Desktop \cup {None}
  /\ edited \subseteq 1 .. book.last
  /\ {hubPaused, monitor, told, late, cut} \subseteq BOOLEAN
  /\ at.do \in Doings /\ at.by \in Callers
  /\ listening \subseteq ready /\ ready \subseteq Apps
  /\ told => book.live = "claimed"
  /\ expired \in 0 .. book.last
  /\ troubles \in 0 .. MaxTroubles
  /\ granted \subseteq 1 .. LastStep

(* An armed workflow is where the answers of its run say it is, whatever   *)
(* write failed and wherever the process died (server.py:115).             *)
CursorAgrees ==
  at = Idle /\ desktop.armed /\ book.run # 0 /\ ~cut =>
    desktop.cursor = Len(book.given)

(* The steps of a run are answered in their order, each once: nothing is   *)
(* repeated after an interruption, nothing is skipped.                     *)
StepsInOrder ==
  ~cut => \A i \in 1 .. Len(book.given) : book.given[i] = i - 1

(* A workflow that says it is completed has all the answers of its run,    *)
(* and the candidate it has retained is one that was changed and verified  *)
(* (server.py:278).                                                        *)
CompletedMeansVerified ==
  desktop.status = "completed" /\ book.run # 0 /\ ~cut =>
    /\ desktop.retained
    /\ desktop.prepared \in edited
    /\ Len(book.given) = Steps

Offered == book.live = "none" /\ book'.live = "offered"

(* No handoff is made in human or supervised mode but on an approval that  *)
(* the operator gave for that step of this workflow and that no earlier    *)
(* offer has used.                                                         *)
HandoffsApproved ==
  [][Offered /\ NeedsApproval(book'.step) => book'.step \in granted]_vars

(* A workflow that was completed, stopped or blocked, and saved as such,   *)
(* stays so while its run is open, through crashes and late results, and   *)
(* offers nothing more.                                                    *)
FinalIsKept ==
  [][desktop.status \in Final /\ checkpoint = desktop /\ book.run # 0 /\ at = Idle =>
       desktop'.status \in Final /\ ~Offered]_vars

(* A workflow over its time limit does not go on with its apps there, not  *)
(* even with a turn that is claimed and never answered, unless the failed  *)
(* write of a halt has ended the monitor (DesktopHub.exceeded, _monitor).  *)
LimitStops ==
  []<>~(Over /\ ~Held /\ Attended /\ monitor)

(* The workflow uses the hub as the hub is meant to be used: it opens and  *)
(* ends runs, offers and recalls turns only as the baton allows.           *)
B == INSTANCE Baton WITH
  Clients <- Apps, Outputs <- 0 .. LastStep, Nobody <- None, Nothing <- None,
  MaxTurn <- Steps,
  run <- book.run, last <- book.last,
  phase <- CASE book.stopping -> "stopping"
             [] book.live = "claimed" -> "working"
             [] book.live = "offered" -> "offered"
             [] book.live = "none" /\ ~book.stopping -> "idle",
  holder <- IF book.stopping \/ book.live # "none" THEN Worker(book.step) ELSE None,
  answers <- [k \in 1 .. Steps |->
                IF k <= Len(book.given) THEN book.given[k] ELSE None]

UsesBaton == B!Spec

-----------------------------------------------------------------------------
(* What the documents say and the code does not do.                        *)

(* docs/GETTING_STARTED.md: the example finishes after four successful     *)
(* agent turns.                                                            *)
FinishedAfterAllSteps ==
  desktop.status = "completed" /\ book.run # 0 => Len(book.given) = Steps

(* docs/DEVELOPMENT.md: a profile prepares an isolated candidate, which    *)
(* the packets of the run name.  Not so after a crash; see README.md.      *)
WorkPrepared == book.live # "none" => desktop.prepared = book.run

(* README.md: late results are quarantined; the result of a turn that is   *)
(* no longer claimed does not halt a workflow.                             *)
LateResultsQuarantined ==
  [][at = Idle /\ ~Held /\ at' = Do("block", "call", "end") =>
       book.live = "claimed"]_vars

(* README.md: the first turn starts once both agents listen.  The monitor, *)
(* the handler at work and two apps that ask again and again are all that  *)
(* it takes.                                                               *)
Fairness ==
  /\ WF_vars(Chain)
  /\ \A by \in Callers : SF_vars(Pumps(by))
  /\ \A c \in Apps : SF_vars(Listens(c)) /\ SF_vars(FetchClaims(c))

FairSpec == Spec /\ Fairness

Undisturbed ==
  ready = Apps /\ ~hubPaused /\ desktop.armed /\ desktop.status # "paused"

FirstTurnStarts ==
  [](book.live = "offered" /\ book.given = <<>> /\ []Undisturbed =>
       <>(book.live # "offered"))

=============================================================================
