# Verification of the RCO hub

This directory holds a TLA+ model of the program under `src/`: a hub through
which two desktop AI apps work on one task in turns, under the control of an
operator. The modules are checked on small instances by TLC and, where a
theorem is listed, proved for all instances by TLAPS.

## 1. Inventory of the system

| Component | Source | State | Operations | Interacts with |
|---|---|---|---|---|
| Turn engine | `rco/turns.py` | the open run, its turns, pause reasons, pending stop, pending proposal, highest run and proposal numbers | `check_*` (pure), `commit`/`fold` -> `apply`, `restore`, `lapse_leases`, `mark_broken` | called by the hub only |
| Hub | `rco/hub.py` | pause flag, registrations and last-seen times, counters of rejected tokens, health of the record | six tools of the apps, console commands, a 1 s monitor, shutdown, start | engine, record log, console, skills, panel |
| Record log | `rco/records.py` | one append-only file, the sequence number, whether the last write left a fragment | `write`, `read_events`, `close` | hub |
| Console | `rco/console.py` | none | `dispatch` of a typed line | hub |
| Panel | `rco/panel.py` | none of its own | state view, commands, `save_output` | hub |
| Skill catalog | `rco/skills.py`, `rco_skills/provisional.py` | the catalog, a running scan, files seen but not settled | `rescan`, `find` | hub (registration, `next`, polling) |
| Registry, configuration | `rco/registry.py`, `rco/config.py` | constant after start | validation | hub |
| Authentication | `rco/auth.py` | none | accept or reject a request | hub (counters) |
| Desktop hub | `middleware/desktop/server.py` | the workflow: status, mode, cursor, approval, budgets; activations, listeners; its checkpoint | `control`, `pump`, overridden `get_turn` and `submit_turn`, recovery | hub, engine, profile, record log |
| ASIC profile | `middleware/desktop/profile.py`, `middleware/profiles/...` | the candidate directory, the evaluation | `prepare`, `after_turn`, `approval` | desktop hub |
| Launcher | `middleware/desktop/launcher.py` | the mutex of its folder | ask a running dashboard, take the mutex or wait, set up, run the hub, say what failed | desktop hub, setup wizard, other launches |
| Setup wizard | `middleware/desktop/setup_wizard.py`, `middleware/rco_bridge/desktop_setup.py` | configuration files of the apps, environment | `inspect_setup`, `configure` with backups and rollback | the apps, which save the same files |
| UART transmitter | `asic/src/uart_tx.v` | baud counter, bit index, shifter, active | one clocked process | `project.v` |

**How they interact.** The hub is one event loop. A tool call or a console
command runs its check and its commit without awaiting in between; what
interleaves are whole handlers, the dormant waits of `get_turn` (which re-check
after every wake), scans of skills in threads, and everything outside: apps that
answer late or twice, an operator who recalls, files that change, and a process
that may die at any point. A commit is: stage files, write the record (the
commit point), apply, write the view files, reply.

A double click starts a process, the launcher, that asks the dashboard on the
panel's port whether it is this folder's, takes the folder's mutex, and becomes the
hub. Launches of one folder share its mutex and data folder, launches of all folders
the two ports.

**What is hard.** A turn recalled while its app is at work; leases that lapse
lazily; records that fail half-way; state rebuilt by replay after a crash at any
point; pauses that must survive a restart; the workflow of the desktop hub, which
keeps a second checkpoint beside the record log and must reconcile the two; starts
that fail half-way while another launch waits for them, and stops that are asked for
before, while and after the loop runs.

**What makes each component correct.**

- Turn engine and hub: one app at work at a time; a claim stays with its app
  until it is answered or recalled; no recalled output is passed on; what replay
  rebuilds is what was; a held run stays held; run folders are never reused.
- Record log: what was acknowledged is read back, once and in order; what was
  refused is not; a fragment costs only itself.
- Desktop hub: each step of the profile is given out once, in order, with the
  approvals its mode asks for and within its budgets; after a crash it never
  repeats a step; a connected pair of apps makes progress.
- Hub presence: quorum is what the clients' activity says; each transition is
  recorded once; every rejected token is counted once.
- Skill catalog: a scan never replaces the result of a later one, nobody is answered
  from a scan older than the call, and the records say what the catalog says.
- Profile: a candidate is retained only as verified.
- Setup: reported success means ready; a failed setup leaves the settings as they
  were; what it replaces is backed up and was announced; a key never changes.
- Launcher and start: one hub a folder; a failed start keeps nothing it need not
  keep; a click is answered; a stop is obeyed and recorded, whenever it comes.
- UART: every accepted byte is sent as one 8N1 frame, nothing else is sent, and a
  receiver that follows the line reads it.

## 2. The modules

| Module | What it models | Composition |
|---|---|---|
| `TurnState` | the state of `TurnBook` and its `apply`, one operator per event, with replay (`Recorded`, `Restore`) | data and operators of `TurnBook` |
| `TurnBook` | the turn protocol: every handler of the apps and the operator that commits to the book, leases, pauses, recalls, restarts | EXTENDS `TurnState`; implements `Baton` |
| `Baton` | what the hub promises: one baton, offered, taken, and back by an answer, a withdrawal or a confirmed stop | abstract |
| `Records` | the record file, byte pieces and line ends, failing writes, hubs that die while writing | on its own |
| `Desktop` | the workflow of the desktop hub on top of the turn book: controls, pump, apps, checkpoint, recovery | implements `Baton` as well |
| `Skills` | the skill catalog: scans in a thread, callers, deadlines, refused records, scans that fail | on its own |
| `Presence` | registrations, silence, counters of rejected tokens, the monitor's tick, the stop | on its own |
| `Setup` | the first-run setup: window, backups, writes, rollback, kills, repeated setups, and the saves of others | on its own |
| `Launch` | launches of several folders: mutex, ports, folders, `Hub.create`, `Hub.run`, stops, crashes, kills | on its own |
| `UartTx` | the transmitter of the chip, clock edge by clock edge, and the receiver of its test bench | implements `FrameSender` |
| `FrameSender` | what the head of `uart_tx.v` promises: 8N1 frames, each bit for `Divisor` cycles | abstract |
| `*_proofs` | the theorems about `TurnBook`, `Records`, `Desktop`, `Skills`, `Presence`, `Setup`, `Launch` and `UartTx` | EXTENDS the module and `TLAPS` |
| `MC*` | the instances for TLC | EXTENDS the module |

The rule for atomicity is the same everywhere and comes from the code: the hub
runs on one event loop, so a handler is one action from one `await` to the
next. `TurnBook` and `Presence` therefore have one action per handler. `Desktop`
has several: its handlers save a checkpoint with `write_atomic` and write a
record in the middle, either may fail, and the process may die there, so each
handler is a chain of actions held together by the variable `at` (the lock of
the desktop hub, with the place in the handler). `Skills` has one action for
each file operation of the scanning thread, which really runs beside the loop, and
`Setup`, a process of its own, one for each file or key it changes. In `Launch` the
processes are many, so that every call that others can see (a request, the mutex, a
port, a folder) is a step, and so is every place where a stop may come between.

**TurnBook.** `book` is the live `TurnBook`, `disk` is what folding the record
file would give, kept step by step by the same operators: a handler whose record
is written changes both, an effect kept in memory only changes `book`. `working`
is a history variable: the steps whose packet an app holds and may still be
working on, whatever the hub believes. `folder` is the highest run folder on
disk, `packet` whether the packet file of the live turn is as it was written,
`lease` the offer that is leased and whether the clock has passed it. A restart
replaces `book` by `Restore(disk, packet)`.

**Records.** A line of the file is the sequence of pieces of records in it. A
write appends the fresh line end that a torn predecessor calls for and then the
record, whole or cut; what a cut line can still hold is a whole JSON object
without its line end. A new hub starts with `torn` FALSE, as `Records.__init__`
does, whatever the file ends in.

**Desktop.** `desktop` is the workflow in memory, `file` the checkpoint file,
`checkpoint` the last recorded checkpoint, `book` the book reduced to what the
workflow sees (open run, step, state of the live turn, answers given). `edited`
is the set of candidates an app has changed, `granted` and `cut` are history
variables: the approvals given and not used, and whether the operator ended the
run by a refused start. The fetch of `get_turn` is an action of its own although
a pump precedes it in the code, because a pump does nothing when there is
something to fetch. The book keeps its steps as 0 to 3, as the cursor does.

**Skills.** `disk[f]` is a file with its content and how it looks to a scan;
`observed[f]` is what `_observed` knows of its present size and mtime. A scan is
a record of its phase, the files still to look at, the catalog it compares with
and what it found. `_run` catches every exception and keeps the last catalog: `Fails`
ends a scan wherever it is, `Breaks` ends its application between two records, which
stay written. `policy` is `on_write_failure`: under "continue" `Hub.record` says of a
lost record that it is written. `told` is what the records tell of the catalog,
`astray` the files of which they do not: their record was lost, though not for a
discovery that was refused, or was written by a scan that then failed.

**Presence.** A handler may write several records and each may fail; with
`on_write_failure = "stop_hub"` a failure runs `request_stop` inside the handler,
which flushes the same counters. Every operator therefore maps a state of the
hub to the set of states it can leave; `Handles` picks one. The loops of `flush_auth`
and `check_presence` are one step each: what they do for one key or client does not
depend on what they did for another, so what counts is which of the records that are
due get lost (`Losable`), and that the first lost one may stop the hub. `unsaid` is the
history of the minutes whose last record failed. After the stop, until the server
has closed, rejections and the monitor's tick go on; `late` is the history of the
minutes in which a token was rejected then. Registrations of these moments are
left out.

**Setup.** A file is reduced to its RCO part, the connection Claude Code has for all
projects, and the version of everything else; a skill file is all RCO part. `setup`
is the process: the window with what it offered, and `configure` with the files as
parsed (`found`), as read for the backup (`before`), what is left to do and what was
written. `inspect_setup` reads all files in one step, as does the planning in
`configure`: the saves that could come between its reads are those that `AppsQuiet`
excludes. Setup of a second extracted folder is such a save too.

**Launch.** A launch is one process from the click to its end, `at` its place in
`main`, `Hub.create` or `Hub.run`. Its fields `looped`, `pending` and `stopping` are
`Hub.loop`, `_pending_stop` and `_stopping`; `queued` is a `request_stop` that the loop
has yet to run; `handler` is the thread of the close event, which reads `Hub.loop`
first and writes `_pending_stop` later. `handles` says who has a handle of a mutex: the
name exists while anyone has, and who creates it owns it. `port` says which launch
holds a port, a failed one included, for as long as no handler closes it: the
traceback keeps the sockets alive while the error box is open. `folder` is what exists
of the data folder: `write_canary` makes it part by part (`WriteCanary`), and a start
refused afterwards removes what `canary_creates` had listed (`created`), part by part
too (`UndoCreated`, with what is left in `undo`). `undo_created` suppresses the error of
each removal: a part in `Held` may stay, and is then in the history `stuck`. Every step
may fail where its code may raise, and a process may be killed anywhere. Other programs are there as a port that cannot be bound.

**UartTx.** A step is a clock edge. The registers keep the widths of the source
(`CounterSize` is what `$clog2(DIVISOR)` bits can hold); reset, the send pin and the
byte change freely from edge to edge; `project.v` lets a byte through only while the
transmitter is not busy. The receiver is `rx_frame` of the test bench, called again
and again: it looks at the line at every edge and samples the middle of each bit.
`taken` and `synced` are history: the byte of the frame, and whether the receiver
began this frame with it, which a reset in the middle of a frame prevents.

## 3. The runs

| Run | Bounds | States | What it shows |
|---|---|---|---|
| `turn_book` | 2 apps (one of which leases), 2 runs of 2 turns, 2 outputs, 3 offers, 1 proposal | 245 000 | its four invariants and three action properties, and that `TurnBook` implements `Baton` |
| `records` | 6 writes, 3 hub runs | 191 000 | acknowledged records are read back, in order, once |
| `records_refused`, `records_fragment` | the same | - | two findings |
| `desktop` | 2 runs, human and supervised mode, 1 trouble | 783 000 | the workflow's invariants, action properties, that it implements `Baton`, and that its time limit ends it |
| `desktop_finished`, `desktop_first_turn` | as their cfg says | - | two findings |
| `skills` | 2 files, 3 contents, 2 callers, 2 changes, 2 scans, 2 settings of `on_write_failure` | 2 750 000 | fresh answers, unique names, records that tell the catalog |
| `presence` | 2 clients, 1 kind of rejection, 2 minutes with 4 and 1 rejections, 3 configurations | 1 490 000 | every rejection accounted for, two lines a minute, each telling more, silence reported |
| `setup` | 6 states of the files and 4 of the keys to begin with, 2 saves by others | 1 680 000 | what setup reports is true, and it loses nothing |
| `launch` | 2 launches of a new folder, 1 of a used copy, a canary that may be held | 146 000 | one hub a folder, its run recorded, clicks answered, stops obeyed, what a refused start made taken back |
| `uart` | divisor 3, 4 values of the counter, 4 bytes | 185 000 | every frame is read, `UartTx` implements `FrameSender` |

The type invariants of all modules are proved (section 5) and are not among the
properties of a run.

Why the bounds are enough to meet the interesting cases:

- *turn_book*: two turns are needed to pass an output on and to recall one turn
  while a second is asked for; two runs to see a folder or a number reused; three
  offers so that a turn can be recalled and offered again; one leasing and one
  plain app because `get_turn` treats them differently. Restarts are not bounded.
- *records*: six writes over three hub runs let a fragment be followed by a
  failed write, a whole one, and the start of a hub, in every order.
- *desktop*: a trouble is a failed write, a crash, the departure of an app or a
  time limit that is reached; one of them may fall at any place of any handler of
  either run. With `Modes = {"human"}` and two troubles (1 600 000 states), or one
  run and two troubles in both modes (321 000 states), the same properties hold;
  these instances are bigger than a regular run need be.
- *skills*: two scans are enough for one to be older than a call, or for one to fail
  and the next to succeed; three contents for a change, a move of a name to another
  file and a file that is no skill. `Arrivals` has each look with the contents for
  which it makes a difference; "locked" is not among them, because a file that is gone
  or in the cloud when it is read takes the same branch. The proofs are for any
  `Arrivals`. The callers are alike, so the run uses their symmetry; all its properties
  are safety properties.
- *presence*: four rejections let a minute have its first line and its total, be cut
  by the stop, and have two more lines by rejections that come late; the one of the
  second minute finds whatever the first one left. The three configurations take each
  value of `on_write_failure` and each behaviour of `re_register_policy` once. Keys are
  independent of each other, so one is enough; the proofs are for any number.
- *launch*: two launches of one folder race for its mutex, and the third, of another
  folder, for the ports; a fourth would repeat one of these. One folder has nothing at
  first and the other is a used one; of the first, the second launch finds whatever part
  the first left when it failed, was killed or could not undo. `Held` is the canary, the
  one part whose staying keeps another from going. Failures, kills, crashes and stops
  are not bounded; a launch is not used twice. The theorems take any first folders and
  any `Held`.
- *uart*: 3 is the smallest divisor whose counter has a value to spare and whose half
  is not whole; the bytes are all zeros, all ones, and two that tell the bits' order.
  Edges are not bounded. What other divisors do is proved (section 5).
- *setup*: the first states have each kind of connection in each place where
  `configure` treats it differently; two saves let a file be changed before the
  window opens and while it is open, or be broken and mended. Failures, kills and
  repeated setups are not bounded.

Deadlock is checked in `turn_book`, `uart` and all `desktop` runs. It
is not in the three `records` runs, `skills` and `presence`, where a behaviour ends
when the bounds are used up or the hub has stopped for good, nor in `launch`, where it
ends when every launch is over, nor in `setup`, which can do nothing about a file it
cannot read or a key it cannot use.

**Fairness.** Six properties need it. `FirstTurnStarts` (run `desktop_first_turn`)
is checked under `FairSpec` of `Desktop`: a handler that holds the lock finishes
(`WF` of `Chain`: it is one coroutine and awaits only finite work), and the
monitor, which wakes once a second, and an app that listens pump again and again
(`SF`, because the lock and the waits disable them in between); an app in
`get_turn` fetches and listens again, which is what the documents tell it to do.
The property is violated even so. That this fairness is not too weak was seen by
setting the status to running in `AwaitAnswer`, upon which the property holds.
`SilenceReported` assumes that the monitor ticks until the stop and that, as
long as the hub runs, some tick writes all it has to write: without a writable
record file the hub may not report, by its own rule.
`LimitStops` assumes only that a handler that holds the lock finishes and that the
monitor pumps again and again (`MonitorSpec`): the limit must end the workflow with
no app and no operator doing anything.
`EveryClickIsAnswered` and `EveryStopEndsTheHub` assume, of each launch, that it takes
its own next step while it can, that its loop runs what is queued, and that the
system runs the thread of a close event; nobody has to click, answer a window or stop
anything. `OwnStep` has the bound of 30 s as a step that is enabled all through the
wait. That something on the port answers what cannot be read is in `Happens`, not in
`OwnStep`: it is nothing that fairness may count on. `FrameEnds` assumes that the clock runs.

## 4. Where the code and what is said of it differ

Each is a run whose one property TLC violates; `PROJECT.json` quotes the lines.

1. `records_refused`: a write that fails exactly between the JSON and its line
   end is refused, and becomes readable when the next record begins on a fresh
   line. The docstring of `records.py` says a refused action does not reach the
   record later.
2. `records_fragment`: the first record of a hub (`server_start`) that follows a
   hub which left a fragment is glued to it and lost with it; the docstring says
   a fragment loses only itself.
3. `desktop_finished`: a start that is refused has already ended the open run;
   the workflow keeps its cursor and completes in a new run without the first
   steps.
4. `desktop_first_turn`: after a wait for an app the offered turn is never
   delivered, because the pump does not set the status to running again.

Other observations have no run of their own. The properties that TLC violates for
them are defined in the modules; each is found by adding it to the run named.

- `prior_state` of a turn that was recalled while leased or broken is another one
  after replay, although `turns.py:8` says that a replayed book equals the live one
  and `prior_state` is compared: `ReplayedTurnsEqual` of `TurnBook`, run `turn_book`.
- The result of an old turn can halt a new workflow that has not opened its run, by
  the `started_at` of the previous one, although README.md:38 says that late results
  are quarantined: `LateResultsQuarantined` of `Desktop`, run `desktop`.
- A launch that found the mutex taken never tries it again, and its own handle keeps
  the name alive. When the first launch fails, or shows its setup window for more
  than 30 s, the second ends with "RCO is still starting" although nothing is, or the
  user is asked; and a third click while that box is open waits in vain as well:
  `SaysStartingWhenStarting` of `Launch`, run `launch`.
- Between the two requests of `reopen_existing` the dashboard may close and one of
  another folder take the port, which then opens itself: `OpensItsOwn`, run `launch`.
- The close handler reads `Hub.loop` on a thread of its own. When the loop is set and
  the pending stop looked at before it writes `_pending_stop`, nobody looks again;
  Windows then ends the process after four seconds, without `server_stop`:
  `PendingStopHeeded`, run `launch`.
- A failure of the diagnostic log or of `DesktopHub.__init__` closes neither port
  while the error box is open, and the latter leaves a `server_start` without a
  `server_stop` (`PortsUnderTheLock` names these failures, "unreleased").
- The final flush forgets its counters, so rejections after it start a new count:
  the last line of such a minute tells of fewer rejections than there were, and the
  minute may have four lines, where `auth_rejected` (`hub.py:757`) speaks of two and
  of totals recorded when the hub stops.
- A desktop hub that dies between `run_opened` and the first checkpoint resumes
  without `prepare`, hence without a candidate or with an earlier one: with
  `WorkPrepared` of `Desktop` as an invariant, the run `desktop` finds it.
- With `AppsQuiet = FALSE` the run `setup` violates `BackedUpFirst` and
  `FailedLeavesSettings`: a save that comes after `configure` has read a file is
  written over, and one that comes after the copies were made is in no backup.
  Claude Code, which may be open during setup, keeps its own state in `.claude.json`.
- A key that holds blanks only counts as missing in `_keys` and as present where
  it would be set, so that setup reports success without it. `BeginKeys` leaves
  such keys out.
- A `hub_ready` whose record fails is not tried again until somebody registers for
  the first time again.
- The record of a skill that changed or went away is not written again when it was
  refused, while the catalog has changed. Under `on_write_failure = "continue"` the same
  is true of a discovery, because `Hub.record` then returns True for what it did not
  write, although `skills.py:75` says that False means not recorded and `skills.py:228`
  that an unrecorded discovery did not happen. And an exception between two records of
  one scan (`Hub.record` catches no `SchemaError`) leaves records of changes that the
  catalog does not have; the next scan writes them once more. `RecordTells` leaves out
  the files concerned until their next record; with `astray` taken out of it the run
  `skills` violates it.
- A refused start leaves a canary that the system holds, and then the data folder around
  it, without a word: `undo_created` tries each part once and suppresses the error.

## 5. What is proved

| Module | Theorem | For |
|---|---|---|
| `TurnBook_proofs` | `TypesKept`, `OneAppAlwaysAtWork`, `ReplayAlwaysAgrees`, `NothingEverSkipped`, `InputsAlwaysReceived`, `TurnsAlwaysAdvance`, `FoldersAlwaysFresh`, `AlwaysHeldUntilResumed`, `PromiseAlwaysKept` | any clients, outputs and bounds |
| `Records_proofs` | `TypesKept`, `AcknowledgedAlwaysKept`, `AlwaysReadInOrder` | any number of writes and hub runs |
| `Desktop_proofs` | `TypesKept`, `CursorAlwaysAgrees`, `StepsAlwaysInOrder`, `CompletedAlwaysVerified`, `HandoffsAlwaysApproved`, `FinalAlwaysKept`, `AlwaysUsesBaton` | any modes, turn limit of at least 4, runs and troubles |
| `Skills_proofs` | `TypesKept`, `AnswersAreFresh`, `NeverGoesBack`, `NamesAlwaysUnique`, `RecordsAlwaysTell` | any files, contents, adapter, callers and scans |
| `Presence_proofs` | `TypesKept`, `RejectionsNeverForgotten`, `AtMostTwoLines`, `LinesAlwaysTellMore` | any clients, keys, configurations and bounds |
| `Launch_proofs` | `TypesKept`, `OneHubAtATime`, `PortsAreUnderTheLock`, `RunsAreRecorded`, `RefusalsTakeBack` | any launches and folders |
| `UartTx_proofs` | `TypesKept`, `AlwaysReadsTheByte`, `EveryFrameIsRead`, `AlwaysKeepsFrames` | any divisor above 1, any bytes |
| `Setup_proofs` | `TypesKept`, `KeysAlwaysStay`; with `AppsQuiet`: `AlwaysBackedUpFirst`, `FailedAlwaysLeavesSettings`, `AlwaysReplacedWhenShown`, `DoneAlwaysMeansReady` | any files, keys and saves |

The assumptions are those named in the modules: the bounds are natural numbers,
the values that stand for nothing are none of the others, and there is a first minute.

*TurnBook.* The inductive invariant `IInv` is the type invariant and `Good`, which
says of the book that it is consistent (`Consistent`: one live turn, none while a
stop is pending, and only a recalled turn is to be stopped), that every app at work
holds the claimed turn or the one it is to stop (`WorkAccounted`), that the inputs
of a turn are earlier turns that were answered (`InputsReceivedIn`), and that the
file is the book but for what is in memory only (`Recorded`). `OneAppAtWork` alone
is not inductive: that a turn offered, or a run ended, leaves no app at work needs
every app at work accounted for and no live turn beside a pending stop; and that
a restart, which takes the book from the file, keeps all this needs `Recorded`. Each
operator of `TurnState` has a lemma that it keeps `Good`, and each action a lemma
that it applies operators whose conditions hold.

What a step may do is proved in two stages (the last part of `TurnBook_proofs`). Each action changes the
book in one of eight ways (`BookStep`): leaves its turns alone but for a lease or a
packet found broken, confirms a stop, ends or opens a run, offers, claims, answers or
recalls one turn. The action properties and the refinement are then read off these ways:
`Baton` sees a leased or broken turn as offered, and with `Consistent` there is one
live turn or one stop to see, so that its `CHOOSE` of the holder is determined.

*Records.* The pieces of all lines are in the order of the writes, cut ones too
(`InOrderUpTo`); a hub that is up and not torn is at the start of a line, and one
that is starting has written nothing. From the second follows that an
acknowledged record is alone on its line.

*Desktop.* A handler may die, or one of its writes fail, between any two of its steps,
so the inductive invariant says for each place of a handler how far everything has
come: `HandlerOk` what the place implies (a claim that is about to be told is recorded
in a checkpoint), `WorkflowOk` what holds of the workflow and of what was saved of it
(a workflow that is not lost is at most one answer behind, and only between an answer
and `after_turn`), and `UncutOk`, until a refused start cuts the run, how the cursors
stand to the answers: that of the workflow agrees, and wherever a cursor agrees, be it
that of an old checkpoint, the candidate is as the steps up to it leave it (`Proved`).
That is what makes a restart safe, which takes the checkpoint, compares its cursor with
the answers, and blocks if they differ. `StepsInOrder` alone is not inductive: the next
offer takes its step from the cursor, so it needs `UncutOk`, and that a restart keeps
`UncutOk` needs it of the checkpoint too. The refinement maps the live turn and the stop
to the phase of the baton; `BookOk` gives that a claimed turn leaves room for its answer.

*Skills.* There is one scan at a time; every other is over or has failed. A scan that
is over was applied, so `asOf` is at least its number, and less than that of a scan that
runs; the catalog a scan compares with stays the present one until the scan is applied;
and a caller waits for a scan that was there when it called or, the second time, for a
later one. So when a caller returns, the scan it waited for was applied, or has failed.
That the records tell the catalog needs the second of these: where nothing differs from
the catalog compared with, nothing is to be told. Unique names need none of
this, only that a scan neither keeps nor takes a name it has.

*Presence.* The inductive invariant says of each key and minute how three things stand
to each other: the counter in memory, the lines in the record, and the rejections that
arrived (`Sound`, `Settled`). Alone the properties are not inductive. That a minute
spends no third line needs how many lines are left at each stage (`CountsAgree`: none
before the first is covered, one while something is not); that the first rejection of a
minute starts from nothing needs that a minute which has not begun, or has no counter
before the stop, has no lines and no rejections (`IsFresh`); and that the last line is
the total after the stop needs that whatever is still counted then is covered
(`Settled`). A handler takes the hub through states in which not all of this holds: after
`Counted` and before the record the present minute is not settled, and between a lost
record and the stop it causes neither. So the lemmas have the form of Hoare's triples:
`Written`, `Unwritten`, `Flushed` and `Counted` say what each needs and leaves, for any
state of the hub, and the lemma of a handler composes them. The handlers of presence and
registration change nothing of what is counted, except that each of their records may
fail and stop the hub.

*Setup.* While `configure` runs a file is as it was found or as `configure` writes it
(`FilesKnown`), what it wrote or will write was copied as it was found
(`CopiesMade`), the window told of what is replaced (`Told`), and all that is not
ready is still to be done (`WorkListed`). Each of the four action properties is
read off from this in the step that ends or writes. The theorems need that nobody
saves meanwhile, except that keys stay.

*Launch.* Every action is a step of one launch p that satisfies `Changes(p)`: it
leaves the other launches, their handles and ports, and the folders of other
workspaces alone, and takes the mutex only when nobody has a handle of it. The
inductive invariant says of each launch what its place implies (`Sane`), that owners
have handles and are alone (`OwnersHaveHandles`, `OneOwner`), that a holder of a port
is entitled to it (`HoldersMay`), and that parts of a data folder are in one
(`FoldersNested`). That owners are alone needs that a mutex is taken only when no
handle is left, and so that an owner never loses its handle before its end. What a
refused start takes back needs three things more: while it undoes, each part it made
and has yet to try may be there and each it has tried is gone, stuck, or the data folder
around what is stuck, and what it did not make is there (`Undoing`); nobody else
touches the folder meanwhile, since only an owner does (`OneOwner`); and when the data
folder's turn comes, last, the parts in it are gone unless one is stuck, while
`FoldersNested` says that it is there when anything in it is.

*UartTx.* The receiver is tied to the transmitter by one equation: while both are in a
frame that no reset cut, the edges the receiver has yet to wait differ from the cycles
the bit has left by the half of the divisor, so that the sample of bit k falls while
bit k is on the line. With it goes what is left in the shifter, and that the bits
sampled so far are those of `taken`. The refinement maps the counters to how far the
frame has come, and every edge is a step of `FrameSender` or a stutter.

Every safety and action property of the passing runs is proved. Only model-checked are
the five liveness properties (`LimitStops`, `SilenceReported`, `EveryClickIsAnswered`,
`EveryStopEndsTheHub`, `FrameEnds`), which are out of the prover's reach because their
fairness speaks of ENABLED, and the violations.

## 6. What is not modelled

- Turn engine: entry codes, edits of outputs, notes, reminders, hand-off counters,
  the cleaning of texts. None of them changes which turn may be claimed.
- Hub: how a call is worded, the streams, what registered apps still do between the
  stop and the end of the server.
- Record log: the schema of the records, and loss of power, which may take more
  than the last write. `TurnBook` and `Desktop` take a record as written or not;
  `Records` shows for which records this is a simplification.
- Desktop: the page, the packets, the number of checkpoint rounds (the default 1),
  the budget of coordinator operations. The evaluator is a choice of its result.
- Launcher: the check of a package, the log, what Windows does to a mutex name that
  another session uses. How long things take is left open, but for the order that
  the wait of 30 s is over at some time.
- UART: what the pins of the chip carry before the first reset; `Init` is the state
  after it. The pins of `project.v` that mirror the line and the busy flag. Of the test
  bench, that `rx_frame` fails with "no start bit" when it has waited too long: the
  receiver of the model waits for as long as the line is idle.
- Setup: the texts of the files, how the entry of a project is found, the order in
  which the files of one skill are copied, `desktop_connection_metadata`.
- Registry, configuration, console parsing, panel, release scripts: no state, or
  only I/O.

## 7. Plan

Done: `TurnState`, `TurnBook`, `Baton`, `Records`, `Desktop`, `Skills`,
`Presence`, `Setup`, `Launch`, `UartTx`, `FrameSender`, and the proofs above. To come,
in this order:

1. `Profile`: what `prepare`, `after_turn` and `approval` do to the candidate
   directory and the evaluation, composed with `Desktop` (retained only as
   verified, by whom).
2. Output edits of the panel and the engine, in `TurnBook`.
