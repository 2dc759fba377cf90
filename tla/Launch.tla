------------------------------- MODULE Launch -------------------------------
(***************************************************************************)
(* Launches of the desktop application: what a double click starts         *)
(* (middleware/desktop/launcher.py, main), and the life of the hub in that *)
(* process, from Hub.create to the release of what it holds.               *)
(*                                                                         *)
(* A launch asks for a running dashboard, takes the mutex of its workspace *)
(* or waits for the one that has it, lets the setup run, and starts the    *)
(* hub: folders, two ports, the record of the start, the event loop, the   *)
(* servers. It may fail or be killed at every step, and a stop may be      *)
(* asked for at every moment. Several launches, of one workspace and of    *)
(* others, share the mutex names, the ports and the data folders.          *)
(***************************************************************************)
EXTENDS Naturals

CONSTANTS Launches,       \* the processes that clicks start
          Workspaces,     \* extracted folders
          Workspace,      \* [Launches -> Workspaces]: which one was clicked
          FoldersBefore,  \* [Workspaces -> what of its data folder may exist at first]
          Held,           \* bound: what the system may not let go when it is removed
          Free            \* nobody: a port no launch has, no dashboard

ASSUME WorkspaceAssumption == Workspace \in [Launches -> Workspaces]
ASSUME FolderAssumption ==
  /\ FoldersBefore \in [Workspaces -> SUBSET SUBSET {"data", "records", "logs", "canary"}]
  /\ \A w \in Workspaces : \A parts \in FoldersBefore[w] : parts # {} => "data" \in parts
ASSUME FreeAssumption == Free \notin Launches \cup Workspaces

VARIABLES launch,   \* [Launches -> Launch]
          handles,  \* [Workspaces -> SUBSET Launches]: who has a handle of the mutex
          port,     \* the hub's port and the panel's: Free, or a launch
          folder    \* [Workspaces -> which folders of data_dir exist]

vars == <<launch, handles, port, folder>>

Ports == {"hub", "panel"}
Parts == {"data", "records", "logs", "canary"}

\* Where a launch is in main, in Hub.create or in Hub.run.
Places == {"off", "ask", "reopen", "lock", "setup", "window",
           "preflight", "making", "undoing", "bind_hub", "bind_panel", "init",
           "desktop_init", "run", "scan", "startup", "serving", "closing", "ended",
           "error", "gone"}
\* Between the lock and the end of main.
Inside == {"setup", "window", "preflight", "making", "undoing", "bind_hub",
           "bind_panel", "init", "desktop_init", "run", "scan", "startup", "serving",
           "closing", "ended"}
\* While signals and the close handler reach the hub (Hub.run).
Handling == {"run", "scan", "startup", "serving", "closing"}
\* While the event loop runs.
Looping == {"scan", "startup", "serving", "closing"}
Reasons == {"none", "still_starting", "unreleased", "crashed", "failed"}

Launch == [at : Places,
           owned : BOOLEAN,      \* InstanceLock.owned
           why : Reasons,        \* what the error box says, the kinds that are told apart
           shown : Workspaces \cup {Free},   \* whose dashboard was opened for it
           created : SUBSET Parts,  \* canary_creates: not there before write_canary
           undo : SUBSET Parts,     \* what undo_created has still to try
           stuck : SUBSET Parts,    \* history: what it could not remove, though empty
           notice : {"no", "due", "done"},   \* the task that announces the start
           looped : BOOLEAN,     \* Hub.loop is set
           pending : BOOLEAN,    \* Hub._pending_stop
           queued : BOOLEAN,     \* request_stop waits for its turn on the loop
           stopping : BOOLEAN,   \* Hub._stopping
           starts : 0..1,        \* server_start records written
           stops : 0..1,         \* server_stop records, written or tried
           handler : {"none", "read", "waits"}] \* the thread of the close event

NewLaunch == [at |-> "off", owned |-> FALSE, why |-> "none", shown |-> Free,
              created |-> {}, undo |-> {}, stuck |-> {}, notice |-> "no",
              looped |-> FALSE, pending |-> FALSE, queued |-> FALSE,
              stopping |-> FALSE, starts |-> 0, stops |-> 0, handler |-> "none"]

Init == /\ launch = [p \in Launches |-> NewLaunch]
        /\ handles = [w \in Workspaces |-> {}]
        /\ port = [x \in Ports |-> Free]
        /\ folder \in [Workspaces -> SUBSET Parts]
        /\ \A w \in Workspaces : folder[w] \in FoldersBefore[w]

At(p) == launch[p].at
Moves(p, place) == launch' = [launch EXCEPT ![p].at = place]
Released(p) == [x \in Ports |-> IF port[x] = p THEN Free ELSE port[x]]

\* The except clause of main: the error box. Nothing but the mutex outlives the
\* failed call, and the ports where no handler closed them.
Fails(p, reason) ==
  launch' = [launch EXCEPT ![p] = [NewLaunch EXCEPT !.at = "error", !.why = reason,
                                                    !.owned = launch[p].owned]]

----------------------------------------------------------------------------
\* The launcher.

Click(p) == /\ At(p) = "off"
            /\ Moves(p, "ask")
            /\ UNCHANGED <<handles, port, folder>>

\* Whose dashboard may answer a request; a request that takes too long or comes
\* as the server starts or closes has no answer.
Dashboards == {q \in Launches : At(q) \in {"startup", "serving", "closing"}
                                /\ port["panel"] = q}
Waiting(p) == p \in handles[Workspace[p]] /\ ~launch[p].owned

\* reopen_existing, its first request; the dashboard of another workspace ends it.
AskHealth(p) ==
  /\ At(p) = "ask"
  /\ \/ \E q \in Dashboards : IF Workspace[q] = Workspace[p]
                              THEN Moves(p, "reopen")
                              ELSE Fails(p, "failed")
     \/ Moves(p, IF Waiting(p) THEN "ask" ELSE "lock")
  /\ UNCHANGED <<handles, port, folder>>

\* Something on the port answers what cannot be read.
AskFails(p) == /\ At(p) = "ask"
               /\ Fails(p, "failed")
               /\ UNCHANGED <<handles, port, folder>>

\* reopen_existing, its second request, which any dashboard on the port answers.
AskOpen(p) ==
  /\ At(p) = "reopen"
  /\ \/ \E q \in Dashboards :
          launch' = [launch EXCEPT ![p] = [NewLaunch EXCEPT !.at = "gone",
                                                            !.shown = Workspace[q]]]
     \/ Fails(p, "failed")
  /\ handles' = IF At(p)' = "gone"
                THEN [handles EXCEPT ![Workspace[p]] = @ \ {p}]
                ELSE handles
  /\ UNCHANGED <<port, folder>>

\* Mutant: only a launch in its setup counts as the owner of the mutex.
TakeLockOfNobody(p) ==
  LET w == Workspace[p]
      free == \A q \in handles[w] : At(q) # "setup"
  IN  /\ At(p) = "lock"
      /\ handles' = [handles EXCEPT ![w] = @ \cup {p}]
      /\ launch' = [launch EXCEPT ![p].owned = free,
                                  ![p].at = IF free THEN "setup" ELSE "ask"]
      /\ UNCHANGED <<port, folder>>

\* InstanceLock: the mutex is owned by the launch that creates its name, and the
\* name exists as long as anyone has a handle; CreateMutexW may fail.
TakeLock(p) ==
  LET w == Workspace[p]
      free == handles[w] = {}
  IN  /\ At(p) = "lock"
      /\ \/ /\ handles' = [handles EXCEPT ![w] = @ \cup {p}]
            /\ launch' = [launch EXCEPT ![p].owned = free,
                                        ![p].at = IF free THEN "setup" ELSE "ask"]
         \/ Fails(p, "failed") /\ UNCHANGED handles
      /\ UNCHANGED <<port, folder>>

\* Mutant: the deadline counts from the end of the launch that is waited for.
GiveUpAlone(p) == /\ At(p) = "ask"
                  /\ handles[Workspace[p]] = {p} /\ ~launch[p].owned
                  /\ Fails(p, "still_starting")
                  /\ UNCHANGED <<handles, port, folder>>

\* The deadline of 30 s.
GiveUp(p) == /\ At(p) = "ask"
             /\ Waiting(p)
             /\ Fails(p, "still_starting")
             /\ UNCHANGED <<handles, port, folder>>

\* ensure_setup: everything is ready, or its window is shown, or it raises.
CheckSetup(p) == /\ At(p) = "setup"
                 /\ \/ Moves(p, "preflight")
                    \/ Moves(p, "window")
                    \/ Fails(p, "failed")
                 /\ UNCHANGED <<handles, port, folder>>

\* The end of main, which gives the mutex back; the traceback is gone by then.
Leave(p) == /\ launch' = [launch EXCEPT ![p] = [NewLaunch EXCEPT !.at = "gone"]]
            /\ handles' = [handles EXCEPT ![Workspace[p]] = @ \ {p}]
            /\ port' = Released(p)
            /\ UNCHANGED folder

\* The keys are read after the window, which may fail like the window itself.
AnswerWindow(p) ==
  /\ At(p) = "window"
  /\ \/ Moves(p, "preflight") /\ UNCHANGED <<handles, port, folder>>
     \/ Fails(p, "failed") /\ UNCHANGED <<handles, port, folder>>
     \/ Leave(p)

CloseBox(p) == At(p) = "error" /\ Leave(p)

----------------------------------------------------------------------------
\* Hub.create and Hub.__init__.

\* Configuration, registry, tokens, package identity, where the data folder seems to
\* be, and what of it is missing: all before anything is created.
Preflight(p) ==
  /\ At(p) = "preflight"
  /\ \/ launch' = [launch EXCEPT ![p].at = "making",
                                 ![p].created = Parts \ folder[Workspace[p]]]
     \/ Fails(p, "failed")
  /\ UNCHANGED <<handles, port, folder>>

\* The first, in an order, of the parts that are in a set.
FirstOf(parts, turn, x) == x \in parts /\ \A y \in parts : turn[x] <= turn[y]

Making == [data |-> 1, records |-> 2, logs |-> 3, canary |-> 4]

\* write_canary, one part after another; its failure, and that of the probe, leaves
\* what was made before.
WriteCanary(p) ==
  LET w == Workspace[p]
  IN  /\ At(p) = "making"
      /\ \/ \E x \in Parts : /\ FirstOf(Parts \ folder[w], Making, x)
                             /\ folder' = [folder EXCEPT ![w] = @ \cup {x}]
                             /\ UNCHANGED launch
         \/ Fails(p, "failed") /\ UNCHANGED folder
      /\ UNCHANGED <<handles, port>>

\* check_redirection, once the probe has shown where a new file lands.
CheckRedirection(p) ==
  /\ At(p) = "making"
  /\ folder[Workspace[p]] = Parts
  /\ \/ launch' = [launch EXCEPT ![p].at = "bind_hub", ![p].created = {}]
     \/ launch' = [launch EXCEPT ![p].at = "undoing", ![p].undo = launch[p].created]
  /\ UNCHANGED <<handles, port, folder>>

\* Mutant: the data folder is listed before what is in it.
TopDown == [data |-> 1, canary |-> 2, records |-> 3, logs |-> 4]

\* The order in which canary_creates lists what does not exist yet: deepest first.
UndoTurn == [canary |-> 1, records |-> 2, logs |-> 3, data |-> 4]

\* undo_created tries each part once. A folder with something in it stays, and so does
\* what the system does not let go: the error of each removal is suppressed.
UndoCreated(p) ==
  LET w == Workspace[p]
  IN  /\ At(p) = "undoing"
      /\ \E x \in Parts :
           /\ FirstOf(launch[p].undo, UndoTurn, x)
           /\ \/ /\ x = "data" => folder[w] = {"data"}
                 /\ \/ /\ folder' = [folder EXCEPT ![w] = @ \ {x}]
                       /\ launch' = [launch EXCEPT ![p].undo = @ \ {x}]
                    \/ /\ x \in Held
                       /\ launch' = [launch EXCEPT ![p].undo = @ \ {x},
                                                    ![p].stuck = @ \cup {x}]
                       /\ UNCHANGED folder
              \/ /\ x = "data" /\ folder[w] # {"data"}
                 /\ launch' = [launch EXCEPT ![p].undo = @ \ {x}]
                 /\ UNCHANGED folder
      /\ UNCHANGED <<handles, port>>

Refuse(p) == /\ At(p) = "undoing"
             /\ launch[p].undo = {}
             /\ Fails(p, "failed")
             /\ UNCHANGED <<handles, port, folder>>

\* bind_port. A port that no launch has may be reserved, or another program's.
BindHub(p) ==
  /\ At(p) = "bind_hub"
  /\ \/ /\ port["hub"] = Free
        /\ port' = [port EXCEPT !["hub"] = p]
        /\ Moves(p, "bind_panel")
     \/ Fails(p, "failed") /\ UNCHANGED port
  /\ UNCHANGED <<handles, folder>>

BindPanel(p) ==
  /\ At(p) = "bind_panel"
  /\ \/ /\ port["panel"] = Free
        /\ port' = [port EXCEPT !["panel"] = p]
        /\ Moves(p, "init")
     \/ Fails(p, "failed") /\ port' = Released(p)
  /\ UNCHANGED <<handles, folder>>

\* Mutant: a record file that cannot be read does not release.
BuildUnreleased(p) ==
  /\ At(p) = "init"
  /\ \/ /\ launch' = [launch EXCEPT ![p].at = "desktop_init", ![p].starts = 1]
        /\ UNCHANGED port
     \/ Fails(p, "unreleased") /\ UNCHANGED port
     \/ Fails(p, "failed") /\ UNCHANGED port
  /\ UNCHANGED <<handles, folder>>

\* Hub.__init__: the diagnostic log, whose failure releases nothing; the record of
\* the start, the replay and the skills adapter, whose failures release both.
Build(p) ==
  /\ At(p) = "init"
  /\ \/ /\ launch' = [launch EXCEPT ![p].at = "desktop_init", ![p].starts = 1]
        /\ UNCHANGED port
     \/ Fails(p, "unreleased") /\ UNCHANGED port
     \/ Fails(p, "failed") /\ port' = Released(p)
  /\ UNCHANGED <<handles, folder>>

\* DesktopHub.__init__, after it: the profile, the saved workflow.
BuildDesktop(p) == /\ At(p) = "desktop_init"
                   /\ \/ Moves(p, "run")
                      \/ Fails(p, "unreleased")
                   /\ UNCHANGED <<handles, port, folder>>

----------------------------------------------------------------------------
\* Hub.run and Hub._serve.

\* request_stop: what it makes of a hub h; only the first one counts.
Stopped(h) == IF h.stopping THEN h ELSE [h EXCEPT !.stopping = TRUE, !.stops = @ + 1]

Keeps == UNCHANGED <<handles, port, folder>>

StartLoop(p) == /\ At(p) = "run"
                /\ launch' = [launch EXCEPT ![p].at = "scan", ![p].looped = TRUE]
                /\ Keeps

\* Mutant: a stop asked for before the loop is forgotten.
EndScanAndServe(p) ==
  /\ At(p) = "scan"
  /\ launch' = [launch EXCEPT ![p].at = "startup",
                              ![p].notice = IF launch[p].stopping THEN "no" ELSE "due"]
  /\ Keeps

\* The scan of the skills is over and the servers exist: a stop asked for before the
\* loop is carried out now, and then nothing is announced.
EndScan(p) ==
  LET h == IF launch[p].pending THEN Stopped(launch[p]) ELSE launch[p]
  IN  /\ At(p) = "scan"
      /\ launch' = [launch EXCEPT
                      ![p] = [h EXCEPT !.at = "startup",
                                       !.notice = IF h.stopping THEN "no" ELSE "due"]]
      /\ Keeps

\* uvicorn listens on both ports; when should_exit is set it goes no further.
Serve(p) == /\ At(p) = "startup"
            /\ Moves(p, IF launch[p].stopping THEN "closing" ELSE "serving")
            /\ Keeps

\* _announce, which wakes after the start; the end of the server cancels it.
Announce(p) == /\ At(p) \in {"serving", "closing"}
               /\ launch[p].notice = "due"
               /\ launch' = [launch EXCEPT ![p].notice = "done",
                                           ![p].shown = Workspace[p]]
               /\ Keeps

\* The loop's turn for a queued request_stop.
RequestStop(p) == /\ At(p) \in Looping
                  /\ launch[p].queued
                  /\ launch' = [launch EXCEPT
                                  ![p] = [Stopped(launch[p]) EXCEPT !.queued = FALSE]]
                  /\ Keeps

\* The server sees should_exit.
StartClosing(p) == /\ At(p) = "serving"
                   /\ launch[p].stopping
                   /\ Moves(p, "closing")
                   /\ Keeps

\* The loop is closed and the handlers are taken away; what was queued is lost.
EndLoop(p) == /\ At(p) = "closing"
              /\ launch' = [launch EXCEPT ![p].at = "ended", ![p].queued = FALSE]
              /\ Keeps

\* Mutant: an error that ends the loop ends the hub.
CrashUnrecorded(p) ==
  /\ At(p) \in Handling
  /\ launch' = [launch EXCEPT ![p].at = "ended", ![p].why = "crashed"]
  /\ Keeps

\* The except clause of run: an internal error, or servers that do not start.
Crash(p) ==
  /\ At(p) \in Handling
  /\ launch' = [launch EXCEPT
                  ![p] = [Stopped(launch[p]) EXCEPT !.at = "ended", !.why = "crashed",
                                                    !.queued = FALSE]]
  /\ Keeps

\* _release_resources, and what main makes of the result.
Release(p) ==
  /\ At(p) = "ended"
  /\ IF launch[p].why = "crashed"
     THEN Fails(p, "failed") /\ port' = Released(p) /\ UNCHANGED <<handles, folder>>
     ELSE Leave(p)

\* stop_threadsafe on the loop's own thread: a signal, the key Ctrl+C, the control
\* "shutdown" of the dashboard.
AskStop(p) ==
  /\ At(p) \in Handling
  /\ launch' = [launch EXCEPT ![p].queued = @ \/ launch[p].looped,
                              ![p].pending = @ \/ ~launch[p].looped]
  /\ Keeps

\* _console_ctrl on a thread of the system: stop_threadsafe reads Hub.loop, and the
\* hub may go on before it writes _pending_stop.
CloseEvent(p) ==
  /\ At(p) \in Handling
  /\ launch[p].handler = "none"
  /\ launch' = [launch EXCEPT
                  ![p].handler = IF launch[p].looped THEN "waits" ELSE "read",
                  ![p].queued = @ \/ launch[p].looped]
  /\ Keeps

WritePending(p) ==
  /\ launch[p].handler = "read"
  /\ launch' = [launch EXCEPT ![p].handler = "waits", ![p].pending = TRUE]
  /\ Keeps

\* The stop is recorded or four seconds are over: Windows ends the process.
ReturnHandler(p) == launch[p].handler = "waits" /\ Leave(p)

Kill(p) == At(p) \notin {"off", "gone"} /\ Leave(p)

----------------------------------------------------------------------------

OwnStep(p) ==
  \/ AskHealth(p) \/ AskOpen(p) \/ GiveUp(p) \/ TakeLock(p) \/ CheckSetup(p)
  \/ Preflight(p) \/ WriteCanary(p) \/ CheckRedirection(p) \/ UndoCreated(p)
  \/ Refuse(p) \/ BindHub(p) \/ BindPanel(p) \/ Build(p) \/ BuildDesktop(p)
  \/ StartLoop(p) \/ EndScan(p) \/ Serve(p) \/ Announce(p)
  \/ StartClosing(p) \/ EndLoop(p) \/ Release(p)

HandlerStep(p) == WritePending(p) \/ ReturnHandler(p)

\* What the user does, and what goes wrong.
Happens(p) == \/ Click(p) \/ AskFails(p) \/ AnswerWindow(p) \/ CloseBox(p)
              \/ AskStop(p) \/ CloseEvent(p) \/ Crash(p) \/ Kill(p)

Next == \E p \in Launches :
          OwnStep(p) \/ RequestStop(p) \/ HandlerStep(p) \/ Happens(p)

Spec == Init /\ [][Next]_vars

\* A process that can go on does: no step of it waits for a user or for another
\* process for ever, the loop takes its turns however often a stop is asked for, and
\* the system runs the thread of a close event.
FairSpec == /\ Spec
            /\ \A p \in Launches : /\ WF_vars(OwnStep(p))
                                   /\ WF_vars(RequestStop(p))
                                   /\ WF_vars(HandlerStep(p))

----------------------------------------------------------------------------

TypeOK == /\ launch \in [Launches -> Launch]
          /\ handles \in [Workspaces -> SUBSET Launches]
          /\ port \in [Ports -> Launches \cup {Free}]
          /\ folder \in [Workspaces -> SUBSET Parts]

\* However clicks, failures and kills interleave, one launch of a workspace at most
\* is between the mutex and the end of main: its records have one writer.
OneHubAWorkspace ==
  \A p, q \in Launches : /\ At(p) \in Inside /\ At(q) \in Inside
                         /\ Workspace[p] = Workspace[q]
                         => p = q

\* A port is held by a hub that is not over, and by a failed launch only where
\* no handler of the failure closes it: never by a launch without the mutex.
PortsUnderTheLock ==
  \A p \in Launches : (\E x \in Ports : port[x] = p) =>
     /\ launch[p].owned /\ p \in handles[Workspace[p]]
     /\ At(p) \in Inside \/ launch[p].why = "unreleased"

\* A start that is refused for its data folder has taken back what it made, and that
\* alone, whatever earlier launches left there when they failed or were killed: what
\* stays could not be removed, or is the data folder around it.
RefusalTakesBack ==
  [][\A p \in Launches :
       LET l == launch[p]
           left == folder[Workspace[p]]
       IN  l.at = "undoing" /\ launch'[p].at = "error" =>
             /\ left \cap l.created \subseteq
                  l.stuck \cup IF l.stuck = {} THEN {} ELSE {"data"}
             /\ Parts \ l.created \subseteq left]_vars

\* A hub whose loop is over has recorded its start and, once, its stop: whether the
\* stop came before the loop, from a signal as the servers start, or with a crash.
EveryRunIsRecorded ==
  \A p \in Launches : At(p) = "ended" => launch[p].starts = 1 /\ launch[p].stops = 1

\* A click is answered: by a dashboard, the setup window or an error box, unless
\* the process ends.
EveryClickIsAnswered ==
  \A p \in Launches : At(p) = "ask" ~> \/ At(p) \in {"window", "error", "gone"}
                                        \/ launch[p].shown # Free
                                        \/ launch[p].stopping

\* A stop asked for at any moment of Hub.run, the loop set or not, ends the hub.
EveryStopEndsTheHub ==
  \A p \in Launches : launch[p].pending \/ launch[p].queued \/ launch[p].stopping
                       ~> At(p) \in {"error", "gone"}

\* What the code promises and does not keep (README, "Other observations").

\* The dashboard that opens is the one of the folder that was clicked.
OpensItsOwn ==
  \A p \in Launches : launch[p].shown \in {Free, Workspace[p]}

\* A launch says "RCO is still starting" when one of its folder is.
SaysStartingWhenStarting ==
  [][\A p \in Launches : launch[p].why # "still_starting" /\ launch'[p].why = "still_starting"
        => \E q \in Launches : /\ Workspace[q] = Workspace[p]
                               /\ At(q) \in Inside \ {"closing", "ended"}]_vars

\* A stop that was asked for before the loop is carried out as the servers start.
PendingStopHeeded ==
  \A p \in Launches : At(p) \in {"startup", "serving"} /\ launch[p].pending
                      => launch[p].stopping

=============================================================================
