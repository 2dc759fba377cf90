---------------------------- MODULE Launch_proofs ----------------------------
(***************************************************************************)
(* What holds of Launch for every set of launches and workspaces: the      *)
(* types, that a workspace has one hub, who may hold a port, that a        *)
(* refusal takes back the folders it made, and that every run is recorded. *)
(*                                                                         *)
(* A step changes one launch. Changes(p) says what a step of p may do to   *)
(* what the launches share; every action is shown to be such a step, and   *)
(* such a step keeps the invariant.                                        *)
(***************************************************************************)
EXTENDS Launch, TLAPS

\* Where a launch may hold a port.
Bound == {"bind_panel", "init", "desktop_init", "run", "scan", "startup", "serving",
          "closing", "ended"}

\* What is true of one launch, whatever the others do.
Sane(l) == /\ l.at \in Inside => l.owned
           /\ l.at \in Handling \cup {"desktop_init", "ended"} => l.starts = 1
           /\ l.at \in {"closing", "ended"} => l.stopping
           /\ l.stops = IF l.stopping THEN 1 ELSE 0

MayHoldPorts(l) == /\ l.owned
                   /\ \/ l.at \in Bound
                      \/ l.at = "error" /\ l.why = "unreleased"

\* Where a launch changes the data folder.
Changing == {"making", "undoing"}

\* What a launch there has made of the folder: what is not in its list was there and
\* stays, and of what undo_created has tried only what is stuck is left, or the data
\* folder around it, which it tries last.
Undoing(l, here) ==
  /\ l.at \in Changing =>
       /\ Parts \ l.created \subseteq here
       /\ "data" \in l.created => l.created = Parts
  /\ l.at = "undoing" =>
       /\ l.undo \subseteq l.created
       /\ "data" \in l.created /\ l.undo # {} => "data" \in l.undo
       /\ (here \cap l.created) \ l.undo
            \subseteq l.stuck \cup IF l.stuck = {} THEN {} ELSE {"data"}

OwnersHaveHandles ==
  \A p \in Launches : launch[p].owned => p \in handles[Workspace[p]]
OneOwner ==
  \A p, q \in Launches : launch[p].owned /\ launch[q].owned /\ Workspace[p] = Workspace[q]
                         => p = q
HoldersMay ==
  \A p \in Launches : (\E x \in Ports : port[x] = p) => MayHoldPorts(launch[p])
FoldersNested ==
  \A w \in Workspaces : folder[w] # {} => "data" \in folder[w]

IInv == /\ TypeOK
        /\ \A p \in Launches : Sane(launch[p])
        /\ OwnersHaveHandles
        /\ OneOwner
        /\ HoldersMay
        /\ FoldersNested
        /\ \A p \in Launches : Undoing(launch[p], folder[Workspace[p]])

\* What a step of p may do.
Changes(p) ==
  /\ TypeOK'
  /\ \A q \in Launches \ {p} : launch'[q] = launch[q]
  /\ Sane(launch'[p])
  /\ \A q \in Launches \ {p} : q \in handles[Workspace[q]] => q \in handles'[Workspace[q]]
  /\ launch'[p].owned => /\ p \in handles'[Workspace[p]]
                         /\ launch[p].owned \/ handles[Workspace[p]] = {}
  /\ \A x \in Ports : port'[x] \in {port[x], Free, p}
  /\ (\E x \in Ports : port'[x] = p) => MayHoldPorts(launch'[p])
  /\ FoldersNested'
  /\ \A w \in Workspaces \ {Workspace[p]} : folder'[w] = folder[w]
  /\ UNCHANGED folder \/ launch[p].owned
  /\ Undoing(launch'[p], folder'[Workspace[p]])

LEMMA NotUndoing == ASSUME NEW l, NEW here, l.at \notin Changing PROVE Undoing(l, here)
  BY DEF Undoing, Changing

----------------------------------------------------------------------------

LEMMA InitKeeps == Init => IInv
<1> SUFFICES ASSUME Init PROVE IInv
  OBVIOUS
<1> USE WorkspaceAssumption, FolderAssumption, FreeAssumption
<1>1. NewLaunch \in Launch /\ Sane(NewLaunch) /\ ~NewLaunch.owned
  BY DEF NewLaunch, Launch, Sane, Places, Reasons, Inside, Handling
<1>2. TypeOK
  <2>1. launch \in [Launches -> Launch]
    BY <1>1 DEF Init
  <2>2. handles \in [Workspaces -> SUBSET Launches]
    BY DEF Init
  <2>3. port \in [Ports -> Launches \cup {Free}]
    BY DEF Init
  <2>4. folder \in [Workspaces -> SUBSET Parts]
    BY DEF Init
  <2> QED
    BY <2>1, <2>2, <2>3, <2>4 DEF TypeOK
<1>3. \A p \in Launches : launch[p] = NewLaunch
  BY DEF Init
<1>4. \A p \in Launches : Sane(launch[p])
  BY <1>1, <1>3
<1>5. OwnersHaveHandles /\ OneOwner
  BY <1>1, <1>3 DEF OwnersHaveHandles, OneOwner
<1>6. HoldersMay
  BY DEF Init, HoldersMay
<1>7. FoldersNested
  BY DEF Init, FoldersNested
<1>8. \A p \in Launches : Undoing(launch[p], folder[Workspace[p]])
  <2>1. NewLaunch.at \notin Changing
    BY DEF NewLaunch, Changing
  <2> QED
    BY <1>3, <2>1, NotUndoing
<1> QED
  BY <1>2, <1>4, <1>5, <1>6, <1>7, <1>8 DEF IInv

\* A step that keeps within Changes keeps the invariant.
LEMMA ChangesKeep == ASSUME NEW p \in Launches, IInv, Changes(p)
                     PROVE  IInv'
<1> USE WorkspaceAssumption, FreeAssumption
<1>1. TypeOK'
  BY DEF Changes
<1>2. \A q \in Launches : Sane(launch[q])'
  BY DEF Changes, IInv
<1>3. OwnersHaveHandles'
  BY DEF Changes, IInv, OwnersHaveHandles
<1>4. OneOwner'
  BY DEF Changes, IInv, OneOwner, OwnersHaveHandles
<1>5. HoldersMay'
  BY DEF Changes, IInv, HoldersMay
<1>6. FoldersNested'
  BY DEF Changes
<1>7. ASSUME NEW q \in Launches PROVE Undoing(launch[q], folder[Workspace[q]])'
  <2>1. CASE q = p
    BY <2>1 DEF Changes
  <2>2. CASE q # p
    <3>1. launch'[q] = launch[q] /\ Undoing(launch[q], folder[Workspace[q]])
      BY <2>2 DEF Changes, IInv
    <3>2. CASE launch[q].at \in Changing
      <4>1. launch[q].owned
        BY <3>2 DEF IInv, Sane, Changing, Inside
      <4>2. folder'[Workspace[q]] = folder[Workspace[q]]
        BY <2>2, <4>1 DEF Changes, IInv, OneOwner
      <4> QED
        BY <3>1, <4>2
    <3>3. CASE launch[q].at \notin Changing
      BY <3>1, <3>3, NotUndoing
    <3> QED
      BY <3>2, <3>3
  <2> QED
    BY <2>1, <2>2
<1> QED
  BY <1>1, <1>2, <1>3, <1>4, <1>5, <1>6, <1>7 DEF IInv

\* A step of p that leaves alone what the launches share, but for the data folder of
\* the workspace, if p has its mutex.
Local(p) == /\ UNCHANGED <<handles, port>>
            /\ folder' \in [Workspaces -> SUBSET Parts]
            /\ FoldersNested'
            /\ \A w \in Workspaces \ {Workspace[p]} : folder'[w] = folder[w]
            /\ UNCHANGED folder \/ launch[p].owned

LEMMA KeepsIsLocal ==
  ASSUME NEW p \in Launches, IInv, UNCHANGED <<handles, port, folder>> PROVE Local(p)
  BY DEF IInv, TypeOK, FoldersNested, Local

\* The value a launch gets from such a step.
LEMMA OwnChange ==
  ASSUME NEW p \in Launches, NEW l \in Launch, IInv, Local(p),
         launch' = [launch EXCEPT ![p] = l], Sane(l), l.owned = launch[p].owned,
         MayHoldPorts(launch[p]) => MayHoldPorts(l),
         Undoing(l, folder'[Workspace[p]])
  PROVE  Changes(p)
<1> USE WorkspaceAssumption, FreeAssumption
<1>1. TypeOK'
  BY DEF IInv, TypeOK, Local
<1>2. launch'[p] = l /\ \A q \in Launches \ {p} : launch'[q] = launch[q]
  BY DEF IInv, TypeOK
<1>3. /\ handles' = handles /\ port' = port /\ FoldersNested'
      /\ \A w \in Workspaces \ {Workspace[p]} : folder'[w] = folder[w]
      /\ UNCHANGED folder \/ launch[p].owned
  BY DEF Local
<1>4. (\E x \in Ports : port[x] = p) => MayHoldPorts(launch[p])
  BY DEF IInv, HoldersMay
<1>5. launch[p].owned => p \in handles[Workspace[p]]
  BY DEF IInv, OwnersHaveHandles
<1> QED
  BY <1>1, <1>2, <1>3, <1>4, <1>5 DEF Changes

\* The launch of an error box, of which nothing but the mutex outlives the failure.
Box(reason, owned) == [NewLaunch EXCEPT !.at = "error", !.why = reason, !.owned = owned]

LEMMA NewLaunchIsSane ==
  /\ NewLaunch \in Launch /\ NewLaunch.at = "off"
  /\ ~NewLaunch.owned /\ ~NewLaunch.stopping /\ NewLaunch.stops = 0
  BY DEF NewLaunch, Launch, Places, Reasons

LEMMA BoxIsSane ==
  ASSUME NEW reason \in Reasons, NEW owned \in BOOLEAN
  PROVE  /\ Box(reason, owned) \in Launch
         /\ Sane(Box(reason, owned))
         /\ Box(reason, owned).owned = owned
         /\ Box(reason, owned).at = "error"
         /\ Box(reason, owned).why = reason
         /\ \A here : Undoing(Box(reason, owned), here)
<1> DEFINE l == Box(reason, owned)
<1>1. l \in Launch
  BY NewLaunchIsSane DEF Box, Launch, Places
<1>2. l.owned = owned /\ l.at = "error" /\ l.why = reason
  BY NewLaunchIsSane DEF Box, Launch
<1>3. l.stops = 0 /\ ~l.stopping
  BY NewLaunchIsSane DEF Box, Launch
<1>4. Sane(l)
  BY <1>2, <1>3 DEF Sane, Inside, Handling
<1>5. l.at \notin Changing
  BY <1>2 DEF Changing
<1> HIDE DEF l
<1>6. \A here : Undoing(l, here)
  BY <1>5, NotUndoing
<1> QED
  BY <1>1, <1>2, <1>4, <1>6 DEF l

LEMMA Owned == ASSUME NEW p \in Launches, IInv
               PROVE  /\ launch[p] \in Launch /\ launch[p].owned \in BOOLEAN
                      /\ Sane(launch[p])
<1>1. launch[p] \in Launch /\ Sane(launch[p])
  BY DEF IInv, TypeOK
<1> QED
  BY <1>1 DEF Launch

\* A failure that releases nothing, of a launch that has no port or may keep it.
LEMMA FailureKeeps ==
  ASSUME NEW p \in Launches, NEW reason \in Reasons, IInv, Fails(p, reason), Local(p),
         MayHoldPorts(launch[p]) => reason = "unreleased" \/ \A x \in Ports : port[x] # p
  PROVE  Changes(p)
<1> DEFINE l == Box(reason, launch[p].owned)
<1>1. /\ l \in Launch /\ Sane(l) /\ l.owned = launch[p].owned
      /\ l.at = "error" /\ l.why = reason
      /\ Undoing(l, folder'[Workspace[p]])
  BY BoxIsSane, Owned
<1>2. launch' = [launch EXCEPT ![p] = l]
  BY DEF Fails, Box
<1> HIDE DEF l
<1>3. CASE \A x \in Ports : port[x] # p
  <2>1. TypeOK'
    BY <1>1, <1>2 DEF IInv, TypeOK, Local
  <2>2. launch'[p] = l /\ \A q \in Launches \ {p} : launch'[q] = launch[q]
    BY <1>2 DEF IInv, TypeOK
  <2>3. launch[p].owned => p \in handles[Workspace[p]]
    BY DEF IInv, OwnersHaveHandles
  <2> QED
    BY <1>1, <1>3, <2>1, <2>2, <2>3 DEF Changes, Local
<1>4. CASE ~\A x \in Ports : port[x] # p
  <2>1. MayHoldPorts(launch[p]) => MayHoldPorts(l)
    BY <1>1, <1>4 DEF MayHoldPorts
  <2> QED
    BY <1>1, <1>2, <2>1, OwnChange
<1> QED
  BY <1>3, <1>4

\* A failure that closes both ports.
LEMMA ReleaseKeeps ==
  ASSUME NEW p \in Launches, NEW reason \in Reasons, IInv, Fails(p, reason),
         port' = Released(p), UNCHANGED <<handles, folder>>
  PROVE  Changes(p)
<1> USE WorkspaceAssumption, FreeAssumption
<1> DEFINE l == Box(reason, launch[p].owned)
<1>1. /\ l \in Launch /\ Sane(l) /\ l.owned = launch[p].owned
      /\ Undoing(l, folder'[Workspace[p]])
  BY BoxIsSane, Owned
<1>2. launch' = [launch EXCEPT ![p] = l]
  BY DEF Fails, Box
<1> HIDE DEF l
<1>3. port' \in [Ports -> Launches \cup {Free}]
  BY DEF IInv, TypeOK, Released
<1>4. \A x \in Ports : port'[x] \in {port[x], Free} /\ port'[x] # p
  BY DEF Released
<1>5. TypeOK'
  BY <1>1, <1>2, <1>3 DEF IInv, TypeOK
<1>6. launch'[p] = l /\ \A q \in Launches \ {p} : launch'[q] = launch[q]
  BY <1>2 DEF IInv, TypeOK
<1>7. FoldersNested'
  BY DEF IInv, FoldersNested
<1>8. launch[p].owned => p \in handles[Workspace[p]]
  BY DEF IInv, OwnersHaveHandles
<1> QED
  BY <1>1, <1>4, <1>5, <1>6, <1>7, <1>8 DEF Changes

\* The end of a process.
LEMMA EndKeeps ==
  ASSUME NEW p \in Launches, NEW l \in Launch, IInv,
         launch' = [launch EXCEPT ![p] = l], Sane(l), ~l.owned, l.at = "gone",
         handles' = [handles EXCEPT ![Workspace[p]] = @ \ {p}],
         \/ port' = Released(p)
         \/ port' = port /\ \A x \in Ports : port[x] # p,
         UNCHANGED folder
  PROVE  Changes(p)
<1> USE WorkspaceAssumption, FreeAssumption
<1>1. port' \in [Ports -> Launches \cup {Free}]
  BY DEF IInv, TypeOK, Released
<1>2. \A x \in Ports : port'[x] \in {port[x], Free} /\ port'[x] # p
  BY DEF Released
<1>3. /\ handles' \in [Workspaces -> SUBSET Launches]
      /\ \A q \in Launches \ {p} : q \in handles[Workspace[q]] => q \in handles'[Workspace[q]]
  BY DEF IInv, TypeOK
<1>4. TypeOK'
  BY <1>1, <1>3 DEF IInv, TypeOK
<1>5. launch'[p] = l /\ \A q \in Launches \ {p} : launch'[q] = launch[q]
  BY DEF IInv, TypeOK
<1>6. FoldersNested' /\ Undoing(l, folder'[Workspace[p]])
  BY NotUndoing DEF IInv, FoldersNested, Changing
<1> QED
  BY <1>2, <1>3, <1>4, <1>5, <1>6 DEF Changes

LEMMA LeaveKeeps == ASSUME NEW p \in Launches, IInv, Leave(p) PROVE Changes(p)
<1> DEFINE l == [NewLaunch EXCEPT !.at = "gone"]
<1>1. l \in Launch /\ l.at = "gone"
  BY NewLaunchIsSane DEF Launch, Places
<1>2. ~l.owned /\ ~l.stopping /\ l.stops = 0
  BY NewLaunchIsSane DEF Launch
<1>3. Sane(l)
  BY <1>1, <1>2 DEF Sane, Inside, Handling
<1>4. /\ launch' = [launch EXCEPT ![p] = l]
      /\ handles' = [handles EXCEPT ![Workspace[p]] = @ \ {p}]
      /\ port' = Released(p) /\ UNCHANGED folder
  BY DEF Leave
<1> HIDE DEF l
<1> QED
  BY <1>1, <1>2, <1>3, <1>4, EndKeeps

\* A step on the way, of a launch that keeps the mutex and its ports.
LEMMA MoveKeeps ==
  ASSUME NEW p \in Launches, NEW place \in Places, IInv, Moves(p, place), Local(p),
         place \in Inside => launch[p].owned,
         place \in Handling \cup {"desktop_init", "ended"} => launch[p].starts = 1,
         place \in {"closing", "ended"} => launch[p].stopping,
         At(p) \in Bound => place \in Bound,
         At(p) # "error", place \notin Changing
  PROVE  Changes(p)
<1> DEFINE l == [launch[p] EXCEPT !.at = place]
<1>1. launch[p] \in Launch /\ Sane(launch[p])
  BY Owned
<1>2. l \in Launch /\ l.owned = launch[p].owned
  BY <1>1 DEF Launch
<1>3. Sane(l)
  BY <1>1 DEF Launch, Sane
<1>4. launch' = [launch EXCEPT ![p] = l]
  BY DEF Moves
<1>5. MayHoldPorts(launch[p]) => MayHoldPorts(l)
  BY <1>1 DEF MayHoldPorts, At, Launch
<1>6. l.at \notin Changing
  BY <1>1 DEF Launch
<1> HIDE DEF l
<1>7. Undoing(l, folder'[Workspace[p]])
  BY <1>6, NotUndoing
<1> QED
  BY <1>2, <1>3, <1>4, <1>5, <1>7, OwnChange

----------------------------------------------------------------------------
\* The launcher.

LEMMA ClickKeeps == ASSUME NEW p \in Launches, IInv, Click(p) PROVE Changes(p)
<1>1. "ask" \in Places /\ "ask" \notin Inside \cup Bound /\ At(p) \notin Bound \cup {"error"}
  BY DEF Click, Places, Inside, Bound
<1>2. Moves(p, "ask") /\ Local(p)
  BY KeepsIsLocal DEF Click
<1> QED
  BY <1>1, <1>2, MoveKeeps DEF Inside, Handling, Changing

LEMMA AskHealthKeeps ==
  ASSUME NEW p \in Launches, IInv, AskHealth(p) \/ AskFails(p) PROVE Changes(p)
<1>1. Local(p)
  BY KeepsIsLocal DEF AskHealth, AskFails
<1>2. ~MayHoldPorts(launch[p])
  BY DEF AskHealth, AskFails, At, MayHoldPorts, Bound
<1>3. CASE Fails(p, "failed")
  BY <1>1, <1>2, <1>3, FailureKeeps DEF Reasons
<1>4. CASE \E place \in {"reopen", "ask", "lock"} : Moves(p, place)
  <2>1. PICK place \in {"reopen", "ask", "lock"} : Moves(p, place)
    BY <1>4
  <2>2. /\ place \in Places /\ place \notin Inside \cup Handling \cup Bound \cup Changing
        /\ place \notin {"desktop_init", "ended", "closing"}
        /\ At(p) \notin Bound \cup {"error"}
    BY DEF AskHealth, AskFails, Places, Inside, Handling, Bound, Changing
  <2> QED
    BY <1>1, <2>1, <2>2, MoveKeeps
<1> QED
  BY <1>3, <1>4 DEF AskHealth, AskFails

LEMMA AskOpenKeeps == ASSUME NEW p \in Launches, IInv, AskOpen(p) PROVE Changes(p)
<1> USE WorkspaceAssumption
<1>1. ~MayHoldPorts(launch[p])
  BY DEF AskOpen, At, MayHoldPorts, Bound
<1>2. launch \in [Launches -> Launch]
  BY DEF IInv, TypeOK
<1>3. CASE \E q \in Dashboards : launch' = [launch EXCEPT ![p] =
                      [NewLaunch EXCEPT !.at = "gone", !.shown = Workspace[q]]]
  <2>1. PICK q \in Dashboards : launch' = [launch EXCEPT ![p] =
                      [NewLaunch EXCEPT !.at = "gone", !.shown = Workspace[q]]]
    BY <1>3
  <2> DEFINE l == [NewLaunch EXCEPT !.at = "gone", !.shown = Workspace[q]]
  <2>2. l \in Launch /\ l.at = "gone"
    BY NewLaunchIsSane DEF Launch, Places, Dashboards
  <2>3. ~l.owned /\ ~l.stopping /\ l.stops = 0
    BY NewLaunchIsSane DEF Launch
  <2>4. Sane(l)
    BY <2>2, <2>3 DEF Sane, Inside, Handling
  <2>5. launch' = [launch EXCEPT ![p] = l] /\ At(p)' = "gone"
    BY <1>2, <2>1, <2>2 DEF At
  <2>6. handles' = [handles EXCEPT ![Workspace[p]] = @ \ {p}] /\ UNCHANGED <<port, folder>>
    BY <2>5 DEF AskOpen
  <2>7. \A x \in Ports : port[x] # p
    BY <1>1 DEF IInv, HoldersMay
  <2> HIDE DEF l
  <2> QED
    BY <2>2, <2>3, <2>4, <2>5, <2>6, <2>7, EndKeeps
<1>4. CASE Fails(p, "failed")
  <2>1. At(p)' = "error"
    BY <1>2, <1>4, BoxIsSane, Owned DEF At, Fails, Box, Reasons
  <2>2. Local(p)
    BY <2>1, KeepsIsLocal DEF AskOpen
  <2> QED
    BY <1>1, <1>4, <2>2, FailureKeeps DEF Reasons
<1> QED
  BY <1>3, <1>4 DEF AskOpen

\* The mutex is asked for and owned, or not.
LEMMA LockKeeps ==
  ASSUME NEW p \in Launches, IInv, At(p) = "lock", UNCHANGED <<port, folder>>,
         handles' = [handles EXCEPT ![Workspace[p]] = @ \cup {p}],
         launch' = [launch EXCEPT
                      ![p].owned = handles[Workspace[p]] = {},
                      ![p].at = IF handles[Workspace[p]] = {} THEN "setup" ELSE "ask"]
  PROVE  Changes(p)
<1> USE WorkspaceAssumption
<1> DEFINE free == handles[Workspace[p]] = {}
           l == [launch[p] EXCEPT !.owned = free, !.at = IF free THEN "setup" ELSE "ask"]
<1>1. launch[p] \in Launch /\ Sane(launch[p]) /\ launch[p].at = "lock"
  BY Owned DEF At
<1>2. l \in Launch
  BY <1>1 DEF Launch, Places
<1>3. (l.owned <=> free) /\ l.at = (IF free THEN "setup" ELSE "ask")
  BY <1>1 DEF Launch
<1>4. l.stops = launch[p].stops /\ l.stopping = launch[p].stopping
  BY <1>1 DEF Launch
<1>5. Sane(l)
  BY <1>1, <1>3, <1>4 DEF Sane, Inside, Handling
<1>6. /\ launch' = [launch EXCEPT ![p] = l]
      /\ handles' = [handles EXCEPT ![Workspace[p]] = @ \cup {p}]
      /\ UNCHANGED <<port, folder>>
  OBVIOUS
<1>12. l.at \notin Changing
  BY <1>3 DEF Changing
<1> HIDE DEF l
<1>7. launch'[p] = l /\ \A q \in Launches \ {p} : launch'[q] = launch[q]
  BY <1>6 DEF IInv, TypeOK
<1>8. TypeOK'
  BY ONLY IInv, WorkspaceAssumption, p \in Launches, <1>2, <1>6 DEF IInv, TypeOK
<1>9. /\ p \in handles'[Workspace[p]]
      /\ \A q \in Launches \ {p} : q \in handles[Workspace[q]] => q \in handles'[Workspace[q]]
  BY ONLY IInv, WorkspaceAssumption, p \in Launches, <1>6 DEF IInv, TypeOK
<1>10. \A x \in Ports : port'[x] # p
  BY <1>1, <1>6 DEF IInv, HoldersMay, MayHoldPorts, Bound
<1>11. FoldersNested' /\ Undoing(l, folder'[Workspace[p]])
  BY <1>6, <1>12, NotUndoing DEF IInv, FoldersNested
<1> QED
  BY <1>3, <1>5, <1>6, <1>7, <1>8, <1>9, <1>10, <1>11 DEF Changes

LEMMA TakeLockKeeps == ASSUME NEW p \in Launches, IInv, TakeLock(p) PROVE Changes(p)
<1>1. CASE Fails(p, "failed") /\ UNCHANGED handles
  <2>1. Local(p) /\ ~MayHoldPorts(launch[p])
    BY <1>1, KeepsIsLocal DEF TakeLock, At, MayHoldPorts, Bound
  <2> QED
    BY <1>1, <2>1, FailureKeeps DEF Reasons
<1> QED
  BY <1>1, LockKeeps DEF TakeLock

LEMMA GiveUpKeeps == ASSUME NEW p \in Launches, IInv, GiveUp(p) PROVE Changes(p)
<1>1. Fails(p, "still_starting") /\ Local(p) /\ ~MayHoldPorts(launch[p])
  BY KeepsIsLocal DEF GiveUp, At, MayHoldPorts, Bound
<1> QED
  BY <1>1, FailureKeeps DEF Reasons

\* The setup and its window.
LEMMA SetupKeeps ==
  ASSUME NEW p \in Launches, IInv, CheckSetup(p) \/ AnswerWindow(p)
  PROVE  Changes(p)
<1>1. CASE Leave(p)
  BY <1>1, LeaveKeeps
<1>2. CASE ~Leave(p)
  <2>1. At(p) \in {"setup", "window"} /\ Local(p)
    BY <1>2, KeepsIsLocal DEF CheckSetup, AnswerWindow
  <2>2. launch[p].owned /\ ~MayHoldPorts(launch[p])
    BY <2>1, Owned DEF Sane, Inside, At, MayHoldPorts, Bound
  <2>3. CASE Fails(p, "failed")
    BY <2>1, <2>2, <2>3, FailureKeeps DEF Reasons
  <2>4. CASE \E place \in {"window", "preflight"} : Moves(p, place)
    <3>1. PICK place \in {"window", "preflight"} : Moves(p, place)
      BY <2>4
    <3>2. /\ place \in Places
          /\ place \notin Handling \cup Changing \cup {"desktop_init", "ended", "closing"}
          /\ At(p) \notin Bound \cup {"error"}
      BY <2>1 DEF Places, Handling, Bound, Changing
    <3> QED
      BY <2>1, <2>2, <3>1, <3>2, MoveKeeps
  <2> QED
    BY <1>2, <2>3, <2>4 DEF CheckSetup, AnswerWindow
<1> QED
  BY <1>1, <1>2

----------------------------------------------------------------------------
\* Hub.create and Hub.__init__.

\* A step of a launch that has no port yet, at the folder or just before it.
LEMMA FolderKeeps ==
  ASSUME NEW p \in Launches, NEW l \in Launch, IInv, Local(p),
         At(p) \in {"preflight"} \cup Changing, l.at \in {"bind_hub"} \cup Changing,
         launch' = [launch EXCEPT ![p] = l],
         l.owned = launch[p].owned,
         l.stops = launch[p].stops /\ l.stopping = launch[p].stopping,
         Undoing(l, folder'[Workspace[p]])
  PROVE  Changes(p)
<1>1. launch[p].owned /\ Sane(launch[p]) /\ ~MayHoldPorts(launch[p])
  BY Owned DEF Sane, Inside, At, MayHoldPorts, Bound, Changing
<1>2. Sane(l)
  BY <1>1 DEF Sane, Handling, Changing
<1> QED
  BY <1>1, <1>2, OwnChange

\* A failure of such a launch.
LEMMA FolderFails ==
  ASSUME NEW p \in Launches, IInv, At(p) \in {"preflight"} \cup Changing,
         Fails(p, "failed"), UNCHANGED <<handles, port, folder>>
  PROVE  Changes(p)
<1>1. Local(p) /\ ~MayHoldPorts(launch[p])
  BY KeepsIsLocal DEF At, MayHoldPorts, Bound, Changing
<1> QED
  BY <1>1, FailureKeeps DEF Reasons

LEMMA AtTheFolder ==
  ASSUME NEW p \in Launches, IInv
  PROVE  /\ launch[p] \in Launch /\ Workspace[p] \in Workspaces
         /\ launch[p].created \in SUBSET Parts /\ launch[p].undo \in SUBSET Parts
         /\ folder \in [Workspaces -> SUBSET Parts]
         /\ folder[Workspace[p]] # {} => "data" \in folder[Workspace[p]]
         /\ Undoing(launch[p], folder[Workspace[p]])
<1>1. launch[p] \in Launch
  BY Owned
<1>2. launch[p].created \in SUBSET Parts /\ launch[p].undo \in SUBSET Parts
  BY <1>1 DEF Launch
<1> QED
  BY <1>1, <1>2, WorkspaceAssumption DEF IInv, TypeOK, FoldersNested

\* The new contents of the folder of a launch that has the mutex.
LEMMA FolderIsLocal ==
  ASSUME NEW p \in Launches, IInv, At(p) \in Changing, NEW here \in SUBSET Parts,
         here # {} => "data" \in here, UNCHANGED <<handles, port>>,
         folder' = [folder EXCEPT ![Workspace[p]] = here]
  PROVE  Local(p) /\ folder'[Workspace[p]] = here
<1>1. launch[p].owned
  BY Owned DEF Sane, Inside, At, Changing
<1>2. folder \in [Workspaces -> SUBSET Parts] /\ Workspace[p] \in Workspaces
  BY AtTheFolder
<1>3. FoldersNested'
  BY <1>2 DEF IInv, FoldersNested
<1> QED
  BY <1>1, <1>2, <1>3 DEF Local

LEMMA PreflightKeeps == ASSUME NEW p \in Launches, IInv, Preflight(p) PROVE Changes(p)
<1> DEFINE here == folder[Workspace[p]]
           l == [launch[p] EXCEPT !.at = "making", !.created = Parts \ here]
<1>1. CASE launch' = [launch EXCEPT ![p] = l]
  <2>1. launch[p] \in Launch /\ here \in SUBSET Parts /\ (here # {} => "data" \in here)
    BY AtTheFolder
  <2>2. l \in Launch
    BY <2>1 DEF Launch, Places
  <2>3. l.at = "making" /\ l.created = Parts \ here
    BY <2>1 DEF Launch
  <2>4. l.owned = launch[p].owned
    BY <2>1 DEF Launch
  <2>5. l.stops = launch[p].stops
    BY <2>1 DEF Launch
  <2>6. l.stopping = launch[p].stopping
    BY <2>1 DEF Launch
  <2> HIDE DEF l
  <2>7. Undoing(l, here)
    BY <2>1, <2>3 DEF Undoing
  <2>8. Local(p) /\ folder' = folder /\ At(p) = "preflight"
    BY KeepsIsLocal DEF Preflight
  <2> QED
    BY <1>1, <2>2, <2>3, <2>4, <2>5, <2>6, <2>7, <2>8, FolderKeeps DEF Changing
<1>2. CASE Fails(p, "failed")
  BY <1>2, FolderFails DEF Preflight
<1> QED
  BY <1>1, <1>2 DEF Preflight

LEMMA WriteCanaryKeeps == ASSUME NEW p \in Launches, IInv, WriteCanary(p) PROVE Changes(p)
<1> DEFINE here == folder[Workspace[p]]
<1>1. CASE Fails(p, "failed") /\ UNCHANGED folder
  BY <1>1, FolderFails DEF WriteCanary, Changing
<1>2. ASSUME NEW x \in Parts, FirstOf(Parts \ here, Making, x), UNCHANGED launch,
             folder' = [folder EXCEPT ![Workspace[p]] = @ \cup {x}]
      PROVE  Changes(p)
  <2>1. /\ launch[p] \in Launch /\ here \in SUBSET Parts /\ (here # {} => "data" \in here)
        /\ Undoing(launch[p], here) /\ At(p) = "making"
    BY AtTheFolder DEF WriteCanary
  <2>2. "data" \in here \cup {x}
    <3>1. "data" \notin here => x = "data"
      BY <1>2, <2>1 DEF FirstOf, Making, Parts
    <3> QED
      BY <3>1
  <2>3. Local(p) /\ folder'[Workspace[p]] = here \cup {x}
    <3> DEFINE more == here \cup {x}
    <3>1. more \in SUBSET Parts /\ "data" \in more
      BY <2>1, <2>2
    <3>2. folder' = [folder EXCEPT ![Workspace[p]] = more]
      BY <1>2
    <3> HIDE DEF more
    <3>3. Local(p) /\ folder'[Workspace[p]] = more
      BY <2>1, <3>1, <3>2, FolderIsLocal DEF WriteCanary, Changing
    <3> QED
      BY <3>3 DEF more
  <2>4. Undoing(launch[p], here \cup {x})
    BY <2>1 DEF Undoing, Changing, At
  <2>5. launch' = [launch EXCEPT ![p] = launch[p]]
    BY <1>2 DEF IInv, TypeOK
  <2> QED
    BY <2>1, <2>3, <2>4, <2>5, FolderKeeps DEF Changing, At
<1> QED
  BY <1>1, <1>2 DEF WriteCanary

LEMMA CheckRedirectionKeeps ==
  ASSUME NEW p \in Launches, IInv, CheckRedirection(p) PROVE Changes(p)
<1> DEFINE here == folder[Workspace[p]]
<1>1. /\ launch[p] \in Launch /\ Undoing(launch[p], here)
      /\ launch[p].created \in SUBSET Parts
      /\ At(p) = "making" /\ Local(p) /\ UNCHANGED folder
  BY AtTheFolder, KeepsIsLocal DEF CheckRedirection
<1>2. CASE launch' = [launch EXCEPT ![p].at = "bind_hub", ![p].created = {}]
  <2> DEFINE l == [launch[p] EXCEPT !.at = "bind_hub", !.created = {}]
  <2>1. l \in Launch
    BY <1>1 DEF Launch, Places
  <2>2. l.at = "bind_hub" /\ l.owned = launch[p].owned
    BY <1>1 DEF Launch
  <2>3. l.stops = launch[p].stops
    BY <1>1 DEF Launch
  <2>4. l.stopping = launch[p].stopping
    BY <1>1 DEF Launch
  <2>5. launch' = [launch EXCEPT ![p] = l]
    BY <1>2
  <2> HIDE DEF l
  <2>6. Undoing(l, folder'[Workspace[p]])
    BY <2>2, NotUndoing DEF Changing
  <2> QED
    BY <1>1, <2>1, <2>2, <2>3, <2>4, <2>5, <2>6, FolderKeeps DEF Changing
<1>3. CASE launch' = [launch EXCEPT ![p].at = "undoing", ![p].undo = launch[p].created]
  <2> DEFINE l == [launch[p] EXCEPT !.at = "undoing", !.undo = launch[p].created]
  <2>1. l \in Launch
    BY <1>1 DEF Launch, Places
  <2>2. l.at = "undoing" /\ l.owned = launch[p].owned
    BY <1>1 DEF Launch
  <2>3. l.stops = launch[p].stops
    BY <1>1 DEF Launch
  <2>4. l.stopping = launch[p].stopping
    BY <1>1 DEF Launch
  <2>5. launch' = [launch EXCEPT ![p] = l]
    BY <1>3
  <2>6. l.created = launch[p].created /\ l.undo = launch[p].created
    BY <1>1 DEF Launch
  <2> HIDE DEF l
  <2>7. Undoing(l, here)
    BY <1>1, <2>2, <2>6 DEF Undoing, Changing, At
  <2> QED
    BY <1>1, <2>1, <2>2, <2>3, <2>4, <2>5, <2>7, FolderKeeps DEF Changing
<1> QED
  BY <1>2, <1>3 DEF CheckRedirection

\* One part is tried: it goes, or it is stuck, or it is the data folder with something
\* in it.
LEMMA UndoCreatedKeeps == ASSUME NEW p \in Launches, IInv, UndoCreated(p) PROVE Changes(p)
<1> DEFINE here == folder[Workspace[p]]
           made == launch[p].created
           todo == launch[p].undo
           held == launch[p].stuck
<1>1. /\ launch[p] \in Launch /\ here \in SUBSET Parts /\ (here # {} => "data" \in here)
      /\ Undoing(launch[p], here) /\ At(p) = "undoing"
      /\ todo \in SUBSET Parts /\ folder \in [Workspaces -> SUBSET Parts]
  BY AtTheFolder DEF UndoCreated
<1>2. PICK x \in Parts, left \in SUBSET Parts, stuck \in SUBSET Parts :
        /\ FirstOf(todo, UndoTurn, x)
        /\ folder' = [folder EXCEPT ![Workspace[p]] = left]
        /\ launch' = [launch EXCEPT ![p].undo = @ \ {x}, ![p].stuck = stuck]
        /\ \/ left = here \ {x} /\ stuck = held /\ (x = "data" => here = {"data"})
           \/ left = here /\ stuck = held \cup {x}
           \/ left = here /\ stuck = held /\ x = "data" /\ here # {"data"}
  <2>1. PICK x \in Parts :
          /\ FirstOf(todo, UndoTurn, x)
          /\ \/ /\ x = "data" => here = {"data"}
                /\ folder' = [folder EXCEPT ![Workspace[p]] = @ \ {x}]
                /\ launch' = [launch EXCEPT ![p].undo = @ \ {x}]
             \/ /\ UNCHANGED folder
                /\ launch' = [launch EXCEPT ![p].undo = @ \ {x}, ![p].stuck = @ \cup {x}]
             \/ /\ UNCHANGED folder /\ x = "data" /\ here # {"data"}
                /\ launch' = [launch EXCEPT ![p].undo = @ \ {x}]
    BY DEF UndoCreated
  <2>2. folder = [folder EXCEPT ![Workspace[p]] = here]
    BY <1>1
  <2>3. [launch EXCEPT ![p].undo = @ \ {x}]
          = [launch EXCEPT ![p].undo = @ \ {x}, ![p].stuck = held]
    BY <1>1 DEF IInv, TypeOK, Launch
  <2>7. held \in SUBSET Parts
    BY <1>1 DEF Launch
  <2>4. CASE /\ x = "data" => here = {"data"}
             /\ folder' = [folder EXCEPT ![Workspace[p]] = @ \ {x}]
             /\ launch' = [launch EXCEPT ![p].undo = @ \ {x}]
    <3>1. here \ {x} \in SUBSET Parts
      BY <1>1
    <3> WITNESS x \in Parts, here \ {x} \in SUBSET Parts, held \in SUBSET Parts
    <3> QED
      BY <2>1, <2>3, <2>4
  <2>5. CASE /\ UNCHANGED folder
             /\ launch' = [launch EXCEPT ![p].undo = @ \ {x}, ![p].stuck = @ \cup {x}]
    <3>1. held \cup {x} \in SUBSET Parts
      BY <2>7
    <3> here \in SUBSET Parts
      BY <1>1
    <3> WITNESS x \in Parts, here \in SUBSET Parts, held \cup {x} \in SUBSET Parts
    <3> QED
      BY <2>1, <2>2, <2>5
  <2>6. CASE /\ UNCHANGED folder /\ x = "data" /\ here # {"data"}
             /\ launch' = [launch EXCEPT ![p].undo = @ \ {x}]
    <3> here \in SUBSET Parts
      BY <1>1
    <3> WITNESS x \in Parts, here \in SUBSET Parts, held \in SUBSET Parts
    <3> QED
      BY <2>1, <2>2, <2>3, <2>6
  <2> QED
    BY <2>1, <2>4, <2>5, <2>6
<1> DEFINE l == [launch[p] EXCEPT !.undo = todo \ {x}, !.stuck = stuck]
<1>3. held \in SUBSET Parts /\ stuck \in SUBSET Parts
  <2>1. held \in SUBSET Parts
    BY <1>1 DEF Launch
  <2> QED
    BY <1>2, <2>1
<1>4. launch' = [launch EXCEPT ![p] = l]
  BY <1>2
<1>5. l \in Launch
  BY <1>1, <1>3 DEF Launch
<1>6. l.at = "undoing" /\ l.owned = launch[p].owned
  BY <1>1 DEF Launch, At
<1>7. l.stops = launch[p].stops
  BY <1>1 DEF Launch
<1>8. l.stopping = launch[p].stopping
  BY <1>1 DEF Launch
<1>9. l.created = made /\ l.undo = todo \ {x} /\ l.stuck = stuck
  BY <1>1 DEF Launch
<1> HIDE DEF l
<1>10. todo \subseteq made /\ x \in todo
  BY <1>1, <1>2 DEF Undoing, FirstOf, At
<1>11. x = "data" => todo = {"data"}
  BY <1>1, <1>2 DEF FirstOf, UndoTurn, Parts
<1>12. Local(p) /\ folder'[Workspace[p]] = left
  <2>1. left \in SUBSET Parts /\ (left # {} => "data" \in left)
    BY <1>1, <1>2
  <2> QED
    BY <1>1, <1>2, <2>1, FolderIsLocal DEF UndoCreated, Changing
<1>13. Undoing(l, left)
  <2>1. /\ Parts \ made \subseteq here
        /\ "data" \in made => made = Parts
        /\ "data" \in made => "data" \in todo
        /\ (here \cap made) \ todo \subseteq held \cup IF held = {} THEN {} ELSE {"data"}
    BY <1>1, <1>10 DEF Undoing, Changing, At
  <2>2. Parts \ made \subseteq left
    BY <1>2, <1>10, <2>1
  <2>3. (left \cap made) \ (todo \ {x})
          \subseteq stuck \cup IF stuck = {} THEN {} ELSE {"data"}
    <3>1. CASE left = here \ {x} /\ stuck = held
      BY <2>1, <3>1
    <3>2. CASE left = here /\ stuck = held \cup {x}
      BY <2>1, <3>2
    <3>3. CASE left = here /\ stuck = held /\ x = "data" /\ here # {"data"}
      <4>1. todo = {"data"} /\ made = Parts
        BY <1>10, <1>11, <2>1, <3>3
      <4>2. here # {} => held # {}
        BY <1>1, <2>1, <3>3, <4>1
      <4> QED
        BY <2>1, <3>3, <4>1, <4>2
    <3> QED
      BY <1>2, <3>1, <3>2, <3>3
  <2>4. "data" \in made /\ todo \ {x} # {} => "data" \in todo \ {x}
    BY <1>11, <2>1
  <2> QED
    BY <1>6, <1>9, <1>10, <2>1, <2>2, <2>3, <2>4 DEF Undoing
<1> QED
  BY <1>1, <1>4, <1>5, <1>6, <1>7, <1>8, <1>12, <1>13, FolderKeeps DEF Changing

LEMMA RefuseKeeps == ASSUME NEW p \in Launches, IInv, Refuse(p) PROVE Changes(p)
  BY FolderFails DEF Refuse, Changing

\* A port is taken on the way from one place to another.
LEMMA BindKeeps ==
  ASSUME NEW p \in Launches, NEW x \in Ports, NEW place \in {"bind_panel", "init"}, IInv,
         At(p) \in {"bind_hub", "bind_panel"}, Moves(p, place),
         port' = [port EXCEPT ![x] = p], UNCHANGED <<handles, folder>>
  PROVE  Changes(p)
<1> USE WorkspaceAssumption
<1> DEFINE l == [launch[p] EXCEPT !.at = place]
<1>1. launch[p] \in Launch /\ Sane(launch[p]) /\ launch[p].owned
  BY Owned DEF Sane, Inside, At
<1>2. l \in Launch /\ l.owned /\ l.at = place
  BY <1>1 DEF Launch, Places
<1>3. l.stops = launch[p].stops /\ l.stopping = launch[p].stopping
  BY <1>1 DEF Launch
<1>4. Sane(l)
  BY <1>1, <1>2, <1>3 DEF Sane, Inside, Handling
<1>5. launch' = [launch EXCEPT ![p] = l]
  BY DEF Moves
<1>6. MayHoldPorts(l)
  BY <1>2 DEF MayHoldPorts, Bound
<1>11. l.at \notin Changing
  BY <1>2 DEF Changing
<1> HIDE DEF l
<1>7. TypeOK'
  BY <1>2, <1>5 DEF IInv, TypeOK
<1>8. launch'[p] = l /\ \A q \in Launches \ {p} : launch'[q] = launch[q]
  BY <1>5 DEF IInv, TypeOK
<1>9. \A y \in Ports : port'[y] \in {port[y], p}
  BY DEF IInv, TypeOK
<1>10. FoldersNested' /\ p \in handles[Workspace[p]]
  BY <1>1 DEF IInv, FoldersNested, OwnersHaveHandles
<1>12. Undoing(l, folder'[Workspace[p]])
  BY <1>11, NotUndoing
<1> QED
  BY <1>1, <1>4, <1>6, <1>7, <1>8, <1>9, <1>10, <1>12 DEF Changes

LEMMA BindHubKeeps == ASSUME NEW p \in Launches, IInv, BindHub(p) PROVE Changes(p)
<1>1. CASE Moves(p, "bind_panel") /\ port' = [port EXCEPT !["hub"] = p]
  BY <1>1, BindKeeps DEF BindHub, Ports
<1>2. CASE Fails(p, "failed") /\ UNCHANGED port
  <2>1. Local(p) /\ ~MayHoldPorts(launch[p])
    BY <1>2, KeepsIsLocal DEF BindHub, At, MayHoldPorts, Bound
  <2> QED
    BY <1>2, <2>1, FailureKeeps DEF Reasons
<1> QED
  BY <1>1, <1>2 DEF BindHub

LEMMA BindPanelKeeps == ASSUME NEW p \in Launches, IInv, BindPanel(p) PROVE Changes(p)
<1>1. CASE Moves(p, "init") /\ port' = [port EXCEPT !["panel"] = p]
  BY <1>1, BindKeeps DEF BindPanel, Ports
<1>2. CASE Fails(p, "failed") /\ port' = Released(p)
  BY <1>2, ReleaseKeeps DEF BindPanel, Reasons
<1> QED
  BY <1>1, <1>2 DEF BindPanel

LEMMA BuildKeeps == ASSUME NEW p \in Launches, IInv, Build(p) PROVE Changes(p)
<1>1. CASE launch' = [launch EXCEPT ![p].at = "desktop_init", ![p].starts = 1] /\ UNCHANGED port
  <2> DEFINE l == [launch[p] EXCEPT !.at = "desktop_init", !.starts = 1]
  <2>1. launch[p] \in Launch /\ Sane(launch[p]) /\ launch[p].owned
    BY Owned DEF Build, Sane, Inside, At
  <2>2. /\ l \in Launch
        /\ l.owned = launch[p].owned
        /\ l.at = "desktop_init" /\ l.starts = 1
    <3>4. 1 \in 0..1 /\ "desktop_init" \in Places
      BY DEF Places
    <3>1. l \in Launch
      BY <2>1, <3>4 DEF Launch
    <3>3. l.owned = launch[p].owned
      BY <2>1 DEF Launch
    <3>2. l.at = "desktop_init" /\ l.starts = 1
      BY <2>1 DEF Launch
    <3> QED
      BY <3>1, <3>2, <3>3
  <2>3. l.stops = launch[p].stops /\ l.stopping = launch[p].stopping
    BY <2>1 DEF Launch
  <2>4. Sane(l)
    BY <2>1, <2>2, <2>3 DEF Sane, Inside, Handling
  <2>5. MayHoldPorts(l)
    BY <2>1, <2>2 DEF MayHoldPorts, Bound
  <2>6. launch' = [launch EXCEPT ![p] = l] /\ Local(p)
    BY <1>1, KeepsIsLocal DEF Build
  <2> HIDE DEF l
  <2>7. Undoing(l, folder'[Workspace[p]])
    BY <2>2, NotUndoing DEF Changing
  <2> QED
    BY <2>2, <2>4, <2>5, <2>6, <2>7, OwnChange
<1>2. CASE Fails(p, "unreleased") /\ UNCHANGED port
  <2>1. Local(p)
    BY <1>2, KeepsIsLocal DEF Build
  <2> QED
    BY <1>2, <2>1, FailureKeeps DEF Reasons
<1>3. CASE Fails(p, "failed") /\ port' = Released(p)
  BY <1>3, ReleaseKeeps DEF Build, Reasons
<1> QED
  BY <1>1, <1>2, <1>3 DEF Build

LEMMA BuildDesktopKeeps == ASSUME NEW p \in Launches, IInv, BuildDesktop(p) PROVE Changes(p)
<1>1. Local(p) /\ launch[p].owned /\ launch[p].starts = 1
  BY KeepsIsLocal, Owned DEF BuildDesktop, Sane, Inside, Handling, At
<1>2. CASE Moves(p, "run")
  <2>1. /\ "run" \in Places \cap Bound /\ "run" \notin {"ended", "closing"} \cup Changing
        /\ At(p) # "error"
    BY DEF BuildDesktop, Places, Bound, Changing
  <2> QED
    BY <1>1, <1>2, <2>1, MoveKeeps
<1>3. CASE Fails(p, "unreleased")
  BY <1>1, <1>3, FailureKeeps DEF Reasons
<1> QED
  BY <1>2, <1>3 DEF BuildDesktop

----------------------------------------------------------------------------
\* Hub.run.

LEMMA RunPlaces ==
  /\ Handling \cup {"ended"} \subseteq Places \cap Inside \cap Bound
  /\ Looping \subseteq Handling
  BY DEF Handling, Looping, Places, Inside, Bound

LEMMA StoppedIsSane ==
  ASSUME NEW h \in Launch, h.stops = IF h.stopping THEN 1 ELSE 0
  PROVE  /\ Stopped(h) \in Launch
         /\ Stopped(h).stopping /\ Stopped(h).stops = 1
         /\ Stopped(h).owned = h.owned /\ Stopped(h).starts = h.starts
         /\ Stopped(h).at = h.at
<1>1. CASE h.stopping
  BY <1>1 DEF Stopped
<1>2. CASE ~h.stopping
  <2> DEFINE s == [h EXCEPT !.stopping = TRUE, !.stops = @ + 1]
  <2>1. Stopped(h) = s /\ h.stops + 1 = 1 /\ 1 \in 0..1
    BY <1>2 DEF Stopped
  <2>2. s \in Launch
    BY <2>1 DEF Launch
  <2>3. s.stopping /\ s.stops = 1
    BY <2>1 DEF Launch
  <2>4. s.owned = h.owned
    BY DEF Launch
  <2>5. s.starts = h.starts /\ s.at = h.at
    BY DEF Launch
  <2> HIDE DEF s
  <2> QED
    BY <2>1, <2>2, <2>3, <2>4, <2>5
<1> QED
  BY <1>1, <1>2

\* A step of a hub between its start and its end.
LEMMA RunKeeps ==
  ASSUME NEW p \in Launches, NEW l \in Launch, IInv, At(p) \in Handling, Keeps,
         launch' = [launch EXCEPT ![p] = l],
         l.at \in Handling \cup {"ended"},
         l.owned = launch[p].owned, l.starts = launch[p].starts,
         l.at \in {"closing", "ended"} => l.stopping,
         l.stops = IF l.stopping THEN 1 ELSE 0
  PROVE  Changes(p)
<1>1. launch[p].owned /\ launch[p].starts = 1
  BY Owned, RunPlaces DEF Sane, At
<1>2. Sane(l)
  BY <1>1 DEF Sane
<1>3. MayHoldPorts(l)
  BY <1>1, RunPlaces DEF MayHoldPorts
<1>4. Local(p)
  BY KeepsIsLocal DEF Keeps
<1>5. Undoing(l, folder'[Workspace[p]])
  BY NotUndoing DEF Handling, Changing
<1> QED
  BY <1>2, <1>3, <1>4, <1>5, OwnChange

\* Such a step that leaves the stop as it is.
LEMMA QuietRunKeeps ==
  ASSUME NEW p \in Launches, NEW l \in Launch, IInv, At(p) \in Handling, Keeps,
         launch' = [launch EXCEPT ![p] = l],
         l.at \in Handling \cup {"ended"},
         l.at \in {"closing", "ended"} => launch[p].stopping,
         l.owned = launch[p].owned, l.starts = launch[p].starts,
         l.stopping = launch[p].stopping, l.stops = launch[p].stops
  PROVE  Changes(p)
<1>1. Sane(launch[p])
  BY Owned
<1> QED
  BY <1>1, RunKeeps DEF Sane

LEMMA StartLoopKeeps == ASSUME NEW p \in Launches, IInv, StartLoop(p) PROVE Changes(p)
<1> DEFINE l == [launch[p] EXCEPT !.at = "scan", !.looped = TRUE]
<1>1. launch[p] \in Launch /\ At(p) \in Handling
  BY Owned DEF StartLoop, Handling
<1>2. l \in Launch
  BY <1>1 DEF Launch, Places
<1>3. l.at = "scan" /\ l.starts = launch[p].starts /\ l.stops = launch[p].stops
  BY <1>1 DEF Launch
<1>4. l.owned = launch[p].owned
  BY <1>1 DEF Launch
<1>5. l.stopping = launch[p].stopping
  BY <1>1 DEF Launch
<1>6. launch' = [launch EXCEPT ![p] = l] /\ Keeps
  BY DEF StartLoop
<1> HIDE DEF l
<1>7. l.at \in Handling \ {"closing", "ended"}
  BY <1>3 DEF Handling
<1> QED
  BY <1>1, <1>2, <1>3, <1>4, <1>5, <1>6, <1>7, QuietRunKeeps

LEMMA EndScanKeeps == ASSUME NEW p \in Launches, IInv, EndScan(p) PROVE Changes(p)
<1> DEFINE h == IF launch[p].pending THEN Stopped(launch[p]) ELSE launch[p]
           notice == IF h.stopping THEN "no" ELSE "due"
<1>1. launch[p] \in Launch /\ Sane(launch[p]) /\ At(p) \in Handling
  BY Owned DEF EndScan, Handling
<1>2. /\ h \in Launch
      /\ h.owned = launch[p].owned /\ h.starts = launch[p].starts
      /\ h.stops = IF h.stopping THEN 1 ELSE 0
  BY <1>1, StoppedIsSane DEF Sane
<1>3. launch' = [launch EXCEPT ![p] = [h EXCEPT !.at = "startup", !.notice = notice]] /\ Keeps
  BY DEF EndScan
<1>4. notice \in {"no", "due", "done"}
  OBVIOUS
<1> HIDE DEF h, notice
<1> DEFINE l == [h EXCEPT !.at = "startup", !.notice = notice]
<1>5. l \in Launch
  BY <1>2, <1>4 DEF Launch, Places
<1>6. l.at = "startup" /\ l.starts = h.starts /\ l.stops = h.stops
  BY <1>2 DEF Launch
<1>7. l.owned = h.owned
  BY <1>2 DEF Launch
<1>8. l.stopping = h.stopping
  BY <1>2 DEF Launch
<1>9. launch' = [launch EXCEPT ![p] = l] /\ Keeps
  BY <1>3
<1> HIDE DEF l
<1>10. l.at \in Handling \ {"closing", "ended"}
  BY <1>6 DEF Handling
<1> QED
  BY <1>1, <1>2, <1>5, <1>6, <1>7, <1>8, <1>9, <1>10, RunKeeps

\* uvicorn's start and the moment it sees should_exit; the end of the loop.
LEMMA ServeKeeps ==
  ASSUME NEW p \in Launches, IInv, Serve(p) \/ StartClosing(p) PROVE Changes(p)
<1>1. PICK place \in {"serving", "closing"} :
        Moves(p, place) /\ (place = "closing" => launch[p].stopping)
  BY DEF Serve, StartClosing
<1>2. At(p) \in {"startup", "serving"} /\ Local(p)
  BY KeepsIsLocal DEF Serve, StartClosing, Keeps
<1>3. launch[p].owned /\ launch[p].starts = 1
  BY <1>2, Owned DEF Sane, Inside, Handling, At
<1>4. /\ place \in Places \cap Bound /\ place # "ended" /\ At(p) # "error"
      /\ place \notin Changing
  BY <1>2 DEF Places, Bound, Changing
<1> QED
  BY <1>1, <1>2, <1>3, <1>4, MoveKeeps

LEMMA AnnounceKeeps == ASSUME NEW p \in Launches, IInv, Announce(p) PROVE Changes(p)
<1> USE WorkspaceAssumption
<1> DEFINE l == [launch[p] EXCEPT !.notice = "done", !.shown = Workspace[p]]
<1>1. launch[p] \in Launch /\ Sane(launch[p]) /\ At(p) \in Handling
  BY Owned DEF Announce, Handling
<1>2. l \in Launch
  BY <1>1 DEF Launch
<1>3. l.at = At(p) /\ l.starts = launch[p].starts /\ l.stops = launch[p].stops
  BY <1>1 DEF Launch, At
<1>4. l.owned = launch[p].owned
  BY <1>1 DEF Launch
<1>5. l.stopping = launch[p].stopping
  BY <1>1 DEF Launch
<1>6. launch' = [launch EXCEPT ![p] = l] /\ Keeps
  BY DEF Announce
<1> HIDE DEF l
<1>7. At(p) \in {"closing", "ended"} => launch[p].stopping
  BY <1>1 DEF Sane, At
<1> QED
  BY <1>1, <1>2, <1>3, <1>4, <1>5, <1>6, <1>7, QuietRunKeeps

LEMMA RequestStopKeeps == ASSUME NEW p \in Launches, IInv, RequestStop(p) PROVE Changes(p)
<1> DEFINE h == Stopped(launch[p])
<1>1. launch[p] \in Launch /\ Sane(launch[p]) /\ At(p) \in Handling
  BY Owned, RunPlaces DEF RequestStop
<1>2. /\ h \in Launch /\ h.stopping /\ h.stops = 1 /\ h.at = At(p)
      /\ h.owned = launch[p].owned /\ h.starts = launch[p].starts
  BY <1>1, StoppedIsSane DEF Sane, At
<1>3. launch' = [launch EXCEPT ![p] = [h EXCEPT !.queued = FALSE]] /\ Keeps
  BY DEF RequestStop
<1> HIDE DEF h
<1> DEFINE l == [h EXCEPT !.queued = FALSE]
<1>4. l \in Launch
  BY <1>2 DEF Launch
<1>5. l.at = At(p) /\ l.starts = launch[p].starts /\ l.stops = 1
  BY <1>2 DEF Launch
<1>6. l.owned = launch[p].owned
  BY <1>2 DEF Launch
<1>7. l.stopping
  BY <1>2 DEF Launch
<1>8. launch' = [launch EXCEPT ![p] = l] /\ Keeps
  BY <1>3
<1> HIDE DEF l
<1> QED
  BY <1>1, <1>4, <1>5, <1>6, <1>7, <1>8, RunKeeps

LEMMA EndLoopKeeps == ASSUME NEW p \in Launches, IInv, EndLoop(p) PROVE Changes(p)
<1> DEFINE l == [launch[p] EXCEPT !.at = "ended", !.queued = FALSE]
<1>1. launch[p] \in Launch /\ Sane(launch[p]) /\ At(p) \in Handling /\ launch[p].stopping
  BY Owned DEF EndLoop, Handling, Sane, At
<1>2. l \in Launch
  BY <1>1 DEF Launch, Places
<1>3. l.at = "ended" /\ l.starts = launch[p].starts /\ l.stops = launch[p].stops
  BY <1>1 DEF Launch
<1>4. l.owned = launch[p].owned
  BY <1>1 DEF Launch
<1>5. l.stopping = launch[p].stopping
  BY <1>1 DEF Launch
<1>6. launch' = [launch EXCEPT ![p] = l] /\ Keeps
  BY DEF EndLoop
<1> HIDE DEF l
<1> QED
  BY <1>1, <1>2, <1>3, <1>4, <1>5, <1>6, QuietRunKeeps

LEMMA CrashKeeps == ASSUME NEW p \in Launches, IInv, Crash(p) PROVE Changes(p)
<1> DEFINE h == Stopped(launch[p])
<1>1. launch[p] \in Launch /\ Sane(launch[p]) /\ At(p) \in Handling
  BY Owned DEF Crash
<1>2. /\ h \in Launch /\ h.stopping /\ h.stops = 1
      /\ h.owned = launch[p].owned /\ h.starts = launch[p].starts
  BY <1>1, StoppedIsSane DEF Sane
<1>3. /\ launch' = [launch EXCEPT
                     ![p] = [h EXCEPT !.at = "ended", !.why = "crashed", !.queued = FALSE]]
      /\ Keeps
  BY DEF Crash
<1> HIDE DEF h
<1> DEFINE l == [h EXCEPT !.at = "ended", !.why = "crashed", !.queued = FALSE]
<1>4. l \in Launch
  BY <1>2 DEF Launch, Places, Reasons
<1>5. l.at = "ended" /\ l.starts = launch[p].starts /\ l.stops = 1
  BY <1>2 DEF Launch
<1>6. l.owned = launch[p].owned
  BY <1>2 DEF Launch
<1>7. l.stopping
  BY <1>2 DEF Launch
<1>8. launch' = [launch EXCEPT ![p] = l] /\ Keeps
  BY <1>3
<1> HIDE DEF l
<1> QED
  BY <1>1, <1>4, <1>5, <1>6, <1>7, <1>8, RunKeeps

LEMMA ReleaseStepKeeps == ASSUME NEW p \in Launches, IInv, Release(p) PROVE Changes(p)
  BY LeaveKeeps, ReleaseKeeps DEF Release, Reasons

\* A step that changes only what asks for a stop.
LEMMA AskKeeps ==
  ASSUME NEW p \in Launches, NEW l \in Launch, IInv, Keeps,
         launch' = [launch EXCEPT ![p] = l],
         l.at = launch[p].at, l.why = launch[p].why, l.owned = launch[p].owned,
         l.starts = launch[p].starts, l.stops = launch[p].stops,
         l.stopping = launch[p].stopping,
         l.created = launch[p].created /\ l.undo = launch[p].undo /\ l.stuck = launch[p].stuck
  PROVE  Changes(p)
<1>1. Sane(l)
  BY Owned DEF Sane
<1>2. MayHoldPorts(launch[p]) => MayHoldPorts(l)
  BY DEF MayHoldPorts
<1>3. Local(p)
  BY KeepsIsLocal DEF Keeps
<1>4. Undoing(l, folder'[Workspace[p]])
  BY DEF IInv, Undoing, Keeps
<1> QED
  BY <1>1, <1>2, <1>3, <1>4, OwnChange

LEMMA AskStopKeeps == ASSUME NEW p \in Launches, IInv, AskStop(p) PROVE Changes(p)
<1> DEFINE queued == launch[p].queued \/ launch[p].looped
           pending == launch[p].pending \/ ~launch[p].looped
           l == [launch[p] EXCEPT !.queued = queued, !.pending = pending]
<1>1. launch[p] \in Launch
  BY Owned
<1>2. launch' = [launch EXCEPT ![p] = l] /\ Keeps
  BY DEF AskStop
<1>3. queued \in BOOLEAN /\ pending \in BOOLEAN
  OBVIOUS
<1> HIDE DEF queued, pending
<1>4. l \in Launch
  BY <1>1, <1>3 DEF Launch
<1>5. l.at = launch[p].at /\ l.why = launch[p].why
  BY <1>1 DEF Launch
<1>6. l.starts = launch[p].starts /\ l.stops = launch[p].stops
  BY <1>1 DEF Launch
<1>7. l.owned = launch[p].owned
  BY <1>1 DEF Launch
<1>8. l.stopping = launch[p].stopping
  BY <1>1 DEF Launch
<1>9. l.created = launch[p].created /\ l.undo = launch[p].undo
  BY <1>1 DEF Launch
<1>10. l.stuck = launch[p].stuck
  BY <1>1 DEF Launch
<1> HIDE DEF l
<1> QED
  BY <1>2, <1>4, <1>5, <1>6, <1>7, <1>8, <1>9, <1>10, AskKeeps

LEMMA CloseEventKeeps == ASSUME NEW p \in Launches, IInv, CloseEvent(p) PROVE Changes(p)
<1> DEFINE queued == launch[p].queued \/ launch[p].looped
           handler == IF launch[p].looped THEN "waits" ELSE "read"
           l == [launch[p] EXCEPT !.handler = handler, !.queued = queued]
<1>1. launch[p] \in Launch
  BY Owned
<1>2. launch' = [launch EXCEPT ![p] = l] /\ Keeps
  BY DEF CloseEvent
<1>3. queued \in BOOLEAN /\ handler \in {"none", "read", "waits"}
  OBVIOUS
<1> HIDE DEF queued, handler
<1>4. l \in Launch
  BY <1>1, <1>3 DEF Launch
<1>5. l.at = launch[p].at /\ l.why = launch[p].why
  BY <1>1 DEF Launch
<1>6. l.starts = launch[p].starts /\ l.stops = launch[p].stops
  BY <1>1 DEF Launch
<1>7. l.owned = launch[p].owned
  BY <1>1 DEF Launch
<1>8. l.stopping = launch[p].stopping
  BY <1>1 DEF Launch
<1>9. l.created = launch[p].created /\ l.undo = launch[p].undo
  BY <1>1 DEF Launch
<1>10. l.stuck = launch[p].stuck
  BY <1>1 DEF Launch
<1> HIDE DEF l
<1> QED
  BY <1>2, <1>4, <1>5, <1>6, <1>7, <1>8, <1>9, <1>10, AskKeeps

LEMMA WritePendingKeeps == ASSUME NEW p \in Launches, IInv, WritePending(p) PROVE Changes(p)
<1> DEFINE l == [launch[p] EXCEPT !.handler = "waits", !.pending = TRUE]
<1>1. launch[p] \in Launch
  BY Owned
<1>2. launch' = [launch EXCEPT ![p] = l] /\ Keeps
  BY DEF WritePending
<1>3. l \in Launch
  BY <1>1 DEF Launch
<1>4. l.at = launch[p].at /\ l.why = launch[p].why
  BY <1>1 DEF Launch
<1>5. l.starts = launch[p].starts /\ l.stops = launch[p].stops
  BY <1>1 DEF Launch
<1>6. l.owned = launch[p].owned
  BY <1>1 DEF Launch
<1>7. l.stopping = launch[p].stopping
  BY <1>1 DEF Launch
<1>9. l.created = launch[p].created /\ l.undo = launch[p].undo
  BY <1>1 DEF Launch
<1>10. l.stuck = launch[p].stuck
  BY <1>1 DEF Launch
<1> HIDE DEF l
<1> QED
  BY <1>2, <1>3, <1>4, <1>5, <1>6, <1>7, <1>9, <1>10, AskKeeps

----------------------------------------------------------------------------

\* What a launch does or what happens to it.
Step(p) == OwnStep(p) \/ RequestStop(p) \/ HandlerStep(p) \/ Happens(p)

LEMMA StepChanges == ASSUME NEW p \in Launches, IInv, Step(p) PROVE Changes(p)
<1>1. CASE OwnStep(p)
  <2>1. CASE AskHealth(p) \/ AskOpen(p) \/ GiveUp(p) \/ TakeLock(p) \/ CheckSetup(p)
    BY <2>1, AskHealthKeeps, AskOpenKeeps, GiveUpKeeps, TakeLockKeeps, SetupKeeps
  <2>2. CASE \/ Preflight(p) \/ WriteCanary(p) \/ CheckRedirection(p)
             \/ UndoCreated(p) \/ Refuse(p)
    BY <2>2, PreflightKeeps, WriteCanaryKeeps, CheckRedirectionKeeps, UndoCreatedKeeps,
       RefuseKeeps
  <2>3. CASE BindHub(p) \/ BindPanel(p) \/ Build(p) \/ BuildDesktop(p)
    BY <2>3, BindHubKeeps, BindPanelKeeps, BuildKeeps, BuildDesktopKeeps
  <2>4. CASE StartLoop(p) \/ EndScan(p) \/ Serve(p) \/ Announce(p)
    BY <2>4, StartLoopKeeps, EndScanKeeps, ServeKeeps, AnnounceKeeps
  <2>5. CASE StartClosing(p) \/ EndLoop(p) \/ Release(p)
    BY <2>5, ServeKeeps, EndLoopKeeps, ReleaseStepKeeps
  <2> QED
    BY <1>1, <2>1, <2>2, <2>3, <2>4, <2>5 DEF OwnStep
<1>2. CASE RequestStop(p)
  BY <1>2, RequestStopKeeps
<1>3. CASE HandlerStep(p)
  BY <1>3, WritePendingKeeps, LeaveKeeps DEF HandlerStep, ReturnHandler
<1>4. CASE Happens(p)
  <2>1. CASE \/ Click(p) \/ AskFails(p) \/ AnswerWindow(p)
             \/ AskStop(p) \/ CloseEvent(p) \/ Crash(p)
    BY <2>1, ClickKeeps, AskHealthKeeps, SetupKeeps, AskStopKeeps, CloseEventKeeps, CrashKeeps
  <2>2. CASE CloseBox(p) \/ Kill(p)
    BY <2>2, LeaveKeeps DEF CloseBox, Kill
  <2> QED
    BY <1>4, <2>1, <2>2 DEF Happens
<1> QED
  BY <1>1, <1>2, <1>3, <1>4 DEF Step

LEMMA NextKeeps == ASSUME IInv, [Next]_vars PROVE IInv'
<1>1. CASE UNCHANGED vars
  BY <1>1 DEF vars, IInv, TypeOK, Sane, OwnersHaveHandles, OneOwner, HoldersMay,
              MayHoldPorts, FoldersNested, Undoing
<1>2. CASE Next
  BY <1>2, StepChanges, ChangesKeep DEF Next, Step
<1> QED
  BY <1>1, <1>2

LEMMA AlwaysIInv == Spec => []IInv
<1>1. Init => IInv
  BY InitKeeps
<1>2. IInv /\ [Next]_vars => IInv'
  BY NextKeeps
<1> QED
  BY <1>1, <1>2, PTL DEF Spec

\* The values of the launches, the mutex names, the ports and the folders.
THEOREM TypesKept == Spec => []TypeOK
<1>1. IInv => TypeOK
  BY DEF IInv
<1> QED
  BY <1>1, AlwaysIInv, PTL

\* The mutex of InstanceLock, held from before the setup to the end of main, keeps
\* a second hub of the workspace out, whoever clicks, fails or is killed.
THEOREM OneHubAtATime == Spec => []OneHubAWorkspace
<1>1. IInv => OneHubAWorkspace
  <2> SUFFICES ASSUME IInv, NEW p \in Launches, NEW q \in Launches,
                      At(p) \in Inside, At(q) \in Inside, Workspace[p] = Workspace[q]
               PROVE  p = q
    BY DEF OneHubAWorkspace
  <2>1. launch[p].owned /\ launch[q].owned
    BY Owned DEF Sane, At
  <2> QED
    BY <2>1 DEF IInv, OneOwner
<1> QED
  BY <1>1, AlwaysIInv, PTL

\* Whoever has a port of the hub has the mutex of its workspace.
THEOREM PortsAreUnderTheLock == Spec => []PortsUnderTheLock
<1>1. Bound \subseteq Inside
  BY DEF Bound, Inside
<1>2. IInv => PortsUnderTheLock
  BY <1>1 DEF IInv, HoldersMay, OwnersHaveHandles, MayHoldPorts, PortsUnderTheLock, At
<1> QED
  BY <1>2, AlwaysIInv, PTL

\* Every way out of the loop has recorded the start and the stop, once each.
THEOREM RunsAreRecorded == Spec => []EveryRunIsRecorded
<1>1. IInv => EveryRunIsRecorded
  <2> SUFFICES ASSUME IInv, NEW p \in Launches, At(p) = "ended"
               PROVE  launch[p].starts = 1 /\ launch[p].stops = 1
    BY DEF EveryRunIsRecorded
  <2> QED
    BY Owned DEF Sane, At
<1> QED
  BY <1>1, AlwaysIInv, PTL

\* What a refused start made is gone, or stuck, or around what is stuck, and the rest
\* is there, whatever earlier launches of the workspace left and whoever clicks now.
THEOREM RefusalsTakeBack == Spec => RefusalTakesBack
<1> DEFINE Back(p) ==
             launch[p].at = "undoing" /\ launch'[p].at = "error" =>
               /\ folder[Workspace[p]] \cap launch[p].created \subseteq
                    launch[p].stuck \cup IF launch[p].stuck = {} THEN {} ELSE {"data"}
               /\ Parts \ launch[p].created \subseteq folder[Workspace[p]]
<1>1. ASSUME IInv, [Next]_vars, NEW p \in Launches,
             launch[p].at = "undoing", launch'[p].at = "error"
      PROVE  launch[p].undo = {}
  <2>1. CASE UNCHANGED vars
    BY <1>1, <2>1 DEF vars
  <2>2. ASSUME NEW q \in Launches \ {p}, Step(q) PROVE FALSE
    BY <1>1, <2>2, StepChanges DEF Changes
  <2>3. CASE Step(p)
    <3>0. launch[p] \in Launch /\ launch \in [Launches -> Launch]
      BY <1>1, AtTheFolder DEF IInv, TypeOK
    <3>1. ASSUME NEW l, launch' = [launch EXCEPT ![p] = l], l.at = launch[p].at
          PROVE  FALSE
      BY <1>1, <3>0, <3>1
    <3>3. CASE WritePending(p)
      <4> DEFINE l == [launch[p] EXCEPT !.handler = "waits", !.pending = TRUE]
      <4>1. l.at = launch[p].at
        BY <3>0 DEF Launch
      <4>2. launch' = [launch EXCEPT ![p] = l]
        BY <3>3 DEF WritePending
      <4> HIDE DEF l
      <4> QED
        BY <3>1, <4>1, <4>2
    <3>4. CASE UndoCreated(p)
      <4>1. PICK x : \/ launch' = [launch EXCEPT ![p].undo = @ \ {x}]
                     \/ launch' = [launch EXCEPT ![p].undo = @ \ {x}, ![p].stuck = @ \cup {x}]
        BY <3>4 DEF UndoCreated
      <4> DEFINE l == [launch[p] EXCEPT !.undo = @ \ {x}]
                 m == [launch[p] EXCEPT !.undo = @ \ {x}, !.stuck = @ \cup {x}]
      <4>2. l.at = launch[p].at /\ m.at = launch[p].at
        BY <3>0 DEF Launch
      <4>3. launch' = [launch EXCEPT ![p] = l] \/ launch' = [launch EXCEPT ![p] = m]
        BY <4>1
      <4> HIDE DEF l, m
      <4> QED
        BY <3>1, <4>2, <4>3
    <3>2. CASE Leave(p)
      <4>1. launch'[p].at = "gone"
        BY <1>1, <3>2, NewLaunchIsSane DEF Leave, IInv, TypeOK, Launch
      <4> QED
        BY <1>1, <4>1
    <3> QED
      BY <1>1, <2>3, <3>2, <3>3, <3>4 DEF Step, OwnStep, HandlerStep, Happens, At, Handling, Looping,
         Click, AskHealth, AskFails, AskOpen, GiveUp, TakeLock, CheckSetup, AnswerWindow,
         CloseBox, Preflight, WriteCanary, CheckRedirection, Refuse, BindHub, BindPanel,
         Build, BuildDesktop, StartLoop, EndScan, Serve, Announce, RequestStop,
         StartClosing, EndLoop, Release, AskStop, CloseEvent, ReturnHandler, Crash, Kill
  <2> QED
    BY <1>1, <2>1, <2>2, <2>3 DEF Next, Step
<1>2. ASSUME IInv, [Next]_vars, NEW p \in Launches PROVE Back(p)
  <2> SUFFICES ASSUME launch[p].at = "undoing", launch'[p].at = "error"
               PROVE  Back(p)
    OBVIOUS
  <2>1. launch[p].undo = {}
    BY <1>1, <1>2
  <2>2. Undoing(launch[p], folder[Workspace[p]])
    BY <1>2 DEF IInv
  <2> QED
    BY <2>1, <2>2 DEF Undoing, Changing
<1>3. IInv /\ [Next]_vars => [\A p \in Launches : Back(p)]_vars
  BY <1>2
<1> QED
  BY <1>3, AlwaysIInv, PTL DEF Spec, RefusalTakesBack

=============================================================================
