------------------------------- MODULE TurnBook -------------------------------
(***************************************************************************)
(* The turn protocol of the hub: the engine's checks (src/rco/turns.py,    *)
(* the check functions) together with the hub's handlers that call them,   *)
(* write the commit record and apply it (src/rco/hub.py, _tool_result,     *)
(* _turn_command, _apply, command).                                        *)
(*                                                                         *)
(* A handler runs on one event loop without awaiting between its check and *)
(* its commit, so one action is one handler.  The commit record is written *)
(* before the book changes, and a failed write leaves the book as it was;  *)
(* a crash after the record and before the reply is the action followed by *)
(* HubRestarts.  A refusal that changes nothing is a stuttering step.      *)
(*                                                                         *)
(* disk is what replaying the record file yields: each record a handler    *)
(* writes is folded into it as it is written, by the operator that applies *)
(* it to the live book.                                                    *)
(***************************************************************************)
EXTENDS TurnState

CONSTANTS
  Waiters,     (* the clients whose turn_wait_max_s is above 0: they lease *)
  MaxRun,      (* bound: number of the last run                            *)
  MaxProposal, (* bound: number of the last proposal                       *)
  MaxMint      (* bound: nonces and offer ids minted                       *)

ASSUME TurnBookAssumption ==
  /\ Waiters \subseteq Clients
  /\ MaxRun \in Nat
  /\ MaxProposal \in Nat
  /\ MaxMint \in Nat

VARIABLES
  book,    (* the hub's TurnBook                                           *)
  disk,    (* the TurnBook that folding the record file yields             *)
  folder,  (* the highest number among the run folders                     *)
  packet,  (* the packet file of the turn offered last is as recorded      *)
  lease,   (* offer id of the live lease and whether its time is over      *)
  minted,  (* nonces and offer ids minted so far                           *)
  paused,  (* the hub's pause flag, in memory only                         *)
  ready,   (* the clients registered and present, in memory only           *)
  working  (* the turns an app holds the packet of and may be at work on   *)

vars == <<book, disk, folder, packet, lease, minted, paused, ready, working>>

Lease   == [offer : Nat, over : BOOLEAN]
NoLease == [offer |-> 0, over |-> FALSE]

Init ==
  /\ book = EmptyBook
  /\ disk = EmptyBook
  /\ folder = 0
  /\ packet = TRUE
  /\ lease = NoLease
  /\ minted = 0
  /\ paused = FALSE
  /\ ready = {}
  /\ working = {}

(* Hub.quorum: every client registered and present, and no hub pause.      *)
QuorumOk == ready = Clients /\ ~paused

-----------------------------------------------------------------------------
(* What get_turn and claim_turn share.                                     *)

(* lapse_leases, the first thing both do: a lease whose time is over       *)
(* returns its turn to offered.                                            *)
Lapsed(b) ==
  IF lease.over
  THEN [b EXCEPT !.turns = [k \in Steps |->
          IF @[k].state = "leased" THEN [@[k] EXCEPT !.state = "offered"]
                                   ELSE @[k]]]
  ELSE b

LapsedLease == IF lease.over THEN NoLease ELSE lease

(* _gates up to the packet check: the live turn is c's and not yet given.  *)
MayAsk(b, c, k) ==
  /\ QuorumOk
  /\ b.run # 0
  /\ b.pauses = {}
  /\ IsLiveTurn(b, k)
  /\ b.turns[k].client = c
  /\ b.turns[k].state \in {"offered", "leased"}

(* _gates as a whole.                                                      *)
MayTake(b, c, k) == MayAsk(b, c, k) /\ packet

(* _claim: a fresh nonce, and the packet goes to the app.                  *)
Claim(b, c, k) ==
  /\ minted < MaxMint
  /\ minted' = minted + 1
  /\ book' = TurnClaimed(b, b.run, k, c, minted + 1)
  /\ disk' = TurnClaimed(disk, b.run, k, c, minted + 1)
  /\ lease' = NoLease
  /\ working' = working \cup {k}
  /\ UNCHANGED <<folder, packet, paused, ready>>

-----------------------------------------------------------------------------
(* The tools of the apps.                                                  *)

(* get_turn at an effective wait of 0: the offered turn is claimed.        *)
FetchClaims(c) ==
  LET b == Lapsed(book)
  IN  \E k \in Steps :
        /\ MayTake(b, c, k)
        /\ b.turns[k].state = "offered"
        /\ Claim(b, c, k)

(* get_turn at a wait above 0: an offer under a lease, no payload.  The    *)
(* record turn_leased is written and folded by no replay.                  *)
FetchLeases(c) ==
  LET b == Lapsed(book)
  IN  /\ c \in Waiters
      /\ minted < MaxMint
      /\ \E k \in Steps :
           /\ MayTake(b, c, k)
           /\ b.turns[k].state = "offered"
           /\ book' = TurnLeased(b, b.run, k)
      /\ minted' = minted + 1
      /\ lease' = [offer |-> minted + 1, over |-> FALSE]
      /\ UNCHANGED <<disk, folder, packet, paused, ready, working>>

(* claim_turn with the offer id the app was given.                         *)
ClaimOffer(c, offer) ==
  LET b == Lapsed(book)
  IN  \E k \in Steps :
        /\ MayTake(b, c, k)
        /\ b.turns[k].state = "leased"
        /\ offer = LapsedLease.offer
        /\ Claim(b, c, k)

(* A get_turn or claim_turn that is refused (bad_wait, a gate, the entry   *)
(* code, an invalid offer) or whose record cannot be written has lapsed    *)
(* the lease all the same.                                                 *)
RefusedCallLapses ==
  /\ lease.over
  /\ book' = Lapsed(book)
  /\ lease' = NoLease
  /\ UNCHANGED <<disk, folder, packet, minted, paused, ready, working>>

(* ... and one that finds the packet file changed breaks the turn.         *)
PacketChangedFound(c) ==
  LET b == Lapsed(book)
  IN  /\ ~packet
      /\ \E k \in Steps :
           /\ MayAsk(b, c, k)
           /\ book' = [b EXCEPT !.turns[k] = [@ EXCEPT !.state = "broken"]]
      /\ lease' = NoLease
      /\ UNCHANGED <<disk, folder, packet, minted, paused, ready, working>>

(* check_submit's identity rows: the turn of the open run, its client and  *)
(* its nonce.  Neither quorum, pause nor registration is asked for.        *)
Identified(c, k, nonce) ==
  /\ book.run # 0
  /\ book.turns[k].client = c
  /\ book.turns[k].nonce # 0
  /\ book.turns[k].nonce = nonce

(* submit_turn on the claimed turn.                                        *)
Submit(c, k, nonce, status, output) ==
  /\ Identified(c, k, nonce)
  /\ book.turns[k].state = "claimed"
  /\ book' = TurnSubmitted(book, book.run, k, status, output)
  /\ disk' = TurnSubmitted(disk, book.run, k, status, output)
  /\ working' = working \ {k}
  /\ UNCHANGED <<folder, packet, lease, minted, paused, ready>>

(* submit_turn on a recalled or answered turn: a late copy or a duplicate. *)
(* Nothing the engine reads changes; the app that sent it is done with it. *)
SubmitLate(c, k, nonce) ==
  /\ Identified(c, k, nonce)
  /\ book.turns[k].state \in {"recalled", "submitted"}
  /\ working' = working \ {k}
  /\ UNCHANGED <<book, disk, folder, packet, lease, minted, paused, ready>>

(* propose_run: replaces a pending proposal.                               *)
Propose ==
  LET p == book.maxProposal + 1
  IN  /\ p <= MaxProposal
      /\ QuorumOk
      /\ book.run = 0
      /\ book' = RunProposed(book, p)
      /\ disk' = RunProposed(disk, p)
      /\ UNCHANGED <<folder, packet, lease, minted, paused, ready, working>>

-----------------------------------------------------------------------------
(* The operator's commands.                                                *)

(* Mutant of next_run_id: the folders are not asked.                       *)
NewRunOfRecords == book.maxRun + 1

(* run: a fresh folder is created exclusively, then the record is written. *)
(* The record names the pending proposal, accepted or dropped.             *)
NewRun == Larger(book.maxRun, folder) + 1

OpenRun ==
  /\ NewRun <= MaxRun
  /\ book.run = 0
  /\ book' = RunOpened(book, NewRun, book.proposal)
  /\ disk' = RunOpened(disk, NewRun, book.proposal)
  /\ folder' = NewRun
  /\ UNCHANGED <<packet, lease, minted, paused, ready, working>>

(* The strict record failed, or the hub died before it: the folder stays.  *)
OpenRunFails ==
  /\ NewRun <= MaxRun
  /\ book.run = 0
  /\ folder' = NewRun
  /\ UNCHANGED <<book, disk, packet, lease, minted, paused, ready, working>>

(* Mutants of next: it forgets a pending stop; it passes on any turn.      *)
NextWhileStopping(c, inputs) ==
  /\ book.run # 0
  /\ LiveTurns(book) = {}
  /\ inputs = {}
  /\ book.pauses = {}
  /\ QuorumOk
  /\ \E k \in Steps :
       /\ IsNextStep(book, k)
       /\ book' = TurnOffered(book, book.run, k, c, inputs)
       /\ disk' = TurnOffered(disk, book.run, k, c, inputs)
  /\ packet' = TRUE
  /\ lease' = NoLease
  /\ UNCHANGED <<folder, minted, paused, ready, working>>

PassOnAny(b) == Existing(b)

(* next: the packet is frozen in its file, then the turn is offered.  The  *)
(* operator passes on any answered turns of the run that no skipped record *)
(* makes suspect, by default the latest done one, suspect or not.          *)
LatestDone(b) ==
  {k \in Submitted(b) :
     /\ b.turns[k].status = "done"
     /\ \A j \in Submitted(b) : b.turns[j].status = "done" => j <= k}

MayPassOn(b) ==
  IF b.suspect THEN LatestDone(b) ELSE Submitted(b)

NextTurn(c, inputs) ==
  /\ book.run # 0
  /\ book.stop = 0
  /\ LiveTurns(book) = {}
  /\ inputs \subseteq MayPassOn(book)
  /\ book.pauses = {}
  /\ QuorumOk
  /\ \E k \in Steps :
       /\ IsNextStep(book, k)
       /\ book' = TurnOffered(book, book.run, k, c, inputs)
       /\ disk' = TurnOffered(disk, book.run, k, c, inputs)
  /\ packet' = TRUE
  /\ lease' = NoLease
  /\ UNCHANGED <<folder, minted, paused, ready, working>>

(* Mutant of recall: a claimed turn is withdrawn without asking for a stop.*)
RecallWithoutStop(k) ==
  /\ book.run # 0
  /\ book.turns[k].state \in LiveStates
  /\ book' = TurnRecalled(book, book.run, k, FALSE)
  /\ disk' = TurnRecalled(disk, book.run, k, FALSE)
  /\ lease' = NoLease
  /\ UNCHANGED <<folder, packet, minted, paused, ready, working>>

(* recall <turn>: only a claimed turn needs 'stopped'.                     *)
Recall(k) ==
  /\ book.run # 0
  /\ book.turns[k].state \in LiveStates
  /\ LET needsStop == book.turns[k].state = "claimed"
     IN  /\ book' = TurnRecalled(book, book.run, k, needsStop)
         /\ disk' = TurnRecalled(disk, book.run, k, needsStop)
  /\ lease' = NoLease
  /\ UNCHANGED <<folder, packet, minted, paused, ready, working>>

(* stopped: the operator pressed Stop in the app.                          *)
Stopped ==
  /\ book.run # 0
  /\ book.stop # 0
  /\ book' = StopConfirmed(book, book.run, book.stop)
  /\ disk' = StopConfirmed(disk, book.run, book.stop)
  /\ working' = working \ {book.stop}
  /\ UNCHANGED <<folder, packet, lease, minted, paused, ready>>

(* Mutant of end: a pending stop does not hold it.                         *)
EndWhileStopping ==
  /\ book.run # 0
  /\ LiveTurns(book) = {}
  /\ book' = RunEnded(book, book.run)
  /\ disk' = RunEnded(disk, book.run)
  /\ UNCHANGED <<folder, packet, lease, minted, paused, ready, working>>

(* end: refused while a turn is live or a stop is pending.                 *)
EndRun ==
  /\ book.run # 0
  /\ book.stop = 0
  /\ LiveTurns(book) = {}
  /\ book' = RunEnded(book, book.run)
  /\ disk' = RunEnded(disk, book.run)
  /\ UNCHANGED <<folder, packet, lease, minted, paused, ready, working>>

(* pause sets the hub's flag; the record hub_paused is folded by no replay.*)
Pause ==
  /\ ~paused
  /\ paused' = TRUE
  /\ UNCHANGED <<book, disk, folder, packet, lease, minted, ready, working>>

(* Mutant of resume: while the hub is paused it is the only thing resumed  *)
(* on the record.                                                          *)
ResumeUnrecorded ==
  /\ paused \/ book.pauses # {}
  /\ paused' = FALSE
  /\ book' = HubResumed(book, book.run)
  /\ disk' = IF paused THEN disk ELSE HubResumed(disk, book.run)
  /\ UNCHANGED <<folder, packet, lease, minted, ready, working>>

(* resume clears the flag and every pause reason of the open run; its      *)
(* record names the run when it has one to clear.                          *)
Resume ==
  /\ paused \/ book.pauses # {}
  /\ paused' = FALSE
  /\ IF book.pauses # {}
     THEN /\ book' = HubResumed(book, book.run)
          /\ disk' = HubResumed(disk, book.run)
     ELSE UNCHANGED <<book, disk>>
  /\ UNCHANGED <<folder, packet, lease, minted, ready, working>>

-----------------------------------------------------------------------------
(* The surroundings.                                                       *)

(* A client registers or is heard again.                                   *)
Arrives(c) ==
  /\ c \notin ready
  /\ ready' = ready \cup {c}
  /\ UNCHANGED <<book, disk, folder, packet, lease, minted, paused, working>>

(* A client is silent for staleness_s, or the operator releases it.        *)
FallsSilent(c) ==
  /\ c \in ready
  /\ ready' = ready \ {c}
  /\ UNCHANGED <<book, disk, folder, packet, lease, minted, paused, working>>

(* The clock passes lease_until.                                           *)
LeaseExpires ==
  /\ lease.offer # 0
  /\ ~lease.over
  /\ lease' = [lease EXCEPT !.over = TRUE]
  /\ UNCHANGED <<book, disk, folder, packet, minted, paused, ready, working>>

(* Somebody edits, deletes or puts back the packet file of the live turn.  *)
PacketFileTouched ==
  /\ \E k \in LiveTurns(book) : book.turns[k].state # "claimed"
  /\ packet' = ~packet
  /\ UNCHANGED <<book, disk, folder, lease, minted, paused, ready, working>>

(* The hub stops or dies, and the next one replays the record file.        *)
HubRestarts ==
  /\ book' = Restore(disk, packet)
  /\ lease' = NoLease
  /\ paused' = FALSE
  /\ ready' = {}
  /\ UNCHANGED <<disk, folder, packet, minted, working>>

-----------------------------------------------------------------------------
AppCall(c) ==
  \/ FetchClaims(c)
  \/ FetchLeases(c)
  \/ \E offer \in 1 .. minted : ClaimOffer(c, offer)
  \/ PacketChangedFound(c)
  \/ \E k \in Steps, nonce \in 1 .. minted :
       \/ \E status \in Statuses, output \in Outputs :
            Submit(c, k, nonce, status, output)
       \/ SubmitLate(c, k, nonce)

Command ==
  \/ OpenRun
  \/ OpenRunFails
  \/ \E c \in Clients, inputs \in SUBSET Steps : NextTurn(c, inputs)
  \/ \E k \in Steps : Recall(k)
  \/ Stopped
  \/ EndRun
  \/ Pause
  \/ Resume

Surroundings ==
  \/ \E c \in Clients : Arrives(c) \/ FallsSilent(c)
  \/ LeaseExpires
  \/ PacketFileTouched
  \/ HubRestarts

Next ==
  \/ \E c \in Clients : AppCall(c)
  \/ RefusedCallLapses
  \/ Propose
  \/ Command
  \/ Surroundings

Spec == Init /\ [][Next]_vars

-----------------------------------------------------------------------------
(* What must hold.                                                         *)

(* Every part of the state has its type.                                   *)
TypeOK ==
  /\ book \in Book
  /\ disk \in Book
  /\ folder \in Nat
  /\ packet \in BOOLEAN
  /\ lease \in Lease
  /\ minted \in Nat
  /\ paused \in BOOLEAN
  /\ ready \subseteq Clients
  /\ working \subseteq Steps

(* At most one app holds a packet it may still be working on, nothing else *)
(* is offered while it does, and its run stays open: recall of a claimed   *)
(* turn holds next and end until 'stopped', a late answer or not, across   *)
(* restarts (check_recall, check_next, check_end, TurnBook.apply).         *)
OneAppAtWork ==
  \A k \in working : working \cup LiveTurns(book) = {k} /\ book.run # 0

(* Replaying the record file yields the live book, but for what the hub    *)
(* keeps in memory only: no committed effect is missing from the file and  *)
(* no refused one is in it (the effect order of Hub._apply, fold).         *)
ReplayAgrees == Recorded(disk, book)

(* No record the hub writes is one that apply skips: the assertion of      *)
(* TurnBook.commit never fails, and no line is suspect at a replay.        *)
NothingSkipped == ~book.suspect /\ ~disk.suspect

(* A packet only ever carries outputs of earlier turns that were received  *)
(* while claimed, never that of a recalled turn, and those turns stay so   *)
(* (check_next, check_submit).                                             *)
InputsReceived ==
  \A k \in Steps : \A j \in book.turns[k].inputs :
    j < k /\ book.turns[j].state = "submitted"

(* While its run is open a turn only moves forward, restarts included: a   *)
(* claim stays with its client and nonce until it is answered or recalled, *)
(* and an answered or recalled turn keeps its answer for good.             *)
Advances(t, u) ==
  /\ t.state # "none" => u.client = t.client /\ u.inputs = t.inputs
  /\ t.nonce # 0 => u.nonce = t.nonce
  /\ t.state = "claimed" => u.state \in {"claimed", "submitted", "recalled"}
  /\ t.state \in {"submitted", "recalled"} =>
       <<u.state, u.status, u.output>> = <<t.state, t.status, t.output>>
  /\ t.state \in LiveStates => u.state # "none"

TurnsOnlyAdvance ==
  [][book.run # 0 /\ book'.run = book.run =>
       \A k \in Steps : Advances(book.turns[k], book'.turns[k])]_book

(* From a pause, a blocked answer or a restart until the operator resumes  *)
(* or ends the run, it stays held and no app is given an offer or a packet *)
(* (Hub.command, TurnBook.restore, _gates, check_next).                    *)
Held == book.run # 0 /\ (paused \/ book.pauses # {})

HeldUntilResumed ==
  [][Held =>
       /\ Held' \/ Resume \/ EndRun
       /\ \A k \in Steps :
            book'.turns[k].state \in {"offered", "leased", "claimed"} =>
              book.turns[k].state \in LiveStates
       /\ working' \subseteq working]_vars

(* A run is opened under a number that no record and no folder has had     *)
(* (next_run_id and the exclusive mkdir of _prepare).                      *)
RunFolderFresh ==
  [][book'.run \notin {0, book.run} =>
       book'.run > folder /\ book'.run > book.maxRun]_vars

-----------------------------------------------------------------------------
(* The promise of Baton, kept by the live book.                            *)

BatonTurn == IF book.stop # 0 THEN {book.stop} ELSE LiveTurns(book)

BatonPhase ==
  IF book.stop # 0 THEN "stopping"
  ELSE IF LiveTurns(book) = {} THEN "idle"
  ELSE IF \E k \in LiveTurns(book) : book.turns[k].state = "claimed"
       THEN "working" ELSE "offered"

BatonHolder ==
  IF BatonTurn = {} THEN Nobody
  ELSE book.turns[CHOOSE k \in BatonTurn : TRUE].client

Promise == INSTANCE Baton WITH
  run     <- book.run,
  last    <- book.maxRun,
  phase   <- BatonPhase,
  holder  <- BatonHolder,
  answers <- [k \in Steps |-> book.turns[k].output]

(* The turn protocol implements the baton: every step of the hub is a step *)
(* of the promise or leaves what it promises alone, restarts included.     *)
KeepsPromise == Promise!Spec

-----------------------------------------------------------------------------
(* What the docstring of turns.py says of replay (turns.py:8): but for the *)
(* fields in memory only, the replayed book equals the live one.  Turns    *)
(* under a lease or found broken are left aside: those states are such.    *)
ReplayedTurnsEqual ==
  \A k \in Steps :
    book.turns[k].state \notin {"leased", "broken"} =>
      disk.turns[k] = book.turns[k]

=============================================================================
