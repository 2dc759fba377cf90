------------------------------ MODULE TurnState ------------------------------
(***************************************************************************)
(* The data of the turn engine (src/rco/turns.py) and TurnBook.apply, the  *)
(* one function through which every committed record changes it: the live  *)
(* path (commit) and the replay of the record file (fold) call the same    *)
(* code, so both are the same operators here.                              *)
(*                                                                         *)
(* One operator per record event.  Each takes the book and the fields of   *)
(* the record, and marks the book suspect when apply would skip the record *)
(* as inconsistent.  Texts are abstracted: an output is a value of         *)
(* Outputs, a nonce or an offer id is the number under which it was        *)
(* minted, a turn is named by its step.                                    *)
(***************************************************************************)
EXTENDS Integers, FiniteSets

CONSTANTS
  Clients,  (* the ids of the registry's clients                           *)
  Outputs,  (* the texts an app may submit                                 *)
  Nobody,   (* the client of a turn that was never offered                 *)
  Nothing,  (* the output of a turn that was never answered                *)
  MaxTurn   (* bound: turns per run                                        *)

(* The pause reason that TurnBook.restore adds to a run found open.        *)
HubRestart == "hub restart"

ASSUME TurnStateAssumption ==
  /\ MaxTurn \in Nat
  /\ Nobody \notin Clients
  /\ Nothing \notin Outputs
  /\ HubRestart \notin Clients

Steps == 1 .. MaxTurn

LiveStates == {"offered", "leased", "claimed", "broken"}
TurnStates == LiveStates \cup {"none", "submitted", "recalled"}
Statuses   == {"done", "blocked", "declined"}

(* "none" is a step that run.turns does not hold.  nonce is 0 until the    *)
(* turn is claimed, prior is the state a recalled turn was in.             *)
Turn ==
  [state  : TurnStates,
   client : Clients \cup {Nobody},
   nonce  : Nat,
   status : Statuses \cup {"none"},
   output : Outputs \cup {Nothing},
   inputs : SUBSET Steps,
   prior  : TurnStates]

NoTurn ==
  [state  |-> "none", client |-> Nobody, nonce |-> 0, status |-> "none",
   output |-> Nothing, inputs |-> {}, prior |-> "none"]

NoTurns == [k \in Steps |-> NoTurn]

(* run and proposal are 0 when there is none, stop is the step recalled    *)
(* while claimed that still waits for 'stopped' (0: none).  suspect stands *)
(* for suspect_lines, suspect_turns and skipped: some record was skipped.  *)
Book ==
  [run         : Nat,
   turns       : [Steps -> Turn],
   pauses      : SUBSET (Clients \cup {HubRestart}),
   stop        : Steps \cup {0},
   proposal    : Nat,
   maxRun      : Nat,
   maxProposal : Nat,
   suspect     : BOOLEAN]

EmptyBook ==
  [run |-> 0, turns |-> NoTurns, pauses |-> {}, stop |-> 0, proposal |-> 0,
   maxRun |-> 0, maxProposal |-> 0, suspect |-> FALSE]

-----------------------------------------------------------------------------
(* Lookups.                                                                *)

Larger(m, n) == IF m < n THEN n ELSE m

Existing(b)  == {k \in Steps : b.turns[k].state # "none"}
LiveTurns(b) == {k \in Steps : b.turns[k].state \in LiveStates}
Submitted(b) == {k \in Steps : b.turns[k].state = "submitted"}

(* Run.live_turn: the first live turn.                                     *)
IsLiveTurn(b, k) ==
  /\ k \in LiveTurns(b)
  /\ \A j \in LiveTurns(b) : k <= j

(* max(run.turns, default=0) + 1                                           *)
IsNextStep(b, k) ==
  /\ k \in Steps
  /\ \A j \in Existing(b) : j < k
  /\ k > 1 => k - 1 \in Existing(b)

-----------------------------------------------------------------------------
(* TurnBook.apply, one operator per event.                                 *)

Skip(b) == [b EXCEPT !.suspect = TRUE]

(* Every event of a turn or of the run's end must name the open run.       *)
InRun(b, run, applied) ==
  IF b.run = 0 \/ b.run # run THEN Skip(b) ELSE applied

RunProposed(b, p) ==
  [b EXCEPT !.proposal = p, !.maxProposal = Larger(@, p)]

(* p is the proposal the record accepts or drops, 0 when it names none.    *)
RunOpened(b, run, p) ==
  LET seen == [b EXCEPT !.maxRun = Larger(@, run)]
  IN  IF b.run # 0
      THEN Skip(seen)
      ELSE [seen EXCEPT !.run = run, !.turns = NoTurns, !.pauses = {},
                        !.stop = 0,
                        !.proposal = IF @ = p THEN 0 ELSE @]

RunEnded(b, run) ==
  InRun(b, run, [b EXCEPT !.run = 0, !.turns = NoTurns, !.pauses = {},
                          !.stop = 0])

HubResumed(b, run) ==
  IF b.run # 0 /\ b.run = run THEN [b EXCEPT !.pauses = {}] ELSE b

TurnOffered(b, run, k, c, inputs) ==
  InRun(b, run,
    IF LiveTurns(b) # {} \/ b.stop # 0 \/ k \in Existing(b)
    THEN Skip(b)
    ELSE [b EXCEPT !.turns[k] =
            [NoTurn EXCEPT !.state = "offered", !.client = c,
                           !.inputs = inputs]])

(* Not in FOLDED: only the live book sees it.                              *)
TurnLeased(b, run, k) ==
  InRun(b, run,
    IF b.turns[k].state # "offered"
    THEN Skip(b)
    ELSE [b EXCEPT !.turns[k] = [@ EXCEPT !.state = "leased"]])

TurnClaimed(b, run, k, c, nonce) ==
  InRun(b, run,
    IF b.turns[k].state \notin {"offered", "leased"} \/ c # b.turns[k].client
    THEN Skip(b)
    ELSE [b EXCEPT !.turns[k] =
            [@ EXCEPT !.state = "claimed", !.nonce = nonce]])

(* A blocked answer pauses the run with the reason 'blocked by <client>'.  *)
TurnSubmitted(b, run, k, status, output) ==
  InRun(b, run,
    IF b.turns[k].state # "claimed"
    THEN Skip(b)
    ELSE [b EXCEPT !.turns[k] =
                     [@ EXCEPT !.state = "submitted", !.status = status,
                               !.output = output],
                   !.pauses = IF status = "blocked"
                              THEN @ \cup {b.turns[k].client} ELSE @])

TurnRecalled(b, run, k, needsStop) ==
  InRun(b, run,
    IF b.turns[k].state \notin LiveStates
    THEN Skip(b)
    ELSE [b EXCEPT !.turns[k] =
                     [@ EXCEPT !.state = "recalled",
                               !.prior = b.turns[k].state],
                   !.stop = IF needsStop THEN k ELSE @])

StopConfirmed(b, run, k) ==
  InRun(b, run, IF b.stop # k THEN Skip(b) ELSE [b EXCEPT !.stop = 0])

-----------------------------------------------------------------------------
(* Mutants of restore: a claimed turn is offered again; the run is not     *)
(* paused.                                                                 *)
RestoreReoffers(b, packetIntact) ==
  IF b.run = 0
  THEN b
  ELSE [b EXCEPT
          !.pauses = @ \cup {HubRestart},
          !.turns = [k \in Steps |->
            IF @[k].state = "claimed"
            THEN [@[k] EXCEPT !.state = "offered"]
            ELSE @[k]]]

RestoreUnpaused(b, packetIntact) == b

(* TurnBook.restore, after the fold at the start of a hub: an open run     *)
(* comes back paused, and an offered turn whose packet file is gone or     *)
(* changed is broken.  Neither is written to the record.                   *)
Restore(b, packetIntact) ==
  IF b.run = 0
  THEN b
  ELSE [b EXCEPT
          !.pauses = @ \cup {HubRestart},
          !.turns = [k \in Steps |->
            IF @[k].state = "offered" /\ IsLiveTurn(b, k) /\ ~packetIntact
            THEN [@[k] EXCEPT !.state = "broken"]
            ELSE @[k]]]

(* d is what the record file alone can tell of b.  A lease, a packet found *)
(* broken and the pause of a restart are recorded nowhere.                 *)
AsRecorded(s) == IF s \in {"leased", "broken"} THEN "offered" ELSE s

SameTurn(t, u) ==
  /\ t.state = AsRecorded(u.state)
  /\ t.prior = AsRecorded(u.prior)
  /\ t.client = u.client
  /\ t.nonce = u.nonce
  /\ t.status = u.status
  /\ t.output = u.output
  /\ t.inputs = u.inputs

Recorded(d, b) ==
  /\ d.run = b.run
  /\ d.pauses = b.pauses \ {HubRestart}
  /\ d.stop = b.stop
  /\ d.proposal = b.proposal
  /\ d.maxRun = b.maxRun
  /\ d.maxProposal = b.maxProposal
  /\ d.suspect = b.suspect
  /\ \A k \in Steps : SameTurn(d.turns[k], b.turns[k])

=============================================================================
