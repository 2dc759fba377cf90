-------------------------------- MODULE Baton --------------------------------
(***************************************************************************)
(* What the hub promises, whatever it does to keep the promise: the work   *)
(* is one baton.  It is offered to one app, taken by that app, and comes   *)
(* back with the app's answer, by being withdrawn before it was taken, or  *)
(* once the app is confirmed stopped.  Answers are kept as received until  *)
(* the run ends.  Leases, packets, pauses, the record file and restarts of *)
(* the hub are invisible here.                                             *)
(***************************************************************************)
EXTENDS Integers

CONSTANTS Clients, Outputs, Nobody, Nothing, MaxTurn

VARIABLES
  run,     (* the open run, 0 when there is none                           *)
  last,    (* the highest run ever opened                                  *)
  phase,   (* where the baton is                                           *)
  holder,  (* the app it is offered to, taken by, or being stopped at      *)
  answers  (* the answers received in the open run, by step                *)

vars == <<run, last, phase, holder, answers>>

Phases == {"idle", "offered", "working", "stopping"}

NoAnswers == [k \in 1 .. MaxTurn |-> Nothing]

Init ==
  /\ run = 0
  /\ last = 0
  /\ phase = "idle"
  /\ holder = Nobody
  /\ answers = NoAnswers

Open ==
  /\ run = 0
  /\ run' > last
  /\ last' = run'
  /\ answers' = NoAnswers
  /\ UNCHANGED <<phase, holder>>

Close ==
  /\ run # 0
  /\ phase = "idle"
  /\ run' = 0
  /\ answers' = NoAnswers
  /\ UNCHANGED <<last, phase, holder>>

Offer ==
  /\ run # 0
  /\ phase = "idle"
  /\ phase' = "offered"
  /\ holder' \in Clients
  /\ UNCHANGED <<run, last, answers>>

Withdraw ==
  /\ phase = "offered"
  /\ phase' = "idle"
  /\ holder' = Nobody
  /\ UNCHANGED <<run, last, answers>>

Take ==
  /\ phase = "offered"
  /\ phase' = "working"
  /\ UNCHANGED <<run, last, holder, answers>>

Answer(k, output) ==
  /\ phase = "working"
  /\ answers[k] = Nothing
  /\ answers' = [answers EXCEPT ![k] = output]
  /\ phase' = "idle"
  /\ holder' = Nobody
  /\ UNCHANGED <<run, last>>

Interrupt ==
  /\ phase = "working"
  /\ phase' = "stopping"
  /\ UNCHANGED <<run, last, holder, answers>>

ConfirmStopped ==
  /\ phase = "stopping"
  /\ phase' = "idle"
  /\ holder' = Nobody
  /\ UNCHANGED <<run, last, answers>>

Next ==
  \/ Open \/ Close
  \/ Offer \/ Withdraw \/ Take
  \/ \E k \in 1 .. MaxTurn, output \in Outputs : Answer(k, output)
  \/ Interrupt \/ ConfirmStopped

Spec == Init /\ [][Next]_vars

=============================================================================
