------------------------------- MODULE Presence -------------------------------
(***************************************************************************)
(* Who is there: registrations, silence, and the counting of rejected      *)
(* tokens, as the hub keeps them between the callbacks of the auth layer,  *)
(* the register tool, the monitor's tick and the stop (rco/hub.py).        *)
(*                                                                         *)
(* A handler may write several records and each write may fail; a failure  *)
(* may stop the hub in the middle of the handler, and the stop writes what *)
(* the hub still counts.  So a handler maps a state of the hub to the set  *)
(* of states it can leave, one operator for each thing it does on its way. *)
(***************************************************************************)
EXTENDS Integers, SequencesExt

CONSTANTS
  Clients,     (* the clients of the registry                              *)
  Keys,        (* reason and variable of a rejection                       *)
  Policies,    (* the configurations: records.on_write_failure and         *)
               (* registration.re_register_policy                          *)
  MaxMinutes,  (* bound: UTC minutes                                       *)
  MaxRejected, (* bound: rejections of a key, by minute                    *)
  MaxOpen      (* bound: requests of a client in flight                    *)

ASSUME PresenceAssumption ==
  /\ {MaxMinutes, MaxOpen} \subseteq Nat /\ MaxMinutes > 0
  /\ \A p \in Policies : p.failure \in {"fail_action", "continue", "stop_hub"}

VARIABLES
  hub,       (* what the handlers change (Hub below)                       *)
  traffic,   (* ClientState.open_requests, and whether last_seen_mono is   *)
             (* within staleness_s, by client                              *)
  since,     (* the age of first_registration_mono                         *)
  minute,    (* the UTC minute                                             *)
  policy,    (* the configuration of this hub run                          *)
  arrived,   (* history: the rejections, by key and minute                 *)
  late       (* history: the keys and minutes rejected after the stop      *)

vars == <<hub, traffic, since, minute, policy, arrived, late>>

Minutes == 1 .. MaxMinutes
Nobody  == [minute |-> 0, count |-> 0, covered |-> 0]

Init ==
  /\ hub = [registered |-> {}, stale |-> {}, missing |-> {}, announced |-> FALSE,
            auth |-> [k \in Keys |-> Nobody], stopping |-> FALSE,
            lines |-> [k \in Keys |-> [m \in Minutes |-> <<>>]],
            unsaid |-> {}, works |-> TRUE]
  /\ traffic = [c \in Clients |-> [open |-> 0, recent |-> FALSE]]
  /\ since = "none" /\ minute = 1
  /\ policy \in Policies
  /\ arrived = [k \in Keys |-> [m \in Minutes |-> 0]] /\ late = {}

Steps(S) == UNION S

-----------------------------------------------------------------------------
(* The rejected tokens.                                                    *)

(* Mutant of flush_auth and auth_rejected: a total is recorded again.      *)
CountedAtAll(s, k) == s.auth[k].count > 0

Uncovered(s, k) == s.auth[k].count > s.auth[k].covered

(* Mutant of _record_auth: only the count is remembered as recorded.       *)
WrittenUncovered(s, k) ==
  [s EXCEPT !.lines[k][s.auth[k].minute] = Append(@, s.auth[k].count)]

Written(s, k) ==
  [s EXCEPT !.auth[k].covered = s.auth[k].count,
            !.lines[k][s.auth[k].minute] = Append(@, s.auth[k].count),
            !.unsaid = @ \ {<<k, s.auth[k].minute>>}]

(* on_write_failure "continue" takes the record for written.               *)
Unwritten(s, k) ==
  [s EXCEPT !.auth[k].covered =
              IF policy.failure = "continue" THEN s.auth[k].count ELSE @,
            !.unsaid = @ \cup {<<k, s.auth[k].minute>>}]

Outcomes(written, unwritten, s) == IF s.works THEN {written} ELSE {written, unwritten}

(* Of the records that are due, those a handler may fail to write.         *)
Losable(s, due) == IF s.works THEN {{}} ELSE SUBSET due

Due(s, K) == {k \in K : Uncovered(s, k)}

(* The loop of flush_auth over the keys K: each is dropped, and has a line *)
(* first if no record covers its count, but for those lost.                *)
Flushed(s, K, lost) ==
  LET written == Due(s, K) \ lost
      Minute(ks) == {<<k, s.auth[k].minute>> : k \in ks}
  IN  [s EXCEPT
         !.auth = [k \in Keys |-> IF k \in K THEN Nobody ELSE s.auth[k]],
         !.lines = [k \in Keys |-> [m \in Minutes |->
           IF k \in written /\ s.auth[k].minute = m
           THEN Append(s.lines[k][m], s.auth[k].count) ELSE s.lines[k][m]]],
         !.unsaid = (@ \cup Minute(lost)) \ Minute(written)]

Flushes(s, K) == {Flushed(s, K, lost) : lost \in Losable(s, Due(s, K))}

(* request_stop: flush_auth(final=True), every key whose count no record   *)
(* covers, then server_stop.  A failure does not stop a hub that stops.    *)
Stops(s) == Flushes([s EXCEPT !.stopping = TRUE], Keys)

StopsOnFailure(s) == policy.failure = "stop_hub" /\ ~s.stopping

(* _record_auth, the write of which may stop the hub.                      *)
RecordAuth(s, k) ==
  IF StopsOnFailure(s) /\ ~s.works
  THEN {Written(s, k)} \cup Stops(Unwritten(s, k))
  ELSE Outcomes(Written(s, k), Unwritten(s, k), s)

(* A record with an effect: without the record no effect, but for          *)
(* "continue".                                                             *)
Record(s, effect) ==
  CASE s.works -> {effect}
    [] ~s.works /\ StopsOnFailure(s) -> {effect} \cup Stops(s)
    [] OTHER -> {effect} \cup (IF policy.failure = "continue" THEN {} ELSE {s})

(* Mutant of flush_auth: the count of every minute is flushed.             *)
EndedAlready(s, k) == s.auth[k] # Nobody

Ended(s, k) == s.auth[k] # Nobody /\ s.auth[k].minute # minute

(* flush_auth, of the ended minutes.  When a failed write stops the hub,   *)
(* the stop flushes what is left, the key that failed among it, and the    *)
(* tick, which finds its keys gone, ends in a KeyError.                    *)
Flush(s) ==
  LET ended == {k \in Keys : Ended(s, k)}
  IN  IF StopsOnFailure(s) /\ ~s.works /\ Due(s, ended) # {}
      THEN {Flushed(s, ended, {})} \cup Stops(s)
      ELSE Flushes(s, ended)

(* auth_rejected: what an ended minute still counts is recorded first, the *)
(* first rejection of a minute at once.                                    *)
Counted(s, k) ==
  IF s.auth[k].minute = minute
  THEN [s EXCEPT !.auth[k].count = @ + 1]
  ELSE [s EXCEPT !.auth[k] = [minute |-> minute, count |-> 1, covered |-> 0]]

(* Mutant of auth_rejected: the next minute begins without the last one's  *)
(* total.                                                                  *)
RollsAtOnce(s, k) == {s}

RollsOver(s, k) == IF Ended(s, k) /\ Uncovered(s, k) THEN RecordAuth(s, k) ELSE {s}

RecordedAtOnce(s, k) == IF s.auth[k].covered = 0 THEN RecordAuth(s, k) ELSE {s}

AuthRejected(s, k) ==
  Steps({RecordedAtOnce(Counted(t, k), k) : t \in RollsOver(s, k)})

-----------------------------------------------------------------------------
(* Presence and registration.                                              *)

Present(c) == traffic[c].open > 0 \/ traffic[c].recent

ActiveAgain(s, c) ==
  IF c \in s.stale THEN Record(s, [s EXCEPT !.stale = @ \ {c}]) ELSE {s}

(* Mutant of check_presence: who was reported missing is not looked at     *)
(* again.                                                                  *)
SilentUnlessMissing(s) ==
  {c \in s.registered \ (s.stale \cup s.missing) : ~Present(c)}

(* Whom check_presence has news of: who is silent, is back, never came.    *)
Silent(s) == {c \in s.registered \ s.stale : ~Present(c)}
Back(s)   == {c \in s.registered \cap s.stale : Present(c)}
Absent(s) == IF since = "over" THEN Clients \ (s.registered \cup s.missing) ELSE {}

Reported(s, clients) ==
  [s EXCEPT !.stale = (s.stale \cup (Silent(s) \cap clients)) \ (Back(s) \cap clients),
            !.missing = s.missing \cup (Absent(s) \cap clients)]

(* The loop of check_presence, a record and its effect for each of them.   *)
(* The first record lost may stop the hub; the loop goes on after that.    *)
CheckPresence(s) ==
  LET news == Silent(s) \cup Back(s) \cup Absent(s)
  IN  UNION {IF policy.failure = "continue" THEN {Reported(s, news)}
             ELSE IF StopsOnFailure(s) /\ lost # {} THEN Stops(Reported(s, news \ lost))
             ELSE {Reported(s, news \ lost)} : lost \in Losable(s, news)}

MaybeReady(s) ==
  IF ~s.announced /\ s.registered = Clients
  THEN Record(s, [s EXCEPT !.announced = TRUE])
  ELSE {s}

(* _register: a name or a client that does not match is noted or refused,  *)
(* each with a record of its own.                                          *)
Noted(s) == Record(s, s)

FirstRegistration(s, c) ==
  Steps({IF c \in t.registered THEN MaybeReady(t) ELSE {t} :
           t \in Record(s, [s EXCEPT !.registered = @ \cup {c}, !.stale = @ \ {c}])})

AnotherRegistration(s, c) ==
  CASE policy.reregister = "refuse_until_release" -> Noted(s)
    [] policy.reregister = "line_after_stale" ->
         (IF s.works \/ policy.failure = "continue" THEN {} ELSE Noted(s))
           \cup ActiveAgain(s, c)
    [] OTHER -> Noted(s)

Register(s, c) ==
  Noted(s) \cup
  Steps({IF c \in t.registered THEN AnotherRegistration(t, c) ELSE FirstRegistration(t, c) :
           t \in Noted(s)})

-----------------------------------------------------------------------------
(* The handlers.  After the stop, while the server finishes what it has    *)
(* and until the monitor is cancelled, rejections and ticks still come;    *)
(* registrations and the apps' requests of these moments are left out.     *)
(* works: no write of this one fails.                                      *)

Handles(works, Outcome(_)) ==
  \E s \in Outcome([hub EXCEPT !.works = works]) : hub' = [s EXCEPT !.works = TRUE]

Rejected(k) ==
  /\ arrived[k][minute] < MaxRejected[minute]
  /\ \E works \in BOOLEAN : Handles(works, LAMBDA s : AuthRejected(s, k))
  /\ arrived' = [arrived EXCEPT ![k][minute] = @ + 1]
  /\ late' = IF hub.stopping THEN late \cup {<<k, minute>>} ELSE late
  /\ UNCHANGED <<traffic, since, minute, policy>>

Registers(c) ==
  /\ ~hub.stopping
  /\ traffic[c].open > 0
  /\ \E works \in BOOLEAN : Handles(works, LAMBDA s : Register(s, c))
  /\ since' = IF since = "none" /\ hub'.registered # {} THEN "running" ELSE since
  /\ UNCHANGED <<traffic, minute, policy, arrived, late>>

Release(s, c) ==
  Record(s, [s EXCEPT !.registered = @ \ {c}, !.stale = @ \ {c}])

(* The operator's release, where the configuration has it.                 *)
Releases(c) ==
  /\ ~hub.stopping
  /\ c \in hub.registered
  /\ \E works \in BOOLEAN : Handles(works, LAMBDA s : Release(s, c))
  /\ UNCHANGED <<traffic, since, minute, policy, arrived, late>>

TickWith(works) ==
  /\ Handles(works, LAMBDA s : Steps({Flush(t) : t \in CheckPresence(s)}))
  /\ UNCHANGED <<traffic, since, minute, policy, arrived, late>>

Tick == \E works \in BOOLEAN : TickWith(works)

(* Stop, Ctrl+C or the close of the window.                                *)
RequestStop ==
  /\ ~hub.stopping
  /\ \E works \in BOOLEAN : Handles(works, Stops)
  /\ UNCHANGED <<traffic, since, minute, policy, arrived, late>>

-----------------------------------------------------------------------------
(* The apps, until the hub is asked to stop, and the clocks.               *)

Moves(variable) == ~hub.stopping /\ UNCHANGED <<hub, policy, arrived, late, variable>>

RequestStarted(c) ==
  /\ traffic[c].open < MaxOpen
  /\ traffic' = [traffic EXCEPT ![c] = [open |-> @.open + 1, recent |-> TRUE]]
  /\ Moves(<<since, minute>>)

RequestFinished(c) ==
  /\ traffic[c].open > 0
  /\ traffic' = [traffic EXCEPT ![c] = [open |-> @.open - 1, recent |-> TRUE]]
  /\ Moves(<<since, minute>>)

(* staleness_s since the last request began or ended.                      *)
GrowsOld(c) ==
  /\ traffic[c].recent
  /\ traffic' = [traffic EXCEPT ![c].recent = FALSE]
  /\ Moves(<<since, minute>>)

(* missing_report_s since the first registration.                          *)
Awaited ==
  /\ since = "running" /\ since' = "over"
  /\ Moves(<<traffic, minute>>)

MinuteEnds ==
  /\ minute < MaxMinutes /\ minute' = minute + 1
  /\ UNCHANGED <<hub, traffic, since, policy, arrived, late>>

Next ==
  \/ \E k \in Keys : Rejected(k)
  \/ \E c \in Clients : Registers(c) \/ Releases(c)
  \/ \E c \in Clients : RequestStarted(c) \/ RequestFinished(c) \/ GrowsOld(c)
  \/ Tick \/ RequestStop \/ Awaited \/ MinuteEnds

Spec == Init /\ [][Next]_vars

(* The monitor ticks until the stop, and while the hub works some tick     *)
(* writes all it has to write.                                             *)
FairSpec == Spec /\ WF_vars(~hub.stopping /\ TickWith(TRUE))

-----------------------------------------------------------------------------
(* What must hold.                                                         *)

(* Every part of the state has its type, and only the registered are       *)
(* stale.                                                                  *)
TypeOK ==
  /\ hub.stale \subseteq hub.registered /\ hub.registered \subseteq Clients
  /\ hub.missing \subseteq Clients
  /\ {hub.announced, hub.stopping} \subseteq BOOLEAN
  /\ hub.auth \in [Keys -> [minute : 0 .. minute, count : Nat, covered : Nat]]
  /\ hub.lines \in [Keys -> [Minutes -> Seq(Nat)]]
  /\ hub.unsaid \subseteq Keys \X Minutes
  /\ traffic \in [Clients -> [open : 0 .. MaxOpen, recent : BOOLEAN]]
  /\ since \in {"none", "running", "over"} /\ minute \in Minutes
  /\ arrived \in [Keys -> [Minutes -> Nat]] /\ late \subseteq Keys \X Minutes

(* What the hub knows of a minute, as long as it counts, or its last line. *)
Told(k, m) ==
  LET lines == hub.lines[k][m]
  IN  CASE hub.auth[k].minute = m /\ ~hub.stopping -> hub.auth[k].count
        [] OTHER -> IF lines = <<>> THEN 0 ELSE Last(lines)

(* However rejections, the end of the minute, the tick and the stop fall   *)
(* together, every rejection before the stop is still counted in memory or *)
(* in the last line of its minute, unless that line could not be written   *)
(* (auth_rejected, flush_auth).                                            *)
NoRejectionForgotten ==
  \A k \in Keys : \A m \in Minutes :
    <<k, m>> \notin hub.unsaid \cup late => Told(k, m) = arrived[k][m]

(* A client that retries a bad token adds at most two lines a minute; one  *)
(* that still does after the stop, whose final flush forgets what it has   *)
(* counted, at most two more, and none of them counts a rejection too many *)
(* (auth_rejected, flush_auth).                                            *)
TwoLinesAMinute ==
  \A k \in Keys : \A m \in Minutes :
    /\ Len(hub.lines[k][m]) <= IF <<k, m>> \in late THEN 4 ELSE 2
    /\ \A i \in DOMAIN hub.lines[k][m] : hub.lines[k][m][i] <= arrived[k][m]

(* Before the stop no line of a minute repeats an earlier one or tells of  *)
(* fewer rejections, so that the last one is the total (auth_rejected,     *)
(* flush_auth).                                                            *)
LinesTellMore ==
  \A k \in Keys : \A m \in Minutes :
    <<k, m>> \notin late =>
      \A i, j \in DOMAIN hub.lines[k][m] :
        i < j => hub.lines[k][m][i] < hub.lines[k][m][j]

(* The operator is told of a registered client that stays silent           *)
(* (check_presence).                                                       *)
SilenceReported ==
  \A c \in Clients :
    (c \in hub.registered /\ ~Present(c)) ~>
      (c \in hub.stale \/ c \notin hub.registered \/ Present(c) \/ hub.stopping)

=============================================================================
