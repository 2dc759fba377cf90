---------------------------- MODULE Presence_proofs ----------------------------
(***************************************************************************)
(* That no rejection is forgotten and none is told of too often, for any   *)
(* clients, keys, configurations and bounds.                               *)
(*                                                                         *)
(* The invariant says of each key and minute how the count in memory, the  *)
(* lines written and the rejections that arrived stand to each other       *)
(* (Sound).  A handler is a sequence of operators on states of the hub, so *)
(* each operator has a lemma that it keeps what holds of every key and     *)
(* minute, and each handler one that composes them.                        *)
(***************************************************************************)
EXTENDS Presence, TLAPS

Auth == [minute : 0 .. MaxMinutes, count : Nat, covered : Nat]

Hub ==
  {s \in [registered : SUBSET Clients, stale : SUBSET Clients, missing : SUBSET Clients,
          announced : BOOLEAN, auth : [Keys -> Auth], stopping : BOOLEAN,
          lines : [Keys -> [Minutes -> Seq(Nat)]], unsaid : SUBSET (Keys \X Minutes),
          works : BOOLEAN] :
     s.stale \subseteq s.registered}

(* A minute that a rejection came late in may have two lines of its own.   *)
Cap(tardy) == IF tardy THEN 3 ELSE 1

LastOf(l) == IF l = <<>> THEN 0 ELSE Last(l)

Rises(l) == \A i, j \in DOMAIN l : i < j => l[i] < l[j]

(* What is counted of the minute m in the entry a, what its lines l tell,  *)
(* and the n rejections that arrived in it: the count is right, no lines   *)
(* are spent but one for the first rejection and one for the total, and    *)
(* none tells of more than is covered.                                     *)
CountsAgree(a, m, l, n, unsaidHere, tardy) ==
  /\ \A i \in DOMAIN l : l[i] <= n
  /\ Len(l) <= Cap(tardy) + 1
  /\ ~tardy => Rises(l)
  /\ a.minute = m =>
       /\ 1 <= a.count /\ a.count <= n /\ a.covered <= a.count
       /\ ~tardy => a.count = n /\ \A i \in DOMAIN l : l[i] <= a.covered
       /\ a.covered = 0 => Len(l) < Cap(tardy)
       /\ a.covered < a.count => Len(l) <= Cap(tardy)
       /\ ~tardy /\ ~unsaidHere => LastOf(l) = a.covered
  /\ a.minute # m /\ ~tardy /\ ~unsaidHere => LastOf(l) = n

IsFresh(l, n, unsaidHere, tardy) == l = <<>> /\ n = 0 /\ ~unsaidHere /\ ~tardy

Sound(s, k, m, arr, lt, now) ==
  /\ CountsAgree(s.auth[k], m, s.lines[k][m], arr[k][m], <<k, m>> \in s.unsaid, <<k, m>> \in lt)
  /\ s.auth[k].minute <= now
  /\ s.auth[k].minute = 0 => s.auth[k] = Nobody
  /\ m > now \/ (m = now /\ ~s.stopping /\ s.auth[k].minute # m) =>
       IsFresh(s.lines[k][m], arr[k][m], <<k, m>> \in s.unsaid, <<k, m>> \in lt)
  /\ <<k, m>> \in lt => s.stopping /\ (m = now => s.auth[k].minute = m)
  /\ m = now /\ s.auth[k].minute = m => Len(s.lines[k][m]) <= Cap(<<k, m>> \in lt)

Settled(s, k, m, lt) ==
  s.stopping /\ s.auth[k].minute = m /\ <<k, m>> \notin lt \cup s.unsaid =>
    s.auth[k].covered = s.auth[k].count

Good(s, arr, lt, now) ==
  /\ s \in Hub
  /\ \A k \in Keys, m \in Minutes : Sound(s, k, m, arr, lt, now) /\ Settled(s, k, m, lt)

(* The apps, the clocks and the history.                                   *)
Around ==
  /\ traffic \in [Clients -> [open : 0 .. MaxOpen, recent : BOOLEAN]]
  /\ since \in {"none", "running", "over"} /\ minute \in Minutes
  /\ arrived \in [Keys -> [Minutes -> Nat]] /\ late \subseteq Keys \X Minutes

IInv == Around /\ Good(hub, arrived, late, minute)

-----------------------------------------------------------------------------
(* One key and one minute.                                                 *)

LEMMA Bounds ==
  /\ MaxMinutes \in Nat /\ 1 \in Minutes
  /\ Minutes \subseteq Nat /\ 0 \notin Minutes
  BY PresenceAssumption DEF Minutes

LEMMA Appended ==
  ASSUME NEW l \in Seq(Nat), NEW c \in Nat
  PROVE  /\ Append(l, c) \in Seq(Nat)
         /\ Len(Append(l, c)) = Len(l) + 1 /\ Len(l) \in Nat
         /\ DOMAIN l = 1 .. Len(l) /\ DOMAIN Append(l, c) = 1 .. Len(l) + 1
         /\ \A i \in DOMAIN l : Append(l, c)[i] = l[i]
         /\ LastOf(Append(l, c)) = c
         /\ \A i \in DOMAIN Append(l, c) :
              Append(l, c)[i] = c \/ (i \in DOMAIN l /\ Append(l, c)[i] = l[i])
<1>1. /\ Append(l, c) \in Seq(Nat)
      /\ Len(Append(l, c)) = Len(l) + 1 /\ Len(l) \in Nat
      /\ Append(l, c)[Len(l) + 1] = c /\ Append(l, c) # <<>>
      /\ \A i \in 1 .. Len(l) : Append(l, c)[i] = l[i]
      /\ DOMAIN l = 1 .. Len(l) /\ DOMAIN Append(l, c) = 1 .. Len(l) + 1
  OBVIOUS
<1>2. LastOf(Append(l, c)) = c
  BY <1>1 DEF LastOf, Last
<1>3. ASSUME NEW i \in DOMAIN Append(l, c)
      PROVE  Append(l, c)[i] = c \/ (i \in DOMAIN l /\ Append(l, c)[i] = l[i])
  <2>1. DOMAIN l = 1 .. Len(l) /\ DOMAIN Append(l, c) = 1 .. Len(l) + 1
    BY <1>1
  <2>2. i \in 1 .. Len(l) \/ i = Len(l) + 1
    BY ONLY <1>1, <2>1, i \in DOMAIN Append(l, c)
  <2>3. CASE i \in 1 .. Len(l)
    <3>1. Append(l, c)[i] = l[i]
      BY ONLY <1>1, <2>3
    <3>2. i \in DOMAIN l
      BY ONLY <2>1, <2>3
    <3> QED
      BY ONLY <3>1, <3>2
  <2>4. CASE i = Len(l) + 1
    <3>1. Append(l, c)[Len(l) + 1] = c
      BY ONLY <1>1
    <3> QED
      BY ONLY <2>4, <3>1
  <2> QED
    BY ONLY <2>2, <2>3, <2>4
<1> QED
  BY <1>1, <1>2, <1>3

LEMMA LinesAreNat ==
  ASSUME NEW l \in Seq(Nat), NEW i \in DOMAIN l
  PROVE  l[i] \in Nat
  BY Bounds

(* A line of the count that no line has told.                              *)
LEMMA LineAgrees ==
  ASSUME NEW a \in Auth, NEW m, NEW l \in Seq(Nat), NEW n \in Nat, NEW p, NEW U, NEW T,
         CountsAgree(a, m, l, n, p \in U, p \in T), a.minute = m, a.covered < a.count
  PROVE  LET w == Append(l, a.count)
         IN  /\ w \in Seq(Nat)
             /\ \A i \in DOMAIN w : w[i] <= n
             /\ Len(w) = Len(l) + 1 /\ Len(l) \in Nat
             /\ LastOf(w) = a.count /\ a.count \in Nat
             /\ Len(w) <= Cap(p \in T) + 1
             /\ a.covered = 0 => Len(w) <= Cap(p \in T)
             /\ p \notin T => Rises(w) /\ \A i \in DOMAIN w : w[i] <= a.count
<1> USE Bounds
<1>1. a.count \in Nat /\ a.covered \in Nat /\ a.count <= n
  BY DEF Auth, CountsAgree
<1>2. Cap(p \in T) \in Nat
  BY DEF Cap
<1> DEFINE w == Append(l, a.count)
<1>3. /\ w \in Seq(Nat)
      /\ Len(w) = Len(l) + 1 /\ Len(l) \in Nat
      /\ LastOf(w) = a.count
      /\ \A i \in DOMAIN w : w[i] = a.count \/ (i \in DOMAIN l /\ w[i] = l[i])
      /\ DOMAIN l = 1 .. Len(l) /\ DOMAIN w = 1 .. Len(l) + 1
      /\ \A i \in DOMAIN l : w[i] = l[i]
      /\ \A i \in DOMAIN l : l[i] \in Nat
  BY <1>1, Appended, LinesAreNat
<1>4. /\ \A i \in DOMAIN l : l[i] <= n
      /\ Len(l) <= Cap(p \in T)
      /\ a.covered = 0 => Len(l) < Cap(p \in T)
  BY DEF CountsAgree
<1> HIDE DEF w
<1>5. \A i \in DOMAIN w : w[i] <= n
  BY <1>1, <1>3, <1>4
<1>6. Len(w) <= Cap(p \in T) + 1 /\ (a.covered = 0 => Len(w) <= Cap(p \in T))
  BY <1>2, <1>3, <1>4
<1>7. ASSUME p \notin T
      PROVE  Rises(w) /\ \A i \in DOMAIN w : w[i] <= a.count
  <2>1. Rises(l) /\ \A i \in DOMAIN l : l[i] < a.count
    BY <1>1, <1>3, <1>7 DEF CountsAgree
  <2>2. \A i \in DOMAIN w : w[i] <= a.count
    BY <1>1, <1>3, <2>1
  <2>3. ASSUME NEW i \in DOMAIN w, NEW j \in DOMAIN w, i < j
        PROVE  w[i] < w[j]
    <3>1. i \in DOMAIN l
      BY <1>3, <2>3
    <3>2. CASE j \in DOMAIN l
      BY <1>3, <2>1, <2>3, <3>1, <3>2 DEF Rises
    <3>3. CASE j \notin DOMAIN l
      BY <1>3, <2>1, <3>1, <3>3
    <3> QED
      BY <3>2, <3>3
  <2> QED
    BY <2>2, <2>3 DEF Rises
<1> QED
  BY <1>1, <1>3, <1>5, <1>6, <1>7 DEF w

LEMMA SoundSame ==
  ASSUME NEW s, NEW t, NEW k, NEW m, NEW arr, NEW lt, NEW now,
         t.auth[k] = s.auth[k], t.lines[k][m] = s.lines[k][m], t.stopping = s.stopping,
         <<k, m>> \in t.unsaid <=> <<k, m>> \in s.unsaid
  PROVE  /\ Sound(s, k, m, arr, lt, now) => Sound(t, k, m, arr, lt, now)
         /\ Settled(s, k, m, lt) => Settled(t, k, m, lt)
  BY DEF Sound, Settled

(* What is told of a minute stays, whatever becomes of another one.        *)
SameAt(s, t, k, m) ==
  t.lines[k][m] = s.lines[k][m] /\ (<<k, m>> \in t.unsaid <=> <<k, m>> \in s.unsaid)

LEMMA OtherMinute ==
  ASSUME NEW s, NEW t, NEW k, NEW m, NEW arr, NEW lt, NEW now,
         SameAt(s, t, k, m), t.stopping = s.stopping, Sound(s, k, m, arr, lt, now),
         t.auth[k].minute = s.auth[k].minute, s.auth[k].minute # m, s.auth[k].minute # 0
  PROVE  Sound(t, k, m, arr, lt, now) /\ Settled(t, k, m, lt)
<1>1. CountsAgree(t.auth[k], m, t.lines[k][m], arr[k][m], <<k, m>> \in t.unsaid,
                  <<k, m>> \in lt)
  BY DEF Sound, CountsAgree, SameAt
<1>2. m > now \/ (m = now /\ ~t.stopping) =>
        IsFresh(t.lines[k][m], arr[k][m], <<k, m>> \in t.unsaid, <<k, m>> \in lt)
  BY DEF Sound, IsFresh, SameAt
<1>3. <<k, m>> \in lt => t.stopping /\ m # now
  BY DEF Sound
<1>4. t.auth[k].minute <= now
  BY DEF Sound
<1> QED
  BY <1>1, <1>2, <1>3, <1>4 DEF Sound, Settled

-----------------------------------------------------------------------------
(* _record_auth, written and not.                                          *)

SameRest(s, t) ==
  /\ t.registered = s.registered /\ t.stale = s.stale /\ t.missing = s.missing
  /\ t.announced = s.announced /\ t.works = s.works

LEMMA HubFields ==
  ASSUME NEW s \in Hub
  PROVE  /\ s.auth \in [Keys -> Auth] /\ s.lines \in [Keys -> [Minutes -> Seq(Nat)]]
         /\ s.unsaid \subseteq Keys \X Minutes /\ s.stopping \in BOOLEAN
         /\ \A k \in Keys : s.auth[k].minute \in 0 .. MaxMinutes
                            /\ s.auth[k].count \in Nat /\ s.auth[k].covered \in Nat
  BY DEF Hub, Auth

(* A state with its counters replaced.                                     *)
LEMMA Replaced ==
  ASSUME NEW s \in Hub, NEW A \in [Keys -> Auth], NEW L \in [Keys -> [Minutes -> Seq(Nat)]],
         NEW U \in SUBSET (Keys \X Minutes)
  PROVE  LET t == [s EXCEPT !.auth = A, !.lines = L, !.unsaid = U]
         IN  /\ t \in Hub /\ t.auth = A /\ t.lines = L /\ t.unsaid = U
             /\ t.stopping = s.stopping /\ SameRest(s, t)
  BY DEF Hub, SameRest

LEMMA WrittenFields ==
  ASSUME NEW s \in Hub, NEW k \in Keys, s.auth[k].minute \in Minutes
  PROVE  LET t == Written(s, k)
             a == s.auth[k]
         IN  /\ t \in Hub /\ t.stopping = s.stopping /\ SameRest(s, t)
             /\ t.auth = [s.auth EXCEPT ![k] = [a EXCEPT !.covered = a.count]]
             /\ t.lines =
                  [s.lines EXCEPT ![k] =
                     [s.lines[k] EXCEPT ![a.minute] = Append(s.lines[k][a.minute], a.count)]]
             /\ t.unsaid = s.unsaid \ {<<k, a.minute>>}
<1> DEFINE a == s.auth[k]
           A == [s.auth EXCEPT ![k] = [a EXCEPT !.covered = a.count]]
           L == [s.lines EXCEPT ![k] =
                   [s.lines[k] EXCEPT ![a.minute] = Append(s.lines[k][a.minute], a.count)]]
           U == s.unsaid \ {<<k, a.minute>>}
           t == [s EXCEPT !.auth = A, !.lines = L, !.unsaid = U]
<1>1. a \in Auth /\ a.count \in Nat
  BY HubFields DEF Auth
<1>2. A \in [Keys -> Auth]
  <2>1. [a EXCEPT !.covered = a.count] \in Auth
    BY <1>1 DEF Auth
  <2> QED
    BY <2>1, HubFields
<1>3. L \in [Keys -> [Minutes -> Seq(Nat)]]
  <2>1. Append(s.lines[k][a.minute], a.count) \in Seq(Nat)
    BY <1>1, HubFields, Appended
  <2> QED
    BY <2>1, HubFields
<1>4. U \in SUBSET (Keys \X Minutes)
  BY HubFields
<1>5. Written(s, k) = t
  BY DEF Written
<1> HIDE DEF A, L, U
<1>6. /\ t \in Hub /\ t.auth = A /\ t.lines = L /\ t.unsaid = U
      /\ t.stopping = s.stopping /\ SameRest(s, t)
  BY <1>2, <1>3, <1>4, Replaced
<1> QED
  BY <1>5, <1>6 DEF A, L, U

LEMMA UnwrittenFields ==
  ASSUME NEW s \in Hub, NEW k \in Keys, s.auth[k].minute \in Minutes
  PROVE  LET t == Unwritten(s, k)
             a == s.auth[k]
         IN  /\ t \in Hub /\ t.stopping = s.stopping /\ SameRest(s, t)
             /\ \E c \in {a.covered, a.count} :
                  t.auth = [s.auth EXCEPT ![k] = [a EXCEPT !.covered = c]]
             /\ t.lines = s.lines
             /\ t.unsaid = s.unsaid \cup {<<k, a.minute>>}
<1> DEFINE a == s.auth[k]
           c == IF policy.failure = "continue" THEN a.count ELSE a.covered
           A == [s.auth EXCEPT ![k] = [a EXCEPT !.covered = c]]
           U == s.unsaid \cup {<<k, a.minute>>}
           t == [s EXCEPT !.auth = A, !.lines = s.lines, !.unsaid = U]
<1>1. a \in Auth /\ c \in {a.covered, a.count}
  BY HubFields DEF Auth
<1>2. A \in [Keys -> Auth]
  <2>1. [a EXCEPT !.covered = c] \in Auth
    BY <1>1 DEF Auth
  <2> QED
    BY <2>1, HubFields
<1>4. U \in SUBSET (Keys \X Minutes)
  BY HubFields
<1>5. Unwritten(s, k) = t
  <2>1. Unwritten(s, k) = [s EXCEPT !.auth = A, !.unsaid = U]
    BY DEF Unwritten
  <2>2. s = [s EXCEPT !.lines = s.lines]
    BY DEF Hub
  <2> QED
    BY <2>1, <2>2 DEF Hub
<1> HIDE DEF A, U
<1>6. /\ t \in Hub /\ t.auth = A /\ t.lines = s.lines /\ t.unsaid = U
      /\ t.stopping = s.stopping /\ SameRest(s, t)
  BY <1>2, <1>4, Replaced, HubFields
<1> QED
  BY <1>1, <1>5, <1>6 DEF A, U

(* Of an ended minute, or of one that has no line yet.                     *)
Tellable(s, k, now) ==
  /\ s.auth[k].minute \in Minutes
  /\ Uncovered(s, k)
  /\ s.auth[k].minute # now \/ s.auth[k].covered = 0

AllSound(s, arr, lt, now) == \A k \in Keys, m \in Minutes : Sound(s, k, m, arr, lt, now)

(* What is settled but for the present minute of k.                        *)
SettledBut(s, k, lt) ==
  \A j \in Keys, m \in Minutes : j # k \/ m # s.auth[k].minute => Settled(s, j, m, lt)

LEMMA WrittenGood ==
  ASSUME NEW s \in Hub, NEW k \in Keys, NEW arr \in [Keys -> [Minutes -> Nat]], NEW lt,
         NEW now \in Minutes, Tellable(s, k, now),
         AllSound(s, arr, lt, now), SettledBut(s, k, lt)
  PROVE  Good(Written(s, k), arr, lt, now)
<1> USE Bounds
<1> DEFINE t == Written(s, k)  a == s.auth[k]  b == [a EXCEPT !.covered = a.count]
           w == Append(s.lines[k][a.minute], a.count)
<1>1. /\ t \in Hub /\ t.stopping = s.stopping
      /\ t.auth = [s.auth EXCEPT ![k] = b]
      /\ t.lines = [s.lines EXCEPT ![k] = [s.lines[k] EXCEPT ![a.minute] = w]]
      /\ t.unsaid = s.unsaid \ {<<k, a.minute>>}
  BY WrittenFields DEF Tellable
<1>2. /\ a \in Auth /\ b.minute = a.minute /\ b.count = a.count /\ b.covered = a.count
      /\ a.covered < a.count /\ a.minute \in Minutes /\ a.count \in Nat
  BY HubFields DEF Tellable, Uncovered, Auth
<1> HIDE DEF t, b, w
<1>3. ASSUME NEW j \in Keys, NEW m \in Minutes, j # k
      PROVE  Sound(t, j, m, arr, lt, now) /\ Settled(t, j, m, lt)
  <2>1. t.auth[j] = s.auth[j] /\ t.lines[j][m] = s.lines[j][m]
        /\ (<<j, m>> \in t.unsaid <=> <<j, m>> \in s.unsaid)
    BY <1>1, <1>3, HubFields
  <2>2. Sound(s, j, m, arr, lt, now) /\ Settled(s, j, m, lt)
    BY <1>3 DEF AllSound, SettledBut
  <2> QED
    BY <1>1, <2>1, <2>2, SoundSame
<1>4. ASSUME NEW m \in Minutes, m # a.minute
      PROVE  Sound(t, k, m, arr, lt, now) /\ Settled(t, k, m, lt)
  <2>1. t.auth[k] = b /\ SameAt(s, t, k, m)
    BY <1>1, <1>4, HubFields DEF SameAt
  <2>2. Sound(s, k, m, arr, lt, now)
    BY DEF AllSound
  <2> QED
    BY <1>1, <1>2, <1>4, <2>1, <2>2, OtherMinute
<1>5. Sound(t, k, a.minute, arr, lt, now) /\ Settled(t, k, a.minute, lt)
  <2> DEFINE l == s.lines[k][a.minute]  n == arr[k][a.minute]  p == <<k, a.minute>>
  <2>1. t.auth[k] = b /\ t.lines[k][a.minute] = w /\ p \notin t.unsaid
    BY <1>1, <1>2, HubFields
  <2>2. Sound(s, k, a.minute, arr, lt, now)
    BY <1>2 DEF AllSound
  <2>3. CountsAgree(a, a.minute, l, n, p \in s.unsaid, p \in lt)
        /\ l \in Seq(Nat) /\ n \in Nat
    BY <1>2, <2>2, HubFields DEF Sound
  <2>4. /\ \A i \in DOMAIN w : w[i] <= n
        /\ Len(w) = Len(l) + 1 /\ Len(l) \in Nat
        /\ LastOf(w) = a.count /\ a.count \in Nat
        /\ Len(w) <= Cap(p \in lt) + 1
        /\ a.covered = 0 => Len(w) <= Cap(p \in lt)
        /\ p \notin lt => Rises(w) /\ \A i \in DOMAIN w : w[i] <= a.count
    BY <1>2, <2>3, LineAgrees DEF w
  <2>5. 1 <= a.count /\ a.count <= n /\ (p \notin lt => a.count = n)
    BY <2>3 DEF CountsAgree
  <2> HIDE DEF l, n, p
  <2>6. CountsAgree(b, a.minute, w, n, p \in t.unsaid, p \in lt)
    BY <1>2, <2>1, <2>4, <2>5 DEF CountsAgree
  <2>7. a.minute = now => a.covered = 0
    BY DEF Tellable
  <2>8. /\ a.minute <= now /\ a.minute # 0
        /\ p \in lt => s.stopping
        /\ a.minute = now => Len(w) <= Cap(p \in lt)
    BY <1>2, <2>2, <2>4, <2>7 DEF Sound, p
  <2>9. ~(a.minute > now)
    BY <1>2, <2>8
  <2>10. Sound(t, k, a.minute, arr, lt, now)
    BY <1>1, <1>2, <2>1, <2>6, <2>8, <2>9 DEF Sound, n, p
  <2> QED
    BY <1>2, <2>1, <2>10 DEF Settled
<1>6. \A j \in Keys, m \in Minutes : Sound(t, j, m, arr, lt, now) /\ Settled(t, j, m, lt)
  BY <1>3, <1>4, <1>5
<1> QED
  BY <1>1, <1>6 DEF Good, t

LEMMA UnwrittenGood ==
  ASSUME NEW s \in Hub, NEW k \in Keys, NEW arr \in [Keys -> [Minutes -> Nat]], NEW lt,
         NEW now \in Minutes, s.auth[k].minute \in Minutes,
         AllSound(s, arr, lt, now), SettledBut(s, k, lt)
  PROVE  Good(Unwritten(s, k), arr, lt, now)
<1> USE Bounds
<1> DEFINE t == Unwritten(s, k)  a == s.auth[k]
<1>1. /\ t \in Hub /\ t.stopping = s.stopping /\ t.lines = s.lines
      /\ t.unsaid = s.unsaid \cup {<<k, a.minute>>}
  BY UnwrittenFields
<1>2. PICK c \in {a.covered, a.count} :
        t.auth = [s.auth EXCEPT ![k] = [a EXCEPT !.covered = c]]
  BY UnwrittenFields
<1> DEFINE b == [a EXCEPT !.covered = c]
<1>3. /\ b.minute = a.minute /\ b.count = a.count /\ b.covered = c
      /\ a.count \in Nat /\ a.covered \in Nat /\ a.minute \in Nat /\ a.minute # 0 /\ now \in Nat
  BY HubFields DEF Auth
<1>4. t.auth = [s.auth EXCEPT ![k] = b] /\ t.auth[k] = b
  BY <1>2, HubFields
<1> HIDE DEF t, b
<1>5. ASSUME NEW j \in Keys, NEW m \in Minutes, j # k
      PROVE  Sound(t, j, m, arr, lt, now) /\ Settled(t, j, m, lt)
  <2>1. t.auth[j] = s.auth[j] /\ t.lines[j][m] = s.lines[j][m]
        /\ (<<j, m>> \in t.unsaid <=> <<j, m>> \in s.unsaid)
    BY <1>1, <1>4, <1>5, HubFields
  <2>2. Sound(s, j, m, arr, lt, now) /\ Settled(s, j, m, lt)
    BY <1>5 DEF AllSound, SettledBut
  <2> QED
    BY <1>1, <2>1, <2>2, SoundSame
<1>6. ASSUME NEW m \in Minutes, m # a.minute
      PROVE  Sound(t, k, m, arr, lt, now) /\ Settled(t, k, m, lt)
  <2>1. SameAt(s, t, k, m)
    BY <1>1, <1>6 DEF SameAt
  <2>2. Sound(s, k, m, arr, lt, now)
    BY DEF AllSound
  <2> QED
    BY <1>1, <1>3, <1>4, <1>6, <2>1, <2>2, OtherMinute
<1>7. Sound(t, k, a.minute, arr, lt, now) /\ Settled(t, k, a.minute, lt)
  <2>1. t.lines[k][a.minute] = s.lines[k][a.minute] /\ <<k, a.minute>> \in t.unsaid
    BY <1>1
  <2>2. Sound(s, k, a.minute, arr, lt, now)
    BY DEF AllSound
  <2>3. CountsAgree(b, a.minute, t.lines[k][a.minute], arr[k][a.minute],
                    <<k, a.minute>> \in t.unsaid, <<k, a.minute>> \in lt)
    <3> DEFINE l == s.lines[k][a.minute]  n == arr[k][a.minute]  tardy == <<k, a.minute>> \in lt
    <3>1. CountsAgree(a, a.minute, l, n, <<k, a.minute>> \in s.unsaid, tardy)
      BY <2>2 DEF Sound
    <3>2. \A i \in DOMAIN l : l[i] \in Nat
      BY HubFields, LinesAreNat
    <3> HIDE DEF l, n, tardy
    <3>3. ~tardy => \A i \in DOMAIN l : l[i] <= c
      BY <1>3, <3>1, <3>2 DEF CountsAgree
    <3>4. CountsAgree(b, a.minute, l, n, TRUE, tardy)
      BY <1>3, <3>1, <3>3 DEF CountsAgree
    <3> QED
      BY <2>1, <3>4 DEF l, n, tardy
  <2>4. ~(a.minute > now)
    BY <1>3, <2>2 DEF Sound
  <2>5. Sound(t, k, a.minute, arr, lt, now)
    BY <1>1, <1>3, <1>4, <2>1, <2>2, <2>3, <2>4 DEF Sound
  <2> QED
    BY <2>1, <2>5 DEF Settled
<1>8. \A j \in Keys, m \in Minutes : Sound(t, j, m, arr, lt, now) /\ Settled(t, j, m, lt)
  BY <1>5, <1>6, <1>7
<1> QED
  BY <1>1, <1>8 DEF Good, t

-----------------------------------------------------------------------------
(* flush_auth and request_stop.                                            *)

(* The keys that are dropped have no minute that goes on.                  *)
LEMMA FlushedFields ==
  ASSUME NEW s \in Hub, NEW K \in SUBSET Keys, NEW lost \in SUBSET Due(s, K),
         \A k \in Due(s, K) : s.auth[k].minute \in Minutes
  PROVE  LET t == Flushed(s, K, lost)
             Here(k, m) == k \in Due(s, K) \ lost /\ s.auth[k].minute = m
         IN  /\ t \in Hub /\ t.stopping = s.stopping /\ SameRest(s, t)
             /\ \A k \in Keys : t.auth[k] = IF k \in K THEN Nobody ELSE s.auth[k]
             /\ \A k \in Keys, m \in Minutes :
                  /\ t.lines[k][m] =
                       IF Here(k, m) THEN Append(s.lines[k][m], s.auth[k].count)
                       ELSE s.lines[k][m]
                  /\ <<k, m>> \in t.unsaid <=>
                       \/ k \in lost /\ s.auth[k].minute = m
                       \/ <<k, m>> \in s.unsaid /\ ~Here(k, m)
<1> DEFINE written == Due(s, K) \ lost
           At(ks) == {<<k, s.auth[k].minute>> : k \in ks}
           A == [k \in Keys |-> IF k \in K THEN Nobody ELSE s.auth[k]]
           L == [k \in Keys |-> [m \in Minutes |->
                  IF k \in written /\ s.auth[k].minute = m
                  THEN Append(s.lines[k][m], s.auth[k].count) ELSE s.lines[k][m]]]
           U == (s.unsaid \cup At(lost)) \ At(written)
           t == [s EXCEPT !.auth = A, !.lines = L, !.unsaid = U]
<1> USE Bounds
<1>1. A \in [Keys -> Auth]
  <2>1. Nobody \in Auth
    BY DEF Nobody, Auth
  <2> QED
    BY <2>1, HubFields
<1>2. L \in [Keys -> [Minutes -> Seq(Nat)]]
  <2>1. ASSUME NEW k \in Keys, NEW m \in Minutes
        PROVE  /\ Append(s.lines[k][m], s.auth[k].count) \in Seq(Nat)
               /\ s.lines[k][m] \in Seq(Nat)
    <3>1. s.lines[k][m] \in Seq(Nat) /\ s.auth[k].count \in Nat
      BY HubFields
    <3> QED
      BY <3>1, Appended
  <2> QED
    BY <2>1
<1>3. U \in SUBSET (Keys \X Minutes)
  <2>1. lost \subseteq Keys /\ \A k \in lost : s.auth[k].minute \in Minutes
    BY DEF Due
  <2>2. s.unsaid \subseteq Keys \X Minutes
    BY HubFields
  <2> QED
    BY <2>1, <2>2
<1>4. Flushed(s, K, lost) = t
  BY DEF Flushed
<1>5. ASSUME NEW k \in Keys, NEW m \in Minutes
      PROVE  <<k, m>> \in U <=>
               \/ k \in lost /\ s.auth[k].minute = m
               \/ <<k, m>> \in s.unsaid /\ ~(k \in written /\ s.auth[k].minute = m)
  <2>1. <<k, m>> \in At(lost) <=> k \in lost /\ s.auth[k].minute = m
    OBVIOUS
  <2>2. <<k, m>> \in At(written) <=> k \in written /\ s.auth[k].minute = m
    OBVIOUS
  <2> QED
    BY <2>1, <2>2
<1>6. \A k \in Keys : A[k] = IF k \in K THEN Nobody ELSE s.auth[k]
  OBVIOUS
<1>7. \A k \in Keys, m \in Minutes :
        L[k][m] = IF k \in written /\ s.auth[k].minute = m
                  THEN Append(s.lines[k][m], s.auth[k].count) ELSE s.lines[k][m]
  OBVIOUS
<1> HIDE DEF A, L, U
<1>8. /\ t \in Hub /\ t.auth = A /\ t.lines = L /\ t.unsaid = U
      /\ t.stopping = s.stopping /\ SameRest(s, t)
  BY <1>1, <1>2, <1>3, Replaced
<1> QED
  BY <1>4, <1>5, <1>6, <1>7, <1>8

LEMMA FlushedSound ==
  ASSUME NEW s \in Hub, NEW K \in SUBSET Keys, NEW lost \in SUBSET Due(s, K),
         NEW arr \in [Keys -> [Minutes -> Nat]], NEW lt, NEW now \in Minutes,
         AllSound(s, arr, lt, now),
         \A k \in K : s.auth[k].minute # now \/ (s.stopping /\ <<k, now>> \notin lt)
  PROVE  LET t == Flushed(s, K, lost)
         IN  /\ t \in Hub /\ t.stopping = s.stopping
             /\ \A k \in K : t.auth[k] = Nobody
             /\ \A k \in Keys, m \in Minutes : s.auth[k].minute # m => SameAt(s, t, k, m)
             /\ \A k \in Keys, m \in Minutes :
                  /\ Sound(t, k, m, arr, lt, now)
                  /\ k \in K \/ Settled(s, k, m, lt) => Settled(t, k, m, lt)
<1> USE Bounds
<1> DEFINE t == Flushed(s, K, lost)
           Here(k, m) == k \in Due(s, K) \ lost /\ s.auth[k].minute = m
<1>1. \A k \in Due(s, K) : s.auth[k].minute \in Minutes
  <2> SUFFICES ASSUME NEW k \in Due(s, K)
               PROVE  s.auth[k].minute \in Minutes
    OBVIOUS
  <2>1. k \in Keys /\ s.auth[k].count > s.auth[k].covered
    BY DEF Due, Uncovered
  <2>2. s.auth[k].minute \in 0 .. MaxMinutes
    BY <2>1, HubFields
  <2>3. s.auth[k].minute # 0
    <3>1. Sound(s, k, now, arr, lt, now)
      BY <2>1 DEF AllSound
    <3> QED
      BY <2>1, <3>1 DEF Sound, Nobody
  <2> QED
    BY <2>2, <2>3 DEF Minutes
<1>2. /\ t \in Hub /\ t.stopping = s.stopping
      /\ \A k \in Keys : t.auth[k] = IF k \in K THEN Nobody ELSE s.auth[k]
      /\ \A k \in Keys, m \in Minutes :
           /\ t.lines[k][m] =
                IF Here(k, m) THEN Append(s.lines[k][m], s.auth[k].count) ELSE s.lines[k][m]
           /\ <<k, m>> \in t.unsaid <=>
                \/ k \in lost /\ s.auth[k].minute = m
                \/ <<k, m>> \in s.unsaid /\ ~Here(k, m)
  BY <1>1, FlushedFields
<1>3. Due(s, K) \subseteq K /\ lost \subseteq K
  BY DEF Due
<1> HIDE DEF t
<1>a. /\ \A k \in K : t.auth[k] = Nobody
      /\ \A k \in Keys, m \in Minutes : s.auth[k].minute # m => SameAt(s, t, k, m)
  BY <1>2 DEF SameAt
<1> SUFFICES ASSUME NEW k \in Keys, NEW m \in Minutes
             PROVE  /\ Sound(t, k, m, arr, lt, now)
                    /\ k \in K \/ Settled(s, k, m, lt) => Settled(t, k, m, lt)
  BY <1>2, <1>a DEF t
<1>4. Sound(s, k, m, arr, lt, now)
  BY DEF AllSound
<1>5. CASE k \notin K
  <2>1. /\ t.auth[k] = s.auth[k] /\ t.lines[k][m] = s.lines[k][m]
        /\ <<k, m>> \in t.unsaid <=> <<k, m>> \in s.unsaid
    BY <1>2, <1>3, <1>5
  <2> QED
    BY <1>2, <1>4, <1>5, <2>1, SoundSame
<1>6. CASE k \in K
  <2> DEFINE a == s.auth[k]  l == s.lines[k][m]  n == arr[k][m]  p == <<k, m>>
  <2>1. t.auth[k] = Nobody
    BY <1>2, <1>6
  <2>2. CountsAgree(a, m, l, n, p \in s.unsaid, p \in lt)
    BY <1>4 DEF Sound
  <2>3. /\ a \in Auth /\ a.count \in Nat /\ a.covered \in Nat /\ a.minute \in Nat
        /\ l \in Seq(Nat) /\ n \in Nat /\ now \in Nat /\ m \in Nat /\ m # 0
    BY HubFields DEF Auth
  <2>4. CountsAgree(Nobody, m, t.lines[k][m], n, p \in t.unsaid, p \in lt)
    <3>1. CASE Here(k, m)
      <4>1. t.lines[k][m] = Append(l, a.count) /\ a.covered < a.count /\ a.minute = m
        BY <1>2, <2>3, <3>1 DEF Due, Uncovered
      <4> DEFINE w == Append(l, a.count)
      <4>2. /\ \A i \in DOMAIN w : w[i] <= n
            /\ LastOf(w) = a.count
            /\ Len(w) <= Cap(p \in lt) + 1
            /\ p \notin lt => Rises(w)
        BY <2>2, <2>3, <4>1, LineAgrees
      <4>3. p \notin lt => a.count = n
        BY <2>2, <4>1 DEF CountsAgree
      <4> HIDE DEF w
      <4>4. t.lines[k][m] = w
        BY <4>1 DEF w
      <4> QED
        BY <2>3, <4>2, <4>3, <4>4 DEF CountsAgree, Nobody
    <3>2. CASE ~Here(k, m)
      <4>1. t.lines[k][m] = l
        BY <1>2, <3>2
      <4>2. p \in s.unsaid => p \in t.unsaid
        BY <1>2, <3>2
      <4>3. /\ \A i \in DOMAIN l : l[i] <= n
            /\ Len(l) <= Cap(p \in lt) + 1
            /\ p \notin lt => Rises(l)
        BY <2>2 DEF CountsAgree
      <4>4. p \notin lt /\ p \notin t.unsaid => LastOf(l) = n
        <5> SUFFICES ASSUME p \notin lt, p \notin t.unsaid
                     PROVE  LastOf(l) = n
          OBVIOUS
        <5>1. p \notin s.unsaid /\ ~(k \in lost /\ a.minute = m)
          BY <1>2, <4>2
        <5>2. CASE a.minute # m
          BY <2>2, <5>1, <5>2 DEF CountsAgree
        <5>3. CASE a.minute = m
          <6>1. ~(a.count > a.covered)
            BY <1>6, <3>2, <5>1, <5>3 DEF Due, Uncovered
          <6> QED
            BY <2>2, <2>3, <5>1, <5>3, <6>1 DEF CountsAgree
        <5> QED
          BY <5>2, <5>3
      <4> QED
        BY <2>3, <4>1, <4>3, <4>4 DEF CountsAgree, Nobody
    <3> QED
      BY <3>1, <3>2
  <2>5. m > now \/ (m = now /\ ~s.stopping) => a.minute # m
    BY <1>4, <1>6, <2>3 DEF Sound
  <2>6. m > now \/ (m = now /\ ~s.stopping) =>
          IsFresh(t.lines[k][m], n, p \in t.unsaid, p \in lt)
    <3> SUFFICES ASSUME m > now \/ (m = now /\ ~s.stopping)
                 PROVE  IsFresh(t.lines[k][m], n, p \in t.unsaid, p \in lt)
      OBVIOUS
    <3>1. a.minute # m
      BY <2>5
    <3>2. t.lines[k][m] = l /\ (p \in t.unsaid <=> p \in s.unsaid)
      BY <1>2, <3>1
    <3>3. IsFresh(l, n, p \in s.unsaid, p \in lt)
      BY <1>4, <3>1 DEF Sound
    <3> QED
      BY <3>2, <3>3 DEF IsFresh
  <2>7. p \in lt => s.stopping /\ m # now
    BY <1>4, <1>6 DEF Sound
  <2>8. Nobody.minute = 0 /\ 0 <= now
    BY <2>3 DEF Nobody
  <2>9. Sound(t, k, m, arr, lt, now)
    BY <1>2, <2>1, <2>3, <2>4, <2>6, <2>7, <2>8 DEF Sound
  <2> QED
    BY <2>1, <2>3, <2>8, <2>9 DEF Settled
<1> QED
  BY <1>5, <1>6

(* The stop, in a state where something may not be settled.                *)
LEMMA StopsGood ==
  ASSUME NEW s \in Hub, NEW arr \in [Keys -> [Minutes -> Nat]], NEW lt, NEW now \in Minutes,
         AllSound(s, arr, lt, now), ~s.stopping, NEW u \in Stops(s)
  PROVE  /\ Good(u, arr, lt, now) /\ u.stopping
         /\ \A k \in Keys :
              /\ u.auth[k] = Nobody
              /\ \A m \in Minutes : s.auth[k].minute # m => SameAt(s, u, k, m)
<1> DEFINE t == [s EXCEPT !.stopping = TRUE]
<1>1. t \in Hub /\ t.stopping /\ t.auth = s.auth /\ t.lines = s.lines /\ t.unsaid = s.unsaid
  BY DEF Hub
<1>2. PICK lost \in SUBSET Due(t, Keys) : u = Flushed(t, Keys, lost)
  BY DEF Stops, Flushes, Losable
<1> HIDE DEF t
<1>3. AllSound(t, arr, lt, now)
  BY <1>1 DEF AllSound, Sound
<1>4. \A k \in Keys : t.auth[k].minute # now \/ (t.stopping /\ <<k, now>> \notin lt)
  BY <1>1 DEF AllSound, Sound
<1> DEFINE v == Flushed(t, Keys, lost)
<1>a. /\ v \in Hub /\ v.stopping = t.stopping
      /\ \A k \in Keys : v.auth[k] = Nobody
      /\ \A k \in Keys, m \in Minutes : t.auth[k].minute # m => SameAt(t, v, k, m)
      /\ \A k \in Keys, m \in Minutes :
           /\ Sound(v, k, m, arr, lt, now)
           /\ k \in Keys \/ Settled(t, k, m, lt) => Settled(v, k, m, lt)
  BY <1>1, <1>2, <1>3, <1>4, FlushedSound
<1> HIDE DEF v
<1>5. /\ u \in Hub /\ u.stopping
      /\ \A k \in Keys : u.auth[k] = Nobody
      /\ \A k \in Keys, m \in Minutes : t.auth[k].minute # m => SameAt(t, u, k, m)
      /\ \A k \in Keys, m \in Minutes : Sound(u, k, m, arr, lt, now) /\ Settled(u, k, m, lt)
  BY <1>1, <1>2, <1>a DEF v
<1> QED
  BY <1>1, <1>5 DEF Good, SameAt

LEMMA RecordAuthGood ==
  ASSUME NEW s \in Hub, NEW k \in Keys, NEW arr \in [Keys -> [Minutes -> Nat]], NEW lt,
         NEW now \in Minutes, Tellable(s, k, now),
         AllSound(s, arr, lt, now), SettledBut(s, k, lt), NEW u \in RecordAuth(s, k)
  PROVE  Good(u, arr, lt, now)
<1>1. Good(Written(s, k), arr, lt, now)
  BY WrittenGood
<1>2. Good(Unwritten(s, k), arr, lt, now) /\ Unwritten(s, k).stopping = s.stopping
  BY UnwrittenGood, UnwrittenFields DEF Tellable
<1>3. CASE u \in Stops(Unwritten(s, k)) /\ ~s.stopping
  BY <1>2, <1>3, StopsGood DEF Good, AllSound
<1>4. u = Written(s, k) \/ u = Unwritten(s, k) \/ (u \in Stops(Unwritten(s, k)) /\ ~s.stopping)
  BY DEF RecordAuth, StopsOnFailure, Outcomes
<1> QED
  BY <1>1, <1>2, <1>3, <1>4

-----------------------------------------------------------------------------
(* auth_rejected.                                                          *)

(* What ended is recorded or known to be unsaid, and the present minute is *)
(* as it was.                                                              *)
LEMMA RollsOverGood ==
  ASSUME NEW s, NEW k \in Keys, NEW arr \in [Keys -> [Minutes -> Nat]], NEW lt,
         minute \in Minutes, Good(s, arr, lt, minute), NEW t \in RollsOver(s, k)
  PROVE  /\ Good(t, arr, lt, minute)
         /\ s.auth[k].minute = minute => t = s
         /\ s.auth[k].minute # minute => t.auth[k].minute # minute
         /\ s.stopping => t.stopping
         /\ SameAt(s, t, k, minute)
         /\ t.auth[k].minute # minute /\ Uncovered(t, k) =>
              <<k, t.auth[k].minute>> \in t.unsaid
<1> USE Bounds
<1>1. s \in Hub /\ AllSound(s, arr, lt, minute) /\ SettledBut(s, k, lt)
  BY DEF Good, AllSound, SettledBut
<1>2. CASE ~(Ended(s, k) /\ Uncovered(s, k))
  <2>1. t = s
    BY <1>2 DEF RollsOver
  <2>2. s.auth[k].minute # minute => ~Uncovered(s, k)
    BY <1>2 DEF Ended, Uncovered, Nobody
  <2> QED
    BY <2>1, <2>2 DEF SameAt
<1>3. CASE Ended(s, k) /\ Uncovered(s, k)
  <2>1. s.auth[k].minute # minute /\ s.auth[k].minute \in Minutes
    <3>1. s.auth[k].minute \in 0 .. MaxMinutes
      BY <1>1, HubFields
    <3>2. Sound(s, k, minute, arr, lt, minute)
      BY <1>1 DEF AllSound
    <3>3. s.auth[k].minute # 0
      BY <1>3, <3>2 DEF Sound, Ended
    <3> QED
      BY <1>3, <3>1, <3>3 DEF Minutes, Ended
  <2>2. Tellable(s, k, minute) /\ t \in RecordAuth(s, k)
    BY <1>3, <2>1 DEF Tellable, RollsOver
  <2>3. Good(t, arr, lt, minute)
    BY <1>1, <2>2, RecordAuthGood
  <2> DEFINE a == s.auth[k]  v == Written(s, k)  w == Unwritten(s, k)
  <2>4. a.count \in Nat /\ a \in Auth
    BY <1>1, HubFields DEF Auth
  <2>5. /\ v.stopping = s.stopping /\ v.auth[k].minute = a.minute /\ ~Uncovered(v, k)
        /\ SameAt(s, v, k, minute)
    <3>1. /\ v.stopping = s.stopping
          /\ v.auth = [s.auth EXCEPT ![k] = [a EXCEPT !.covered = a.count]]
          /\ v.lines = [s.lines EXCEPT ![k] =
               [s.lines[k] EXCEPT ![a.minute] = Append(s.lines[k][a.minute], a.count)]]
          /\ v.unsaid = s.unsaid \ {<<k, a.minute>>}
      BY <1>1, <2>1, WrittenFields
    <3> HIDE DEF v
    <3>2. v.auth[k] = [a EXCEPT !.covered = a.count]
      BY <1>1, <3>1, HubFields
    <3>3. v.auth[k].minute = a.minute /\ ~(v.auth[k].count > v.auth[k].covered)
      BY <2>4, <3>2 DEF Auth
    <3>4. v.lines[k][minute] = s.lines[k][minute]
      BY <1>1, <2>1, <3>1, HubFields
    <3> QED
      BY <2>1, <3>1, <3>3, <3>4 DEF SameAt, Uncovered
  <2>6. /\ w \in Hub /\ w.stopping = s.stopping /\ w.auth[k].minute = a.minute
        /\ <<k, a.minute>> \in w.unsaid
        /\ SameAt(s, w, k, minute)
    <3>1. /\ w \in Hub /\ w.stopping = s.stopping /\ w.lines = s.lines
          /\ w.unsaid = s.unsaid \cup {<<k, a.minute>>}
          /\ \E c \in {a.covered, a.count} :
               w.auth = [s.auth EXCEPT ![k] = [a EXCEPT !.covered = c]]
      BY <1>1, <2>1, UnwrittenFields
    <3> HIDE DEF w
    <3>2. PICK c : w.auth[k] = [a EXCEPT !.covered = c]
      BY <1>1, <3>1, HubFields
    <3>3. w.auth[k].minute = a.minute
      BY <2>4, <3>2 DEF Auth
    <3> QED
      BY <2>1, <3>1, <3>3 DEF SameAt
  <2>7. CASE t = v
    BY <2>1, <2>3, <2>5, <2>7
  <2>8. CASE t = w
    BY <2>1, <2>3, <2>6, <2>8
  <2>9. CASE t \in Stops(w) /\ ~s.stopping
    <3>1. Good(w, arr, lt, minute)
      BY <1>1, <2>1, UnwrittenGood
    <3> HIDE DEF w
    <3>2. AllSound(w, arr, lt, minute)
      BY <3>1 DEF Good, AllSound
    <3>3. t.auth[k] = Nobody /\ SameAt(w, t, k, minute)
      BY <2>1, <2>6, <2>9, <3>2, StopsGood
    <3> QED
      BY <2>1, <2>3, <2>6, <2>9, <3>3 DEF SameAt, Nobody, Uncovered
  <2> QED
    BY <2>2, <2>7, <2>8, <2>9 DEF RecordAuth, StopsOnFailure, Outcomes
<1> QED
  BY <1>2, <1>3

(* What Counted makes of the entry of k.                                   *)
LEMMA CountedFields ==
  ASSUME NEW t \in Hub, NEW k \in Keys, minute \in Minutes, 1 \in Nat,
         t.auth[k].minute = minute => t.auth[k].count + 1 \in Nat
  PROVE  LET c == Counted(t, k)
             a == t.auth[k]
         IN  /\ c \in Hub /\ c.stopping = t.stopping /\ c.lines = t.lines
             /\ c.unsaid = t.unsaid /\ SameRest(t, c)
             /\ \A j \in Keys \ {k} : c.auth[j] = t.auth[j]
             /\ c.auth[k].minute = minute
             /\ a.minute = minute =>
                  c.auth[k].count = a.count + 1 /\ c.auth[k].covered = a.covered
             /\ a.minute # minute => c.auth[k].count = 1 /\ c.auth[k].covered = 0
<1> USE Bounds
<1> DEFINE a == t.auth[k]
           b == IF a.minute = minute THEN [a EXCEPT !.count = @ + 1]
                ELSE [minute |-> minute, count |-> 1, covered |-> 0]
           A == [t.auth EXCEPT ![k] = b]
           c == [t EXCEPT !.auth = A, !.lines = t.lines, !.unsaid = t.unsaid]
<1>1. a \in Auth /\ minute \in 0 .. MaxMinutes /\ 0 \in Nat
  BY HubFields DEF Minutes, Auth
<1>2. /\ b \in Auth /\ b.minute = minute
      /\ a.minute = minute => b.count = a.count + 1 /\ b.covered = a.covered
      /\ a.minute # minute => b.count = 1 /\ b.covered = 0
  <2>1. CASE a.minute = minute
    BY <1>1, <2>1 DEF Auth
  <2>2. CASE a.minute # minute
    BY <1>1, <2>2 DEF Auth
  <2> QED
    BY <2>1, <2>2
<1> HIDE DEF b
<1>3. A \in [Keys -> Auth] /\ A[k] = b /\ \A j \in Keys \ {k} : A[j] = t.auth[j]
  BY <1>2, HubFields
<1> HIDE DEF A
<1>4. Counted(t, k) = c
  <2>1. Counted(t, k) = [t EXCEPT !.auth = A]
    <3>1. CASE a.minute = minute
      BY <3>1 DEF Counted, A, b
    <3>2. CASE a.minute # minute
      BY <3>2 DEF Counted, A, b
    <3> QED
      BY <3>1, <3>2
  <2>2. t = [t EXCEPT !.lines = t.lines, !.unsaid = t.unsaid]
    BY DEF Hub
  <2> QED
    BY <2>1, <2>2 DEF Hub
<1>5. /\ c \in Hub /\ c.auth = A /\ c.lines = t.lines /\ c.unsaid = t.unsaid
      /\ c.stopping = t.stopping /\ SameRest(t, c)
  BY <1>3, HubFields, Replaced
<1> QED
  BY <1>2, <1>3, <1>4, <1>5

(* A rejection that comes late is one after the stop, tardy.               *)
LEMMA CountedSound ==
  ASSUME NEW t, NEW k \in Keys, NEW arr \in [Keys -> [Minutes -> Nat]], NEW lt,
         NEW tardy \in BOOLEAN, minute \in Minutes,
         Good(t, arr, lt, minute), tardy => t.stopping,
         ~tardy /\ t.auth[k].minute = minute => ~t.stopping,
         ~tardy /\ t.auth[k].minute # minute =>
           IsFresh(t.lines[k][minute], arr[k][minute], <<k, minute>> \in t.unsaid,
                   <<k, minute>> \in lt),
         t.auth[k].minute # minute /\ Uncovered(t, k) => <<k, t.auth[k].minute>> \in t.unsaid
  PROVE  LET c    == Counted(t, k)
             arr2 == [arr EXCEPT ![k][minute] = @ + 1]
             lt2  == IF tardy THEN lt \cup {<<k, minute>>} ELSE lt
         IN  /\ c \in Hub /\ c.auth[k].minute = minute
             /\ arr2 \in [Keys -> [Minutes -> Nat]]
             /\ AllSound(c, arr2, lt2, minute) /\ SettledBut(c, k, lt2)
             /\ c.auth[k].covered = 0 => Tellable(c, k, minute)
             /\ c.auth[k].covered # 0 => Settled(c, k, minute, lt2)
<1> USE Bounds
<1> DEFINE c == Counted(t, k)  a == t.auth[k]  b == c.auth[k]
           arr2 == [arr EXCEPT ![k][minute] = @ + 1]
           lt2 == IF tardy THEN lt \cup {<<k, minute>>} ELSE lt
           n == arr[k][minute]  l == t.lines[k][minute]  p == <<k, minute>>
<1>1. /\ t \in Hub
      /\ \A j \in Keys, m \in Minutes : Sound(t, j, m, arr, lt, minute) /\ Settled(t, j, m, lt)
  BY DEF Good
<1>2. /\ n \in Nat /\ n + 1 \in Nat /\ 1 \in Nat /\ l \in Seq(Nat)
      /\ a.count \in Nat /\ a.covered \in Nat /\ a.minute \in Nat
      /\ minute \in Nat /\ minute # 0 /\ n \in Nat /\ Len(l) \in Nat
  BY <1>1, HubFields
<1>3. Sound(t, k, minute, arr, lt, minute)
  BY <1>1
<1>4. CountsAgree(a, minute, l, n, p \in t.unsaid, p \in lt)
  BY <1>3 DEF Sound
<1>5. a.minute = minute => a.count + 1 \in Nat /\ a.count <= n
  BY <1>2, <1>4 DEF CountsAgree
<1>6. /\ c \in Hub /\ c.stopping = t.stopping /\ c.lines = t.lines /\ c.unsaid = t.unsaid
      /\ \A j \in Keys \ {k} : c.auth[j] = t.auth[j]
      /\ b.minute = minute
      /\ a.minute = minute => b.count = a.count + 1 /\ b.covered = a.covered
      /\ a.minute # minute => b.count = 1 /\ b.covered = 0
  BY <1>1, <1>2, <1>5, CountedFields
<1>7. /\ arr2 \in [Keys -> [Minutes -> Nat]] /\ arr2[k][minute] = n + 1
      /\ \A j \in Keys, m \in Minutes : j # k \/ m # minute => arr2[j][m] = arr[j][m]
  BY <1>2
<1>8. \A j \in Keys, m \in Minutes : j # k \/ m # minute => (<<j, m>> \in lt2 <=> <<j, m>> \in lt)
  OBVIOUS
<1>9. p \in lt2 <=> tardy \/ p \in lt
  OBVIOUS
<1> HIDE DEF c, arr2, lt2
<1>10. ASSUME NEW j \in Keys, NEW m \in Minutes, j # k
       PROVE  Sound(c, j, m, arr2, lt2, minute) /\ Settled(c, j, m, lt2)
  <2>1. Sound(t, j, m, arr, lt, minute) /\ Settled(t, j, m, lt)
    BY <1>1
  <2>2. /\ c.auth[j] = t.auth[j] /\ c.lines[j][m] = t.lines[j][m] /\ c.stopping = t.stopping
        /\ arr2[j][m] = arr[j][m]
        /\ <<j, m>> \in c.unsaid <=> <<j, m>> \in t.unsaid
        /\ <<j, m>> \in lt2 <=> <<j, m>> \in lt
    BY <1>6, <1>7, <1>8, <1>10
  <2> QED
    BY <2>1, <2>2 DEF Sound, Settled
<1>11. ASSUME NEW m \in Minutes, m # minute
       PROVE  Sound(c, k, m, arr2, lt2, minute) /\ Settled(c, k, m, lt2)
  <2>1. Sound(t, k, m, arr, lt, minute)
    BY <1>1
  <2>2. /\ c.lines[k][m] = t.lines[k][m] /\ c.stopping = t.stopping
        /\ arr2[k][m] = arr[k][m]
        /\ <<k, m>> \in c.unsaid <=> <<k, m>> \in t.unsaid
        /\ <<k, m>> \in lt2 <=> <<k, m>> \in lt
    BY <1>6, <1>7, <1>8, <1>11
  <2>3. CountsAgree(b, m, c.lines[k][m], arr2[k][m], <<k, m>> \in c.unsaid, <<k, m>> \in lt2)
    <3> DEFINE lm == t.lines[k][m]  nm == arr[k][m]  um == <<k, m>> \in t.unsaid
               tm == <<k, m>> \in lt
    <3>1. CountsAgree(a, m, lm, nm, um, tm)
      BY <2>1 DEF Sound
    <3>2. a.minute = m => ~(a.count > a.covered) \/ um
      BY <1>11 DEF Uncovered
    <3> HIDE DEF lm, nm, um, tm
    <3>3. ~tm /\ ~um => LastOf(lm) = nm
      <4>1. CASE a.minute = m
        BY <1>2, <3>1, <3>2, <4>1 DEF CountsAgree
      <4>2. CASE a.minute # m
        BY <3>1, <4>2 DEF CountsAgree
      <4> QED
        BY <4>1, <4>2
    <3>4. CountsAgree(b, m, lm, nm, um, tm)
      BY <1>6, <1>11, <3>1, <3>3 DEF CountsAgree
    <3> QED
      BY <2>2, <3>4 DEF lm, nm, um, tm
  <2>4. /\ m > minute =>
             IsFresh(c.lines[k][m], arr2[k][m], <<k, m>> \in c.unsaid, <<k, m>> \in lt2)
        /\ <<k, m>> \in lt2 => c.stopping
    BY <2>1, <2>2 DEF Sound
  <2>5. b.minute # m /\ b.minute # 0 /\ b.minute <= minute
    BY <1>2, <1>6, <1>11
  <2> QED
    BY <1>11, <2>3, <2>4, <2>5 DEF Sound, Settled
<1>12. Sound(c, k, minute, arr2, lt2, minute)
  <2>1. b.minute = minute /\ b.minute # 0 /\ ~(minute > minute) /\ minute <= minute
    BY <1>2, <1>6
  <2>2. p \in lt2 => c.stopping
    BY <1>3, <1>6, <1>9 DEF Sound
  <2>3. /\ CountsAgree(b, minute, l, n + 1, p \in c.unsaid, p \in lt2)
        /\ Len(l) <= Cap(p \in lt2)
    <3>0. /\ \A i \in DOMAIN l : l[i] \in Nat /\ l[i] <= n
          /\ Len(l) <= Cap(p \in lt) + 1
          /\ p \notin lt => Rises(l)
      <4>1. \A i \in DOMAIN l : l[i] \in Nat
        BY <1>2, LinesAreNat
      <4> QED
        BY <1>4, <4>1 DEF CountsAgree
    <3>1. \A i \in DOMAIN l : l[i] <= n + 1
      BY <1>2, <3>0
    <3> DEFINE um == p \in t.unsaid  tm == p \in lt  tm2 == p \in lt2
    <3>2. tm2 <=> tardy \/ tm
      BY <1>9
    <3>3. CASE a.minute = minute
      <4>0. ~tm => Rises(l)
        BY <3>0
      <4>1. /\ 1 <= a.count /\ a.count <= n /\ a.covered <= a.count
            /\ ~tm => a.count = n /\ \A i \in DOMAIN l : l[i] <= a.covered
            /\ a.covered = 0 => Len(l) < Cap(tm)
            /\ ~tm /\ ~um => LastOf(l) = a.covered
        BY <1>4, <3>3 DEF CountsAgree
      <4>2. Len(l) <= Cap(tm)
        BY <1>3, <3>3 DEF Sound
      <4> HIDE DEF um, tm, tm2
      <4>3. Cap(tm) <= Cap(tm2) /\ Cap(tm) \in Nat /\ Cap(tm2) \in Nat
        BY <3>2 DEF Cap
      <4>4. /\ Len(l) <= Cap(tm2) /\ Len(l) <= Cap(tm2) + 1
            /\ a.covered = 0 => Len(l) < Cap(tm2)
        BY <1>2, <4>1, <4>2, <4>3
      <4>5. b.count = a.count + 1 /\ b.covered = a.covered
        BY <1>6, <3>3
      <4>6. CountsAgree(b, minute, l, n + 1, um, tm2)
        BY <1>2, <2>1, <3>1, <3>2, <4>0, <4>1, <4>4, <4>5 DEF CountsAgree
      <4> QED
        BY <1>6, <4>4, <4>6 DEF um, tm2
    <3>4. CASE a.minute # minute
      <4>1. b.count = 1 /\ b.covered = 0
        BY <1>6, <3>4
      <4>2. ~tm
        BY <1>3, <3>4 DEF Sound
      <4>3. ~tardy => l = <<>> /\ n = 0
        BY <3>4 DEF IsFresh
      <4>4. Len(l) <= 2
        BY <1>2, <3>0, <4>2 DEF Cap
      <4> HIDE DEF um, tm, tm2
      <4>5. /\ Len(l) < Cap(tm2)
            /\ ~tm2 => n = 0 /\ LastOf(l) = 0 /\ l = <<>>
        <5>1. CASE tardy
          BY <1>2, <3>2, <4>4, <5>1 DEF Cap
        <5>2. CASE ~tardy
          BY <3>2, <4>2, <4>3, <5>2 DEF Cap, LastOf
        <5> QED
          BY <5>1, <5>2
      <4>6. Len(l) <= Cap(tm2) /\ Len(l) <= Cap(tm2) + 1 /\ Cap(tm2) \in Nat
        BY <1>2, <4>5 DEF Cap
      <4>7. ~tm2 => Rises(l) /\ \A i \in DOMAIN l : l[i] <= 0
        BY <4>5 DEF Rises
      <4>8. CountsAgree(b, minute, l, n + 1, um, tm2)
        BY <1>2, <2>1, <3>1, <4>1, <4>5, <4>6, <4>7 DEF CountsAgree
      <4> QED
        BY <1>6, <4>6, <4>8 DEF um, tm2
    <3> QED
      BY <3>3, <3>4
  <2>4. c.lines[k][minute] = l
    BY <1>6
  <2> QED
    BY <1>7, <2>1, <2>2, <2>3, <2>4 DEF Sound
<1>13. b.covered = 0 => Tellable(c, k, minute)
  <2>1. b.covered = 0 => b.count > 0
    BY <1>2, <1>6
  <2> QED
    BY <1>6, <2>1 DEF Tellable, Uncovered
<1>14. b.covered # 0 => Settled(c, k, minute, lt2)
  BY <1>6, <1>9 DEF Settled
<1> HIDE DEF b
<1>15. AllSound(c, arr2, lt2, minute)
  BY <1>10, <1>11, <1>12 DEF AllSound
<1>16. SettledBut(c, k, lt2)
  BY <1>6, <1>10, <1>11 DEF SettledBut, b
<1> QED
  BY <1>6, <1>7, <1>13, <1>14, <1>15, <1>16 DEF c, arr2, lt2, b

LEMMA AuthRejectedGood ==
  ASSUME NEW s, NEW k \in Keys, NEW arr \in [Keys -> [Minutes -> Nat]], NEW lt,
         minute \in Minutes,
         Good(s, arr, lt, minute), NEW u \in AuthRejected(s, k)
  PROVE  LET arr2 == [arr EXCEPT ![k][minute] = @ + 1]
             lt2  == IF s.stopping THEN lt \cup {<<k, minute>>} ELSE lt
         IN  arr2 \in [Keys -> [Minutes -> Nat]] /\ Good(u, arr2, lt2, minute)
<1> DEFINE arr2 == [arr EXCEPT ![k][minute] = @ + 1]
           lt2 == IF s.stopping THEN lt \cup {<<k, minute>>} ELSE lt
<1>1. PICK t \in RollsOver(s, k) : u \in RecordedAtOnce(Counted(t, k), k)
  BY DEF AuthRejected, Steps
<1>2. /\ Good(t, arr, lt, minute)
      /\ s.auth[k].minute = minute => t = s
      /\ s.auth[k].minute # minute => t.auth[k].minute # minute
      /\ s.stopping => t.stopping
      /\ SameAt(s, t, k, minute)
      /\ t.auth[k].minute # minute /\ Uncovered(t, k) => <<k, t.auth[k].minute>> \in t.unsaid
  BY RollsOverGood
<1>3. ~s.stopping /\ t.auth[k].minute # minute =>
        IsFresh(t.lines[k][minute], arr[k][minute], <<k, minute>> \in t.unsaid,
                <<k, minute>> \in lt)
  <2>1. Sound(s, k, minute, arr, lt, minute)
    BY DEF Good
  <2> QED
    BY <1>2, <2>1 DEF Sound, SameAt, IsFresh
<1>4. ~s.stopping /\ t.auth[k].minute = minute => ~t.stopping
  BY <1>2
<1>5. s.stopping \in BOOLEAN
  BY DEF Good, Hub
<1> DEFINE c == Counted(t, k)
<1>6. /\ c \in Hub /\ c.auth[k].minute = minute /\ arr2 \in [Keys -> [Minutes -> Nat]]
      /\ AllSound(c, arr2, lt2, minute) /\ SettledBut(c, k, lt2)
      /\ c.auth[k].covered = 0 => Tellable(c, k, minute)
      /\ c.auth[k].covered # 0 => Settled(c, k, minute, lt2)
  BY <1>2, <1>3, <1>4, <1>5, CountedSound
<1> HIDE DEF c, arr2, lt2
<1>7. Good(u, arr2, lt2, minute)
  <2>1. CASE c.auth[k].covered = 0
    <3>1. u \in RecordAuth(c, k)
      BY <1>1, <2>1 DEF RecordedAtOnce, c
    <3> QED
      BY <1>6, <2>1, <3>1, RecordAuthGood
  <2>2. CASE c.auth[k].covered # 0
    <3>1. u = c
      BY <1>1, <2>2 DEF RecordedAtOnce, c
    <3>2. \A j \in Keys, m \in Minutes : Settled(c, j, m, lt2)
      BY <1>6, <2>2 DEF SettledBut
    <3> QED
      BY <1>6, <3>1, <3>2 DEF Good, AllSound
  <2> QED
    BY <2>1, <2>2
<1> QED
  BY <1>6, <1>7 DEF arr2, lt2

-----------------------------------------------------------------------------
(* Presence and registration leave the counting alone.                     *)

Alike(s, e) ==
  /\ e \in Hub /\ e.auth = s.auth /\ e.lines = s.lines /\ e.unsaid = s.unsaid
  /\ e.stopping = s.stopping

LEMMA AlikeGood ==
  ASSUME NEW s, NEW e, NEW arr, NEW lt, NEW now, Good(s, arr, lt, now), Alike(s, e)
  PROVE  Good(e, arr, lt, now)
  BY DEF Good, Alike, Sound, Settled

LEMMA RecordGood ==
  ASSUME NEW s, NEW e, NEW arr \in [Keys -> [Minutes -> Nat]], NEW lt, NEW now \in Minutes,
         Good(s, arr, lt, now), Alike(s, e), NEW u \in Record(s, e)
  PROVE  Good(u, arr, lt, now)
<1>1. u = e \/ u = s \/ (u \in Stops(s) /\ ~s.stopping)
  BY DEF Record, StopsOnFailure
<1>2. CASE u \in Stops(s) /\ ~s.stopping
  BY <1>2, StopsGood DEF Good, AllSound
<1> QED
  BY <1>1, <1>2, AlikeGood

LEMMA MaybeReadyGood ==
  ASSUME NEW s, NEW arr \in [Keys -> [Minutes -> Nat]], NEW lt, NEW now \in Minutes,
         Good(s, arr, lt, now), NEW u \in MaybeReady(s)
  PROVE  Good(u, arr, lt, now)
<1> DEFINE e == [s EXCEPT !.announced = TRUE]
<1>1. Alike(s, e)
  BY DEF Good, Hub, Alike
<1>2. u = s \/ u \in Record(s, e)
  BY DEF MaybeReady
<1> QED
  BY <1>1, <1>2, RecordGood

LEMMA FirstRegistrationGood ==
  ASSUME NEW s, NEW c \in Clients, NEW arr \in [Keys -> [Minutes -> Nat]], NEW lt,
         NEW now \in Minutes, Good(s, arr, lt, now), NEW u \in FirstRegistration(s, c)
  PROVE  Good(u, arr, lt, now)
<1> DEFINE e == [s EXCEPT !.registered = @ \cup {c}, !.stale = @ \ {c}]
<1>1. Alike(s, e)
  BY DEF Good, Hub, Alike
<1>2. PICK t \in Record(s, e) : u = t \/ u \in MaybeReady(t)
  BY DEF FirstRegistration, Steps
<1>3. Good(t, arr, lt, now)
  BY <1>1, RecordGood
<1> QED
  BY <1>2, <1>3, MaybeReadyGood

LEMMA NotedGood ==
  ASSUME NEW s, NEW arr \in [Keys -> [Minutes -> Nat]], NEW lt, NEW now \in Minutes,
         Good(s, arr, lt, now), NEW u \in Noted(s)
  PROVE  Good(u, arr, lt, now)
<1>1. Alike(s, s)
  BY DEF Good, Alike
<1> QED
  BY <1>1, RecordGood DEF Noted

LEMMA AnotherRegistrationGood ==
  ASSUME NEW s, NEW c \in Clients, NEW arr \in [Keys -> [Minutes -> Nat]], NEW lt,
         NEW now \in Minutes, Good(s, arr, lt, now), NEW u \in AnotherRegistration(s, c)
  PROVE  Good(u, arr, lt, now)
<1> DEFINE e == [s EXCEPT !.stale = @ \ {c}]
<1>1. Alike(s, e)
  BY DEF Good, Hub, Alike
<1>2. u \in Noted(s) \/ u = s \/ u \in Record(s, e)
  BY DEF AnotherRegistration, ActiveAgain
<1> QED
  BY <1>1, <1>2, RecordGood, NotedGood

LEMMA RegisterGood ==
  ASSUME NEW s, NEW c \in Clients, NEW arr \in [Keys -> [Minutes -> Nat]], NEW lt,
         NEW now \in Minutes, Good(s, arr, lt, now), NEW u \in Register(s, c)
  PROVE  Good(u, arr, lt, now)
<1>1. CASE u \in Noted(s)
  BY <1>1, NotedGood
<1>2. CASE u \notin Noted(s)
  <2>1. PICK t \in Noted(s) : u \in AnotherRegistration(t, c) \/ u \in FirstRegistration(t, c)
    BY <1>2 DEF Register, Steps
  <2>2. Good(t, arr, lt, now)
    BY NotedGood
  <2> QED
    BY <2>1, <2>2, AnotherRegistrationGood, FirstRegistrationGood
<1> QED
  BY <1>1, <1>2

LEMMA ReleaseGood ==
  ASSUME NEW s, NEW c \in Clients, NEW arr \in [Keys -> [Minutes -> Nat]], NEW lt,
         NEW now \in Minutes, Good(s, arr, lt, now), NEW u \in Release(s, c)
  PROVE  Good(u, arr, lt, now)
<1> DEFINE e == [s EXCEPT !.registered = @ \ {c}, !.stale = @ \ {c}]
<1>1. Alike(s, e)
  BY DEF Good, Hub, Alike
<1> QED
  BY <1>1, RecordGood DEF Release

LEMMA CheckPresenceGood ==
  ASSUME NEW s, NEW arr \in [Keys -> [Minutes -> Nat]], NEW lt, NEW now \in Minutes,
         Good(s, arr, lt, now), NEW u \in CheckPresence(s)
  PROVE  Good(u, arr, lt, now)
<1>1. ASSUME NEW news
      PROVE  Good(Reported(s, news), arr, lt, now) /\ Reported(s, news).stopping = s.stopping
  <2> DEFINE S == (s.stale \cup (Silent(s) \cap news)) \ (Back(s) \cap news)
             M == s.missing \cup (Absent(s) \cap news)
  <2>1. S \subseteq s.registered
    BY DEF Good, Hub, Silent
  <2>2. M \subseteq Clients
    BY DEF Good, Hub, Absent
  <2>3. Reported(s, news) = [s EXCEPT !.stale = S, !.missing = M]
    BY DEF Reported
  <2> HIDE DEF S, M
  <2>4. Alike(s, [s EXCEPT !.stale = S, !.missing = M])
    BY <2>1, <2>2 DEF Good, Hub, Alike
  <2> QED
    BY <2>3, <2>4, AlikeGood DEF Alike
<1>2. \E news : \/ u = Reported(s, news)
                \/ u \in Stops(Reported(s, news)) /\ ~s.stopping
  <2> DEFINE all == Silent(s) \cup Back(s) \cup Absent(s)
             After(lost) ==
               IF policy.failure = "continue" THEN {Reported(s, all)}
               ELSE IF StopsOnFailure(s) /\ lost # {} THEN Stops(Reported(s, all \ lost))
               ELSE {Reported(s, all \ lost)}
  <2>1. PICK lost \in Losable(s, all) : u \in After(lost)
    BY DEF CheckPresence
  <2> HIDE DEF all
  <2>2. \/ u = Reported(s, all) \/ u = Reported(s, all \ lost)
        \/ u \in Stops(Reported(s, all \ lost)) /\ ~s.stopping
    BY <2>1 DEF StopsOnFailure
  <2> QED
    BY <2>2
<1>3. PICK news : \/ u = Reported(s, news)
                  \/ u \in Stops(Reported(s, news)) /\ ~s.stopping
  BY <1>2
<1>4. CASE u = Reported(s, news)
  BY <1>1, <1>4
<1>5. CASE u \in Stops(Reported(s, news)) /\ ~s.stopping
  <2> DEFINE t == Reported(s, news)
  <2>1. t \in Hub /\ AllSound(t, arr, lt, now) /\ ~t.stopping
    BY <1>1, <1>5 DEF Good, AllSound
  <2> HIDE DEF t
  <2>2. u \in Stops(t)
    BY <1>5 DEF t
  <2> QED
    BY <2>1, <2>2, StopsGood
<1> QED
  BY <1>3, <1>4, <1>5

LEMMA FlushGood ==
  ASSUME NEW s, NEW arr \in [Keys -> [Minutes -> Nat]], NEW lt, minute \in Minutes,
         Good(s, arr, lt, minute), NEW u \in Flush(s)
  PROVE  Good(u, arr, lt, minute)
<1> DEFINE ended == {k \in Keys : Ended(s, k)}
<1>1. s \in Hub /\ AllSound(s, arr, lt, minute)
  BY DEF Good, AllSound
<1>2. CASE u \in Stops(s) /\ ~s.stopping
  BY <1>1, <1>2, StopsGood
<1>3. CASE \E lost \in SUBSET Due(s, ended) : u = Flushed(s, ended, lost)
  <2>1. PICK lost \in SUBSET Due(s, ended) : u = Flushed(s, ended, lost)
    BY <1>3
  <2>2. ended \subseteq Keys /\ \A k \in ended : s.auth[k].minute # minute
    BY DEF Ended
  <2>3. \A k \in Keys, m \in Minutes : Settled(s, k, m, lt)
    BY DEF Good
  <2> HIDE DEF ended
  <2>4. /\ u \in Hub
        /\ \A k \in Keys, m \in Minutes :
             /\ Sound(u, k, m, arr, lt, minute)
             /\ k \in ended \/ Settled(s, k, m, lt) => Settled(u, k, m, lt)
    BY <1>1, <2>1, <2>2, FlushedSound
  <2> QED
    BY <2>3, <2>4 DEF Good
<1> QED
  BY <1>2, <1>3 DEF Flush, Flushes, Losable, StopsOnFailure

-----------------------------------------------------------------------------
(* The state of the hub between the handlers, and the next minute.         *)

LEMMA WorksGood ==
  ASSUME NEW s, NEW w \in BOOLEAN, NEW arr, NEW lt, NEW now, Good(s, arr, lt, now)
  PROVE  LET e == [s EXCEPT !.works = w]
         IN  Good(e, arr, lt, now) /\ e.stopping = s.stopping
<1> DEFINE e == [s EXCEPT !.works = w]
<1>1. Alike(s, e)
  BY DEF Good, Hub, Alike
<1> QED
  BY <1>1, AlikeGood DEF Alike

LEMMA NextMinuteGood ==
  ASSUME NEW s, NEW arr, NEW lt, NEW now \in Minutes, now + 1 \in Minutes,
         Good(s, arr, lt, now)
  PROVE  Good(s, arr, lt, now + 1)
<1> USE Bounds
<1>1. s \in Hub
  BY DEF Good
<1> SUFFICES ASSUME NEW k \in Keys, NEW m \in Minutes
             PROVE  Sound(s, k, m, arr, lt, now + 1) /\ Settled(s, k, m, lt)
  BY <1>1 DEF Good
<1>2. Sound(s, k, m, arr, lt, now) /\ Settled(s, k, m, lt)
  BY DEF Good
<1>3. s.auth[k].minute \in Nat /\ now \in Nat /\ m \in Nat
  BY <1>1, HubFields
<1>4. s.auth[k].minute <= now
  BY <1>2 DEF Sound
<1>5. m > now + 1 \/ m = now + 1 => m > now
  BY <1>3
<1>6. m > now => IsFresh(s.lines[k][m], arr[k][m], <<k, m>> \in s.unsaid, <<k, m>> \in lt)
  BY <1>2 DEF Sound
<1>7. <<k, m>> \in lt => s.stopping /\ m # now + 1
  BY <1>2, <1>5, <1>6 DEF Sound, IsFresh
<1>8. s.auth[k].minute <= now + 1 /\ s.auth[k].minute # now + 1
  BY <1>3, <1>4
<1> QED
  BY <1>2, <1>5, <1>6, <1>7, <1>8 DEF Sound

LEMMA GoodTyped ==
  ASSUME NEW s, NEW arr, NEW lt, NEW now \in Minutes, Good(s, arr, lt, now)
  PROVE  /\ s.stale \subseteq s.registered /\ s.registered \subseteq Clients
         /\ s.missing \subseteq Clients
         /\ {s.announced, s.stopping} \subseteq BOOLEAN
         /\ s.auth \in [Keys -> [minute : 0 .. now, count : Nat, covered : Nat]]
         /\ s.lines \in [Keys -> [Minutes -> Seq(Nat)]]
         /\ s.unsaid \subseteq Keys \X Minutes
<1>1. s \in Hub
  BY DEF Good
<1>2. ASSUME NEW k \in Keys
      PROVE  s.auth[k] \in [minute : 0 .. now, count : Nat, covered : Nat]
  <2>1. Sound(s, k, now, arr, lt, now)
    BY DEF Good
  <2>2. s.auth[k].minute \in 0 .. now
    BY <1>1, <2>1, HubFields, Bounds DEF Sound
  <2>3. s.auth[k] \in Auth
    BY <1>1, HubFields
  <2> QED
    BY <2>2, <2>3 DEF Auth
<1> QED
  BY <1>1, <1>2 DEF Hub

-----------------------------------------------------------------------------
(* The invariant.                                                          *)

LEMMA InitInvariant == Init => IInv
<1> USE Bounds
<1> SUFFICES ASSUME Init
             PROVE  IInv
  OBVIOUS
<1>1. 0 \in Nat /\ 1 \in Minutes /\ 0 \in 0 .. MaxMinutes /\ 0 \in 0 .. MaxOpen
  BY PresenceAssumption DEF Minutes
<1>2. Around
  BY <1>1 DEF Init, Around
<1>3. Nobody \in Auth /\ Nobody.minute = 0
  BY <1>1 DEF Nobody, Auth
<1>4. hub \in Hub
  BY <1>1, <1>3 DEF Init, Hub
<1>5. ASSUME NEW k \in Keys, NEW m \in Minutes
      PROVE  Sound(hub, k, m, arrived, late, minute) /\ Settled(hub, k, m, late)
  <2>1. /\ hub.auth[k] = Nobody /\ hub.lines[k][m] = <<>> /\ arrived[k][m] = 0
        /\ <<k, m>> \notin hub.unsaid /\ <<k, m>> \notin late /\ ~hub.stopping /\ minute = 1
    BY DEF Init
  <2>2. m # 0 /\ m \in Nat
    BY Bounds
  <2>3. CountsAgree(Nobody, m, <<>>, 0, FALSE, FALSE)
    BY <1>3, <2>2 DEF CountsAgree, LastOf, Cap, Rises
  <2>5. CountsAgree(hub.auth[k], m, hub.lines[k][m], arrived[k][m],
                    <<k, m>> \in hub.unsaid, <<k, m>> \in late)
    <3>1. (<<k, m>> \in hub.unsaid) = FALSE /\ (<<k, m>> \in late) = FALSE
      BY <2>1
    <3> QED
      BY <2>1, <2>3, <3>1
  <2>6. IsFresh(hub.lines[k][m], arrived[k][m], <<k, m>> \in hub.unsaid, <<k, m>> \in late)
    BY <2>1 DEF IsFresh
  <2> QED
    BY <1>3, <2>1, <2>2, <2>5, <2>6 DEF Sound, Settled
<1> QED
  BY <1>2, <1>4, <1>5 DEF IInv, Good

LEMMA StepInvariant == IInv /\ [Next]_vars => IInv'
<1> USE Bounds
<1> SUFFICES ASSUME IInv, [Next]_vars
             PROVE  IInv'
  OBVIOUS
<1>1. /\ Around /\ Good(hub, arrived, late, minute)
      /\ minute \in Minutes /\ arrived \in [Keys -> [Minutes -> Nat]]
      /\ late \subseteq Keys \X Minutes
  BY DEF IInv, Around
<1>2. ASSUME NEW works \in BOOLEAN
      PROVE  /\ Good([hub EXCEPT !.works = works], arrived, late, minute)
             /\ [hub EXCEPT !.works = works].stopping = hub.stopping
  BY <1>1, WorksGood
<1>3. ASSUME NEW k \in Keys, Rejected(k)
      PROVE  IInv'
  <2>1. PICK works \in BOOLEAN : Handles(works, LAMBDA s : AuthRejected(s, k))
    BY <1>3 DEF Rejected
  <2> DEFINE s == [hub EXCEPT !.works = works]
  <2>2. PICK u \in AuthRejected(s, k) : hub' = [u EXCEPT !.works = TRUE]
    BY <2>1 DEF Handles
  <2>3. /\ arrived' = [arrived EXCEPT ![k][minute] = @ + 1]
        /\ late' = IF hub.stopping THEN late \cup {<<k, minute>>} ELSE late
        /\ UNCHANGED <<traffic, since, minute>>
    BY <1>3 DEF Rejected
  <2>4. Good(s, arrived, late, minute) /\ s.stopping = hub.stopping
    BY <1>2
  <2> HIDE DEF s
  <2>5. arrived' \in [Keys -> [Minutes -> Nat]] /\ Good(u, arrived', late', minute)
    BY <1>1, <2>2, <2>3, <2>4, AuthRejectedGood
  <2>6. Good(hub', arrived', late', minute')
    BY <2>2, <2>3, <2>5, WorksGood
  <2>7. Around'
    <3>1. late' \subseteq Keys \X Minutes
      <4>1. <<k, minute>> \in Keys \X Minutes
        BY <1>1
      <4> QED
        BY <1>1, <2>3, <4>1
    <3>2. arrived' \in [Keys -> [Minutes -> Nat]]
      BY <2>5
    <3> QED
      BY ONLY <1>1, <2>3, <3>1, <3>2 DEF Around
  <2> QED
    BY <2>6, <2>7 DEF IInv
<1>4. ASSUME NEW works \in BOOLEAN, NEW u, hub' = [u EXCEPT !.works = TRUE],
             Good(u, arrived, late, minute), UNCHANGED <<traffic, minute, arrived, late>>,
             since' \in {"none", "running", "over"}
      PROVE  IInv'
  <2>1. Good(hub', arrived', late', minute')
    BY <1>4, WorksGood
  <2>2. Around'
    BY <1>1, <1>4 DEF Around
  <2> QED
    BY <2>1, <2>2 DEF IInv
<1>5. since \in {"none", "running", "over"}
  BY <1>1 DEF Around
<1>6. ASSUME NEW c \in Clients, Registers(c)
      PROVE  IInv'
  <2>1. PICK works \in BOOLEAN : Handles(works, LAMBDA s : Register(s, c))
    BY <1>6 DEF Registers
  <2> DEFINE s == [hub EXCEPT !.works = works]
  <2>2. PICK u \in Register(s, c) : hub' = [u EXCEPT !.works = TRUE]
    BY <2>1 DEF Handles
  <2>3. Good(s, arrived, late, minute)
    BY <1>2
  <2> HIDE DEF s
  <2>4. Good(u, arrived, late, minute)
    BY <1>1, <2>3, RegisterGood
  <2>5. UNCHANGED <<traffic, minute, arrived, late>> /\ since' \in {"none", "running", "over"}
    BY <1>5, <1>6 DEF Registers
  <2> QED
    BY <1>4, <2>2, <2>4, <2>5
<1>7. ASSUME NEW c \in Clients, Releases(c)
      PROVE  IInv'
  <2>1. PICK works \in BOOLEAN : Handles(works, LAMBDA s : Release(s, c))
    BY <1>7 DEF Releases
  <2> DEFINE s == [hub EXCEPT !.works = works]
  <2>2. PICK u \in Release(s, c) : hub' = [u EXCEPT !.works = TRUE]
    BY <2>1 DEF Handles
  <2>3. Good(s, arrived, late, minute)
    BY <1>2
  <2> HIDE DEF s
  <2>4. Good(u, arrived, late, minute)
    BY <1>1, <2>3, ReleaseGood
  <2>5. UNCHANGED <<traffic, since, minute, arrived, late>>
    BY <1>7 DEF Releases
  <2> QED
    BY <1>4, <1>5, <2>2, <2>4, <2>5
<1>8. ASSUME Tick
      PROVE  IInv'
  <2>1. PICK works \in BOOLEAN : TickWith(works)
    BY <1>8 DEF Tick
  <2> DEFINE s == [hub EXCEPT !.works = works]
  <2>2. PICK u \in Steps({Flush(t) : t \in CheckPresence(s)}) : hub' = [u EXCEPT !.works = TRUE]
    BY <2>1 DEF TickWith, Handles
  <2>3. Good(s, arrived, late, minute)
    BY <1>2
  <2> HIDE DEF s
  <2>4. PICK t \in CheckPresence(s) : u \in Flush(t)
    BY <2>2 DEF Steps
  <2>5. Good(t, arrived, late, minute)
    BY <1>1, <2>3, CheckPresenceGood
  <2>6. Good(u, arrived, late, minute)
    BY <1>1, <2>4, <2>5, FlushGood
  <2>7. UNCHANGED <<traffic, since, minute, arrived, late>>
    BY <2>1 DEF TickWith
  <2> QED
    BY <1>4, <1>5, <2>2, <2>6, <2>7
<1>9. ASSUME RequestStop
      PROVE  IInv'
  <2>1. PICK works \in BOOLEAN : Handles(works, Stops)
    BY <1>9 DEF RequestStop
  <2> DEFINE s == [hub EXCEPT !.works = works]
  <2>2. PICK u \in Stops(s) : hub' = [u EXCEPT !.works = TRUE]
    BY <2>1 DEF Handles
  <2>3. Good(s, arrived, late, minute) /\ ~s.stopping
    BY <1>2, <1>9 DEF RequestStop
  <2> HIDE DEF s
  <2>4. Good(u, arrived, late, minute)
    BY <1>1, <2>3, StopsGood DEF Good, AllSound
  <2>5. UNCHANGED <<traffic, since, minute, arrived, late>>
    BY <1>9 DEF RequestStop
  <2> QED
    BY <1>4, <1>5, <2>2, <2>4, <2>5
<1>10. ASSUME MinuteEnds
       PROVE  IInv'
  <2>1. /\ minute' = minute + 1 /\ minute' \in Minutes
        /\ UNCHANGED <<hub, traffic, since, arrived, late>>
    BY <1>1, <1>10 DEF MinuteEnds, Minutes
  <2>2. Good(hub, arrived, late, minute')
    BY <1>1, <2>1, NextMinuteGood
  <2> QED
    BY <1>1, <2>1, <2>2 DEF IInv, Around
<1>11. ASSUME UNCHANGED <<hub, minute, arrived, late>>,
              traffic' \in [Clients -> [open : 0 .. MaxOpen, recent : BOOLEAN]],
              since' \in {"none", "running", "over"}
       PROVE  IInv'
  BY <1>1, <1>11 DEF IInv, Around
<1>12. ASSUME NEW c \in Clients, RequestStarted(c) \/ RequestFinished(c) \/ GrowsOld(c)
       PROVE  IInv'
  <2>1. traffic \in [Clients -> [open : 0 .. MaxOpen, recent : BOOLEAN]]
    BY <1>1 DEF Around
  <2>2. MaxOpen \in Nat
    BY PresenceAssumption
  <2>3. traffic' \in [Clients -> [open : 0 .. MaxOpen, recent : BOOLEAN]]
    <3>0. ASSUME NEW n \in 0 .. MaxOpen,
                 traffic' = [traffic EXCEPT ![c] = [open |-> n, recent |-> TRUE]]
          PROVE  traffic' \in [Clients -> [open : 0 .. MaxOpen, recent : BOOLEAN]]
      BY <2>1, <3>0
    <3>a. traffic[c].open \in 0 .. MaxOpen
      BY <2>1
    <3>1. CASE RequestStarted(c)
      <4>1. /\ traffic[c].open < MaxOpen
            /\ traffic' = [traffic EXCEPT ![c] = [open |-> traffic[c].open + 1, recent |-> TRUE]]
        BY <2>1, <3>1 DEF RequestStarted
      <4>2. traffic[c].open + 1 \in 0 .. MaxOpen
        BY ONLY <2>2, <3>a, <4>1
      <4> QED
        BY <3>0, <4>1, <4>2
    <3>2. CASE RequestFinished(c)
      <4>1. /\ traffic[c].open > 0
            /\ traffic' = [traffic EXCEPT ![c] = [open |-> traffic[c].open - 1, recent |-> TRUE]]
        BY <2>1, <3>2 DEF RequestFinished
      <4>2. traffic[c].open - 1 \in 0 .. MaxOpen
        BY ONLY <2>2, <3>a, <4>1
      <4> QED
        BY <3>0, <4>1, <4>2
    <3>3. CASE GrowsOld(c)
      BY <2>1, <3>3 DEF GrowsOld
    <3> QED
      BY <1>12, <3>1, <3>2, <3>3
  <2>4. UNCHANGED <<hub, since, minute, arrived, late>>
    BY <1>12 DEF RequestStarted, RequestFinished, GrowsOld, Moves
  <2> QED
    BY <1>5, <1>11, <2>3, <2>4
<1>13. ASSUME Awaited
       PROVE  IInv'
  BY <1>1, <1>11, <1>13 DEF Awaited, Moves, Around
<1>14. CASE UNCHANGED vars
  BY <1>1, <1>5, <1>11, <1>14 DEF vars, Around
<1> QED
  BY <1>3, <1>6, <1>7, <1>8, <1>9, <1>10, <1>12, <1>13, <1>14 DEF Next

(* What the invariant says of a key and a minute.                          *)
LEMMA InvariantTyped == IInv => TypeOK
<1> SUFFICES ASSUME IInv
             PROVE  TypeOK
  OBVIOUS
<1>1. Around /\ minute \in Minutes /\ Good(hub, arrived, late, minute)
  BY DEF IInv, Around
<1> QED
  BY <1>1, GoodTyped DEF Around, TypeOK

LEMMA InvariantTells == IInv => NoRejectionForgotten /\ TwoLinesAMinute /\ LinesTellMore
<1> USE Bounds
<1> SUFFICES ASSUME IInv, NEW k \in Keys, NEW m \in Minutes
             PROVE  /\ <<k, m>> \notin hub.unsaid \cup late => Told(k, m) = arrived[k][m]
                    /\ Len(hub.lines[k][m]) <= IF <<k, m>> \in late THEN 4 ELSE 2
                    /\ \A i \in DOMAIN hub.lines[k][m] : hub.lines[k][m][i] <= arrived[k][m]
                    /\ <<k, m>> \notin late => Rises(hub.lines[k][m])
  BY DEF NoRejectionForgotten, TwoLinesAMinute, LinesTellMore, Rises
<1> DEFINE a == hub.auth[k]  l == hub.lines[k][m]  n == arrived[k][m]
<1>1. CountsAgree(a, m, l, n, <<k, m>> \in hub.unsaid, <<k, m>> \in late)
      /\ Settled(hub, k, m, late)
  BY DEF IInv, Good, Sound
<1>2. Len(l) <= IF <<k, m>> \in late THEN 4 ELSE 2
  BY <1>1 DEF CountsAgree, Cap
<1>3. \A i \in DOMAIN l : l[i] <= n
  BY <1>1 DEF CountsAgree
<1>4. ASSUME <<k, m>> \notin hub.unsaid \cup late
      PROVE  Told(k, m) = n
  <2>1. CASE a.minute = m /\ ~hub.stopping
    BY <1>1, <1>4, <2>1 DEF Told, CountsAgree
  <2>2. CASE ~(a.minute = m /\ ~hub.stopping)
    <3>1. Told(k, m) = LastOf(l)
      BY <2>2 DEF Told, LastOf
    <3>2. CASE a.minute = m /\ hub.stopping
      BY <1>1, <1>4, <3>1, <3>2 DEF CountsAgree, Settled
    <3>3. CASE a.minute # m
      BY <1>1, <1>4, <3>1, <3>3 DEF CountsAgree
    <3>4. hub.stopping \in BOOLEAN
      BY DEF IInv, Good, Hub
    <3> QED
      BY <2>2, <3>2, <3>3, <3>4
  <2> QED
    BY <2>1, <2>2
<1>5. <<k, m>> \notin late => Rises(l)
  BY <1>1 DEF CountsAgree
<1> QED
  BY <1>2, <1>3, <1>4, <1>5

(* Every part of the state keeps its type, and only the registered are     *)
(* stale, however the handlers and their failing writes fall together.     *)
THEOREM TypesKept == Spec => []TypeOK
  BY InitInvariant, StepInvariant, InvariantTyped, PTL DEF Spec

(* Of every key and minute the hub still counts in memory, or its last     *)
(* line tells, every rejection before the stop, unless that line could not *)
(* be written (auth_rejected, flush_auth, request_stop).                   *)
THEOREM RejectionsNeverForgotten == Spec => []NoRejectionForgotten
  BY InitInvariant, StepInvariant, InvariantTells, PTL DEF Spec

(* No retrying client spends more than two lines of the record a minute,   *)
(* four when it goes on after the stop, and no line counts too many        *)
(* (auth_rejected, flush_auth).                                            *)
THEOREM AtMostTwoLines == Spec => []TwoLinesAMinute
  BY InitInvariant, StepInvariant, InvariantTells, PTL DEF Spec

(* Before the stop the lines of a minute tell of ever more rejections, and *)
(* none is written twice, although a failed write, the tick and the stop   *)
(* may flush the same count (_record_auth, flush_auth).                    *)
THEOREM LinesAlwaysTellMore == Spec => []LinesTellMore
  BY InitInvariant, StepInvariant, InvariantTells, PTL DEF Spec

=============================================================================
