--------------------------- MODULE TurnBook_proofs ---------------------------
(***************************************************************************)
(* Theorems about the turn protocol, for any clients, outputs and bounds:  *)
(* type correctness and the safety invariants of TurnBook from one         *)
(* inductive invariant; and, in the last part, its action properties and   *)
(* that it implements Baton.                                               *)
(*                                                                         *)
(* The invariant is stated of any book b, file image d and working set w,  *)
(* because a handler may first lapse a lease and then apply a record: the  *)
(* lemmas of the first part say that each operator of TurnState keeps it,  *)
(* the second part instantiates them once per action.                      *)
(***************************************************************************)
EXTENDS TurnBook, TLAPS

-----------------------------------------------------------------------------
(* The inductive invariant.                                                *)

(* One live turn; none while a stop is pending or no run is open; an       *)
(* answer only on an answered turn; no nonce on a turn still to be claimed.*)
Consistent(b) ==
  /\ \A j, k \in LiveTurns(b) : j = k
  /\ b.stop # 0 =>
       /\ LiveTurns(b) = {}
       /\ b.turns[b.stop].state = "recalled"
  /\ b.run = 0 => b.stop = 0 /\ Existing(b) = {}
  /\ \A k \in Steps :
       /\ b.turns[k].state # "submitted" => b.turns[k].output = Nothing
       /\ b.turns[k].state \in {"none", "offered", "leased", "broken"} =>
            b.turns[k].nonce = 0
       /\ b.turns[k].state = "none" => b.turns[k].inputs = {}
       /\ b.turns[k].state # "none" => b.turns[k].client \in Clients

(* An app is at work on the claimed turn, or on the one it is to stop.     *)
WorkAccounted(b, w) ==
  \A k \in w : b.run # 0 /\ (b.turns[k].state = "claimed" \/ b.stop = k)

InputsReceivedIn(b) ==
  \A k \in Steps : \A j \in b.turns[k].inputs :
    j < k /\ b.turns[j].state = "submitted"

Good(d, b, w) ==
  /\ d \in Book
  /\ b \in Book
  /\ w \subseteq Steps
  /\ Consistent(b)
  /\ WorkAccounted(b, w)
  /\ InputsReceivedIn(b)
  /\ Recorded(d, b)
  /\ b.suspect = FALSE
  /\ d.suspect = FALSE

IInv == TypeOK /\ Good(disk, book, working)

-----------------------------------------------------------------------------
(* What replacing one turn of a book does.                                 *)

TurnReplaced(r, b, k, t) ==
  /\ r.turns[k] = t
  /\ \A j \in Steps : j # k => r.turns[j] = b.turns[j]

SameFrame(r, b) ==
  /\ r.run = b.run
  /\ r.proposal = b.proposal
  /\ r.maxRun = b.maxRun
  /\ r.maxProposal = b.maxProposal
  /\ r.suspect = b.suspect

LEMMA ReplaceTurn ==
  ASSUME NEW b \in Book, NEW k \in Steps, NEW t \in Turn
  PROVE  LET r == [b EXCEPT !.turns[k] = t]
         IN  /\ r \in Book
             /\ TurnReplaced(r, b, k, t)
             /\ SameFrame(r, b)
             /\ r.pauses = b.pauses
             /\ r.stop = b.stop
<1> DEFINE ts == [b.turns EXCEPT ![k] = t]
           r  == [b EXCEPT !.turns = ts]
<1>1. ts \in [Steps -> Turn]
  BY DEF Book
<1>2. r \in Book
  BY <1>1 DEF Book
<1>3. TurnReplaced(r, b, k, t) /\ SameFrame(r, b)
  BY DEF Book, TurnReplaced, SameFrame
<1>4. r.pauses = b.pauses /\ r.stop = b.stop
  BY DEF Book
<1> QED BY <1>2, <1>3, <1>4

(* The file image follows the book when both have the same turn replaced.  *)
LEMMA RecordedReplaced ==
  ASSUME NEW d, NEW b, NEW e, NEW r, NEW k \in Steps, NEW t, NEW u,
         Recorded(d, b), SameFrame(e, d), SameFrame(r, b),
         TurnReplaced(e, d, k, u), TurnReplaced(r, b, k, t), SameTurn(u, t),
         e.pauses = r.pauses \ {HubRestart}, e.stop = r.stop
  PROVE  Recorded(e, r)
  BY DEF Recorded, SameFrame, TurnReplaced

-----------------------------------------------------------------------------
(* Each event keeps Good.                                                  *)

LEMMA OfferedGood ==
  ASSUME NEW d, NEW b, NEW w, Good(d, b, w), NEW k \in Steps,
         NEW c \in Clients, NEW ins,
         b.run # 0, b.stop = 0, LiveTurns(b) = {}, IsNextStep(b, k),
         ins \subseteq Submitted(b)
  PROVE  Good(TurnOffered(d, b.run, k, c, ins), TurnOffered(b, b.run, k, c, ins), w)
<1> DEFINE t == [NoTurn EXCEPT !.state = "offered", !.client = c, !.inputs = ins]
           r == [b EXCEPT !.turns[k] = t]
           e == [d EXCEPT !.turns[k] = t]
<1>1. t \in Turn /\ t.state = "offered" /\ t.client = c /\ t.inputs = ins
      /\ t.nonce = 0 /\ t.output = Nothing /\ t.prior = "none"
  BY DEF Submitted, NoTurn, Turn, TurnStates, LiveStates
<1>2. b \in Book /\ d \in Book
  BY DEF Good
<1>3. k \notin Existing(b) /\ \A j \in ins : j < k
  BY DEF IsNextStep, Existing, Submitted, Steps
<1>4. LiveTurns(d) = {} /\ d.stop = 0 /\ d.run = b.run /\ k \notin Existing(d)
  BY <1>3 DEF Good, Recorded, SameTurn, AsRecorded, LiveTurns, LiveStates, Existing
<1>5. TurnOffered(b, b.run, k, c, ins) = r
  BY <1>3 DEF TurnOffered, InRun
<1>6. TurnOffered(d, b.run, k, c, ins) = e
  BY <1>4 DEF TurnOffered, InRun
<1>7. /\ r \in Book /\ TurnReplaced(r, b, k, t) /\ SameFrame(r, b)
      /\ r.pauses = b.pauses /\ r.stop = b.stop
  BY ONLY <1>1, <1>2, ReplaceTurn, k \in Steps
<1>8. /\ e \in Book /\ TurnReplaced(e, d, k, t) /\ SameFrame(e, d)
      /\ e.pauses = d.pauses /\ e.stop = d.stop
  BY ONLY <1>1, <1>2, ReplaceTurn, k \in Steps
<1> HIDE DEF t, r, e
<1>9. Recorded(e, r)
  <2>1. SameTurn(t, t)
    BY <1>1 DEF SameTurn, AsRecorded
  <2>2. Recorded(d, b)
    BY DEF Good
  <2> QED BY <1>7, <1>8, <2>1, <2>2, RecordedReplaced DEF Recorded
<1>10. Consistent(r)
  BY <1>1, <1>7 DEF Good, Consistent, LiveTurns, LiveStates, Existing, TurnReplaced, SameFrame
<1>11. WorkAccounted(r, w)
  BY <1>3, <1>7 DEF Good, WorkAccounted, Existing, TurnReplaced, SameFrame
<1>12. InputsReceivedIn(r)
  <2>1. \A i \in Steps : b.turns[i].inputs \subseteq Steps
    BY DEF Good, Book, Turn
  <2> QED
    BY <1>1, <1>3, <1>7, <2>1
    DEF Good, InputsReceivedIn, Existing, Submitted, TurnReplaced
<1> QED
  BY <1>5, <1>6, <1>7, <1>8, <1>9, <1>10, <1>11, <1>12 DEF Good, SameFrame

LEMMA LessWork ==
  ASSUME NEW d, NEW b, NEW w, Good(d, b, w), NEW v \in SUBSET w
  PROVE  Good(d, b, v)
  BY DEF Good, WorkAccounted

(* A turn of the live book in a live state is the only live one.           *)
LEMMA LiveFacts ==
  ASSUME NEW d, NEW b, NEW w, Good(d, b, w), NEW k \in Steps,
         b.turns[k].state \in LiveStates
  PROVE  /\ b \in Book /\ d \in Book
         /\ b.turns[k] \in Turn /\ d.turns[k] \in Turn
         /\ b.run # 0 /\ d.run = b.run
         /\ b.stop = 0 /\ d.stop = 0
         /\ \A j \in Steps : b.turns[j].state \in LiveStates => j = k
         /\ \A j \in w : j = k /\ b.turns[k].state = "claimed"
         /\ b.turns[k].client \in Clients
         /\ SameTurn(d.turns[k], b.turns[k])
<1>1. b \in Book /\ d \in Book /\ b.turns[k] \in Turn /\ d.turns[k] \in Turn
  BY DEF Good, Book
<1>2. k \in LiveTurns(b) /\ k \in Existing(b)
  BY DEF LiveTurns, LiveStates, Existing
<1>3. b.run # 0 /\ b.stop = 0 /\ d.run = b.run /\ d.stop = 0
  BY <1>2 DEF Good, Consistent, Recorded
<1>4. \A j \in Steps : b.turns[j].state \in LiveStates => j = k
  BY <1>2 DEF Good, Consistent, LiveTurns
<1>5. \A j \in w : j \in Steps /\ j # 0
  BY DEF Good, Steps
<1>6. \A j \in w : j = k /\ b.turns[k].state = "claimed"
  BY <1>3, <1>4, <1>5 DEF Good, WorkAccounted, LiveStates
<1>7. b.turns[k].client \in Clients
  BY DEF Good, Consistent, LiveStates
<1>8. SameTurn(d.turns[k], b.turns[k])
  BY DEF Good, Recorded
<1> QED BY <1>1, <1>3, <1>4, <1>6, <1>7, <1>8

(* Replacing the live turn k by t, in the book, and by u, in the image,    *)
(* keeps Good when t is a turn k can go to.                                *)
LEMMA LiveReplaced ==
  ASSUME NEW d, NEW b, NEW w, NEW e, NEW r, NEW v,
         Good(d, b, w), NEW k \in Steps, b.turns[k].state \in LiveStates,
         NEW t \in Turn, NEW u \in Turn, SameTurn(u, t),
         e \in Book, r \in Book,
         TurnReplaced(e, d, k, u), TurnReplaced(r, b, k, t),
         SameFrame(e, d), SameFrame(r, b),
         e.pauses = r.pauses \ {HubRestart}, e.stop = r.stop,
         t.state # "none", t.client = b.turns[k].client,
         t.inputs = b.turns[k].inputs,
         t.state # "submitted" => t.output = Nothing,
         t.state \in {"offered", "leased", "broken"} => t.nonce = 0,
         r.stop \in {0, k},
         r.stop = k => t.state = "recalled",
         v \subseteq {k},
         v # {} => t.state = "claimed" \/ r.stop = k
  PROVE  Good(e, r, v)
<1>1. /\ b.run # 0
      /\ b.stop = 0
      /\ \A j \in Steps : b.turns[j].state \in LiveStates => j = k
      /\ b.turns[k].client \in Clients
  BY LiveFacts
<1>2. Consistent(r)
  <2>1. \A j \in LiveTurns(r) : j = k
    BY <1>1 DEF LiveTurns, TurnReplaced
  <2>2. r.stop # 0 => LiveTurns(r) = {} /\ r.turns[r.stop].state = "recalled"
    BY <2>1 DEF LiveTurns, LiveStates, TurnReplaced
  <2>3. r.run # 0
    BY <1>1 DEF SameFrame
  <2>4. \A j \in Steps :
          /\ r.turns[j].state # "submitted" => r.turns[j].output = Nothing
          /\ r.turns[j].state \in {"none", "offered", "leased", "broken"} =>
               r.turns[j].nonce = 0
          /\ r.turns[j].state = "none" => r.turns[j].inputs = {}
          /\ r.turns[j].state # "none" => r.turns[j].client \in Clients
    BY <1>1 DEF Good, Consistent, TurnReplaced
  <2> QED BY <2>1, <2>2, <2>3, <2>4 DEF Consistent
<1>3. WorkAccounted(r, v)
  BY <1>1 DEF WorkAccounted, TurnReplaced, SameFrame
<1>4. InputsReceivedIn(r)
  <2>1. \A j \in Steps : b.turns[j].inputs \subseteq Steps
    BY DEF Good, Book, Turn
  <2>2. \A j \in Steps : r.turns[j].inputs = b.turns[j].inputs
    BY DEF TurnReplaced
  <2>3. \A j \in Steps : b.turns[j].state = "submitted" => r.turns[j] = b.turns[j]
    BY DEF TurnReplaced, LiveStates
  <2> QED BY <2>1, <2>2, <2>3 DEF Good, InputsReceivedIn
<1>5. Recorded(e, r)
  BY RecordedReplaced DEF Good
<1>6. r.suspect = FALSE /\ e.suspect = FALSE
  BY DEF Good, SameFrame
<1>7. v \subseteq Steps
  OBVIOUS
<1> QED BY <1>2, <1>3, <1>4, <1>5, <1>6, <1>7 DEF Good

LEMMA ClaimedGood ==
  ASSUME NEW d, NEW b, NEW w, Good(d, b, w), NEW k \in Steps,
         NEW c \in Clients, NEW n \in Nat, n # 0,
         b.turns[k].client = c, b.turns[k].state \in {"offered", "leased"}
  PROVE  Good(TurnClaimed(d, b.run, k, c, n), TurnClaimed(b, b.run, k, c, n),
              w \cup {k})
<1> DEFINE t == [b.turns[k] EXCEPT !.state = "claimed", !.nonce = n]
           u == [d.turns[k] EXCEPT !.state = "claimed", !.nonce = n]
           r == [b EXCEPT !.turns[k] = t]
           e == [d EXCEPT !.turns[k] = u]
<1>1. /\ b \in Book /\ d \in Book
      /\ b.turns[k] \in Turn /\ d.turns[k] \in Turn
      /\ b.run # 0 /\ d.run = b.run /\ b.stop = 0
      /\ w = {}
      /\ SameTurn(d.turns[k], b.turns[k])
  BY LiveFacts DEF LiveStates
<1>2. d.turns[k].state = "offered" /\ d.turns[k].client = c
  BY <1>1 DEF SameTurn, AsRecorded
<1>3. t \in Turn /\ u \in Turn /\ SameTurn(u, t)
  <2>1. t \in Turn
    BY <1>1 DEF Turn, TurnStates, LiveStates
  <2>2. u \in Turn
    BY <1>1 DEF Turn, TurnStates, LiveStates
  <2>3. SameTurn(u, t)
    BY <1>1 DEF Turn, SameTurn, AsRecorded
  <2> QED BY <2>1, <2>2, <2>3
<1>4. /\ t.state = "claimed" /\ t.client = b.turns[k].client
      /\ t.inputs = b.turns[k].inputs /\ t.output = Nothing
  BY <1>1 DEF Turn, Good, Consistent
<1>5. TurnClaimed(b, b.run, k, c, n) = r
  BY <1>1 DEF TurnClaimed, InRun
<1>6. TurnClaimed(d, b.run, k, c, n) = e
  BY <1>1, <1>2 DEF TurnClaimed, InRun
<1>7. /\ r \in Book /\ TurnReplaced(r, b, k, t) /\ SameFrame(r, b)
      /\ r.pauses = b.pauses /\ r.stop = b.stop
  BY ONLY <1>1, <1>3, ReplaceTurn, k \in Steps
<1>8. /\ e \in Book /\ TurnReplaced(e, d, k, u) /\ SameFrame(e, d)
      /\ e.pauses = d.pauses /\ e.stop = d.stop
  BY ONLY <1>1, <1>3, ReplaceTurn, k \in Steps
<1> HIDE DEF t, u, r, e
<1>9. e.pauses = r.pauses \ {HubRestart} /\ e.stop = r.stop
  BY <1>7, <1>8 DEF Good, Recorded
<1>10. r.stop = 0 /\ k # 0 /\ w \cup {k} \subseteq {k}
  BY <1>1, <1>7 DEF Steps
<1>11. b.turns[k].state \in LiveStates
  BY DEF LiveStates
<1>12. Good(e, r, w \cup {k})
  BY ONLY <1>1, <1>3, <1>4, <1>7, <1>8, <1>9, <1>10, <1>11, LiveReplaced,
          Good(d, b, w), k \in Steps
<1> QED BY <1>5, <1>6, <1>12

(* What only the memory of the hub knows (a lease, a packet found broken)  *)
(* leaves the file image as it is.                                         *)
LEMMA MemoryOnlyGood ==
  ASSUME NEW d, NEW b, NEW w, Good(d, b, w), NEW k \in Steps,
         b.turns[k].state \in {"offered", "leased"},
         NEW s \in {"offered", "leased", "broken"},
         NEW r \in Book,
         TurnReplaced(r, b, k, [b.turns[k] EXCEPT !.state = s]),
         SameFrame(r, b), r.pauses = b.pauses, r.stop = b.stop
  PROVE  Good(d, r, w)
<1> DEFINE t == [b.turns[k] EXCEPT !.state = s]
<1>1. /\ b \in Book /\ d \in Book
      /\ b.turns[k] \in Turn /\ d.turns[k] \in Turn
      /\ b.run # 0 /\ d.run = b.run /\ b.stop = 0
      /\ w = {}
      /\ SameTurn(d.turns[k], b.turns[k])
  BY LiveFacts DEF LiveStates
<1>2. t \in Turn /\ SameTurn(d.turns[k], t)
  BY <1>1 DEF Turn, TurnStates, LiveStates, SameTurn, AsRecorded
<1>3. /\ t.state = s /\ t.client = b.turns[k].client
      /\ t.inputs = b.turns[k].inputs /\ t.output = Nothing /\ t.nonce = 0
  BY <1>1 DEF Turn, Good, Consistent
<1>4. TurnReplaced(d, d, k, d.turns[k]) /\ SameFrame(d, d)
  BY DEF TurnReplaced, SameFrame
<1>5. TurnReplaced(r, b, k, t)
  OBVIOUS
<1> HIDE DEF t
<1>6. d.pauses = r.pauses \ {HubRestart} /\ d.stop = r.stop
  BY DEF Good, Recorded
<1>7. r.stop = 0 /\ k # 0 /\ w \subseteq {k}
  BY <1>1 DEF Steps
<1>8. b.turns[k].state \in LiveStates
  BY DEF LiveStates
<1>9. t.state \notin {"none", "submitted"}
  BY <1>3
<1>10. Good(d, r, w)
  BY ONLY <1>1, <1>2, <1>3, <1>4, <1>5, <1>6, <1>7, <1>8, <1>9, LiveReplaced,
          Good(d, b, w), k \in Steps, r \in Book, SameFrame(r, b)
<1> QED BY <1>10

LEMMA LeasedGood ==
  ASSUME NEW d, NEW b, NEW w, Good(d, b, w), NEW k \in Steps,
         b.turns[k].state = "offered"
  PROVE  Good(d, TurnLeased(b, b.run, k), w)
<1> DEFINE t == [b.turns[k] EXCEPT !.state = "leased"]
           r == [b EXCEPT !.turns[k] = t]
<1>1. b \in Book /\ b.turns[k] \in Turn /\ b.run # 0
  BY LiveFacts DEF LiveStates
<1>2. TurnLeased(b, b.run, k) = r
  BY <1>1 DEF TurnLeased, InRun
<1>3. t \in Turn
  BY <1>1 DEF Turn, TurnStates, LiveStates
<1>4. /\ r \in Book /\ TurnReplaced(r, b, k, t) /\ SameFrame(r, b)
      /\ r.pauses = b.pauses /\ r.stop = b.stop
  BY ONLY <1>1, <1>3, ReplaceTurn, k \in Steps
<1> HIDE DEF r
<1>5. Good(d, r, w)
  BY <1>4, MemoryOnlyGood
<1> QED BY <1>2, <1>5

LEMMA BrokenGood ==
  ASSUME NEW d, NEW b, NEW w, Good(d, b, w), NEW k \in Steps,
         b.turns[k].state \in {"offered", "leased"}
  PROVE  Good(d, [b EXCEPT !.turns[k] = [@ EXCEPT !.state = "broken"]], w)
<1> DEFINE t == [b.turns[k] EXCEPT !.state = "broken"]
           r == [b EXCEPT !.turns[k] = t]
<1>1. b \in Book /\ b.turns[k] \in Turn
  BY LiveFacts DEF LiveStates
<1>2. t \in Turn
  BY <1>1 DEF Turn, TurnStates, LiveStates
<1>3. /\ r \in Book /\ TurnReplaced(r, b, k, t) /\ SameFrame(r, b)
      /\ r.pauses = b.pauses /\ r.stop = b.stop
  BY ONLY <1>1, <1>2, ReplaceTurn, k \in Steps
<1> HIDE DEF r
<1>4. Good(d, r, w)
  BY <1>3, MemoryOnlyGood
<1> QED BY <1>4 DEF r

LEMMA LapsedGood ==
  ASSUME NEW d, NEW b, NEW w, Good(d, b, w)
  PROVE  Good(d, Lapsed(b), w) /\ Lapsed(b).run = b.run
<1> DEFINE ts == [k \in Steps |->
                    IF b.turns[k].state = "leased"
                    THEN [b.turns[k] EXCEPT !.state = "offered"]
                    ELSE b.turns[k]]
           r == [b EXCEPT !.turns = ts]
<1>1. b \in Book
  BY DEF Good
<1>2. CASE ~lease.over
  BY <1>2 DEF Lapsed
<1>3. CASE lease.over
  <2>1. Lapsed(b) = r
    BY <1>3 DEF Lapsed
  <2>2. ts \in [Steps -> Turn]
    <3> SUFFICES ASSUME NEW k \in Steps PROVE ts[k] \in Turn
      OBVIOUS
    <3>1. b.turns[k] \in Turn
      BY <1>1 DEF Book
    <3> QED BY <3>1 DEF Turn, TurnStates, LiveStates
  <2>3. /\ r \in Book /\ r.turns = ts /\ SameFrame(r, b)
        /\ r.pauses = b.pauses /\ r.stop = b.stop
    BY <1>1, <2>2 DEF Book, SameFrame
  <2>4. CASE \E k \in Steps : b.turns[k].state = "leased"
    <3> PICK k \in Steps : b.turns[k].state = "leased"
      BY <2>4
    <3>1. \A j \in Steps : b.turns[j].state = "leased" => j = k
      BY LiveFacts DEF LiveStates
    <3>2. TurnReplaced(r, b, k, [b.turns[k] EXCEPT !.state = "offered"])
      BY <2>3, <3>1 DEF TurnReplaced
    <3> HIDE DEF r
    <3>3. Good(d, r, w)
      BY <2>3, <3>2, MemoryOnlyGood
    <3> QED BY <2>1, <2>3, <3>3 DEF SameFrame
  <2>5. CASE \A k \in Steps : b.turns[k].state # "leased"
    <3>1. ts = b.turns
      BY <1>1, <2>5 DEF Book
    <3>2. r = b
      BY <1>1, <3>1 DEF Book
    <3> QED BY <2>1, <3>2
  <2> QED BY <2>4, <2>5
<1> QED BY <1>2, <1>3

LEMMA SubmittedGood ==
  ASSUME NEW d, NEW b, NEW w, Good(d, b, w), NEW k \in Steps,
         NEW st \in Statuses, NEW o \in Outputs,
         b.turns[k].state = "claimed"
  PROVE  Good(TurnSubmitted(d, b.run, k, st, o),
              TurnSubmitted(b, b.run, k, st, o), w \ {k})
<1> DEFINE t == [b.turns[k] EXCEPT !.state = "submitted", !.status = st,
                                   !.output = o]
           u == [d.turns[k] EXCEPT !.state = "submitted", !.status = st,
                                   !.output = o]
           more == IF st = "blocked" THEN {b.turns[k].client} ELSE {}
           r1 == [b EXCEPT !.turns[k] = t]
           e1 == [d EXCEPT !.turns[k] = u]
           r == [r1 EXCEPT !.pauses = b.pauses \cup more]
           e == [e1 EXCEPT !.pauses = d.pauses \cup more]
<1>1. /\ b \in Book /\ d \in Book
      /\ b.turns[k] \in Turn /\ d.turns[k] \in Turn
      /\ b.run # 0 /\ d.run = b.run /\ b.stop = 0
      /\ w \subseteq {k}
      /\ b.turns[k].client \in Clients
      /\ SameTurn(d.turns[k], b.turns[k])
  BY LiveFacts DEF LiveStates
<1>2. d.turns[k].state = "claimed" /\ d.turns[k].client = b.turns[k].client
  BY <1>1 DEF SameTurn, AsRecorded
<1>3. t \in Turn /\ u \in Turn /\ SameTurn(u, t)
  <2>1. t \in Turn
    BY <1>1 DEF Turn, TurnStates, LiveStates
  <2>2. u \in Turn
    BY <1>1 DEF Turn, TurnStates, LiveStates
  <2>3. SameTurn(u, t)
    BY <1>1 DEF Turn, SameTurn, AsRecorded
  <2> QED BY <2>1, <2>2, <2>3
<1>4. /\ t.state = "submitted" /\ t.client = b.turns[k].client
      /\ t.inputs = b.turns[k].inputs
  BY <1>1 DEF Turn
<1>5. TurnSubmitted(b, b.run, k, st, o) = r
  BY <1>1 DEF TurnSubmitted, InRun, Book
<1>6. TurnSubmitted(d, b.run, k, st, o) = e
  BY <1>1, <1>2 DEF TurnSubmitted, InRun, Book
<1>7. /\ r1 \in Book /\ TurnReplaced(r1, b, k, t) /\ SameFrame(r1, b)
      /\ r1.pauses = b.pauses /\ r1.stop = b.stop
  BY ONLY <1>1, <1>3, ReplaceTurn, k \in Steps
<1>8. /\ e1 \in Book /\ TurnReplaced(e1, d, k, u) /\ SameFrame(e1, d)
      /\ e1.pauses = d.pauses /\ e1.stop = d.stop
  BY ONLY <1>1, <1>3, ReplaceTurn, k \in Steps
<1> HIDE DEF t, u, r1, e1
<1>9. /\ r \in Book /\ TurnReplaced(r, b, k, t) /\ SameFrame(r, b)
      /\ r.pauses = b.pauses \cup more /\ r.stop = b.stop
  BY <1>1, <1>7 DEF Book, TurnReplaced, SameFrame
<1>10. /\ e \in Book /\ TurnReplaced(e, d, k, u) /\ SameFrame(e, d)
       /\ e.pauses = d.pauses \cup more /\ e.stop = d.stop
  BY <1>1, <1>8 DEF Book, TurnReplaced, SameFrame
<1>11. HubRestart \notin more
  BY <1>1, TurnStateAssumption
<1> HIDE DEF r, e, more
<1>12. e.pauses = r.pauses \ {HubRestart} /\ e.stop = r.stop
  BY <1>9, <1>10, <1>11 DEF Good, Recorded
<1>13. r.stop = 0 /\ k # 0 /\ w \ {k} = {}
  BY <1>1, <1>9 DEF Steps
<1>14. b.turns[k].state \in LiveStates
  BY DEF LiveStates
<1>15. Good(e, r, w \ {k})
  BY ONLY <1>1, <1>3, <1>4, <1>9, <1>10, <1>12, <1>13, <1>14, LiveReplaced,
          Good(d, b, w), k \in Steps
<1> QED BY <1>5, <1>6, <1>15


LEMMA RecalledTurn ==
  ASSUME NEW t \in Turn
  PROVE  [t EXCEPT !.state = "recalled", !.prior = t.state] \in Turn
BY DEF Turn, TurnStates

LEMMA RecalledGood ==
  ASSUME NEW d, NEW b, NEW w, Good(d, b, w), NEW k \in Steps,
         b.turns[k].state \in LiveStates
  PROVE  LET needsStop == b.turns[k].state = "claimed"
         IN  Good(TurnRecalled(d, b.run, k, needsStop),
                  TurnRecalled(b, b.run, k, needsStop), w)
<1> DEFINE needsStop == b.turns[k].state = "claimed"
           t == [b.turns[k] EXCEPT !.state = "recalled",
                                   !.prior = b.turns[k].state]
           u == [d.turns[k] EXCEPT !.state = "recalled",
                                   !.prior = d.turns[k].state]
           s == IF needsStop THEN k ELSE 0
           r1 == [b EXCEPT !.turns[k] = t]
           e1 == [d EXCEPT !.turns[k] = u]
           r == [r1 EXCEPT !.stop = s]
           e == [e1 EXCEPT !.stop = s]
<1>1. /\ b \in Book /\ d \in Book
      /\ b.turns[k] \in Turn /\ d.turns[k] \in Turn
      /\ b.run # 0 /\ d.run = b.run /\ b.stop = 0 /\ d.stop = 0
      /\ \A j \in w : j = k /\ b.turns[k].state = "claimed"
      /\ SameTurn(d.turns[k], b.turns[k])
  BY LiveFacts
<1>2. d.turns[k].state \in LiveStates
  BY <1>1 DEF SameTurn, AsRecorded, LiveStates
<1>3. t \in Turn /\ u \in Turn /\ SameTurn(u, t)
  <2>1. t \in Turn
    BY <1>1, RecalledTurn
  <2>2. u \in Turn
    BY <1>1, RecalledTurn
  <2>3. /\ t.state = "recalled" /\ t.prior = b.turns[k].state
        /\ t.client = b.turns[k].client /\ t.nonce = b.turns[k].nonce
        /\ t.status = b.turns[k].status /\ t.output = b.turns[k].output
        /\ t.inputs = b.turns[k].inputs
    BY <1>1 DEF Turn
  <2>4. /\ u.state = "recalled" /\ u.prior = d.turns[k].state
        /\ u.client = d.turns[k].client /\ u.nonce = d.turns[k].nonce
        /\ u.status = d.turns[k].status /\ u.output = d.turns[k].output
        /\ u.inputs = d.turns[k].inputs
    BY <1>1 DEF Turn
  <2> HIDE DEF t, u
  <2>5. SameTurn(u, t)
    BY <1>1, <2>3, <2>4 DEF SameTurn, AsRecorded
  <2> QED BY <2>1, <2>2, <2>5
<1>4. /\ t.state = "recalled" /\ t.client = b.turns[k].client
      /\ t.inputs = b.turns[k].inputs /\ t.output = Nothing
  BY <1>1 DEF Turn, LiveStates, Good, Consistent
<1>5. TurnRecalled(b, b.run, k, needsStop) = r
  BY <1>1 DEF TurnRecalled, InRun, Book
<1>6. TurnRecalled(d, b.run, k, needsStop) = e
  BY <1>1, <1>2 DEF TurnRecalled, InRun, Book
<1>7. /\ r1 \in Book /\ TurnReplaced(r1, b, k, t) /\ SameFrame(r1, b)
      /\ r1.pauses = b.pauses
  BY ONLY <1>1, <1>3, ReplaceTurn, k \in Steps
<1>8. /\ e1 \in Book /\ TurnReplaced(e1, d, k, u) /\ SameFrame(e1, d)
      /\ e1.pauses = d.pauses
  BY ONLY <1>1, <1>3, ReplaceTurn, k \in Steps
<1>9. s \in {0, k} /\ k # 0 /\ w \subseteq {k} /\ (w # {} => s = k)
  BY <1>1 DEF Steps
<1> HIDE DEF t, u, r1, e1, s
<1>10. /\ r \in Book /\ TurnReplaced(r, b, k, t) /\ SameFrame(r, b)
       /\ r.pauses = b.pauses /\ r.stop = s
  BY <1>7, <1>9 DEF Book, TurnReplaced, SameFrame
<1>11. /\ e \in Book /\ TurnReplaced(e, d, k, u) /\ SameFrame(e, d)
       /\ e.pauses = d.pauses /\ e.stop = s
  BY <1>8, <1>9 DEF Book, TurnReplaced, SameFrame
<1> HIDE DEF r, e
<1>12. e.pauses = r.pauses \ {HubRestart} /\ e.stop = r.stop
  BY <1>10, <1>11 DEF Good, Recorded
<1>13. Good(e, r, w)
  BY ONLY <1>1, <1>3, <1>4, <1>9, <1>10, <1>11, <1>12, LiveReplaced,
          Good(d, b, w), k \in Steps, b.turns[k].state \in LiveStates
<1> QED BY <1>5, <1>6, <1>13

(* The turns stay as they are and no app starts to work.                   *)
LEMMA FrameGood ==
  ASSUME NEW d, NEW b, NEW w, Good(d, b, w),
         NEW e \in Book, NEW r \in Book, NEW v \in SUBSET w,
         r.turns = b.turns, e.turns = d.turns,
         r.run = b.run, e.run = d.run,
         e.pauses = r.pauses \ {HubRestart}, e.proposal = r.proposal,
         e.maxRun = r.maxRun, e.maxProposal = r.maxProposal,
         r.suspect = FALSE, e.suspect = FALSE,
         r.stop \in {0, b.stop}, e.stop = r.stop,
         v # {} => r.stop = b.stop
  PROVE  Good(e, r, v)
<1>1. Consistent(r)
  <2>1. Consistent(b) /\ LiveTurns(r) = LiveTurns(b) /\ Existing(r) = Existing(b)
    BY DEF Good, LiveTurns, Existing
  <2> QED BY <2>1 DEF Consistent
<1>2. WorkAccounted(r, v)
  BY DEF Good, WorkAccounted
<1>3. InputsReceivedIn(r)
  BY DEF Good, InputsReceivedIn
<1>4. Recorded(e, r)
  BY DEF Good, Recorded
<1> QED BY <1>1, <1>2, <1>3, <1>4 DEF Good

(* A run without turns, or none at all.                                    *)
LEMMA NoTurnsGood ==
  ASSUME NEW e \in Book, NEW r \in Book,
         r.turns = NoTurns, e.turns = NoTurns,
         r.stop = 0, e.stop = 0, r.pauses = {}, e.pauses = {},
         e.run = r.run, e.proposal = r.proposal,
         e.maxRun = r.maxRun, e.maxProposal = r.maxProposal,
         r.suspect = FALSE, e.suspect = FALSE
  PROVE  Good(e, r, {})
<1>1. \A k \in Steps : r.turns[k] = NoTurn /\ e.turns[k] = NoTurn
  BY DEF NoTurns
<1>2. Consistent(r)
  BY <1>1 DEF Consistent, NoTurn, LiveTurns, LiveStates, Existing
<1>3. InputsReceivedIn(r)
  BY <1>1 DEF InputsReceivedIn, NoTurn
<1>4. Recorded(e, r)
  <2>1. SameTurn(NoTurn, NoTurn)
    BY DEF SameTurn, AsRecorded, NoTurn
  <2> QED BY <1>1, <2>1 DEF Recorded
<1>5. WorkAccounted(r, {}) /\ {} \subseteq Steps
  BY DEF WorkAccounted
<1> QED BY ONLY <1>2, <1>3, <1>4, <1>5, e \in Book, r \in Book,
                r.suspect = FALSE, e.suspect = FALSE DEF Good

LEMMA NoTurnsType == NoTurns \in [Steps -> Turn]
BY DEF NoTurns, NoTurn, Turn, TurnStates, LiveStates

LEMMA StopConfirmedGood ==
  ASSUME NEW d, NEW b, NEW w, Good(d, b, w), b.run # 0, b.stop # 0
  PROVE  Good(StopConfirmed(d, b.run, b.stop), StopConfirmed(b, b.run, b.stop),
              w \ {b.stop})
<1> DEFINE r == [b EXCEPT !.stop = 0]
           e == [d EXCEPT !.stop = 0]
<1>1. b \in Book /\ d \in Book /\ d.run = b.run /\ d.stop = b.stop
  BY DEF Good, Recorded
<1>2. StopConfirmed(b, b.run, b.stop) = r /\ StopConfirmed(d, b.run, b.stop) = e
  BY <1>1 DEF StopConfirmed, InRun
<1>3. w \ {b.stop} = {}
  BY DEF Good, Consistent, WorkAccounted, LiveTurns, LiveStates
<1>4. /\ r \in Book /\ r.turns = b.turns /\ r.run = b.run /\ r.stop = 0
      /\ r.pauses = b.pauses /\ r.proposal = b.proposal
      /\ r.maxRun = b.maxRun /\ r.maxProposal = b.maxProposal
      /\ r.suspect = b.suspect
  BY <1>1 DEF Book
<1>5. /\ e \in Book /\ e.turns = d.turns /\ e.run = d.run /\ e.stop = 0
      /\ e.pauses = d.pauses /\ e.proposal = d.proposal
      /\ e.maxRun = d.maxRun /\ e.maxProposal = d.maxProposal
      /\ e.suspect = d.suspect
  BY <1>1 DEF Book
<1> HIDE DEF r, e
<1>6. Good(e, r, {})
  <2>1. /\ e.pauses = r.pauses \ {HubRestart} /\ e.proposal = r.proposal
        /\ e.maxRun = r.maxRun /\ e.maxProposal = r.maxProposal
        /\ r.suspect = FALSE /\ e.suspect = FALSE
    BY <1>4, <1>5 DEF Good, Recorded
  <2> QED BY ONLY <1>4, <1>5, <2>1, FrameGood, Good(d, b, w), {} \in SUBSET w
<1> QED BY <1>2, <1>3, <1>6

LEMMA HubResumedGood ==
  ASSUME NEW d, NEW b, NEW w, Good(d, b, w)
  PROVE  Good(HubResumed(d, b.run), HubResumed(b, b.run), w)
<1> DEFINE r == [b EXCEPT !.pauses = {}]
           e == [d EXCEPT !.pauses = {}]
<1>1. b \in Book /\ d \in Book /\ d.run = b.run
  BY DEF Good, Recorded
<1>2. CASE b.run = 0
  BY <1>1, <1>2 DEF HubResumed
<1>3. CASE b.run # 0
  <2>1. HubResumed(b, b.run) = r /\ HubResumed(d, b.run) = e
    BY <1>1, <1>3 DEF HubResumed
  <2>2. /\ r \in Book /\ r.turns = b.turns /\ r.run = b.run /\ r.stop = b.stop
        /\ r.pauses = {} /\ r.proposal = b.proposal
        /\ r.maxRun = b.maxRun /\ r.maxProposal = b.maxProposal
        /\ r.suspect = b.suspect
    BY <1>1 DEF Book
  <2>3. /\ e \in Book /\ e.turns = d.turns /\ e.run = d.run /\ e.stop = d.stop
        /\ e.pauses = {} /\ e.proposal = d.proposal
        /\ e.maxRun = d.maxRun /\ e.maxProposal = d.maxProposal
        /\ e.suspect = d.suspect
    BY <1>1 DEF Book
  <2> HIDE DEF r, e
  <2>4. /\ e.pauses = r.pauses \ {HubRestart} /\ e.proposal = r.proposal
        /\ e.maxRun = r.maxRun /\ e.maxProposal = r.maxProposal
        /\ r.suspect = FALSE /\ e.suspect = FALSE /\ e.stop = r.stop
    BY <2>2, <2>3 DEF Good, Recorded
  <2>5. Good(e, r, w)
    BY ONLY <2>2, <2>3, <2>4, FrameGood, Good(d, b, w), w \in SUBSET w
  <2> QED BY <2>1, <2>5
<1> QED BY <1>2, <1>3

LEMMA RunProposedGood ==
  ASSUME NEW d, NEW b, NEW w, Good(d, b, w), NEW p \in Nat
  PROVE  Good(RunProposed(d, p), RunProposed(b, p), w)
<1> DEFINE m == Larger(b.maxProposal, p)
           r == [b EXCEPT !.proposal = p, !.maxProposal = m]
           e == [d EXCEPT !.proposal = p, !.maxProposal = m]
<1>1. b \in Book /\ d \in Book /\ d.maxProposal = b.maxProposal
  BY DEF Good, Recorded
<1>2. m \in Nat
  BY <1>1 DEF Book, Larger
<1>3. RunProposed(b, p) = r /\ RunProposed(d, p) = e
  BY <1>1 DEF RunProposed, Book
<1> HIDE DEF m
<1>4. /\ r \in Book /\ r.turns = b.turns /\ r.run = b.run /\ r.stop = b.stop
      /\ r.pauses = b.pauses /\ r.proposal = p
      /\ r.maxRun = b.maxRun /\ r.maxProposal = m
      /\ r.suspect = b.suspect
  BY <1>1, <1>2 DEF Book
<1>5. /\ e \in Book /\ e.turns = d.turns /\ e.run = d.run /\ e.stop = d.stop
      /\ e.pauses = d.pauses /\ e.proposal = p
      /\ e.maxRun = d.maxRun /\ e.maxProposal = m
      /\ e.suspect = d.suspect
  BY <1>1, <1>2 DEF Book
<1> HIDE DEF r, e
<1>6. /\ e.pauses = r.pauses \ {HubRestart} /\ e.proposal = r.proposal
      /\ e.maxRun = r.maxRun /\ e.maxProposal = r.maxProposal
      /\ r.suspect = FALSE /\ e.suspect = FALSE /\ e.stop = r.stop
  BY <1>4, <1>5 DEF Good, Recorded
<1>7. Good(e, r, w)
  BY ONLY <1>4, <1>5, <1>6, FrameGood, Good(d, b, w), w \in SUBSET w
<1> QED BY <1>3, <1>7

LEMMA RunOpenedGood ==
  ASSUME NEW d, NEW b, NEW w, Good(d, b, w), NEW n \in Nat, b.run = 0
  PROVE  /\ w = {}
         /\ Good(RunOpened(d, n, b.proposal), RunOpened(b, n, b.proposal), w)
<1> DEFINE m == Larger(b.maxRun, n)
           r == [b EXCEPT !.maxRun = m, !.run = n, !.turns = NoTurns,
                          !.pauses = {}, !.stop = 0, !.proposal = 0]
           e == [d EXCEPT !.maxRun = m, !.run = n, !.turns = NoTurns,
                          !.pauses = {}, !.stop = 0, !.proposal = 0]
<1>1. /\ b \in Book /\ d \in Book /\ d.maxRun = b.maxRun
      /\ d.run = 0 /\ d.proposal = b.proposal
      /\ w = {}
  BY DEF Good, Recorded, WorkAccounted
<1>2. m \in Nat
  BY <1>1 DEF Book, Larger
<1>3. RunOpened(b, n, b.proposal) = r
  BY DEF RunOpened
<1>4. RunOpened(d, n, b.proposal) = e
  BY <1>1 DEF RunOpened
<1> HIDE DEF m
<1>5. r \in Book /\ e \in Book
  BY <1>1, <1>2, NoTurnsType DEF Book
<1>6. /\ r.turns = NoTurns /\ r.stop = 0 /\ r.pauses = {} /\ r.run = n
      /\ r.proposal = 0 /\ r.maxRun = m /\ r.maxProposal = b.maxProposal
      /\ r.suspect = b.suspect
  BY <1>1 DEF Book
<1>7. /\ e.turns = NoTurns /\ e.stop = 0 /\ e.pauses = {} /\ e.run = n
      /\ e.proposal = 0 /\ e.maxRun = m /\ e.maxProposal = d.maxProposal
      /\ e.suspect = d.suspect
  BY <1>1 DEF Book
<1> HIDE DEF r, e
<1>8. Good(e, r, {})
  <2>1. /\ e.maxProposal = r.maxProposal
        /\ r.suspect = FALSE /\ e.suspect = FALSE
    BY <1>6, <1>7 DEF Good, Recorded
  <2> QED BY ONLY <1>5, <1>6, <1>7, <2>1, NoTurnsGood
<1> QED BY <1>1, <1>3, <1>4, <1>8

LEMMA RunEndedGood ==
  ASSUME NEW d, NEW b, NEW w, Good(d, b, w),
         b.run # 0, b.stop = 0, LiveTurns(b) = {}
  PROVE  Good(RunEnded(d, b.run), RunEnded(b, b.run), w)
<1> DEFINE r == [b EXCEPT !.run = 0, !.turns = NoTurns, !.pauses = {}, !.stop = 0]
           e == [d EXCEPT !.run = 0, !.turns = NoTurns, !.pauses = {}, !.stop = 0]
<1>1. b \in Book /\ d \in Book /\ d.run = b.run
  BY DEF Good, Recorded
<1>2. w = {}
  BY DEF Good, WorkAccounted, LiveTurns, LiveStates, Steps
<1>3. RunEnded(b, b.run) = r /\ RunEnded(d, b.run) = e
  BY <1>1 DEF RunEnded, InRun
<1>4. r \in Book /\ e \in Book
  BY <1>1, NoTurnsType DEF Book
<1>5. /\ r.turns = NoTurns /\ r.stop = 0 /\ r.pauses = {} /\ r.run = 0
      /\ r.proposal = b.proposal /\ r.maxRun = b.maxRun
      /\ r.maxProposal = b.maxProposal /\ r.suspect = b.suspect
  BY <1>1 DEF Book
<1>6. /\ e.turns = NoTurns /\ e.stop = 0 /\ e.pauses = {} /\ e.run = 0
      /\ e.proposal = d.proposal /\ e.maxRun = d.maxRun
      /\ e.maxProposal = d.maxProposal /\ e.suspect = d.suspect
  BY <1>1 DEF Book
<1> HIDE DEF r, e
<1>7. Good(e, r, {})
  <2>1. /\ e.maxProposal = r.maxProposal /\ e.proposal = r.proposal
        /\ e.maxRun = r.maxRun
        /\ r.suspect = FALSE /\ e.suspect = FALSE
    BY <1>5, <1>6 DEF Good, Recorded
  <2> QED BY ONLY <1>4, <1>5, <1>6, <2>1, NoTurnsGood
<1> QED BY <1>2, <1>3, <1>7

(* The image alone is as good as the book, and so is what restore makes of *)
(* it.                                                                     *)
LEMMA ImageGood ==
  ASSUME NEW d, NEW b, NEW w, Good(d, b, w)
  PROVE  Good(d, d, w)
<1>1. /\ Recorded(d, b) /\ Consistent(b) /\ WorkAccounted(b, w)
      /\ InputsReceivedIn(b)
      /\ d \in Book /\ w \subseteq Steps /\ d.suspect = FALSE
  BY DEF Good
<1>2. /\ d.run = b.run /\ d.stop = b.stop
      /\ d.pauses = b.pauses \ {HubRestart}
      /\ \A k \in Steps : SameTurn(d.turns[k], b.turns[k])
  BY <1>1 DEF Recorded
<1>3. LiveTurns(d) = LiveTurns(b) /\ Existing(d) = Existing(b)
  BY <1>2 DEF SameTurn, AsRecorded, LiveTurns, LiveStates, Existing
<1>4. \A k \in Steps :
        /\ d.turns[k].state # "submitted" => d.turns[k].output = Nothing
        /\ d.turns[k].state \in {"none", "offered", "leased", "broken"} =>
             d.turns[k].nonce = 0
        /\ d.turns[k].state = "none" => d.turns[k].inputs = {}
        /\ d.turns[k].state # "none" => d.turns[k].client \in Clients
  BY <1>1, <1>2 DEF Consistent, SameTurn, AsRecorded
<1>5. d.stop # 0 => d.stop \in Steps /\ d.turns[d.stop].state = "recalled"
  BY <1>1, <1>2 DEF Consistent, SameTurn, AsRecorded, Book
<1>6. Consistent(d)
  BY <1>1, <1>2, <1>3, <1>4, <1>5 DEF Consistent
<1>7. WorkAccounted(d, w)
  BY <1>1, <1>2 DEF WorkAccounted, SameTurn, AsRecorded
<1>8. InputsReceivedIn(d)
  <2>1. \A k \in Steps : b.turns[k].inputs \subseteq Steps
    BY DEF Good, Book, Turn
  <2> QED BY <1>1, <1>2, <2>1 DEF InputsReceivedIn, SameTurn, AsRecorded
<1>9. Recorded(d, d)
  BY <1>2 DEF Recorded, SameTurn, AsRecorded
<1> QED BY <1>1, <1>6, <1>7, <1>8, <1>9 DEF Good

LEMMA RestoreGood ==
  ASSUME NEW d, NEW b, NEW w, Good(d, b, w), NEW p \in BOOLEAN
  PROVE  Good(d, Restore(d, p), w)
<1> DEFINE m  == [d EXCEPT !.pauses = d.pauses \cup {HubRestart}]
           ts == [k \in Steps |->
                    IF d.turns[k].state = "offered" /\ IsLiveTurn(d, k) /\ ~p
                    THEN [d.turns[k] EXCEPT !.state = "broken"]
                    ELSE d.turns[k]]
           r  == [m EXCEPT !.turns = ts]
<1>1. Good(d, d, w) /\ d \in Book
  BY ImageGood DEF Good
<1>2. CASE d.run = 0
  BY <1>1, <1>2 DEF Restore
<1>3. CASE d.run # 0
  <2>1. Restore(d, p) = r
    BY <1>1, <1>3 DEF Restore, Book
  <2>2. /\ m \in Book /\ m.turns = d.turns /\ m.run = d.run /\ m.stop = d.stop
        /\ m.pauses = d.pauses \cup {HubRestart} /\ m.proposal = d.proposal
        /\ m.maxRun = d.maxRun /\ m.maxProposal = d.maxProposal
        /\ m.suspect = d.suspect
    BY <1>1 DEF Book
  <2>3. d.pauses = m.pauses \ {HubRestart} /\ d.suspect = FALSE
    BY <1>1, <2>2 DEF Good, Recorded
  <2> HIDE DEF m
  <2>4. Good(d, m, w)
    BY ONLY <1>1, <2>2, <2>3, FrameGood, w \in SUBSET w
  <2>5. ts \in [Steps -> Turn]
    <3> SUFFICES ASSUME NEW k \in Steps PROVE ts[k] \in Turn
      OBVIOUS
    <3>1. d.turns[k] \in Turn
      BY <1>1 DEF Book
    <3> QED BY <3>1 DEF Turn, TurnStates, LiveStates
  <2>6. /\ r \in Book /\ r.turns = ts /\ SameFrame(r, m)
        /\ r.pauses = m.pauses /\ r.stop = m.stop
    BY <2>2, <2>5 DEF Book, SameFrame
  <2>7. CASE \E k \in Steps : d.turns[k].state = "offered" /\ IsLiveTurn(d, k) /\ ~p
    <3> PICK k \in Steps : d.turns[k].state = "offered" /\ IsLiveTurn(d, k) /\ ~p
      BY <2>7
    <3>1. \A j \in Steps : d.turns[j].state = "offered" => j = k
      BY <1>1, LiveFacts DEF LiveStates
    <3>2. TurnReplaced(r, m, k, [m.turns[k] EXCEPT !.state = "broken"])
      BY <2>2, <2>6, <3>1 DEF TurnReplaced
    <3>3. m.turns[k].state = "offered"
      BY <2>2
    <3> HIDE DEF r, ts
    <3>4. Good(d, r, w)
      BY <2>4, <2>6, <3>2, <3>3, MemoryOnlyGood
    <3> QED BY <2>1, <3>4
  <2>8. CASE ~ \E k \in Steps : d.turns[k].state = "offered" /\ IsLiveTurn(d, k) /\ ~p
    <3>1. ts = m.turns
      BY <1>1, <2>2, <2>8 DEF Book
    <3>2. r = m
      BY <2>2, <3>1 DEF Book
    <3> QED BY <2>1, <2>4, <3>2
  <2> QED BY <2>7, <2>8
<1> QED BY <1>2, <1>3

-----------------------------------------------------------------------------
(* Each action keeps the invariant.                                        *)

LEMMA InitInvariant == Init => IInv
<1> SUFFICES ASSUME Init PROVE IInv
  OBVIOUS
<1>1. EmptyBook \in Book
  BY NoTurnsType DEF EmptyBook, Book
<1>2. Good(EmptyBook, EmptyBook, {})
  BY <1>1, NoTurnsGood DEF EmptyBook
<1>3. TypeOK
  BY <1>1 DEF Init, TypeOK, Lease, NoLease
<1> QED BY <1>2, <1>3 DEF Init, IInv

(* The types of the books and of working come with Good.                   *)
LEMMA GoodIsInvariant ==
  ASSUME Good(disk', book', working'), folder' \in Nat, packet' \in BOOLEAN,
         lease' \in Lease, minted' \in Nat, paused' \in BOOLEAN,
         ready' \subseteq Clients
  PROVE  IInv'
BY DEF IInv, TypeOK, Good

LEMMA LapsedLeaseType == ASSUME IInv PROVE LapsedLease \in Lease /\ NoLease \in Lease
BY DEF IInv, TypeOK, LapsedLease, Lease, NoLease

LEMMA FetchClaimsStep ==
  ASSUME IInv, NEW c \in Clients,
         FetchClaims(c) \/ \E offer \in Nat : ClaimOffer(c, offer)
  PROVE  IInv'
<1> DEFINE b == Lapsed(book)
<1>1. PICK k \in Steps :
        /\ MayTake(b, c, k)
        /\ b.turns[k].state \in {"offered", "leased"}
        /\ Claim(b, c, k)
  BY DEF FetchClaims, ClaimOffer
<1>2. Good(disk, b, working) /\ b.run = book.run
  BY LapsedGood DEF IInv
<1>3. b.turns[k].client = c
  BY <1>1 DEF MayTake, MayAsk
<1> HIDE DEF b
<1>4. minted + 1 \in Nat /\ minted + 1 # 0
  BY DEF IInv, TypeOK
<1>5. Good(disk', book', working')
  BY <1>1, <1>2, <1>3, <1>4, ClaimedGood DEF Claim
<1> QED BY <1>1, <1>4, <1>5, GoodIsInvariant, LapsedLeaseType DEF Claim, IInv, TypeOK

LEMMA FetchLeasesStep ==
  ASSUME IInv, NEW c \in Clients, FetchLeases(c)
  PROVE  IInv'
<1> DEFINE b == Lapsed(book)
<1>1. PICK k \in Steps : b.turns[k].state = "offered" /\ book' = TurnLeased(b, b.run, k)
  BY DEF FetchLeases
<1>2. Good(disk, b, working)
  BY LapsedGood DEF IInv
<1> HIDE DEF b
<1>3. Good(disk', book', working')
  BY <1>1, <1>2, LeasedGood DEF FetchLeases
<1>4. lease' \in Lease /\ minted' \in Nat
  BY DEF FetchLeases, IInv, TypeOK, Lease
<1> QED BY <1>3, <1>4, GoodIsInvariant DEF FetchLeases, IInv, TypeOK

LEMMA RefusedCallLapsesStep ==
  ASSUME IInv, RefusedCallLapses
  PROVE  IInv'
<1>1. Good(disk', book', working')
  BY LapsedGood DEF RefusedCallLapses, IInv
<1> QED
  BY <1>1, GoodIsInvariant, LapsedLeaseType DEF RefusedCallLapses, IInv, TypeOK

LEMMA PacketChangedFoundStep ==
  ASSUME IInv, NEW c \in Clients, PacketChangedFound(c)
  PROVE  IInv'
<1> DEFINE b == Lapsed(book)
<1>1. PICK k \in Steps :
        /\ MayAsk(b, c, k)
        /\ book' = [b EXCEPT !.turns[k] = [@ EXCEPT !.state = "broken"]]
  BY DEF PacketChangedFound
<1>2. Good(disk, b, working) /\ b.turns[k].state \in {"offered", "leased"}
  BY <1>1, LapsedGood DEF IInv, MayAsk
<1> HIDE DEF b
<1>3. Good(disk', book', working')
  BY <1>1, <1>2, BrokenGood DEF PacketChangedFound
<1> QED
  BY <1>3, GoodIsInvariant, LapsedLeaseType DEF PacketChangedFound, IInv, TypeOK

LEMMA SubmitStep ==
  ASSUME IInv, NEW c \in Clients, NEW k \in Steps, NEW nonce,
         NEW status \in Statuses, NEW output \in Outputs,
         Submit(c, k, nonce, status, output)
  PROVE  IInv'
<1>1. Good(disk', book', working')
  BY SubmittedGood DEF Submit, IInv
<1> QED BY <1>1, GoodIsInvariant DEF Submit, IInv, TypeOK

LEMMA SubmitLateStep ==
  ASSUME IInv, NEW c, NEW k, NEW nonce, SubmitLate(c, k, nonce)
  PROVE  IInv'
<1>1. Good(disk', book', working')
  BY LessWork DEF SubmitLate, IInv
<1> QED BY <1>1, GoodIsInvariant DEF SubmitLate, IInv, TypeOK

LEMMA ProposeStep ==
  ASSUME IInv, Propose
  PROVE  IInv'
<1>1. book.maxProposal + 1 \in Nat
  BY DEF IInv, TypeOK, Book
<1>2. Good(disk', book', working')
  BY <1>1, RunProposedGood DEF Propose, IInv
<1> QED BY <1>2, GoodIsInvariant DEF Propose, IInv, TypeOK

LEMMA NewRunType == ASSUME IInv PROVE NewRun \in Nat
BY DEF IInv, TypeOK, Book, NewRun, Larger

LEMMA OpenRunStep ==
  ASSUME IInv, OpenRun \/ OpenRunFails
  PROVE  IInv'
<1>1. NewRun \in Nat
  BY NewRunType
<1>2. Good(disk', book', working')
  BY <1>1, RunOpenedGood DEF OpenRun, OpenRunFails, IInv
<1> QED
  BY <1>1, <1>2, GoodIsInvariant DEF OpenRun, OpenRunFails, IInv, TypeOK

LEMMA NextTurnStep ==
  ASSUME IInv, NEW c \in Clients, NEW inputs, NextTurn(c, inputs)
  PROVE  IInv'
<1>1. PICK k \in Steps :
        /\ IsNextStep(book, k)
        /\ book' = TurnOffered(book, book.run, k, c, inputs)
        /\ disk' = TurnOffered(disk, book.run, k, c, inputs)
  BY DEF NextTurn
<1>2. Good(disk, book, working) /\ inputs \subseteq Submitted(book)
  BY DEF NextTurn, MayPassOn, IInv, Good
<1>3. Good(disk', book', working')
  BY <1>1, <1>2, OfferedGood DEF NextTurn
<1> QED
  BY <1>3, GoodIsInvariant, LapsedLeaseType DEF NextTurn, IInv, TypeOK

LEMMA RecallStep ==
  ASSUME IInv, NEW k \in Steps, Recall(k)
  PROVE  IInv'
<1>1. Good(disk', book', working')
  BY RecalledGood DEF Recall, IInv
<1> QED BY <1>1, GoodIsInvariant, LapsedLeaseType DEF Recall, IInv, TypeOK

LEMMA StoppedStep ==
  ASSUME IInv, Stopped
  PROVE  IInv'
<1>1. Good(disk', book', working')
  BY StopConfirmedGood DEF Stopped, IInv
<1> QED BY <1>1, GoodIsInvariant DEF Stopped, IInv, TypeOK

LEMMA EndRunStep ==
  ASSUME IInv, EndRun
  PROVE  IInv'
<1>1. Good(disk', book', working')
  BY RunEndedGood DEF EndRun, IInv
<1> QED BY <1>1, GoodIsInvariant DEF EndRun, IInv, TypeOK

LEMMA ResumeStep ==
  ASSUME IInv, Resume
  PROVE  IInv'
<1>1. Good(disk', book', working')
  BY HubResumedGood DEF Resume, IInv
<1> QED BY <1>1, GoodIsInvariant DEF Resume, IInv, TypeOK

LEMMA HubRestartsStep ==
  ASSUME IInv, HubRestarts
  PROVE  IInv'
<1>1. Good(disk', book', working')
  BY RestoreGood DEF HubRestarts, IInv, TypeOK
<1> QED
  BY <1>1, GoodIsInvariant, LapsedLeaseType DEF HubRestarts, IInv, TypeOK

(* The steps that leave both books and the apps alone.                     *)
LEMMA OtherSteps ==
  ASSUME IInv,
         \/ Pause \/ LeaseExpires \/ PacketFileTouched
         \/ \E c \in Clients : Arrives(c) \/ FallsSilent(c)
         \/ UNCHANGED vars
  PROVE  IInv'
<1>1. UNCHANGED <<book, disk, working, folder, minted>>
  BY DEF Pause, LeaseExpires, PacketFileTouched, Arrives, FallsSilent, vars
<1>2. /\ lease' \in Lease /\ packet' \in BOOLEAN /\ paused' \in BOOLEAN
      /\ ready' \subseteq Clients
  BY DEF Pause, LeaseExpires, PacketFileTouched, Arrives, FallsSilent, vars,
         IInv, TypeOK, Lease
<1> QED BY <1>1, <1>2, GoodIsInvariant DEF IInv, TypeOK

LEMMA StepInvariant == IInv /\ [Next]_vars => IInv'
<1> SUFFICES ASSUME IInv, [Next]_vars PROVE IInv'
  OBVIOUS
<1>1. CASE \E c \in Clients : AppCall(c)
  <2> PICK c \in Clients : AppCall(c)
    BY <1>1
  <2>1. minted \in Nat
    BY DEF IInv, TypeOK
  <2>2. CASE FetchClaims(c) \/ \E offer \in 1 .. minted : ClaimOffer(c, offer)
    BY <2>1, <2>2, FetchClaimsStep
  <2>3. CASE FetchLeases(c)
    BY <2>3, FetchLeasesStep
  <2>4. CASE PacketChangedFound(c)
    BY <2>4, PacketChangedFoundStep
  <2>5. CASE \E k \in Steps, nonce \in 1 .. minted :
               \/ \E status \in Statuses, output \in Outputs :
                    Submit(c, k, nonce, status, output)
               \/ SubmitLate(c, k, nonce)
    BY <2>5, SubmitStep, SubmitLateStep
  <2> QED BY <2>2, <2>3, <2>4, <2>5 DEF AppCall
<1>2. CASE RefusedCallLapses
  BY <1>2, RefusedCallLapsesStep
<1>3. CASE Propose
  BY <1>3, ProposeStep
<1>4. CASE OpenRun \/ OpenRunFails
  BY <1>4, OpenRunStep
<1>5. CASE \E c \in Clients, inputs \in SUBSET Steps : NextTurn(c, inputs)
  BY <1>5, NextTurnStep
<1>6. CASE \E k \in Steps : Recall(k)
  BY <1>6, RecallStep
<1>7. CASE Stopped
  BY <1>7, StoppedStep
<1>8. CASE EndRun
  BY <1>8, EndRunStep
<1>9. CASE Resume
  BY <1>9, ResumeStep
<1>10. CASE HubRestarts
  BY <1>10, HubRestartsStep
<1>11. CASE \/ Pause \/ LeaseExpires \/ PacketFileTouched
            \/ \E c \in Clients : Arrives(c) \/ FallsSilent(c)
            \/ UNCHANGED vars
  BY <1>11, OtherSteps
<1> QED
  BY <1>1, <1>2, <1>3, <1>4, <1>5, <1>6, <1>7, <1>8, <1>9, <1>10, <1>11
  DEF Next, Command, Surroundings

LEMMA AlwaysIInv == Spec => []IInv
<1>1. Init => IInv
  BY InitInvariant
<1>2. IInv /\ [Next]_vars => IInv'
  BY StepInvariant
<1> QED BY <1>1, <1>2, PTL DEF Spec

-----------------------------------------------------------------------------
(* The safety invariants.                                                  *)

(* Every part of the state of the hub keeps its type.                      *)
THEOREM TypesKept == Spec => []TypeOK
<1>1. IInv => TypeOK
  BY DEF IInv
<1> QED BY <1>1, AlwaysIInv, PTL

(* Two apps never hold a packet they may still be working on, and while    *)
(* one does nothing else is offered and its run stays open: whatever is    *)
(* recalled, answered late or restarted in between.                        *)
THEOREM OneAppAlwaysAtWork == Spec => []OneAppAtWork
<1>1. IInv => OneAppAtWork
  <2> SUFFICES ASSUME IInv, NEW k \in working
               PROVE  working \cup LiveTurns(book) = {k} /\ book.run # 0
    BY DEF OneAppAtWork
  <2>1. /\ working \subseteq Steps /\ Consistent(book)
        /\ WorkAccounted(book, working)
    BY DEF IInv, Good
  <2>2. book.run # 0 /\ (book.turns[k].state = "claimed" \/ book.stop = k)
    BY <2>1 DEF WorkAccounted
  <2>3. CASE book.turns[k].state = "claimed"
    <3>1. k \in LiveTurns(book) /\ \A j \in LiveTurns(book) : j = k
      BY <2>1, <2>3 DEF Consistent, LiveTurns, LiveStates
    <3>2. book.stop = 0
      BY <2>1, <3>1 DEF Consistent
    <3>3. \A j \in working : j = k
      BY <2>1, <3>1, <3>2 DEF WorkAccounted, LiveTurns, LiveStates, Steps
    <3> QED BY <2>2, <3>1, <3>3
  <2>4. CASE book.stop = k
    <3>1. LiveTurns(book) = {}
      BY <2>1, <2>4 DEF Consistent, Steps
    <3>2. \A j \in working : j = k
      BY <2>1, <2>4, <3>1 DEF WorkAccounted, LiveTurns, LiveStates
    <3> QED BY <2>2, <3>1, <3>2
  <2> QED BY <2>2, <2>3, <2>4
<1> QED BY <1>1, AlwaysIInv, PTL

(* Folding the record file at any moment yields the book the hub works on, *)
(* but for what is in memory only.                                         *)
THEOREM ReplayAlwaysAgrees == Spec => []ReplayAgrees
<1>1. IInv => ReplayAgrees
  BY DEF IInv, Good, ReplayAgrees
<1> QED BY <1>1, AlwaysIInv, PTL

(* The checks of the handlers are strong enough for TurnBook.apply: it     *)
(* skips none of the records they lead to, live or at a replay.            *)
THEOREM NothingEverSkipped == Spec => []NothingSkipped
<1>1. IInv => NothingSkipped
  BY DEF IInv, Good, NothingSkipped
<1> QED BY <1>1, AlwaysIInv, PTL

(* What a packet passes on was received from an earlier claimed turn.      *)
THEOREM InputsAlwaysReceived == Spec => []InputsReceived
<1>1. IInv => InputsReceived
  BY DEF IInv, Good, InputsReceivedIn, InputsReceived
<1> QED BY <1>1, AlwaysIInv, PTL

-----------------------------------------------------------------------------
(* What a step may do: the action properties of TurnBook, and that it      *)
(* implements Baton.                                                       *)
(*                                                                         *)
(* Each action changes the book in one of eight ways, whatever it does to  *)
(* a lease first and whether the book is the live one or the one replayed  *)
(* (BookStep).  The properties follow from these ways alone.               *)

-----------------------------------------------------------------------------
(* The ways a book b becomes r.                                            *)

(* A turn that is offered may be leased, found broken, and offered again.  *)
Soft == {"offered", "leased", "broken"}

Kept(t, u) ==
  /\ u.client = t.client
  /\ u.inputs = t.inputs
  /\ u.output = t.output
  /\ u.nonce = t.nonce

SameButSoft(t, u) ==
  /\ u.state = t.state \/ {t.state, u.state} \subseteq Soft
  /\ u.status = t.status
  /\ Kept(t, u)

SameRun(b, r)      == r.run = b.run /\ r.maxRun = b.maxRun
OthersSame(b, r, k) == \A j \in Steps : j # k => SameButSoft(b.turns[j], r.turns[j])
AllSame(b, r)      == \A j \in Steps : SameButSoft(b.turns[j], r.turns[j])

Quiet(b, r) == SameRun(b, r) /\ r.stop = b.stop /\ AllSame(b, r)

Stops(b, r) == SameRun(b, r) /\ b.stop # 0 /\ r.stop = 0 /\ AllSame(b, r)

Offers(b, r, k) ==
  /\ SameRun(b, r) /\ OthersSame(b, r, k) /\ r.stop = b.stop
  /\ b.run # 0 /\ b.stop = 0 /\ LiveTurns(b) = {}
  /\ b.turns[k].state = "none"
  /\ r.turns[k].state = "offered"
  /\ r.turns[k].client \in Clients
  /\ r.turns[k].output = Nothing

Claims(b, r, k) ==
  /\ SameRun(b, r) /\ OthersSame(b, r, k) /\ r.stop = b.stop
  /\ b.turns[k].state \in Soft
  /\ r.turns[k].state = "claimed"
  /\ r.turns[k].client = b.turns[k].client
  /\ r.turns[k].inputs = b.turns[k].inputs
  /\ r.turns[k].output = b.turns[k].output

Submits(b, r, k) ==
  /\ SameRun(b, r) /\ OthersSame(b, r, k) /\ r.stop = b.stop
  /\ b.turns[k].state = "claimed"
  /\ r.turns[k].state = "submitted"
  /\ r.turns[k].client = b.turns[k].client
  /\ r.turns[k].inputs = b.turns[k].inputs
  /\ r.turns[k].nonce = b.turns[k].nonce
  /\ r.turns[k].output \in Outputs

Recalls(b, r, k) ==
  /\ SameRun(b, r) /\ OthersSame(b, r, k)
  /\ b.turns[k].state \in LiveStates
  /\ r.stop = IF b.turns[k].state = "claimed" THEN k ELSE b.stop
  /\ r.turns[k].state = "recalled"
  /\ Kept(b.turns[k], r.turns[k])

Opens(b, r) ==
  /\ b.run = 0 /\ r.run > b.maxRun /\ r.maxRun = r.run
  /\ r.turns = NoTurns /\ r.stop = 0

Ends(b, r) ==
  /\ b.run # 0 /\ b.stop = 0 /\ LiveTurns(b) = {}
  /\ r.run = 0 /\ r.maxRun = b.maxRun
  /\ r.turns = NoTurns /\ r.stop = 0

BookStep(b, r) ==
  \/ Quiet(b, r) \/ Stops(b, r) \/ Ends(b, r)
  \/ Opens(b, r) /\ r.run > folder
  \/ ~Held /\ \E k \in Steps : Offers(b, r, k)
  \/ \E k \in Steps : Claims(b, r, k) \/ Submits(b, r, k) \/ Recalls(b, r, k)

-----------------------------------------------------------------------------
(* What the events do.                                                     *)

LEMMA SameIsTransitive ==
  ASSUME NEW t, NEW u, NEW v, SameButSoft(t, u), SameButSoft(u, v)
  PROVE  SameButSoft(t, v)
  BY DEF SameButSoft, Kept, Soft

LEMMA ReplacedOthersSame ==
  ASSUME NEW b, NEW r, NEW k, NEW t, TurnReplaced(r, b, k, t)
  PROVE  OthersSame(b, r, k) /\ r.turns[k] = t
  BY DEF TurnReplaced, OthersSame, SameButSoft, Kept

LEMMA LapsedQuiet ==
  ASSUME NEW b \in Book
  PROVE  Quiet(b, Lapsed(b)) /\ Lapsed(b).pauses = b.pauses
<1> DEFINE ts == [k \in Steps |->
                    IF b.turns[k].state = "leased"
                    THEN [b.turns[k] EXCEPT !.state = "offered"]
                    ELSE b.turns[k]]
           r == [b EXCEPT !.turns = ts]
<1>1. CASE ~lease.over
  BY <1>1 DEF Lapsed, Quiet, SameRun, AllSame, SameButSoft, Kept
<1>2. CASE lease.over
  <2>1. Lapsed(b) = r
    BY <1>2 DEF Lapsed
  <2>2. /\ r.run = b.run /\ r.maxRun = b.maxRun /\ r.stop = b.stop
        /\ r.pauses = b.pauses /\ r.turns = ts
    BY DEF Book
  <2>3. ASSUME NEW j \in Steps
        PROVE  SameButSoft(b.turns[j], ts[j])
    <3>1. b.turns[j] \in Turn
      BY DEF Book
    <3> QED BY <3>1 DEF Turn, SameButSoft, Kept, Soft
  <2> QED BY <2>1, <2>2, <2>3 DEF Quiet, SameRun, AllSame
<1> QED BY <1>1, <1>2

(* What a lapsed lease changes does not show beside what follows.          *)
LEMMA AfterQuiet ==
  ASSUME NEW b, NEW c, NEW r, NEW k \in Steps, Quiet(b, c)
  PROVE  /\ Quiet(c, r) => Quiet(b, r)
         /\ Claims(c, r, k) => Claims(b, r, k)
<1>1. ASSUME Quiet(c, r) PROVE Quiet(b, r)
  BY <1>1, SameIsTransitive DEF Quiet, SameRun, AllSame
<1>2. ASSUME Claims(c, r, k) PROVE Claims(b, r, k)
  <2>1. OthersSame(b, r, k)
    BY <1>2, SameIsTransitive DEF Claims, Quiet, OthersSame, AllSame
  <2>2. SameButSoft(b.turns[k], c.turns[k])
    BY DEF Quiet, AllSame
  <2> QED
    BY <1>2, <2>1, <2>2 DEF Claims, Quiet, SameRun, SameButSoft, Kept, Soft
<1> QED BY <1>1, <1>2

LEMMA OfferedOffers ==
  ASSUME NEW b \in Book, NEW k \in Steps, NEW c \in Clients, NEW ins \in SUBSET Steps,
         b.run # 0, b.stop = 0, LiveTurns(b) = {}, IsNextStep(b, k)
  PROVE  Offers(b, TurnOffered(b, b.run, k, c, ins), k)
<1> DEFINE t == [NoTurn EXCEPT !.state = "offered", !.client = c, !.inputs = ins]
           r == [b EXCEPT !.turns[k] = t]
<1>1. t \in Turn /\ t.state = "offered" /\ t.client = c /\ t.output = Nothing
  BY DEF NoTurn, Turn, TurnStates, LiveStates
<1>2. k \notin Existing(b)
  BY DEF IsNextStep, Existing, Steps
<1>3. TurnOffered(b, b.run, k, c, ins) = r
  BY <1>2 DEF TurnOffered, InRun
<1>4. TurnReplaced(r, b, k, t) /\ SameFrame(r, b) /\ r.stop = b.stop
  BY ONLY <1>1, ReplaceTurn, b \in Book, k \in Steps
<1> HIDE DEF t, r
<1> QED
  BY <1>1, <1>2, <1>3, <1>4, ReplacedOthersSame DEF Offers, SameRun, SameFrame, Existing

LEMMA ClaimedClaims ==
  ASSUME NEW b \in Book, NEW k \in Steps, NEW n \in Nat, b.run # 0,
         b.turns[k].state \in {"offered", "leased"}
  PROVE  Claims(b, TurnClaimed(b, b.run, k, b.turns[k].client, n), k)
<1> DEFINE t == [b.turns[k] EXCEPT !.state = "claimed", !.nonce = n]
           r == [b EXCEPT !.turns[k] = t]
<1>0. b.turns[k] \in Turn
  BY DEF Book
<1>1. /\ t \in Turn /\ t.state = "claimed" /\ t.client = b.turns[k].client
      /\ t.output = b.turns[k].output /\ t.inputs = b.turns[k].inputs
  BY <1>0 DEF Turn, TurnStates, LiveStates
<1>3. TurnClaimed(b, b.run, k, b.turns[k].client, n) = r
  BY DEF TurnClaimed, InRun
<1>4. TurnReplaced(r, b, k, t) /\ SameFrame(r, b) /\ r.stop = b.stop
  BY ONLY <1>1, ReplaceTurn, b \in Book, k \in Steps
<1> HIDE DEF t, r
<1> QED
  BY <1>1, <1>3, <1>4, ReplacedOthersSame DEF Claims, SameRun, SameFrame, Soft

LEMMA SoftQuiet ==
  ASSUME NEW b \in Book, NEW k \in Steps, b.turns[k].state \in Soft, NEW s \in Soft
  PROVE  Quiet(b, [b EXCEPT !.turns[k] = [b.turns[k] EXCEPT !.state = s]])
<1> DEFINE t == [b.turns[k] EXCEPT !.state = s]
           r == [b EXCEPT !.turns[k] = t]
<1>0. b.turns[k] \in Turn
  BY DEF Book
<1>1. t \in Turn /\ SameButSoft(b.turns[k], t)
  BY <1>0 DEF Turn, TurnStates, LiveStates, Soft, SameButSoft, Kept
<1>2. TurnReplaced(r, b, k, t) /\ SameFrame(r, b) /\ r.stop = b.stop
  BY ONLY <1>1, ReplaceTurn, b \in Book, k \in Steps
<1>3. r = [b EXCEPT !.turns[k] = [b.turns[k] EXCEPT !.state = s]]
  OBVIOUS
<1> HIDE DEF t, r
<1>4. AllSame(b, r)
  BY <1>1, <1>2, ReplacedOthersSame DEF AllSame, OthersSame
<1>5. Quiet(b, r)
  BY <1>2, <1>4 DEF Quiet, SameRun, SameFrame
<1> QED
  BY <1>3, <1>5

LEMMA SubmittedSubmits ==
  ASSUME NEW b \in Book, NEW k \in Steps, b.run # 0, b.turns[k].state = "claimed",
         NEW status \in Statuses, NEW output \in Outputs
  PROVE  /\ Submits(b, TurnSubmitted(b, b.run, k, status, output), k)
         /\ b.pauses \subseteq TurnSubmitted(b, b.run, k, status, output).pauses
<1> DEFINE t == [b.turns[k] EXCEPT !.state = "submitted", !.status = status, !.output = output]
           ts == [b.turns EXCEPT ![k] = t]
           ps == IF status = "blocked" THEN b.pauses \cup {b.turns[k].client} ELSE b.pauses
           r == [b EXCEPT !.turns = ts, !.pauses = ps]
<1>0. b.turns[k] \in Turn /\ b.turns \in [Steps -> Turn]
  BY DEF Book
<1>1. /\ t.state = "submitted" /\ t.client = b.turns[k].client
      /\ t.output = output /\ t.inputs = b.turns[k].inputs /\ t.nonce = b.turns[k].nonce
  BY <1>0 DEF Turn
<1>3. TurnSubmitted(b, b.run, k, status, output) = r
  BY DEF TurnSubmitted, InRun
<1>4. /\ r.run = b.run /\ r.maxRun = b.maxRun /\ r.stop = b.stop
      /\ r.turns = ts /\ r.pauses = ps
  BY DEF Book
<1>5. ts[k] = t /\ \A j \in Steps : j # k => ts[j] = b.turns[j]
  BY <1>0
<1> HIDE DEF t, r, ts
<1> QED
  BY <1>1, <1>3, <1>4, <1>5 DEF Submits, SameRun, OthersSame, SameButSoft, Kept

LEMMA RecalledRecalls ==
  ASSUME NEW b \in Book, NEW k \in Steps, b.run # 0, b.turns[k].state \in LiveStates
  PROVE  LET r == TurnRecalled(b, b.run, k, b.turns[k].state = "claimed")
         IN  Recalls(b, r, k) /\ r.pauses = b.pauses
<1> DEFINE t == [b.turns[k] EXCEPT !.state = "recalled", !.prior = b.turns[k].state]
           ts == [b.turns EXCEPT ![k] = t]
           s == IF b.turns[k].state = "claimed" THEN k ELSE b.stop
           r == [b EXCEPT !.turns = ts, !.stop = s]
<1>0. b.turns[k] \in Turn /\ b.turns \in [Steps -> Turn]
  BY DEF Book
<1>1. t.state = "recalled" /\ Kept(b.turns[k], t)
  BY <1>0 DEF Turn, Kept
<1>3. TurnRecalled(b, b.run, k, b.turns[k].state = "claimed") = r
  BY DEF TurnRecalled, InRun
<1>4. /\ r.run = b.run /\ r.maxRun = b.maxRun /\ r.stop = s
      /\ r.turns = ts /\ r.pauses = b.pauses
  BY DEF Book
<1>5. ts[k] = t /\ \A j \in Steps : j # k => ts[j] = b.turns[j]
  BY <1>0
<1> HIDE DEF t, r, ts
<1> QED
  BY <1>1, <1>3, <1>4, <1>5 DEF Recalls, SameRun, OthersSame, SameButSoft, Kept

(* The events that leave the turns alone.                                  *)
LEMMA FrameQuiet ==
  ASSUME NEW b, NEW r, r.run = b.run, r.maxRun = b.maxRun, r.turns = b.turns
  PROVE  /\ r.stop = b.stop => Quiet(b, r)
         /\ b.stop # 0 /\ r.stop = 0 => Stops(b, r)
  BY DEF Quiet, Stops, SameRun, AllSame, SameButSoft, Kept

(* The book replayed differs from the one lost by what is recorded nowhere.*)
LEMMA RestoreQuiet ==
  ASSUME NEW d, NEW b, NEW w, Good(d, b, w), NEW intact
  PROVE  /\ Quiet(b, Restore(d, intact))
         /\ b.run # 0 => Restore(d, intact).pauses # {}
<1>1. d \in Book /\ b \in Book /\ d.run = b.run /\ d.maxRun = b.maxRun /\ d.stop = b.stop
  BY DEF Good, Recorded
<1>2. ASSUME NEW j \in Steps
      PROVE  SameButSoft(b.turns[j], d.turns[j])
  <2>1. SameTurn(d.turns[j], b.turns[j])
    BY DEF Good, Recorded
  <2> QED BY <2>1 DEF SameTurn, AsRecorded, SameButSoft, Kept, Soft
<1>3. CASE d.run = 0
  BY <1>1, <1>2, <1>3 DEF Restore, Quiet, SameRun, AllSame
<1>4. CASE d.run # 0
  <2> DEFINE ts == [k \in Steps |->
                     IF d.turns[k].state = "offered" /\ IsLiveTurn(d, k) /\ ~intact
                     THEN [d.turns[k] EXCEPT !.state = "broken"]
                     ELSE d.turns[k]]
             r == [d EXCEPT !.pauses = d.pauses \cup {HubRestart}, !.turns = ts]
  <2>1. Restore(d, intact) = r
    BY <1>4 DEF Restore
  <2>2. /\ r.run = d.run /\ r.maxRun = d.maxRun /\ r.stop = d.stop /\ r.turns = ts
        /\ r.pauses = d.pauses \cup {HubRestart}
    BY <1>1 DEF Book
  <2>3. ASSUME NEW j \in Steps
        PROVE  SameButSoft(b.turns[j], ts[j])
    <3>1. d.turns[j] \in Turn
      BY <1>1 DEF Book
    <3>2. SameButSoft(d.turns[j], ts[j])
      BY <3>1 DEF Turn, SameButSoft, Kept, Soft
    <3> QED BY <1>2, <3>2, SameIsTransitive
  <2> HIDE DEF ts, r
  <2> QED BY <1>1, <2>1, <2>2, <2>3 DEF Quiet, SameRun, AllSame
<1> QED BY <1>3, <1>4

-----------------------------------------------------------------------------
(* What each action does, and that none but resume and end lifts a hold.   *)

HoldKept ==
  Held => (Held' \/ Resume \/ EndRun) /\ working' \subseteq working

Kind == BookStep(book, book') /\ HoldKept

LEMMA LapsedFacts ==
  ASSUME IInv
  PROVE  LET b == Lapsed(book)
         IN  /\ b \in Book /\ b.run = book.run /\ b.pauses = book.pauses
             /\ Quiet(book, b)
<1>1. Good(disk, book, working) /\ book \in Book
  BY DEF IInv, Good
<1> QED
  BY <1>1, LapsedQuiet, LapsedGood DEF Good

LEMMA ClaimsKind ==
  ASSUME IInv, NEW c \in Clients,
         FetchClaims(c) \/ \E offer \in Nat : ClaimOffer(c, offer)
  PROVE  Kind
<1> DEFINE b == Lapsed(book)
<1>1. b \in Book /\ b.run = book.run /\ b.pauses = book.pauses /\ Quiet(book, b)
  BY LapsedFacts
<1> HIDE DEF b
<1>2. PICK k \in Steps : MayTake(b, c, k) /\ b.turns[k].state \in {"offered", "leased"}
                         /\ Claim(b, c, k)
  BY DEF FetchClaims, ClaimOffer, b
<1>3. b.run # 0 /\ b.turns[k].client = c /\ b.pauses = {} /\ ~paused
  BY <1>2 DEF MayTake, MayAsk, QuorumOk
<1>4. minted + 1 \in Nat
  BY DEF IInv, TypeOK
<1>5. Claims(b, book', k)
  BY <1>1, <1>2, <1>3, <1>4, ClaimedClaims DEF Claim
<1>6. Claims(book, book', k)
  BY <1>1, <1>5, AfterQuiet
<1> QED
  BY <1>1, <1>3, <1>6 DEF Kind, BookStep, HoldKept, Held

LEMMA SoftKind ==
  ASSUME IInv, NEW c \in Clients, FetchLeases(c) \/ PacketChangedFound(c)
  PROVE  Kind
<1> DEFINE b == Lapsed(book)
<1>1. b \in Book /\ b.run = book.run /\ b.pauses = book.pauses /\ Quiet(book, b)
  BY LapsedFacts
<1> HIDE DEF b
<1>2. PICK k \in Steps, s \in Soft :
        /\ MayAsk(b, c, k)
        /\ book' = [b EXCEPT !.turns[k] = [b.turns[k] EXCEPT !.state = s]]
  <2>1. CASE FetchLeases(c)
    <3>1. PICK k \in Steps : /\ MayAsk(b, c, k) /\ b.turns[k].state = "offered"
                             /\ book' = TurnLeased(b, b.run, k)
      BY <2>1 DEF FetchLeases, MayTake, b
    <3>2. book' = [b EXCEPT !.turns[k] = [b.turns[k] EXCEPT !.state = "leased"]]
      BY <3>1 DEF TurnLeased, InRun, MayAsk
    <3> QED BY <3>1, <3>2 DEF Soft
  <2>2. CASE PacketChangedFound(c)
    <3>1. PICK k \in Steps :
            /\ MayAsk(b, c, k)
            /\ book' = [b EXCEPT !.turns[k] = [b.turns[k] EXCEPT !.state = "broken"]]
      BY <2>2 DEF PacketChangedFound, b
    <3> QED BY <3>1 DEF Soft
  <2> QED BY <2>1, <2>2
<1>3. b.turns[k].state \in Soft /\ b.pauses = {} /\ ~paused
  BY <1>2 DEF MayAsk, QuorumOk, Soft
<1>4. Quiet(b, book')
  BY <1>1, <1>2, <1>3, SoftQuiet
<1>5. Quiet(book, book')
  BY <1>1, <1>4, AfterQuiet
<1> QED
  BY <1>1, <1>3, <1>5 DEF Kind, BookStep, HoldKept, Held

LEMMA LapsesKind == ASSUME IInv, RefusedCallLapses PROVE Kind
<1>1. Quiet(book, Lapsed(book)) /\ Lapsed(book).run = book.run
      /\ Lapsed(book).pauses = book.pauses
  BY LapsedFacts
<1> QED
  BY <1>1 DEF RefusedCallLapses, Kind, BookStep, HoldKept, Held

LEMMA SubmitKind ==
  ASSUME IInv, NEW c \in Clients, NEW k \in Steps, NEW nonce,
         NEW status \in Statuses, NEW output \in Outputs,
         Submit(c, k, nonce, status, output)
  PROVE  Kind
<1>1. book \in Book /\ book.run # 0 /\ book.turns[k].state = "claimed"
      /\ book' = TurnSubmitted(book, book.run, k, status, output)
      /\ working' \subseteq working /\ paused' = paused
  BY DEF IInv, Good, Submit, Identified
<1>2. Submits(book, book', k) /\ book.pauses \subseteq book'.pauses
  BY <1>1, SubmittedSubmits
<1> QED
  BY <1>1, <1>2 DEF Kind, BookStep, HoldKept, Held, Submits, SameRun

LEMMA RecallKind ==
  ASSUME IInv, NEW k \in Steps, Recall(k)
  PROVE  Kind
<1>1. book \in Book /\ book.run # 0 /\ book.turns[k].state \in LiveStates
      /\ book' = TurnRecalled(book, book.run, k, book.turns[k].state = "claimed")
      /\ UNCHANGED <<working, paused>>
  BY DEF IInv, Good, Recall
<1>2. Recalls(book, book', k) /\ book'.pauses = book.pauses
  BY <1>1, RecalledRecalls
<1> QED
  BY <1>1, <1>2 DEF Kind, BookStep, HoldKept, Held, Recalls, SameRun

LEMMA NextTurnKind ==
  ASSUME IInv, NEW c \in Clients, NEW inputs \in SUBSET Steps, NextTurn(c, inputs)
  PROVE  Kind
<1>1. book \in Book /\ book.run # 0 /\ book.stop = 0 /\ LiveTurns(book) = {}
      /\ book.pauses = {} /\ ~paused
  BY DEF IInv, Good, NextTurn, QuorumOk
<1>2. PICK k \in Steps : IsNextStep(book, k)
                         /\ book' = TurnOffered(book, book.run, k, c, inputs)
  BY DEF NextTurn
<1>3. Offers(book, book', k)
  BY <1>1, <1>2, OfferedOffers
<1> QED
  BY <1>1, <1>3 DEF Kind, BookStep, HoldKept, Held

LEMMA ProposeKind == ASSUME IInv, Propose PROVE Kind
<1>1. book \in Book /\ book.run = 0
      /\ book' = RunProposed(book, book.maxProposal + 1)
  BY DEF IInv, Good, Propose
<1>2. /\ book'.run = book.run /\ book'.maxRun = book.maxRun
      /\ book'.turns = book.turns /\ book'.stop = book.stop
  BY <1>1 DEF RunProposed, Book
<1>3. Quiet(book, book')
  BY <1>2, FrameQuiet
<1> QED
  BY <1>1, <1>3 DEF Kind, BookStep, HoldKept, Held

LEMMA StoppedKind == ASSUME IInv, Stopped PROVE Kind
<1>1. book \in Book /\ book.run # 0 /\ book.stop # 0
      /\ book' = StopConfirmed(book, book.run, book.stop)
      /\ working' \subseteq working /\ paused' = paused
  BY DEF IInv, Good, Stopped
<1>2. book' = [book EXCEPT !.stop = 0]
  BY <1>1 DEF StopConfirmed, InRun
<1>3. /\ book'.run = book.run /\ book'.maxRun = book.maxRun
      /\ book'.turns = book.turns /\ book'.pauses = book.pauses
      /\ book'.stop = 0
  BY <1>1, <1>2 DEF Book
<1>4. Stops(book, book')
  BY <1>1, <1>3, FrameQuiet
<1> QED
  BY <1>1, <1>3, <1>4 DEF Kind, BookStep, HoldKept, Held

LEMMA OpenRunKind == ASSUME IInv, OpenRun PROVE Kind
<1>1. book \in Book /\ book.run = 0 /\ book' = RunOpened(book, NewRun, book.proposal)
      /\ folder \in Nat
  BY DEF IInv, TypeOK, OpenRun
<1>2. NewRun > book.maxRun /\ NewRun > folder /\ NewRun \in Nat
      /\ Larger(book.maxRun, NewRun) = NewRun
  BY <1>1 DEF NewRun, Larger, Book
<1>3. /\ book'.run = NewRun /\ book'.maxRun = NewRun
      /\ book'.turns = NoTurns /\ book'.stop = 0
  BY <1>1, <1>2 DEF RunOpened, Book
<1>4. Opens(book, book') /\ book'.run > folder
  BY <1>1, <1>2, <1>3 DEF Opens
<1> QED
  BY <1>1, <1>4 DEF Kind, BookStep, HoldKept, Held

LEMMA EndRunKind == ASSUME IInv, EndRun PROVE Kind
<1>1. book \in Book /\ book.run # 0 /\ book.stop = 0 /\ LiveTurns(book) = {}
      /\ book' = RunEnded(book, book.run) /\ working' = working
  BY DEF IInv, Good, EndRun
<1>2. /\ book'.run = 0 /\ book'.maxRun = book.maxRun
      /\ book'.turns = NoTurns /\ book'.stop = 0
  BY <1>1 DEF RunEnded, InRun, Book
<1>3. Ends(book, book')
  BY <1>1, <1>2 DEF Ends
<1> QED
  BY <1>1, <1>3 DEF Kind, BookStep, HoldKept

LEMMA ResumeKind == ASSUME IInv, Resume PROVE Kind
<1>1. book \in Book /\ working' = working
      /\ (book' = HubResumed(book, book.run) \/ book' = book)
  BY DEF IInv, Good, Resume
<1>2. /\ book'.run = book.run /\ book'.maxRun = book.maxRun
      /\ book'.turns = book.turns /\ book'.stop = book.stop
  BY <1>1 DEF HubResumed, Book
<1>3. Quiet(book, book')
  BY <1>2, FrameQuiet
<1> QED
  BY <1>1, <1>3 DEF Kind, BookStep, HoldKept

LEMMA RestartKind == ASSUME IInv, HubRestarts PROVE Kind
<1>1. Good(disk, book, working) /\ book' = Restore(disk, packet) /\ working' = working
  BY DEF IInv, HubRestarts
<1>2. Quiet(book, book') /\ (book.run # 0 => book'.pauses # {})
  BY <1>1, RestoreQuiet
<1> QED
  BY <1>1, <1>2 DEF Kind, BookStep, HoldKept, Held, Quiet, SameRun

(* What leaves the book alone.                                             *)
LEMMA SameBookKind ==
  ASSUME UNCHANGED book, working' \subseteq working, paused => paused'
  PROVE  Kind
<1>1. Quiet(book, book')
  BY FrameQuiet
<1> QED
  BY <1>1 DEF Kind, BookStep, HoldKept, Held

LEMMA EveryKind == ASSUME IInv, [Next]_vars PROVE Kind
<1>1. CASE UNCHANGED vars
  BY <1>1, SameBookKind DEF vars
<1>2. ASSUME NEW c \in Clients, AppCall(c) PROVE Kind
  <2>1. ASSUME NEW k \in Steps, NEW nonce, SubmitLate(c, k, nonce) PROVE Kind
    BY <2>1, SameBookKind DEF SubmitLate
  <2>2. 1 .. minted \subseteq Nat
    BY DEF IInv, TypeOK
  <2> QED
    BY <1>2, <2>1, <2>2, ClaimsKind, SoftKind, SubmitKind DEF AppCall
<1>3. CASE Command
  <2>1. CASE OpenRunFails \/ Pause
    BY <2>1, SameBookKind DEF OpenRunFails, Pause
  <2> QED
    BY <1>3, <2>1, OpenRunKind, NextTurnKind, RecallKind, StoppedKind, EndRunKind, ResumeKind
    DEF Command
<1>4. CASE Surroundings
  <2>1. ASSUME NEW c \in Clients, Arrives(c) \/ FallsSilent(c) PROVE Kind
    BY <2>1, SameBookKind DEF Arrives, FallsSilent
  <2>2. CASE LeaseExpires \/ PacketFileTouched
    BY <2>2, SameBookKind DEF LeaseExpires, PacketFileTouched
  <2> QED
    BY <1>4, <2>1, <2>2, RestartKind DEF Surroundings
<1> QED
  BY <1>1, <1>2, <1>3, <1>4, LapsesKind, ProposeKind DEF Next

-----------------------------------------------------------------------------
(* The action properties.                                                  *)

LEMMA SameAdvances ==
  ASSUME NEW t, NEW u, SameButSoft(t, u)
  PROVE  Advances(t, u)
  BY DEF SameButSoft, Kept, Soft, Advances, LiveStates

LEMMA EachTurnAdvances ==
  ASSUME NEW b, NEW r, NEW j \in Steps, Consistent(b), BookStep(b, r),
         b.run # 0, r.run = b.run
  PROVE  Advances(b.turns[j], r.turns[j])
<1>1. CASE SameButSoft(b.turns[j], r.turns[j])
  BY <1>1, SameAdvances
<1>2. CASE Offers(b, r, j) \/ Claims(b, r, j)
  <2>1. b.turns[j].state \in {"none", "offered", "leased", "broken"}
        /\ b.turns[j].nonce = 0
    BY <1>2 DEF Consistent, Offers, Claims, Soft
  <2> QED
    BY <1>2, <2>1 DEF Offers, Claims, Advances, LiveStates
<1>3. CASE Submits(b, r, j) \/ Recalls(b, r, j)
  BY <1>3 DEF Submits, Recalls, Kept, Advances, LiveStates
<1>4. ~Opens(b, r) /\ ~Ends(b, r)
  BY DEF Opens, Ends
<1> QED
  BY <1>1, <1>2, <1>3, <1>4
  DEF BookStep, Quiet, Stops, Offers, Claims, Submits, Recalls, AllSame, OthersSame

LEMMA AdvancesStep ==
  ASSUME IInv, [Next]_vars
  PROVE  book.run # 0 /\ book'.run = book.run =>
           \A k \in Steps : Advances(book.turns[k], book'.turns[k])
  BY EveryKind, EachTurnAdvances DEF Kind, IInv, Good

(* While its run is open a turn only moves forward, restarts included, for *)
(* any clients, outputs and bounds.                                        *)
THEOREM TurnsAlwaysAdvance == Spec => TurnsOnlyAdvance
<1>1. IInv /\ [Next]_vars =>
        [book.run # 0 /\ book'.run = book.run =>
           \A k \in Steps : Advances(book.turns[k], book'.turns[k])]_book
  BY AdvancesStep
<1> QED
  BY <1>1, InitInvariant, StepInvariant, PTL DEF Spec, TurnsOnlyAdvance

(* A run is opened under a number that no record and no folder has had.    *)
THEOREM FoldersAlwaysFresh == Spec => RunFolderFresh
<1>1. ASSUME IInv, [Next]_vars, book'.run \notin {0, book.run}
      PROVE  book'.run > folder /\ book'.run > book.maxRun
  <2>1. BookStep(book, book')
    BY <1>1, EveryKind DEF Kind
  <2> QED
    BY <1>1, <2>1
    DEF BookStep, Quiet, Stops, Ends, Opens, Offers, Claims, Submits, Recalls, SameRun
<1>2. IInv /\ [Next]_vars =>
        [book'.run \notin {0, book.run} => book'.run > folder /\ book'.run > book.maxRun]_vars
  BY <1>1
<1> QED
  BY <1>2, InitInvariant, StepInvariant, PTL DEF Spec, RunFolderFresh

(* What a held run's turns may come to.                                    *)
LEMMA HeldTurns ==
  ASSUME Held, BookStep(book, book'), NEW k \in Steps,
         book'.turns[k].state \in {"offered", "leased", "claimed"}
  PROVE  book.turns[k].state \in LiveStates
<1>1. CASE SameButSoft(book.turns[k], book'.turns[k])
  BY <1>1 DEF SameButSoft, Soft, LiveStates
<1>2. CASE Claims(book, book', k)
  BY <1>2 DEF Claims, Soft, LiveStates
<1>3. ~Submits(book, book', k) /\ ~Recalls(book, book', k)
  BY DEF Submits, Recalls
<1>4. ~Opens(book, book') /\ ~Ends(book, book')
  BY DEF Held, Opens, Ends, NoTurns, NoTurn
<1> QED
  BY <1>1, <1>2, <1>3, <1>4
  DEF BookStep, Quiet, Stops, Claims, Submits, Recalls, AllSame, OthersSame

(* A held run stays held, and no app is given anything, until the operator *)
(* resumes or ends it.                                                     *)
THEOREM AlwaysHeldUntilResumed == Spec => HeldUntilResumed
<1> DEFINE A == Held =>
                  /\ Held' \/ Resume \/ EndRun
                  /\ \A k \in Steps :
                       book'.turns[k].state \in {"offered", "leased", "claimed"} =>
                         book.turns[k].state \in LiveStates
                  /\ working' \subseteq working
<1>1. ASSUME IInv, [Next]_vars PROVE A
  BY <1>1, EveryKind, HeldTurns DEF Kind, HoldKept
<1>2. IInv /\ [Next]_vars => [A]_vars
  BY <1>1
<1> QED
  BY <1>2, InitInvariant, StepInvariant, PTL DEF Spec, HeldUntilResumed

-----------------------------------------------------------------------------
(* The promise.  What Baton sees of a book b.                              *)

BatonOf(b) == IF b.stop # 0 THEN {b.stop} ELSE LiveTurns(b)

PhaseOf(b) ==
  IF b.stop # 0 THEN "stopping"
  ELSE IF LiveTurns(b) = {} THEN "idle"
  ELSE IF \E k \in LiveTurns(b) : b.turns[k].state = "claimed"
       THEN "working" ELSE "offered"

HolderOf(b) ==
  IF BatonOf(b) = {} THEN Nobody ELSE b.turns[CHOOSE k \in BatonOf(b) : TRUE].client

AnswersOf(b) == [k \in Steps |-> b.turns[k].output]

LEMMA Views ==
  /\ BatonPhase = PhaseOf(book) /\ BatonPhase' = PhaseOf(book')
  /\ BatonHolder = HolderOf(book) /\ BatonHolder' = HolderOf(book')
  BY DEF BatonPhase, BatonHolder, BatonTurn, PhaseOf, HolderOf, BatonOf

LEMMA ViewIdle ==
  ASSUME NEW b, b.stop = 0, LiveTurns(b) = {}
  PROVE  PhaseOf(b) = "idle" /\ HolderOf(b) = Nobody
  BY DEF PhaseOf, HolderOf, BatonOf

LEMMA ViewStopping ==
  ASSUME NEW b, b.stop # 0
  PROVE  PhaseOf(b) = "stopping" /\ HolderOf(b) = b.turns[b.stop].client
<1>1. \A k \in BatonOf(b) : k = b.stop
  BY DEF BatonOf
<1>2. b.stop \in BatonOf(b)
  BY DEF BatonOf
<1>3. (CHOOSE k \in BatonOf(b) : TRUE) = b.stop
  BY <1>1, <1>2
<1> QED
  BY <1>2, <1>3 DEF PhaseOf, HolderOf

LEMMA ViewLive ==
  ASSUME NEW b, b.stop = 0, NEW k \in Steps, b.turns[k].state \in LiveStates,
         \A j \in LiveTurns(b) : j = k
  PROVE  /\ PhaseOf(b) = IF b.turns[k].state = "claimed" THEN "working" ELSE "offered"
         /\ HolderOf(b) = b.turns[k].client
<1>1. k \in LiveTurns(b) /\ BatonOf(b) = LiveTurns(b)
  BY DEF LiveTurns, BatonOf
<1>2. (CHOOSE j \in BatonOf(b) : TRUE) = k
  BY <1>1
<1> QED
  BY <1>1, <1>2 DEF PhaseOf, HolderOf

(* A leased or broken turn looks offered.                                  *)
LEMMA SameView ==
  ASSUME NEW b \in Book, NEW r \in Book, r.stop = b.stop, AllSame(b, r)
  PROVE  PhaseOf(r) = PhaseOf(b) /\ HolderOf(r) = HolderOf(b) /\ AnswersOf(r) = AnswersOf(b)
<1>1. \A k \in Steps : SameButSoft(b.turns[k], r.turns[k])
  BY DEF AllSame
<1>2. LiveTurns(r) = LiveTurns(b)
  BY <1>1 DEF LiveTurns, LiveStates, SameButSoft, Soft
<1>3. \A k \in Steps : r.turns[k].state = "claimed" <=> b.turns[k].state = "claimed"
  BY <1>1 DEF SameButSoft, Soft
<1>4. PhaseOf(r) = PhaseOf(b)
  BY <1>2, <1>3 DEF PhaseOf, LiveTurns
<1>5. BatonOf(r) = BatonOf(b) /\ BatonOf(b) \subseteq Steps
  BY <1>2 DEF BatonOf, LiveTurns, Book
<1>6. \A k \in Steps : r.turns[k].client = b.turns[k].client
                       /\ r.turns[k].output = b.turns[k].output
  BY <1>1 DEF SameButSoft, Kept
<1>7. HolderOf(r) = HolderOf(b)
  BY <1>5, <1>6 DEF HolderOf
<1> QED
  BY <1>4, <1>6, <1>7 DEF AnswersOf

LEMMA OthersAnswers ==
  ASSUME NEW b, NEW r, NEW k \in Steps, OthersSame(b, r, k)
  PROVE  AnswersOf(r) = [AnswersOf(b) EXCEPT ![k] = r.turns[k].output]
  BY DEF OthersSame, SameButSoft, Kept, AnswersOf

LEMMA SameAnswers ==
  ASSUME NEW b, NEW r, NEW k \in Steps, OthersSame(b, r, k),
         r.turns[k].output = b.turns[k].output
  PROVE  AnswersOf(r) = AnswersOf(b)
  BY DEF OthersSame, SameButSoft, Kept, AnswersOf

(* The others are not live once k was, or none was.                        *)
LEMMA OthersNotLive ==
  ASSUME NEW b, NEW r, NEW k \in Steps, OthersSame(b, r, k),
         \A j \in LiveTurns(b) : j = k
  PROVE  \A j \in LiveTurns(r) : j = k
  BY DEF OthersSame, SameButSoft, Soft, LiveTurns, LiveStates

LEMMA LiveAlone ==
  ASSUME NEW b, Consistent(b), NEW k \in Steps, b.turns[k].state \in LiveStates
  PROVE  /\ \A j \in LiveTurns(b) : j = k
         /\ b.stop = 0 /\ b.run # 0
<1>1. k \in LiveTurns(b) /\ k \in Existing(b)
  BY DEF LiveTurns, LiveStates, Existing
<1> QED
  BY <1>1 DEF Consistent

LEMMA NoTurnsView ==
  ASSUME NEW r, r.turns = NoTurns, r.stop = 0
  PROVE  /\ PhaseOf(r) = "idle" /\ HolderOf(r) = Nobody
         /\ AnswersOf(r) = [k \in 1 .. MaxTurn |-> Nothing]
<1>1. \A k \in Steps : r.turns[k] = NoTurn
  BY DEF NoTurns
<1>2. LiveTurns(r) = {}
  BY <1>1 DEF LiveTurns, LiveStates, NoTurn
<1> QED
  BY <1>1, <1>2, ViewIdle DEF AnswersOf, NoTurn, Steps

-----------------------------------------------------------------------------
(* The steps of the promise, from what Baton sees of the books.            *)

LEMMA PromiseVars ==
  ASSUME PhaseOf(book') = PhaseOf(book), HolderOf(book') = HolderOf(book),
         AnswersOf(book') = AnswersOf(book), SameRun(book, book')
  PROVE  UNCHANGED Promise!vars
  BY Views DEF Promise!vars, AnswersOf, SameRun

LEMMA QuietPromise ==
  ASSUME book \in Book, book' \in Book, Quiet(book, book')
  PROVE  UNCHANGED Promise!vars
  BY SameView, PromiseVars DEF Quiet

LEMMA StopsPromise ==
  ASSUME book \in Book, book' \in Book, Consistent(book), Stops(book, book')
  PROVE  Promise!ConfirmStopped
<1>1. PhaseOf(book) = "stopping"
  BY ViewStopping DEF Stops
<1>2. LiveTurns(book') = {}
  BY DEF Consistent, Stops, AllSame, SameButSoft, Soft, LiveTurns, LiveStates
<1>3. PhaseOf(book') = "idle" /\ HolderOf(book') = Nobody
  BY <1>2, ViewIdle DEF Stops
<1>4. AnswersOf(book') = AnswersOf(book)
  BY DEF Stops, AllSame, SameButSoft, Kept, AnswersOf
<1> QED
  BY <1>1, <1>3, <1>4, Views DEF Promise!ConfirmStopped, AnswersOf, Stops, SameRun

LEMMA EndsPromise ==
  ASSUME Ends(book, book')
  PROVE  Promise!Close
<1>1. PhaseOf(book) = "idle" /\ HolderOf(book) = Nobody
  BY ViewIdle DEF Ends
<1>2. /\ PhaseOf(book') = "idle" /\ HolderOf(book') = Nobody
      /\ AnswersOf(book') = [k \in 1 .. MaxTurn |-> Nothing]
  BY NoTurnsView DEF Ends
<1> QED
  BY <1>1, <1>2, Views DEF Promise!Close, Promise!NoAnswers, AnswersOf, Ends

LEMMA OpensPromise ==
  ASSUME Consistent(book), Opens(book, book')
  PROVE  Promise!Open
<1>1. book.stop = 0 /\ LiveTurns(book) = {}
  BY DEF Opens, Consistent, Existing, LiveTurns, LiveStates
<1>2. PhaseOf(book) = "idle" /\ HolderOf(book) = Nobody
  BY <1>1, ViewIdle
<1>3. /\ PhaseOf(book') = "idle" /\ HolderOf(book') = Nobody
      /\ AnswersOf(book') = [k \in 1 .. MaxTurn |-> Nothing]
  BY NoTurnsView DEF Opens
<1> QED
  BY <1>2, <1>3, Views DEF Promise!Open, Promise!NoAnswers, AnswersOf, Opens

LEMMA OffersPromise ==
  ASSUME Consistent(book), NEW k \in Steps, Offers(book, book', k)
  PROVE  Promise!Offer
<1>1. PhaseOf(book) = "idle"
  BY ViewIdle DEF Offers
<1>2. \A j \in LiveTurns(book') : j = k
  BY OthersNotLive DEF Offers
<1>3. PhaseOf(book') = "offered" /\ HolderOf(book') \in Clients
  BY <1>2, ViewLive DEF Offers, LiveStates
<1>4. AnswersOf(book') = AnswersOf(book)
  BY SameAnswers DEF Offers, Consistent
<1> QED
  BY <1>1, <1>3, <1>4, Views DEF Promise!Offer, AnswersOf, Offers, SameRun

LEMMA ClaimsPromise ==
  ASSUME Consistent(book), NEW k \in Steps, Claims(book, book', k)
  PROVE  Promise!Take
<1>1. book.turns[k].state \in LiveStates /\ book.turns[k].state # "claimed"
  BY DEF Claims, Soft, LiveStates
<1>2. (\A j \in LiveTurns(book) : j = k) /\ book.stop = 0
  BY <1>1, LiveAlone
<1>3. PhaseOf(book) = "offered" /\ HolderOf(book) = book.turns[k].client
  BY <1>1, <1>2, ViewLive
<1>4. \A j \in LiveTurns(book') : j = k
  BY <1>2, OthersNotLive DEF Claims
<1>5. PhaseOf(book') = "working" /\ HolderOf(book') = book'.turns[k].client
  BY <1>2, <1>4, ViewLive DEF Claims, LiveStates
<1>6. AnswersOf(book') = AnswersOf(book)
  BY SameAnswers DEF Claims
<1> QED
  BY <1>3, <1>5, <1>6, Views DEF Promise!Take, AnswersOf, Claims, SameRun

LEMMA SubmitsPromise ==
  ASSUME Consistent(book), NEW k \in Steps, Submits(book, book', k)
  PROVE  Promise!Answer(k, book'.turns[k].output)
<1>1. book.turns[k].state = "claimed" /\ book.turns[k].state \in LiveStates
  BY DEF Submits, LiveStates
<1>2. (\A j \in LiveTurns(book) : j = k) /\ book.stop = 0
  BY <1>1, LiveAlone
<1>3. PhaseOf(book) = "working"
  BY <1>1, <1>2, ViewLive
<1>4. LiveTurns(book') = {}
  <2>1. \A j \in LiveTurns(book') : j = k
    BY <1>2, OthersNotLive DEF Submits
  <2> QED
    BY <2>1 DEF Submits, LiveTurns, LiveStates
<1>5. PhaseOf(book') = "idle" /\ HolderOf(book') = Nobody
  BY <1>2, <1>4, ViewIdle DEF Submits
<1>6. AnswersOf(book') = [AnswersOf(book) EXCEPT ![k] = book'.turns[k].output]
  BY OthersAnswers DEF Submits
<1>7. AnswersOf(book)[k] = Nothing
  BY <1>1 DEF Consistent, AnswersOf
<1> QED
  BY <1>3, <1>5, <1>6, <1>7, Views DEF Promise!Answer, AnswersOf, Submits, SameRun

LEMMA RecallsPromise ==
  ASSUME Consistent(book), NEW k \in Steps, Recalls(book, book', k)
  PROVE  Promise!Interrupt \/ Promise!Withdraw
<1>1. (\A j \in LiveTurns(book) : j = k) /\ book.stop = 0
        /\ book.turns[k].state \in LiveStates
  BY LiveAlone DEF Recalls
<1>2. /\ PhaseOf(book) = IF book.turns[k].state = "claimed" THEN "working" ELSE "offered"
      /\ HolderOf(book) = book.turns[k].client
  BY <1>1, ViewLive
<1>3. LiveTurns(book') = {}
  <2>1. \A j \in LiveTurns(book') : j = k
    BY <1>1, OthersNotLive DEF Recalls
  <2> QED
    BY <2>1 DEF Recalls, LiveTurns, LiveStates
<1>4. AnswersOf(book') = AnswersOf(book)
  BY SameAnswers DEF Recalls, Kept
<1>5. CASE book.turns[k].state = "claimed"
  <2>1. book'.stop = k /\ k # 0
    BY <1>5 DEF Recalls, Steps
  <2>2. PhaseOf(book') = "stopping" /\ HolderOf(book') = HolderOf(book)
    BY <1>2, <2>1, ViewStopping DEF Recalls, Kept
  <2> QED
    BY <1>2, <1>4, <1>5, <2>2, Views DEF Promise!Interrupt, AnswersOf, Recalls, SameRun
<1>6. CASE book.turns[k].state # "claimed"
  <2>1. PhaseOf(book') = "idle" /\ HolderOf(book') = Nobody
    BY <1>1, <1>3, <1>6, ViewIdle DEF Recalls
  <2> QED
    BY <1>2, <1>4, <1>6, <2>1, Views DEF Promise!Withdraw, AnswersOf, Recalls, SameRun
<1> QED
  BY <1>5, <1>6

LEMMA PromiseStep ==
  ASSUME IInv, [Next]_vars
  PROVE  [Promise!Next]_(Promise!vars)
<1>1. BookStep(book, book') /\ Consistent(book) /\ book \in Book
  BY EveryKind DEF Kind, IInv, Good
<1>2. book' \in Book
  BY StepInvariant DEF IInv, Good
<1>3. CASE Quiet(book, book') \/ Stops(book, book')
  BY <1>1, <1>2, <1>3, QuietPromise, StopsPromise DEF Promise!Next
<1>4. CASE Ends(book, book') \/ Opens(book, book')
  BY <1>1, <1>4, EndsPromise, OpensPromise DEF Promise!Next
<1>5. ASSUME NEW k \in Steps,
             Offers(book, book', k) \/ Claims(book, book', k) \/ Recalls(book, book', k)
      PROVE  Promise!Next
  BY <1>1, <1>5, OffersPromise, ClaimsPromise, RecallsPromise DEF Promise!Next
<1>6. ASSUME NEW k \in Steps, Submits(book, book', k)
      PROVE  Promise!Next
  <2>1. k \in 1 .. MaxTurn /\ book'.turns[k].output \in Outputs
    BY <1>6 DEF Submits, Steps
  <2>2. Promise!Answer(k, book'.turns[k].output)
    BY <1>1, <1>6, SubmitsPromise
  <2> QED
    BY <2>1, <2>2 DEF Promise!Next, Promise!Answer
<1> QED
  BY <1>1, <1>3, <1>4, <1>5, <1>6 DEF BookStep

LEMMA PromiseInit == Init => Promise!Init
<1> SUFFICES ASSUME Init PROVE Promise!Init
  OBVIOUS
<1>1. book = EmptyBook /\ book.turns = NoTurns /\ book.stop = 0 /\ book.run = 0
      /\ book.maxRun = 0
  BY DEF Init, EmptyBook
<1> QED
  BY <1>1, NoTurnsView, Views DEF Promise!Init, Promise!NoAnswers, AnswersOf

(* The turn protocol implements the baton: every step of the hub is a step *)
(* of the promise or leaves what it promises alone.                        *)
THEOREM PromiseAlwaysKept == Spec => KeepsPromise
<1>1. Init => Promise!Init
  BY PromiseInit
<1>2. IInv /\ [Next]_vars => [Promise!Next]_(Promise!vars)
  BY PromiseStep
<1> QED
  BY <1>1, <1>2, InitInvariant, StepInvariant, PTL DEF Spec, KeepsPromise, Promise!Spec

=============================================================================
