---------------------------- MODULE Records_proofs ----------------------------
(***************************************************************************)
(* Theorems about the record file, for any number of writes and hub runs.  *)
(*                                                                         *)
(* The order of the records follows from the order of all pieces, cut ones *)
(* included: those of a line were tried before those of any later line.    *)
(* That acknowledged records are kept follows from the flag torn: a hub    *)
(* that is up and whose last write did not fail is at the start of a line. *)
(***************************************************************************)
EXTENDS Records, SequenceTheorems, TLAPS

Before(x, y) ==
  \A a \in 1 .. Len(x), c \in 1 .. Len(y) : x[a].no < y[c].no

UpTo(x, n) == \A a \in 1 .. Len(x) : x[a].no <= n

(* The lines l and the tail t hold pieces 1 to n, in order.                *)
InOrderUpTo(l, t, n) ==
  /\ l \in Seq(Seq(Piece))
  /\ t \in Seq(Piece)
  /\ n \in Nat
  /\ \A i \in 1 .. Len(l) : UpTo(l[i], n) /\ Before(l[i], t)
  /\ \A i, j \in 1 .. Len(l) : i < j => Before(l[i], l[j])
  /\ UpTo(t, n)

KeptIn(l) ==
  \A p \in acked :
    IsStart(p) \/ \E i \in 1 .. Len(l) : l[i] = <<p>> /\ p.whole

IInv ==
  /\ TypeOK
  /\ InOrderUpTo(lines, tail, tried)
  /\ KeptIn(lines)
  /\ up = "starting" => seq = 0
  /\ up = "up" /\ ~torn => tail = <<>>

-----------------------------------------------------------------------------
(* The file under the two steps of a write.                                *)

LEMMA Appended ==
  ASSUME NEW S, NEW s \in Seq(S), NEW e \in S
  PROVE  /\ Append(s, e) \in Seq(S)
         /\ Len(Append(s, e)) = Len(s) + 1
         /\ Append(s, e)[Len(s) + 1] = e
         /\ \A i \in 1 .. Len(s) : Append(s, e)[i] = s[i]
         /\ \A i \in 1 .. Len(Append(s, e)) : i \in 1 .. Len(s) \/ i = Len(s) + 1
         /\ Len(s) \in Nat
OBVIOUS

LEMMA LineNumbers ==
  ASSUME NEW x \in Seq(Piece), NEW a \in 1 .. Len(x)
  PROVE  x[a].no \in Nat
<1>1. x[a] \in Piece
  OBVIOUS
<1> QED BY <1>1 DEF Piece

LEMMA EndLine ==
  ASSUME NEW l, NEW t, NEW n, InOrderUpTo(l, t, n)
  PROVE  InOrderUpTo(Append(l, t), <<>>, n)
<1> DEFINE m == Append(l, t)
<1>1. l \in Seq(Seq(Piece)) /\ t \in Seq(Piece) /\ n \in Nat
  BY DEF InOrderUpTo
<1>2. /\ m \in Seq(Seq(Piece)) /\ Len(m) = Len(l) + 1 /\ m[Len(l) + 1] = t
      /\ \A i \in 1 .. Len(l) : m[i] = l[i]
      /\ \A i \in 1 .. Len(m) : i \in 1 .. Len(l) \/ i = Len(l) + 1
      /\ Len(l) \in Nat
  BY ONLY <1>1, Appended
<1> HIDE DEF m
<1>3. /\ \A i \in 1 .. Len(l) : UpTo(l[i], n) /\ Before(l[i], t)
      /\ \A i, j \in 1 .. Len(l) : i < j => Before(l[i], l[j])
      /\ UpTo(t, n)
  BY DEF InOrderUpTo
<1>4. ASSUME NEW i \in 1 .. Len(m)
      PROVE  UpTo(m[i], n) /\ Before(m[i], <<>>)
  <2>1. UpTo(m[i], n)
    BY ONLY <1>2, <1>3
  <2>2. Before(m[i], <<>>)
    BY ONLY DEF Before
  <2> QED BY ONLY <2>1, <2>2
<1>5. ASSUME NEW i \in 1 .. Len(m), NEW j \in 1 .. Len(m), i < j
      PROVE  Before(m[i], m[j])
  <2>1. i \in 1 .. Len(l) /\ m[i] = l[i]
    BY ONLY <1>2, <1>5
  <2>2. CASE j \in 1 .. Len(l)
    BY ONLY <1>2, <1>3, <1>5, <2>1, <2>2
  <2>3. CASE j = Len(l) + 1
    BY ONLY <1>2, <1>3, <2>1, <2>3
  <2> QED BY ONLY <1>2, <1>5, <2>2, <2>3
<1>6. <<>> \in Seq(Piece) /\ UpTo(<<>>, n)
  BY ONLY DEF UpTo
<1>7. InOrderUpTo(m, <<>>, n)
  BY ONLY <1>1, <1>2, <1>4, <1>5, <1>6 DEF InOrderUpTo
<1> QED BY ONLY <1>7 DEF m

LEMMA OneMore ==
  ASSUME NEW l, NEW t, NEW n, InOrderUpTo(l, t, n)
  PROVE  InOrderUpTo(l, t, n + 1)
<1>1. /\ l \in Seq(Seq(Piece)) /\ t \in Seq(Piece) /\ n \in Nat /\ n + 1 \in Nat
      /\ \A i \in 1 .. Len(l) : UpTo(l[i], n) /\ Before(l[i], t)
      /\ \A i, j \in 1 .. Len(l) : i < j => Before(l[i], l[j])
      /\ UpTo(t, n)
  BY DEF InOrderUpTo
<1>2. ASSUME NEW x \in Seq(Piece), UpTo(x, n)
      PROVE  UpTo(x, n + 1)
  <2>1. \A a \in 1 .. Len(x) : x[a].no \in Nat /\ x[a].no <= n
    BY ONLY <1>2, LineNumbers DEF UpTo
  <2>2. \A a \in 1 .. Len(x) : x[a].no <= n + 1
    BY ONLY <1>1, <2>1
  <2> QED BY ONLY <2>2 DEF UpTo
<1>3. \A i \in 1 .. Len(l) : l[i] \in Seq(Piece)
  BY ONLY <1>1
<1>4. UpTo(t, n + 1) /\ \A i \in 1 .. Len(l) : UpTo(l[i], n + 1)
  BY ONLY <1>1, <1>2, <1>3
<1> QED BY ONLY <1>1, <1>4 DEF InOrderUpTo

LEMMA AddPiece ==
  ASSUME NEW l, NEW t, NEW n, InOrderUpTo(l, t, n),
         NEW p \in Piece, p.no = n + 1
  PROVE  InOrderUpTo(l, Append(t, p), n + 1)
<1> DEFINE s == Append(t, p)
<1>1. t \in Seq(Piece) /\ n \in Nat
  BY DEF InOrderUpTo
<1>2. /\ s \in Seq(Piece) /\ Len(s) = Len(t) + 1 /\ s[Len(t) + 1] = p
      /\ \A a \in 1 .. Len(t) : s[a] = t[a]
      /\ \A a \in 1 .. Len(s) : a \in 1 .. Len(t) \/ a = Len(t) + 1
  BY ONLY <1>1, p \in Piece, Appended
<1> HIDE DEF s
<1>3. /\ l \in Seq(Seq(Piece)) /\ n + 1 \in Nat
      /\ \A i \in 1 .. Len(l) : UpTo(l[i], n + 1)
      /\ \A i, j \in 1 .. Len(l) : i < j => Before(l[i], l[j])
      /\ UpTo(t, n + 1)
  BY OneMore DEF InOrderUpTo
<1>4. UpTo(s, n + 1)
  <2>1. \A a \in 1 .. Len(t) : t[a].no <= n + 1
    BY ONLY <1>3 DEF UpTo
  <2>2. ASSUME NEW a \in 1 .. Len(s)
        PROVE  s[a].no <= n + 1
    <3>1. CASE a \in 1 .. Len(t)
      BY ONLY <1>2, <2>1, <3>1
    <3>2. CASE a = Len(t) + 1
      BY ONLY <1>2, <1>3, <3>2, p.no = n + 1
    <3> QED BY ONLY <1>2, <2>2, <3>1, <3>2
  <2> QED BY ONLY <2>2 DEF UpTo
<1>5. ASSUME NEW i \in 1 .. Len(l)
      PROVE  Before(l[i], s)
  <2>1. l[i] \in Seq(Piece) /\ UpTo(l[i], n) /\ Before(l[i], t)
    BY DEF InOrderUpTo
  <2>2. \A a \in 1 .. Len(l[i]) : l[i][a].no \in Nat /\ l[i][a].no <= n
    BY ONLY <2>1, LineNumbers DEF UpTo
  <2>3. \A a \in 1 .. Len(l[i]) : l[i][a].no < p.no
    BY ONLY <1>1, <2>2, p.no = n + 1
  <2>4. ASSUME NEW a \in 1 .. Len(l[i]), NEW c \in 1 .. Len(s)
        PROVE  l[i][a].no < s[c].no
    <3>1. CASE c \in 1 .. Len(t)
      BY ONLY <1>2, <2>1, <2>4, <3>1 DEF Before
    <3>2. CASE c = Len(t) + 1
      BY ONLY <1>2, <2>3, <2>4, <3>2
    <3> QED BY ONLY <1>2, <2>4, <3>1, <3>2
  <2> QED BY ONLY <2>4 DEF Before
<1>6. InOrderUpTo(l, s, n + 1)
  BY ONLY <1>2, <1>3, <1>4, <1>5 DEF InOrderUpTo
<1> QED BY ONLY <1>6 DEF s

LEMMA KeptInMore ==
  ASSUME NEW l \in Seq(Seq(Piece)), NEW x \in Seq(Piece), KeptIn(l)
  PROVE  KeptIn(Append(l, x))
<1> DEFINE m == Append(l, x)
<1>1. /\ Len(l) \in Nat /\ Len(m) = Len(l) + 1
      /\ \A i \in 1 .. Len(l) : m[i] = l[i]
  BY ONLY l \in Seq(Seq(Piece)), x \in Seq(Piece), Appended
<1> HIDE DEF m
<1>2. \A i \in 1 .. Len(l) : i \in 1 .. Len(m) /\ m[i] = l[i]
  BY ONLY <1>1
<1>3. KeptIn(m)
  BY ONLY KeptIn(l), <1>2 DEF KeptIn
<1> QED BY ONLY <1>3 DEF m

(* The file before the bytes of a record are written.                      *)
LEMMA FreshFile ==
  ASSUME IInv
  PROVE  /\ InOrderUpTo(Fresh.lines, Fresh.tail, tried)
         /\ KeptIn(Fresh.lines)
         /\ up = "up" => Fresh.tail = <<>>
<1>1. CASE torn
  <2>1. Fresh.lines = Append(lines, tail) /\ Fresh.tail = <<>>
    BY <1>1 DEF Fresh
  <2>2. InOrderUpTo(Append(lines, tail), <<>>, tried)
    BY EndLine DEF IInv
  <2>3. KeptIn(Append(lines, tail))
    BY KeptInMore DEF IInv, TypeOK
  <2> QED BY <2>1, <2>2, <2>3
<1>2. CASE ~torn
  BY <1>2 DEF Fresh, IInv
<1> QED BY <1>1, <1>2 DEF IInv, TypeOK

LEMMA PiecesTried ==
  ASSUME TypeOK
  PROVE  /\ Whole \in Piece /\ Whole.no = tried + 1 /\ Whole.whole = TRUE
         /\ Whole.seq = seq + 1
         /\ Cut \in Piece /\ Cut.no = tried + 1
<1>1. tried + 1 \in Nat /\ hub \in Nat /\ seq + 1 \in Nat
  BY DEF TypeOK
<1>2. /\ Whole \in Piece /\ Whole.no = tried + 1 /\ Whole.whole = TRUE
      /\ Whole.seq = seq + 1
  BY ONLY <1>1 DEF Whole, Piece
<1>3. Cut \in Piece /\ Cut.no = Whole.no
  BY ONLY <1>2 DEF Cut, Piece
<1> QED BY ONLY <1>2, <1>3

LEMMA CompleteFile ==
  ASSUME IInv, Complete, tried' = tried + 1
  PROVE  /\ InOrderUpTo(lines', tail', tried')
         /\ KeptIn(lines')
         /\ up = "up" =>
              \E i \in 1 .. Len(lines') : lines'[i] = <<Whole>> /\ Whole.whole
<1> DEFINE l == Fresh.lines
           t == Fresh.tail
           s == Append(t, Whole)
<1>1. InOrderUpTo(l, t, tried) /\ KeptIn(l) /\ (up = "up" => t = <<>>)
  BY FreshFile
<1>2. InOrderUpTo(l, s, tried + 1)
  BY <1>1, PiecesTried, AddPiece DEF IInv
<1>3. lines' = Append(l, s) /\ tail' = <<>>
  BY DEF Complete
<1> HIDE DEF l, t
<1>4. InOrderUpTo(Append(l, s), <<>>, tried + 1)
  BY <1>2, EndLine
<1>5. l \in Seq(Seq(Piece)) /\ s \in Seq(Piece)
  BY <1>2 DEF InOrderUpTo
<1>6. KeptIn(lines')
  BY <1>1, <1>3, <1>5, KeptInMore
<1>7. up = "up" => s = <<Whole>>
  BY <1>1
<1>8. Len(l) + 1 \in 1 .. Len(lines') /\ lines'[Len(l) + 1] = s
  BY ONLY <1>3, <1>5, Appended
<1>9. up = "up" =>
        \E i \in 1 .. Len(lines') : lines'[i] = <<Whole>> /\ Whole.whole
  BY <1>7, <1>8, PiecesTried DEF IInv
<1> QED BY <1>3, <1>4, <1>6, <1>9

LEMMA ShortFile ==
  ASSUME IInv, Short, tried' = tried + 1
  PROVE  InOrderUpTo(lines', tail', tried') /\ KeptIn(lines')
<1>1. InOrderUpTo(Fresh.lines, Fresh.tail, tried) /\ KeptIn(Fresh.lines)
  BY FreshFile
<1>2. lines' = Fresh.lines
  BY DEF Short
<1>3. CASE tail' = Append(Fresh.tail, Whole)
  BY <1>1, <1>2, <1>3, PiecesTried, AddPiece DEF IInv
<1>4. CASE tail' = Append(Fresh.tail, Cut)
  BY <1>1, <1>2, <1>4, PiecesTried, AddPiece DEF IInv
<1>5. CASE tail' = Fresh.tail
  BY <1>1, <1>2, <1>5, OneMore
<1> QED BY <1>1, <1>2, <1>3, <1>4, <1>5 DEF Short

-----------------------------------------------------------------------------
(* Each action keeps the invariant.                                        *)

LEMMA InitInvariant == Init => IInv
<1> SUFFICES ASSUME Init PROVE IInv
  OBVIOUS
<1>1. TypeOK
  <2>1. <<>> \in Seq(Seq(Piece)) /\ <<>> \in Seq(Piece)
    BY EmptySeq
  <2>2. /\ torn = FALSE /\ seq = 0 /\ hub = 0 /\ up = "down" /\ tried = 0
        /\ acked = {} /\ refused = {} /\ lines = <<>> /\ tail = <<>>
    BY DEF Init
  <2> QED BY ONLY <2>1, <2>2 DEF TypeOK
<1>2. InOrderUpTo(lines, tail, tried)
  BY DEF Init, InOrderUpTo, UpTo
<1> QED BY <1>1, <1>2 DEF Init, IInv, KeptIn

(* The types of the file come with InOrderUpTo.                            *)
LEMMA AcknowledgeStep == ASSUME IInv, Acknowledge PROVE IInv'
<1>1. /\ InOrderUpTo(lines', tail', tried') /\ KeptIn(lines')
      /\ up = "up" =>
           \E i \in 1 .. Len(lines') : lines'[i] = <<Whole>> /\ Whole.whole
  BY CompleteFile DEF Acknowledge, Trying
<1>2. Whole \in Piece /\ (up # "up" => IsStart(Whole))
  <2>1. up # "up" => seq = 0
    BY DEF Acknowledge, Trying, IInv, TypeOK
  <2>2. Whole \in Piece /\ Whole.seq = seq + 1
    BY PiecesTried DEF IInv
  <2> QED BY <2>1, <2>2 DEF IsStart
<1>3. KeptIn(lines)'
  BY <1>1, <1>2 DEF KeptIn, Acknowledge, IsStart
<1>4. TypeOK'
  <2>1. lines' \in Seq(Seq(Piece)) /\ tail' \in Seq(Piece) /\ tried' \in Nat
    BY <1>1 DEF InOrderUpTo
  <2>2. /\ torn' = FALSE /\ seq' = seq + 1 /\ up' = "up" /\ hub' = hub
        /\ acked' = acked \cup {Whole} /\ refused' = refused
    BY DEF Acknowledge
  <2>3. seq \in Nat /\ hub \in Nat /\ acked \subseteq Piece /\ refused \subseteq Piece
    BY DEF IInv, TypeOK
  <2>4. torn' \in BOOLEAN
    BY ONLY <2>2
  <2>5. seq' \in Nat /\ up' \in {"down", "starting", "up"}
    BY ONLY <2>2, <2>3
  <2>6. hub' \in Nat /\ acked' \subseteq Piece /\ refused' \subseteq Piece
    BY ONLY <1>2, <2>2, <2>3
  <2> QED BY ONLY <2>1, <2>4, <2>5, <2>6 DEF TypeOK
<1>5. tail' = <<>> /\ up' = "up"
  BY DEF Acknowledge, Complete
<1> QED BY <1>1, <1>3, <1>4, <1>5 DEF IInv

LEMMA RefuseStep == ASSUME IInv, Refuse PROVE IInv'
<1>1. InOrderUpTo(lines', tail', tried') /\ KeptIn(lines')
  <2>1. CASE Short
    BY <2>1, ShortFile DEF Refuse, Trying
  <2>2. CASE UNCHANGED <<lines, tail, torn>>
    BY <2>2, OneMore DEF Refuse, Trying, IInv
  <2> QED BY <2>1, <2>2 DEF Refuse
<1>2. KeptIn(lines)'
  BY <1>1 DEF KeptIn, Refuse
<1>3. up' \in {"down", "up"} /\ (up' = "up" => up = "up")
  BY DEF Refuse, Trying, AfterRefusal, IInv, TypeOK
<1>4. torn' \in BOOLEAN
  BY DEF Refuse, IInv, TypeOK
<1>5. TypeOK'
  <2>1. lines' \in Seq(Seq(Piece)) /\ tail' \in Seq(Piece) /\ tried' \in Nat
    BY <1>1 DEF InOrderUpTo
  <2>2. /\ refused' = refused \cup {Whole} /\ hub' = hub /\ seq' = seq /\ acked' = acked
    BY DEF Refuse
  <2>3. seq \in Nat /\ hub \in Nat /\ acked \subseteq Piece /\ refused \subseteq Piece
    BY DEF IInv, TypeOK
  <2>4. Whole \in Piece
    BY PiecesTried DEF IInv
  <2> QED BY ONLY <1>3, <1>4, <2>1, <2>2, <2>3, <2>4 DEF TypeOK
<1>6. up' = "up" /\ ~torn' => tail' = <<>>
  BY <1>3 DEF Refuse, IInv
<1> QED BY <1>1, <1>2, <1>3, <1>5, <1>6 DEF IInv

LEMMA DieWritingStep == ASSUME IInv, DieWriting PROVE IInv'
<1>1. InOrderUpTo(lines', tail', tried') /\ KeptIn(lines')
  BY CompleteFile, ShortFile DEF DieWriting, Trying
<1>2. KeptIn(lines)'
  BY <1>1 DEF KeptIn, DieWriting
<1>3. TypeOK'
  <2>1. lines' \in Seq(Seq(Piece)) /\ tail' \in Seq(Piece) /\ tried' \in Nat
    BY <1>1 DEF InOrderUpTo
  <2>2. up' = "down" /\ UNCHANGED <<torn, seq, hub, acked, refused>>
    BY DEF DieWriting
  <2>3. /\ seq \in Nat /\ hub \in Nat /\ acked \subseteq Piece
        /\ refused \subseteq Piece /\ torn \in BOOLEAN
    BY DEF IInv, TypeOK
  <2> QED BY ONLY <2>1, <2>2, <2>3 DEF TypeOK
<1> QED BY <1>1, <1>2, <1>3 DEF IInv, DieWriting

LEMMA OpenOrCloseStep ==
  ASSUME IInv, Open \/ Close \/ UNCHANGED vars
  PROVE  IInv'
<1>1. UNCHANGED <<lines, tail, tried, acked, refused>>
  BY DEF Open, Close, vars
<1>2. TypeOK'
  <2>1. /\ torn' \in {torn, FALSE} /\ seq' \in {seq, 0} /\ hub' \in {hub, hub + 1}
        /\ up' \in {up, "starting", "down"}
    BY DEF Open, Close, vars
  <2>2. TypeOK
    BY DEF IInv
  <2>3. torn' \in BOOLEAN
    BY ONLY <2>1, <2>2 DEF TypeOK
  <2>4. seq' \in Nat /\ hub' \in Nat /\ up' \in {"down", "starting", "up"}
    BY ONLY <2>1, <2>2 DEF TypeOK
  <2> QED BY ONLY <1>1, <2>2, <2>3, <2>4 DEF TypeOK
<1>3. KeptIn(lines)'
  BY <1>1 DEF IInv, KeptIn
<1>4. (up = "starting" => seq = 0)' /\ (up = "up" /\ ~torn => tail = <<>>)'
  BY DEF Open, Close, vars, IInv
<1> QED BY <1>1, <1>2, <1>3, <1>4 DEF IInv

LEMMA StepInvariant == IInv /\ [Next]_vars => IInv'
BY AcknowledgeStep, RefuseStep, DieWritingStep, OpenOrCloseStep DEF Next

LEMMA AlwaysIInv == Spec => []IInv
<1>1. Init => IInv
  BY InitInvariant
<1>2. IInv /\ [Next]_vars => IInv'
  BY StepInvariant
<1> QED BY <1>1, <1>2, PTL DEF Spec

-----------------------------------------------------------------------------
(* The properties of the file.                                             *)

LEMMA LinesFacts ==
  ASSUME IInv
  PROVE  /\ Lines \in Seq(Seq(Piece)) /\ Len(Lines) = Len(lines) + 1
         /\ \A i \in 1 .. Len(lines) : i \in 1 .. Len(Lines) /\ Lines[i] = lines[i]
BY DEF IInv, TypeOK, Lines

(* Every part of the state of the log keeps its type.                      *)
THEOREM TypesKept == Spec => []TypeOK
<1>1. IInv => TypeOK
  BY DEF IInv
<1> QED BY <1>1, AlwaysIInv, PTL

(* No acknowledged record but a server_start is ever lost, however many    *)
(* writes fail and hubs die around it.                                     *)
THEOREM AcknowledgedAlwaysKept == Spec => []AcknowledgedKept
<1>1. IInv => AcknowledgedKept
  BY LinesFacts DEF IInv, KeptIn, AcknowledgedKept, IsRead, ReadAt
<1> QED BY <1>1, AlwaysIInv, PTL

(* What is read back is in the order of the writes, without repetition.    *)
THEOREM AlwaysReadInOrder == Spec => []ReadInOrder
<1>1. IInv => ReadInOrder
  <2> SUFFICES ASSUME IInv, NEW i \in 1 .. Len(Lines), NEW j \in 1 .. Len(Lines),
                      i < j, IsRecord(Lines[i]), IsRecord(Lines[j])
               PROVE  Lines[i][1].no < Lines[j][1].no
    BY DEF ReadInOrder
  <2>1. InOrderUpTo(Lines, <<>>, tried)
    BY EndLine DEF IInv, Lines
  <2>2. Before(Lines[i], Lines[j])
    BY <2>1 DEF InOrderUpTo
  <2> QED BY <2>2 DEF Before, IsRecord
<1> QED BY <1>1, AlwaysIInv, PTL

=============================================================================
