------------------------------- MODULE Records -------------------------------
(***************************************************************************)
(* The record file (src/rco/records.py): Records.write appends one line to *)
(* an O_APPEND descriptor and the call returns once every byte is in the   *)
(* file; a write that fails part-way leaves what it wrote, and the next    *)
(* one starts on a fresh line.  read_events takes every line that is one   *)
(* whole record.                                                           *)
(*                                                                         *)
(* A line is the sequence of the pieces of records that ended up in it, a  *)
(* piece being whole (all of the JSON object) or cut short.  A process     *)
(* that dies inside a write leaves the same prefixes behind as a write     *)
(* that fails, but the next hub does not know.  Loss of power, which may   *)
(* take more than the last write, is not modelled.                         *)
(***************************************************************************)
EXTENDS Integers, Sequences

CONSTANTS
  MaxWrites, (* bound: records tried                                       *)
  MaxStarts  (* bound: runs of the hub                                     *)

ASSUME RecordsAssumption ==
  /\ MaxWrites \in Nat
  /\ MaxStarts \in Nat

VARIABLES
  lines,   (* the lines of the file that have their line end               *)
  tail,    (* what follows the last line end                               *)
  torn,    (* Records._torn: this hub run left a fragment                  *)
  seq,     (* Records._seq                                                 *)
  hub,     (* the number of the hub run                                    *)
  up,      (* down, starting (server_start not yet written) or up          *)
  tried,   (* number of the last record tried                              *)
  acked,   (* the records whose write returned                             *)
  refused  (* the records whose write raised RecordWriteError              *)

file  == <<lines, tail>>
vars  == <<lines, tail, torn, seq, hub, up, tried, acked, refused>>

Piece == [no : Nat, hub : Nat, seq : Nat, whole : BOOLEAN]

(* The record tried next, as a whole and cut short.                        *)
Whole == [no |-> tried + 1, hub |-> hub, seq |-> seq + 1, whole |-> TRUE]
Cut   == [Whole EXCEPT !.whole = FALSE]

(* The first record of a hub run is its server_start.                      *)
IsStart(p) == p.seq = 1

Init ==
  /\ lines = <<>>
  /\ tail = <<>>
  /\ torn = FALSE
  /\ seq = 0
  /\ hub = 0
  /\ up = "down"
  /\ tried = 0
  /\ acked = {}
  /\ refused = {}

-----------------------------------------------------------------------------
(* _append.                                                                *)

(* Mutants: no fresh line after a fragment; the bytes of the failed write  *)
(* are written again before the fresh line.                                *)
NoFreshLine == [lines |-> lines, tail |-> tail]
BytesAgain ==
  IF torn
  THEN [lines |-> lines \o <<tail, tail>>, tail |-> <<>>]
  ELSE [lines |-> lines, tail |-> tail]

(* The file once the line end that follows a fragment, if any, is in it.   *)
Fresh ==
  IF torn
  THEN [lines |-> Append(lines, tail), tail |-> <<>>]
  ELSE [lines |-> lines, tail |-> tail]

(* Every byte of the line is in the file.                                  *)
Complete ==
  /\ lines' = Append(Fresh.lines, Append(Fresh.tail, Whole))
  /\ tail' = <<>>

(* At least one byte is, but not all: the fresh line only, a part of the   *)
(* record, or all of it but its line end.                                  *)
Short ==
  /\ lines' = Fresh.lines
  /\ tail' \in {Append(Fresh.tail, Whole), Append(Fresh.tail, Cut)}
               \cup (IF torn THEN {Fresh.tail} ELSE {})

Trying ==
  /\ up # "down"
  /\ tried < MaxWrites
  /\ tried' = tried + 1

-----------------------------------------------------------------------------
(* Records and Hub.__init__.                                               *)

(* A new hub opens the file; what an earlier one left in it is unknown.    *)
Open ==
  /\ up = "down"
  /\ hub < MaxStarts
  /\ hub' = hub + 1
  /\ up' = "starting"
  /\ torn' = FALSE
  /\ seq' = 0
  /\ UNCHANGED <<lines, tail, tried, acked, refused>>

(* write returns.                                                          *)
Acknowledge ==
  /\ Trying
  /\ Complete
  /\ torn' = FALSE
  /\ seq' = seq + 1
  /\ up' = "up"
  /\ acked' = acked \cup {Whole}
  /\ UNCHANGED <<hub, refused>>

(* A hub that cannot write its server_start does not start.                *)
AfterRefusal == [starting |-> "down", up |-> "up"]

(* write raises, and the caller takes the record as not written.           *)

Refuse ==
  /\ Trying
  /\ \/ UNCHANGED <<lines, tail, torn>>
     \/ Short /\ torn' = TRUE
  /\ up' = AfterRefusal[up]
  /\ refused' = refused \cup {Whole}
  /\ UNCHANGED <<hub, seq, acked>>

(* The process dies inside a write: nobody learns what became of it.       *)
DieWriting ==
  /\ Trying
  /\ Complete \/ Short
  /\ up' = "down"
  /\ UNCHANGED <<torn, seq, hub, acked, refused>>

(* The hub stops, or dies between two writes.                              *)
Close ==
  /\ up # "down"
  /\ up' = "down"
  /\ UNCHANGED <<lines, tail, torn, seq, hub, tried, acked, refused>>

Next == Open \/ Acknowledge \/ Refuse \/ DieWriting \/ Close

Spec == Init /\ [][Next]_vars

-----------------------------------------------------------------------------
(* read_events.                                                            *)

IsRecord(line) == Len(line) = 1 /\ line[1].whole

(* The lines of the file, the last one with or without its line end.       *)
Lines == Append(lines, tail)

ReadAt(i, p) == Lines[i] = <<p>> /\ p.whole

IsRead(p) == \E i \in 1 .. Len(Lines) : ReadAt(i, p)

-----------------------------------------------------------------------------
(* What must hold.                                                         *)

(* Every part of the state has its type.                                   *)
TypeOK ==
  /\ lines \in Seq(Seq(Piece))
  /\ tail \in Seq(Piece)
  /\ torn \in BOOLEAN
  /\ seq \in Nat
  /\ hub \in Nat
  /\ up \in {"down", "starting", "up"}
  /\ tried \in Nat
  /\ acked \subseteq Piece
  /\ refused \subseteq Piece

(* A record whose write returned is read back, whatever fragments failed   *)
(* writes and dying hubs leave around it; all but a server_start, which    *)
(* may follow a fragment its hub knows nothing of (Records.write).         *)
AcknowledgedKept == \A p \in acked : IsStart(p) \/ IsRead(p)

(* Records are read back in the order they were tried in, each at most     *)
(* once: nothing a failed write left is written again (records.py:8).      *)
ReadInOrder ==
  \A i, j \in 1 .. Len(Lines) :
    i < j /\ IsRecord(Lines[i]) /\ IsRecord(Lines[j]) =>
      Lines[i][1].no < Lines[j][1].no

-----------------------------------------------------------------------------
(* What the code says of itself.                                           *)

(* The module's docstring (records.py:8): a refused action does not reach  *)
(* the record later, in a line of its own.                                 *)
RefusedStaysOut ==
  \A p \in refused, i \in 1 .. Len(lines) : lines[i] # <<p>>

(* The docstring of read_events: a torn fragment loses only itself.        *)
FragmentLosesOnlyItself == \A p \in acked : IsRead(p)

=============================================================================
