---------------------------- MODULE JournalFile -----------------------------
(***************************************************************************)
(* The journal on disk (cpp/ito_journal/journal_file.cpp) and the tool     *)
(* that lists the orders it leaves uncertain                               *)
(* (python/ops_tools/reconcile_uncertain_orders.py).                       *)
(*                                                                         *)
(* The file is a sequence of written pieces.  A piece is a whole line with *)
(* its newline, or the start of one that a crash cut off: before its       *)
(* sequence number, inside it or after it.  A line ends with a whole piece *)
(* and may begin with cut ones.                                            *)
(***************************************************************************)
EXTENDS Integers, Sequences, FiniteSetsExt

CONSTANTS
  Correlations,
  Radix,          \* the radix numbers are written in, 10 in the code
  MaxAppends,     \* bound on the records written, whole or not
  MaxReopens,     \* bound on the restarts
  MaxTears        \* bound on the crashes in the middle of a line

VARIABLES
  file,           \* pieces: [sequence, type, correlation, cut]
  good, last,     \* stream_.good() and last_sequence_ of the open journal
  tears, reopens

journalVars == <<file, good, last, tears, reopens>>

Piece(type, c, cut) ==
  [sequence |-> last + 1, type |-> type, correlation |-> c, cut |-> cut]
Whole(p) == p.cut = "no"

JournalInit ==
  /\ file = << >> /\ good = TRUE /\ last = 0
  /\ tears = 0 /\ reopens = 0

\* append, called with last_sequence() + 1: any other number is refused
AppendRecord(type, c) ==
  /\ good /\ Len(file) < MaxAppends
  /\ file' = Append(file, Piece(type, c, "no"))
  /\ last' = last + 1
  /\ UNCHANGED <<good, tears, reopens>>

-----------------------------------------------------------------------------
(* Opening                                                                 *)

\* The positions at which a line starts.
LineStarts == {n \in DOMAIN file : n = 1 \/ Whole(file[n - 1])}
LineEnd(n) ==
  LET ends == {m \in n .. Len(file) : Whole(file[m])}
  IN IF ends = {} THEN Len(file) ELSE CHOOSE m \in ends : \A k \in ends : m <= k

\* The first marker of a line, and what stoull makes of the digits after it: 0 stands
\* for an exception.
Markers(n) == {m \in n .. LineEnd(n) : file[m].cut # "before"}
FirstMarker(n) == CHOOSE m \in Markers(n) : \A k \in Markers(n) : m <= k
NumberAt(m) == IF file[m].cut = "inside" THEN file[m].sequence \div Radix ELSE file[m].sequence

\* Mutant: only the first line is read.
ScanFirstLine ==
  LET lines == {n \in LineStarts : Markers(n) # {}}
  IN [good |-> TRUE, last |-> IF lines = {} THEN 0 ELSE NumberAt(FirstMarker(1))]

\* The constructor: the number of the last line that has one; at digits it cannot read
\* it fails the stream and stops.
Scan ==
  LET lines == {n \in LineStarts : Markers(n) # {}}
      number(n) == NumberAt(FirstMarker(n))
      read == {n \in lines : \A m \in lines : m <= n => number(m) # 0}
  IN [good |-> read = lines, last |-> IF read = {} THEN 0 ELSE number(Max(read))]

\* The process ends, orderly or not, and opens its journal again.
Reopen ==
  /\ reopens < MaxReopens
  /\ reopens' = reopens + 1
  /\ good' = Scan.good /\ last' = Scan.last
  /\ UNCHANGED <<file, tears>>

\* The write fails, or the process dies while a line is on its way to the disk.
TearLine(type, c, cut) ==
  /\ good /\ Len(file) < MaxAppends
  /\ tears < MaxTears
  /\ file' = Append(file, Piece(type, c, cut))
  /\ tears' = tears + 1
  /\ good' = FALSE
  /\ UNCHANGED <<last, reopens>>

\* The engine sends an order once, and journals acknowledgements of orders it sent.
Journaled(type, c) == \E n \in DOMAIN file : file[n].type = type /\ file[n].correlation = c
Due(type, c) == ~Journaled(type, c) /\ (type = "ack" => Journaled("sent", c))

JournalNext ==
  \/ \E type \in {"sent", "ack"}, c \in Correlations :
       /\ Due(type, c)
       /\ \/ AppendRecord(type, c)
          \/ \E cut \in {"before", "inside", "after"} : TearLine(type, c, cut)
  \/ Reopen

JournalSpec == JournalInit /\ [][JournalNext]_journalVars

-----------------------------------------------------------------------------
(* The reader                                                              *)

\* The lines that parse: one whole piece and nothing before it.
Parses(n) == n \in LineStarts /\ Whole(file[n])

\* reconcile_orders without auto_resolve, on the lines JournalFile writes: they carry no
\* correlation_id, so every one has the default 0 and an acknowledgement takes all
\* orders before it off the list
UncertainOrders ==
  {file[n].correlation : n \in
     {k \in DOMAIN file : /\ Parses(k) /\ file[k].type = "sent"
                          /\ \A m \in k + 1 .. Len(file) :
                               Parses(m) => file[m].type = "sent"}}

-----------------------------------------------------------------------------
(* Properties                                                              *)

\* Without torn lines the numbers of the records are 1, 2, 3 ... over all restarts, and
\* the journal stays good (the constructor).
NumbersSurviveRestarts ==
  tears = 0 => good /\ last = Len(file) /\ \A n \in DOMAIN file : file[n].sequence = n

\* "Mark the order as resolved only after an authoritative venue response and local event
\* record agree": an order that was sent and not acknowledged is reported uncertain.
UnansweredIsUncertain ==
  \A n \in DOMAIN file :
    (Parses(n) /\ file[n].type = "sent" /\ \A m \in n + 1 .. Len(file) :
       ~(file[m].type = "ack" /\ file[m].correlation = file[n].correlation))
    => file[n].correlation \in UncertainOrders
=============================================================================
