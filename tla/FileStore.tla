------------------------------ MODULE FileStore ------------------------------
(****************************************************************************)
(* history.FileStore: the journal file of one target, one JSON object per   *)
(* line, appended and then synced.  A receipt reaches the page cache in one *)
(* write, whole or cut short by a full disk, and the disk with the next     *)
(* successful sync; a power loss keeps what was synced and any prefix of    *)
(* the bytes behind it.                                                     *)
(*                                                                          *)
(* A line is what the JSON decoder makes of it: a receipt, or Garbled.  A   *)
(* line without its newline is joined by whatever is written next.          *)
(****************************************************************************)
EXTENDS Naturals, Sequences, Functions

CONSTANTS
  Receipts,
  Oversized,   \* those whose line is longer than bufio.Scanner's 64 KB token
  Writers,     \* concurrent callers of Append
  None, Garbled, Unreadable,
  FaultKinds,  \* faults of the environment
  MaxFaults, MaxLines

ASSUME FileStoreAssumption ==
  /\ Oversized \subseteq Receipts
  /\ None \notin Receipts /\ Garbled \notin Receipts /\ Unreadable \notin Seq(Receipts)
  /\ FaultKinds \subseteq {"kill", "power", "short", "sync"}
  /\ MaxFaults \in Nat /\ MaxLines \in Nat

VARIABLES
  file,     \* lines as a reader sees them
  durable,  \* the file as of the last successful sync
  pending,  \* pending[w]: the receipt w's Append is storing
  written,  \* written[w]: w's write returned, its sync has not
  acked,    \* receipts whose Append returned nil
  faults

vars == <<file, durable, pending, written, acked, faults>>

Line == [holds : Receipts \cup {Garbled}, ended : BOOLEAN]
Piece(x, ended) == [holds |-> x, ended |-> ended]

Fault(kind) == kind \in FaultKinds /\ faults < MaxFaults /\ faults' = faults + 1

\* Mutant: the file is opened with O_TRUNC instead of O_APPEND.
WrittenOver(lines, piece) == <<piece>>

\* O_APPEND: bytes go behind the last line, or into it if it has no newline.
Written(lines, piece) ==
  IF lines = <<>> \/ lines[Len(lines)].ended THEN Append(lines, piece)
  ELSE [lines EXCEPT ![Len(lines)] = Piece(Garbled, piece.ended)]

Init ==
  /\ file = <<>> /\ durable = <<>>
  /\ pending = [w \in Writers |-> None]
  /\ written = [w \in Writers |-> FALSE]
  /\ acked = {}
  /\ faults = 0

\* Mutant: the line of an Append that ended still waits for its sync.
LeaveWritten(w) ==
  /\ pending' = [pending EXCEPT ![w] = None]
  /\ UNCHANGED written

\* What w's Append leaves behind when it returns or dies.
Leave(w) ==
  /\ pending' = [pending EXCEPT ![w] = None]
  /\ written' = [written EXCEPT ![w] = FALSE]
-----------------------------------------------------------------------------
\* Append: the file is open, the line marshalled.
Open(w, r) ==
  /\ pending[w] = None
  /\ r \notin acked \cup Range(pending) /\ Len(file) < MaxLines
  /\ pending' = [pending EXCEPT ![w] = r]
  /\ UNCHANGED <<file, durable, written, acked, faults>>

Write(w) ==
  /\ pending[w] # None /\ ~written[w]
  /\ file' = Written(file, Piece(pending[w], TRUE))
  /\ written' = [written EXCEPT ![w] = TRUE]
  /\ UNCHANGED <<durable, pending, acked, faults>>

\* The disk is full: part of the line is written, Append returns the error.
WriteShort(w) ==
  /\ pending[w] # None /\ ~written[w]
  /\ Fault("short")
  /\ file' \in {file} \cup {Written(file, Piece(x, FALSE)) : x \in {Garbled, pending[w]}}
  /\ Leave(w)
  /\ UNCHANGED <<durable, acked>>

\* Mutant: Append returns nil without a sync.
SyncSkipped(w) ==
  /\ written[w]
  /\ acked' = acked \cup {pending[w]}
  /\ Leave(w)
  /\ UNCHANGED <<file, durable, faults>>

\* Sync succeeds, Append returns nil.
Sync(w) ==
  /\ written[w]
  /\ durable' = file
  /\ acked' = acked \cup {pending[w]}
  /\ Leave(w)
  /\ UNCHANGED <<file, faults>>

\* Sync fails, Append returns the error; the bytes stay in the page cache.
SyncFails(w) ==
  /\ written[w]
  /\ Fault("sync")
  /\ Leave(w)
  /\ UNCHANGED <<file, durable, acked>>

\* The process dies; the page cache does not.
Kill(w) ==
  /\ pending[w] # None
  /\ Fault("kill")
  /\ Leave(w)
  /\ UNCHANGED <<file, durable, acked>>

\* The bytes a power loss may leave of the unsynced lines: whole lines, and of
\* the next one nothing, a part, or all but its newline.
Survivals ==
  {durable} \cup UNION {
    {SubSeq(file, 1, k)} \cup
      (IF k = Len(file) THEN {}
       ELSE {Append(SubSeq(file, 1, k), Piece(x, FALSE)) : x \in {Garbled, file[k + 1].holds}}) :
    k \in Len(durable)..Len(file)}

PowerLoss ==
  /\ Fault("power")
  /\ file' \in Survivals
  /\ durable' = file'
  /\ pending' = [w \in Writers |-> None]
  /\ written' = [w \in Writers |-> FALSE]
  /\ UNCHANGED acked

Next ==
  \/ PowerLoss
  \/ \E w \in Writers : \/ Write(w) \/ WriteShort(w) \/ Sync(w) \/ SyncFails(w) \/ Kill(w)
                        \/ \E r \in Receipts : Open(w, r)

Spec == Init /\ [][Next]_vars
-----------------------------------------------------------------------------
\* List: every line, empty ones apart, must decode and fit the scanner's token.
Readable == \A i \in DOMAIN file : file[i].holds \in Receipts \ Oversized
Listed == [i \in DOMAIN file |-> file[i].holds]
List == IF Readable THEN Listed ELSE Unreadable

TypeOK ==
  /\ file \in Seq(Line) /\ durable \in Seq(Line)
  /\ pending \in [Writers -> Receipts \cup {None}]
  /\ written \in [Writers -> BOOLEAN]
  /\ \A w \in Writers : written[w] => pending[w] # None
  /\ acked \subseteq Receipts
  /\ faults \in 0..MaxFaults

\* "The write is flushed before returning so a completed Append is durable":
\* whatever was killed, cut short or lost with the power, a List that answers
\* at all tells every receipt that was acknowledged.
FailsClosed == Readable => acked \subseteq Range(Listed)

\* FileStore keeps the promise the reconciler relies on.
Store == INSTANCE ReceiptStore WITH answer <- List
ImplementsStore == Store!Spec

===============================================================================
