--------------------------- MODULE TraceRecorder ---------------------------
(***************************************************************************)
(* Trace files (src/litecoder/common/trace/recorder.py) that several       *)
(* processes append to, one at a time under a file lock.  A row carries    *)
(* the next number of its recorder, which learnt the last one from the     *)
(* file when it was started.  The command audit closes its recorder before *)
(* it gives the lock back (src/litecoder/cli/command_audit.py); a runtime  *)
(* keeps the recorder of a session for its next turn, when the session     *)
(* tree's lock has been elsewhere (src/litecoder/agent/runtime.py).        *)
(***************************************************************************)
EXTENDS Naturals, Sequences

CONSTANTS
    Recording,  \* processes
    Keeping,    \* BOOLEAN: the recorder outlives the lock
    MaxRows,    \* bound: numbers given out
    MaxCuts     \* bound: crashes and power cuts

VARIABLES
    recorder,   \* by process: its recorder
    sequence,   \* by process: the last number it gave
    queue,      \* by process: the numbers of the rows to be written
    file,       \* the numbers of the rows in the file
    tail,       \* what follows them: nothing, a part of a row, or no newline
    synced,     \* how many rows are known to be on the disk
    writing,    \* who has the file's lock
    kept,       \* the numbers of the rows a caller was told are durable
    cuts

vars == <<recorder, sequence, queue, file, tail, synced, writing, kept, cuts>>

RecorderStates == {"none", "open", "awaiting", "broken"}

TypeOK ==
    /\ recorder \in [Recording -> RecorderStates]
    /\ sequence \in [Recording -> Nat]
    /\ queue \in [Recording -> Seq(Nat)]
    /\ file \in Seq(Nat)
    /\ tail \in {"clean", "torn", "bare"}
    /\ synced \in Nat
    /\ writing \subseteq Recording
    /\ kept \subseteq Nat
    /\ cuts \in Nat

Init ==
    /\ recorder = [p \in Recording |-> "none"]
    /\ sequence = [p \in Recording |-> 0]
    /\ queue = [p \in Recording |-> <<>>]
    /\ file = <<>>
    /\ tail = "clean"
    /\ synced = 0
    /\ writing = {}
    /\ kept = {}
    /\ cuts = 0

Given(p) == sequence[p] + 1
LastSequence == IF file = <<>> THEN 0 ELSE file[Len(file)]

-----------------------------------------------------------------------------
(* The lock and the recorder's life.                                       *)

Take(p) ==
    /\ writing = {}
    /\ writing' = {p}
    /\ UNCHANGED <<recorder, sequence, queue, file, tail, synced, kept, cuts>>

OpenUnrepaired(p) ==
    /\ writing = {p}
    /\ recorder[p] = "none"
    /\ recorder' = [recorder EXCEPT ![p] = "open"]
    /\ sequence' = [sequence EXCEPT ![p] = LastSequence]
    /\ UNCHANGED <<queue, file, tail, synced, writing, kept, cuts>>

\* recover_last_sequence: what is not a row is cut off, and reported in a row of
\* its own; a row without its newline gets it.
Open(p) ==
    LET reports == IF tail = "torn" THEN <<LastSequence + 1>> ELSE <<>> IN
    /\ writing = {p}
    /\ recorder[p] = "none"
    /\ recorder' = [recorder EXCEPT ![p] = "open"]
    /\ tail' = "clean"
    /\ sequence' = [sequence EXCEPT ![p] = LastSequence + Len(reports)]
    /\ queue' = [queue EXCEPT ![p] = reports]
    /\ UNCHANGED <<file, synced, writing, kept, cuts>>

\* record_and_flush in the audit, which waits for the row; record in a turn.
Record(p) ==
    /\ writing = {p}
    /\ recorder[p] = "open"
    /\ Given(p) <= MaxRows
    /\ sequence' = [sequence EXCEPT ![p] = Given(p)]
    /\ queue' = [queue EXCEPT ![p] = Append(@, Given(p))]
    /\ recorder' = [recorder EXCEPT ![p] = IF Keeping THEN @ ELSE "awaiting"]
    /\ UNCHANGED <<file, tail, synced, writing, kept, cuts>>

\* The audit closes its recorder once it was told.  A turn leaves it, to be used in
\* the next one: its rows are written while it still stores its status and gives
\* back the lock, for the worker is ready as soon as a row is queued.
GiveBack(p) ==
    /\ writing = {p}
    /\ queue[p] = <<>>
    /\ Keeping \/ recorder[p] \in {"awaiting", "broken"}
    /\ writing' = {}
    /\ recorder' = [recorder EXCEPT ![p] = IF Keeping THEN @ ELSE "none"]
    /\ kept' = IF recorder[p] = "awaiting" THEN kept \cup {sequence[p]}
               ELSE kept
    /\ UNCHANGED <<sequence, queue, file, tail, synced, cuts>>

-----------------------------------------------------------------------------
(* _run: the worker that writes the queue.                                 *)

\* A row appended to a part of one, or to one without newline, is no row.
Written(number) ==
    /\ file' = IF tail = "clean" THEN Append(file, number) ELSE file
    /\ tail' = IF tail = "clean" THEN "clean" ELSE "torn"

\* Only the row somebody waits for is followed by an fsync, of the whole file.
Write(p) ==
    /\ recorder[p] \in {"open", "awaiting"}
    /\ queue[p] # <<>>
    /\ Written(Head(queue[p]))
    /\ queue' = [queue EXCEPT ![p] = Tail(@)]
    /\ synced' = IF recorder[p] = "awaiting" /\ Head(queue[p]) = sequence[p]
                 THEN Len(file') ELSE synced
    /\ UNCHANGED <<recorder, sequence, writing, kept, cuts>>

\* The disk is full, or the fsync fails: the worker is gone, and what it wrote
\* of the row is nothing, a part, or all of it.
WriteFails(p) ==
    /\ recorder[p] \in {"open", "awaiting"}
    /\ queue[p] # <<>>
    /\ \/ UNCHANGED <<file, tail>>
       \/ tail' = "torn" /\ UNCHANGED file
       \/ Written(Head(queue[p]))
    /\ queue' = [queue EXCEPT ![p] = <<>>]
    /\ recorder' = [recorder EXCEPT ![p] = "broken"]
    /\ cuts < MaxCuts
    /\ cuts' = cuts + 1
    /\ UNCHANGED <<sequence, synced, writing, kept>>

-----------------------------------------------------------------------------
(* A process dies, or the machine does.                                    *)

Ends(gone) ==
    /\ cuts < MaxCuts
    /\ cuts' = cuts + 1
    /\ recorder' =
          [p \in Recording |-> IF p \in gone THEN "none" ELSE recorder[p]]
    /\ queue' =
          [p \in Recording |-> IF p \in gone THEN <<>> ELSE queue[p]]
    /\ writing' = writing \ gone
    /\ UNCHANGED <<sequence, kept>>

\* The row being written may be there in part or without its newline.
Crash(p) ==
    /\ recorder[p] # "none" \/ p \in writing
    /\ Ends({p})
    /\ \/ UNCHANGED <<file, tail>>
       \/ /\ queue[p] # <<>>
          /\ tail' = "torn"
          /\ UNCHANGED file
       \/ /\ queue[p] # <<>>
          /\ tail = "clean"
          /\ file' = Append(file, Head(queue[p]))
          /\ tail' = "bare"
    /\ UNCHANGED synced

\* Rows that were not synced may be gone, the last one in part.
PowerCut ==
    /\ file # <<>>
    /\ Ends(Recording)
    /\ \E n \in synced .. Len(file) :
          /\ file' = SubSeq(file, 1, n)
          /\ tail' \in IF n < Len(file) THEN {"clean", "torn"} ELSE {tail}
    /\ UNCHANGED synced

Next ==
    \/ \E p \in Recording :
          \/ Take(p)
          \/ Open(p)
          \/ Record(p)
          \/ GiveBack(p)
          \/ Write(p)
          \/ WriteFails(p)
          \/ Crash(p)
    \/ PowerCut

Spec == Init /\ [][Next]_vars

-----------------------------------------------------------------------------
\* The rows of the audit are numbered from one without a gap or a repetition
\* whatever crashed in between, and a row whose command was told it is durable is
\* among them for good (recover_last_sequence, record_and_flush).
AuditIsComplete ==
    /\ \A i \in DOMAIN file : file[i] = i
    /\ \A number \in kept : number <= Len(file)

\* A row is identified by the trace and its number (_trace_record_identity,
\* src/litecoder/eval/execution.py).
NumbersIdentifyRows ==
    \A i, j \in DOMAIN file : file[i] = file[j] => i = j
=============================================================================
