------------------------------ MODULE LogFiles ------------------------------
(***************************************************************************)
(* Rotating log files (runtime/logs.rs) and `servicrab logs --follow'       *)
(* (cli/commands/logs.rs), which reads them while they are written.         *)
(*                                                                         *)
(* One service.  LogSink hands lines to a bounded queue, pump() writes them *)
(* from a blocking task, LogWriter rotates.  A file holds whole lines, and  *)
(* perhaps the beginning of one; its size is what the lines need.  The      *)
(* writer's handle is a file, not a name: `at' is the name its file has     *)
(* now, or Unlinked.  Any file system call may fail, FaultBound times.  The *)
(* follower looks at the same names from another process, so the calls that *)
(* change them are steps of their own.                                      *)
(***************************************************************************)
EXTENDS Integers, Sequences, SequencesExt, FiniteSets

CONSTANTS
    QueueCapacity,      \* QUEUE_CAPACITY
    FlushEveryLines,    \* FLUSH_EVERY_LINES
    MaxSize,            \* project.logs.max_size
    HistoryChoices,     \* the values of project.logs.max_files
    Needed(_),          \* bytes of a line, its newline included
    FaultBound          \* how many file system calls may fail

ASSUME LogFilesAssumption ==
    /\ {QueueCapacity, FlushEveryLines, MaxSize} \subseteq Nat \ {0}
    /\ HistoryChoices \subseteq Nat
    /\ FaultBound \in Nat

CONSTANTS Absent, Unlinked, NoLine

VARIABLES
    maxFiles,   \* project.logs.max_files
    queue,      \* lines on their way to the writer
    closed,     \* the LogSink is shut down: no more lines will come
    behind,     \* LogSink::dropped
    pump,       \* where pump() stands
    entry,      \* the line it is recording
    writer,     \* the LogWriter, or Absent until it is opened
    files,      \* files[0] is <service>.log, files[n] is <service>.log.n
    reported,   \* LogRouter::reported_error
    faults,     \* calls that failed
    accepted,   \* history: the lines the queue took, in order
    follower    \* `logs --follow': its position and what it printed

fileVars == <<maxFiles, queue, closed, behind, pump, entry, writer, files, reported,
              faults, accepted, follower>>

Size(lines) ==
    LET sum[n \in 0..Len(lines)] == IF n = 0 THEN 0 ELSE sum[n - 1] + Needed(lines[n])
    IN  sum[Len(lines)]

Names == 0..maxFiles

FilesInit ==
    /\ maxFiles \in HistoryChoices
    /\ queue = <<>>
    /\ closed = FALSE
    /\ behind = 0
    /\ pump = "poll"
    /\ entry = NoLine
    /\ writer = Absent
    /\ files = [n \in 0..maxFiles |-> Absent]
    /\ reported = FALSE
    /\ faults = 0
    /\ accepted = <<>>
    /\ follower = [at |-> "tail", offset |-> 0, printed |-> <<>>]

-----------------------------------------------------------------------------
(* LogSink, called by the collector. *)

\* LogSink::record: never waits; a line the writer is too far behind for is dropped.
Record(line) ==
    /\ ~closed
    /\ IF Len(queue) < QueueCapacity
         THEN /\ queue' = Append(queue, line)
              /\ accepted' = Append(accepted, line)
              /\ UNCHANGED behind
         ELSE /\ behind' = behind + 1
              /\ UNCHANGED <<queue, accepted>>
    /\ UNCHANGED <<maxFiles, closed, pump, entry, writer, files, reported, faults, follower>>

\* LogSink::shutdown: the queue's only sender is dropped.
Shut ==
    /\ ~closed
    /\ closed' = TRUE
    /\ UNCHANGED <<maxFiles, queue, behind, pump, entry, writer, files, reported, faults,
                   accepted, follower>>

-----------------------------------------------------------------------------
(* LogWriter. *)

\* A call of the file system that does not fail, and one that does.
Works == UNCHANGED faults

Fails ==
    /\ faults < FaultBound
    /\ faults' = faults + 1

\* What is on disk once the writer w has pushed its buffer out.
Flushed(fs, w) == IF w.at = Unlinked THEN fs ELSE [fs EXCEPT ![w.at] = @ \o w.buffer]

CleanCounter(w) == [w EXCEPT !.unflushed = 0]                    \* mutant

Clean(w) == [w EXCEPT !.buffer = <<>>, !.unflushed = 0]

\* LogWriter::flush and the flush of LogRouter: a failed one leaves the buffer as it
\* was and the counter at zero.
Flush ==
    IF writer = Absent
      THEN UNCHANGED <<writer, files, faults, reported>>
      ELSE \/ /\ Works
              /\ files' = Flushed(files, writer)
              /\ writer' = Clean(writer)
              /\ UNCHANGED reported
           \/ /\ writer.buffer # <<>>
              /\ Fails
              /\ writer' = [writer EXCEPT !.unflushed = 0]
              /\ reported' = TRUE
              /\ UNCHANGED files

\* write_line: rotate before a line that would not fit.
MustRotate(w, line) == w.size > 0 /\ w.size + Needed(line) > MaxSize

\* The line goes to the buffer, and the buffer to the file once it is long enough.
\* The buffer may spill on its own before, being of limited size.
Buffered(fs, w) ==
    LET held == [w EXCEPT !.buffer = Append(@, entry), !.size = @ + Needed(entry),
                          !.unflushed = @ + 1]
    IN  \/ /\ held.unflushed < FlushEveryLines
           /\ Works
           /\ \/ /\ writer' = held
                 /\ files' = fs
              \/ /\ writer' = [held EXCEPT !.buffer = <<entry>>]
                 /\ files' = Flushed(fs, w)
           /\ UNCHANGED reported
        \/ /\ held.unflushed >= FlushEveryLines
           /\ Works
           /\ writer' = Clean(held)
           /\ files' = Flushed(fs, held)
           /\ UNCHANGED reported
        \/ /\ held.unflushed >= FlushEveryLines
           /\ Fails
           /\ writer' = [held EXCEPT !.unflushed = 0]
           /\ files' = fs
           /\ reported' = TRUE

Recorded == pump' = "poll" /\ entry' = NoLine

\* Recording ended in an error: the line is lost, which is reported once.
Abandon ==
    /\ Fails
    /\ Recorded
    /\ reported' = TRUE
    /\ UNCHANGED <<maxFiles, queue, closed, behind, writer, files, accepted, follower>>

\* LogWriter::open: appends to what is there.
Open ==
    /\ pump = "record"
    /\ writer = Absent
    /\ \/ /\ Works
          /\ files' = [files EXCEPT ![0] = IF @ = Absent THEN <<>> ELSE @]
          /\ writer' = [at |-> 0, size |-> Size(files'[0]), buffer |-> <<>>, unflushed |-> 0]
          /\ UNCHANGED <<maxFiles, queue, closed, behind, pump, entry, reported, accepted,
                         follower>>
       \/ Abandon

\* write_line without a rotation.
Write ==
    /\ pump = "record"
    /\ writer # Absent
    /\ ~MustRotate(writer, entry)
    /\ Buffered(files, writer)
    /\ Recorded
    /\ UNCHANGED <<maxFiles, queue, closed, behind, accepted, follower>>

\* The write itself fails: the buffer was full and could not be pushed out.
WriteFails ==
    /\ pump = "record"
    /\ writer # Absent
    /\ ~MustRotate(writer, entry)
    /\ writer.buffer # <<>>
    /\ Abandon

\* The buffer is dropped with the old handle.
RotateUnflushed ==                                               \* mutant
    /\ pump = "record"
    /\ writer # Absent
    /\ MustRotate(writer, entry)
    /\ writer' = Clean(writer)
    /\ pump' = IF maxFiles = 0 THEN "truncate" ELSE "shift"
    /\ UNCHANGED <<maxFiles, queue, closed, behind, entry, files, reported, faults, accepted,
                   follower>>

\* rotate(): what is buffered belongs to the file that is rotated away.
RotateFlush ==
    /\ pump = "record"
    /\ writer # Absent
    /\ MustRotate(writer, entry)
    /\ \/ /\ Works
          /\ files' = Flushed(files, writer)
          /\ writer' = Clean(writer)
          /\ pump' = IF maxFiles = 0 THEN "truncate" ELSE "shift"
          /\ UNCHANGED <<entry, reported>>
       \/ /\ writer.buffer # <<>>
          /\ Fails
          /\ writer' = [writer EXCEPT !.unflushed = 0]
          /\ Recorded
          /\ reported' = TRUE
          /\ UNCHANGED files
    /\ UNCHANGED <<maxFiles, queue, closed, behind, accepted, follower>>

\* No history is kept: the file starts over.
Truncate ==
    /\ pump = "truncate"
    /\ \/ /\ Buffered([files EXCEPT ![0] = <<>>], [Clean(writer) EXCEPT !.at = 0, !.size = 0])
          /\ Recorded
          /\ UNCHANGED <<maxFiles, queue, closed, behind, accepted, follower>>
       \/ Abandon

\* The names above `stop' after the oldest file was removed and the others, from the
\* oldest to the youngest, were given the next name.
Shifted(fs, stop) ==
    [n \in DOMAIN fs |->
        CASE n <= stop    -> fs[n]
          [] n = stop + 1 -> Absent
          [] OTHER        -> fs[n - 1]]

\* Where the writer's file is afterwards.
HandleAfter(w, stop) ==
    [w EXCEPT !.at = CASE @ = Unlinked -> Unlinked
                       [] @ # Unlinked /\ @ <= stop -> @
                       [] @ # Unlinked /\ @ > stop -> IF @ = maxFiles THEN Unlinked ELSE @ + 1]

\* The renames of the rotated files, or the ones before the one that failed.  The
\* youngest rotated file is .1, so a complete pass leaves that name free.
Shift ==
    /\ pump = "shift"
    /\ \/ /\ Works
          /\ files' = Shifted(files, 0)
          /\ writer' = HandleAfter(writer, 0)
          /\ pump' = "rename"
          /\ UNCHANGED <<entry, reported>>
       \/ /\ Fails
          /\ \E stop \in 1..maxFiles :
                /\ files' = IF stop = maxFiles THEN files ELSE Shifted(files, stop)
                /\ writer' = IF stop = maxFiles THEN writer ELSE HandleAfter(writer, stop)
          /\ Recorded
          /\ reported' = TRUE
    /\ UNCHANGED <<maxFiles, queue, closed, behind, accepted, follower>>

\* <service>.log becomes <service>.log.1.  Without a file of that name the call fails.
Rename ==
    /\ pump = "rename"
    /\ \/ /\ files[0] # Absent
          /\ Works
          /\ files' = [files EXCEPT ![0] = Absent, ![1] = files[0]]
          /\ writer' = [writer EXCEPT !.at = IF @ = 0 THEN 1 ELSE @]
          /\ pump' = "reopen"
          /\ UNCHANGED <<entry, reported>>
       \/ /\ \/ files[0] = Absent /\ Works
             \/ files[0] # Absent /\ Fails
          /\ Recorded
          /\ reported' = TRUE
          /\ UNCHANGED <<files, writer>>
    /\ UNCHANGED <<maxFiles, queue, closed, behind, accepted, follower>>

\* A fresh <service>.log, and the line that did not fit into the old one.
Reopen ==
    /\ pump = "reopen"
    /\ \/ /\ Buffered([files EXCEPT ![0] = <<>>], [Clean(writer) EXCEPT !.at = 0, !.size = 0])
          /\ Recorded
          /\ UNCHANGED <<maxFiles, queue, closed, behind, accepted, follower>>
       \/ Abandon

-----------------------------------------------------------------------------
(* pump(): take a line, or flush and wait for one. *)

\* try_recv or blocking_recv has a line.
Receive ==
    /\ pump \in {"poll", "park"}
    /\ queue # <<>>
    /\ entry' = Head(queue)
    /\ queue' = Tail(queue)
    /\ pump' = "record"
    /\ UNCHANGED <<maxFiles, closed, behind, writer, files, reported, faults, accepted,
                   follower>>

\* The queue ran dry: everything goes to disk before the task parks.
CatchUp ==
    /\ pump = "poll"
    /\ queue = <<>>
    /\ ~closed
    /\ Flush
    /\ pump' = "park"
    /\ UNCHANGED <<maxFiles, queue, closed, behind, entry, accepted, follower>>

\* try_recv finds a queue that is empty and closed, or blocking_recv ends.
QueueEnds == closed /\ queue = <<>>

\* A parked task that the end of the queue does not wake.
LastWhenPolled ==                                                \* mutant
    /\ pump = "poll"
    /\ QueueEnds
    /\ Flush
    /\ pump' = "drop"
    /\ UNCHANGED <<maxFiles, queue, closed, behind, entry, accepted, follower>>

\* Nothing more is coming: one last flush.
LastFlush ==
    /\ pump \in {"poll", "park"}
    /\ QueueEnds
    /\ Flush
    /\ pump' = "drop"
    /\ UNCHANGED <<maxFiles, queue, closed, behind, entry, accepted, follower>>

\* Drop of the LogWriter: it flushes once more, and nobody hears of the result.
DropWriter ==
    /\ pump = "drop"
    /\ IF writer = Absent
         THEN UNCHANGED <<files, faults>>
         ELSE \/ Works /\ files' = Flushed(files, writer)
              \/ writer.buffer # <<>> /\ Fails /\ UNCHANGED files
    /\ writer' = Absent
    /\ pump' = "done"
    /\ UNCHANGED <<maxFiles, queue, closed, behind, entry, reported, accepted, follower>>

PumpStep ==
    \/ Receive \/ CatchUp \/ LastFlush \/ DropWriter \/ Open \/ Write \/ WriteFails \/ RotateFlush
    \/ Truncate \/ Shift \/ Rename \/ Reopen

-----------------------------------------------------------------------------
(* `servicrab logs --follow' *)

FileLen == IF files[0] = Absent THEN 0 ELSE Size(files[0])

\* The beginning of a line may be on disk, and its end still in the writer's buffer.
HalfLine ==
    IF writer = Absent \/ writer.at # 0 \/ writer.buffer = <<>> THEN {0}
    ELSE 0..(Needed(Head(writer.buffer)) - 1)

\* read_lines: what ends in <service>.log behind an offset.  Of a line that the offset
\* falls into the rest is read as if it were one; a half line is left alone.
LinesFrom(lines, offset) ==
    LET before == {k \in 0..Len(lines) : Size(SubSeq(lines, 1, k)) <= offset}
        k == CHOOSE b \in before : \A c \in before : c <= b
    IN  SubSeq(lines, k + 1, Len(lines))

\* read_tail of the last lines, all of them here.
ReadTail ==
    /\ follower.at = "tail"
    /\ follower' = [at |-> "len", offset |-> FileLen,
                    printed |-> IF files[0] = Absent THEN <<>> ELSE files[0]]

\* A file that did not grow is taken to be a fresh one.
LookAgain ==                                                     \* mutant
    /\ follower.at = "len"
    /\ \E half \in HalfLine :
          LET len  == FileLen + half
              from == IF len <= follower.offset THEN 0 ELSE follower.offset
          IN  follower' = [follower EXCEPT !.offset = from,
                                           !.at = IF len = from THEN "len" ELSE "read"]

\* file_len, and a file that shrank is taken to be a fresh one.
LookAtLength ==
    /\ follower.at = "len"
    /\ \E half \in HalfLine :
          LET len  == FileLen + half
              from == IF len < follower.offset THEN 0 ELSE follower.offset
          IN  follower' = [follower EXCEPT !.offset = from,
                                           !.at = IF len = from THEN "len" ELSE "read"]

\* read_lines, which may find another file than the one that was measured, or none.
ReadLines ==
    /\ follower.at = "read"
    /\ follower' = [follower EXCEPT
           !.at = "len",
           !.offset = IF files[0] = Absent \/ FileLen < @ THEN @ ELSE FileLen,
           !.printed = IF files[0] = Absent THEN @ ELSE @ \o LinesFrom(files[0], follower.offset)]

FollowerStep ==
    /\ ReadTail \/ LookAtLength \/ ReadLines
    /\ UNCHANGED <<maxFiles, queue, closed, behind, pump, entry, writer, files, reported,
                   faults, accepted>>
=============================================================================
