----------------------------- MODULE LogPipeline -----------------------------
(***************************************************************************)
(* The way of a service's output: its readers, the event channel, the       *)
(* daemon's collector (cli/daemon/server.rs) and the log files.             *)
(***************************************************************************)
EXTENDS EventChannel, LogFiles

\* A line takes its newline at least; the markers are none of the things they mark.
ASSUME PipelineAssumption ==
    /\ \A s \in Senders : \A n \in 1..LineBound[s] : Needed(Line(s, n)) \in Nat \ {0}
    /\ Absent \notin Seq(LogLines)
    /\ Absent \notin [at : Nat \cup {Unlinked}, size : Nat, buffer : Seq(LogLines), unflushed : Nat]
    /\ Unlinked \notin Nat

VARIABLE collector      \* where collect() stands, and the event it has taken

vars == <<channelVars, fileVars, collector>>

Init ==
    /\ ChannelInit
    /\ FilesInit
    /\ collector = [at |-> "recv", event |-> NoLine]

\* events.recv() yields an event.
CollectTake ==
    /\ collector.at = "recv"
    /\ Take
    /\ collector' = [at |-> "handle", event |-> Head(channel)]
    /\ UNCHANGED fileVars

\* The body of collect()'s loop: a line goes to the sink.  The registry and the
\* subscribers get the event too, and cannot hold it up.
CollectHandle ==
    /\ collector.at = "handle"
    /\ Release(collector.event)
    /\ IF IsLog(collector.event) THEN Record(collector.event) ELSE UNCHANGED fileVars
    /\ collector' = [at |-> "recv", event |-> NoLine]

\* Every sender is gone and the channel is empty: shut the sink down.
CollectEnd ==
    /\ collector.at = "recv"
    /\ open
    /\ AllGone
    /\ channel = <<>>
    /\ Shut
    /\ collector' = [collector EXCEPT !.at = "drain"]
    /\ UNCHANGED channelVars

\* A sender outlives the stack: serve() waits COLLECTOR_GRACE and goes on, and the
\* end of the runtime drops the collector, its receiver and its sink.
GiveUp ==
    /\ collector.at = "recv"
    /\ \E s \in Senders : sender[s].at = "done"
    /\ Hangup
    /\ Shut
    /\ collector' = [collector EXCEPT !.at = "drain"]

\* sink.shutdown() returns once the writer has.
CollectDone ==
    /\ collector.at = "drain"
    /\ pump = "done"
    /\ collector' = [collector EXCEPT !.at = "done"]
    /\ UNCHANGED <<channelVars, fileVars>>

CollectorStep == CollectTake \/ CollectHandle \/ CollectEnd \/ CollectDone

Next ==
    \/ \E s \in Senders : SenderStep(s) /\ UNCHANGED <<fileVars, collector>>
    \/ CollectorStep
    \/ GiveUp
    \/ PumpStep /\ UNCHANGED <<channelVars, collector>>
    \/ FollowerStep /\ UNCHANGED <<channelVars, collector>>

\* The senders' tasks, the collector and the blocking writer are scheduled; a disk
\* that never answers is a fault of its own and not modelled.
Fairness ==
    /\ \A s \in Senders : WF_vars(SenderStep(s) /\ UNCHANGED <<fileVars, collector>>)
    /\ WF_vars(CollectorStep)
    /\ WF_vars(PumpStep /\ UNCHANGED <<channelVars, collector>>)

Spec == Init /\ [][Next]_vars /\ Fairness

-----------------------------------------------------------------------------
Writers == [at : Names \cup {Unlinked}, size : Nat, buffer : Seq(LogLines), unflushed : Nat]

TypeOK ==
    /\ ChannelTypeOK
    /\ queue \in Seq(LogLines) /\ accepted \in Seq(LogLines)
    /\ closed \in BOOLEAN /\ reported \in BOOLEAN
    /\ behind \in Nat /\ faults \in 0..FaultBound
    /\ pump \in {"poll", "park", "record", "truncate", "shift", "rename", "reopen", "drop", "done"}
    /\ entry \in LogLines \cup {NoLine}
    /\ writer \in Writers \cup {Absent}
    /\ files \in [Names -> Seq(LogLines) \cup {Absent}]

Contents(n) == IF files[n] = Absent THEN <<>> ELSE files[n]

\* The lines on disk, the oldest first, and the ones still in the writer's buffer.
OnDisk == FlattenSeq([i \in 1..(maxFiles + 1) |-> Contents(maxFiles + 1 - i)])

Kept == OnDisk \o (IF writer = Absent THEN <<>> ELSE writer.buffer)

Place(line) == CHOOSE i \in DOMAIN accepted : accepted[i] = line

\* logs.rs: "Ordering per service is preserved": whatever fails half-way, the files
\* from the oldest to the current one hold the lines in the order they came, none
\* of them twice.
LogIsInOrder ==
    /\ ToSet(Kept) \subseteq ToSet(accepted)
    /\ \A i, j \in DOMAIN Kept : i < j => Place(Kept[i]) < Place(Kept[j])

\* logs.rs: a line that was accepted is lost loudly or by falling off the end: as
\* long as no error was reported, what is missing is the beginning, and only when
\* every file that may be kept is there.
NothingIsLostSilently ==
    pump \in {"poll", "park", "done"} /\ ~reported =>
        LET all == Kept \o queue IN
        /\ IsSuffix(all, accepted)
        /\ all # accepted => \A n \in Names : files[n] # Absent

\* collect() and LogSink::shutdown: once the senders are gone, or were given up, the
\* queued lines are written and the writer ends, whatever fails on the way.
PipelineDrains == <>(pump = "done" /\ queue = <<>> /\ collector.at = "done")

\* cli/commands/logs.rs: a follower prints a line "once rather than twice", and in
\* order, across rotations, truncations and failed reopens.  A line counts as printed
\* when its rest was: a follower that missed a rotation goes on inside the new file.
FollowPrintsOnce ==
    /\ ToSet(follower.printed) \subseteq ToSet(accepted)
    /\ \A i, j \in DOMAIN follower.printed :
          i < j => Place(follower.printed[i]) < Place(follower.printed[j])
=============================================================================
