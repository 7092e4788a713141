---------------------------- MODULE DaemonClients ----------------------------
(***************************************************************************)
(* The daemon's socket in use: `servicrab events', `servicrab start --wait'   *)
(* (cli/commands/daemon.rs), commands of another user, and programs of         *)
(* their own, on a daemon with few connections to give.                        *)
(*                                                                         *)
(* `start' without names has spawned the daemon and only waits; with names it  *)
(* asks whether a daemon is there, asks for one service after the other, and   *)
(* then waits.  "other" is the service that is up all the time.                *)
(***************************************************************************)
EXTENDS Connections

CONSTANTS
    Waits,      \* the connections of `start --wait', a subset of Sends
    Casts,      \* who may be there together, what was announced before, how many
                \* more events there are, and the names `start' is given
    NoCall

ASSUME ClientAssumption ==
    /\ Waits \subseteq Sends /\ NoCall \notin Conns
    /\ \A k \in Casts : k.conns \subseteq Conns /\ k.events \in Nat /\ k.past \in Seq(Kinds)
                         /\ k.names \in Seq({"service", "other"})

VARIABLES
    cast,       \* which of them this behaviour has
    wait        \* `start --wait'

vars == <<streamVars, connVars, cast, wait>>

\* `start --wait' is at a stage of its own program, in a call, with names left to start.
Init ==
    /\ cast \in Casts
    /\ StreamInit(cast.past) /\ ConnInit
    /\ wait = [stage |-> IF Waits \cap cast.conns = {} THEN "idle"
                         ELSE IF cast.names = <<>> THEN "poll" ELSE "check",
               call |-> NoCall, todo |-> cast.names, failed |-> FALSE, from |-> 0, seen |-> 0]

\* The request of each stage.  The stack refuses to start what runs.
Asks ==
    CASE wait.stage = "check" -> "ping"
      [] wait.stage = "names" -> IF Head(wait.todo) = "service" THEN "start" ELSE "start_other"
      [] wait.stage = "poll"  -> "status"

WaitCalls(c) ==
    /\ c \in Waits \cap cast.conns /\ wait.call = NoCall /\ wait.stage \in {"check", "names", "poll"}
    /\ Connect(c, Asks)
    /\ wait' = [wait EXCEPT !.call = c]

Heard(kinds) ==
    /\ wait.call # NoCall /\ call[wait.call] = "gone"
    /\ outcome[wait.call].kind \in kinds

\* The command goes on with what the call returned.
Returned == outcome' = [outcome EXCEPT ![wait.call] = Nothing]

WaitGoes(stage) == wait' = [wait EXCEPT !.call = NoCall, !.stage = stage]

\* expect_a_daemon.
WaitChecks ==
    /\ wait.stage = "check" /\ Heard({"pong"})
    /\ WaitGoes("names")

\* control: a refusal is reported, and the next name tried all the same.
WaitNames ==
    /\ wait.stage = "names" /\ Heard({"ok", "error"})
    /\ LET failed == wait.failed \/ outcome[wait.call].kind = "error"
           stage  == IF Len(wait.todo) > 1 THEN "names" ELSE IF failed THEN "refused" ELSE "poll"
       IN wait' = [wait EXCEPT !.call = NoCall, !.stage = stage, !.todo = Tail(@),
                               !.failed = failed, !.from = applied]

\* wait_for_ready, with the snapshot of one poll.  The other service is always ready.
Judge ==
    LET seen    == outcome[wait.call].n
        verdict == Readiness(Snapshot(seen))
    IN \/ /\ verdict # "waiting"
          /\ wait' = [wait EXCEPT !.call = NoCall, !.stage = verdict, !.seen = seen]
       \/ /\ verdict = "waiting"
          /\ WaitGoes("poll") \/ WaitGoes("timeout")

WaitPolls == wait.stage = "poll" /\ Heard({"status"}) /\ Judge

\* Any other answer, and no answer, ends the command with an error.
WaitErrs ==
    /\ Heard({"NotRunning", "Failed", "refused"})
    /\ WaitGoes("error")

WaitStep == WaitChecks \/ WaitNames \/ WaitPolls \/ WaitErrs

Opens(c, line) == Connect(c, line) /\ call[c] = "idle" /\ UNCHANGED wait

Next ==
    \/ /\ UNCHANGED <<cast>>
       /\ \/ \E c \in Waits : WaitCalls(c)
          \/ /\ WaitStep /\ Returned
             /\ UNCHANGED <<streamVars, daemonEnd, inbox, outbox, call, request, hello, heard>>
          \/ \E c \in (Sends \ Waits) \cap cast.conns : Opens(c, "ping")
          \/ \E c \in Follows \cap cast.conns : Opens(c, "subscribe")
          \/ \E c \in Programs \cap cast.conns : Opens(c, "ping")
          \/ /\ UNCHANGED wait
             /\ \/ \E c \in cast.conns : Accept(c) \/ TaskStep(c) \/ CallStep(c) \/ HangUp(c)
                \/ \E c \in Programs \cap cast.conns :
                      ProgramReads(c) \/ \E line \in Lines : ProgramWrites(c, line)
                \/ StopAccepting \/ Exit
                \/ /\ Len(events) < Len(cast.past) + cast.events
                   /\ \E kind \in Kinds : Announce(kind)
                   /\ UNCHANGED connVars
                \/ (CollectApply \/ CollectSend) /\ UNCHANGED connVars

\* The runtime runs every task, the commands are processes of their own and time out.
\* Nothing obliges the supervisor, a program or the operator.
Fairness ==
    /\ WF_vars((CollectApply \/ CollectSend) /\ UNCHANGED <<connVars, cast, wait>>)
    /\ \A c \in Conns :
        /\ WF_vars((Accept(c) \/ TaskStep(c)) /\ UNCHANGED <<cast, wait>>)
        /\ WF_vars(CallStep(c) /\ UNCHANGED <<cast, wait>>)

Spec == Init /\ [][Next]_vars /\ Fairness

-----------------------------------------------------------------------------
TypeOK ==
    /\ events \in Seq(Kinds) /\ applied \in 0..Len(events) /\ sent \in 0..applied
    /\ daemon \in {"serving", "closing", "gone"}
    /\ permits \in 0..MaxConnections
    /\ conn \in [Conns -> Closed \cup Serving \cup {"backlog"}]
    /\ call \in [Conns -> {"idle", "open", "reading", "following", "gone"}]
    /\ wait.stage \in {"idle", "check", "names", "poll", "refused", "ready", "gone", "timeout", "error"}

\* What a subscriber heard, up to an item of it: the events by their numbers, and a
\* place for each event that it was told it missed.
Got(q, k)  == {q[j].n : j \in {j \in 1..k : q[j].kind = "event"}}
Told(q, k) == UNION {{j} \X (1..q[j].n) : j \in {j \in 1..k : q[j].kind = "lagged"}}

\* The events after the first `from' and up to `to' that it wants and did not get.
Missing(c, q, k, from, to) ==
    {i \in (from + 1)..to : Wants(c \notin NoLogs, i)} \ Got(q, k)

\* server.rs: a subscriber "may fall behind before it is told that it missed some",
\* and it subscribes before it is greeted.  So a snapshot taken after the hello and
\* the stream leave nothing out: what a subscriber has heard is in order, and whenever
\* it hears an event, every event since its hello that it wants and has not heard by
\* then is one of those that it was told it missed.
StreamHasNoSilentGap ==
    \A c \in Follows : \A k \in DOMAIN heard[c] :
        LET q == heard[c] IN
        q[k].kind = "event" =>
            /\ \A i \in Got(q, k - 1) : i < q[k].n
            /\ Cardinality(Missing(c, q, k, hello[c], q[k].n)) <= Cardinality(Told(q, k))

\* client.rs: "our write can fail with EPIPE while the reason is already waiting in
\* the socket": a call that ends in failure leaves no answer behind unread, however
\* the daemon's refusal and the client's write fall together.
FailureMeansNoAnswer ==
    [][\A c \in Conns :
         outcome'[c].kind = "Failed" /\ outcome[c].kind # "Failed" => outbox[c] = <<>>]_vars

\* commands/daemon.rs: "return when a dependent that did not spell out a condition
\* would have been allowed to start": the exit of `start --wait' agrees with what was
\* announced up to a moment that is not before it had its services started.  The last
\* verdict decides, and it may be the late one of the process before.
WaitAgreesWithTheEvents ==
    /\ wait.stage \in {"ready", "gone"} => wait.from <= wait.seen
    /\ wait.stage = "ready" => AnnouncedReady(wait.seen)
    /\ wait.stage = "gone" => AnnouncedGone(wait.seen)

Blocked(c) == conn[c] = "write" /\ call[c] # "gone" /\ Len(outbox[c]) = SocketBuffer

\* server.rs: "an abusive client must cost the daemon a bounded amount of memory, file
\* descriptors and CPU", and "closing beats letting garbage be pumped in forever": the
\* slot of a client that is refused, silent, gone, or never talks sense comes back.  The
\* exceptions are the code's: who keeps writing requests, or blank lines, and who leaves
\* a full socket unread keeps the slot; so does a subscriber, and one that is gone is
\* found out by the next event that it wants.
SlotComesBack ==
    \A c \in Conns :
        /\ []<>(\/ conn[c] \notin {"admit", "read", "write"} \/ Blocked(c)
                \/ inbox[c] # <<>> /\ Head(inbox[c]) \notin {"garbage", "unknown", "huge"})
        /\ (conn[c] = "stream" /\ call[c] = "gone"
              /\ \E i \in (pos[c] + 1)..sent : Wants(c \notin NoLogs, i))
             ~> (conn[c] \in Closed)
=============================================================================
