---------------------------- MODULE EventChannel ----------------------------
(***************************************************************************)
(* The runtime's event channel and its allowance for captured log lines     *)
(* (runtime/event.rs).  The channel is unbounded; the bound on log lines is *)
(* kept by the senders, with two atomic counters and no lock, so a step of  *)
(* this module is one atomic operation of EventSender::send, and anything   *)
(* may happen between two of them.                                          *)
(*                                                                         *)
(* A sender s prints LineBound[s] lines and then says one thing that is not a    *)
(* log line (its service exited), after which its clone of the sender is    *)
(* dropped.  Hangup is a receiver that goes away early.                     *)
(***************************************************************************)
EXTENDS Integers, Sequences, SequencesExt, FiniteSets, FiniteSetsExt

CONSTANTS
    Senders,            \* tasks that hold a clone of the EventSender
    LineBound,          \* how many lines each of them prints: a function
    MaxQueued,          \* MAX_QUEUED_LOG_LINES
    FloodOverBelow,     \* FLOOD_OVER_BELOW
    ReportDropsEvery    \* REPORT_DROPS_EVERY

ASSUME AllowanceAssumption ==
    /\ {MaxQueued, ReportDropsEvery} \subseteq Nat \ {0}
    /\ LineBound \in [Senders -> Nat]
    /\ FloodOverBelow \in Nat
    /\ FloodOverBelow <= MaxQueued
    /\ IsFiniteSet(Senders)

VARIABLES
    sender,     \* where each send() stands, and what it holds
    channel,    \* the queue
    open,       \* the receiver is there
    queued,     \* LogBudget::queued
    dropped,    \* LogBudget::dropped
    lost,       \* history: lines dropped
    told        \* history: lines that reports spoke of

channelVars == <<sender, channel, open, queued, dropped, lost, told>>

Line(s, n) == [kind |-> "log", from |-> s, n |-> n]
Drops(k)   == [kind |-> "drops", count |-> k]
Exited(s)  == [kind |-> "exited", from |-> s]

LogLines == [kind : {"log"}, from : Senders, n : Nat]
Events == LogLines \cup [kind : {"drops"}, count : Nat] \cup [kind : {"exited"}, from : Senders]

IsLog(e) == e.kind = "log"

(* at:   the next atomic operation of send()
   fits: the line got its place in the allowance
   count: what report_drops took out of `dropped'
   n:    lines the sender is done with *)
Positions == {"idle", "giveback", "count", "look", "swap", "tell", "send", "done"}

ChannelInit ==
    /\ sender = [s \in Senders |-> [at |-> "idle", fits |-> FALSE, count |-> 0, n |-> 0]]
    /\ channel = <<>>
    /\ open = TRUE
    /\ queued = 0
    /\ dropped = 0
    /\ lost = 0
    /\ told = 0

Goes(s, at) == sender' = [sender EXCEPT ![s].at = at]

\* send() of the line is over: the next one may be printed.
LineDone(s) == sender' = [sender EXCEPT ![s].at = "idle", ![s].n = @ + 1]

\* The comparison in send(): the counter's value before this line's own claim.
Fits(before) == before < MaxQueued

FloodOver(before) == before < FloodOverBelow

\* queued.fetch_add(1): the claim, and what its old value says.
Claim(s) ==
    /\ sender[s].at = "idle"
    /\ sender[s].n < LineBound[s]
    /\ queued' = queued + 1
    /\ sender' = [sender EXCEPT
           ![s].fits = Fits(queued),
           ![s].at = CASE ~Fits(queued)     -> "giveback"
                       [] FloodOver(queued) -> "look"
                       [] OTHER             -> "send"]
    /\ UNCHANGED <<channel, open, dropped, lost, told>>

\* The line does not fit: queued.fetch_sub(1).
GiveBack(s) ==
    /\ sender[s].at = "giveback"
    /\ queued' = queued - 1
    /\ Goes(s, "count")
    /\ UNCHANGED <<channel, open, dropped, lost, told>>

\* dropped.fetch_add(1), and the backstop report of a flood that never ends.
Count(s) ==
    /\ sender[s].at = "count"
    /\ dropped' = dropped + 1
    /\ lost' = lost + 1
    /\ IF (dropped + 1) % ReportDropsEvery = 0
         THEN Goes(s, "swap")
         ELSE LineDone(s)
    /\ UNCHANGED <<channel, open, queued, told>>

\* dropped.load(): only a loss that was not told yet is worth a report.
Look(s) ==
    /\ sender[s].at = "look"
    /\ Goes(s, IF dropped > 0 THEN "swap" ELSE "send")
    /\ UNCHANGED <<channel, open, queued, dropped, lost, told>>

\* What follows report_drops: the line itself, if it has its place.
AfterReport(s) == IF sender[s].fits THEN Goes(s, "send") ELSE LineDone(s)

\* The counter is read and cleared by two operations.
SwapByLoad(s) ==                                                 \* mutant
    /\ sender[s].at = "swap"
    /\ dropped' = dropped
    /\ IF dropped = 0
         THEN AfterReport(s)
         ELSE sender' = [sender EXCEPT ![s].at = "tell", ![s].count = dropped]
    /\ UNCHANGED <<channel, open, queued, lost, told>>

\* report_drops: dropped.swap(0).
Swap(s) ==
    /\ sender[s].at = "swap"
    /\ dropped' = 0
    /\ IF dropped = 0
         THEN AfterReport(s)
         ELSE sender' = [sender EXCEPT ![s].at = "tell", ![s].count = dropped]
    /\ UNCHANGED <<channel, open, queued, lost, told>>

\* What the channel holds once e was sent: the receiver may be gone.
Sent(e) == IF open THEN Append(channel, e) ELSE channel

\* report_drops: the report goes straight down the channel.
Tell(s) ==
    /\ sender[s].at = "tell"
    /\ channel' = Sent(Drops(sender[s].count))
    /\ told' = told + sender[s].count
    /\ LET quiet == [sender EXCEPT ![s].count = 0]
       IN  sender' = IF sender[s].fits
                       THEN [quiet EXCEPT ![s].at = "send"]
                       ELSE [quiet EXCEPT ![s].at = "idle", ![s].n = @ + 1]
    /\ UNCHANGED <<open, queued, dropped, lost>>

\* The line is sent; a closed channel gives its place back.
Send(s) ==
    /\ sender[s].at = "send"
    /\ channel' = Sent(Line(s, sender[s].n + 1))
    /\ queued' = IF open THEN queued ELSE queued - 1
    /\ LineDone(s)
    /\ UNCHANGED <<open, dropped, lost, told>>

\* send() of anything but a log line, and the end of this sender.
Finish(s) ==
    /\ sender[s].at = "idle"
    /\ sender[s].n = LineBound[s]
    /\ channel' = Sent(Exited(s))
    /\ Goes(s, "done")
    /\ UNCHANGED <<open, queued, dropped, lost, told>>

SenderStep(s) ==
    \/ Claim(s) \/ GiveBack(s) \/ Count(s) \/ Look(s) \/ Swap(s) \/ Tell(s) \/ Send(s)
    \/ Finish(s)

AllGone == \A s \in Senders : sender[s].at = "done"

\* EventReceiver::recv takes the event; release() follows in a step of its own.
Take ==
    /\ open
    /\ channel # <<>>
    /\ channel' = Tail(channel)
    /\ UNCHANGED <<sender, open, queued, dropped, lost, told>>

\* release(): a delivered log line gives its place back.
Release(e) ==
    /\ queued' = IF IsLog(e) THEN queued - 1 ELSE queued
    /\ UNCHANGED <<sender, channel, open, dropped, lost, told>>

\* The receiver is dropped, with whatever is queued.
Hangup ==
    /\ open
    /\ open' = FALSE
    /\ channel' = <<>>
    /\ UNCHANGED <<sender, queued, dropped, lost, told>>

ChannelTypeOK ==
    /\ sender \in [Senders -> [at : Positions, fits : BOOLEAN, count : Nat, n : Nat]]
    /\ \A i \in DOMAIN channel : channel[i] \in Events
    /\ open \in BOOLEAN
    /\ {queued, dropped, lost, told} \subseteq Nat

-----------------------------------------------------------------------------
(* What the allowance promises. *)

InHand == MapThenSumSet(LAMBDA s : sender[s].count, Senders)

\* event.rs: the loss is reported "instead of being silent": every dropped line is
\* still counted in `dropped', held by a report being made, or was told, exactly
\* once, although counting, taking and telling are steps of different tasks.
EveryLossIsTold == lost = dropped + InHand + told
=============================================================================
