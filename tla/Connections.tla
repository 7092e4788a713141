----------------------------- MODULE Connections -----------------------------
(***************************************************************************)
(* The two ends of the daemon's socket: accept_loop(), admit() and           *)
(* handle_client() of cli/daemon/server.rs, one task per connection, and      *)
(* send() and subscribe() of cli/daemon/client.rs, one call per connection.   *)
(* Besides servicrab's own commands there are programs that speak the         *)
(* protocol themselves: they write several lines and need not read.           *)
(*                                                                         *)
(* A line is known by what it asks for.  A connection that is over may be      *)
(* used for another call once both ends have let go of it.                    *)
(***************************************************************************)
EXTENDS StatusStream, FiniteSets

CONSTANTS
    Sends,          \* connections of client::send
    Follows,        \* connections of client::subscribe
    Programs,       \* connections of other programs
    Foreign,        \* those of another user
    NoLogs,         \* subscribers with `events --no-logs'
    MaxConnections, \* MAX_CONNECTIONS
    MaxMalformed,   \* MAX_MALFORMED
    SocketBuffer    \* answers a socket holds before a write has to wait

Conns == Sends \cup Follows \cup Programs

\* A connection is of one kind.
ASSUME ConnectionAssumption ==
    /\ Sends \cap Follows = {} /\ Programs \cap (Sends \cup Follows) = {}
    /\ Foreign \cup NoLogs \subseteq Conns
    /\ MaxConnections \in Nat \ {0} /\ MaxMalformed \in Nat \ {0}
    /\ SocketBuffer \in Nat \ {0}

VARIABLES
    daemon,     \* "serving", "closing" once the accept loop is aborted, or "gone"
    permits,    \* of the semaphore of accept_loop
    conn,       \* where the daemon's end of each connection is
    say,        \* the answer being written, and what comes after it
    strikes,    \* handle_client's counter
    pos,        \* the receiver of a subscriber: events it is done with
    inbox,      \* lines written by the client and not read
    outbox,     \* answers written by the daemon and not read
    call,       \* where the client's end is
    request,    \* the line the call will write
    outcome,    \* what the call returns
    hello,      \* events in the registry when the subscriber read its hello
    heard       \* what a subscriber was sent after it

daemonEnd == <<daemon, permits, conn, say, strikes, pos>>
clientEnd == <<call, request, outcome, hello, heard>>
connVars  == <<daemonEnd, clientEnd, inbox, outbox>>

Lines  == {"ping", "status", "start", "start_other", "subscribe", "unknown", "garbage", "blank", "huge"}
Closed == {"none", "closed"}
Serving == {"admit", "read", "write", "stream"}

Answer(kind, n) == [kind |-> kind, n |-> n]
Nothing == Answer("nothing", 0)
Idle    == [line |-> Nothing, next |-> "read"]

ConnInit ==
    /\ daemon = "serving" /\ permits = MaxConnections
    /\ conn = [c \in Conns |-> "none"]
    /\ say = [c \in Conns |-> Idle]
    /\ strikes = [c \in Conns |-> 0] /\ pos = [c \in Conns |-> 0]
    /\ inbox = [c \in Conns |-> <<>>] /\ outbox = [c \in Conns |-> <<>>]
    /\ call = [c \in Conns |-> "idle"] /\ request = [c \in Conns |-> "ping"]
    /\ outcome = [c \in Conns |-> Nothing]
    /\ hello = [c \in Conns |-> 0] /\ heard = [c \in Conns |-> <<>>]

Goes(c, there) == conn' = [conn EXCEPT ![c] = there]

\* The task ends: its permit goes back, its variables are gone, and nobody will read
\* what was written to it.
Ends(c) ==
    /\ Goes(c, "closed")
    /\ permits' = permits + 1
    /\ inbox' = [inbox EXCEPT ![c] = <<>>]
    /\ say' = [say EXCEPT ![c] = Idle]
    /\ strikes' = [strikes EXCEPT ![c] = 0]
    /\ pos' = [pos EXCEPT ![c] = 0]

Says(c, line, next) ==
    /\ say' = [say EXCEPT ![c] = [line |-> line, next |-> next]]
    /\ Goes(c, "write")

-----------------------------------------------------------------------------
(* The daemon *)

\* accept_loop: the newest connection is refused when all permits are taken.
Accept(c) ==
    /\ daemon = "serving" /\ conn[c] = "backlog"
    /\ IF permits > 0
         THEN Goes(c, "admit") /\ permits' = permits - 1 /\ UNCHANGED inbox
         ELSE Goes(c, "closed") /\ inbox' = [inbox EXCEPT ![c] = <<>>] /\ UNCHANGED permits
    /\ UNCHANGED <<daemon, say, strikes, pos, clientEnd, outbox, streamVars>>

\* admit: another user is told why, and the connection ends; nothing is read from it.
Admit(c) ==
    /\ conn[c] = "admit"
    /\ IF c \in Foreign
         THEN Says(c, Answer("refused", 0), "close")
         ELSE Goes(c, "read") /\ UNCHANGED say
    /\ UNCHANGED <<daemon, permits, strikes, pos, clientEnd, inbox, outbox, streamVars>>

Read(c) ==
    /\ conn[c] = "read" /\ inbox[c] # <<>>
    /\ inbox' = [inbox EXCEPT ![c] = Tail(@)]

\* A blank line is passed over, one that is too long ends the connection.
ReadNothing(c) ==
    /\ Read(c)
    /\ \/ Head(inbox[c]) = "blank" /\ UNCHANGED <<conn, say>>
       \/ Head(inbox[c]) = "huge" /\ Says(c, Answer("error", 0), "close")
    /\ UNCHANGED <<daemon, permits, strikes, pos, clientEnd, outbox, streamVars>>

\* A request without a name here is one that was decoded.
ReadUnusableForgiving(c) ==                                       \* mutant
    /\ Read(c)
    /\ Head(inbox[c]) \in {"garbage", "unknown"}
    /\ Says(c, Answer("error", 0), "strike")
    /\ strikes' = IF Head(inbox[c]) = "unknown" THEN [strikes EXCEPT ![c] = 0] ELSE strikes
    /\ UNCHANGED <<daemon, permits, pos, clientEnd, outbox, streamVars>>

\* What cannot be decoded, and what decodes to Request::Unknown.
ReadUnusable(c) ==
    /\ Read(c)
    /\ Head(inbox[c]) \in {"garbage", "unknown"}
    /\ Says(c, Answer("error", 0), "strike")
    /\ UNCHANGED <<daemon, permits, strikes, pos, clientEnd, outbox, streamVars>>

\* "A client that talks sense has nothing held against it."
Forgives(c) == strikes' = [strikes EXCEPT ![c] = 0]

\* respond(): the stack accepts a start of a service that is not running, while it
\* runs; the command's way through the control channel is DaemonSession's subject.
ReadRequest(c) ==
    /\ Read(c)
    /\ Head(inbox[c]) \in {"ping", "status", "start", "start_other"}
    /\ Forgives(c)
    /\ \/ /\ Head(inbox[c]) = "ping"
          /\ Says(c, Answer("pong", 0), "read") /\ UNCHANGED life
       \/ /\ Head(inbox[c]) = "status"
          /\ Says(c, Answer("status", applied), "read") /\ UNCHANGED life
       \/ /\ Head(inbox[c]) = "start"
          /\ IF life \in Over /\ daemon = "serving"
               THEN life' = "asked" /\ Says(c, Answer("ok", 0), "read")
               ELSE UNCHANGED life /\ Says(c, Answer("error", 0), "read")
       \/ /\ Head(inbox[c]) = "start_other"
          /\ Says(c, Answer("error", 0), "read") /\ UNCHANGED life
    /\ UNCHANGED <<daemon, permits, pos, clientEnd, outbox, events, applied, sent>>

\* Request::Subscribe: the receiver exists before the hello is written.
ReadSubscribe(c) ==
    /\ Read(c)
    /\ Head(inbox[c]) = "subscribe"
    /\ Forgives(c)
    /\ pos' = [pos EXCEPT ![c] = sent]
    /\ Says(c, Answer("ok", 0), "stream")
    /\ UNCHANGED <<daemon, permits, clientEnd, outbox, streamVars>>

\* The client closed its end, and what it wrote has been read.
ReadClosed(c) ==
    /\ conn[c] = "read" /\ inbox[c] = <<>> /\ call[c] = "gone"
    /\ Ends(c)
    /\ UNCHANGED <<daemon, clientEnd, outbox, streamVars>>

\* IDLE_TIMEOUT.
ReadIdle(c) ==
    /\ conn[c] = "read" /\ inbox[c] = <<>> /\ call[c] # "gone"
    /\ Ends(c)
    /\ UNCHANGED <<daemon, clientEnd, outbox, streamVars>>

\* write() to a client that is gone ends the connection.
WriteFails(c) ==
    /\ conn[c] = "write" /\ call[c] = "gone"
    /\ Ends(c)
    /\ UNCHANGED <<daemon, clientEnd, outbox, streamVars>>

\* struck_out.
StruckOut(c) == strikes[c] + 1 >= MaxMalformed

\* write() waits for room in the socket, for as long as it takes.
Write(c) ==
    /\ conn[c] = "write" /\ call[c] # "gone" /\ Len(outbox[c]) < SocketBuffer
    /\ outbox' = [outbox EXCEPT ![c] = Append(@, say[c].line)]
    /\ \/ /\ say[c].next \in {"read", "stream"}
          /\ Goes(c, say[c].next) /\ say' = [say EXCEPT ![c] = Idle]
          /\ UNCHANGED <<permits, inbox, strikes, pos>>
       \/ /\ say[c].next = "close" \/ (say[c].next = "strike" /\ StruckOut(c))
          /\ Ends(c)
       \/ /\ say[c].next = "strike" /\ ~StruckOut(c)
          /\ Goes(c, "read") /\ say' = [say EXCEPT ![c] = Idle]
          /\ strikes' = [strikes EXCEPT ![c] = @ + 1]
          /\ UNCHANGED <<permits, inbox, pos>>
    /\ UNCHANGED <<daemon, clientEnd, streamVars>>

\* A subscriber that fell behind goes on with what there is.
ReceiveRest(c) ==                                                 \* mutant
    /\ conn[c] = "stream" /\ Behind(pos[c])
    /\ LET i == IF Lagging(pos[c]) THEN Oldest + 1 ELSE pos[c] + 1 IN
       /\ pos' = [pos EXCEPT ![c] = i]
       /\ IF Wants(c \notin NoLogs, i) THEN Says(c, Answer("event", i), "stream")
                                       ELSE UNCHANGED <<conn, say>>
    /\ UNCHANGED <<daemon, permits, strikes, clientEnd, inbox, outbox, streamVars>>

\* stream_events: one turn of the loop.
Receive(c) ==
    /\ conn[c] = "stream" /\ Behind(pos[c])
    /\ IF Lagging(pos[c])
         THEN /\ pos' = [pos EXCEPT ![c] = Oldest]
              /\ Says(c, Answer("lagged", Oldest - pos[c]), "stream")
         ELSE /\ pos' = [pos EXCEPT ![c] = @ + 1]
              /\ IF Wants(c \notin NoLogs, pos[c] + 1)
                   THEN Says(c, Answer("event", pos[c] + 1), "stream")
                   ELSE UNCHANGED <<conn, say>>
    /\ UNCHANGED <<daemon, permits, strikes, clientEnd, inbox, outbox, streamVars>>

TaskStep(c) ==
    \/ Admit(c)
    \/ ReadNothing(c) \/ ReadUnusable(c) \/ ReadRequest(c) \/ ReadSubscribe(c)
    \/ ReadClosed(c) \/ ReadIdle(c)
    \/ Write(c) \/ WriteFails(c) \/ Receive(c)

\* server.abort(): what was not accepted is refused, what was goes on.
StopAccepting ==
    /\ daemon = "serving" /\ daemon' = "closing"
    /\ conn' = [c \in Conns |-> IF conn[c] = "backlog" THEN "closed" ELSE conn[c]]
    /\ inbox' = [c \in Conns |-> IF conn[c] = "backlog" THEN <<>> ELSE inbox[c]]
    /\ UNCHANGED <<permits, say, strikes, pos, clientEnd, outbox, streamVars>>

\* The runtime is dropped, and every task with it wherever it is.  The channel never
\* closes before: each subscriber's task holds a sender of it in its session.
Exit ==
    /\ daemon = "closing" /\ daemon' = "gone"
    /\ conn' = [c \in Conns |-> IF conn[c] \in Closed THEN conn[c] ELSE "closed"]
    /\ inbox' = [c \in Conns |-> <<>>]
    /\ say' = [c \in Conns |-> Idle]
    /\ strikes' = [c \in Conns |-> 0] /\ pos' = [c \in Conns |-> 0]
    /\ UNCHANGED <<permits, clientEnd, outbox, streamVars>>

-----------------------------------------------------------------------------
(* The clients *)

Free(c) == call[c] \in {"idle", "gone"} /\ conn[c] \in Closed

Returns(c, answer) ==
    /\ call' = [call EXCEPT ![c] = "gone"]
    /\ outcome' = [outcome EXCEPT ![c] = answer]

\* connect(), for a call that will write `line'.  Nothing listens when the daemon is
\* on its way out.
Connect(c, line) ==
    /\ Free(c)
    /\ request' = [request EXCEPT ![c] = line]
    /\ outbox' = [outbox EXCEPT ![c] = <<>>]
    /\ IF daemon = "serving"
         THEN /\ call' = [call EXCEPT ![c] = "open"]
              /\ outcome' = [outcome EXCEPT ![c] = Nothing]
              /\ Goes(c, "backlog")
         ELSE Returns(c, Answer("NotRunning", 0)) /\ UNCHANGED conn
    /\ UNCHANGED <<daemon, permits, say, strikes, pos, inbox, hello, heard, streamVars>>

\* A write that fails is the answer.
PutOrFail(c) ==                                                   \* mutant
    /\ call[c] = "open" /\ c \notin Programs
    /\ IF conn[c] \in Closed
         THEN Returns(c, Answer("Failed", 0)) /\ UNCHANGED inbox
         ELSE /\ inbox' = [inbox EXCEPT ![c] = Append(@, request[c])]
              /\ call' = [call EXCEPT ![c] = "reading"]
              /\ UNCHANGED outcome
    /\ UNCHANGED <<daemonEnd, outbox, request, hello, heard, streamVars>>

\* send() and subscribe() write their line.  If the daemon has closed the connection
\* the write fails, and the call reads all the same.
Put(c) ==
    /\ call[c] = "open" /\ c \notin Programs
    /\ inbox' = IF conn[c] \in Closed THEN inbox ELSE [inbox EXCEPT ![c] = Append(@, request[c])]
    /\ call' = [call EXCEPT ![c] = "reading"]
    /\ request' = [request EXCEPT ![c] = "ping"]
    /\ UNCHANGED <<daemonEnd, outbox, outcome, hello, heard, streamVars>>

Takes(c) ==
    /\ outbox[c] # <<>>
    /\ outbox' = [outbox EXCEPT ![c] = Tail(@)]

\* The first answer: send() returns it, subscribe() goes on reading after an Ok.
Hear(c) ==
    /\ call[c] = "reading" /\ Takes(c)
    /\ IF c \in Follows /\ Head(outbox[c]).kind = "ok"
         THEN /\ call' = [call EXCEPT ![c] = "following"]
              /\ hello' = [hello EXCEPT ![c] = applied]
              /\ UNCHANGED outcome
         ELSE Returns(c, Head(outbox[c])) /\ UNCHANGED hello
    /\ UNCHANGED <<daemonEnd, inbox, request, heard, streamVars>>

\* No answer: the daemon closed the connection, or TIMEOUT has passed.  Which of the
\* three reasons it was is only worded differently.
HearNothing(c) ==
    /\ call[c] = "reading" /\ outbox[c] = <<>>
    /\ conn[c] \in Closed \/ c \in Sends
    /\ Returns(c, Answer("Failed", 0))
    /\ UNCHANGED <<daemonEnd, inbox, outbox, request, hello, heard, streamVars>>

\* The loop of subscribe(); the end of the stream is the daemon's shutdown.
Follow(c) ==
    /\ call[c] = "following"
    /\ \/ /\ Takes(c)
          /\ heard' = [heard EXCEPT ![c] = Append(@, Head(outbox[c]))]
          /\ UNCHANGED <<call, outcome>>
       \/ /\ outbox[c] = <<>> /\ conn[c] \in Closed
          /\ Returns(c, Answer("over", 0))
          /\ UNCHANGED <<heard, outbox>>
    /\ UNCHANGED <<daemonEnd, inbox, request, hello, streamVars>>

CallStep(c) == Put(c) \/ Hear(c) \/ HearNothing(c) \/ Follow(c)

\* Ctrl+C in `events', or a program that has had enough.
HangUp(c) ==
    /\ call[c] = "following" \/ (c \in Programs /\ call[c] = "open")
    /\ Returns(c, Nothing)
    /\ UNCHANGED <<daemonEnd, inbox, outbox, request, hello, heard, streamVars>>

\* External: a program writes what it likes, and reads when it likes.
ProgramWrites(c, line) ==
    /\ c \in Programs /\ call[c] = "open" /\ conn[c] \notin Closed
    /\ inbox[c] = <<>>
    /\ inbox' = [inbox EXCEPT ![c] = Append(@, line)]
    /\ UNCHANGED <<daemonEnd, clientEnd, outbox, streamVars>>

ProgramReads(c) ==
    /\ c \in Programs /\ call[c] = "open"
    /\ Takes(c)
    /\ UNCHANGED <<daemonEnd, clientEnd, inbox, streamVars>>
=============================================================================
