----------------------------- MODULE DaemonDoor -----------------------------
(***************************************************************************)
(* How a project's daemon comes and goes: the pidfile and its lock          *)
(* (cli/daemon/lock.rs), the socket file and the order of serve()           *)
(* (cli/daemon/server.rs), signals before the runtime exists                *)
(* (cli/daemon/signals.rs), and the commands `start' and `down'             *)
(* (cli/commands/daemon.rs) that watch it from outside.                     *)
(*                                                                         *)
(* The pidfile is a name and the files that had it: a lock belongs to a     *)
(* file, and a daemon may hold one that has lost its name.  A daemon is     *)
(* known by the process that it is; the `start' that spawned it has the     *)
(* same index.  What the stack does while the daemon serves is the subject  *)
(* of StackSupervisor and DaemonSession.                                    *)
(***************************************************************************)
EXTENDS Integers, FiniteSets

CONSTANTS
    Daemons,    \* daemon processes that there may be at a time
    Attempts,   \* ATTEMPTS of ProjectLock::acquire
    Files,      \* what the pidfile's name may stand for; one is used again when nobody has it
    None,
    Stale       \* in the socket's place: a file whose daemon is forgotten

ASSUME DoorAssumption ==
    /\ {None, Stale} \cap (Daemons \cup Files) = {} /\ None # Stale
    /\ Attempts \in Nat \ {0}
    /\ IsFiniteSet(Daemons) /\ IsFiniteSet(Files)
    /\ Cardinality(Files) > Cardinality(Daemons)

VARIABLES
    at,         \* where each daemon is in serve()
    fd,         \* the pidfile each daemon has open, or None
    tries,      \* rounds of acquire() that found the file replaced
    early,      \* signals::EARLY
    asked,      \* its shutdown channel has a request
    exit,       \* how it will exit, once it knows
    pidfile,    \* the file at the pidfile's path, or None
    holder,     \* who holds the lock of each file
    pid,        \* the pid written in each file
    socket,     \* the daemon that bound the file at the socket's path
    start       \* the `start' command that may spawn each daemon

doorState == <<at, fd, tries, early, asked, exit, pidfile, holder, pid, socket, start>>

doorVars  == <<pidfile, holder, pid, socket>>
localVars == <<fd, tries, early, asked, exit>>

\* serve(), from the exec to the exit.
Starting == {"fresh", "open", "flock", "check", "ask", "unlink", "bind", "bound", "watching"}
Leaving  == {"closing", "unsock", "unpid", "unlock"}
Over     == {"done", "failed", "killed"}

Alive(d) == at[d] \in Starting \cup {"serve"} \cup Leaving

DoorInit ==
    /\ at = [d \in Daemons |-> "none"]
    /\ fd = [d \in Daemons |-> None]
    /\ tries = [d \in Daemons |-> 0]
    /\ early = [d \in Daemons |-> FALSE]
    /\ asked = [d \in Daemons |-> FALSE]
    /\ exit = [d \in Daemons |-> "none"]
    /\ pidfile = None
    /\ holder = [f \in Files |-> None]
    /\ pid = [f \in Files |-> None]
    /\ socket = None
    /\ start = [d \in Daemons |-> "idle"]

Goes(d, there) == at' = [at EXCEPT ![d] = there]

\* The process is gone, and what it had open and in memory with it.
Ends(d, there) ==
    /\ Goes(d, there)
    /\ fd' = [fd EXCEPT ![d] = None]
    /\ early' = [early EXCEPT ![d] = FALSE]

Fails(d) == exit' = [exit EXCEPT ![d] = "failed"]

-----------------------------------------------------------------------------
(* The socket, seen by a client. *)

Listening(d) == d \in Daemons /\ at[d] \in {"bound", "watching", "serve"}

\* client::send of a ping.  A file nobody listens on refuses; a daemon that serves
\* answers, unless all its connections are taken or it is too slow; one that does
\* not serve yet lets the client wait until it times out.
Answers ==
    CASE ~Listening(socket)                         -> {"absent"}
      [] Listening(socket) /\ at[socket] = "serve"  -> {"pong", "failed"}
      [] OTHER                                      -> {"failed"}

-----------------------------------------------------------------------------
(* serve() *)

\* signals::claim: from here on a signal is remembered.
ClaimSignals(d) ==
    /\ at[d] = "fresh"
    /\ Goes(d, "open")
    /\ UNCHANGED <<localVars, doorVars, start>>

\* open(2) with O_CREAT: the file that has the name, or a new one.
Opened(d) ==
    IF pidfile # None
      THEN /\ fd' = [fd EXCEPT ![d] = pidfile]
           /\ UNCHANGED <<pidfile, pid>>
      ELSE LET new == CHOOSE f \in Files : \A e \in Daemons : fd[e] # f IN
           /\ fd' = [fd EXCEPT ![d] = new]
           /\ pidfile' = new
           /\ pid' = [pid EXCEPT ![new] = None]

\* A socket file is taken for stale before the lock is held.
OpenPidAndTidy(d) ==                                             \* mutant
    /\ at[d] = "open"
    /\ Opened(d)
    /\ socket' = None
    /\ Goes(d, "flock")
    /\ UNCHANGED <<tries, early, asked, exit, holder, start>>

\* acquire(): open the pidfile, creating it if there is none.
OpenPid(d) ==
    /\ at[d] = "open"
    /\ Opened(d)
    /\ Goes(d, "flock")
    /\ UNCHANGED <<tries, early, asked, exit, holder, socket, start>>

\* acquire(): the lock is taken without waiting, or somebody else holds it.
Flock(d) ==
    /\ at[d] = "flock"
    /\ \/ /\ holder[fd[d]] = None
          /\ holder' = [holder EXCEPT ![fd[d]] = d]
          /\ Goes(d, "check")
          /\ UNCHANGED <<fd, early, exit>>
       \/ /\ holder[fd[d]] # None
          /\ Ends(d, "failed")
          /\ UNCHANGED <<holder, exit>>
    /\ UNCHANGED <<tries, asked, pidfile, pid, socket, start>>

StillAtOpened(d) == TRUE                                         \* mutant

\* still_at(): the locked file has the pidfile's name.
StillAt(d) == fd[d] = pidfile

\* acquire(): a lock on a file without a name excludes nobody, so start over; the
\* other is the project's, and gets the pid written.
Check(d) ==
    /\ at[d] = "check"
    /\ \/ /\ StillAt(d)
          /\ pid' = [pid EXCEPT ![fd[d]] = d]
          /\ Goes(d, "ask")
          /\ UNCHANGED <<fd, tries, early, holder>>
       \/ /\ ~StillAt(d)
          /\ holder' = [holder EXCEPT ![fd[d]] = None]
          /\ tries' = [tries EXCEPT ![d] = @ + 1]
          /\ \/ /\ tries[d] + 1 < Attempts
                /\ Goes(d, "open")
                /\ fd' = [fd EXCEPT ![d] = None]
                /\ UNCHANGED early
             \/ /\ tries[d] + 1 = Attempts
                /\ Ends(d, "failed")
          /\ UNCHANGED pid
    /\ UNCHANGED <<asked, exit, pidfile, socket, start>>

\* Something answers on the socket although the lock is ours: refuse to start.
AskSocket(d) ==
    /\ at[d] = "ask"
    /\ \E answer \in Answers :
          \/ answer = "pong" /\ Goes(d, "unpid") /\ Fails(d)
          \/ answer # "pong" /\ Goes(d, "unlink") /\ UNCHANGED exit
    /\ UNCHANGED <<fd, tries, early, asked, doorVars, start>>

\* The socket file of a daemon that is gone.
UnlinkStale(d) ==
    /\ at[d] = "unlink"
    /\ socket' = None
    /\ Goes(d, "bind")
    /\ UNCHANGED <<localVars, pidfile, holder, pid, start>>

\* bind_socket fails if there is a file, or for a reason of its own; when it cannot
\* prepare the socket that it has bound, the file is left.
Bind(d) ==
    /\ at[d] = "bind"
    /\ \/ /\ socket = None
          /\ socket' = d
          /\ Goes(d, "bound")
          /\ UNCHANGED exit
       \/ /\ Goes(d, "unpid")
          /\ Fails(d)
          /\ UNCHANGED socket
       \/ /\ socket = None
          /\ socket' = d
          /\ Goes(d, "unpid")
          /\ exit' = [exit EXCEPT ![d] = "unprepared"]
    /\ UNCHANGED <<fd, tries, early, asked, pidfile, holder, pid, start>>

\* The runtime, the listener or the signal watcher cannot be set up: the socket is
\* removed before the lock is let go.
FailToServe(d) ==
    /\ Goes(d, "unsock")
    /\ Fails(d)
    /\ UNCHANGED <<fd, tries, early, asked, doorVars, start>>

\* The runtime is built and SignalWatcher installed on top of the early handler.
Watch(d) ==
    /\ at[d] = "bound"
    /\ \/ /\ Goes(d, "watching")
          /\ UNCHANGED <<localVars, doorVars, start>>
       \/ FailToServe(d)

FeedNothing(d) == asked[d]                                       \* mutant

\* signals::arrived: what came before the watcher goes into its channel.
Fed(d) == asked[d] \/ early[d]

\* The supervisor runs; it starts no service if it is to stop already.
Serve(d) ==
    /\ at[d] = "watching"
    /\ asked' = [asked EXCEPT ![d] = Fed(d)]
    /\ Goes(d, "serve")
    /\ UNCHANGED <<fd, tries, early, exit, doorVars, start>>

\* supervisor.run() returns with every service stopped, and maybe a failure; the
\* accept loop, and with it the listener, is aborted.
StackEnds(d) ==
    /\ at[d] = "serve"
    /\ asked[d]
    /\ \E code \in {"ok", "failed"} : exit' = [exit EXCEPT ![d] = code]
    /\ Goes(d, "closing")
    /\ UNCHANGED <<fd, tries, early, asked, doorVars, start>>

\* The collector drains, or COLLECTOR_GRACE is over.
CloseDoor(d) ==
    /\ at[d] = "closing"
    /\ Goes(d, "unsock")
    /\ UNCHANGED <<localVars, doorVars, start>>

UnlinkSocket(d) ==
    /\ at[d] = "unsock"
    /\ socket' = None
    /\ Goes(d, "unpid")
    /\ UNCHANGED <<localVars, pidfile, holder, pid, start>>

\* ProjectLock::drop: the name goes while the lock is held.
UnlinkPid(d) ==
    /\ at[d] = "unpid"
    /\ pidfile' = None
    /\ Goes(d, "unlock")
    /\ UNCHANGED <<localVars, holder, pid, socket, start>>

\* The lock goes with the file, and the process ends.
Unlock(d) ==
    /\ at[d] = "unlock"
    /\ holder' = [holder EXCEPT ![fd[d]] = None]
    /\ Ends(d, IF exit[d] = "ok" THEN "done" ELSE "failed")
    /\ UNCHANGED <<tries, asked, exit, pidfile, pid, socket, start>>

DaemonStep(d) ==
    \/ ClaimSignals(d) \/ OpenPid(d) \/ Flock(d) \/ Check(d) \/ AskSocket(d) \/ UnlinkStale(d)
    \/ Bind(d) \/ Watch(d) \/ Serve(d) \/ StackEnds(d) \/ CloseDoor(d) \/ UnlinkSocket(d)
    \/ UnlinkPid(d) \/ Unlock(d)

-----------------------------------------------------------------------------
(* The world: signals. *)

\* What is left of a process that dies where it stands.
Dies(d) ==
    /\ Ends(d, "killed")
    /\ holder' = [f \in Files |-> IF holder[f] = d THEN None ELSE holder[f]]
    /\ UNCHANGED <<tries, asked, exit, pidfile, pid, socket>>

\* SIGKILL.
Kill(d) ==
    /\ Alive(d)
    /\ Dies(d)
    /\ UNCHANGED start

\* SIGTERM, SIGINT or SIGHUP: deadly before claim(), then kept in EARLY, and seen by
\* the watcher once it is there.
Signal(d) ==
    \/ /\ at[d] = "fresh"
       /\ Dies(d)
       /\ UNCHANGED start
    \/ /\ at[d] \in (Starting \ {"fresh"}) \cup {"serve"}
       /\ early' = [early EXCEPT ![d] = TRUE]
       /\ asked' = [asked EXCEPT ![d] = @ \/ at[d] \in {"watching", "serve"}]
       /\ UNCHANGED <<at, fd, tries, exit, doorVars, start>>

-----------------------------------------------------------------------------
(* `servicrab start', and a daemon that something else runs. *)

Spawned(d) == Goes(d, "fresh") /\ UNCHANGED <<localVars, doorVars>>

\* `servicrab daemon'.
RunDaemon(d) ==
    /\ start[d] = "idle"
    /\ start' = [start EXCEPT ![d] = "none"]
    /\ Spawned(d)

\* check_running: a fast path; nothing is decided here.
StartCheck(d) ==
    /\ start[d] = "idle"
    /\ \E answer \in Answers :
          IF answer = "absent"
            THEN /\ start' = [start EXCEPT ![d] = "watch"]
                 /\ Spawned(d)
            ELSE UNCHANGED doorState

OursAnyway(d) == TRUE                                            \* mutant

\* daemon_is_ours: the pid in the pidfile is the child's.
Ours(d) == pidfile # None /\ pid[pidfile] = d

StartGoes(d, there) ==
    /\ start' = [start EXCEPT ![d] = there]
    /\ UNCHANGED <<at, localVars, doorVars>>

\* wait_for_the_daemon: the child's exit decides.
StartSeesExit(d) ==
    /\ start[d] = "watch"
    /\ at[d] \in Over
    /\ StartGoes(d, IF at[d] = "done" THEN "ok" ELSE "error")

\* Otherwise its pid, and then its answer.
StartSeesPid(d) ==
    /\ start[d] = "watch"
    /\ at[d] \notin Over
    /\ Ours(d)
    /\ StartGoes(d, "ping")

StartPings(d) ==
    /\ start[d] = "ping"
    /\ \E answer \in Answers : StartGoes(d, IF answer = "pong" THEN "ok" ELSE "watch")

\* START_TIMEOUT: the child is killed.
StartGivesUp(d) ==
    /\ start[d] = "watch"
    /\ Alive(d)
    /\ Dies(d)
    /\ start' = [start EXCEPT ![d] = "error"]

\* Another daemon and another `start', where the last ones have left.
StartAfresh(d) ==
    /\ at[d] \in Over
    /\ start[d] \in {"none", "ok", "error"}
    /\ Goes(d, "none")
    /\ start' = [start EXCEPT ![d] = "idle"]
    /\ tries' = [tries EXCEPT ![d] = 0]
    /\ asked' = [asked EXCEPT ![d] = FALSE]
    /\ exit' = [exit EXCEPT ![d] = "none"]
    /\ pid' = [f \in Files |-> IF pid[f] = d THEN None ELSE pid[f]]
    /\ socket' = IF socket = d THEN Stale ELSE socket
    /\ UNCHANGED <<fd, early, pidfile, holder>>

StartStep(d) ==
    \/ StartAfresh(d) \/ RunDaemon(d) \/ StartCheck(d) \/ StartSeesExit(d) \/ StartSeesPid(d) \/ StartPings(d)
    \/ StartGivesUp(d)

-----------------------------------------------------------------------------
(* `servicrab down' *)

\* The Shutdown request; without a daemon, or without an answer, nothing is done.
\* What follows is looking on, until a ping is not answered or until STOP_TIMEOUT.
DownAsks ==
    /\ "pong" \in Answers
    /\ asked' = [asked EXCEPT ![socket] = TRUE]
    /\ UNCHANGED <<at, fd, tries, early, exit, doorVars, start>>

DoorNext ==
    \/ \E d \in Daemons : DaemonStep(d) \/ StartStep(d) \/ Kill(d) \/ Signal(d)
    \/ DownAsks

\* A daemon's own steps are taken; nobody is obliged to send signals or commands.
Fairness == \A d \in Daemons : WF_doorState(DaemonStep(d))

DoorSpec == DoorInit /\ [][DoorNext]_doorState /\ Fairness

-----------------------------------------------------------------------------
DoorTypeOK ==
    /\ at \in [Daemons -> {"none", "serve"} \cup Starting \cup Leaving \cup Over]
    /\ fd \in [Daemons -> {None} \cup Files]
    /\ tries \in [Daemons -> 0..Attempts]
    /\ {early, asked} \subseteq [Daemons -> BOOLEAN]
    /\ exit \in [Daemons -> {"none", "ok", "failed", "unprepared"}]
    /\ pidfile \in {None} \cup Files
    /\ holder \in [Files -> Daemons \cup {None}]
    /\ pid \in [Files -> Daemons \cup {None}]
    /\ socket \in Daemons \cup {None, Stale}
    /\ start \in [Daemons -> {"idle", "none", "watch", "ping", "ok", "error"}]

\* Where a daemon relies on being the only one: it may remove the socket file.
Inside(d) == at[d] \in {"ask", "unlink", "bind", "bound", "watching", "serve", "closing",
                        "unsock", "unpid"}

\* lock.rs: "One daemon per project": whatever starts, stops and dies meanwhile, the
\* code behind ProjectLock::acquire is run by one daemon at a time, and it holds the
\* lock of the file that has the pidfile's name.
OneDaemonPerProject ==
    /\ \A d, e \in Daemons : Inside(d) /\ Inside(e) => d = e
    /\ \A d \in Daemons : Inside(d) => pidfile = fd[d] /\ holder[pidfile] = d

\* lock.rs: no daemon is left "listening on an unreachable inode": the socket file
\* of a daemon that listens is its own until it closes the door.
ServingIsReachable == \A d \in Daemons : Listening(d) => socket = d

\* commands/daemon.rs: "a live socket alone proves nothing about the child we
\* spawned": when `start' reports success, the child serves, or has served and left
\* without a failure.  The pidfile and the socket are two looks: a child that was seen
\* in the pidfile, and left before the ping, may be taken for the daemon that answers.
StartTellsTheTruth ==
    [][\A d \in Daemons : start[d] # "ok" /\ start'[d] = "ok" =>
          \/ at[d] \in {"serve", "done"}
          \/ /\ start[d] = "ping" /\ at[d] \in {"unlock", "failed", "killed"}
             /\ \E e \in Daemons \ {d} : at[e] = "serve"]_doorState

\* signals.rs: a signal that arrives after claim(), however early, ends the daemon.
SignalEndsIt == \A d \in Daemons : early[d] ~> at[d] \in Over
=============================================================================
