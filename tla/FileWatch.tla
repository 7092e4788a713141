------------------------------ MODULE FileWatch ------------------------------
(***************************************************************************)
(* One service's file watcher (runtime/filewatch.rs) beside the people and  *)
(* programs that write the files, and the stack that restarts the service.  *)
(*                                                                         *)
(* A file has a stamp, or is Absent.  A scan looks at one file at a time,   *)
(* in the order of the walk, and files change while it goes on.  The stack  *)
(* is what StackSupervisor says of a restart: done, refused, or never       *)
(* answered because it is shutting down.                                    *)
(***************************************************************************)
EXTENDS Integers, Sequences, FiniteSets

CONSTANTS
    Tree,               \* the files of the watched paths, in the order of the walk
    Depth,              \* how many directories each is below its root
    Ignored,            \* those that is_ignored() matches, or a directory above them
    Stamps,             \* what symlink_metadata may say of each file
    Absent,
    MaxEntries,         \* MAX_ENTRIES
    MaxDepth,           \* MAX_DEPTH
    MaxDebounceRounds   \* MAX_DEBOUNCE_ROUNDS

Files == {Tree[i] : i \in DOMAIN Tree}

ASSUME WatchAssumption ==
    /\ Tree \in Seq(Files)
    /\ Depth \in [Files -> Nat]
    /\ Ignored \subseteq Files
    /\ \A f \in Files : Absent \notin Stamps[f]
    /\ {MaxEntries, MaxDepth, MaxDebounceRounds} \subseteq Nat \ {0}

VARIABLES
    disk,       \* the stamp each file has
    at,         \* where watch_service stands
    walk,       \* the scan under way: the next file, what was found, truncated
    previous,   \* the baseline
    current,    \* the last scan since a change was seen
    changed,    \* the files that the next restart will be about
    round,      \* debounce rounds
    request,    \* the restart that was asked for
    touched     \* history: files written since the baseline's scan began

vars == <<disk, at, walk, previous, current, changed, round, request, touched>>

Nothing == [f \in Files |-> Absent]
NewWalk == [next |-> 1, found |-> Nothing, truncated |-> FALSE]

\* first: the scan before the loop; poll: the one after `interval'; settle: the ones
\* after `debounce'; rescan: the one after the restart.
Scanning == {"first", "poll", "settle", "rescan"}
Places   == Scanning \cup {"sleep", "debounce", "ask", "await", "gone"}

Init ==
    /\ disk = Nothing
    /\ at = "first"
    /\ walk = NewWalk
    /\ previous = Nothing
    /\ current = Nothing
    /\ changed = {}
    /\ round = 0
    /\ request = "none"
    /\ touched = {}

-----------------------------------------------------------------------------
(* scan() and walk() *)

Found(w) == Cardinality({f \in Files : w.found[f] # Absent})

SeesAll(f) == Depth[f] <= MaxDepth                               \* mutant

\* walk() comes to the file: nothing above it is ignored or too deep to enter.
Sees(f) == f \notin Ignored /\ Depth[f] <= MaxDepth

\* walk() of one path: the limit is looked at first, then the rules, then the file.
Visited(w) ==
    LET f == Tree[w.next] IN
    IF Found(w) >= MaxEntries
      THEN [w EXCEPT !.truncated = TRUE, !.next = Len(Tree) + 1]
      ELSE [w EXCEPT !.found[f] = IF Sees(f) THEN disk[f] ELSE Absent, !.next = @ + 1]

ScanStep ==
    /\ at \in Scanning
    /\ walk.next <= Len(Tree)
    /\ walk' = Visited(walk)
    /\ UNCHANGED <<disk, at, previous, current, changed, round, request, touched>>

Scanned == walk.next > Len(Tree)

ChangesOfNext(a, b) == {f \in Files : b[f] # Absent /\ a[f] # b[f]}   \* mutant

\* Scan::changes: files that appeared, disappeared or have another stamp.
Changes(a, b) == {f \in Files : a[f] # b[f]}

-----------------------------------------------------------------------------
(* watch_service *)

Goes(there) == at' = there /\ walk' = NewWalk

\* The scan before the loop is the first baseline.  A truncated one is announced.
Baseline ==
    /\ at \in {"first", "rescan"}
    /\ Scanned
    /\ previous' = walk.found
    /\ Goes("sleep")
    /\ UNCHANGED <<disk, current, changed, round, request, touched>>

IntervalElapses ==
    /\ at = "sleep"
    /\ Goes("poll")
    /\ UNCHANGED <<disk, previous, current, changed, round, request, touched>>

Compare ==
    /\ at = "poll"
    /\ Scanned
    /\ changed' = Changes(previous, walk.found)
    /\ \/ changed' = {} /\ UNCHANGED current /\ Goes("sleep")
       \/ changed' # {} /\ current' = walk.found /\ Goes("debounce")
    /\ UNCHANGED <<disk, previous, round, request, touched>>

DebounceElapses ==
    /\ at = "debounce"
    /\ Goes("settle")
    /\ UNCHANGED <<disk, previous, current, changed, round, request, touched>>

SettledOnlyWhenQuiet(extra) == extra = {}                        \* mutant

\* The for loop ends: by its break, or by its bound.
SettledAfter(extra) == extra = {} \/ round + 1 = MaxDebounceRounds

Settle ==
    /\ at = "settle"
    /\ Scanned
    /\ LET extra == Changes(current, walk.found) IN
       /\ changed' = changed \cup extra
       /\ current' = walk.found
       /\ \/ SettledAfter(extra) /\ Goes("ask") /\ UNCHANGED round
          \/ ~SettledAfter(extra) /\ Goes("debounce")
             /\ round' = IF round < MaxDebounceRounds THEN round + 1 ELSE round
    /\ UNCHANGED <<disk, previous, request, touched>>

\* The event and the Restart command; a closed control channel ends the watcher.
AskRestart ==
    /\ at = "ask"
    /\ IF request = "closed"
         THEN Goes("gone") /\ UNCHANGED request
         ELSE Goes("await") /\ request' = "sent"
    /\ UNCHANGED <<disk, previous, current, changed, round, touched>>

\* The answer: done and refused go the same way, a dropped one ends the watcher.
Answered ==
    /\ at = "await"
    /\ \/ request \in {"done", "refused"} /\ Goes("rescan") /\ request' = "none"
       \/ request = "closed" /\ Goes("gone") /\ UNCHANGED request
    /\ current' = Nothing /\ changed' = {} /\ round' = 0
    /\ touched' = {}
    /\ UNCHANGED <<disk, previous>>

\* scan_off_thread yields nothing: the runtime is shutting down.
RuntimeGone ==
    /\ at \in Scanning
    /\ request = "closed"
    /\ Goes("gone")
    /\ UNCHANGED <<disk, previous, current, changed, round, request, touched>>

WatcherStep ==
    \/ ScanStep \/ Baseline \/ IntervalElapses \/ Compare \/ DebounceElapses \/ Settle
    \/ AskRestart \/ Answered \/ RuntimeGone

-----------------------------------------------------------------------------
(* Around the watcher. *)

\* The stack answers a Restart: the service was restarted, or it was busy.
StackAnswers ==
    /\ request = "sent"
    /\ request' \in {"done", "refused"}
    /\ UNCHANGED <<disk, at, walk, previous, current, changed, round, touched>>

\* The stack ends, and its end of the control channel with it.
StackEnds ==
    /\ request # "closed"
    /\ request' = "closed"
    /\ UNCHANGED <<disk, at, walk, previous, current, changed, round, touched>>

\* respawn_watchers after a reload: the old task is aborted wherever it is, and a new
\* one starts over.  The stack answers what was asked to nobody.
Respawn ==
    /\ request # "closed"
    /\ Goes("first")
    /\ previous' = Nothing /\ current' = Nothing /\ changed' = {} /\ round' = 0
    /\ request' = "none"
    /\ touched' = {}
    /\ UNCHANGED disk

\* Somebody writes, creates or removes a file; the service itself may be the one.
Edit(f) ==
    /\ \E stamp \in (Stamps[f] \cup {Absent}) \ {disk[f]} : disk' = [disk EXCEPT ![f] = stamp]
    /\ touched' = touched \cup {f}
    /\ UNCHANGED <<at, walk, previous, current, changed, round, request>>

Next ==
    \/ WatcherStep
    \/ StackAnswers \/ StackEnds \/ Respawn
    \/ \E f \in Files : Edit(f)

\* The runtime runs the watcher's task, and the stack answers its commands
\* (CommandsAreAnswered of StackSupervisor).  Nobody is obliged to write files.
Fairness == WF_vars(WatcherStep) /\ WF_vars(StackAnswers)

Spec == Init /\ [][Next]_vars /\ Fairness

-----------------------------------------------------------------------------
Scans == [Files -> (UNION {Stamps[f] : f \in Files}) \cup {Absent}]

TypeOK ==
    /\ disk \in Scans /\ previous \in Scans /\ current \in Scans
    /\ at \in Places
    /\ walk \in [next : 1..(Len(Tree) + 1), found : Scans, truncated : BOOLEAN]
    /\ changed \subseteq Files /\ touched \subseteq Files
    /\ round \in 0..MaxDebounceRounds
    /\ request \in {"none", "sent", "done", "refused", "closed"}

\* filewatch.rs: a restart is asked for when a file has changed: whenever one is
\* pending, a file that the rules let the walk see was written since the scan that
\* is its baseline began, and no write to an ignored or too deep file suffices.
RestartHasACause ==
    changed # {} => \E f \in touched : f \notin Ignored /\ Depth[f] <= MaxDepth

\* filewatch.rs: "a tree that never settles must still get its restart": once a
\* change was seen the stack is asked, however often files are written meanwhile,
\* unless the watcher is replaced or everything ends.
SeenChangeIsActedOn ==
    (changed # {} /\ at # "await") ~> (request = "sent" \/ at \in {"first", "gone"})

\* filewatch.rs: "a change is a difference between two scans": a file that differs
\* from the baseline for good is not overlooked for ever, however the steps of the
\* scans and the writes fall together.  A truncated scan promises nothing.
LastingChangeIsSeen ==
    \A f \in Files :
        []<>(\/ ~Sees(f) \/ disk[f] = previous[f] \/ walk.truncated
             \/ at \in {"ask", "await", "rescan", "first", "gone"})
=============================================================================
