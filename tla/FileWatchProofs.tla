--------------------------- MODULE FileWatchProofs ---------------------------
(***************************************************************************)
(* Theorems about FileWatch, for every tree, every set of rules and limits  *)
(* and every order of writes, scans, restarts and reloads.                  *)
(*                                                                         *)
(* What carries RestartHasACause is that a scan is a function of the seen   *)
(* part of the disk, even where the limit on entries cuts it short: as long *)
(* as no seen file was written since the baseline's scan began, every scan  *)
(* finds what the baseline found.  A scan is described without recursion:   *)
(* it has come to the n-th file, and at none before it was the limit        *)
(* reached.                                                                 *)
(***************************************************************************)
EXTENDS FileWatch, TLAPS

\* What a scan of a disk at rest has found when the n-th file is next.
Glimpse(d, n) ==
  [f \in Files |-> IF Sees(f) /\ (\E i \in 1..(n - 1) : Tree[i] = f) THEN d[f] ELSE Absent]

\* There the limit on entries ends it.
Full(d, n) == Cardinality({f \in Files : Glimpse(d, n)[f] # Absent}) >= MaxEntries

ScannedTo(d, n, found) ==
  /\ n \in 1..(Len(Tree) + 1)
  /\ found = Glimpse(d, n)
  /\ \A m \in 1..(n - 1) : ~Full(d, m)

\* A whole scan of a disk at rest.
ScanOf(d, found) ==
  \E n \in 1..(Len(Tree) + 1) : ScannedTo(d, n, found) /\ (n = Len(Tree) + 1 \/ Full(d, n))

\* Nothing that a walk sees was written since the baseline's scan began.
Quiet == \A f \in touched : ~Sees(f)

WalkAt ==
  IF walk.truncated THEN walk.next = Len(Tree) + 1 /\ ScanOf(disk, walk.found)
  ELSE ScannedTo(disk, walk.next, walk.found)

IInv ==
  /\ TypeOK
  /\ at \in {"debounce", "settle", "ask", "await"} => changed # {}
  /\ Quiet =>
       /\ changed = {}
       /\ WalkAt
       /\ at \in {"sleep", "poll"} => ScanOf(disk, previous)
-----------------------------------------------------------------------------
(* Lemmas on scans.                                                         *)

\* Two whole scans of a disk at rest agree: the limit cuts both at the same file.
LEMMA ScansAgree ==
  ASSUME NEW d, NEW a, NEW b, ScanOf(d, a), ScanOf(d, b)
  PROVE  a = b
<1>1. PICK n \in 1..(Len(Tree) + 1) : ScannedTo(d, n, a) /\ (n = Len(Tree) + 1 \/ Full(d, n))
  BY DEF ScanOf
<1>2. PICK m \in 1..(Len(Tree) + 1) : ScannedTo(d, m, b) /\ (m = Len(Tree) + 1 \/ Full(d, m))
  BY DEF ScanOf
<1>3. Len(Tree) \in Nat
  BY WatchAssumption
<1>4. ~(n < m)
  <2>1. n < m => n \in 1..(m - 1) /\ n # Len(Tree) + 1
    BY <1>3
  <2> QED BY <2>1, <1>1, <1>2 DEF ScannedTo
<1>5. ~(m < n)
  <2>1. m < n => m \in 1..(n - 1) /\ m # Len(Tree) + 1
    BY <1>3
  <2> QED BY <2>1, <1>1, <1>2 DEF ScannedTo
<1>6. n = m
  BY <1>3, <1>4, <1>5
<1> QED BY <1>1, <1>2, <1>6 DEF ScannedTo

\* What the rules hide does not matter.
LEMMA HiddenFilesDoNotMatter ==
  ASSUME NEW d, NEW e, \A f \in Files : Sees(f) => d[f] = e[f]
  PROVE  /\ \A n, found : ScannedTo(d, n, found) <=> ScannedTo(e, n, found)
         /\ \A found : ScanOf(d, found) <=> ScanOf(e, found)
<1>1. ASSUME NEW n
      PROVE  Glimpse(d, n) = Glimpse(e, n)
  BY DEF Glimpse
<1>2. ASSUME NEW n
      PROVE  Full(d, n) <=> Full(e, n)
  BY <1>1 DEF Full
<1>3. \A n, found : ScannedTo(d, n, found) <=> ScannedTo(e, n, found)
  BY <1>1, <1>2 DEF ScannedTo
<1> QED BY <1>2, <1>3 DEF ScanOf

\* Before its first step a walk has seen nothing.
LEMMA WalkBegins == \A d : ScannedTo(d, 1, Nothing)
<1> TAKE d
<1>1. Len(Tree) \in Nat
  BY WatchAssumption
<1>2. 1..(1 - 1) = {}
  OBVIOUS
<1>3. Glimpse(d, 1) = Nothing
  BY <1>2 DEF Glimpse, Nothing
<1> QED BY <1>1, <1>2, <1>3 DEF ScannedTo

\* The empty baseline is a scan.
LEMMA NothingIsAScan == Nothing \in Scans
BY DEF Nothing, Scans
-----------------------------------------------------------------------------
(* The invariant is inductive.                                              *)

\* The watcher has not begun its first scan, and nothing was written yet.
LEMMA InitIInv == Init => IInv
<1> SUFFICES ASSUME Init PROVE IInv
  OBVIOUS
<1>1. Len(Tree) \in Nat /\ MaxDebounceRounds \in Nat
  BY WatchAssumption
<1>2. TypeOK
  BY <1>1, NothingIsAScan DEF Init, TypeOK, NewWalk, Places, Scanning
<1>3. WalkAt
  BY WalkBegins DEF Init, WalkAt, NewWalk
<1> QED BY <1>2, <1>3 DEF Init, IInv

\* One step of a scan.
LEMMA ScanStepIInv == IInv /\ ScanStep => IInv'
<1> SUFFICES ASSUME IInv, ScanStep PROVE IInv'
  OBVIOUS
<1> DEFINE f == Tree[walk.next]
           seen == IF Sees(f) THEN disk[f] ELSE Absent
<1>1. /\ Len(Tree) \in Nat /\ walk.next \in 1..Len(Tree) /\ f \in Files
      /\ walk \in [next : 1..(Len(Tree) + 1), found : Scans, truncated : BOOLEAN]
      /\ disk \in Scans
  <2>1. Len(Tree) \in Nat /\ Tree \in Seq(Files)
    BY WatchAssumption
  <2>2. walk \in [next : 1..(Len(Tree) + 1), found : Scans, truncated : BOOLEAN] /\ disk \in Scans
    BY DEF IInv, TypeOK
  <2> QED BY <2>1, <2>2 DEF ScanStep
<1>2. seen \in (UNION {Stamps[g] : g \in Files}) \cup {Absent}
  BY <1>1 DEF Scans
<1>3. walk' = IF Found(walk) >= MaxEntries
                THEN [walk EXCEPT !.truncated = TRUE, !.next = Len(Tree) + 1]
                ELSE [walk EXCEPT !.found[f] = seen, !.next = @ + 1]
  BY DEF ScanStep, Visited
<1>4. walk' \in [next : 1..(Len(Tree) + 1), found : Scans, truncated : BOOLEAN]
  <2> DEFINE after == [walk.found EXCEPT ![f] = seen]
  <2>1. after \in Scans
    BY <1>1, <1>2 DEF Scans
  <2>2. walk.next + 1 \in 1..(Len(Tree) + 1) /\ Len(Tree) + 1 \in 1..(Len(Tree) + 1)
    BY <1>1
  <2>3. walk' = IF Found(walk) >= MaxEntries
                  THEN [walk EXCEPT !.truncated = TRUE, !.next = Len(Tree) + 1]
                  ELSE [walk EXCEPT !.found = after, !.next = @ + 1]
    BY <1>1, <1>3
  <2> HIDE DEF after
  <2> QED BY <1>1, <2>1, <2>2, <2>3
<1>5. TypeOK'
  BY <1>4 DEF ScanStep, IInv, TypeOK
<1>6. ASSUME Quiet PROVE WalkAt'
  <2>1. /\ ~walk.truncated /\ ScannedTo(disk, walk.next, walk.found)
    BY <1>6, <1>1 DEF IInv, WalkAt
  <2>2. Found(walk) >= MaxEntries <=> Full(disk, walk.next)
    BY <2>1 DEF Found, Full, ScannedTo
  <2>3. CASE Found(walk) >= MaxEntries
    <3>1. walk'.truncated /\ walk'.next = Len(Tree) + 1 /\ walk'.found = walk.found
      BY <1>1, <1>3, <2>3
    <3>2. ScanOf(disk, walk.found)
      BY <2>1, <2>2, <2>3 DEF ScanOf, ScannedTo
    <3> QED BY <3>1, <3>2 DEF WalkAt, ScanStep
  <2>4. CASE ~(Found(walk) >= MaxEntries)
    <3>1. /\ walk'.truncated = FALSE /\ walk'.next = walk.next + 1
          /\ walk'.found = [walk.found EXCEPT ![f] = seen]
      BY <1>1, <1>3, <2>1, <2>4
    <3>2. walk'.found = Glimpse(disk, walk.next + 1)
      <4>1. walk.found = Glimpse(disk, walk.next)
        BY <2>1 DEF ScannedTo
      <4>2. 1..((walk.next + 1) - 1) = 1..(walk.next - 1) \cup {walk.next}
        BY <1>1
      <4>3. ASSUME NEW g \in Files
            PROVE  (\E i \in 1..((walk.next + 1) - 1) : Tree[i] = g)
                     <=> (g = f \/ \E i \in 1..(walk.next - 1) : Tree[i] = g)
        BY <4>2
      <4>4. walk'.found = [g \in Files |-> IF g = f THEN seen ELSE walk.found[g]]
        BY <1>1, <3>1 DEF Scans
      <4>5. ASSUME NEW g \in Files
            PROVE  (IF g = f THEN seen ELSE walk.found[g]) = Glimpse(disk, walk.next + 1)[g]
        BY <4>1, <4>3, <4>5 DEF Glimpse
      <4>6. Glimpse(disk, walk.next + 1)
              = [g \in Files |-> Glimpse(disk, walk.next + 1)[g]]
        BY DEF Glimpse
      <4> QED BY <4>4, <4>5, <4>6
    <3>3. \A m \in 1..((walk.next + 1) - 1) : ~Full(disk, m)
      BY <1>1, <2>1, <2>2, <2>4 DEF ScannedTo
    <3>4. walk.next + 1 \in 1..(Len(Tree) + 1)
      BY <1>1
    <3>5. ScannedTo(disk, walk'.next, walk'.found)
      BY <3>1, <3>2, <3>3, <3>4 DEF ScannedTo
    <3> QED BY <3>1, <3>5 DEF WalkAt, ScanStep
  <2> QED BY <2>3, <2>4
<1> QED BY <1>5, <1>6 DEF IInv, ScanStep, Quiet

\* A scan that has come to the end is a whole one.
LEMMA WalkIsScan ==
  ASSUME IInv, Quiet, Scanned
  PROVE  ScanOf(disk, walk.found)
<1>1. Len(Tree) \in Nat /\ walk.next \in 1..(Len(Tree) + 1) /\ walk.next > Len(Tree)
  BY WatchAssumption DEF IInv, TypeOK, Scanned
<1>2. walk.next = Len(Tree) + 1
  BY <1>1
<1> QED BY <1>1, <1>2 DEF IInv, WalkAt, ScanOf

\* Every step that leaves a place begins a new walk.
LEMMA GoesIInv ==
  ASSUME IInv, NEW there \in Places, Goes(there), disk' = disk, touched' \in {touched, {}}
  PROVE  /\ at' \in Places
         /\ walk' \in [next : 1..(Len(Tree) + 1), found : Scans, truncated : BOOLEAN]
         /\ disk' \in Scans /\ touched' \subseteq Files
         /\ WalkAt'
<1>1. Len(Tree) \in Nat
  BY WatchAssumption
<1>2. walk' = NewWalk /\ at' = there
  BY DEF Goes
<1>3. walk' \in [next : 1..(Len(Tree) + 1), found : Scans, truncated : BOOLEAN]
  BY <1>1, <1>2, NothingIsAScan DEF NewWalk
<1>4. WalkAt'
  BY <1>2, WalkBegins DEF WalkAt, NewWalk
<1> QED BY <1>2, <1>3, <1>4 DEF IInv, TypeOK

\* A poll's scan is compared with the baseline.
LEMMA CompareIInv == IInv /\ Compare => IInv'
<1> SUFFICES ASSUME IInv, Compare PROVE IInv'
  OBVIOUS
<1>1. /\ at = "poll" /\ Scanned /\ changed' = Changes(previous, walk.found)
      /\ UNCHANGED <<disk, previous, round, request, touched>>
  BY DEF Compare
<1>2. PICK there \in {"sleep", "debounce"} :
        /\ Goes(there) /\ (there = "debounce" => changed' # {})
        /\ current' \in {current, walk.found}
  BY DEF Compare
<1>3. Quiet => changed' = {}
  <2> SUFFICES ASSUME Quiet PROVE changed' = {}
    OBVIOUS
  <2>1. previous = walk.found
    BY <1>1, WalkIsScan, ScansAgree DEF IInv
  <2> QED BY <1>1, <2>1 DEF Changes
<1>4. /\ at' = there /\ at' \in Places
      /\ walk' \in [next : 1..(Len(Tree) + 1), found : Scans, truncated : BOOLEAN]
      /\ disk' \in Scans /\ touched' \subseteq Files /\ WalkAt'
  BY <1>1, <1>2, GoesIInv DEF Goes, Places
<1>5. current' \in Scans /\ changed' \subseteq Files
  BY <1>1, <1>2 DEF IInv, TypeOK, Changes
<1>6. TypeOK'
  BY <1>1, <1>4, <1>5 DEF IInv, TypeOK
<1> QED BY <1>1, <1>2, <1>3, <1>4, <1>6 DEF IInv, Quiet

\* The debouncing loop scans again until two scans agree, or its rounds are over.
LEMMA SettleIInv == IInv /\ Settle => IInv'
<1> SUFFICES ASSUME IInv, Settle PROVE IInv'
  OBVIOUS
<1> DEFINE extra == Changes(current, walk.found)
<1>1. /\ at = "settle" /\ changed # {} /\ ~Quiet
  BY DEF IInv, Settle
<1>2. /\ changed' = changed \cup extra /\ current' = walk.found
      /\ UNCHANGED <<disk, previous, request, touched>>
      /\ round' \in {round, IF round < MaxDebounceRounds THEN round + 1 ELSE round}
  BY DEF Settle
<1>3. PICK there \in {"ask", "debounce"} : Goes(there)
  BY DEF Settle
<1>4. /\ at' = there /\ at' \in Places
      /\ walk' \in [next : 1..(Len(Tree) + 1), found : Scans, truncated : BOOLEAN]
      /\ disk' \in Scans /\ touched' \subseteq Files
  BY <1>2, <1>3, GoesIInv DEF Goes, Places
<1>5. round' \in 0..MaxDebounceRounds
  BY <1>2, WatchAssumption DEF IInv, TypeOK
<1>6. TypeOK'
  BY <1>2, <1>4, <1>5 DEF IInv, TypeOK, Changes
<1> QED BY <1>1, <1>2, <1>3, <1>6 DEF IInv, Quiet

\* A file that the walks do not see may be written without a trace.
LEMMA EditIInv == ASSUME IInv, NEW f \in Files, Edit(f) PROVE IInv'
<1>1. PICK stamp \in (Stamps[f] \cup {Absent}) \ {disk[f]} : disk' = [disk EXCEPT ![f] = stamp]
  BY DEF Edit
<1>2. disk \in Scans /\ touched \subseteq Files
  BY DEF IInv, TypeOK
<1>3. disk' \in Scans
  BY <1>1, <1>2 DEF Scans
<1>4. /\ touched' = touched \cup {f}
      /\ UNCHANGED <<at, walk, previous, current, changed, round, request>>
  BY DEF Edit
<1>5. TypeOK'
  BY <1>2, <1>3, <1>4 DEF IInv, TypeOK
<1>6. ASSUME Quiet' PROVE Quiet /\ changed' = {} /\ WalkAt'
                          /\ (at' \in {"sleep", "poll"} => ScanOf(disk', previous'))
  <2>1. Quiet /\ ~Sees(f)
    BY <1>4, <1>6 DEF Quiet, Sees
  <2>2. \A g \in Files : Sees(g) => disk[g] = disk'[g]
    BY <1>1, <1>2, <2>1 DEF Scans
  <2>3. /\ \A n, found : ScannedTo(disk, n, found) <=> ScannedTo(disk', n, found)
        /\ \A found : ScanOf(disk, found) <=> ScanOf(disk', found)
    BY <2>2, HiddenFilesDoNotMatter
  <2>4. walk' = walk /\ at' = at /\ previous' = previous /\ changed' = changed
    BY <1>4
  <2>5. WalkAt' <=> IF walk.truncated THEN walk.next = Len(Tree) + 1 /\ ScanOf(disk', walk.found)
                    ELSE ScannedTo(disk', walk.next, walk.found)
    BY <2>4 DEF WalkAt
  <2> QED BY <2>1, <2>3, <2>4, <2>5 DEF IInv, WalkAt
<1> QED BY <1>4, <1>5, <1>6 DEF IInv

\* Every step keeps the invariant.
LEMMA NextIInv == IInv /\ [Next]_vars => IInv'
<1> SUFFICES ASSUME IInv, [Next]_vars PROVE IInv'
  OBVIOUS
<1> USE NothingIsAScan
<1>1. CASE ScanStep
  BY <1>1, ScanStepIInv
<1>2. CASE Baseline
  <2>1. Goes("sleep") /\ disk' = disk /\ touched' = touched /\ previous' = walk.found
        /\ UNCHANGED <<current, changed, round, request>> /\ Scanned
    BY <1>2 DEF Baseline
  <2>2. /\ at' = "sleep" /\ at' \in Places
        /\ walk' \in [next : 1..(Len(Tree) + 1), found : Scans, truncated : BOOLEAN]
        /\ disk' \in Scans /\ touched' \subseteq Files /\ WalkAt'
    BY <2>1, GoesIInv DEF Goes, Places
  <2>3. TypeOK'
    BY <2>1, <2>2 DEF IInv, TypeOK
  <2>4. Quiet => ScanOf(disk, walk.found)
    BY <2>1, WalkIsScan
  <2> QED BY <2>1, <2>2, <2>3, <2>4 DEF IInv, Quiet
<1>3. CASE IntervalElapses
  <2>1. Goes("poll") /\ at = "sleep"
        /\ UNCHANGED <<disk, previous, current, changed, round, request, touched>>
    BY <1>3 DEF IntervalElapses
  <2>2. /\ at' = "poll" /\ at' \in Places
        /\ walk' \in [next : 1..(Len(Tree) + 1), found : Scans, truncated : BOOLEAN]
        /\ disk' \in Scans /\ touched' \subseteq Files /\ WalkAt'
    BY <2>1, GoesIInv DEF Goes, Places, Scanning
  <2>3. TypeOK'
    BY <2>1, <2>2 DEF IInv, TypeOK
  <2> QED BY <2>1, <2>2, <2>3 DEF IInv, Quiet
<1>4. CASE Compare
  BY <1>4, CompareIInv
<1>5. CASE DebounceElapses
  <2>1. Goes("settle") /\ at = "debounce"
        /\ UNCHANGED <<disk, previous, current, changed, round, request, touched>>
    BY <1>5 DEF DebounceElapses
  <2>2. /\ at' = "settle" /\ at' \in Places
        /\ walk' \in [next : 1..(Len(Tree) + 1), found : Scans, truncated : BOOLEAN]
        /\ disk' \in Scans /\ touched' \subseteq Files /\ WalkAt'
    BY <2>1, GoesIInv DEF Goes, Places, Scanning
  <2>3. TypeOK'
    BY <2>1, <2>2 DEF IInv, TypeOK
  <2> QED BY <2>1, <2>2, <2>3 DEF IInv, Quiet
<1>6. CASE Settle
  BY <1>6, SettleIInv
<1>7. CASE AskRestart
  <2>1. PICK there \in {"gone", "await"} : Goes(there)
    BY <1>7 DEF AskRestart
  <2>2. /\ at = "ask" /\ request' \in {"none", "sent", "done", "refused", "closed"}
        /\ UNCHANGED <<disk, previous, current, changed, round, touched>>
    BY <1>7 DEF AskRestart, IInv, TypeOK
  <2>3. /\ at' = there /\ at' \in Places
        /\ walk' \in [next : 1..(Len(Tree) + 1), found : Scans, truncated : BOOLEAN]
        /\ disk' \in Scans /\ touched' \subseteq Files /\ WalkAt'
    BY <2>1, <2>2, GoesIInv DEF Goes, Places
  <2>4. TypeOK'
    BY <2>2, <2>3 DEF IInv, TypeOK
  <2> QED BY <2>1, <2>2, <2>3, <2>4 DEF IInv, Quiet
<1>8. CASE Answered
  <2>1. PICK there \in {"gone", "rescan"} : Goes(there)
    BY <1>8 DEF Answered
  <2>2. /\ request' \in {"none", "sent", "done", "refused", "closed"}
        /\ current' = Nothing /\ changed' = {} /\ round' = 0 /\ touched' = {}
        /\ UNCHANGED <<disk, previous>>
    BY <1>8 DEF Answered, IInv, TypeOK
  <2>3. /\ at' = there /\ at' \in Places
        /\ walk' \in [next : 1..(Len(Tree) + 1), found : Scans, truncated : BOOLEAN]
        /\ disk' \in Scans /\ touched' \subseteq Files /\ WalkAt'
    BY <2>1, <2>2, GoesIInv DEF Goes, Places, Scanning
  <2>4. TypeOK'
    BY <2>2, <2>3, WatchAssumption DEF IInv, TypeOK
  <2> QED BY <2>1, <2>2, <2>3, <2>4 DEF IInv
<1>9. CASE RuntimeGone
  <2>1. Goes("gone") /\ UNCHANGED <<disk, previous, current, changed, round, request, touched>>
    BY <1>9 DEF RuntimeGone
  <2>2. /\ at' = "gone" /\ at' \in Places
        /\ walk' \in [next : 1..(Len(Tree) + 1), found : Scans, truncated : BOOLEAN]
        /\ disk' \in Scans /\ touched' \subseteq Files /\ WalkAt'
    BY <2>1, GoesIInv DEF Goes, Places
  <2>3. TypeOK'
    BY <2>1, <2>2 DEF IInv, TypeOK
  <2> QED BY <2>1, <2>2, <2>3 DEF IInv, Quiet
<1>10. CASE StackAnswers
  <2>1. /\ request' \in {"none", "sent", "done", "refused", "closed"}
        /\ UNCHANGED <<disk, at, walk, previous, current, changed, round, touched>>
    BY <1>10 DEF StackAnswers
  <2> QED BY <2>1 DEF IInv, TypeOK, Quiet, WalkAt
<1>11. CASE StackEnds
  <2>1. /\ request' \in {"none", "sent", "done", "refused", "closed"}
        /\ UNCHANGED <<disk, at, walk, previous, current, changed, round, touched>>
    BY <1>11 DEF StackEnds
  <2> QED BY <2>1 DEF IInv, TypeOK, Quiet, WalkAt
<1>12. CASE Respawn
  <2>1. /\ Goes("first") /\ disk' = disk /\ touched' = {}
        /\ previous' = Nothing /\ current' = Nothing /\ changed' = {} /\ round' = 0
        /\ request' = "none"
    BY <1>12 DEF Respawn
  <2>2. /\ at' = "first" /\ at' \in Places
        /\ walk' \in [next : 1..(Len(Tree) + 1), found : Scans, truncated : BOOLEAN]
        /\ disk' \in Scans /\ touched' \subseteq Files /\ WalkAt'
    BY <2>1, GoesIInv DEF Goes, Places, Scanning
  <2>3. TypeOK'
    BY <2>1, <2>2, WatchAssumption DEF IInv, TypeOK
  <2> QED BY <2>1, <2>2, <2>3 DEF IInv
<1>13. ASSUME NEW f \in Files, Edit(f) PROVE IInv'
  BY <1>13, EditIInv
<1>14. CASE UNCHANGED vars
  BY <1>14 DEF vars, IInv, TypeOK, Quiet, WalkAt
<1> QED BY <1>1, <1>2, <1>3, <1>4, <1>5, <1>6, <1>7, <1>8, <1>9, <1>10, <1>11, <1>12,
           <1>13, <1>14 DEF Next, WatcherStep

\* The invariant holds throughout.
LEMMA Inductive == Spec => []IInv
BY InitIInv, NextIInv, PTL DEF Spec
-----------------------------------------------------------------------------
(* The theorems.                                                            *)

\* The variables of a watcher keep their types, whatever the tree.
THEOREM TypeCorrect == Spec => []TypeOK
<1>1. IInv => TypeOK
  BY DEF IInv
<1> QED BY <1>1, Inductive, PTL

\* Scan::changes, walk() and the debounce loop together: a restart is pending only
\* when a file that the rules let the walk see was written, also when the limit on
\* entries cuts the scans short.
THEOREM PendingRestartHasACause == Spec => []RestartHasACause
<1>1. IInv => RestartHasACause
  BY DEF IInv, Quiet, Sees, RestartHasACause
<1> QED BY <1>1, Inductive, PTL

\* The Restart command is never sent without such a file.
THEOREM RestartIsNeverIdle ==
  Spec => [][AskRestart => \E f \in touched : Sees(f)]_vars
<1>1. IInv /\ [Next]_vars => [AskRestart => \E f \in touched : Sees(f)]_vars
  BY DEF IInv, AskRestart, Quiet
<1> QED BY <1>1, Inductive, PTL DEF Spec
=============================================================================
