------------------------ MODULE DaemonClientsProofs ------------------------
(***************************************************************************)
(* Theorems about DaemonClients, for any number of connections and permits,  *)
(* any backlog, any history and any names that `start --wait' is given.      *)
(*                                                                         *)
(* What a subscriber is owed is spread over what it heard, the socket and    *)
(* the line its task is writing.  Taken together they are its trail, and a   *)
(* trail only ever grows at the daemon's end: writing, greeting and reading  *)
(* move items along it.  So the argument about gaps is one about sequences,  *)
(* and the connections only have to show that they carry it.                 *)
(***************************************************************************)
EXTENDS DaemonClients, FiniteSetTheorems, SequenceTheorems, WellFoundedInduction, TLAPS

\* What the daemon writes, and what a call may return.
Words   == {"refused", "error", "pong", "status", "ok", "event", "lagged"}
Answers == [kind : Words, n : Nat]
Results == [kind : Words \cup {"nothing", "NotRunning", "Failed", "over"}, n : Nat]
Writing == [line : Answers \cup {Nothing}, next : {"read", "stream", "close", "strike"}]
Stages  == {"idle", "check", "names", "poll", "refused", "ready", "gone", "timeout", "error"}
Waiting == [stage : Stages, call : Waits \cup {NoCall}, todo : Seq({"service", "other"}),
            failed : BOOLEAN, from : Nat, seen : Nat]

Inboxes == Seq(Lines)
Outboxes == Seq(Answers)
Places  == Closed \cup Serving \cup {"backlog"}
Calls   == {"idle", "open", "reading", "following", "gone"}

StreamTypes == events \in Seq(Kinds) /\ applied \in 0..Len(events) /\ sent \in 0..applied

ConnTypes ==
  /\ daemon \in {"serving", "closing", "gone"} /\ permits \in Nat
  /\ conn \in [Conns -> Places]
  /\ say \in [Conns -> Writing] /\ pos \in [Conns -> Nat]
  /\ inbox \in [Conns -> Inboxes] /\ outbox \in [Conns -> Outboxes]
  /\ call \in [Conns -> Calls]
  /\ request \in [Conns -> Lines] /\ outcome \in [Conns -> Results]
  /\ hello \in [Conns -> Nat] /\ heard \in [Conns -> Outboxes]
  /\ \A c \in Conns : conn[c] = "write" => say[c].line \in Answers

WaitTypes ==
  /\ cast \in Casts /\ wait \in Waiting
  /\ wait.stage \in {"check", "names"} => wait.todo # <<>>

Types == StreamTypes /\ ConnTypes /\ WaitTypes

\* A permit is free, or with a connection that is served.
Used == {c \in Conns : conn[c] \in Serving}
PermitsAt == IsFiniteSet(Used) /\ permits + Cardinality(Used) <= MaxConnections

-----------------------------------------------------------------------------
(* Subscribers.                                                             *)

\* What is on its way to a subscriber, and with what it heard its trail: all that
\* it was sent after the hello.
Pipe(c)  == outbox[c] \o (IF conn[c] = "write" THEN <<say[c].line>> ELSE <<>>)
Trail(c) == heard[c] \o (IF call[c] = "reading" THEN Tail(Pipe(c)) ELSE Pipe(c))

\* Missing, of events `evs' and a subscriber that does or does not want the logs.
Lost(evs, logs, q, k, from, to) == {i \in (from + 1)..to : logs \/ evs[i] # "Log"} \ Got(q, k)

\* The trail of a subscription made after `from' events, of which none came after `top'.
Sound(evs, logs, q, from, top) ==
  \A k \in 1..Len(q) :
    /\ q[k].kind \in {"event", "lagged"} /\ q[k].n \in 0..top
    /\ q[k].kind = "event" =>
         /\ \A i \in Got(q, k - 1) : i < q[k].n
         /\ Cardinality(Lost(evs, logs, q, k, from, q[k].n)) <= Cardinality(Told(q, k))

\* It accounts for every event up to `at'.
Accounts(evs, logs, q, from, at) ==
  /\ \A i \in Got(q, Len(q)) : i \in 0..at
  /\ Cardinality(Lost(evs, logs, q, Len(q), from, at)) <= Cardinality(Told(q, Len(q)))

Unsubscribed(c) ==
  /\ heard[c] = <<>> /\ \A i \in 1..Len(Pipe(c)) : Pipe(c)[i].kind = "refused"
  /\ conn[c] # "stream" /\ (conn[c] = "write" => say[c].next = "close")
  /\ outbox[c] # <<>> => conn[c] \in Closed
  /\ inbox[c] \in {<<>>, <<"subscribe">>}
  /\ call[c] \in {"idle", "open"} => inbox[c] = <<>>
  /\ call[c] = "open" => request[c] = "subscribe"
  /\ call[c] # "following" /\ (call[c] = "gone" => conn[c] \in Closed)

Subscribed(c) ==
  /\ call[c] \in {"reading", "following", "gone"} /\ inbox[c] = <<>>
  /\ call[c] = "reading" => heard[c] = <<>> /\ Pipe(c) # <<>> /\ Head(Pipe(c)).kind = "ok"
  /\ conn[c] \in Closed \cup {"write", "stream"} /\ (conn[c] = "write" => say[c].next = "stream")
  /\ \E from \in 0..sent :
       /\ call[c] # "reading" => from <= hello[c]
       /\ Sound(events, c \notin NoLogs, Trail(c), from, sent)
       /\ conn[c] \notin Closed =>
            /\ pos[c] \in from..sent
            /\ Accounts(events, c \notin NoLogs, Trail(c), from, pos[c])

FollowerAt(c) == Unsubscribed(c) \/ Subscribed(c)

-----------------------------------------------------------------------------
(* `start --wait'.                                                          *)

\* A snapshot is not older than the answer to the last start.
Fresh(answer) == answer.kind = "status" => answer.n \in wait.from..applied

FreshAt(c) ==
  /\ Fresh(outcome[c]) /\ (conn[c] = "write" => Fresh(say[c].line))
  /\ \A i \in 1..Len(outbox[c]) : Fresh(outbox[c][i])

WaitAt ==
  /\ wait.from <= applied
  /\ wait.stage = "poll" /\ wait.call # NoCall => FreshAt(wait.call)
  /\ wait.stage \in {"ready", "gone"} => wait.seen \in wait.from..applied
  /\ wait.stage = "ready" => AnnouncedReady(wait.seen)
  /\ wait.stage = "gone" => AnnouncedGone(wait.seen)

IInv == Types /\ PermitsAt /\ (\A c \in Follows : FollowerAt(c)) /\ WaitAt

-----------------------------------------------------------------------------
(* Numbers.                                                                 *)

\* A set of numbers has a least one: induction on numbers in first-order form.
LEMMA Least ==
  ASSUME NEW T \in SUBSET Nat, T # {}
  PROVE  \E n \in T : \A m \in T : n <= m
<1> DEFINE R == OpToRel(<, Nat)
<1>1. IsWellFoundedOn(R, Nat)
  BY NatLessThanWellFounded
<1>2. \A n, m \in Nat : n < m => <<n, m>> \in R
  BY DEF OpToRel
<1> HIDE DEF R
<1>3. PICK n \in T : \A m \in T : ~(<<m, n>> \in R)
  BY <1>1, WFMin
<1>4. ASSUME NEW m \in T
      PROVE  n <= m
  <2>1. m \in Nat /\ n \in Nat /\ ~(m < n)
    BY <1>2, <1>3
  <2> QED BY <2>1
<1> QED BY <1>4

\* A set of numbers up to n has a greatest one, and that is its Max.
LEMMA Greatest ==
  ASSUME NEW n \in Nat, NEW S \in SUBSET (0..n), S # {}
  PROVE  Max(S) \in S /\ \A m \in S : m <= Max(S)
<1> DEFINE T == {d \in Nat : n - d \in S}
<1>0. ASSUME NEW m \in S
      PROVE  m \in 0..n /\ n - m \in Nat /\ n - (n - m) = m
  <2>1. m \in 0..n
    OBVIOUS
  <2> QED BY <2>1
<1>1. T \in SUBSET Nat /\ T # {}
  BY <1>0
<1>2. PICK t \in T : \A u \in T : t <= u
  <2> HIDE DEF T
  <2> QED BY <1>1, Least
<1>3. t \in Nat /\ n - t \in S
  BY <1>2
<1>4. ASSUME NEW m \in S
      PROVE  n - t >= m
  <2>1. n - m \in T
    BY <1>0
  <2>2. t <= n - m /\ m \in 0..n
    BY <1>0, <1>2, <2>1
  <2> QED BY <1>3, <2>2
<1>5. Max(S) \in S /\ \A m \in S : Max(S) >= m
  BY <1>3, <1>4 DEF Max
<1>6. ASSUME NEW m \in S
      PROVE  m <= Max(S)
  <2>1. m \in 0..n /\ Max(S) \in 0..n /\ Max(S) >= m
    BY <1>0, <1>5
  <2> QED BY <2>1
<1> QED BY <1>5, <1>6

\* The greatest of a set is known when it is seen.
LEMMA GreatestIs ==
  ASSUME NEW n \in Nat, NEW S \in SUBSET (0..n), NEW x \in S, \A m \in S : m <= x
  PROVE  Max(S) = x
<1>1. Max(S) \in S /\ \A m \in S : m <= Max(S)
  BY Greatest
<1>2. Max(S) \in 0..n /\ x \in 0..n /\ Max(S) <= x /\ x <= Max(S)
  BY <1>1
<1> HIDE DEF Max
<1> QED BY <1>2

-----------------------------------------------------------------------------
(* The registry and the events.                                             *)

\* f follows the events from a new entry to the n-th.
Folded(f, evs, n) ==
  /\ f = [m \in 0..n |-> f[m]]
  /\ f[0] = NewEntry /\ \A m \in 1..n : f[m] = Apply(f[m - 1], evs[m])

\* Such functions agree where both are defined.
LEMMA FoldedAgree ==
  ASSUME NEW evs, NEW k \in Nat, NEW n \in Nat, k <= n, NEW f, NEW g,
         Folded(f, evs, k), Folded(g, evs, n)
  PROVE  f[k] = g[k]
<1> DEFINE Bad == {m \in 0..k : f[m] # g[m]}
<1>1. ASSUME Bad # {}
      PROVE  FALSE
  <2>1. PICK m \in Bad : \A j \in Bad : m <= j
    <3>1. Bad \in SUBSET Nat
      OBVIOUS
    <3> HIDE DEF Bad
    <3> QED BY <1>1, <3>1, Least
  <2>2. m # 0 /\ m \in 0..k /\ f[m] # g[m]
    BY <2>1 DEF Folded
  <2>3. m \in 1..k /\ m \in 1..n /\ m - 1 \in 0..k /\ ~(m <= m - 1)
    BY <2>2
  <2>4. f[m - 1] = g[m - 1]
    BY <2>1, <2>3
  <2>5. f[m] = Apply(f[m - 1], evs[m]) /\ g[m] = Apply(g[m - 1], evs[m])
    BY <2>3 DEF Folded
  <2> QED BY <2>2, <2>4, <2>5
<1>2. k \in 0..k
  OBVIOUS
<1> QED BY <1>1, <1>2

\* There is one for every n.
LEMMA FoldedExist == ASSUME NEW evs PROVE \A n \in Nat : \E f : Folded(f, evs, n)
<1> DEFINE Bad == {n \in Nat : ~ \E f : Folded(f, evs, n)}
<1>1. ASSUME Bad # {}
      PROVE  FALSE
  <2>1. PICK n \in Bad : \A m \in Bad : n <= m
    <3>1. Bad \in SUBSET Nat
      OBVIOUS
    <3> HIDE DEF Bad
    <3> QED BY <1>1, <3>1, Least
  <2>2. n \in Nat /\ ~ \E f : Folded(f, evs, n)
    BY <2>1
  <2>3. n # 0
    <3>1. Folded([m \in 0..0 |-> NewEntry], evs, 0)
      BY DEF Folded
    <3> QED BY <2>2, <3>1
  <2>4. n - 1 \in Nat /\ n \in 1..n /\ n - 1 \in 0..(n - 1) /\ ~(n <= n - 1)
    BY <2>2, <2>3
  <2>5. PICK f : Folded(f, evs, n - 1)
    BY <2>1, <2>4
  <2> DEFINE g == [m \in 0..n |-> IF m = n THEN Apply(f[n - 1], evs[n]) ELSE f[m]]
  <2>6. g = [m \in 0..n |-> g[m]]
    OBVIOUS
  <2>7. f[0] = NewEntry /\ \A m \in 1..(n - 1) : f[m] = Apply(f[m - 1], evs[m])
    BY <2>5 DEF Folded
  <2>8. g[0] = NewEntry
    BY <2>2, <2>3, <2>7
  <2>9. ASSUME NEW m \in 1..n
        PROVE  g[m] = Apply(g[m - 1], evs[m])
    <3>1. m - 1 \in 0..n /\ m - 1 # n /\ m \in 0..n
      BY <2>2
    <3>2. g[m - 1] = f[m - 1]
      BY <3>1
    <3>3. CASE m = n
      BY <3>1, <3>2, <3>3
    <3>4. CASE m # n
      <4>1. m \in 1..(n - 1) /\ g[m] = f[m]
        BY <2>2, <3>1, <3>4
      <4> QED BY <2>7, <3>2, <4>1
    <3> QED BY <3>3, <3>4
  <2> HIDE DEF g
  <2>10. Folded(g, evs, n)
    BY <2>6, <2>8, <2>9 DEF Folded
  <2> QED BY <2>2, <2>10
<1> QED BY <1>1

\* The recursive function is the one that its definition describes.
LEMMA RegistryFacts ==
  /\ Registry[0] = NewEntry
  /\ \A n \in Nat \ {0} : Registry[n] = Apply(Registry[n - 1], events[n])
<1> DEFINE e(n) == CHOOSE f : Folded(f, events, n)
           g == [n \in Nat |-> e(n)[n]]
           Next1(h) == [n \in Nat |-> IF n = 0 THEN NewEntry ELSE Apply(h[n - 1], events[n])]
<1>1. ASSUME NEW n \in Nat
      PROVE  Folded(e(n), events, n)
  BY FoldedExist
<1>2. g[0] = NewEntry
  BY <1>1 DEF Folded
<1>3. ASSUME NEW n \in Nat, n # 0
      PROVE  g[n] = Apply(g[n - 1], events[n])
  <2> DEFINE a == e(n - 1)
             d == e(n)
  <2>1. n - 1 \in Nat /\ n - 1 <= n /\ n \in 1..n
    BY <1>3
  <2>2. Folded(a, events, n - 1) /\ Folded(d, events, n)
    BY <1>1, <2>1
  <2>3. g[n] = d[n] /\ g[n - 1] = a[n - 1]
    BY <2>1
  <2> HIDE DEF d, a, g
  <2>4. a[n - 1] = d[n - 1]
    BY <2>1, <2>2, FoldedAgree
  <2>5. d[n] = Apply(d[n - 1], events[n])
    BY <2>1, <2>2 DEF Folded
  <2> QED BY <2>3, <2>4, <2>5
<1>4. \E h : h = Next1(h)
  <2>1. g = [n \in Nat |-> g[n]]
    OBVIOUS
  <2> HIDE DEF g
  <2>2. \A n \in Nat : g[n] = IF n = 0 THEN NewEntry ELSE Apply(g[n - 1], events[n])
    BY <1>2, <1>3
  <2>3. g = Next1(g)
    BY <2>1, <2>2
  <2> QED BY <2>3
<1> DEFINE p == CHOOSE h : h = Next1(h)
<1>5. p = Next1(p)
  <2> HIDE DEF Next1
  <2> QED BY <1>4
<1>6. Registry = p
  BY DEF Registry
<1> HIDE DEF p
<1>7. \A n \in Nat : Registry[n] = IF n = 0 THEN NewEntry ELSE Apply(Registry[n - 1], events[n])
  BY <1>5, <1>6
<1> QED BY <1>7

\* One more event is the latest of its kind, and changes nothing for the others.
LEMMA LatestStep ==
  ASSUME NEW S, NEW n \in Nat, NEW from \in 1..(n + 1)
  PROVE  Latest(S, from, n + 1) = IF events[n + 1] \in S THEN events[n + 1] ELSE Latest(S, from, n)
<1> DEFINE I == Indices(S, from, n)
           J == Indices(S, from, n + 1)
<1>1. CASE events[n + 1] \in S
  <2>1. J \in SUBSET (0..(n + 1)) /\ n + 1 \in J /\ \A m \in J : m <= n + 1
    BY <1>1 DEF Indices
  <2> HIDE DEF J
  <2>2. Max(J) = n + 1
    <3>1. n + 1 \in Nat
      OBVIOUS
    <3> QED BY <2>1, <3>1, GreatestIs
  <2> QED BY <1>1, <2>1, <2>2 DEF Latest, J
<1>2. CASE events[n + 1] \notin S
  <2>1. I = J
    <3>1. ASSUME NEW i \in J
          PROVE  i \in I
      <4>1. i \in from..(n + 1) /\ events[i] \in S /\ i # n + 1
        BY <1>2 DEF Indices
      <4> QED BY <4>1 DEF Indices
    <3>2. I \subseteq J
      BY DEF Indices
    <3> QED BY <3>1, <3>2
  <2> QED BY <1>2, <2>1 DEF Latest
<1> QED BY <1>1, <1>2

\* Where the run that the n-th event belongs to begins.
LEMMA BegunStep ==
  ASSUME NEW n \in Nat
  PROVE  /\ Begun(n) \in 1..(n + 1)
         /\ Begun(n + 1) = IF events[n + 1] = "Starting" THEN n + 1 ELSE Begun(n)
<1> DEFINE I == Indices({"Starting"}, 1, n)
           J == Indices({"Starting"}, 1, n + 1)
<1>1. Begun(n) \in 1..(n + 1)
  <2>1. I \in SUBSET (0..n) /\ \A i \in I : i \in 1..n
    BY DEF Indices
  <2>2. Begun(n) = IF I = {} THEN 1 ELSE Max(I)
    BY DEF Begun
  <2> HIDE DEF I
  <2>3. I # {} => Max(I) \in I
    BY <2>1, Greatest
  <2>4. I # {} => Max(I) \in 1..n
    BY <2>1, <2>3
  <2> QED BY <2>2, <2>4
<1>2. Begun(n) = (IF I = {} THEN 1 ELSE Max(I)) /\ Begun(n + 1) = (IF J = {} THEN 1 ELSE Max(J))
  BY DEF Begun
<1>3. CASE events[n + 1] = "Starting"
  <2>1. J \in SUBSET (0..(n + 1)) /\ n + 1 \in J /\ \A m \in J : m <= n + 1
    BY <1>3 DEF Indices
  <2> HIDE DEF J
  <2>2. Max(J) = n + 1
    <3>1. n + 1 \in Nat
      OBVIOUS
    <3> QED BY <2>1, <3>1, GreatestIs
  <2> QED BY <1>1, <1>2, <1>3, <2>1, <2>2
<1>4. CASE events[n + 1] # "Starting"
  <2>1. I = J
    <3>1. ASSUME NEW i \in J
          PROVE  i \in I
      <4>1. i \in 1..(n + 1) /\ events[i] \in {"Starting"} /\ i # n + 1
        BY <1>4 DEF Indices
      <4> QED BY <4>1 DEF Indices
    <3>2. I \subseteq J
      BY DEF Indices
    <3> QED BY <3>1, <3>2
  <2> QED BY <1>1, <1>2, <1>4, <2>1
<1> QED BY <1>3, <1>4

\* What an entry of the registry says, from what was announced.
Or(word, default) == IF word = "none" THEN default ELSE word
EntryAt(n) == [state  |-> Or(Latest(StateKinds, 1, n), "Pending"),
             health |-> Or(Latest(HealthKinds, Begun(n), n), "Starting")]

\* StatusRegistry::apply, kind by kind.
LEMMA ApplyFacts ==
  ASSUME NEW entry, NEW kind
  PROVE  /\ kind = "Starting" => Apply(entry, kind) = [state |-> "Starting", health |-> "Starting"]
         /\ kind \in StateKinds /\ kind # "Starting" =>
              Apply(entry, kind) = [entry EXCEPT !.state = kind]
         /\ kind \in HealthKinds => Apply(entry, kind) = [entry EXCEPT !.health = kind]
         /\ kind = "Log" => Apply(entry, kind) = entry
<1> DEFINE a == [entry EXCEPT !.state = kind]
           b == [entry EXCEPT !.health = kind]
           r == [state |-> "Starting", health |-> "Starting"]
<1>1. /\ kind = "Starting" => kind \notin StateKinds \ {"Starting"} /\ kind \notin HealthKinds
      /\ kind \in HealthKinds => kind \notin StateKinds /\ kind # "Starting"
      /\ kind = "Log" => kind \notin StateKinds /\ kind \notin HealthKinds /\ kind # "Starting"
  BY DEF StateKinds, HealthKinds
<1>2. Apply(entry, kind) = CASE kind = "Starting" -> r
                             [] kind \in StateKinds \ {"Starting"} -> a
                             [] kind \in HealthKinds -> b
                             [] OTHER -> entry
  BY DEF Apply
<1> HIDE DEF a, b, r
<1>3. /\ kind = "Starting" => Apply(entry, kind) = r
      /\ kind \in StateKinds /\ kind # "Starting" => Apply(entry, kind) = a
      /\ kind \in HealthKinds => Apply(entry, kind) = b
      /\ kind = "Log" => Apply(entry, kind) = entry
  BY <1>1, <1>2
<1> QED BY <1>3 DEF a, b, r

\* StatusRegistry::apply says what was announced: the state announced last, and the
\* last verdict on the process that was started last.
LEMMA RegistryIsAnnounced ==
  ASSUME events \in Seq(Kinds), NEW n \in 0..Len(events)
  PROVE  Registry[n] = EntryAt(n)
<1> DEFINE Bad == {m \in 0..Len(events) : Registry[m] # EntryAt(m)}
<1>1. ASSUME Bad # {}
      PROVE  FALSE
  <2>1. PICK m \in Bad : \A j \in Bad : m <= j
    <3>1. Bad \in SUBSET Nat
      OBVIOUS
    <3> HIDE DEF Bad
    <3> QED BY <1>1, <3>1, Least
  <2>2. m \in 0..Len(events) /\ Len(events) \in Nat /\ Registry[m] # EntryAt(m)
    BY <2>1
  <2>3. m # 0
    <3>1. Indices(StateKinds, 1, 0) = {} /\ Indices(HealthKinds, Begun(0), 0) = {}
      <4>1. Indices({"Starting"}, 1, 0) = {} /\ Indices(StateKinds, 1, 0) = {}
        BY DEF Indices
      <4>2. Begun(0) = 1
        BY <4>1 DEF Begun
      <4> QED BY <4>1, <4>2 DEF Indices
    <3>2. EntryAt(0) = NewEntry
      BY <3>1 DEF EntryAt, Or, Latest, NewEntry
    <3> QED BY <2>2, <3>2, RegistryFacts
  <2> DEFINE k == m - 1
             kind == events[m]
  <2>4. k \in Nat /\ k \in 0..Len(events) /\ k + 1 = m /\ ~(m <= k) /\ m \in 1..Len(events)
    BY <2>2, <2>3
  <2>5. Registry[k] = EntryAt(k) /\ Registry[m] = Apply(Registry[k], kind)
    BY <2>1, <2>2, <2>3, <2>4, RegistryFacts
  <2>6. kind \in Kinds
    BY <2>4
  <2> HIDE DEF k
  <2> HIDE DEF kind
  <2>7. Latest(StateKinds, 1, m) = IF kind \in StateKinds THEN kind ELSE Latest(StateKinds, 1, k)
    <3>1. 1 \in 1..(k + 1)
      BY <2>4
    <3> QED BY <2>4, <3>1, LatestStep DEF kind
  <2>8. /\ Begun(k) \in 1..m
        /\ Begun(m) = IF kind = "Starting" THEN m ELSE Begun(k)
    BY <2>4, BegunStep DEF kind
  <2>9. Begun(m) = Begun(k) => Latest(HealthKinds, Begun(m), m) =
            IF kind \in HealthKinds THEN kind ELSE Latest(HealthKinds, Begun(k), k)
    <3> DEFINE from == Begun(k)
    <3>1. k \in Nat /\ from \in 1..(k + 1) /\ k + 1 = m
      BY <2>4, <2>8
    <3> HIDE DEF from
    <3>2. Latest(HealthKinds, from, k + 1) =
            IF events[k + 1] \in HealthKinds THEN events[k + 1] ELSE Latest(HealthKinds, from, k)
      BY <3>1, LatestStep
    <3> QED BY <3>1, <3>2 DEF kind, from
  <2>10. kind = "Starting" => Latest(HealthKinds, Begun(m), m) = "none"
    <3>1. SUFFICES ASSUME kind = "Starting" PROVE Indices(HealthKinds, m, m) = {}
      BY <2>8 DEF Latest
    <3>2. \A i \in m..m : i = m
      BY <2>4
    <3>3. events[m] \notin HealthKinds
      BY <3>1 DEF kind, HealthKinds
    <3> QED BY <3>2, <3>3 DEF Indices
  <2>11. Registry[m] = EntryAt(m)
    <3>1. CASE kind = "Starting"
      <4>1. kind \in StateKinds /\ Registry[m] = [state |-> "Starting", health |-> "Starting"]
        BY <2>5, <3>1, ApplyFacts DEF StateKinds
      <4>2. Or(kind, "Pending") = "Starting" /\ Or("none", "Starting") = "Starting"
        BY <3>1 DEF Or
      <4> QED BY <2>7, <2>10, <3>1, <4>1, <4>2 DEF EntryAt
    <3>2. CASE kind \in StateKinds \ {"Starting"}
      <4>1. kind # "Starting" /\ kind \in StateKinds
        BY <3>2
      <4>5. kind \notin HealthKinds /\ Begun(m) = Begun(k)
        BY <2>8, <4>1 DEF StateKinds, HealthKinds
      <4>2. Registry[m] = [EntryAt(k) EXCEPT !.state = kind]
        BY <2>5, <4>1, ApplyFacts
      <4>3. Or(kind, "Pending") = kind
        BY <3>2 DEF Or, StateKinds
      <4> QED BY <2>7, <2>9, <4>5, <4>1, <4>2, <4>3 DEF EntryAt
    <3>3. CASE kind \in HealthKinds
      <4>1. kind \notin StateKinds /\ kind # "Starting" /\ Begun(m) = Begun(k)
        BY <2>8, <3>3 DEF StateKinds, HealthKinds
      <4>2. Registry[m] = [EntryAt(k) EXCEPT !.health = kind]
        BY <2>5, <3>3, ApplyFacts
      <4>3. Or(kind, "Starting") = kind
        BY <3>3 DEF Or, HealthKinds
      <4> QED BY <2>7, <2>9, <3>3, <4>1, <4>2, <4>3 DEF EntryAt
    <3>4. CASE kind = "Log"
      <4>1. kind \notin StateKinds /\ kind \notin HealthKinds /\ kind # "Starting"
        BY <3>4 DEF StateKinds, HealthKinds
      <4>2. Registry[m] = EntryAt(k) /\ Begun(m) = Begun(k)
        BY <2>5, <2>8, <3>4, <4>1, ApplyFacts
      <4> QED BY <2>7, <2>9, <4>1, <4>2 DEF EntryAt
    <3> QED BY <2>6, <3>1, <3>2, <3>3, <3>4 DEF Kinds
  <2> QED BY <2>2, <2>11
<1> QED BY <1>1

\* Latest is "none" or one of the kinds it looks for.
LEMMA LatestWord ==
  ASSUME NEW S, NEW n \in Nat, NEW from \in Nat
  PROVE  Latest(S, from, n) = "none" \/ Latest(S, from, n) \in S
<1> DEFINE I == Indices(S, from, n)
<1>1. I \in SUBSET (0..n) /\ \A i \in I : events[i] \in S
  BY DEF Indices
<1>2. Latest(S, from, n) = IF I = {} THEN "none" ELSE events[Max(I)]
  BY DEF Latest
<1> HIDE DEF I
<1>3. I # {} => Max(I) \in I
  BY <1>1, Greatest
<1> QED BY <1>1, <1>2, <1>3

\* readiness() of a snapshot says what was announced up to it.
LEMMA ReadinessIsAnnounced ==
  ASSUME events \in Seq(Kinds), NEW n \in 0..Len(events)
  PROVE  /\ Readiness(Snapshot(n)) \in {"ready", "gone", "waiting"}
         /\ Readiness(Snapshot(n)) = "ready" => AnnouncedReady(n)
         /\ Readiness(Snapshot(n)) = "gone" => AnnouncedGone(n)
<1> DEFINE st == Latest(StateKinds, 1, n)
           vd == Latest(HealthKinds, Begun(n), n)
<1>1. n \in Nat /\ Begun(n) \in Nat /\ 1 \in Nat
  BY BegunStep
<1>2. (st = "none" \/ st \in StateKinds) /\ (vd = "none" \/ vd \in HealthKinds)
  BY <1>1, LatestWord
<1>3. Snapshot(n) = [state |-> Or(st, "Pending"), health |-> Or(vd, "Starting")]
  BY RegistryIsAnnounced DEF Snapshot, EntryAt
<1>4. AnnouncedReady(n) <=> (st = "Running" /\ vd = "Healthy") \/ (st = "Exited" /\ vd # "Unhealthy")
  BY DEF AnnouncedReady
<1>5. AnnouncedGone(n) <=> st \in Over /\ ~AnnouncedReady(n)
  BY DEF AnnouncedGone
<1> HIDE DEF st, vd
<1>7. Snapshot(n).state = Or(st, "Pending") /\ Snapshot(n).health = Or(vd, "Starting")
  BY <1>3
<1>8. \A w \in StateKinds \cup {"none"} :
        /\ Or(w, "Pending") = "Running" <=> w = "Running"
        /\ Or(w, "Pending") = "Exited" <=> w = "Exited"
        /\ Or(w, "Pending") \in Over <=> w \in Over
  BY DEF Or, StateKinds, Over
<1>9. \A w \in HealthKinds \cup {"none"} :
        /\ Or(w, "Starting") = "Healthy" <=> w = "Healthy"
        /\ Or(w, "Starting") = "Unhealthy" <=> w = "Unhealthy"
  BY DEF Or, HealthKinds
<1> QED BY <1>2, <1>4, <1>5, <1>7, <1>8, <1>9 DEF Readiness

-----------------------------------------------------------------------------
(* Trails, as sequences of answers.                                         *)

\* What the two sets of a trail hold.
LEMMA GotIs ==
  ASSUME NEW q, NEW k, NEW i
  PROVE  i \in Got(q, k) <=> \E j \in 1..k : q[j].kind = "event" /\ q[j].n = i
BY DEF Got

\* What Told contains.
LEMMA ToldIs ==
  ASSUME NEW q, NEW k, NEW t
  PROVE  t \in Told(q, k) <=>
           \E j \in 1..k : q[j].kind = "lagged" /\ \E m \in 1..q[j].n : t = <<j, m>>
<1> DEFINE K == {j \in 1..k : q[j].kind = "lagged"}
<1>1. t \in Told(q, k) <=> \E j \in K : t \in {j} \X (1..q[j].n)
  BY DEF Told
<1>2. ASSUME NEW j
      PROVE  t \in {j} \X (1..q[j].n) <=> \E m \in 1..q[j].n : t = <<j, m>>
  OBVIOUS
<1> QED BY <1>1, <1>2

\* They look at the first k items only.
LEMMA GotToldPrefix ==
  ASSUME NEW p, NEW q, NEW k, \A j \in 1..k : p[j] = q[j]
  PROVE  Got(p, k) = Got(q, k) /\ Told(p, k) = Told(q, k)
<1>1. ASSUME NEW i
      PROVE  i \in Got(p, k) <=> i \in Got(q, k)
  BY GotIs
<1>2. ASSUME NEW t
      PROVE  t \in Told(p, k) <=> t \in Told(q, k)
  <2>1. \A j \in 1..k : /\ p[j].kind = q[j].kind /\ p[j].n = q[j].n
                        /\ 1..p[j].n = 1..q[j].n
    OBVIOUS
  <2>2. t \in Told(p, k) <=>
          \E j \in 1..k : p[j].kind = "lagged" /\ \E m \in 1..p[j].n : t = <<j, m>>
    BY ToldIs
  <2>3. t \in Told(q, k) <=>
          \E j \in 1..k : q[j].kind = "lagged" /\ \E m \in 1..q[j].n : t = <<j, m>>
    BY ToldIs
  <2> QED BY <2>1, <2>2, <2>3
<1> QED BY <1>1, <1>2

\* They grow with k.
LEMMA GotToldGrow ==
  ASSUME NEW q, NEW k \in Nat
  PROVE  Got(q, k) \subseteq Got(q, k + 1) /\ Told(q, k) \subseteq Told(q, k + 1)
<1>1. \A j \in 1..k : j \in 1..(k + 1)
  OBVIOUS
<1>2. ASSUME NEW i \in Got(q, k)
      PROVE  i \in Got(q, k + 1)
  BY <1>1, GotIs
<1>3. ASSUME NEW t \in Told(q, k)
      PROVE  t \in Told(q, k + 1)
  <2>1. PICK j \in 1..k : q[j].kind = "lagged" /\ \E m \in 1..q[j].n : t = <<j, m>>
    BY ToldIs
  <2> QED BY <1>1, <2>1, ToldIs
<1> QED BY <1>2, <1>3

\* They are finite, and so is what can be lost.
LEMMA ToldFinite ==
  ASSUME NEW q, NEW k \in Nat, NEW top \in Nat, \A j \in 1..k : q[j].n \in 0..top
  PROVE  IsFiniteSet(Told(q, k)) /\ Cardinality(Told(q, k)) \in Nat
<1>1. IsFiniteSet(1..k) /\ IsFiniteSet(1..top)
  BY FS_Interval
<1>2. IsFiniteSet((1..k) \X (1..top))
  BY <1>1, FS_Product
<1>3. ASSUME NEW t \in Told(q, k)
      PROVE  t \in (1..k) \X (1..top)
  <2>1. PICK j \in 1..k : q[j].kind = "lagged" /\ \E m \in 1..q[j].n : t = <<j, m>>
    BY ToldIs
  <2>2. PICK m \in 1..q[j].n : t = <<j, m>>
    BY <2>1
  <2>3. m \in 1..top
    BY <2>2
  <2> QED BY <2>1, <2>2, <2>3
<1>4. Told(q, k) \in SUBSET ((1..k) \X (1..top))
  BY <1>3
<1>5. IsFiniteSet(Told(q, k))
  BY <1>2, <1>4, FS_Subset
<1> QED BY <1>5, FS_CardinalityType

\* The events that are missing are finitely many.
LEMMA LostFinite ==
  ASSUME NEW evs, NEW logs, NEW q, NEW k, NEW from \in Nat, NEW to \in Nat
  PROVE  /\ IsFiniteSet(Lost(evs, logs, q, k, from, to))
         /\ Cardinality(Lost(evs, logs, q, k, from, to)) \in Nat
<1>1. IsFiniteSet((from + 1)..to)
  BY FS_Interval
<1>2. Lost(evs, logs, q, k, from, to) \in SUBSET ((from + 1)..to)
  BY DEF Lost
<1>3. IsFiniteSet(Lost(evs, logs, q, k, from, to))
  BY <1>1, <1>2, FS_Subset
<1> QED BY <1>3, FS_CardinalityType

\* What Lost contains.
LEMMA LostIs ==
  ASSUME NEW evs, NEW logs, NEW q, NEW k, NEW from, NEW to, NEW i
  PROVE  i \in Lost(evs, logs, q, k, from, to) <=>
           i \in (from + 1)..to /\ (logs \/ evs[i] # "Log") /\ i \notin Got(q, k)
BY DEF Lost

\* A subset of a finite set is not larger.
LEMMA NotLarger ==
  ASSUME NEW S, NEW T, S \subseteq T, IsFiniteSet(T)
  PROVE  IsFiniteSet(S) /\ Cardinality(S) <= Cardinality(T) /\ Cardinality(S) \in Nat
         /\ Cardinality(T) \in Nat
<1>1. S \in SUBSET T
  OBVIOUS
<1>2. IsFiniteSet(S) /\ Cardinality(S) <= Cardinality(T)
  BY <1>1, FS_Subset
<1> QED BY <1>2, FS_CardinalityType

\* The first part of a sound trail is one.
LEMMA SoundPrefix ==
  ASSUME NEW evs, NEW logs, NEW p, NEW q, NEW from, NEW top, Len(p) \in Nat, Len(q) \in Nat,
         Len(p) <= Len(q), \A j \in 1..Len(p) : p[j] = q[j],
         Sound(evs, logs, q, from, top)
  PROVE  Sound(evs, logs, p, from, top)
<1> SUFFICES ASSUME NEW k \in 1..Len(p)
             PROVE  /\ p[k].kind \in {"event", "lagged"} /\ p[k].n \in 0..top
                    /\ p[k].kind = "event" =>
                         /\ \A i \in Got(p, k - 1) : i < p[k].n
                         /\ Cardinality(Lost(evs, logs, p, k, from, p[k].n))
                              <= Cardinality(Told(p, k))
  BY DEF Sound
<1>1. k \in 1..Len(q) /\ p[k] = q[k]
  OBVIOUS
<1>2. (\A j \in 1..k : p[j] = q[j]) /\ \A j \in 1..(k - 1) : p[j] = q[j]
  OBVIOUS
<1>3. Got(p, k) = Got(q, k) /\ Told(p, k) = Told(q, k) /\ Got(p, k - 1) = Got(q, k - 1)
  BY <1>2, GotToldPrefix
<1>4. Lost(evs, logs, p, k, from, p[k].n) = Lost(evs, logs, q, k, from, q[k].n)
  BY <1>1, <1>3 DEF Lost
<1>5. /\ q[k].kind \in {"event", "lagged"} /\ q[k].n \in 0..top
      /\ q[k].kind = "event" =>
           /\ \A i \in Got(q, k - 1) : i < q[k].n
           /\ Cardinality(Lost(evs, logs, q, k, from, q[k].n)) <= Cardinality(Told(q, k))
  BY <1>1 DEF Sound
<1> QED BY <1>1, <1>3, <1>4, <1>5

\* More events do not change what is lost of the earlier ones.
LEMMA LostKept ==
  ASSUME NEW evs, NEW evs2, NEW logs, NEW q, NEW k, NEW from \in Nat, NEW to \in Nat,
         \A i \in 1..to : evs2[i] = evs[i]
  PROVE  Lost(evs2, logs, q, k, from, to) = Lost(evs, logs, q, k, from, to)
<1>1. ASSUME NEW i
      PROVE  i \in Lost(evs2, logs, q, k, from, to) <=> i \in Lost(evs, logs, q, k, from, to)
  <2>1. i \in (from + 1)..to => i \in 1..to
    OBVIOUS
  <2> QED BY <2>1, LostIs
<1> QED BY <1>1

\* Later events do not make a trail unsound, nor one that accounts for every event so far.
LEMMA SoundKept ==
  ASSUME NEW evs, NEW evs2, NEW logs, NEW q, Len(q) \in Nat, NEW from \in Nat, NEW top \in Nat,
         NEW top2 \in Nat, top <= top2, \A i \in 1..top : evs2[i] = evs[i]
  PROVE  /\ Sound(evs, logs, q, from, top) => Sound(evs2, logs, q, from, top2)
         /\ \A at \in 0..top : Accounts(evs, logs, q, from, at) => Accounts(evs2, logs, q, from, at)
<1>1. ASSUME Sound(evs, logs, q, from, top), NEW k \in 1..Len(q)
      PROVE  /\ q[k].kind \in {"event", "lagged"} /\ q[k].n \in 0..top2
             /\ q[k].kind = "event" =>
                  /\ \A i \in Got(q, k - 1) : i < q[k].n
                  /\ Cardinality(Lost(evs2, logs, q, k, from, q[k].n)) <= Cardinality(Told(q, k))
  <2> DEFINE to == q[k].n
  <2>1. to \in 0..top
    BY <1>1 DEF Sound
  <2> HIDE DEF to
  <2>2. to \in Nat /\ \A i \in 1..to : evs2[i] = evs[i]
    BY <2>1
  <2>3. Lost(evs2, logs, q, k, from, to) = Lost(evs, logs, q, k, from, to)
    BY <2>2, LostKept
  <2> QED BY <1>1, <2>1, <2>3 DEF Sound, to
<1>2. ASSUME NEW at \in 0..top, Accounts(evs, logs, q, from, at)
      PROVE  Accounts(evs2, logs, q, from, at)
  <2>1. at \in Nat /\ \A i \in 1..at : evs2[i] = evs[i]
    OBVIOUS
  <2>2. Lost(evs2, logs, q, Len(q), from, at) = Lost(evs, logs, q, Len(q), from, at)
    BY <2>1, LostKept
  <2> QED BY <1>2, <2>2 DEF Accounts
<1> QED BY <1>1, <1>2 DEF Sound

\* Right after the subscription nothing is owed.
LEMMA SoundStart ==
  ASSUME NEW evs, NEW logs, NEW from \in Nat, NEW top
  PROVE  Sound(evs, logs, <<>>, from, top) /\ Accounts(evs, logs, <<>>, from, from)
<1>1. Sound(evs, logs, <<>>, from, top)
  BY DEF Sound
<1>2. \A i : i \notin Got(<<>>, 0)
  BY GotIs
<1>3. Lost(evs, logs, <<>>, 0, from, from) = {}
  <2>1. \A i : i \notin (from + 1)..from
    OBVIOUS
  <2> QED BY <2>1, LostIs
<1>4. Cardinality(Told(<<>>, 0)) \in Nat
  <2>1. \A j \in 1..0 : <<>>[j].n \in 0..0
    OBVIOUS
  <2> QED BY <2>1, ToldFinite
<1>5. Len(<<>>) = 0 /\ Cardinality({}) = 0
  BY FS_EmptySet
<1>6. Cardinality(Lost(evs, logs, <<>>, 0, from, from)) <= Cardinality(Told(<<>>, 0))
  <2> DEFINE t == Cardinality(Told(<<>>, 0))
  <2>1. t \in Nat
    BY <1>4
  <2> HIDE DEF t
  <2>2. 0 <= t
    BY <2>1
  <2> QED BY <1>3, <1>5, <2>2 DEF t
<1>7. Accounts(evs, logs, <<>>, from, from)
  BY <1>2, <1>5, <1>6 DEF Accounts
<1> QED BY <1>1, <1>7

\* An event that is not wanted is passed over.
LEMMA SoundSkips ==
  ASSUME NEW evs, NEW logs, NEW q, NEW from \in Nat, NEW at \in Nat,
         Accounts(evs, logs, q, from, at), ~logs /\ evs[at + 1] = "Log"
  PROVE  Accounts(evs, logs, q, from, at + 1)
<1> DEFINE k == Len(q)
<1>1. Lost(evs, logs, q, k, from, at + 1) \subseteq Lost(evs, logs, q, k, from, at)
  <2>1. ASSUME NEW i \in Lost(evs, logs, q, k, from, at + 1)
        PROVE  i \in Lost(evs, logs, q, k, from, at)
    <3>1. i \in (from + 1)..(at + 1) /\ evs[i] # "Log" /\ i \notin Got(q, k)
      BY LostIs
    <3>2. i \in (from + 1)..at
      BY <3>1
    <3> QED BY <3>1, <3>2, LostIs
  <2> QED BY <2>1
<1>2. Lost(evs, logs, q, k, from, at) \subseteq Lost(evs, logs, q, k, from, at + 1)
  <2>1. ASSUME NEW i \in Lost(evs, logs, q, k, from, at)
        PROVE  i \in Lost(evs, logs, q, k, from, at + 1)
    <3>1. i \in (from + 1)..at /\ (logs \/ evs[i] # "Log") /\ i \notin Got(q, k)
      BY LostIs
    <3>2. i \in (from + 1)..(at + 1)
      BY <3>1
    <3> QED BY <3>1, <3>2, LostIs
  <2> QED BY <2>1
<1>3. Lost(evs, logs, q, k, from, at + 1) = Lost(evs, logs, q, k, from, at)
  BY <1>1, <1>2
<1>4. (\A i \in Got(q, k) : i \in 0..at)
      /\ Cardinality(Lost(evs, logs, q, k, from, at)) <= Cardinality(Told(q, k))
  BY DEF Accounts
<1>6. ASSUME NEW i \in Got(q, k)
      PROVE  i \in 0..(at + 1)
  <2>1. i \in 0..at
    BY <1>4
  <2> QED BY <2>1
<1> QED BY <1>3, <1>4, <1>6 DEF Accounts

\* What an item that is added to a trail changes.
LEMMA Appended ==
  ASSUME NEW q \in Seq(Answers), NEW a \in Answers
  PROVE  LET r == Append(q, a)
             k == Len(q)
         IN  /\ r \in Seq(Answers) /\ Len(r) = k + 1 /\ k \in Nat /\ r[k + 1] = a
             /\ \A j \in 1..k : r[j] = q[j]
             /\ Got(r, k) = Got(q, k) /\ Told(r, k) = Told(q, k)
<1> DEFINE r == Append(q, a)
           k == Len(q)
<1>1. r \in Seq(Answers) /\ Len(r) = k + 1 /\ k \in Nat /\ r[k + 1] = a
  OBVIOUS
<1>2. \A j \in 1..k : r[j] = q[j]
  OBVIOUS
<1> HIDE DEF r, k
<1>3. Got(r, k) = Got(q, k) /\ Told(r, k) = Told(q, k)
  BY <1>2, GotToldPrefix
<1> QED BY <1>1, <1>2, <1>3 DEF r, k

\* A sound trail with one more item is sound when the item is.
LEMMA SoundAppend ==
  ASSUME NEW evs, NEW logs, NEW from, NEW top, NEW q \in Seq(Answers), NEW a \in Answers,
         Sound(evs, logs, q, from, top), a.kind \in {"event", "lagged"}, a.n \in 0..top,
         a.kind = "event" =>
           /\ \A i \in Got(q, Len(q)) : i < a.n
           /\ Cardinality(Lost(evs, logs, Append(q, a), Len(q) + 1, from, a.n))
                <= Cardinality(Told(Append(q, a), Len(q) + 1))
  PROVE  Sound(evs, logs, Append(q, a), from, top)
<1> DEFINE r == Append(q, a)
           n == Len(q)
<1>1. /\ r \in Seq(Answers) /\ Len(r) = n + 1 /\ n \in Nat /\ r[n + 1] = a
      /\ \A j \in 1..n : r[j] = q[j]
      /\ Got(r, n) = Got(q, n)
  BY Appended
<1>2. a.kind = "event" =>
           /\ \A i \in Got(q, n) : i < a.n
           /\ Cardinality(Lost(evs, logs, r, n + 1, from, a.n)) <= Cardinality(Told(r, n + 1))
  OBVIOUS
<1>3. \A k \in 1..n :
        /\ q[k].kind \in {"event", "lagged"} /\ q[k].n \in 0..top
        /\ q[k].kind = "event" =>
             /\ \A i \in Got(q, k - 1) : i < q[k].n
             /\ Cardinality(Lost(evs, logs, q, k, from, q[k].n)) <= Cardinality(Told(q, k))
  BY DEF Sound
<1> HIDE DEF r, n
<1>4. ASSUME NEW k \in 1..(n + 1)
      PROVE  /\ r[k].kind \in {"event", "lagged"} /\ r[k].n \in 0..top
             /\ r[k].kind = "event" =>
                  /\ \A i \in Got(r, k - 1) : i < r[k].n
                  /\ Cardinality(Lost(evs, logs, r, k, from, r[k].n)) <= Cardinality(Told(r, k))
  <2>1. CASE k = n + 1
    <3>1. k - 1 = n
      BY <1>1, <2>1
    <3> QED BY <1>1, <1>2, <2>1, <3>1
  <2>2. CASE k \in 1..n
    <3>1. r[k] = q[k] /\ (\A j \in 1..k : r[j] = q[j]) /\ \A j \in 1..(k - 1) : r[j] = q[j]
      BY <1>1, <2>2
    <3>2. Got(r, k) = Got(q, k) /\ Told(r, k) = Told(q, k) /\ Got(r, k - 1) = Got(q, k - 1)
      BY <3>1, GotToldPrefix
    <3>3. Lost(evs, logs, r, k, from, r[k].n) = Lost(evs, logs, q, k, from, q[k].n)
      BY <3>1, <3>2 DEF Lost
    <3> QED BY <1>3, <2>2, <3>1, <3>2, <3>3
  <2> QED BY <1>1, <2>1, <2>2
<1>5. Sound(evs, logs, r, from, top)
  BY <1>1, <1>4 DEF Sound
<1> QED BY <1>5 DEF r

\* The next event, when it is wanted.
LEMMA SoundEvent ==
  ASSUME NEW evs, NEW logs, NEW q \in Seq(Answers), NEW from \in Nat, NEW at \in Nat,
         NEW top \in Nat, at + 1 <= top,
         Sound(evs, logs, q, from, top), Accounts(evs, logs, q, from, at)
  PROVE  LET r == Append(q, Answer("event", at + 1))
         IN  Sound(evs, logs, r, from, top) /\ Accounts(evs, logs, r, from, at + 1)
<1> DEFINE a == Answer("event", at + 1)
           r == Append(q, a)
           n == Len(q)
<1>1. a \in Answers /\ a.kind = "event" /\ a.n = at + 1
  BY DEF Answer, Answers, Words
<1> HIDE DEF a
<1>2. /\ r \in Seq(Answers) /\ Len(r) = n + 1 /\ n \in Nat /\ r[n + 1] = a
      /\ \A j \in 1..n : r[j] = q[j]
      /\ Got(r, n) = Got(q, n) /\ Told(r, n) = Told(q, n)
  BY <1>1, Appended
<1>3. (\A i \in Got(q, n) : i \in 0..at)
      /\ Cardinality(Lost(evs, logs, q, n, from, at)) <= Cardinality(Told(q, n))
  BY DEF Accounts
<1>4. \A k \in 1..n : q[k].n \in 0..top
  BY DEF Sound
<1> HIDE DEF r, n
<1>5. ASSUME NEW i \in Got(r, n + 1)
      PROVE  i \in 0..(at + 1) /\ (i \in Got(q, n) \/ i = at + 1)
  <2>1. PICK j \in 1..(n + 1) : r[j].kind = "event" /\ r[j].n = i
    BY GotIs
  <2>2. CASE j = n + 1
    BY <1>1, <1>2, <2>1, <2>2
  <2>3. CASE j \in 1..n
    <3>1. i \in Got(q, n)
      BY <1>2, <2>1, <2>3, GotIs
    <3>2. i \in 0..at
      BY <1>3, <3>1
    <3> QED BY <3>1, <3>2
  <2> QED BY <1>2, <2>2, <2>3
<1>6. at + 1 \in Got(r, n + 1)
  <2>1. n + 1 \in 1..(n + 1)
    BY <1>2
  <2> QED BY <1>1, <1>2, <2>1, GotIs
<1>7. Lost(evs, logs, r, n + 1, from, at + 1) \subseteq Lost(evs, logs, q, n, from, at)
  <2>1. ASSUME NEW i \in Lost(evs, logs, r, n + 1, from, at + 1)
        PROVE  i \in Lost(evs, logs, q, n, from, at)
    <3>1. i \in (from + 1)..(at + 1) /\ (logs \/ evs[i] # "Log") /\ i \notin Got(r, n + 1)
      BY LostIs
    <3>2. i \in (from + 1)..at
      BY <1>6, <3>1
    <3>3. i \notin Got(q, n)
      BY <1>2, <3>1, GotToldGrow
    <3> QED BY <3>1, <3>2, <3>3, LostIs
  <2> QED BY <2>1
<1>8. Cardinality(Lost(evs, logs, r, n + 1, from, at + 1)) <= Cardinality(Told(r, n + 1))
  <2>1. /\ Cardinality(Lost(evs, logs, r, n + 1, from, at + 1))
              <= Cardinality(Lost(evs, logs, q, n, from, at))
        /\ Cardinality(Lost(evs, logs, r, n + 1, from, at + 1)) \in Nat
        /\ Cardinality(Lost(evs, logs, q, n, from, at)) \in Nat
    <3> DEFINE A == Lost(evs, logs, r, n + 1, from, at + 1)
               B == Lost(evs, logs, q, n, from, at)
    <3>1. A \subseteq B /\ IsFiniteSet(B)
      BY <1>7, LostFinite
    <3> HIDE DEF A, B
    <3>2. Cardinality(A) <= Cardinality(B) /\ Cardinality(A) \in Nat /\ Cardinality(B) \in Nat
      BY <3>1, NotLarger
    <3> QED BY <3>2 DEF A, B
  <2>2. \A k \in 1..(n + 1) : r[k].n \in 0..top
    <3>1. \A k \in 1..(n + 1) : k = n + 1 \/ k \in 1..n
      BY <1>2
    <3> QED BY <1>1, <1>2, <1>4, <3>1
  <2>3. IsFiniteSet(Told(r, n + 1)) /\ n + 1 \in Nat
    <3> DEFINE m == n + 1
    <3>1. m \in Nat /\ \A k \in 1..m : r[k].n \in 0..top
      BY <1>2, <2>2
    <3> HIDE DEF m
    <3>2. IsFiniteSet(Told(r, m))
      BY <3>1, ToldFinite
    <3> QED BY <3>1, <3>2 DEF m
  <2>4. Cardinality(Told(r, n)) <= Cardinality(Told(r, n + 1))
        /\ Cardinality(Told(r, n)) \in Nat /\ Cardinality(Told(r, n + 1)) \in Nat
    BY <1>2, <2>3, GotToldGrow, NotLarger
  <2> QED BY <1>2, <1>3, <2>1, <2>4
<1>9. Accounts(evs, logs, r, from, at + 1)
  BY <1>2, <1>5, <1>8 DEF Accounts
<1>10. Sound(evs, logs, r, from, top)
  <2>1. \A i \in Got(q, n) : i < a.n
    BY <1>1, <1>3
  <2> QED BY <1>1, <1>8, <2>1, SoundAppend DEF r, n
<1> QED BY <1>9, <1>10 DEF r, a

\* A subscriber that fell behind is told how many it missed.
LEMMA SoundLagged ==
  ASSUME NEW evs, NEW logs, NEW q \in Seq(Answers), NEW from \in Nat, NEW at \in Nat,
         NEW top \in Nat, NEW m \in Nat, at + m <= top,
         Sound(evs, logs, q, from, top), Accounts(evs, logs, q, from, at)
  PROVE  LET r == Append(q, Answer("lagged", m))
         IN  Sound(evs, logs, r, from, top) /\ Accounts(evs, logs, r, from, at + m)
<1> DEFINE a == Answer("lagged", m)
           r == Append(q, a)
           n == Len(q)
<1>1. a \in Answers /\ a.kind = "lagged" /\ a.n = m /\ m \in 0..top
  BY DEF Answer, Answers, Words
<1> HIDE DEF a
<1>2. /\ r \in Seq(Answers) /\ Len(r) = n + 1 /\ n \in Nat /\ r[n + 1] = a
      /\ \A j \in 1..n : r[j] = q[j]
      /\ Got(r, n) = Got(q, n) /\ Told(r, n) = Told(q, n)
  BY <1>1, Appended
<1>3. (\A i \in Got(q, n) : i \in 0..at)
      /\ Cardinality(Lost(evs, logs, q, n, from, at)) <= Cardinality(Told(q, n))
  BY DEF Accounts
<1>4. \A k \in 1..n : q[k].n \in 0..top
  BY DEF Sound
<1>5. Sound(evs, logs, r, from, top)
  <2>1. a.kind # "event" /\ a.kind \in {"event", "lagged"} /\ a.n \in 0..top
    BY <1>1
  <2> QED BY <1>1, <2>1, SoundAppend
<1> HIDE DEF r, n
<1>6. Got(r, n + 1) = Got(q, n)
  <2>1. ASSUME NEW i \in Got(r, n + 1)
        PROVE  i \in Got(q, n)
    <3>1. PICK j \in 1..(n + 1) : r[j].kind = "event" /\ r[j].n = i
      BY GotIs
    <3>2. j \in 1..n
      BY <1>1, <1>2, <3>1
    <3> QED BY <1>2, <3>1, <3>2, GotIs
  <2> QED BY <1>2, <2>1, GotToldGrow
<1> DEFINE lost == Lost(evs, logs, q, n, from, at)
           more == Lost(evs, logs, r, n + 1, from, at + m)
           news == (at + 1)..(at + m)
           old  == Told(q, n)
           new  == {n + 1} \X (1..m)
           told == Told(r, n + 1)
<1>7. more \subseteq lost \cup news
  <2>1. ASSUME NEW i \in more, i \notin news
        PROVE  i \in lost
    <3>1. i \in (from + 1)..(at + m) /\ (logs \/ evs[i] # "Log") /\ i \notin Got(r, n + 1)
      BY LostIs
    <3>2. i \in (from + 1)..at
      BY <2>1, <3>1
    <3> QED BY <1>6, <3>1, <3>2, LostIs
  <2> QED BY <2>1
<1>8. /\ IsFiniteSet(lost) /\ IsFiniteSet(news) /\ IsFiniteSet(old) /\ IsFiniteSet(new)
      /\ Cardinality(news) = m /\ Cardinality(new) = m
  <2>1. IsFiniteSet(lost)
    BY LostFinite
  <2>2. IsFiniteSet(old)
    BY <1>2, <1>4, ToldFinite
  <2>3. IsFiniteSet(news) /\ Cardinality(news) = m
    <3>1. at + 1 \in Int /\ at + m \in Int
      OBVIOUS
    <3>2. IsFiniteSet(news)
          /\ Cardinality(news) = IF at + 1 > at + m THEN 0 ELSE (at + m) - (at + 1) + 1
      BY <3>1, FS_Interval
    <3> QED BY <3>2
  <2>4. IsFiniteSet(1..m) /\ Cardinality(1..m) = m
    BY FS_Interval
  <2>5. IsFiniteSet({n + 1}) /\ Cardinality({n + 1}) = 1
    BY FS_Singleton
  <2>6. IsFiniteSet(new) /\ Cardinality(new) = m
    <3> DEFINE A == {n + 1}
               B == 1..m
    <3>1. IsFiniteSet(A) /\ IsFiniteSet(B) /\ Cardinality(A) = 1 /\ Cardinality(B) = m
      BY <2>4, <2>5
    <3> HIDE DEF A, B
    <3>2. IsFiniteSet(A \X B) /\ Cardinality(A \X B) = Cardinality(A) * Cardinality(B)
      BY <3>1, FS_Product
    <3>3. Cardinality(A) * Cardinality(B) = m
      BY <3>1
    <3> QED BY <3>2, <3>3 DEF A, B
  <2> QED BY <2>1, <2>2, <2>3, <2>6
<1>9. told = old \cup new /\ old \cap new = {}
  <2>1. ASSUME NEW t \in told
        PROVE  t \in old \cup new
    <3>1. PICK j \in 1..(n + 1) : r[j].kind = "lagged" /\ \E u \in 1..r[j].n : t = <<j, u>>
      BY ToldIs
    <3>2. CASE j \in 1..n
      <4>1. t \in Told(r, n)
        BY <3>1, <3>2, ToldIs
      <4> QED BY <1>2, <4>1
    <3>3. CASE j = n + 1
      BY <1>1, <1>2, <3>1, <3>3
    <3> QED BY <1>2, <3>2, <3>3
  <2>2. old \subseteq told
    BY <1>2, GotToldGrow
  <2>3. ASSUME NEW t \in new
        PROVE  t \in told
    <3>1. PICK u \in 1..m : t = <<n + 1, u>>
      OBVIOUS
    <3>2. n + 1 \in 1..(n + 1)
      BY <1>2
    <3> QED BY <1>1, <1>2, <3>1, <3>2, ToldIs
  <2>4. ASSUME NEW t \in old, t \in new
        PROVE  FALSE
    <3>1. PICK j \in 1..n : q[j].kind = "lagged" /\ \E u \in 1..q[j].n : t = <<j, u>>
      BY ToldIs
    <3>2. t[1] = j /\ t[1] = n + 1
      BY <2>4, <3>1
    <3> QED BY <1>2, <3>2
  <2> QED BY <2>1, <2>2, <2>3, <2>4
<1> HIDE DEF lost, more, news, old, new, told
<1>10. Cardinality(told) = Cardinality(old) + m
  <2>1. Cardinality(old \cup new) = Cardinality(old) + Cardinality(new) - Cardinality(old \cap new)
    BY <1>8, FS_Union
  <2>2. Cardinality(old) \in Nat /\ Cardinality({}) = 0
    BY <1>8, FS_CardinalityType, FS_EmptySet
  <2>3. Cardinality(told) = Cardinality(old \cup new) /\ Cardinality(old \cap new) = Cardinality({})
    BY <1>9
  <2> QED BY <1>8, <2>1, <2>2, <2>3
<1>11. Cardinality(more) <= Cardinality(lost) + m /\ Cardinality(more) \in Nat
  <2>1. /\ IsFiniteSet(lost \cup news) /\ IsFiniteSet(lost \cap news)
        /\ Cardinality(lost \cup news)
             = Cardinality(lost) + Cardinality(news) - Cardinality(lost \cap news)
    <3>1. lost \cap news \in SUBSET lost
      OBVIOUS
    <3> QED BY <1>8, <3>1, FS_Union, FS_Subset
  <2>2. /\ Cardinality(lost) \in Nat /\ Cardinality(lost \cap news) \in Nat
        /\ Cardinality(lost \cup news) \in Nat
    BY <1>8, <2>1, FS_CardinalityType
  <2>3. Cardinality(more) <= Cardinality(lost \cup news) /\ Cardinality(more) \in Nat
    BY <1>7, <2>1, NotLarger
  <2> QED BY <1>8, <2>1, <2>2, <2>3
<1>12. Cardinality(more) <= Cardinality(told)
  <2>1. Cardinality(lost) <= Cardinality(old) /\ Cardinality(lost) \in Nat
        /\ Cardinality(old) \in Nat
    BY <1>3, <1>8, FS_CardinalityType DEF lost, old
  <2> QED BY <1>10, <1>11, <2>1
<1>13. ASSUME NEW i \in Got(r, n + 1)
       PROVE  i \in 0..(at + m)
  <2>1. i \in 0..at
    BY <1>3, <1>6
  <2> QED BY <2>1
<1>14. Accounts(evs, logs, r, from, at + m)
  BY <1>2, <1>12, <1>13 DEF Accounts, more, told
<1> QED BY <1>5, <1>14 DEF r, a

\* What was heard of a sound trail leaves no gap that it did not tell of.
LEMMA HeardHasNoGap ==
  ASSUME NEW evs, NEW logs, NEW p, NEW q, NEW from \in Nat, NEW top \in Nat, NEW since \in Nat,
         Len(p) \in Nat, Len(q) \in Nat, Len(p) <= Len(q), \A j \in 1..Len(p) : p[j] = q[j],
         from <= since, Sound(evs, logs, q, from, top),
         NEW k \in 1..Len(p), p[k].kind = "event"
  PROVE  /\ \A i \in Got(p, k - 1) : i < p[k].n
         /\ Cardinality(Lost(evs, logs, p, k, since, p[k].n)) <= Cardinality(Told(p, k))
<1>1. Sound(evs, logs, p, from, top)
  BY SoundPrefix
<1>2. /\ p[k].n \in 0..top /\ \A i \in Got(p, k - 1) : i < p[k].n
      /\ Cardinality(Lost(evs, logs, p, k, from, p[k].n)) <= Cardinality(Told(p, k))
  BY <1>1 DEF Sound
<1>3. \A j \in 1..k : p[j].n \in 0..top
  BY <1>1 DEF Sound
<1> DEFINE to == p[k].n
<1>4. to \in Nat /\ k \in Nat
  BY <1>2
<1> HIDE DEF to
<1>5. Lost(evs, logs, p, k, since, to) \subseteq Lost(evs, logs, p, k, from, to)
  <2>1. ASSUME NEW i \in Lost(evs, logs, p, k, since, to)
        PROVE  i \in Lost(evs, logs, p, k, from, to)
    <3>1. i \in (since + 1)..to /\ (logs \/ evs[i] # "Log") /\ i \notin Got(p, k)
      BY LostIs
    <3>2. i \in (from + 1)..to
      BY <3>1
    <3> QED BY <3>1, <3>2, LostIs
  <2> QED BY <2>1
<1>6. /\ Cardinality(Lost(evs, logs, p, k, since, to)) <= Cardinality(Lost(evs, logs, p, k, from, to))
      /\ Cardinality(Lost(evs, logs, p, k, since, to)) \in Nat
      /\ Cardinality(Lost(evs, logs, p, k, from, to)) \in Nat
  BY <1>4, <1>5, LostFinite, NotLarger
<1>7. Cardinality(Told(p, k)) \in Nat
  BY <1>3, <1>4, ToldFinite
<1>8. Cardinality(Lost(evs, logs, p, k, since, to)) <= Cardinality(Told(p, k))
  BY <1>2, <1>6, <1>7 DEF to
<1> QED BY <1>2, <1>8 DEF to

-----------------------------------------------------------------------------
(* What a step of one connection touches.                                   *)

\* The records that are written and returned.
LEMMA AnswerFacts ==
  /\ \A w \in Words, n \in Nat : /\ Answer(w, n) \in Answers /\ Answer(w, n) \in Results
                               /\ Answer(w, n).kind = w /\ Answer(w, n).n = n
  /\ \A w \in {"NotRunning", "Failed", "over"} : /\ Answer(w, 0) \in Results
                                               /\ Answer(w, 0).kind = w
  /\ \A a \in Answers : a \in Results /\ a.kind \in Words /\ a.n \in Nat
  /\ Nothing \in Results /\ Nothing.kind = "nothing"
BY DEF Answer, Answers, Results, Words, Nothing

\* What a task is writing.
LEMMA WritingFacts ==
  /\ \A a \in Answers, next \in {"read", "stream", "close", "strike"} :
       /\ [line |-> a, next |-> next] \in Writing
       /\ [line |-> a, next |-> next].line = a /\ [line |-> a, next |-> next].next = next
  /\ Idle \in Writing
  /\ \A w \in Writing : w.next \in {"read", "stream", "close", "strike"}
BY DEF Writing, Idle

\* A function over the connections is changed at c at most.
Turns(f, g, c, R) == g = f \/ (g = [f EXCEPT ![c] = g[c]] /\ g[c] \in R)

\* Such a function stays one over the connections, and keeps its other values.
LEMMA TurnsFacts ==
  ASSUME NEW R, NEW f \in [Conns -> R], NEW g, NEW c \in Conns, Turns(f, g, c, R)
  PROVE  g \in [Conns -> R] /\ \A d \in Conns : d # c => g[d] = f[d]
BY DEF Turns

\* An update is such a change.
LEMMA TurnsAt ==
  ASSUME NEW R, NEW f \in [Conns -> R], NEW g, NEW c \in Conns, NEW v \in R,
         g = [f EXCEPT ![c] = v]
  PROVE  Turns(f, g, c, R) /\ g[c] = v
BY DEF Turns

Same(d) ==
  /\ conn'[d] = conn[d] /\ say'[d] = say[d] /\ pos'[d] = pos[d]
  /\ inbox'[d] = inbox[d] /\ outbox'[d] = outbox[d]
  /\ call'[d] = call[d] /\ request'[d] = request[d] /\ outcome'[d] = outcome[d]
  /\ hello'[d] = hello[d] /\ heard'[d] = heard[d]

Moves(c) == ConnTypes' /\ (\A d \in Conns : d # c => Same(d)) /\ UNCHANGED <<events, applied, sent>>

\* A step that changes only c moves only c.
Turning(c) ==
  /\ Turns(conn, conn', c, Places)
  /\ Turns(say, say', c, Writing)
  /\ Turns(pos, pos', c, Nat)
  /\ Turns(inbox, inbox', c, Inboxes)
  /\ Turns(outbox, outbox', c, Outboxes)
  /\ Turns(call, call', c, Calls)
  /\ Turns(request, request', c, Lines)
  /\ Turns(outcome, outcome', c, Results)
  /\ Turns(hello, hello', c, Nat)
  /\ Turns(heard, heard', c, Outboxes)
  /\ daemon' \in {"serving", "closing", "gone"} /\ permits' \in Nat
  /\ conn'[c] = "write" => say'[c].line \in Answers

\* Taken together, the changes of one connection.
LEMMA TurnsMove ==
  ASSUME ConnTypes, NEW c \in Conns, Turning(c), UNCHANGED <<events, applied, sent>>
  PROVE  Moves(c)
<1>1. conn' \in [Conns -> Places] /\ \A d \in Conns : d # c => conn'[d] = conn[d]
  <2>1. conn \in [Conns -> Places] /\ Turns(conn, conn', c, Places)
    BY DEF ConnTypes, Turning
  <2> QED BY <2>1, TurnsFacts
<1>2. say' \in [Conns -> Writing] /\ \A d \in Conns : d # c => say'[d] = say[d]
  <2>1. say \in [Conns -> Writing] /\ Turns(say, say', c, Writing)
    BY DEF ConnTypes, Turning
  <2> QED BY <2>1, TurnsFacts
<1>3. pos' \in [Conns -> Nat] /\ \A d \in Conns : d # c => pos'[d] = pos[d]
  <2>1. pos \in [Conns -> Nat] /\ Turns(pos, pos', c, Nat)
    BY DEF ConnTypes, Turning
  <2> QED BY <2>1, TurnsFacts
<1>4. inbox' \in [Conns -> Inboxes] /\ \A d \in Conns : d # c => inbox'[d] = inbox[d]
  <2>1. inbox \in [Conns -> Inboxes] /\ Turns(inbox, inbox', c, Inboxes)
    BY DEF ConnTypes, Turning
  <2> QED BY <2>1, TurnsFacts
<1>5. outbox' \in [Conns -> Outboxes] /\ \A d \in Conns : d # c => outbox'[d] = outbox[d]
  <2>1. outbox \in [Conns -> Outboxes] /\ Turns(outbox, outbox', c, Outboxes)
    BY DEF ConnTypes, Turning
  <2> QED BY <2>1, TurnsFacts
<1>6. call' \in [Conns -> Calls] /\ \A d \in Conns : d # c => call'[d] = call[d]
  <2>1. call \in [Conns -> Calls] /\ Turns(call, call', c, Calls)
    BY DEF ConnTypes, Turning
  <2> QED BY <2>1, TurnsFacts
<1>7. request' \in [Conns -> Lines] /\ \A d \in Conns : d # c => request'[d] = request[d]
  <2>1. request \in [Conns -> Lines] /\ Turns(request, request', c, Lines)
    BY DEF ConnTypes, Turning
  <2> QED BY <2>1, TurnsFacts
<1>8. outcome' \in [Conns -> Results] /\ \A d \in Conns : d # c => outcome'[d] = outcome[d]
  <2>1. outcome \in [Conns -> Results] /\ Turns(outcome, outcome', c, Results)
    BY DEF ConnTypes, Turning
  <2> QED BY <2>1, TurnsFacts
<1>9. hello' \in [Conns -> Nat] /\ \A d \in Conns : d # c => hello'[d] = hello[d]
  <2>1. hello \in [Conns -> Nat] /\ Turns(hello, hello', c, Nat)
    BY DEF ConnTypes, Turning
  <2> QED BY <2>1, TurnsFacts
<1>10. heard' \in [Conns -> Outboxes] /\ \A d \in Conns : d # c => heard'[d] = heard[d]
  <2>1. heard \in [Conns -> Outboxes] /\ Turns(heard, heard', c, Outboxes)
    BY DEF ConnTypes, Turning
  <2> QED BY <2>1, TurnsFacts
<1>11. \A d \in Conns : d # c => Same(d)
  BY <1>1, <1>2, <1>3, <1>4, <1>5, <1>6, <1>7, <1>8, <1>9, <1>10 DEF Same
<1>12. \A d \in Conns : conn'[d] = "write" => say'[d].line \in Answers
  BY <1>1, <1>2 DEF ConnTypes, Turning
<1>13. ConnTypes'
  BY <1>1, <1>2, <1>3, <1>4, <1>5, <1>6, <1>7, <1>8, <1>9, <1>10, <1>12 DEF ConnTypes, Turning
<1> QED BY <1>11, <1>13 DEF Moves

\* The words of the other components.
LEMMA PlaceFacts ==
  /\ \A p \in {"none", "closed", "admit", "read", "write", "stream", "backlog"} : p \in Places
  /\ \A p \in {"idle", "open", "reading", "following", "gone"} : p \in Calls
BY DEF Places, Closed, Serving, Calls

\* Taking from the sockets and putting into them.
LEMMA QueueFacts ==
  /\ <<>> \in Inboxes /\ <<>> \in Outboxes
  /\ \A q \in Inboxes : q # <<>> => Tail(q) \in Inboxes /\ Head(q) \in Lines
  /\ \A q \in Outboxes : q # <<>> => Tail(q) \in Outboxes /\ Head(q) \in Answers
  /\ \A q \in Inboxes, line \in Lines : Append(q, line) \in Inboxes
  /\ \A q \in Outboxes, a \in Answers : Append(q, a) \in Outboxes
BY DEF Inboxes, Outboxes

\* The types at one connection, which is how the steps' lemmas use them.
LEMMA TypesAt ==
  ASSUME ConnTypes, NEW c \in Conns
  PROVE  /\ daemon \in {"serving", "closing", "gone"} /\ permits \in Nat
         /\ conn \in [Conns -> Places] /\ conn[c] \in Places
         /\ say \in [Conns -> Writing] /\ say[c] \in Writing
         /\ pos \in [Conns -> Nat] /\ pos[c] \in Nat
         /\ inbox \in [Conns -> Inboxes] /\ inbox[c] \in Inboxes
         /\ outbox \in [Conns -> Outboxes] /\ outbox[c] \in Outboxes
         /\ call \in [Conns -> Calls] /\ call[c] \in Calls
         /\ request \in [Conns -> Lines] /\ request[c] \in Lines
         /\ outcome \in [Conns -> Results] /\ outcome[c] \in Results
         /\ hello \in [Conns -> Nat] /\ hello[c] \in Nat
         /\ heard \in [Conns -> Outboxes] /\ heard[c] \in Outboxes
         /\ conn[c] = "write" => say[c].line \in Answers
BY DEF ConnTypes

Nexts == {"read", "stream", "close", "strike"}

\* A task that says something is writing it.
LEMMA SaysFacts ==
  ASSUME say \in [Conns -> Writing], NEW c \in Conns, NEW a \in Answers, NEW next \in Nexts,
         Says(c, a, next)
  PROVE  /\ Turns(say, say', c, Writing) /\ say'[c] = [line |-> a, next |-> next]
         /\ say'[c].line \in Answers
<1> DEFINE w == [line |-> a, next |-> next]
<1>1. w \in Writing /\ w.line = a
  BY WritingFacts DEF Nexts
<1>2. say' = [say EXCEPT ![c] = w]
  BY DEF Says
<1> HIDE DEF w
<1>3. Turns(say, say', c, Writing) /\ say'[c] = w
  BY <1>1, <1>2, TurnsAt
<1> QED BY <1>1, <1>3 DEF w

\* accept_loop() touches the connection that it accepts or refuses.
LEMMA AcceptMoves ==
  ASSUME StreamTypes, ConnTypes, NEW c \in Conns, Accept(c)
  PROVE  Moves(c)
<1>1. /\ UNCHANGED <<daemon, say, pos, outbox, call, request, outcome, hello, heard>>
      /\ UNCHANGED <<events, applied, sent>>
  BY DEF Accept, Goes, daemonEnd, clientEnd, streamVars
<1>2. /\ permits \in Nat /\ daemon \in {"serving", "closing", "gone"} /\ conn[c] \in Places
      /\ conn \in [Conns -> Places] /\ conn[c] \in Places
      /\ inbox \in [Conns -> Inboxes] /\ inbox[c] \in Inboxes
      /\ outbox \in [Conns -> Outboxes] /\ outbox[c] \in Outboxes
      /\ request \in [Conns -> Lines] /\ request[c] \in Lines
      /\ say \in [Conns -> Writing] /\ say[c] \in Writing
      /\ conn[c] = "write" => say[c].line \in Answers
  BY TypesAt
<1>3. Turns(conn, conn', c, Places)
  BY <1>2, PlaceFacts DEF Accept, Goes, Turns
<1>4. Turns(inbox, inbox', c, Inboxes)
  BY <1>2, QueueFacts DEF Accept, Goes, Lines, Turns
<1>5. permits' \in Nat
  BY <1>2 DEF Accept, Goes
<1>6. conn'[c] = "write" => say'[c].line \in Answers
  BY <1>2, AnswerFacts, WritingFacts DEF Accept, Goes, Words
<1>7. Turning(c)
  BY <1>2, <1>1, <1>3, <1>4, <1>5, <1>6 DEF Turning, Turns
<1> QED BY <1>1, <1>7, TurnsMove

\* admit() touches the connection of its task.
LEMMA AdmitMoves ==
  ASSUME StreamTypes, ConnTypes, NEW c \in Conns, Admit(c)
  PROVE  Moves(c)
<1>1. /\ UNCHANGED <<daemon, permits, pos, inbox, outbox, call, request, outcome, hello, heard>>
      /\ UNCHANGED <<events, applied, sent>>
  BY DEF Admit, Goes, Says, daemonEnd, clientEnd, streamVars
<1>2. /\ permits \in Nat /\ daemon \in {"serving", "closing", "gone"} /\ conn[c] \in Places
      /\ conn \in [Conns -> Places] /\ conn[c] \in Places
      /\ inbox \in [Conns -> Inboxes] /\ inbox[c] \in Inboxes
      /\ outbox \in [Conns -> Outboxes] /\ outbox[c] \in Outboxes
      /\ request \in [Conns -> Lines] /\ request[c] \in Lines
      /\ say \in [Conns -> Writing] /\ say[c] \in Writing
      /\ conn[c] = "write" => say[c].line \in Answers
  BY TypesAt
<1>3. Turns(conn, conn', c, Places)
  BY <1>2, PlaceFacts DEF Admit, Goes, Says, Turns
<1>4. say' = say \/ \E a \in Answers, next \in Nexts : Says(c, a, next)
  BY <1>2, AnswerFacts DEF Admit, Words, Nexts
<1>5. Turns(say, say', c, Writing)
  BY <1>2, <1>4, SaysFacts DEF Turns
<1>6. conn'[c] = "write" => say'[c].line \in Answers
  BY <1>2, AnswerFacts, WritingFacts DEF Admit, Goes, Says, Words
<1>7. Turning(c)
  BY <1>2, <1>1, <1>3, <1>5, <1>6 DEF Turning, Turns
<1> QED BY <1>1, <1>7, TurnsMove

\* Reading a line that is no request touches its own connection.
LEMMA ReadNothingMoves ==
  ASSUME StreamTypes, ConnTypes, NEW c \in Conns, ReadNothing(c)
  PROVE  Moves(c)
<1>1. /\ UNCHANGED <<daemon, permits, pos, outbox, call, request, outcome, hello, heard>>
      /\ UNCHANGED <<events, applied, sent>>
  BY DEF ReadNothing, Read, Says, Goes, daemonEnd, clientEnd, streamVars
<1>2. /\ permits \in Nat /\ daemon \in {"serving", "closing", "gone"} /\ conn[c] \in Places
      /\ conn \in [Conns -> Places] /\ conn[c] \in Places
      /\ inbox \in [Conns -> Inboxes] /\ inbox[c] \in Inboxes
      /\ outbox \in [Conns -> Outboxes] /\ outbox[c] \in Outboxes
      /\ request \in [Conns -> Lines] /\ request[c] \in Lines
      /\ say \in [Conns -> Writing] /\ say[c] \in Writing
      /\ conn[c] = "write" => say[c].line \in Answers
  BY TypesAt
<1>3. Turns(conn, conn', c, Places)
  BY <1>2, PlaceFacts DEF ReadNothing, Read, Says, Goes, Turns
<1>4. say' = say \/ \E a \in Answers, next \in Nexts : Says(c, a, next)
  BY <1>2, AnswerFacts DEF ReadNothing, Read, Words, Nexts
<1>5. Turns(say, say', c, Writing)
  BY <1>2, <1>4, SaysFacts DEF Turns
<1>6. Turns(inbox, inbox', c, Inboxes)
  BY <1>2, QueueFacts DEF ReadNothing, Read, Says, Goes, Lines, Turns
<1>7. conn'[c] = "write" => say'[c].line \in Answers
  BY <1>2, AnswerFacts, WritingFacts DEF ReadNothing, Read, Says, Goes, Words
<1>8. Turning(c)
  BY <1>2, <1>1, <1>3, <1>5, <1>6, <1>7 DEF Turning, Turns
<1> QED BY <1>1, <1>8, TurnsMove

\* So does reading a line that cannot be used.
LEMMA ReadUnusableMoves ==
  ASSUME StreamTypes, ConnTypes, NEW c \in Conns, ReadUnusable(c)
  PROVE  Moves(c)
<1>1. /\ UNCHANGED <<daemon, permits, pos, outbox, call, request, outcome, hello, heard>>
      /\ UNCHANGED <<events, applied, sent>>
  BY DEF ReadUnusable, Read, Says, Goes, daemonEnd, clientEnd, streamVars
<1>2. /\ permits \in Nat /\ daemon \in {"serving", "closing", "gone"} /\ conn[c] \in Places
      /\ conn \in [Conns -> Places] /\ conn[c] \in Places
      /\ inbox \in [Conns -> Inboxes] /\ inbox[c] \in Inboxes
      /\ outbox \in [Conns -> Outboxes] /\ outbox[c] \in Outboxes
      /\ request \in [Conns -> Lines] /\ request[c] \in Lines
      /\ say \in [Conns -> Writing] /\ say[c] \in Writing
      /\ conn[c] = "write" => say[c].line \in Answers
  BY TypesAt
<1>3. Turns(conn, conn', c, Places)
  BY <1>2, PlaceFacts DEF ReadUnusable, Read, Says, Goes, Turns
<1>4. say' = say \/ \E a \in Answers, next \in Nexts : Says(c, a, next)
  BY <1>2, AnswerFacts DEF ReadUnusable, Read, Words, Nexts
<1>5. Turns(say, say', c, Writing)
  BY <1>2, <1>4, SaysFacts DEF Turns
<1>6. Turns(inbox, inbox', c, Inboxes)
  BY <1>2, QueueFacts DEF ReadUnusable, Read, Says, Goes, Lines, Turns
<1>7. conn'[c] = "write" => say'[c].line \in Answers
  BY <1>2, AnswerFacts, WritingFacts DEF ReadUnusable, Read, Says, Goes, Words
<1>8. Turning(c)
  BY <1>2, <1>1, <1>3, <1>5, <1>6, <1>7 DEF Turning, Turns
<1> QED BY <1>1, <1>8, TurnsMove

\* Answering a request touches its own connection.
LEMMA ReadRequestMoves ==
  ASSUME StreamTypes, ConnTypes, NEW c \in Conns, ReadRequest(c)
  PROVE  Moves(c)
<1>1. /\ UNCHANGED <<daemon, permits, pos, outbox, call, request, outcome, hello, heard>>
      /\ UNCHANGED <<events, applied, sent>>
  BY DEF ReadRequest, Read, Forgives, Says, Goes, daemonEnd, clientEnd, streamVars
<1>2. /\ permits \in Nat /\ daemon \in {"serving", "closing", "gone"} /\ conn[c] \in Places
      /\ conn \in [Conns -> Places] /\ conn[c] \in Places
      /\ inbox \in [Conns -> Inboxes] /\ inbox[c] \in Inboxes
      /\ outbox \in [Conns -> Outboxes] /\ outbox[c] \in Outboxes
      /\ request \in [Conns -> Lines] /\ request[c] \in Lines
      /\ say \in [Conns -> Writing] /\ say[c] \in Writing
      /\ conn[c] = "write" => say[c].line \in Answers
  BY TypesAt
<1>3. Turns(conn, conn', c, Places)
  BY <1>2, PlaceFacts DEF ReadRequest, Read, Forgives, Says, Goes, Turns
<1>4. say' = say \/ \E a \in Answers, next \in Nexts : Says(c, a, next)
  BY <1>2, AnswerFacts DEF ReadRequest, Read, Forgives, StreamTypes, Words, Nexts
<1>5. Turns(say, say', c, Writing)
  BY <1>2, <1>4, SaysFacts DEF Turns
<1>6. Turns(inbox, inbox', c, Inboxes)
  BY <1>2, QueueFacts DEF ReadRequest, Read, Forgives, Says, Goes, Lines, Turns
<1>7. conn'[c] = "write" => say'[c].line \in Answers
  BY <1>2, AnswerFacts, WritingFacts DEF ReadRequest, Read, Forgives, Says, Goes, Words, StreamTypes
<1>8. Turning(c)
  BY <1>2, <1>1, <1>3, <1>5, <1>6, <1>7 DEF Turning, Turns
<1> QED BY <1>1, <1>8, TurnsMove

\* Greeting a subscriber touches its own connection.
LEMMA ReadSubscribeMoves ==
  ASSUME StreamTypes, ConnTypes, NEW c \in Conns, ReadSubscribe(c)
  PROVE  Moves(c)
<1>1. /\ UNCHANGED <<daemon, permits, outbox, call, request, outcome, hello, heard>>
      /\ UNCHANGED <<events, applied, sent>>
  BY DEF ReadSubscribe, Read, Forgives, Says, Goes, daemonEnd, clientEnd, streamVars
<1>2. /\ permits \in Nat /\ daemon \in {"serving", "closing", "gone"} /\ conn[c] \in Places
      /\ conn \in [Conns -> Places] /\ conn[c] \in Places
      /\ inbox \in [Conns -> Inboxes] /\ inbox[c] \in Inboxes
      /\ outbox \in [Conns -> Outboxes] /\ outbox[c] \in Outboxes
      /\ pos \in [Conns -> Nat] /\ pos[c] \in Nat
      /\ request \in [Conns -> Lines] /\ request[c] \in Lines
      /\ say \in [Conns -> Writing] /\ say[c] \in Writing
      /\ conn[c] = "write" => say[c].line \in Answers
  BY TypesAt
<1>3. Turns(conn, conn', c, Places)
  BY <1>2, PlaceFacts DEF ReadSubscribe, Read, Forgives, Says, Goes, Turns
<1>4. say' = say \/ \E a \in Answers, next \in Nexts : Says(c, a, next)
  BY <1>2, AnswerFacts DEF ReadSubscribe, Read, Forgives, Words, Nexts
<1>5. Turns(say, say', c, Writing)
  BY <1>2, <1>4, SaysFacts DEF Turns
<1>6. Turns(inbox, inbox', c, Inboxes)
  BY <1>2, QueueFacts DEF ReadSubscribe, Read, Forgives, Says, Goes, Lines, Turns
<1>7. Turns(pos, pos', c, Nat)
  BY <1>2 DEF ReadSubscribe, Read, Forgives, Says, Goes, StreamTypes, Turns
<1>8. conn'[c] = "write" => say'[c].line \in Answers
  BY <1>2, AnswerFacts, WritingFacts DEF ReadSubscribe, Read, Forgives, Says, Goes, Words
<1>9. Turning(c)
  BY <1>2, <1>1, <1>3, <1>5, <1>6, <1>7, <1>8 DEF Turning, Turns
<1> QED BY <1>1, <1>9, TurnsMove

\* The end of what a client wrote ends its own task.
LEMMA ReadClosedMoves ==
  ASSUME StreamTypes, ConnTypes, NEW c \in Conns, ReadClosed(c)
  PROVE  Moves(c)
<1>1. /\ UNCHANGED <<daemon, outbox, call, request, outcome, hello, heard>>
      /\ UNCHANGED <<events, applied, sent>>
  BY DEF ReadClosed, Ends, Goes, daemonEnd, clientEnd, streamVars
<1>2. /\ permits \in Nat /\ daemon \in {"serving", "closing", "gone"} /\ conn[c] \in Places
      /\ conn \in [Conns -> Places] /\ conn[c] \in Places
      /\ inbox \in [Conns -> Inboxes] /\ inbox[c] \in Inboxes
      /\ outbox \in [Conns -> Outboxes] /\ outbox[c] \in Outboxes
      /\ pos \in [Conns -> Nat] /\ pos[c] \in Nat
      /\ request \in [Conns -> Lines] /\ request[c] \in Lines
      /\ say \in [Conns -> Writing] /\ say[c] \in Writing
      /\ conn[c] = "write" => say[c].line \in Answers
  BY TypesAt
<1>3. Turns(conn, conn', c, Places)
  BY <1>2, PlaceFacts DEF ReadClosed, Ends, Goes, Turns
<1>4. Turns(say, say', c, Writing)
  BY <1>2, AnswerFacts, WritingFacts DEF ReadClosed, Ends, Goes, Words, Turns
<1>5. Turns(inbox, inbox', c, Inboxes)
  BY <1>2, QueueFacts DEF ReadClosed, Ends, Goes, Lines, Turns
<1>6. Turns(pos, pos', c, Nat)
  BY <1>2 DEF ReadClosed, Ends, Goes, StreamTypes, Turns
<1>7. permits' \in Nat
  BY <1>2 DEF ReadClosed, Ends, Goes
<1>8. conn'[c] = "write" => say'[c].line \in Answers
  BY <1>2, AnswerFacts, WritingFacts DEF ReadClosed, Ends, Goes, Words
<1>9. Turning(c)
  BY <1>2, <1>1, <1>3, <1>4, <1>5, <1>6, <1>7, <1>8 DEF Turning, Turns
<1> QED BY <1>1, <1>9, TurnsMove

\* IDLE_TIMEOUT ends its own task.
LEMMA ReadIdleMoves ==
  ASSUME StreamTypes, ConnTypes, NEW c \in Conns, ReadIdle(c)
  PROVE  Moves(c)
<1>1. /\ UNCHANGED <<daemon, outbox, call, request, outcome, hello, heard>>
      /\ UNCHANGED <<events, applied, sent>>
  BY DEF ReadIdle, Ends, Goes, daemonEnd, clientEnd, streamVars
<1>2. /\ permits \in Nat /\ daemon \in {"serving", "closing", "gone"} /\ conn[c] \in Places
      /\ conn \in [Conns -> Places] /\ conn[c] \in Places
      /\ inbox \in [Conns -> Inboxes] /\ inbox[c] \in Inboxes
      /\ outbox \in [Conns -> Outboxes] /\ outbox[c] \in Outboxes
      /\ pos \in [Conns -> Nat] /\ pos[c] \in Nat
      /\ request \in [Conns -> Lines] /\ request[c] \in Lines
      /\ say \in [Conns -> Writing] /\ say[c] \in Writing
      /\ conn[c] = "write" => say[c].line \in Answers
  BY TypesAt
<1>3. Turns(conn, conn', c, Places)
  BY <1>2, PlaceFacts DEF ReadIdle, Ends, Goes, Turns
<1>4. Turns(say, say', c, Writing)
  BY <1>2, AnswerFacts, WritingFacts DEF ReadIdle, Ends, Goes, Words, Turns
<1>5. Turns(inbox, inbox', c, Inboxes)
  BY <1>2, QueueFacts DEF ReadIdle, Ends, Goes, Lines, Turns
<1>6. Turns(pos, pos', c, Nat)
  BY <1>2 DEF ReadIdle, Ends, Goes, StreamTypes, Turns
<1>7. permits' \in Nat
  BY <1>2 DEF ReadIdle, Ends, Goes
<1>8. conn'[c] = "write" => say'[c].line \in Answers
  BY <1>2, AnswerFacts, WritingFacts DEF ReadIdle, Ends, Goes, Words
<1>9. Turning(c)
  BY <1>2, <1>1, <1>3, <1>4, <1>5, <1>6, <1>7, <1>8 DEF Turning, Turns
<1> QED BY <1>1, <1>9, TurnsMove

\* write() touches its own connection, whatever comes after it.
LEMMA WriteMoves ==
  ASSUME StreamTypes, ConnTypes, NEW c \in Conns, Write(c)
  PROVE  Moves(c)
<1>1. /\ UNCHANGED <<daemon, call, request, outcome, hello, heard>>
      /\ UNCHANGED <<events, applied, sent>>
  BY DEF Write, Ends, Goes, daemonEnd, clientEnd, streamVars
<1>2. /\ permits \in Nat /\ daemon \in {"serving", "closing", "gone"} /\ conn[c] \in Places
      /\ conn \in [Conns -> Places] /\ conn[c] \in Places
      /\ inbox \in [Conns -> Inboxes] /\ inbox[c] \in Inboxes
      /\ outbox \in [Conns -> Outboxes] /\ outbox[c] \in Outboxes
      /\ pos \in [Conns -> Nat] /\ pos[c] \in Nat
      /\ request \in [Conns -> Lines] /\ request[c] \in Lines
      /\ say \in [Conns -> Writing] /\ say[c] \in Writing
      /\ conn[c] = "write" => say[c].line \in Answers
  BY TypesAt
<1>3. Turns(conn, conn', c, Places)
  BY <1>2, PlaceFacts DEF Write, Ends, Goes, Turns
<1>4. Turns(say, say', c, Writing)
  BY <1>2, AnswerFacts, WritingFacts DEF Write, Ends, Goes, Words, Turns
<1>5. Turns(inbox, inbox', c, Inboxes)
  BY <1>2, QueueFacts DEF Write, Ends, Goes, Lines, Turns
<1>6. Turns(pos, pos', c, Nat)
  BY <1>2 DEF Write, Ends, Goes, StreamTypes, Turns
<1>7. Turns(outbox, outbox', c, Outboxes)
  BY <1>2, QueueFacts DEF Write, Ends, Goes, Turns
<1>8. permits' \in Nat
  BY <1>2 DEF Write, Ends, Goes
<1>9. conn'[c] = "write" => say'[c].line \in Answers
  BY <1>2, AnswerFacts, WritingFacts DEF Write, Ends, Goes, Words
<1>10. Turning(c)
  BY <1>2, <1>1, <1>3, <1>4, <1>5, <1>6, <1>7, <1>8, <1>9 DEF Turning, Turns
<1> QED BY <1>1, <1>10, TurnsMove

\* A write that fails ends its own task.
LEMMA WriteFailsMoves ==
  ASSUME StreamTypes, ConnTypes, NEW c \in Conns, WriteFails(c)
  PROVE  Moves(c)
<1>1. /\ UNCHANGED <<daemon, outbox, call, request, outcome, hello, heard>>
      /\ UNCHANGED <<events, applied, sent>>
  BY DEF WriteFails, Ends, Goes, daemonEnd, clientEnd, streamVars
<1>2. /\ permits \in Nat /\ daemon \in {"serving", "closing", "gone"} /\ conn[c] \in Places
      /\ conn \in [Conns -> Places] /\ conn[c] \in Places
      /\ inbox \in [Conns -> Inboxes] /\ inbox[c] \in Inboxes
      /\ outbox \in [Conns -> Outboxes] /\ outbox[c] \in Outboxes
      /\ pos \in [Conns -> Nat] /\ pos[c] \in Nat
      /\ request \in [Conns -> Lines] /\ request[c] \in Lines
      /\ say \in [Conns -> Writing] /\ say[c] \in Writing
      /\ conn[c] = "write" => say[c].line \in Answers
  BY TypesAt
<1>3. Turns(conn, conn', c, Places)
  BY <1>2, PlaceFacts DEF WriteFails, Ends, Goes, Turns
<1>4. Turns(say, say', c, Writing)
  BY <1>2, AnswerFacts, WritingFacts DEF WriteFails, Ends, Goes, Words, Turns
<1>5. Turns(inbox, inbox', c, Inboxes)
  BY <1>2, QueueFacts DEF WriteFails, Ends, Goes, Lines, Turns
<1>6. Turns(pos, pos', c, Nat)
  BY <1>2 DEF WriteFails, Ends, Goes, StreamTypes, Turns
<1>7. permits' \in Nat
  BY <1>2 DEF WriteFails, Ends, Goes
<1>8. conn'[c] = "write" => say'[c].line \in Answers
  BY <1>2, AnswerFacts, WritingFacts DEF WriteFails, Ends, Goes, Words
<1>9. Turning(c)
  BY <1>2, <1>1, <1>3, <1>4, <1>5, <1>6, <1>7, <1>8 DEF Turning, Turns
<1> QED BY <1>1, <1>9, TurnsMove

\* A turn of stream_events() touches its own connection.
LEMMA ReceiveMoves ==
  ASSUME StreamTypes, ConnTypes, NEW c \in Conns, Receive(c)
  PROVE  Moves(c)
<1>1. /\ UNCHANGED <<daemon, permits, inbox, outbox, call, request, outcome, hello, heard>>
      /\ UNCHANGED <<events, applied, sent>>
  BY DEF Receive, Says, Goes, Behind, daemonEnd, clientEnd, streamVars
<1>2. /\ permits \in Nat /\ daemon \in {"serving", "closing", "gone"} /\ conn[c] \in Places
      /\ conn \in [Conns -> Places] /\ conn[c] \in Places
      /\ inbox \in [Conns -> Inboxes] /\ inbox[c] \in Inboxes
      /\ outbox \in [Conns -> Outboxes] /\ outbox[c] \in Outboxes
      /\ pos \in [Conns -> Nat] /\ pos[c] \in Nat
      /\ request \in [Conns -> Lines] /\ request[c] \in Lines
      /\ say \in [Conns -> Writing] /\ say[c] \in Writing
      /\ conn[c] = "write" => say[c].line \in Answers
  BY TypesAt
<1>3. Turns(conn, conn', c, Places)
  BY <1>2, PlaceFacts DEF Receive, Says, Goes, Behind, Turns
<1>4. say' = say \/ \E a \in Answers, next \in Nexts : Says(c, a, next)
  BY <1>2, AnswerFacts, StreamAssumption DEF Receive, Behind, Lagging, Oldest, StreamTypes, Words, Nexts
<1>5. Turns(say, say', c, Writing)
  BY <1>2, <1>4, SaysFacts DEF Turns
<1>6. Turns(pos, pos', c, Nat)
  BY <1>2, StreamAssumption DEF Receive, Says, Goes, Behind, Lagging, Oldest, StreamTypes, Turns
<1>7. conn'[c] = "write" => say'[c].line \in Answers
  BY <1>2, AnswerFacts, WritingFacts, StreamAssumption
     DEF Receive, Says, Goes, Behind, Words, Lagging, Oldest, StreamTypes
<1>8. Turning(c)
  BY <1>2, <1>1, <1>3, <1>5, <1>6, <1>7 DEF Turning, Turns
<1> QED BY <1>1, <1>8, TurnsMove

\* A call writes its line to its own connection.
LEMMA PutMoves ==
  ASSUME StreamTypes, ConnTypes, NEW c \in Conns, Put(c)
  PROVE  Moves(c)
<1>1. /\ UNCHANGED <<daemon, permits, conn, say, pos, outbox, outcome, hello, heard>>
      /\ UNCHANGED <<events, applied, sent>>
  BY DEF Put, daemonEnd, clientEnd, streamVars
<1>2. /\ permits \in Nat /\ daemon \in {"serving", "closing", "gone"} /\ conn[c] \in Places
      /\ call \in [Conns -> Calls] /\ call[c] \in Calls
      /\ inbox \in [Conns -> Inboxes] /\ inbox[c] \in Inboxes
      /\ outbox \in [Conns -> Outboxes] /\ outbox[c] \in Outboxes
      /\ request \in [Conns -> Lines] /\ request[c] \in Lines
      /\ say \in [Conns -> Writing] /\ say[c] \in Writing
      /\ conn[c] = "write" => say[c].line \in Answers
  BY TypesAt
<1>3. Turns(inbox, inbox', c, Inboxes)
  BY <1>2, QueueFacts DEF Put, Lines, Turns
<1>4. Turns(call, call', c, Calls)
  BY <1>2, PlaceFacts DEF Put, Turns
<1>5. Turns(request, request', c, Lines)
  BY <1>2 DEF Put, Lines, Turns
<1>6. Turning(c)
  BY <1>2, <1>1, <1>3, <1>4, <1>5 DEF Turning, Turns
<1> QED BY <1>1, <1>6, TurnsMove

\* A call reads its answer from its own connection.
LEMMA HearMoves ==
  ASSUME StreamTypes, ConnTypes, NEW c \in Conns, Hear(c)
  PROVE  Moves(c)
<1>1. /\ UNCHANGED <<daemon, permits, conn, say, pos, inbox, request, heard>>
      /\ UNCHANGED <<events, applied, sent>>
  BY DEF Hear, Takes, Returns, daemonEnd, clientEnd, streamVars
<1>2. /\ permits \in Nat /\ daemon \in {"serving", "closing", "gone"} /\ conn[c] \in Places
      /\ call \in [Conns -> Calls] /\ call[c] \in Calls
      /\ hello \in [Conns -> Nat] /\ hello[c] \in Nat
      /\ inbox \in [Conns -> Inboxes] /\ inbox[c] \in Inboxes
      /\ outbox \in [Conns -> Outboxes] /\ outbox[c] \in Outboxes
      /\ outcome \in [Conns -> Results] /\ outcome[c] \in Results
      /\ request \in [Conns -> Lines] /\ request[c] \in Lines
      /\ say \in [Conns -> Writing] /\ say[c] \in Writing
      /\ conn[c] = "write" => say[c].line \in Answers
  BY TypesAt
<1>3. Turns(outbox, outbox', c, Outboxes)
  BY <1>2, QueueFacts DEF Hear, Takes, Returns, Turns
<1>4. Turns(call, call', c, Calls)
  BY <1>2, PlaceFacts DEF Hear, Takes, Returns, Turns
<1>5. Turns(outcome, outcome', c, Results)
  BY <1>2, AnswerFacts, QueueFacts DEF Hear, Takes, Returns, Turns
<1>6. Turns(hello, hello', c, Nat)
  BY <1>2 DEF Hear, Takes, Returns, StreamTypes, Turns
<1>7. Turning(c)
  BY <1>2, <1>1, <1>3, <1>4, <1>5, <1>6 DEF Turning, Turns
<1> QED BY <1>1, <1>7, TurnsMove

\* A call that finds no answer leaves the sockets alone.
LEMMA HearNothingMoves ==
  ASSUME StreamTypes, ConnTypes, NEW c \in Conns, HearNothing(c)
  PROVE  Moves(c)
<1>1. /\ UNCHANGED <<daemon, permits, conn, say, pos, inbox, outbox, request, hello, heard>>
      /\ UNCHANGED <<events, applied, sent>>
  BY DEF HearNothing, Returns, daemonEnd, clientEnd, streamVars
<1>2. /\ permits \in Nat /\ daemon \in {"serving", "closing", "gone"} /\ conn[c] \in Places
      /\ call \in [Conns -> Calls] /\ call[c] \in Calls
      /\ inbox \in [Conns -> Inboxes] /\ inbox[c] \in Inboxes
      /\ outbox \in [Conns -> Outboxes] /\ outbox[c] \in Outboxes
      /\ outcome \in [Conns -> Results] /\ outcome[c] \in Results
      /\ request \in [Conns -> Lines] /\ request[c] \in Lines
      /\ say \in [Conns -> Writing] /\ say[c] \in Writing
      /\ conn[c] = "write" => say[c].line \in Answers
  BY TypesAt
<1>3. Turns(call, call', c, Calls)
  BY <1>2, PlaceFacts DEF HearNothing, Returns, Turns
<1>4. Turns(outcome, outcome', c, Results)
  BY <1>2, AnswerFacts, QueueFacts DEF HearNothing, Returns, Turns
<1>5. Turning(c)
  BY <1>2, <1>1, <1>3, <1>4 DEF Turning, Turns
<1> QED BY <1>1, <1>5, TurnsMove

\* The loop of subscribe() touches its own connection.
LEMMA FollowMoves ==
  ASSUME StreamTypes, ConnTypes, NEW c \in Conns, Follow(c)
  PROVE  Moves(c)
<1>1. /\ UNCHANGED <<daemon, permits, conn, say, pos, inbox, request, hello>>
      /\ UNCHANGED <<events, applied, sent>>
  BY DEF Follow, Takes, Returns, daemonEnd, clientEnd, streamVars
<1>2. /\ permits \in Nat /\ daemon \in {"serving", "closing", "gone"} /\ conn[c] \in Places
      /\ call \in [Conns -> Calls] /\ call[c] \in Calls
      /\ heard \in [Conns -> Outboxes] /\ heard[c] \in Outboxes
      /\ inbox \in [Conns -> Inboxes] /\ inbox[c] \in Inboxes
      /\ outbox \in [Conns -> Outboxes] /\ outbox[c] \in Outboxes
      /\ outcome \in [Conns -> Results] /\ outcome[c] \in Results
      /\ request \in [Conns -> Lines] /\ request[c] \in Lines
      /\ say \in [Conns -> Writing] /\ say[c] \in Writing
      /\ conn[c] = "write" => say[c].line \in Answers
  BY TypesAt
<1>3. Turns(outbox, outbox', c, Outboxes)
  BY <1>2, QueueFacts DEF Follow, Takes, Returns, Turns
<1>4. Turns(call, call', c, Calls)
  BY <1>2, PlaceFacts DEF Follow, Takes, Returns, Turns
<1>5. Turns(outcome, outcome', c, Results)
  BY <1>2, AnswerFacts, QueueFacts DEF Follow, Takes, Returns, Turns
<1>6. Turns(heard, heard', c, Outboxes)
  <2> DEFINE h == Append(heard[c], Head(outbox[c]))
  <2>1. UNCHANGED heard \/ heard' = [heard EXCEPT ![c] = h]
    BY DEF Follow
  <2>2. outbox[c] # <<>> => h \in Outboxes
    BY <1>2, QueueFacts
  <2>3. UNCHANGED heard \/ outbox[c] # <<>>
    BY DEF Follow, Takes
  <2> HIDE DEF h
  <2>4. CASE UNCHANGED heard
    BY <2>4 DEF Turns
  <2>5. CASE heard' # heard
    BY <1>2, <2>1, <2>2, <2>3, <2>5, TurnsAt
  <2> QED BY <2>4, <2>5
<1>7. Turning(c)
  BY <1>2, <1>1, <1>3, <1>4, <1>5, <1>6 DEF Turning, Turns
<1> QED BY <1>1, <1>7, TurnsMove

\* A client that hangs up touches its own connection.
LEMMA HangUpMoves ==
  ASSUME StreamTypes, ConnTypes, NEW c \in Conns, HangUp(c)
  PROVE  Moves(c)
<1>1. /\ UNCHANGED <<daemon, permits, conn, say, pos, inbox, outbox, request, hello, heard>>
      /\ UNCHANGED <<events, applied, sent>>
  BY DEF HangUp, Returns, daemonEnd, clientEnd, streamVars
<1>2. /\ permits \in Nat /\ daemon \in {"serving", "closing", "gone"} /\ conn[c] \in Places
      /\ call \in [Conns -> Calls] /\ call[c] \in Calls
      /\ inbox \in [Conns -> Inboxes] /\ inbox[c] \in Inboxes
      /\ outbox \in [Conns -> Outboxes] /\ outbox[c] \in Outboxes
      /\ outcome \in [Conns -> Results] /\ outcome[c] \in Results
      /\ request \in [Conns -> Lines] /\ request[c] \in Lines
      /\ say \in [Conns -> Writing] /\ say[c] \in Writing
      /\ conn[c] = "write" => say[c].line \in Answers
  BY TypesAt
<1>3. Turns(call, call', c, Calls)
  BY <1>2, PlaceFacts DEF HangUp, Returns, Turns
<1>4. Turns(outcome, outcome', c, Results)
  BY <1>2, AnswerFacts, QueueFacts DEF HangUp, Returns, Turns
<1>5. Turning(c)
  BY <1>2, <1>1, <1>3, <1>4 DEF Turning, Turns
<1> QED BY <1>1, <1>5, TurnsMove

\* Another program reads from its own connection.
LEMMA ProgramReadsMoves ==
  ASSUME StreamTypes, ConnTypes, NEW c \in Conns, ProgramReads(c)
  PROVE  Moves(c)
<1>1. /\ UNCHANGED <<daemon, permits, conn, say, pos, inbox, call, request, outcome, hello, heard>>
      /\ UNCHANGED <<events, applied, sent>>
  BY DEF ProgramReads, Takes, daemonEnd, clientEnd, streamVars
<1>2. /\ permits \in Nat /\ daemon \in {"serving", "closing", "gone"} /\ conn[c] \in Places
      /\ inbox \in [Conns -> Inboxes] /\ inbox[c] \in Inboxes
      /\ outbox \in [Conns -> Outboxes] /\ outbox[c] \in Outboxes
      /\ request \in [Conns -> Lines] /\ request[c] \in Lines
      /\ say \in [Conns -> Writing] /\ say[c] \in Writing
      /\ conn[c] = "write" => say[c].line \in Answers
  BY TypesAt
<1>3. Turns(outbox, outbox', c, Outboxes)
  BY <1>2, QueueFacts DEF ProgramReads, Takes, Turns
<1>4. Turning(c)
  BY <1>2, <1>1, <1>3 DEF Turning, Turns
<1> QED BY <1>1, <1>4, TurnsMove

\* Another program writes to its own connection.
LEMMA ProgramWritesMoves ==
  ASSUME StreamTypes, ConnTypes, NEW c \in Conns, NEW line \in Lines, ProgramWrites(c, line)
  PROVE  Moves(c)
<1>1. /\ UNCHANGED <<daemon, permits, conn, say, pos, outbox, call, request, outcome, hello, heard>>
      /\ UNCHANGED <<events, applied, sent>>
  BY DEF ProgramWrites, daemonEnd, clientEnd, streamVars
<1>2. /\ permits \in Nat /\ daemon \in {"serving", "closing", "gone"} /\ conn[c] \in Places
      /\ inbox \in [Conns -> Inboxes] /\ inbox[c] \in Inboxes
      /\ outbox \in [Conns -> Outboxes] /\ outbox[c] \in Outboxes
      /\ request \in [Conns -> Lines] /\ request[c] \in Lines
      /\ say \in [Conns -> Writing] /\ say[c] \in Writing
      /\ conn[c] = "write" => say[c].line \in Answers
  BY TypesAt
<1>3. Turns(inbox, inbox', c, Inboxes)
  BY <1>2, QueueFacts DEF ProgramWrites, Lines, Turns
<1>4. Turning(c)
  BY <1>2, <1>1, <1>3 DEF Turning, Turns
<1> QED BY <1>1, <1>4, TurnsMove

ConnStep(c) ==
  \/ Accept(c) \/ TaskStep(c) \/ CallStep(c) \/ HangUp(c)
  \/ ProgramReads(c) \/ \E line \in Lines : ProgramWrites(c, line)

\* Every step of a connection keeps the types and leaves the others alone.
LEMMA ConnStepMoves ==
  ASSUME StreamTypes, ConnTypes, NEW c \in Conns, ConnStep(c)
  PROVE  Moves(c)
BY AcceptMoves, AdmitMoves, ReadNothingMoves, ReadUnusableMoves, ReadRequestMoves, ReadSubscribeMoves,
   ReadClosedMoves, ReadIdleMoves, WriteMoves, WriteFailsMoves, ReceiveMoves, PutMoves, HearMoves,
   HearNothingMoves, FollowMoves, HangUpMoves, ProgramReadsMoves, ProgramWritesMoves
   DEF ConnStep, TaskStep, CallStep

-----------------------------------------------------------------------------
(* Sequences that move along a trail.                                       *)

\* Writing the line that waits behind a queue.
LEMMA Written ==
  ASSUME NEW q \in Seq(Answers), NEW a \in Answers
  PROVE  Append(q, a) \o <<>> = q \o <<a>>
OBVIOUS

\* Three parts of a trail are joined in any order.
LEMMA Joined ==
  ASSUME NEW p \in Seq(Answers), NEW q \in Seq(Answers), NEW r \in Seq(Answers)
  PROVE  (p \o q) \o r = p \o (q \o r) /\ p \o q \in Seq(Answers)
BY ConcatAssociative

\* Taking the first item of a queue with something behind it.
LEMMA Taken ==
  ASSUME NEW q \in Seq(Answers), q # <<>>, NEW r \in Seq(Answers)
  PROVE  /\ q \o r # <<>> /\ Head(q \o r) = Head(q) /\ Tail(q \o r) = Tail(q) \o r
         /\ \A h \in Seq(Answers) : Append(h, Head(q)) \o (Tail(q) \o r) = h \o (q \o r)
<1>1. Len(q) \in Nat \ {0} /\ Len(r) \in Nat /\ Head(q) \in Answers /\ Tail(q) \in Seq(Answers)
      /\ Len(Tail(q)) = Len(q) - 1 /\ \A i \in 1..(Len(q) - 1) : Tail(q)[i] = q[i + 1]
  OBVIOUS
<1>2. q \o r \in Seq(Answers) /\ Len(q \o r) = Len(q) + Len(r)
      /\ \A i \in 1..(Len(q) + Len(r)) : (q \o r)[i] = IF i <= Len(q) THEN q[i] ELSE r[i - Len(q)]
  BY <1>1
<1>3. q \o r # <<>> /\ Head(q \o r) = Head(q)
  BY <1>1, <1>2
<1>4. Tail(q \o r) = Tail(q) \o r
  <2> DEFINE s == Tail(q \o r)
             t == Tail(q) \o r
             n == Len(q) + Len(r) - 1
  <2>1. s \in Seq(Answers) /\ Len(s) = n /\ \A i \in 1..n : s[i] = (q \o r)[i + 1]
    BY <1>1, <1>2, <1>3
  <2>2. t \in Seq(Answers) /\ Len(t) = n
        /\ \A i \in 1..n : t[i] = IF i <= Len(q) - 1 THEN Tail(q)[i] ELSE r[i - (Len(q) - 1)]
    BY <1>1
  <2> HIDE DEF s, t
  <2>3. ASSUME NEW i \in 1..n
        PROVE  s[i] = t[i]
    <3>1. s[i] = IF i + 1 <= Len(q) THEN q[i + 1] ELSE r[i + 1 - Len(q)]
      BY <1>1, <1>2, <2>1
    <3>2. t[i] = IF i <= Len(q) - 1 THEN q[i + 1] ELSE r[i - (Len(q) - 1)]
      BY <1>1, <2>2
    <3>3. i - (Len(q) - 1) = i + 1 - Len(q) /\ (i <= Len(q) - 1 <=> i + 1 <= Len(q))
      BY <1>1
    <3> QED BY <3>1, <3>2, <3>3
  <2>4. s = t
    <3>1. s \in Seq(Answers) /\ t \in Seq(Answers)
      BY <2>1, <2>2
    <3>2. Len(s) = Len(t) /\ \A i \in 1..Len(s) : s[i] = t[i]
      BY <2>1, <2>2, <2>3
    <3> QED BY <3>1, <3>2, SeqEqual
  <2> QED BY <2>4 DEF s, t
<1>5. PICK x \in Seq(Answers), t \in Seq(Answers) : x = <<Head(q)>> /\ t = Tail(q) /\ x \o t = q
  <2>1. <<Head(q)>> \in Seq(Answers) /\ <<Head(q)>> \o Tail(q) = q
    BY <1>1
  <2> QED BY <1>1, <2>1
<1>6. \A h \in Seq(Answers) : Append(h, Head(q)) = h \o <<Head(q)>>
  BY <1>1, AppendIsConcat
<1> DEFINE u == t \o r
<1>7. u \in Seq(Answers) /\ (x \o t) \o r = x \o u
  BY Joined
<1> HIDE DEF u
<1>8. q \o r = x \o u
  BY <1>5, <1>7
<1>9. ASSUME NEW h \in Seq(Answers)
      PROVE  Append(h, Head(q)) \o u = h \o (q \o r)
  <2>1. (h \o x) \o u = h \o (x \o u)
    <3>1. h \in Seq(Answers) /\ x \in Seq(Answers) /\ u \in Seq(Answers)
      BY <1>7
    <3> QED BY <3>1, Joined, SMTT(20)
  <2>2. Append(h, Head(q)) = h \o x
    BY <1>5, <1>6
  <2> QED BY <1>8, <2>1, <2>2
<1> QED BY <1>3, <1>4, <1>5, <1>9 DEF u

\* Adding one behind a queue adds it to the trail.
LEMMA Added ==
  ASSUME NEW h \in Seq(Answers), NEW q \in Seq(Answers), NEW a \in Answers
  PROVE  /\ h \o (q \o <<a>>) = Append(h \o q, a)
         /\ q # <<>> => Tail(q \o <<a>>) = Tail(q) \o <<a>>
<1>1. <<a>> \in Seq(Answers) /\ h \o q \in Seq(Answers)
  OBVIOUS
<1>2. h \o (q \o <<a>>) = (h \o q) \o <<a>>
  BY <1>1, Joined
<1>3. (h \o q) \o <<a>> = Append(h \o q, a)
  BY <1>1
<1> QED BY <1>1, <1>2, <1>3, Taken

\* What is left of a trail when its last line is not written.
LEMMA Cut ==
  ASSUME NEW h \in Seq(Answers), NEW q \in Seq(Answers), NEW r \in Seq(Answers)
  PROVE  /\ Len(h \o q) \in Nat /\ Len(h \o (q \o r)) \in Nat
         /\ Len(h \o q) <= Len(h \o (q \o r))
         /\ \A j \in 1..Len(h \o q) : (h \o q)[j] = (h \o (q \o r))[j]
<1>1. h \o (q \o r) = (h \o q) \o r /\ h \o q \in Seq(Answers)
  BY ConcatAssociative
<1> DEFINE p == h \o q
<1>2. p \in Seq(Answers) /\ h \o (q \o r) = p \o r
  BY <1>1
<1> HIDE DEF p
<1>3. /\ Len(p) \in Nat /\ Len(p \o r) \in Nat /\ Len(p) <= Len(p \o r)
      /\ \A j \in 1..Len(p) : (p \o r)[j] = p[j]
  BY <1>2
<1> QED BY <1>2, <1>3 DEF p

-----------------------------------------------------------------------------
(* A subscriber's side.                                                     *)

StreamGrows == sent <= sent' /\ \A i \in 1..sent : events'[i] = events[i]

\* The types of a connection's own sequences.
LEMMA TrailTypes ==
  ASSUME ConnTypes, NEW c \in Conns
  PROVE  /\ outbox[c] \in Seq(Answers) /\ heard[c] \in Seq(Answers) /\ pos[c] \in Nat
         /\ hello[c] \in Nat /\ Pipe(c) \in Seq(Answers) /\ Trail(c) \in Seq(Answers)
<1>1. outbox[c] \in Seq(Answers) /\ heard[c] \in Seq(Answers) /\ pos[c] \in Nat /\ hello[c] \in Nat
  BY TypesAt DEF Outboxes
<1>2. Pipe(c) \in Seq(Answers)
  <2>1. CASE conn[c] = "write"
    <3>1. <<say[c].line>> \in Seq(Answers)
      BY <2>1, TypesAt
    <3> QED BY <1>1, <2>1, <3>1 DEF Pipe
  <2>2. CASE conn[c] # "write"
    BY <1>1, <2>2 DEF Pipe
  <2> QED BY <2>1, <2>2
<1>3. Tail(Pipe(c)) \in Seq(Answers) \/ Pipe(c) = <<>>
  BY <1>2
<1>4. call[c] = "reading" /\ Pipe(c) = <<>> => Trail(c) \in Seq(Answers)
  <2>1. Tail(<<>>) = <<>>
    OBVIOUS
  <2> QED BY <1>1, <2>1 DEF Trail
<1>5. Trail(c) \in Seq(Answers)
  BY <1>1, <1>2, <1>3, <1>4 DEF Trail
<1> QED BY <1>1, <1>2, <1>5

\* A connection that does not move keeps its place in the stream.
LEMMA FollowerKept ==
  ASSUME StreamTypes, StreamTypes', ConnTypes, NEW c \in Follows, Same(c), StreamGrows, FollowerAt(c)
  PROVE  FollowerAt(c)'
<1>1. Pipe(c)' = Pipe(c) /\ Trail(c)' = Trail(c)
  BY DEF Pipe, Trail, Same
<1>2. CASE Unsubscribed(c)
  <2>1. Unsubscribed(c)'
    BY <1>1, <1>2 DEF Unsubscribed, Same
  <2> QED BY <2>1 DEF FollowerAt
<1>3. CASE Subscribed(c)
  <2>1. PICK from \in 0..sent :
          /\ call[c] # "reading" => from <= hello[c]
          /\ Sound(events, c \notin NoLogs, Trail(c), from, sent)
          /\ conn[c] \notin Closed =>
               /\ pos[c] \in from..sent
               /\ Accounts(events, c \notin NoLogs, Trail(c), from, pos[c])
    BY <1>3 DEF Subscribed
  <2>2. sent \in Nat /\ sent' \in Nat /\ sent <= sent' /\ c \in Conns /\ from \in Nat /\ from \in 0..sent'
    BY DEF StreamTypes, StreamGrows, Conns
  <2> DEFINE q == Trail(c)
             e == events
             f == events'
             m == sent
             n == sent'
             logs == c \notin NoLogs
  <2>3. q \in Seq(Answers) /\ Len(q) \in Nat
    BY <2>2, TrailTypes
  <2>4. \A i \in 1..m : f[i] = e[i]
    BY DEF StreamGrows
  <2>5. Sound(e, logs, q, from, m)
    BY <2>1
  <2> HIDE DEF q, e, f, m, n, logs
  <2>6. /\ Sound(f, logs, q, from, n)
        /\ \A at \in 0..m : Accounts(e, logs, q, from, at) => Accounts(f, logs, q, from, at)
    <3>1. m \in Nat /\ n \in Nat /\ m <= n
      BY <2>2 DEF m, n
    <3> QED BY <2>2, <2>3, <2>4, <2>5, <3>1, SoundKept
  <2>7. pos[c] \in from..sent => pos[c] \in 0..m /\ pos[c] \in from..sent'
    BY <2>2 DEF m
  <2>8. /\ call[c] # "reading" => from <= hello[c]
        /\ Sound(events', c \notin NoLogs, Trail(c), from, sent')
        /\ conn[c] \notin Closed =>
             /\ pos[c] \in from..sent'
             /\ Accounts(events', c \notin NoLogs, Trail(c), from, pos[c])
    BY <2>1, <2>6, <2>7 DEF q, e, f, m, n, logs
  <2>9. Subscribed(c)'
    BY <1>1, <1>3, <2>2, <2>8 DEF Subscribed, Same
  <2> QED BY <2>9 DEF FollowerAt
<1> QED BY <1>2, <1>3 DEF FollowerAt

\* What a subscription rests on.
SubscribedFrom(c, from) ==
  /\ from \in 0..sent
  /\ call[c] # "reading" => from <= hello[c]
  /\ Sound(events, c \notin NoLogs, Trail(c), from, sent)
  /\ conn[c] \notin Closed =>
       /\ pos[c] \in from..sent
       /\ Accounts(events, c \notin NoLogs, Trail(c), from, pos[c])

\* Items move along the trail, or the connection ends without cutting it short.
LEMMA SubscribedKept ==
  ASSUME StreamTypes, NEW c \in Follows, Subscribed(c), UNCHANGED <<events, sent>>,
         Trail(c)' = Trail(c), pos'[c] = pos[c], inbox'[c] = <<>>,
         conn'[c] \notin Closed => conn[c] \notin Closed,
         conn'[c] \in Closed \cup {"write", "stream"}, conn'[c] = "write" => say'[c].next = "stream",
         call'[c] \in {"reading", "following", "gone"},
         call'[c] = "reading" => heard'[c] = <<>> /\ Pipe(c)' # <<>> /\ Head(Pipe(c)').kind = "ok",
         call'[c] # "reading" =>
           \/ call[c] # "reading" /\ hello'[c] = hello[c]
           \/ hello'[c] \in Nat /\ sent <= hello'[c]
  PROVE  Subscribed(c)'
<1>1. PICK from : SubscribedFrom(c, from)
  BY DEF Subscribed, SubscribedFrom
<1>2. call'[c] # "reading" => from <= hello'[c]
  <2>1. from \in 0..sent /\ sent \in Nat
    BY <1>1 DEF SubscribedFrom, StreamTypes
  <2> QED BY <1>1, <2>1 DEF SubscribedFrom
<1>3. /\ from \in 0..sent'
      /\ Sound(events', c \notin NoLogs, Trail(c)', from, sent')
      /\ conn'[c] \notin Closed =>
           /\ pos'[c] \in from..sent'
           /\ Accounts(events', c \notin NoLogs, Trail(c)', from, pos'[c])
  BY <1>1 DEF SubscribedFrom
<1> QED BY <1>2, <1>3 DEF Subscribed

\* The task ends without writing its line.
LEMMA SubscribedCut ==
  ASSUME StreamTypes, ConnTypes, NEW c \in Follows, Subscribed(c), UNCHANGED <<events, sent>>,
         conn'[c] \in Closed, inbox'[c] = <<>>, outbox'[c] = outbox[c], call'[c] = call[c],
         hello'[c] = hello[c], heard'[c] = heard[c],
         ~(call[c] = "reading" /\ outbox[c] = <<>>)
  PROVE  Subscribed(c)'
<1> DEFINE o == outbox[c]
           x == IF conn[c] = "write" THEN <<say[c].line>> ELSE <<>>
           h == heard[c]
<1>1. c \in Conns
  BY DEF Conns
<1>2. o \in Seq(Answers) /\ h \in Seq(Answers) /\ x \in Seq(Answers)
  <2>1. conn[c] = "write" => <<say[c].line>> \in Seq(Answers)
    BY <1>1, TypesAt
  <2> QED BY <1>1, <2>1, TrailTypes
<1>3. conn'[c] # "write"
  BY DEF Closed
<1>4. Pipe(c) = o \o x /\ Pipe(c)' = o \o <<>>
  BY <1>3 DEF Pipe
<1>5. o \o <<>> = o
  BY <1>2
<1>6. Trail(c) = h \o (IF call[c] = "reading" THEN Tail(o \o x) ELSE o \o x)
      /\ Trail(c)' = h \o (IF call[c] = "reading" THEN Tail(o) ELSE o)
  BY <1>4, <1>5 DEF Trail
<1>7. call[c] = "reading" => o # <<>>
  OBVIOUS
<1> HIDE DEF o, x, h
<1>8. PICK r \in Seq(Answers) : Trail(c)' = h \o r /\ Trail(c) = h \o (r \o x)
  <2>1. CASE call[c] = "reading"
    <3>1. Tail(o) \in Seq(Answers) /\ Tail(o \o x) = Tail(o) \o x
      BY <1>2, <1>7, <2>1, Taken
    <3> QED BY <1>6, <2>1, <3>1
  <2>2. CASE call[c] # "reading"
    BY <1>2, <1>6, <2>2
  <2> QED BY <2>1, <2>2
<1>9. PICK from : SubscribedFrom(c, from)
  BY DEF Subscribed, SubscribedFrom
<1>10. Sound(events, c \notin NoLogs, h \o (r \o x), from, sent)
  BY <1>8, <1>9 DEF SubscribedFrom
<1>11. Sound(events, c \notin NoLogs, h \o r, from, sent)
  <2> DEFINE p == h \o r
             q == h \o (r \o x)
             logs == c \notin NoLogs
  <2>1. /\ Len(p) \in Nat /\ Len(q) \in Nat /\ Len(p) <= Len(q)
        /\ \A j \in 1..Len(p) : p[j] = q[j]
    BY <1>2, <1>8, Cut
  <2>2. Sound(events, logs, q, from, sent)
    BY <1>10
  <2> HIDE DEF p, q, logs
  <2>3. Sound(events, logs, p, from, sent)
    BY <2>1, <2>2, SoundPrefix
  <2> QED BY <2>3 DEF p, logs
<1>12. Sound(events', c \notin NoLogs, Trail(c)', from, sent') /\ from \in 0..sent'
       /\ (call'[c] # "reading" => from <= hello'[c])
  BY <1>8, <1>9, <1>11 DEF SubscribedFrom
<1>13. call'[c] = "reading" => heard'[c] = <<>> /\ Pipe(c)' # <<>> /\ Head(Pipe(c)').kind = "ok"
  <2>1. SUFFICES ASSUME call[c] = "reading"
                 PROVE  h = <<>> /\ o # <<>> /\ Head(o).kind = "ok"
    BY <1>4, <1>5 DEF h
  <2>2. h = <<>> /\ Head(o \o x).kind = "ok"
    BY <1>4, <2>1 DEF Subscribed, h
  <2>3. Head(o \o x) = Head(o)
    BY <1>2, <1>7, <2>1, Taken
  <2> QED BY <1>7, <2>1, <2>2, <2>3
<1> QED BY <1>3, <1>12, <1>13 DEF Subscribed

\* What ends with the task.
LEMMA EndsAt ==
  ASSUME ConnTypes, NEW c \in Conns, Ends(c)
  PROVE  conn'[c] = "closed" /\ inbox'[c] = <<>> /\ conn'[c] \in Closed
BY TypesAt DEF Ends, Goes, Closed

\* A subscriber's task writes its line, and one that was refused ends.
LEMMA WriteFollows ==
  ASSUME StreamTypes, ConnTypes, NEW c \in Follows, FollowerAt(c), Write(c)
  PROVE  FollowerAt(c)'
<1> DEFINE line == say[c].line
<1>1. c \in Conns
  BY DEF Conns
<1>2. /\ outbox \in [Conns -> Outboxes] /\ outbox[c] \in Seq(Answers) /\ conn \in [Conns -> Places]
      /\ line \in Answers /\ conn[c] = "write" /\ call[c] # "gone"
  BY <1>1, TypesAt DEF Write, Outboxes
<1>3. /\ UNCHANGED <<call, request, hello, heard, events, sent>>
      /\ outbox'[c] = Append(outbox[c], line)
  BY <1>1, <1>2 DEF Write, clientEnd, streamVars
<1>4. Pipe(c) = outbox[c] \o <<line>>
  BY <1>2 DEF Pipe
<1>5. Append(outbox[c], line) \o <<>> = outbox[c] \o <<line>>
  BY <1>2, Written
<1>6. conn'[c] # "write" => Pipe(c)' = Pipe(c) /\ Trail(c)' = Trail(c)
  <2>1. SUFFICES ASSUME conn'[c] # "write" PROVE Pipe(c)' = Pipe(c)
    BY <1>3 DEF Trail
  <2>2. Pipe(c)' = outbox'[c] \o <<>>
    BY <2>1 DEF Pipe
  <2> QED BY <1>3, <1>4, <1>5, <2>2
<1>7. CASE Unsubscribed(c)
  <2>1. say[c].next = "close"
    BY <1>2, <1>7 DEF Unsubscribed
  <2>2. conn'[c] = "closed" /\ inbox'[c] = <<>> /\ conn'[c] \in Closed
    BY <1>1, <2>1, EndsAt DEF Write
  <2>3. Unsubscribed(c)'
    BY <1>2, <1>3, <1>6, <1>7, <2>2 DEF Unsubscribed
  <2> QED BY <2>3 DEF FollowerAt
<1>8. CASE Subscribed(c)
  <2>1. say[c].next = "stream"
    BY <1>2, <1>8 DEF Subscribed
  <2>2. conn'[c] = "stream" /\ UNCHANGED <<inbox, pos>>
    BY <1>1, <1>2, <2>1 DEF Write, Goes
  <2>3. Subscribed(c)'
    <3>1. Trail(c)' = Trail(c) /\ Pipe(c)' = Pipe(c) /\ conn[c] \notin Closed
      BY <1>2, <1>6, <2>2 DEF Closed
    <3>2. /\ inbox[c] = <<>> /\ call[c] \in {"reading", "following", "gone"}
          /\ call[c] = "reading" => heard[c] = <<>> /\ Pipe(c) # <<>> /\ Head(Pipe(c)).kind = "ok"
      BY <1>8 DEF Subscribed
    <3> QED BY <1>3, <1>8, <2>2, <3>1, <3>2, SubscribedKept
  <2> QED BY <2>3 DEF FollowerAt
<1> QED BY <1>7, <1>8 DEF FollowerAt

\* Nobody reads what the task writes any more.
LEMMA WriteFailsFollows ==
  ASSUME StreamTypes, ConnTypes, NEW c \in Follows, FollowerAt(c), WriteFails(c)
  PROVE  FollowerAt(c)'
<1>1. c \in Conns
  BY DEF Conns
<1>2. /\ UNCHANGED <<call, request, hello, heard, outbox, events, sent>>
      /\ call[c] = "gone" /\ conn[c] = "write"
      /\ conn'[c] = "closed" /\ inbox'[c] = <<>> /\ conn'[c] \in Closed
  BY <1>1, EndsAt DEF WriteFails, clientEnd, streamVars
<1>3. conn[c] \notin Closed
  BY <1>2 DEF Closed
<1>4. Subscribed(c)
  BY <1>2, <1>3 DEF FollowerAt, Unsubscribed
<1>5. Subscribed(c)'
  BY <1>2, <1>4, SubscribedCut
<1> QED BY <1>5 DEF FollowerAt

\* The daemon's end is not closed and not subscribed: the socket is empty.
LEMMA BeforeTheStream ==
  ASSUME StreamTypes, ConnTypes, NEW c \in Follows, FollowerAt(c), conn[c] \in {"backlog", "admit", "read"}
  PROVE  /\ Unsubscribed(c) /\ c \in Conns /\ outbox[c] = <<>> /\ heard[c] = <<>>
         /\ call[c] \in {"idle", "open", "reading"} /\ inbox[c] \in {<<>>, <<"subscribe">>}
         /\ inbox[c] # <<>> => call[c] = "reading"
<1>1. c \in Conns
  BY DEF Conns
<1>2. Unsubscribed(c)
  BY DEF FollowerAt, Subscribed, Closed
<1>3. call[c] \in Calls
  BY <1>1, TypesAt
<1> QED BY <1>1, <1>2, <1>3 DEF Unsubscribed, Closed, Calls

\* A subscriber that is served, or refused, and has not been answered.
LEMMA StaysUnsubscribed ==
  ASSUME NEW c, outbox'[c] = <<>>, heard'[c] = <<>>, conn'[c] \notin {"write", "stream"},
         inbox'[c] \in {<<>>, <<"subscribe">>},
         call'[c] \in {"idle", "open", "reading", "gone"},
         call'[c] \in {"idle", "open"} => inbox'[c] = <<>>,
         call'[c] = "open" => request'[c] = "subscribe",
         call'[c] = "gone" => conn'[c] \in Closed
  PROVE  Unsubscribed(c)'
<1>1. Pipe(c)' = <<>> \o <<>>
  BY DEF Pipe
<1>2. <<>> \o <<>> = <<>> /\ Len(<<>>) = 0
  OBVIOUS
<1>3. \A i \in 1..Len(Pipe(c)') : Pipe(c)'[i].kind = "refused"
  BY <1>1, <1>2
<1> QED BY <1>3 DEF Unsubscribed

\* Being accepted, or refused, is heard of nothing.
LEMMA AcceptFollows ==
  ASSUME StreamTypes, ConnTypes, NEW c \in Follows, FollowerAt(c), Accept(c)
  PROVE  FollowerAt(c)'
<1>1. /\ Unsubscribed(c) /\ c \in Conns /\ outbox[c] = <<>> /\ heard[c] = <<>>
      /\ call[c] \in {"idle", "open", "reading"} /\ inbox[c] \in {<<>>, <<"subscribe">>}
      /\ inbox[c] # <<>> => call[c] = "reading"
  BY BeforeTheStream DEF Accept
<1>2. /\ UNCHANGED <<call, request, heard, outbox>> /\ conn'[c] \in {"admit", "closed"}
      /\ inbox'[c] = inbox[c] \/ inbox'[c] = <<>>
  BY <1>1, TypesAt DEF Accept, Goes, clientEnd
<1>3. Unsubscribed(c)'
  BY <1>1, <1>2, StaysUnsubscribed DEF Unsubscribed
<1> QED BY <1>3 DEF FollowerAt

\* Another user's is told so, and heard of nothing.
LEMMA AdmitFollows ==
  ASSUME StreamTypes, ConnTypes, NEW c \in Follows, FollowerAt(c), Admit(c)
  PROVE  FollowerAt(c)'
<1>1. /\ Unsubscribed(c) /\ c \in Conns /\ outbox[c] = <<>> /\ heard[c] = <<>>
      /\ call[c] \in {"idle", "open", "reading"} /\ inbox[c] \in {<<>>, <<"subscribe">>}
      /\ inbox[c] # <<>> => call[c] = "reading"
  BY BeforeTheStream DEF Admit
<1>2. UNCHANGED <<call, request, heard, outbox, inbox>> /\ conn \in [Conns -> Places]
      /\ say \in [Conns -> Writing]
  BY <1>1, TypesAt DEF Admit, clientEnd
<1>3. CASE c \in Foreign
  <2>1. conn'[c] = "write" /\ say'[c] = [line |-> Answer("refused", 0), next |-> "close"]
    BY <1>1, <1>2, <1>3 DEF Admit, Says, Goes
  <2>2. Pipe(c)' = <<>> \o <<Answer("refused", 0)>>
    <3>1. say'[c].line = Answer("refused", 0)
      BY <2>1
    <3> QED BY <1>1, <1>2, <2>1, <3>1 DEF Pipe
  <2>3. \A i \in 1..Len(Pipe(c)') : Pipe(c)'[i].kind = "refused"
    BY <2>2, AnswerFacts DEF Answer
  <2>4. Unsubscribed(c)'
    BY <1>1, <1>2, <2>1, <2>3 DEF Unsubscribed
  <2> QED BY <2>4 DEF FollowerAt
<1>4. CASE c \notin Foreign
  <2>1. conn'[c] = "read"
    BY <1>1, <1>2, <1>4 DEF Admit, Goes
  <2>2. Unsubscribed(c)'
    BY <1>1, <1>2, <2>1, StaysUnsubscribed DEF Unsubscribed
  <2> QED BY <2>2 DEF FollowerAt
<1> QED BY <1>3, <1>4

\* All that a subscriber writes is its subscription.
LEMMA ReadsFollow ==
  ASSUME StreamTypes, ConnTypes, NEW c \in Follows, FollowerAt(c)
  PROVE  ~ReadNothing(c) /\ ~ReadUnusable(c) /\ ~ReadRequest(c)
<1>1. SUFFICES ASSUME Read(c)
               PROVE  Head(inbox[c]) = "subscribe"
  BY DEF ReadNothing, ReadUnusable, ReadRequest
<1>2. inbox[c] \in {<<>>, <<"subscribe">>}
  BY <1>1, BeforeTheStream DEF Read
<1> QED BY <1>1, <1>2 DEF Read

\* The trail begins at the position of the receiver.
LEMMA ReadSubscribeFollows ==
  ASSUME StreamTypes, ConnTypes, NEW c \in Follows, FollowerAt(c), ReadSubscribe(c)
  PROVE  FollowerAt(c)'
<1>1. /\ Unsubscribed(c) /\ c \in Conns /\ outbox[c] = <<>> /\ heard[c] = <<>>
      /\ inbox[c] = <<"subscribe">> /\ call[c] = "reading"
  BY BeforeTheStream DEF ReadSubscribe, Read
<1>2. /\ UNCHANGED <<call, request, heard, outbox, events, sent>> /\ conn \in [Conns -> Places]
      /\ say \in [Conns -> Writing] /\ pos \in [Conns -> Nat] /\ inbox \in [Conns -> Inboxes]
  BY <1>1, TypesAt DEF ReadSubscribe, clientEnd, streamVars
<1>3. /\ conn'[c] = "write" /\ say'[c] = [line |-> Answer("ok", 0), next |-> "stream"]
      /\ pos'[c] = sent /\ inbox'[c] = Tail(<<"subscribe">>)
  BY <1>1, <1>2 DEF ReadSubscribe, Read, Says, Goes
<1>4. inbox'[c] = <<>>
  BY <1>3
<1>5. Pipe(c)' = <<Answer("ok", 0)>>
  <2>1. say'[c].line = Answer("ok", 0)
    BY <1>3
  <2>2. Pipe(c)' = <<>> \o <<Answer("ok", 0)>>
    BY <1>1, <1>2, <1>3, <2>1 DEF Pipe
  <2> QED BY <2>2
<1>6. Pipe(c)' # <<>> /\ Head(Pipe(c)').kind = "ok" /\ Tail(Pipe(c)') = <<>>
  BY <1>5, AnswerFacts DEF Answer
<1>7. Trail(c)' = <<>>
  <2>1. Trail(c)' = <<>> \o <<>>
    BY <1>1, <1>2, <1>6 DEF Trail
  <2> QED BY <2>1
<1>8. sent \in Nat /\ sent \in 0..sent
  BY DEF StreamTypes
<1>9. /\ Sound(events', c \notin NoLogs, Trail(c)', sent, sent')
      /\ pos'[c] \in sent..sent' /\ Accounts(events', c \notin NoLogs, Trail(c)', sent, pos'[c])
  <2> DEFINE logs == c \notin NoLogs
             m == sent
  <2>1. m \in Nat /\ m \in m..m
    BY <1>8
  <2> HIDE DEF logs, m
  <2>2. Sound(events, logs, <<>>, m, m) /\ Accounts(events, logs, <<>>, m, m)
    BY <2>1, SoundStart
  <2> QED BY <1>2, <1>3, <1>7, <2>1, <2>2 DEF logs, m
<1>10. Subscribed(c)'
  BY <1>1, <1>2, <1>3, <1>4, <1>6, <1>8, <1>9 DEF Subscribed, Closed
<1> QED BY <1>10 DEF FollowerAt

\* A connection that is ended before it subscribed gets nothing.
LEMMA ReadEndsFollow ==
  ASSUME StreamTypes, ConnTypes, NEW c \in Follows, FollowerAt(c), ReadClosed(c) \/ ReadIdle(c)
  PROVE  FollowerAt(c)'
<1>1. /\ Unsubscribed(c) /\ c \in Conns /\ outbox[c] = <<>> /\ heard[c] = <<>>
      /\ call[c] \in {"idle", "open", "reading"}
  BY BeforeTheStream DEF ReadClosed, ReadIdle
<1>2. /\ UNCHANGED <<call, request, heard, outbox>>
      /\ conn'[c] = "closed" /\ inbox'[c] = <<>> /\ conn'[c] \in Closed
  BY <1>1, EndsAt DEF ReadClosed, ReadIdle, clientEnd
<1>3. Unsubscribed(c)'
  BY <1>1, <1>2, StaysUnsubscribed DEF Unsubscribed
<1> QED BY <1>3 DEF FollowerAt

\* One turn of the loop: the next event is sent, passed over or told to be missed.
LEMMA ReceiveFollows ==
  ASSUME StreamTypes, ConnTypes, NEW c \in Follows, FollowerAt(c), Receive(c)
  PROVE  FollowerAt(c)'
<1>1. c \in Conns
  BY DEF Conns
<1>2. Subscribed(c) /\ conn[c] = "stream" /\ conn[c] \notin Closed /\ pos[c] < sent
  BY DEF FollowerAt, Unsubscribed, Receive, Behind, Closed
<1>3. /\ UNCHANGED <<call, request, heard, hello, outbox, inbox, events, sent>>
      /\ pos \in [Conns -> Nat] /\ pos[c] \in Nat
      /\ conn \in [Conns -> Places] /\ say \in [Conns -> Writing] /\ sent \in Nat
      /\ outbox[c] \in Seq(Answers) /\ heard[c] \in Seq(Answers) /\ Trail(c) \in Seq(Answers)
  BY <1>1, TypesAt, TrailTypes DEF Receive, clientEnd, streamVars, StreamTypes
<1>4. Pipe(c) = outbox[c]
  <2>1. Pipe(c) = outbox[c] \o <<>>
    BY <1>2 DEF Pipe
  <2> QED BY <1>3, <2>1
<1>5. PICK from : SubscribedFrom(c, from)
  BY <1>2 DEF Subscribed, SubscribedFrom
<1> DEFINE e == events
           q == Trail(c)
           at == pos[c]
           logs == c \notin NoLogs
<1>6. /\ from \in Nat /\ from <= at /\ at \in Nat /\ at + 1 <= sent /\ q \in Seq(Answers)
      /\ Sound(e, logs, q, from, sent) /\ Accounts(e, logs, q, from, at)
  BY <1>2, <1>3, <1>5 DEF SubscribedFrom
<1>7. ASSUME NEW a \in Answers, NEW b \in Nat, from <= b, b <= sent,
             Sound(e, logs, Append(q, a), from, sent), Accounts(e, logs, Append(q, a), from, b),
             pos'[c] = b, Says(c, a, "stream")
      PROVE  FollowerAt(c)'
  <2>1. conn'[c] = "write" /\ say'[c] = [line |-> a, next |-> "stream"]
    BY <1>1, <1>3, <1>7 DEF Says, Goes
  <2>2. Pipe(c)' = Pipe(c) \o <<a>>
    <3>1. say'[c].line = a
      BY <2>1
    <3> QED BY <1>3, <1>4, <2>1, <3>1 DEF Pipe
  <2>3. Pipe(c) \in Seq(Answers)
    BY <1>3, <1>4
  <2>4. call[c] = "reading" => heard[c] = <<>> /\ Pipe(c) # <<>> /\ Head(Pipe(c)).kind = "ok"
    BY <1>2 DEF Subscribed
  <2>5. call[c] = "reading" => Pipe(c)' # <<>> /\ Head(Pipe(c)').kind = "ok"
    <3>1. SUFFICES ASSUME call[c] = "reading"
                   PROVE  Pipe(c)' # <<>> /\ Head(Pipe(c)').kind = "ok"
      OBVIOUS
    <3>2. <<a>> \in Seq(Answers)
      BY <1>7
    <3>3. Pipe(c) \o <<a>> # <<>> /\ Head(Pipe(c) \o <<a>>) = Head(Pipe(c))
      BY <2>3, <2>4, <3>1, <3>2, Taken
    <3> QED BY <2>2, <2>4, <3>1, <3>3
  <2>6. Trail(c)' = Append(q, a)
    <3> DEFINE p == Pipe(c)
               h == heard[c]
    <3>1. Trail(c)' = h \o (IF call[c] = "reading" THEN Tail(p \o <<a>>) ELSE p \o <<a>>)
          /\ q = h \o (IF call[c] = "reading" THEN Tail(p) ELSE p)
      BY <1>3, <2>2 DEF Trail
    <3>2. p \in Seq(Answers) /\ h \in Seq(Answers) /\ (call[c] = "reading" => p # <<>>)
      BY <1>3, <2>3, <2>4
    <3> HIDE DEF p, h, q
    <3>3. CASE call[c] = "reading"
      <4>1. Tail(p) \in Seq(Answers) /\ Tail(p \o <<a>>) = Tail(p) \o <<a>>
        BY <1>7, <3>2, <3>3, Added
      <4> DEFINE t == Tail(p)
      <4>2. t \in Seq(Answers) /\ Trail(c)' = h \o (t \o <<a>>) /\ q = h \o t
        BY <3>1, <3>3, <4>1
      <4> HIDE DEF t
      <4> QED BY <1>7, <3>2, <4>2, Added
    <3>4. CASE call[c] # "reading"
      BY <1>7, <3>1, <3>2, <3>4, Added
    <3> QED BY <3>3, <3>4
  <2>7. /\ inbox[c] = <<>> /\ call[c] \in {"reading", "following", "gone"}
    BY <1>2 DEF Subscribed
  <2>8. from \in 0..sent /\ (call[c] # "reading" => from <= hello[c])
    BY <1>5 DEF SubscribedFrom
  <2>9. /\ Sound(events', c \notin NoLogs, Trail(c)', from, sent')
        /\ pos'[c] \in from..sent' /\ Accounts(events', c \notin NoLogs, Trail(c)', from, pos'[c])
    BY <1>3, <1>6, <1>7, <2>6
  <2>10. Subscribed(c)'
    BY <1>3, <2>1, <2>4, <2>5, <2>7, <2>8, <2>9 DEF Subscribed
  <2> QED BY <2>10 DEF FollowerAt
<1>8. CASE Lagging(pos[c])
  <2> DEFINE m == Oldest - at
  <2>1. m \in Nat /\ at + m = Oldest /\ Oldest \in Nat /\ at + m <= sent /\ from <= Oldest
    BY <1>3, <1>6, <1>8, StreamAssumption DEF Lagging, Oldest
  <2>2. pos'[c] = Oldest /\ Says(c, Answer("lagged", m), "stream")
    BY <1>1, <1>3, <1>8 DEF Receive
  <2> HIDE DEF e, q, at, logs, m
  <2>3. Answer("lagged", m) \in Answers
    BY <2>1, AnswerFacts DEF Words
  <2>4. /\ Sound(e, logs, Append(q, Answer("lagged", m)), from, sent)
        /\ Accounts(e, logs, Append(q, Answer("lagged", m)), from, at + m)
    BY <1>3, <1>6, <2>1, SoundLagged
  <2> QED BY <1>7, <2>1, <2>2, <2>3, <2>4
<1>9. CASE ~Lagging(pos[c]) /\ Wants(c \notin NoLogs, pos[c] + 1)
  <2> DEFINE i == at + 1
  <2>1. pos'[c] = i /\ Says(c, Answer("event", i), "stream")
    BY <1>1, <1>3, <1>9 DEF Receive
  <2>2. i \in Nat /\ from <= i /\ i <= sent /\ i = at + 1
    BY <1>6
  <2> HIDE DEF e, q, at, logs, i
  <2>3. Answer("event", i) \in Answers
    BY <2>2, AnswerFacts DEF Words
  <2>4. /\ Sound(e, logs, Append(q, Answer("event", i)), from, sent)
        /\ Accounts(e, logs, Append(q, Answer("event", i)), from, i)
    BY <1>3, <1>6, <2>2, SoundEvent
  <2> QED BY <1>7, <2>1, <2>2, <2>3, <2>4
<1>10. CASE ~Lagging(pos[c]) /\ ~Wants(c \notin NoLogs, pos[c] + 1)
  <2>1. pos'[c] = at + 1 /\ UNCHANGED <<conn, say>>
    BY <1>1, <1>3, <1>10 DEF Receive
  <2>2. ~logs /\ e[at + 1] = "Log"
    BY <1>10 DEF Wants
  <2>3. Accounts(e, logs, q, from, at + 1)
    <3> HIDE DEF e, q, at, logs
    <3> QED BY <1>6, <2>2, SoundSkips
  <2>4. Pipe(c)' = Pipe(c) /\ Trail(c)' = Trail(c)
    BY <1>3, <2>1 DEF Pipe, Trail
  <2>5. /\ inbox[c] = <<>> /\ call[c] \in {"reading", "following", "gone"}
        /\ call[c] = "reading" => heard[c] = <<>> /\ Pipe(c) # <<>> /\ Head(Pipe(c)).kind = "ok"
    BY <1>2 DEF Subscribed
  <2>6. from \in 0..sent /\ (call[c] # "reading" => from <= hello[c])
    BY <1>5 DEF SubscribedFrom
  <2>7. /\ Sound(events', c \notin NoLogs, Trail(c)', from, sent')
        /\ pos'[c] \in from..sent' /\ Accounts(events', c \notin NoLogs, Trail(c)', from, pos'[c])
    BY <1>3, <1>6, <2>1, <2>3, <2>4
  <2>8. Subscribed(c)'
    BY <1>2, <1>3, <2>1, <2>4, <2>5, <2>6, <2>7 DEF Subscribed
  <2> QED BY <2>8 DEF FollowerAt
<1> QED BY <1>8, <1>9, <1>10

\* The line that a subscriber writes is its subscription.
LEMMA PutFollows ==
  ASSUME StreamTypes, ConnTypes, NEW c \in Follows, FollowerAt(c), Put(c)
  PROVE  FollowerAt(c)'
<1>1. c \in Conns
  BY DEF Conns
<1>2. Unsubscribed(c) /\ call[c] = "open" /\ inbox[c] = <<>> /\ request[c] = "subscribe"
  BY DEF Put, FollowerAt, Subscribed, Unsubscribed
<1>3. /\ UNCHANGED <<conn, say, outbox, heard>> /\ call'[c] = "reading"
      /\ inbox'[c] = <<>> \/ inbox'[c] = Append(<<>>, "subscribe")
  BY <1>1, <1>2, TypesAt DEF Put, daemonEnd
<1>4. Append(<<>>, "subscribe") = <<"subscribe">>
  OBVIOUS
<1>5. Pipe(c)' = Pipe(c)
  BY <1>3 DEF Pipe
<1>6. Unsubscribed(c)'
  BY <1>2, <1>3, <1>4, <1>5 DEF Unsubscribed
<1> QED BY <1>6 DEF FollowerAt

\* What was written before the end stays to be read.
LEMMA UnsubscribedCut ==
  ASSUME StreamTypes, ConnTypes, NEW c \in Follows, Unsubscribed(c), conn'[c] \in Closed,
         inbox'[c] = <<>>, outbox'[c] = outbox[c], heard'[c] = heard[c], call'[c] = call[c],
         request'[c] = request[c]
  PROVE  Unsubscribed(c)'
<1>1. outbox[c] \in Seq(Answers) /\ Pipe(c) \in Seq(Answers) /\ conn'[c] # "write"
  BY TrailTypes DEF Conns, Closed
<1>2. Pipe(c)' = outbox[c]
  <2>1. Pipe(c)' = outbox[c] \o <<>>
    BY <1>1 DEF Pipe
  <2> QED BY <1>1, <2>1
<1>3. outbox[c] = <<>> \/ Pipe(c) = outbox[c]
  <2>1. SUFFICES ASSUME outbox[c] # <<>> PROVE Pipe(c) = outbox[c]
    OBVIOUS
  <2>2. Pipe(c) = outbox[c] \o <<>>
    BY <2>1 DEF Unsubscribed, Pipe, Closed
  <2> QED BY <1>1, <2>2
<1>4. \A i \in 1..Len(Pipe(c)') : Pipe(c)'[i].kind = "refused"
  <2>1. CASE outbox[c] = <<>>
    BY <1>2, <2>1
  <2>2. CASE Pipe(c) = outbox[c]
    BY <1>2, <2>2 DEF Unsubscribed
  <2> QED BY <1>3, <2>1, <2>2
<1> QED BY <1>1, <1>4 DEF Unsubscribed, Closed

\* A subscription is answered with Ok, and a refusal with an error.
LEMMA HearFollows ==
  ASSUME StreamTypes, ConnTypes, NEW c \in Follows, FollowerAt(c), Hear(c)
  PROVE  FollowerAt(c)'
<1> DEFINE o == outbox[c]
           x == IF conn[c] = "write" THEN <<say[c].line>> ELSE <<>>
<1>1. c \in Conns
  BY DEF Conns
<1>2. o \in Seq(Answers) /\ x \in Seq(Answers) /\ Len(o) \in Nat /\ Pipe(c) \in Seq(Answers)
      /\ heard[c] \in Seq(Answers)
  <2>1. conn[c] = "write" => <<say[c].line>> \in Seq(Answers)
    BY <1>1, TypesAt
  <2> QED BY <1>1, <2>1, TrailTypes
<1>3. /\ UNCHANGED <<conn, say, pos, inbox, heard, request, events, sent>>
      /\ call[c] = "reading" /\ o # <<>> /\ outbox'[c] = Tail(o)
      /\ call \in [Conns -> Calls] /\ hello \in [Conns -> Nat]
  BY <1>1, TypesAt DEF Hear, Takes, daemonEnd, streamVars
<1>4. Pipe(c) = o \o x /\ Pipe(c)' = Tail(o) \o x
  BY <1>3 DEF Pipe
<1>5. Pipe(c) # <<>> /\ Head(Pipe(c)) = Head(o) /\ Tail(Pipe(c)) = Pipe(c)'
  <2> HIDE DEF o, x
  <2> QED BY <1>2, <1>3, <1>4, Taken
<1>6. CASE Unsubscribed(c)
  <2>1. Head(o).kind = "refused"
    <3>1. Len(Pipe(c)) >= 1 /\ Head(Pipe(c)) = Pipe(c)[1]
      BY <1>2, <1>5
    <3> QED BY <1>2, <1>5, <1>6, <3>1 DEF Unsubscribed
  <2>2. call'[c] = "gone" /\ conn[c] \in Closed
    BY <1>1, <1>3, <1>6, <2>1 DEF Hear, Returns, Unsubscribed
  <2>3. \A i \in 1..Len(Pipe(c)') : Pipe(c)'[i].kind = "refused"
    <3>1. Len(Pipe(c)') = Len(Pipe(c)) - 1
          /\ \A i \in 1..(Len(Pipe(c)) - 1) : Pipe(c)'[i] = Pipe(c)[i + 1]
      BY <1>2, <1>5
    <3>2. Len(Pipe(c)) \in Nat
      BY <1>2
    <3> QED BY <1>6, <3>1, <3>2 DEF Unsubscribed
  <2>4. Unsubscribed(c)'
    BY <1>3, <1>6, <2>2, <2>3 DEF Unsubscribed, Closed
  <2> QED BY <2>4 DEF FollowerAt
<1>7. CASE Subscribed(c)
  <2>1. Head(o).kind = "ok" /\ heard[c] = <<>> /\ inbox[c] = <<>>
        /\ conn[c] \in Closed \cup {"write", "stream"} /\ (conn[c] = "write" => say[c].next = "stream")
    BY <1>3, <1>5, <1>7 DEF Subscribed
  <2>2. call'[c] = "following" /\ hello'[c] = applied
    BY <1>1, <1>3, <2>1 DEF Hear
  <2>3. Trail(c)' = Trail(c)
    BY <1>3, <1>5, <2>2 DEF Trail
  <2>4. hello'[c] \in Nat /\ sent <= hello'[c]
    BY <2>2 DEF StreamTypes
  <2>5. Subscribed(c)'
    BY <1>3, <1>7, <2>1, <2>2, <2>3, <2>4, SubscribedKept
  <2> QED BY <2>5 DEF FollowerAt
<1> QED BY <1>6, <1>7 DEF FollowerAt

\* A subscription that was greeted is not left without an answer.
LEMMA HearNothingFollows ==
  ASSUME StreamTypes, ConnTypes, NEW c \in Follows, FollowerAt(c), HearNothing(c)
  PROVE  FollowerAt(c)'
<1>1. c \in Conns
  BY DEF Conns
<1>2. /\ UNCHANGED <<conn, say, inbox, outbox, heard, request>>
      /\ call[c] = "reading" /\ outbox[c] = <<>> /\ conn[c] \in Closed /\ call'[c] = "gone"
  BY <1>1, TypesAt, ConnectionAssumption DEF HearNothing, Returns, daemonEnd
<1>3. Pipe(c) = <<>> /\ Pipe(c)' = Pipe(c)
  <2>1. Pipe(c) = <<>> \o <<>> /\ Pipe(c)' = Pipe(c)
    BY <1>2 DEF Pipe, Closed
  <2> QED BY <2>1
<1>4. Unsubscribed(c)
  BY <1>2, <1>3 DEF FollowerAt, Subscribed
<1>5. Unsubscribed(c)'
  BY <1>2, <1>3, <1>4 DEF Unsubscribed
<1> QED BY <1>5 DEF FollowerAt

\* Reading on moves one item along the trail.
LEMMA FollowFollows ==
  ASSUME StreamTypes, ConnTypes, NEW c \in Follows, FollowerAt(c), Follow(c)
  PROVE  FollowerAt(c)'
<1> DEFINE o == outbox[c]
           x == IF conn[c] = "write" THEN <<say[c].line>> ELSE <<>>
           h == heard[c]
<1>1. c \in Conns
  BY DEF Conns
<1>2. o \in Seq(Answers) /\ x \in Seq(Answers) /\ h \in Seq(Answers)
  <2>1. conn[c] = "write" => <<say[c].line>> \in Seq(Answers)
    BY <1>1, TypesAt
  <2> QED BY <1>1, <2>1, TrailTypes
<1>3. /\ UNCHANGED <<conn, say, pos, inbox, request, hello, events, sent>>
      /\ call[c] = "following" /\ call \in [Conns -> Calls]
      /\ outbox \in [Conns -> Outboxes] /\ heard \in [Conns -> Outboxes]
  BY <1>1, TypesAt DEF Follow, daemonEnd, streamVars
<1>4. Subscribed(c)
  BY <1>3 DEF FollowerAt, Unsubscribed
<1>5. inbox[c] = <<>> /\ conn[c] \in Closed \cup {"write", "stream"}
      /\ (conn[c] = "write" => say[c].next = "stream")
  BY <1>4 DEF Subscribed
<1>6. Trail(c)' = Trail(c) /\ call'[c] \in {"following", "gone"}
  <2>1. Trail(c) = h \o (o \o x)
    BY <1>3 DEF Trail, Pipe
  <2>2. CASE call'[c] = "following" /\ o # <<>> /\ outbox'[c] = Tail(o) /\ heard'[c] = Append(h, Head(o))
    <3>1. Trail(c)' = Append(h, Head(o)) \o (Tail(o) \o x)
      BY <1>3, <2>2 DEF Trail, Pipe
    <3> HIDE DEF o, x, h
    <3>2. Append(h, Head(o)) \o (Tail(o) \o x) = h \o (o \o x)
      <4>1. o # <<>>
        BY <2>2
      <4>2. \A g \in Seq(Answers) : Append(g, Head(o)) \o (Tail(o) \o x) = g \o (o \o x)
        BY <1>2, <4>1, Taken
      <4> QED BY <1>2, <4>2
    <3> QED BY <2>1, <2>2, <3>1, <3>2
  <2>3. CASE call'[c] = "gone" /\ outbox'[c] = o /\ heard'[c] = h
    BY <1>3, <2>1, <2>3 DEF Trail, Pipe
  <2> QED BY <1>1, <1>3, <2>2, <2>3 DEF Follow, Takes, Returns
<1>7. Subscribed(c)'
  BY <1>3, <1>4, <1>5, <1>6, SubscribedKept
<1> QED BY <1>7 DEF FollowerAt

\* A subscriber that hangs up keeps what it heard.
LEMMA HangUpFollows ==
  ASSUME StreamTypes, ConnTypes, NEW c \in Follows, FollowerAt(c), HangUp(c)
  PROVE  FollowerAt(c)'
<1>1. c \in Conns
  BY DEF Conns
<1>2. /\ UNCHANGED <<conn, say, pos, inbox, outbox, request, hello, heard, events, sent>>
      /\ call[c] = "following" /\ call'[c] = "gone"
  BY <1>1, TypesAt, ConnectionAssumption DEF HangUp, Returns, daemonEnd, streamVars
<1>3. Subscribed(c) /\ inbox[c] = <<>> /\ conn[c] \in Closed \cup {"write", "stream"}
      /\ (conn[c] = "write" => say[c].next = "stream")
  BY <1>2 DEF FollowerAt, Unsubscribed, Subscribed
<1>4. Trail(c)' = Trail(c)
  BY <1>2 DEF Trail, Pipe
<1>5. Subscribed(c)'
  BY <1>2, <1>3, <1>4, SubscribedKept
<1> QED BY <1>5 DEF FollowerAt

\* Every step of a subscriber's connection.
LEMMA ConnStepFollows ==
  ASSUME StreamTypes, ConnTypes, NEW c \in Follows, FollowerAt(c), ConnStep(c)
  PROVE  FollowerAt(c)'
<1>1. CASE Accept(c) \/ HangUp(c)
  BY <1>1, AcceptFollows, HangUpFollows
<1>2. CASE TaskStep(c)
  BY <1>2, AdmitFollows, ReadsFollow, ReadSubscribeFollows, ReadEndsFollow, WriteFollows,
     WriteFailsFollows, ReceiveFollows DEF TaskStep
<1>3. CASE CallStep(c)
  BY <1>3, PutFollows, HearFollows, HearNothingFollows, FollowFollows DEF CallStep
<1>4. c \notin Programs
  BY ConnectionAssumption
<1> QED BY <1>1, <1>2, <1>3, <1>4 DEF ConnStep, ProgramReads, ProgramWrites

\* A subscription that is asked for.
LEMMA ConnectFollows ==
  ASSUME StreamTypes, ConnTypes, NEW c \in Follows, FollowerAt(c), Connect(c, "subscribe"), call[c] = "idle"
  PROVE  FollowerAt(c)'
<1>1. c \in Conns
  BY DEF Conns
<1>2. Unsubscribed(c) /\ heard[c] = <<>> /\ inbox[c] = <<>>
  BY DEF FollowerAt, Subscribed, Unsubscribed
<1>3. /\ UNCHANGED <<inbox, heard>> /\ outbox'[c] = <<>> /\ request'[c] = "subscribe"
      /\ \/ call'[c] = "open" /\ conn'[c] = "backlog"
         \/ call'[c] = "gone" /\ conn'[c] \in Closed
  BY <1>1, TypesAt DEF Connect, Free, Goes, Returns
<1>4. Unsubscribed(c)'
  BY <1>2, <1>3, StaysUnsubscribed DEF Closed
<1> QED BY <1>4 DEF FollowerAt

\* The daemon ends a connection that it has not begun to serve.
LEMMA StopAcceptingFollows ==
  ASSUME StreamTypes, StreamTypes', ConnTypes, NEW c \in Follows, FollowerAt(c), StopAccepting
  PROVE  FollowerAt(c)'
<1>1. c \in Conns
  BY DEF Conns
<1>2. /\ UNCHANGED <<say, pos, call, request, outcome, hello, heard, outbox, events, sent>>
      /\ conn'[c] = (IF conn[c] = "backlog" THEN "closed" ELSE conn[c])
      /\ inbox'[c] = (IF conn[c] = "backlog" THEN <<>> ELSE inbox[c])
  BY <1>1 DEF StopAccepting, clientEnd, streamVars
<1>3. CASE conn[c] = "backlog"
  <2>1. Unsubscribed(c)
    BY <1>3, BeforeTheStream
  <2>2. Unsubscribed(c)'
    BY <1>2, <1>3, <2>1, UnsubscribedCut DEF Closed
  <2> QED BY <2>2 DEF FollowerAt
<1>4. CASE conn[c] # "backlog"
  <2>1. Same(c)
    BY <1>2, <1>4 DEF Same
  <2>2. StreamGrows
    BY <1>2 DEF StreamTypes, StreamGrows
  <2> QED BY <2>1, <2>2, FollowerKept
<1> QED BY <1>3, <1>4

\* The runtime is dropped: what was written stays in the sockets.
LEMMA ExitFollows ==
  ASSUME StreamTypes, ConnTypes, NEW c \in Follows, FollowerAt(c), Exit
  PROVE  FollowerAt(c)'
<1>1. c \in Conns
  BY DEF Conns
<1>2. /\ UNCHANGED <<call, request, outcome, hello, heard, outbox, events, sent>>
      /\ conn'[c] \in Closed /\ inbox'[c] = <<>>
  BY <1>1 DEF Exit, clientEnd, streamVars, Closed
<1>3. CASE Unsubscribed(c)
  BY <1>2, <1>3, UnsubscribedCut DEF FollowerAt
<1>4. CASE Subscribed(c) /\ ~(call[c] = "reading" /\ outbox[c] = <<>>)
  BY <1>2, <1>4, SubscribedCut DEF FollowerAt
<1>5. CASE Subscribed(c) /\ call[c] = "reading" /\ outbox[c] = <<>>
  <2>1. heard[c] = <<>>
    BY <1>5 DEF Subscribed
  <2>2. Unsubscribed(c)'
    BY <1>2, <1>5, <2>1, StaysUnsubscribed DEF Closed
  <2> QED BY <2>2 DEF FollowerAt
<1> QED BY <1>3, <1>4, <1>5 DEF FollowerAt

-----------------------------------------------------------------------------
(* The steps that are not one connection's.                                 *)

\* connect() touches its own connection.
LEMMA ConnectMoves ==
  ASSUME ConnTypes, NEW c \in Conns, NEW line \in Lines, Connect(c, line)
  PROVE  Moves(c)
<1>1. UNCHANGED <<daemon, permits, say, pos, inbox, hello, heard, events, applied, sent>>
  BY DEF Connect, streamVars
<1>2. /\ permits \in Nat /\ daemon \in {"serving", "closing", "gone"}
      /\ conn \in [Conns -> Places] /\ conn[c] \in Places
      /\ call \in [Conns -> Calls] /\ call[c] \in Calls
      /\ outbox \in [Conns -> Outboxes] /\ outcome \in [Conns -> Results]
      /\ request \in [Conns -> Lines]
  BY TypesAt
<1>3. Turns(conn, conn', c, Places)
  BY <1>2, PlaceFacts DEF Connect, Goes, Turns
<1>4. Turns(call, call', c, Calls)
  BY <1>2, PlaceFacts DEF Connect, Returns, Turns
<1>5. Turns(outcome, outcome', c, Results)
  BY <1>2, AnswerFacts DEF Connect, Returns, Turns
<1>6. Turns(request, request', c, Lines)
  BY <1>2 DEF Connect, Turns
<1>7. Turns(outbox, outbox', c, Outboxes)
  BY <1>2, QueueFacts DEF Connect, Turns
<1>8. conn'[c] # "write"
  BY <1>2 DEF Connect, Free, Goes, Closed
<1>9. Turning(c)
  BY <1>1, <1>2, <1>3, <1>4, <1>5, <1>6, <1>7, <1>8 DEF Turning, Turns
<1> QED BY <1>1, <1>9, TurnsMove

\* The end of the accept loop and of the runtime keep the types.
LEMMA StopAcceptingTypes ==
  ASSUME ConnTypes, StopAccepting
  PROVE  ConnTypes'
<1>1. /\ UNCHANGED <<permits, say, pos, call, request, outcome, hello, heard, outbox>>
      /\ daemon' = "closing"
      /\ conn' = [c \in Conns |-> IF conn[c] = "backlog" THEN "closed" ELSE conn[c]]
      /\ inbox' = [c \in Conns |-> IF conn[c] = "backlog" THEN <<>> ELSE inbox[c]]
  BY DEF StopAccepting, clientEnd
<1>2. conn' \in [Conns -> Places] /\ \A c \in Conns : conn'[c] = "write" => conn[c] = "write"
  BY <1>1, PlaceFacts DEF ConnTypes
<1>3. inbox' \in [Conns -> Inboxes]
  BY <1>1, QueueFacts DEF ConnTypes
<1> QED BY <1>1, <1>2, <1>3 DEF ConnTypes

\* So does the end of the runtime.
LEMMA ExitTypes ==
  ASSUME ConnTypes, Exit
  PROVE  ConnTypes'
<1>1. /\ UNCHANGED <<permits, call, request, outcome, hello, heard, outbox>>
      /\ daemon' = "gone"
      /\ conn' = [c \in Conns |-> IF conn[c] \in Closed THEN conn[c] ELSE "closed"]
      /\ inbox' = [c \in Conns |-> <<>>] /\ say' = [c \in Conns |-> Idle] /\ pos' = [c \in Conns |-> 0]
  BY DEF Exit, clientEnd
<1>2. conn' \in [Conns -> Places] /\ \A c \in Conns : conn'[c] # "write"
  BY <1>1, PlaceFacts DEF ConnTypes, Closed
<1>3. inbox' \in [Conns -> Inboxes] /\ say' \in [Conns -> Writing] /\ pos' \in [Conns -> Nat]
  BY <1>1, QueueFacts, WritingFacts
<1> QED BY <1>1, <1>2, <1>3 DEF ConnTypes

\* The stream only grows, and the collector follows it.
LEMMA StreamStepTypes ==
  ASSUME StreamTypes,
         \/ \E kind \in Kinds : Announce(kind)
         \/ CollectApply
         \/ CollectSend
         \/ UNCHANGED <<events, applied, sent>>
  PROVE  /\ StreamTypes' /\ StreamGrows /\ applied <= applied'
         /\ \A i \in 1..applied : events'[i] = events[i]
<1>1. /\ events \in Seq(Kinds) /\ Len(events) \in Nat /\ applied \in Nat /\ sent \in Nat
      /\ sent <= applied /\ applied <= Len(events)
  BY DEF StreamTypes
<1>2. ASSUME NEW kind \in Kinds, Announce(kind)
      PROVE  /\ StreamTypes' /\ StreamGrows /\ applied <= applied'
             /\ \A i \in 1..applied : events'[i] = events[i]
  <2>1. events' = Append(events, kind) /\ UNCHANGED <<applied, sent>>
    BY <1>2 DEF Announce
  <2>2. /\ events' \in Seq(Kinds) /\ Len(events') = Len(events) + 1
        /\ \A i \in 1..Len(events) : events'[i] = events[i]
    BY <1>1, <2>1
  <2> QED BY <1>1, <2>1, <2>2 DEF StreamTypes, StreamGrows
<1>3. CASE CollectApply \/ CollectSend
  BY <1>1, <1>3 DEF CollectApply, CollectSend, StreamTypes, StreamGrows
<1>4. CASE UNCHANGED <<events, applied, sent>>
  BY <1>1, <1>4 DEF StreamTypes, StreamGrows
<1> QED BY <1>2, <1>3, <1>4

-----------------------------------------------------------------------------
(* Permits.                                                                 *)

\* A step that begins and ends no task leaves the permits alone.
LEMMA UsedKept ==
  ASSUME PermitsAt, permits' = permits, \A d \in Conns : conn'[d] \in Serving <=> conn[d] \in Serving
  PROVE  PermitsAt'
<1>1. Used' = Used
  BY DEF Used
<1> QED BY <1>1 DEF PermitsAt

\* A task that begins takes a permit.
LEMMA UsedMore ==
  ASSUME PermitsAt, permits \in Nat, NEW c \in Conns, permits' = permits - 1, conn[c] \notin Serving,
         \A d \in Conns : d # c => conn'[d] = conn[d]
  PROVE  PermitsAt'
<1>1. IsFiniteSet(Used) /\ Cardinality(Used) \in Nat /\ permits + Cardinality(Used) <= MaxConnections
  BY FS_CardinalityType DEF PermitsAt
<1>2. Used' \subseteq Used \cup {c}
  BY DEF Used
<1>3. IsFiniteSet(Used \cup {c}) /\ Cardinality(Used \cup {c}) <= Cardinality(Used) + 1
      /\ Cardinality(Used \cup {c}) \in Nat
  <2>1. IsFiniteSet(Used \cup {c})
        /\ Cardinality(Used \cup {c}) = IF c \in Used THEN Cardinality(Used) ELSE Cardinality(Used) + 1
    BY <1>1, FS_AddElement
  <2> QED BY <1>1, <2>1
<1>4. IsFiniteSet(Used') /\ Cardinality(Used') <= Cardinality(Used \cup {c}) /\ Cardinality(Used') \in Nat
  BY <1>2, <1>3, NotLarger
<1>5. MaxConnections \in Nat
  BY ConnectionAssumption
<1>6. permits' + Cardinality(Used') <= MaxConnections
  BY <1>1, <1>3, <1>4, <1>5
<1> QED BY <1>4, <1>6 DEF PermitsAt

\* A task that ends gives one back.
LEMMA UsedLess ==
  ASSUME PermitsAt, permits \in Nat, NEW c \in Conns, permits' = permits + 1,
         conn[c] \in Serving, conn'[c] \notin Serving,
         \A d \in Conns : d # c => conn'[d] = conn[d]
  PROVE  PermitsAt'
<1>1. IsFiniteSet(Used) /\ Cardinality(Used) \in Nat /\ permits + Cardinality(Used) <= MaxConnections
  BY FS_CardinalityType DEF PermitsAt
<1>2. Used' = Used \ {c} /\ c \in Used
  BY DEF Used
<1>3. IsFiniteSet(Used \ {c}) /\ Cardinality(Used \ {c}) = Cardinality(Used) - 1
      /\ Cardinality(Used \ {c}) \in Nat
  <2>1. IsFiniteSet(Used \ {c})
        /\ Cardinality(Used \ {c}) = IF c \in Used THEN Cardinality(Used) - 1 ELSE Cardinality(Used)
    BY <1>1, FS_RemoveElement
  <2>2. Cardinality(Used \ {c}) \in Nat
    BY <2>1, FS_CardinalityType
  <2> QED BY <1>2, <2>1, <2>2
<1>4. MaxConnections \in Nat
  BY ConnectionAssumption
<1>5. IsFiniteSet(Used') /\ Cardinality(Used') = Cardinality(Used) - 1
  BY <1>2, <1>3
<1>6. permits' + Cardinality(Used') <= MaxConnections
  BY <1>1, <1>4, <1>5
<1> QED BY <1>5, <1>6 DEF PermitsAt

\* A task's end gives the permit back that it has.
LEMMA EndsPermits ==
  ASSUME ConnTypes, PermitsAt, NEW c \in Conns, conn[c] \in Serving, Ends(c)
  PROVE  PermitsAt'
<1>1. conn' = [conn EXCEPT ![c] = "closed"] /\ permits' = permits + 1
      /\ conn \in [Conns -> Places] /\ permits \in Nat
  BY TypesAt DEF Ends, Goes
<1>2. conn'[c] = "closed" /\ \A d \in Conns : d # c => conn'[d] = conn[d]
  BY <1>1
<1> QED BY <1>1, <1>2, UsedLess DEF Serving

\* The permits of a step of one connection: only accept_loop() takes one, and only a task gives one back.
LEMMA ConnStepPermits ==
  ASSUME StreamTypes, ConnTypes, PermitsAt, NEW c \in Conns, ConnStep(c)
  PROVE  PermitsAt'
<1>1. conn \in [Conns -> Places] /\ permits \in Nat /\ conn[c] \in Places
      /\ say[c].next \in {"read", "stream", "close", "strike"}
  BY TypesAt, WritingFacts
<1>2. \A d \in Conns : d # c => conn'[d] = conn[d]
  BY ConnStepMoves DEF Moves, Same
<1>3. CASE Accept(c)
  <2>1. CASE permits > 0
    BY <1>1, <1>2, <1>3, <2>1, UsedMore DEF Accept, Goes, Serving
  <2>2. CASE ~(permits > 0)
    <3>1. permits' = permits /\ conn'[c] = "closed" /\ conn[c] = "backlog"
      BY <1>1, <1>3, <2>2 DEF Accept, Goes
    <3> QED BY <1>2, <3>1, UsedKept DEF Serving
  <2> QED BY <2>1, <2>2
<1>4. CASE permits' = permits /\ conn[c] \in Serving /\ conn'[c] \in Serving
  BY <1>2, <1>4, UsedKept
<1>5. CASE permits' = permits /\ conn'[c] = conn[c]
  BY <1>2, <1>5, UsedKept
<1>6. CASE conn[c] \in Serving /\ Ends(c)
  BY <1>6, EndsPermits
<1>7. CASE Admit(c)
  BY <1>1, <1>4, <1>7 DEF Admit, Says, Goes, Serving
<1>8. CASE ReadNothing(c) \/ ReadUnusable(c) \/ ReadRequest(c) \/ ReadSubscribe(c)
  <2>1. conn[c] = "read" /\ permits' = permits
    BY <1>8 DEF ReadNothing, ReadUnusable, ReadRequest, ReadSubscribe, Read
  <2>2. conn'[c] \in {"read", "write"}
    BY <1>1, <1>8, <2>1 DEF ReadNothing, ReadUnusable, ReadRequest, ReadSubscribe, Read, Says, Goes
  <2> QED BY <1>4, <2>1, <2>2 DEF Serving
<1>9. CASE ReadClosed(c) \/ ReadIdle(c) \/ WriteFails(c)
  BY <1>6, <1>9 DEF ReadClosed, ReadIdle, WriteFails, Serving
<1>10. CASE Write(c)
  <2>1. CASE Ends(c)
    BY <1>6, <1>10, <2>1 DEF Write, Serving
  <2>2. CASE conn'[c] \in {"read", "stream"} /\ permits' = permits
    BY <1>4, <1>10, <2>2 DEF Write, Serving
  <2>3. Ends(c) \/ (conn'[c] \in {"read", "stream"} /\ permits' = permits)
    BY <1>1, <1>10 DEF Write, Goes
  <2> QED BY <2>1, <2>2, <2>3
<1>11. CASE Receive(c)
  <2>1. conn[c] = "stream" /\ permits' = permits /\ conn'[c] \in {"stream", "write"}
    BY <1>1, <1>11 DEF Receive, Says, Goes
  <2> QED BY <1>4, <2>1 DEF Serving
<1>12. CASE CallStep(c) \/ HangUp(c) \/ ProgramReads(c) \/ \E line \in Lines : ProgramWrites(c, line)
  BY <1>5, <1>12 DEF CallStep, Put, Hear, HearNothing, Follow, HangUp, ProgramReads, ProgramWrites,
     daemonEnd
<1> QED BY <1>3, <1>7, <1>8, <1>9, <1>10, <1>11, <1>12 DEF ConnStep, TaskStep

\* A connection in the backlog has none.
LEMMA ConnectPermits ==
  ASSUME ConnTypes, PermitsAt, NEW c \in Conns, NEW line \in Lines, Connect(c, line)
  PROVE  PermitsAt'
<1>1. permits' = permits /\ conn[c] \in Closed /\ conn'[c] \in Closed \cup {"backlog"}
      /\ \A d \in Conns : d # c => conn'[d] = conn[d]
  BY TypesAt DEF Connect, Free, Goes
<1> QED BY <1>1, UsedKept DEF Closed, Serving

\* Nothing is accepted any more, and then nothing is left.
LEMMA EndPermits ==
  ASSUME ConnTypes, PermitsAt, StopAccepting \/ Exit
  PROVE  PermitsAt'
<1>1. CASE StopAccepting
  <2>1. permits' = permits /\ \A d \in Conns : conn'[d] \in Serving <=> conn[d] \in Serving
    BY <1>1 DEF StopAccepting, Serving
  <2> QED BY <2>1, UsedKept
<1>2. CASE Exit
  <2>1. permits' = permits /\ \A d \in Conns : conn'[d] \in Closed
    BY <1>2 DEF Exit, Closed
  <2>2. Used' = {}
    BY <2>1 DEF Used, Serving, Closed
  <2>3. IsFiniteSet(Used') /\ Cardinality(Used') = 0
    BY <2>2, FS_EmptySet
  <2>4. Cardinality(Used) \in Nat /\ permits \in Nat /\ MaxConnections \in Nat
        /\ permits + Cardinality(Used) <= MaxConnections
    BY FS_CardinalityType, ConnectionAssumption DEF PermitsAt, ConnTypes
  <2>5. permits' + Cardinality(Used') <= MaxConnections
    BY <2>1, <2>3, <2>4
  <2> QED BY <2>3, <2>5 DEF PermitsAt
<1> QED BY <1>1, <1>2

-----------------------------------------------------------------------------
(* `start --wait'.                                                          *)

\* A step carries an answer from the task through the socket to the call, or makes one.
Carries(c) ==
  /\ \/ outcome'[c] = outcome[c] \/ outcome'[c].kind # "status"
     \/ outbox[c] # <<>> /\ outcome'[c] = Head(outbox[c])
  /\ \/ outbox'[c] = outbox[c] \/ outbox'[c] = <<>>
     \/ outbox[c] # <<>> /\ outbox'[c] = Tail(outbox[c])
     \/ conn[c] = "write" /\ outbox'[c] = Append(outbox[c], say[c].line)
  /\ conn'[c] = "write" =>
       \/ conn[c] = "write" /\ say'[c] = say[c]
       \/ say'[c].line.kind # "status"
       \/ say'[c].line.n = applied

\* What is carried on stays fresh.
LEMMA FreshCarried ==
  ASSUME StreamTypes, ConnTypes, NEW c \in Conns, FreshAt(c), Carries(c),
         UNCHANGED wait, wait.from \in Nat, wait.from <= applied, applied' \in Nat, applied <= applied'
  PROVE  FreshAt(c)'
<1>1. \A a : Fresh(a) => (a.kind = "status" => a.n \in wait.from..applied')
  BY DEF Fresh, StreamTypes
<1>2. outbox[c] \in Seq(Answers) /\ Len(outbox[c]) \in Nat
  BY TrailTypes
<1>3. /\ Fresh(outcome[c]) /\ (conn[c] = "write" => Fresh(say[c].line))
      /\ \A i \in 1..Len(outbox[c]) : Fresh(outbox[c][i])
  BY DEF FreshAt
<1>4. outbox[c] # <<>> => Fresh(Head(outbox[c]))
  <2>1. outbox[c] # <<>> => 1 \in 1..Len(outbox[c]) /\ Head(outbox[c]) = outbox[c][1]
    BY <1>2
  <2> QED BY <1>3, <2>1
<1>5. Fresh(outcome[c])'
  BY <1>1, <1>3, <1>4 DEF Carries, Fresh
<1>6. conn'[c] = "write" => Fresh(say[c].line)'
  <2>1. applied \in wait.from..applied'
    BY DEF StreamTypes
  <2> QED BY <1>1, <1>3, <2>1 DEF Carries, Fresh
<1>7. \A i \in 1..Len(outbox'[c]) : Fresh(outbox[c][i])'
  <2>1. ASSUME NEW i \in 1..Len(outbox'[c])
        PROVE  Fresh(outbox'[c][i])
    <3>1. CASE outbox'[c] = outbox[c]
      BY <1>3, <3>1
    <3>2. CASE outbox'[c] = <<>>
      BY <3>2
    <3>3. CASE outbox[c] # <<>> /\ outbox'[c] = Tail(outbox[c])
      <4>1. i + 1 \in 1..Len(outbox[c]) /\ outbox'[c][i] = outbox[c][i + 1]
        BY <1>2, <3>3
      <4> QED BY <1>3, <4>1
    <3>4. CASE conn[c] = "write" /\ outbox'[c] = Append(outbox[c], say[c].line)
      <4>1. (i \in 1..Len(outbox[c]) /\ outbox'[c][i] = outbox[c][i]) \/ outbox'[c][i] = say[c].line
        BY <1>2, <3>4
      <4> QED BY <1>3, <3>4, <4>1
    <3> QED BY <3>1, <3>2, <3>3, <3>4 DEF Carries
  <2>2. ASSUME NEW i \in 1..Len(outbox'[c])
        PROVE  Fresh(outbox[c][i])'
    BY <1>1, <2>1, <2>2 DEF Fresh
  <2> QED BY <2>2
<1> QED BY <1>5, <1>6, <1>7 DEF FreshAt

\* Only the answer to a status request is a snapshot, and it is one of this moment.
LEMMA ConnStepCarries ==
  ASSUME StreamTypes, ConnTypes, NEW c \in Conns, ConnStep(c)
  PROVE  Carries(c)
<1>1. /\ conn \in [Conns -> Places] /\ conn[c] \in Places /\ say \in [Conns -> Writing]
      /\ outcome \in [Conns -> Results] /\ outbox \in [Conns -> Outboxes]
      /\ say[c].next \in {"read", "stream", "close", "strike"}
  BY TypesAt, WritingFacts
<1>2. \A a, next : [line |-> a, next |-> next].line = a
  OBVIOUS
<1>3. \A a, next : Says(c, a, next) =>
        /\ conn'[c] = "write" /\ say'[c].line = a
        /\ UNCHANGED <<outcome, outbox>> => (a.kind # "status" \/ a.n = applied => Carries(c))
  <2>1. ASSUME NEW a, NEW next, Says(c, a, next)
        PROVE  conn'[c] = "write" /\ say'[c].line = a
    BY <1>1, <1>2, <2>1 DEF Says, Goes
  <2> QED BY <2>1 DEF Carries
<1>4. UNCHANGED <<outcome, outbox>> /\ conn'[c] # "write" => Carries(c)
  BY DEF Carries
<1>5. UNCHANGED <<outcome, outbox, conn, say>> => Carries(c)
  BY DEF Carries
<1>6. \A n : \A w \in {"refused", "error", "pong", "ok", "event", "lagged", "Failed", "over"} :
        Answer(w, n).kind # "status"
  BY DEF Answer
<1>7. CASE Accept(c)
  BY <1>1, <1>4, <1>7 DEF Accept, Goes, clientEnd
<1>8. CASE Admit(c)
  BY <1>1, <1>3, <1>4, <1>6, <1>8 DEF Admit, Goes, clientEnd
<1>9. CASE ReadNothing(c)
  <2>1. UNCHANGED <<outcome, outbox>> /\ (UNCHANGED <<conn, say>> \/ Says(c, Answer("error", 0), "close"))
    BY <1>9 DEF ReadNothing, clientEnd
  <2> QED BY <1>3, <1>5, <1>6, <2>1
<1>10. CASE ReadUnusable(c)
  BY <1>3, <1>6, <1>10 DEF ReadUnusable, clientEnd
<1>11. CASE ReadRequest(c)
  <2>1. Answer("status", applied).n = applied
    BY DEF Answer
  <2>2. UNCHANGED <<outcome, outbox>>
        /\ \/ Says(c, Answer("pong", 0), "read") \/ Says(c, Answer("status", applied), "read")
           \/ Says(c, Answer("ok", 0), "read") \/ Says(c, Answer("error", 0), "read")
    BY <1>11 DEF ReadRequest, clientEnd
  <2> QED BY <1>3, <1>6, <2>1, <2>2
<1>12. CASE ReadSubscribe(c)
  BY <1>3, <1>6, <1>12 DEF ReadSubscribe, clientEnd
<1>13. CASE ReadClosed(c) \/ ReadIdle(c) \/ WriteFails(c)
  <2>1. UNCHANGED <<outcome, outbox>> /\ conn'[c] = "closed"
    BY <1>13, EndsAt DEF ReadClosed, ReadIdle, WriteFails, clientEnd
  <2> QED BY <1>4, <2>1
<1>14. CASE Write(c)
  <2>1. /\ conn[c] = "write" /\ outcome' = outcome /\ outbox'[c] = Append(outbox[c], say[c].line)
    BY <1>1, <1>14 DEF Write, clientEnd
  <2>2. conn'[c] # "write"
    BY <1>1, <1>14, EndsAt DEF Write, Goes
  <2> QED BY <2>1, <2>2 DEF Carries
<1>15. CASE Receive(c)
  <2>1. UNCHANGED <<outcome, outbox>>
        /\ \/ UNCHANGED <<conn, say>>
           \/ \E n : Says(c, Answer("lagged", n), "stream") \/ Says(c, Answer("event", n), "stream")
    BY <1>15 DEF Receive, clientEnd
  <2> QED BY <1>3, <1>5, <1>6, <2>1
<1>16. CASE Put(c) \/ ProgramReads(c) \/ (\E line \in Lines : ProgramWrites(c, line))
  BY <1>1, <1>16 DEF Put, ProgramReads, ProgramWrites, Takes, daemonEnd, clientEnd, Carries
<1>17. CASE Hear(c) \/ HearNothing(c)
  BY <1>1, <1>6, <1>17 DEF Hear, HearNothing, Takes, Returns, daemonEnd, Carries
<1>18. CASE Follow(c) \/ HangUp(c)
  BY <1>1, <1>6, <1>18, AnswerFacts DEF Follow, HangUp, Takes, Returns, daemonEnd, Carries
<1> QED BY <1>7, <1>8, <1>9, <1>10, <1>11, <1>12, <1>13, <1>14, <1>15, <1>16, <1>17, <1>18
        DEF ConnStep, TaskStep, CallStep

\* What was announced, of given events.
Of(evs, S, from, to) == {i \in from..to : evs[i] \in S}
LastOf(evs, S, from, to) == IF Of(evs, S, from, to) = {} THEN "none" ELSE evs[Max(Of(evs, S, from, to))]
BegunIn(evs, n) == IF Of(evs, {"Starting"}, 1, n) = {} THEN 1 ELSE Max(Of(evs, {"Starting"}, 1, n))
ReadyIn(evs, n) ==
  \/ LastOf(evs, StateKinds, 1, n) = "Running" /\ LastOf(evs, HealthKinds, BegunIn(evs, n), n) = "Healthy"
  \/ LastOf(evs, StateKinds, 1, n) = "Exited" /\ LastOf(evs, HealthKinds, BegunIn(evs, n), n) # "Unhealthy"
GoneIn(evs, n) == LastOf(evs, StateKinds, 1, n) \in Over /\ ~ReadyIn(evs, n)

\* It is what the model says of its events, before and after a step.
LEMMA AnnouncedIn ==
  /\ AnnouncedReady(wait.seen) <=> ReadyIn(events, wait.seen)
  /\ AnnouncedGone(wait.seen) <=> GoneIn(events, wait.seen)
BY DEF AnnouncedReady, AnnouncedGone, ReadyIn, GoneIn, LastOf, Latest, BegunIn, Begun, Of, Indices

\* The same of the next state.
LEMMA AnnouncedInNext ==
  /\ AnnouncedReady(wait.seen)' <=> ReadyIn(events', wait'.seen)
  /\ AnnouncedGone(wait.seen)' <=> GoneIn(events', wait'.seen)
BY DEF AnnouncedReady, AnnouncedGone, ReadyIn, GoneIn, LastOf, Latest, BegunIn, Begun, Of, Indices

\* Later events change nothing of what was announced.
LEMMA LastOfKept ==
  ASSUME NEW e, NEW f, NEW n \in Nat, \A i \in 1..n : f[i] = e[i], NEW S, NEW from \in Nat \ {0}
  PROVE  LastOf(f, S, from, n) = LastOf(e, S, from, n)
<1> DEFINE I == Of(e, S, from, n)
<1>1. Of(f, S, from, n) = I
  BY DEF Of
<1>2. I \in SUBSET (0..n) /\ \A i \in I : i \in 1..n
  BY DEF Of
<1> HIDE DEF I
<1>3. CASE I = {}
  BY <1>1, <1>3 DEF LastOf, I
<1>4. CASE I # {}
  <2>1. Max(I) \in 1..n
    BY <1>2, <1>4, Greatest
  <2>2. f[Max(I)] = e[Max(I)]
    BY <2>1
  <2> QED BY <1>1, <1>4, <2>2 DEF LastOf, I
<1> QED BY <1>3, <1>4

\* Nor of the verdicts.
LEMMA AnnouncedKept ==
  ASSUME NEW e, NEW f, NEW n \in Nat, \A i \in 1..n : f[i] = e[i]
  PROVE  (ReadyIn(f, n) <=> ReadyIn(e, n)) /\ (GoneIn(f, n) <=> GoneIn(e, n))
<1>1. Of(f, {"Starting"}, 1, n) = Of(e, {"Starting"}, 1, n)
  BY DEF Of
<1>2. BegunIn(f, n) = BegunIn(e, n)
  BY <1>1 DEF BegunIn
<1>3. BegunIn(e, n) \in Nat \ {0}
  <2> DEFINE I == Of(e, {"Starting"}, 1, n)
  <2>1. I \in SUBSET (0..n) /\ \A i \in I : i \in 1..n
    BY DEF Of
  <2> HIDE DEF I
  <2>2. I # {} => Max(I) \in 1..n
    BY <2>1, Greatest
  <2> QED BY <2>2 DEF BegunIn, I
<1> DEFINE b == BegunIn(e, n)
<1>4. BegunIn(f, n) = b /\ b \in Nat \ {0}
  BY <1>2, <1>3
<1> HIDE DEF b
<1>5. LastOf(f, StateKinds, 1, n) = LastOf(e, StateKinds, 1, n)
  BY LastOfKept
<1>6. LastOf(f, HealthKinds, b, n) = LastOf(e, HealthKinds, b, n)
  BY <1>4, LastOfKept
<1>7. ReadyIn(f, n) <=> ReadyIn(e, n)
  BY <1>2, <1>4, <1>5, <1>6 DEF ReadyIn
<1> QED BY <1>5, <1>7 DEF GoneIn

\* `start --wait' is not moving: its verdict stays, and so does what it waits for.
LEMMA WaitKept ==
  ASSUME StreamTypes, StreamTypes', WaitTypes, WaitAt, UNCHANGED wait, applied <= applied',
         \A i \in 1..applied : events'[i] = events[i],
         wait.stage = "poll" /\ wait.call # NoCall => FreshAt(wait.call)'
  PROVE  WaitAt'
<1>1. wait.from \in Nat /\ applied \in Nat /\ applied' \in Nat /\ wait.from <= applied /\ wait' = wait
      /\ wait.seen \in Nat
  BY DEF WaitTypes, Waiting, StreamTypes, WaitAt
<1>2. wait.from <= applied'
  BY <1>1
<1>3. wait.stage = "poll" /\ wait.call # NoCall => FreshAt(wait.call)'
  OBVIOUS
<1>4. wait.stage \in {"ready", "gone"} => wait.seen \in wait.from..applied'
  BY <1>1 DEF WaitAt
<1>5. (wait.stage = "ready" => AnnouncedReady(wait.seen)') /\ (wait.stage = "gone" => AnnouncedGone(wait.seen)')
  <2>1. SUFFICES ASSUME wait.stage \in {"ready", "gone"}
                 PROVE  /\ wait.stage = "ready" => AnnouncedReady(wait.seen)'
                        /\ wait.stage = "gone" => AnnouncedGone(wait.seen)'
    OBVIOUS
  <2> DEFINE n == wait.seen
             e == events
             f == events'
  <2>2. n \in Nat /\ n <= applied
    BY <1>1, <2>1 DEF WaitAt
  <2>3. \A i \in 1..n : f[i] = e[i]
    BY <1>1, <2>2
  <2> HIDE DEF n, e, f
  <2>4. (ReadyIn(f, n) <=> ReadyIn(e, n)) /\ (GoneIn(f, n) <=> GoneIn(e, n))
    BY <2>2, <2>3, AnnouncedKept
  <2>5. /\ AnnouncedReady(wait.seen) <=> ReadyIn(e, n)
        /\ AnnouncedGone(wait.seen) <=> GoneIn(e, n)
        /\ AnnouncedReady(wait.seen)' <=> ReadyIn(f, n)
        /\ AnnouncedGone(wait.seen)' <=> GoneIn(f, n)
    BY <1>1, AnnouncedIn, AnnouncedInNext DEF n, e, f
  <2> QED BY <2>4, <2>5 DEF WaitAt
<1> QED BY <1>1, <1>2, <1>3, <1>4, <1>5 DEF WaitAt

\* A connection whose two ends do not move keeps what it carries.
LEMMA FreshKept ==
  ASSUME StreamTypes, StreamTypes', ConnTypes, WaitTypes, WaitAt, UNCHANGED wait, applied <= applied',
         NEW c \in Conns, FreshAt(c), outcome'[c] = outcome[c], outbox'[c] = outbox[c],
         conn'[c] = "write" => conn[c] = "write" /\ say'[c] = say[c]
  PROVE  FreshAt(c)'
<1>1. Carries(c)
  BY DEF Carries
<1>2. wait.from \in Nat /\ wait.from <= applied /\ applied' \in Nat
  BY DEF WaitTypes, Waiting, WaitAt, StreamTypes
<1> QED BY <1>1, <1>2, FreshCarried

\* The call it waits for is one of its own.
LEMMA WaitedFor ==
  ASSUME WaitTypes, wait.call # NoCall
  PROVE  wait.call \in Waits /\ wait.call \in Conns /\ wait.call \in Sends
BY ClientAssumption DEF WaitTypes, Waiting, Conns

\* A step of a connection, under a wait that stays where it is.
LEMMA ConnStepWaits ==
  ASSUME StreamTypes, ConnTypes, WaitTypes, WaitAt, UNCHANGED wait, NEW c \in Conns, ConnStep(c)
  PROVE  WaitAt'
<1>1. (\A d \in Conns : d # c => Same(d)) /\ UNCHANGED <<events, applied, sent>>
  BY ConnStepMoves DEF Moves
<1>2. StreamTypes' /\ applied <= applied' /\ \A i \in 1..applied : events'[i] = events[i]
  BY <1>1, StreamStepTypes
<1>3. ASSUME wait.stage = "poll", wait.call # NoCall
      PROVE  FreshAt(wait.call)'
  <2>1. wait.call \in Conns
    BY <1>3, WaitedFor
  <2> DEFINE d == wait.call
  <2>2. d \in Conns /\ FreshAt(d) /\ wait.from \in Nat /\ wait.from <= applied /\ applied' \in Nat
    BY <1>2, <1>3, <2>1 DEF WaitAt, WaitTypes, Waiting, StreamTypes
  <2>3. Carries(d)
    <3>1. CASE d = c
      BY <3>1, ConnStepCarries
    <3>2. CASE d # c
      <4>1. Same(d)
        BY <1>1, <2>2, <3>2
      <4> QED BY <4>1 DEF Same, Carries
    <3> QED BY <3>1, <3>2
  <2>4. FreshAt(d)'
    BY <1>2, <2>2, <2>3, FreshCarried
  <2> QED BY <2>4
<1> QED BY <1>2, <1>3, WaitKept

\* Another call is opened.
LEMMA OpensWaits ==
  ASSUME StreamTypes, ConnTypes, WaitTypes, WaitAt, UNCHANGED wait, NEW c \in Conns \ Waits,
         NEW line \in Lines, Connect(c, line)
  PROVE  WaitAt'
<1>1. (\A d \in Conns : d # c => Same(d)) /\ UNCHANGED <<events, applied, sent>>
  BY ConnectMoves DEF Moves
<1>2. StreamTypes' /\ applied <= applied' /\ \A i \in 1..applied : events'[i] = events[i]
  BY <1>1, StreamStepTypes
<1>3. ASSUME wait.stage = "poll", wait.call # NoCall
      PROVE  FreshAt(wait.call)'
  <2> DEFINE d == wait.call
  <2>1. d \in Conns /\ d # c
    BY <1>3, WaitedFor
  <2>2. Same(d)
    BY <1>1, <2>1
  <2>3. FreshAt(d) /\ outcome'[d] = outcome[d] /\ outbox'[d] = outbox[d] /\ conn'[d] = conn[d]
        /\ say'[d] = say[d]
    BY <1>3, <2>2 DEF Same, WaitAt
  <2>4. FreshAt(d)'
    BY <1>2, <2>1, <2>3, FreshKept
  <2> QED BY <2>4
<1> QED BY <1>2, <1>3, WaitKept

\* Events come and are passed on, or the daemon ends.
LEMMA StreamWaits ==
  ASSUME StreamTypes, ConnTypes, WaitTypes, WaitAt, UNCHANGED wait,
         \/ ((\E kind \in Kinds : Announce(kind)) \/ CollectApply \/ CollectSend) /\ UNCHANGED connVars
         \/ StopAccepting
         \/ Exit
  PROVE  WaitAt'
<1>1. StreamTypes' /\ applied <= applied' /\ \A i \in 1..applied : events'[i] = events[i]
  <2>1. CASE StopAccepting \/ Exit
    BY <2>1, StreamStepTypes DEF StopAccepting, Exit, streamVars
  <2> QED BY <2>1, StreamStepTypes
<1>2. \A d \in Conns : /\ outcome'[d] = outcome[d] /\ outbox'[d] = outbox[d]
                       /\ conn'[d] = "write" => conn[d] = "write" /\ say'[d] = say[d]
  <2>1. CASE UNCHANGED connVars
    BY <2>1 DEF connVars, daemonEnd, clientEnd
  <2>2. CASE StopAccepting
    BY <2>2 DEF StopAccepting, clientEnd
  <2>3. CASE Exit
    BY <2>3 DEF Exit, clientEnd, Closed
  <2> QED BY <2>1, <2>2, <2>3
<1>3. ASSUME wait.stage = "poll", wait.call # NoCall
      PROVE  FreshAt(wait.call)'
  <2> DEFINE d == wait.call
  <2>1. d \in Conns /\ FreshAt(d)
    BY <1>3, WaitedFor DEF WaitAt
  <2>2. FreshAt(d)'
    BY <1>1, <1>2, <2>1, FreshKept
  <2> QED BY <2>2
<1> QED BY <1>1, <1>3, WaitKept

\* The fields of `start --wait', and how a record of them is changed.
LEMMA WaitFields ==
  ASSUME wait \in Waiting
  PROVE  /\ wait.stage \in Stages /\ wait.call \in Waits \cup {NoCall}
         /\ wait.todo \in Seq({"service", "other"}) /\ wait.failed \in BOOLEAN
         /\ wait.from \in Nat /\ wait.seen \in Nat
BY DEF Waiting

\* A call is opened for the next request.
LEMMA WaitCallsWaits ==
  ASSUME StreamTypes, ConnTypes, WaitTypes, WaitAt, NEW c \in Waits, WaitCalls(c), UNCHANGED cast
  PROVE  WaitTypes' /\ WaitAt' /\ (\E line \in Lines : Connect(c, line)) /\ c \in Conns
<1>1. c \in Conns /\ c # NoCall
  BY ClientAssumption DEF Conns
<1>2. wait.stage \in {"check", "names", "poll"} /\ Connect(c, Asks) /\ wait' = [wait EXCEPT !.call = c]
  BY DEF WaitCalls
<1>3. Asks \in Lines
  BY <1>2 DEF Asks, Lines
<1>4. wait \in Waiting
  BY DEF WaitTypes
<1>5. /\ wait' \in Waiting /\ wait'.stage = wait.stage /\ wait'.todo = wait.todo
      /\ wait'.from = wait.from /\ wait'.call = c
  BY <1>2, <1>4 DEF Waiting
<1>6. WaitTypes'
  BY <1>5 DEF WaitTypes
<1>7. UNCHANGED <<say, events, applied, sent>> /\ conn'[c] # "write" /\ outbox'[c] = <<>>
      /\ outcome'[c].kind # "status"
  <2>1. Nothing.kind # "status" /\ Answer("NotRunning", 0).kind # "status"
    BY DEF Nothing, Answer
  <2> QED BY <1>1, <1>2, <2>1, TypesAt DEF Connect, Free, Goes, Returns, Closed, streamVars
<1>8. FreshAt(c)'
  <2>1. Len(<<>>) = 0
    OBVIOUS
  <2> QED BY <1>7, <2>1 DEF FreshAt, Fresh
<1>9. WaitAt'
  BY <1>2, <1>5, <1>7, <1>8 DEF WaitAt
<1> QED BY <1>1, <1>2, <1>3, <1>6, <1>9

\* A stage that is no verdict, and that has a name left if it needs one.
LEMMA WaitGoesOn ==
  ASSUME StreamTypes, WaitTypes, WaitAt, UNCHANGED applied, NEW stage \in Stages \ {"ready", "gone"},
         stage = "names" => wait.todo # <<>>, stage # "check", WaitGoes(stage), UNCHANGED cast
  PROVE  WaitTypes' /\ WaitAt'
<1>1. wait \in Waiting
  BY DEF WaitTypes
<1>2. /\ wait' \in Waiting /\ wait'.stage = stage /\ wait'.call = NoCall /\ wait'.todo = wait.todo
      /\ wait'.from = wait.from
  BY <1>1 DEF WaitGoes, Waiting
<1>3. WaitTypes'
  BY <1>2 DEF WaitTypes
<1>4. WaitAt'
  BY <1>2 DEF WaitAt
<1> QED BY <1>3, <1>4

\* The next name, or the wait itself, begins after the answer to the last start.
LEMMA WaitNamesWaits ==
  ASSUME StreamTypes, WaitTypes, WaitAt, UNCHANGED <<applied, cast>>, WaitNames
  PROVE  WaitTypes' /\ WaitAt'
<1>1. /\ wait \in Waiting /\ wait.stage = "names" /\ wait.todo \in Seq({"service", "other"})
      /\ wait.todo # <<>> /\ wait.failed \in BOOLEAN /\ applied \in Nat
  BY WaitFields DEF WaitTypes, WaitNames, StreamTypes
<1> DEFINE failed == wait.failed \/ outcome[wait.call].kind = "error"
           stage  == IF Len(wait.todo) > 1 THEN "names" ELSE IF failed THEN "refused" ELSE "poll"
<1>2. wait' = [wait EXCEPT !.call = NoCall, !.stage = stage, !.todo = Tail(@), !.failed = failed,
                           !.from = applied]
  BY DEF WaitNames
<1>3. failed \in BOOLEAN
  OBVIOUS
<1> HIDE DEF failed
<1>4. stage \in {"names", "refused", "poll"} /\ (stage = "names" => Len(wait.todo) > 1)
  <2> DEFINE more == Len(wait.todo) > 1
  <2>1. stage = IF more THEN "names" ELSE IF failed THEN "refused" ELSE "poll"
    OBVIOUS
  <2> HIDE DEF more, stage
  <2>2. stage \in {"names", "refused", "poll"} /\ (stage = "names" => more)
    BY <2>1
  <2> QED BY <2>2 DEF more
<1>5. Tail(wait.todo) \in Seq({"service", "other"}) /\ (Len(wait.todo) > 1 => Tail(wait.todo) # <<>>)
  <2> DEFINE todo == wait.todo
             T == {"service", "other"}
  <2>1. todo \in Seq(T) /\ todo # <<>>
    BY <1>1
  <2> HIDE DEF todo, T
  <2>2. Tail(todo) \in Seq(T) /\ Len(Tail(todo)) = Len(todo) - 1 /\ Len(todo) \in Nat
    BY <2>1
  <2>3. Len(todo) > 1 => Tail(todo) # <<>>
    <3> DEFINE rest == Tail(todo)
               n == Len(todo)
    <3>1. Len(rest) = n - 1 /\ n \in Nat
      BY <2>2
    <3> HIDE DEF rest, n
    <3>2. rest = <<>> => Len(rest) = 0
      OBVIOUS
    <3>3. n > 1 => rest # <<>>
      BY <3>1, <3>2
    <3> QED BY <3>3 DEF rest, n
  <2> QED BY <2>2, <2>3 DEF todo, T
<1> HIDE DEF stage
<1>6. /\ wait' \in Waiting /\ wait'.stage = stage /\ wait'.call = NoCall /\ wait'.todo = Tail(wait.todo)
      /\ wait'.from = applied
  BY <1>1, <1>2, <1>3, <1>4, <1>5 DEF Waiting, Stages
<1>7. WaitTypes'
  BY <1>4, <1>5, <1>6 DEF WaitTypes
<1>8. WaitAt'
  BY <1>1, <1>4, <1>6 DEF WaitAt
<1> QED BY <1>7, <1>8

\* A verdict is given on a snapshot that is not older than the answer to the last start.
LEMMA WaitPollsWaits ==
  ASSUME StreamTypes, ConnTypes, WaitTypes, WaitAt, UNCHANGED <<applied, events, cast>>, WaitPolls
  PROVE  WaitTypes' /\ WaitAt'
<1> DEFINE seen == outcome[wait.call].n
           verdict == Readiness(Snapshot(seen))
<1>1. /\ wait \in Waiting /\ wait.stage = "poll" /\ wait.call # NoCall
      /\ outcome[wait.call].kind = "status"
  BY DEF WaitTypes, WaitPolls, Heard
<1>2. wait.from \in Nat /\ seen \in wait.from..applied /\ applied <= Len(events) /\ Len(events) \in Nat
      /\ applied \in Nat
  BY <1>1, WaitFields DEF WaitAt, FreshAt, Fresh, StreamTypes
<1>3. seen \in Nat /\ seen \in 0..Len(events) /\ events \in Seq(Kinds)
  BY <1>2 DEF StreamTypes
<1>4. \/ verdict # "waiting" /\ wait' = [wait EXCEPT !.call = NoCall, !.stage = verdict, !.seen = seen]
      \/ WaitGoes("poll") \/ WaitGoes("timeout")
  BY DEF WaitPolls, Judge
<1> HIDE DEF seen
<1>5. /\ verdict \in {"ready", "gone", "waiting"}
      /\ verdict = "ready" => AnnouncedReady(seen)
      /\ verdict = "gone" => AnnouncedGone(seen)
  BY <1>3, ReadinessIsAnnounced
<1> HIDE DEF verdict
<1>6. CASE WaitGoes("poll") \/ WaitGoes("timeout")
  BY <1>6, WaitGoesOn DEF Stages
<1>7. CASE verdict # "waiting" /\ wait' = [wait EXCEPT !.call = NoCall, !.stage = verdict, !.seen = seen]
  <2>1. verdict \in {"ready", "gone"}
    BY <1>5, <1>7
  <2>2. /\ wait' \in Waiting /\ wait'.stage = verdict /\ wait'.call = NoCall
        /\ wait'.from = wait.from /\ wait'.seen = seen
    BY <1>1, <1>3, <1>7, <2>1 DEF Waiting, Stages
  <2>3. WaitTypes'
    BY <2>1, <2>2 DEF WaitTypes
  <2>4. (AnnouncedReady(seen) <=> ReadyIn(events, seen)) /\ (AnnouncedGone(seen) <=> GoneIn(events, seen))
    BY DEF AnnouncedReady, AnnouncedGone, ReadyIn, GoneIn, LastOf, Latest, BegunIn, Begun, Of, Indices
  <2>5. /\ AnnouncedReady(wait.seen)' <=> ReadyIn(events, seen)
        /\ AnnouncedGone(wait.seen)' <=> GoneIn(events, seen)
    BY <2>2, AnnouncedInNext
  <2>6. wait'.from <= applied' /\ wait'.seen \in wait'.from..applied'
    BY <1>2, <2>2
  <2>7. /\ wait'.stage = "ready" => AnnouncedReady(wait.seen)'
        /\ wait'.stage = "gone" => AnnouncedGone(wait.seen)'
    BY <1>5, <2>2, <2>4, <2>5
  <2>8. WaitAt'
    BY <2>1, <2>2, <2>6, <2>7 DEF WaitAt
  <2> QED BY <2>3, <2>8
<1> QED BY <1>4, <1>6, <1>7

\* A step of the command itself.
LEMMA WaitStepWaits ==
  ASSUME StreamTypes, ConnTypes, WaitTypes, WaitAt, UNCHANGED <<applied, events, cast>>, WaitStep
  PROVE  WaitTypes' /\ WaitAt'
<1>1. CASE WaitChecks
  <2>1. WaitGoes("names") /\ wait.todo # <<>>
    BY <1>1 DEF WaitChecks, WaitTypes
  <2> QED BY <2>1, WaitGoesOn DEF Stages
<1>2. CASE WaitErrs
  BY <1>2, WaitGoesOn DEF WaitErrs, Stages
<1> QED BY <1>1, <1>2, WaitNamesWaits, WaitPollsWaits DEF WaitStep

\* What the call returned is taken from it.
LEMMA ReturnedTypes ==
  ASSUME ConnTypes, WaitTypes, wait.call # NoCall, Returned,
         UNCHANGED <<daemonEnd, inbox, outbox, call, request, hello, heard>>
  PROVE  /\ ConnTypes' /\ \A c \in Follows : Same(c)
<1>1. wait.call \in Conns /\ wait.call \notin Follows
  BY WaitedFor, ConnectionAssumption
<1>2. outcome' \in [Conns -> Results] /\ \A c \in Follows : outcome'[c] = outcome[c]
  <2>1. outcome \in [Conns -> Results] /\ outcome' = [outcome EXCEPT ![wait.call] = Nothing]
    BY DEF ConnTypes, Returned
  <2> HIDE DEF Nothing
  <2> QED BY <1>1, <2>1, AnswerFacts DEF Conns
<1> QED BY <1>2 DEF ConnTypes, Same, daemonEnd

-----------------------------------------------------------------------------
(* The invariant.                                                           *)

Followers == \A c \in Follows : FollowerAt(c)

\* A connection that moves, or one that is opened, leaves the other subscribers.
LEMMA OthersFollow ==
  ASSUME StreamTypes, ConnTypes, Followers, NEW c \in Conns, Moves(c), c \in Follows => FollowerAt(c)'
  PROVE  Followers'
<1>1. StreamTypes' /\ StreamGrows
  BY StreamStepTypes DEF Moves
<1>2. ASSUME NEW d \in Follows
      PROVE  FollowerAt(d)'
  <2>1. CASE d = c
    BY <2>1
  <2>2. CASE d # c
    <3>1. Same(d) /\ FollowerAt(d)
      BY <1>2, <2>2 DEF Moves, Conns, Followers
    <3> QED BY <1>1, <3>1, FollowerKept
  <2> QED BY <2>1, <2>2
<1> QED BY <1>2 DEF Followers

\* It holds when a daemon has told its clients the past.
THEOREM InitIInv ==
  ASSUME Init PROVE IInv
<1>1. cast \in Casts /\ StreamInit(cast.past) /\ ConnInit
      /\ cast.past \in Seq(Kinds) /\ cast.names \in Seq({"service", "other"})
  BY ClientAssumption DEF Init
<1>2. StreamTypes
  BY <1>1 DEF StreamTypes, StreamInit
<1>3. ConnTypes
  <2>1. Nothing \in Results
    BY AnswerFacts
  <2>2. MaxConnections \in Nat
    BY ConnectionAssumption
  <2> HIDE DEF Nothing
  <2> QED BY <1>1, <2>1, <2>2, PlaceFacts, QueueFacts, WritingFacts DEF ConnTypes, ConnInit, Lines
<1>4. WaitTypes /\ WaitAt
  <2> DEFINE st == IF Waits \cap cast.conns = {} THEN "idle" ELSE IF cast.names = <<>> THEN "poll" ELSE "check"
  <2>1. wait = [stage |-> st, call |-> NoCall, todo |-> cast.names, failed |-> FALSE, from |-> 0, seen |-> 0]
    BY DEF Init
  <2>2. st \in {"idle", "poll", "check"} /\ (st = "check" => cast.names # <<>>)
    OBVIOUS
  <2> HIDE DEF st
  <2>3. wait \in Waiting /\ wait.stage = st /\ wait.call = NoCall /\ wait.todo = cast.names /\ wait.from = 0
    BY <1>1, <2>1, <2>2 DEF Waiting, Stages
  <2>4. WaitTypes
    BY <1>1, <2>2, <2>3 DEF WaitTypes
  <2>5. WaitAt
    BY <1>2, <2>2, <2>3 DEF WaitAt, StreamTypes
  <2> QED BY <2>4, <2>5
<1>5. PermitsAt
  <2>1. Used = {}
    BY <1>1 DEF Used, ConnInit, Serving
  <2>2. IsFiniteSet(Used) /\ Cardinality(Used) = 0
    BY <2>1, FS_EmptySet
  <2> QED BY <1>1, <2>2, ConnectionAssumption DEF PermitsAt, ConnInit
<1>6. ASSUME NEW c \in Follows
      PROVE  FollowerAt(c)
  <2>1. c \in Conns
    BY DEF Conns
  <2>2. /\ outbox[c] = <<>> /\ heard[c] = <<>> /\ inbox[c] = <<>> /\ conn[c] = "none" /\ call[c] = "idle"
    BY <1>1, <2>1 DEF ConnInit
  <2>3. Pipe(c) = <<>>
    <3>1. Pipe(c) = <<>> \o <<>>
      BY <2>2 DEF Pipe
    <3> QED BY <3>1
  <2>4. \A i \in 1..Len(Pipe(c)) : Pipe(c)[i].kind = "refused"
    BY <2>3
  <2>5. Unsubscribed(c)
    BY <2>2, <2>4 DEF Unsubscribed
  <2> QED BY <2>5 DEF FollowerAt
<1> QED BY <1>2, <1>3, <1>4, <1>5, <1>6 DEF IInv, Types

\* A step of one connection keeps the invariant.
LEMMA ConnStepKeeps ==
  ASSUME IInv, NEW c \in Conns, ConnStep(c), UNCHANGED <<cast, wait>>
  PROVE  IInv'
<1>1. StreamTypes /\ ConnTypes /\ WaitTypes /\ PermitsAt /\ WaitAt /\ Followers
  BY DEF IInv, Types, Followers
<1>2. Moves(c)
  BY <1>1, ConnStepMoves
<1>3. StreamTypes' /\ ConnTypes' /\ WaitTypes'
  BY <1>1, <1>2, StreamStepTypes DEF Moves, WaitTypes
<1>4. PermitsAt'
  BY <1>1, ConnStepPermits
<1>5. c \in Follows => FollowerAt(c)'
  BY <1>1, ConnStepFollows DEF Followers
<1>6. Followers'
  BY <1>1, <1>2, <1>5, OthersFollow
<1>7. WaitAt'
  BY <1>1, ConnStepWaits
<1> QED BY <1>3, <1>4, <1>6, <1>7 DEF IInv, Types, Followers

\* A call that is opened keeps the invariant.
LEMMA ConnectKeeps ==
  ASSUME IInv, NEW c \in Conns, NEW line \in Lines, Connect(c, line), WaitTypes', WaitAt',
         c \in Follows => line = "subscribe" /\ call[c] = "idle"
  PROVE  IInv'
<1>1. StreamTypes /\ ConnTypes /\ PermitsAt /\ Followers
  BY DEF IInv, Types, Followers
<1>2. Moves(c)
  BY <1>1, ConnectMoves
<1>3. StreamTypes' /\ ConnTypes'
  BY <1>1, <1>2, StreamStepTypes DEF Moves
<1>4. PermitsAt'
  BY <1>1, ConnectPermits
<1>5. c \in Follows => FollowerAt(c)'
  BY <1>1, ConnectFollows DEF Followers
<1>6. Followers'
  BY <1>1, <1>2, <1>5, OthersFollow
<1> QED BY <1>3, <1>4, <1>6 DEF IInv, Types, Followers

\* A step of the command keeps it.
LEMMA WaitStepKeeps ==
  ASSUME IInv, WaitStep, Returned,
         UNCHANGED <<cast, streamVars, daemonEnd, inbox, outbox, call, request, hello, heard>>
  PROVE  IInv'
<1>1. StreamTypes /\ ConnTypes /\ WaitTypes /\ PermitsAt /\ WaitAt /\ Followers
  BY DEF IInv, Types, Followers
<1>2. UNCHANGED <<events, applied, sent, cast, conn, permits>>
  BY DEF streamVars, daemonEnd
<1>3. wait.call # NoCall
  BY DEF WaitStep, WaitChecks, WaitNames, WaitPolls, WaitErrs, Heard
<1>4. ConnTypes' /\ \A c \in Follows : Same(c)
  BY <1>1, <1>3, ReturnedTypes
<1>5. StreamTypes' /\ StreamGrows
  BY <1>1, <1>2, StreamStepTypes
<1>6. WaitTypes' /\ WaitAt'
  BY <1>1, <1>2, WaitStepWaits
<1>7. PermitsAt'
  BY <1>1, <1>2, UsedKept
<1>8. Followers'
  <2>1. ASSUME NEW c \in Follows
        PROVE  FollowerAt(c)'
    BY <1>1, <1>4, <1>5, <2>1, FollowerKept DEF Followers
  <2> QED BY <2>1 DEF Followers
<1> QED BY <1>4, <1>5, <1>6, <1>7, <1>8 DEF IInv, Types, Followers

\* An event, and its way into the registry and the channel, keeps it.
LEMMA StreamStepKeeps ==
  ASSUME IInv, (\E kind \in Kinds : Announce(kind)) \/ CollectApply \/ CollectSend,
         UNCHANGED <<connVars, cast, wait>>
  PROVE  IInv'
<1>1. StreamTypes /\ ConnTypes /\ WaitTypes /\ PermitsAt /\ WaitAt /\ Followers
  BY DEF IInv, Types, Followers
<1>2. UNCHANGED <<daemon, permits, conn, say, pos, inbox, outbox, call, request, outcome, hello, heard>>
  BY DEF connVars, daemonEnd, clientEnd
<1>3. StreamTypes' /\ StreamGrows
  BY <1>1, StreamStepTypes
<1>4. ConnTypes' /\ WaitTypes'
  BY <1>1, <1>2 DEF ConnTypes, WaitTypes
<1>5. WaitAt'
  BY <1>1, StreamWaits
<1>6. PermitsAt'
  BY <1>1, <1>2, UsedKept
<1>7. Followers'
  <2>1. ASSUME NEW c \in Follows
        PROVE  FollowerAt(c)'
    <3>1. Same(c)
      BY <1>2 DEF Same
    <3> QED BY <1>1, <1>3, <2>1, <3>1, FollowerKept DEF Followers
  <2> QED BY <2>1 DEF Followers
<1> QED BY <1>3, <1>4, <1>5, <1>6, <1>7 DEF IInv, Types, Followers

\* The end of the daemon keeps it.
LEMMA EndKeeps ==
  ASSUME IInv, StopAccepting \/ Exit, UNCHANGED <<cast, wait>>
  PROVE  IInv'
<1>1. StreamTypes /\ ConnTypes /\ WaitTypes /\ PermitsAt /\ WaitAt /\ Followers
  BY DEF IInv, Types, Followers
<1>2. UNCHANGED <<events, applied, sent>>
  BY DEF StopAccepting, Exit, streamVars
<1>3. StreamTypes' /\ WaitTypes'
  BY <1>1, <1>2, StreamStepTypes DEF WaitTypes
<1>4. ConnTypes'
  BY <1>1, StopAcceptingTypes, ExitTypes
<1>5. PermitsAt'
  BY <1>1, EndPermits
<1>6. WaitAt'
  BY <1>1, StreamWaits
<1>7. Followers'
  <2>1. ASSUME NEW c \in Follows
        PROVE  FollowerAt(c)'
    BY <1>1, <1>3, <2>1, StopAcceptingFollows, ExitFollows DEF Followers
  <2> QED BY <2>1 DEF Followers
<1> QED BY <1>3, <1>4, <1>5, <1>6, <1>7 DEF IInv, Types, Followers

\* A step of something else keeps it.
LEMMA StutterKeeps ==
  ASSUME IInv, UNCHANGED vars
  PROVE  IInv'
<1>1. StreamTypes /\ ConnTypes /\ WaitTypes /\ PermitsAt /\ WaitAt /\ Followers
  BY DEF IInv, Types, Followers
<1>2. /\ UNCHANGED <<daemon, permits, conn, say, pos, inbox, outbox, call, request, outcome, hello, heard>>
      /\ UNCHANGED <<events, applied, sent, cast, wait>>
  BY DEF vars, connVars, daemonEnd, clientEnd, streamVars
<1>3. StreamTypes' /\ ConnTypes' /\ WaitTypes'
  BY <1>1, <1>2 DEF StreamTypes, ConnTypes, WaitTypes
<1>4. PermitsAt'
  BY <1>1, <1>2, UsedKept
<1>5. StreamGrows /\ applied <= applied' /\ \A i \in 1..applied : events'[i] = events[i]
  BY <1>1, <1>2, StreamStepTypes
<1>6. ASSUME wait.stage = "poll", wait.call # NoCall
      PROVE  FreshAt(wait.call)'
  BY <1>1, <1>2, <1>6 DEF WaitAt, FreshAt, Fresh
<1>7. WaitAt'
  BY <1>1, <1>2, <1>3, <1>5, <1>6, WaitKept
<1>8. Followers'
  <2>1. ASSUME NEW c \in Follows
        PROVE  FollowerAt(c)'
    <3>1. Same(c)
      BY <1>2 DEF Same
    <3> QED BY <1>1, <1>3, <1>5, <2>1, <3>1, FollowerKept DEF Followers
  <2> QED BY <2>1 DEF Followers
<1> QED BY <1>3, <1>4, <1>7, <1>8 DEF IInv, Types, Followers

\* Who can act at all.
LEMMA CastFacts ==
  ASSUME WaitTypes
  PROVE  cast.conns \subseteq Conns /\ Waits \subseteq Sends /\ Sends \cup Follows \cup Programs = Conns
BY ClientAssumption DEF WaitTypes, Conns

\* Every step keeps it.
THEOREM NextIInv ==
  ASSUME IInv, [Next]_vars
  PROVE  IInv'
<1>1. StreamTypes /\ ConnTypes /\ WaitTypes /\ WaitAt
  BY DEF IInv, Types
<1>2. /\ cast.conns \subseteq Conns /\ Waits \subseteq Sends /\ Sends \subseteq Conns
      /\ Follows \subseteq Conns /\ Programs \subseteq Conns
  BY <1>1, CastFacts
<1>3. ASSUME NEW c \in Waits, WaitCalls(c), UNCHANGED cast
      PROVE  IInv'
  <2>1. WaitTypes' /\ WaitAt' /\ c \in Conns /\ c \notin Follows
    BY <1>1, <1>2, <1>3, WaitCallsWaits, ConnectionAssumption
  <2>2. PICK line \in Lines : Connect(c, line)
    BY <1>1, <1>3, WaitCallsWaits
  <2> QED BY <2>1, <2>2, ConnectKeeps
<1>4. ASSUME NEW c \in Conns \ Waits, NEW line \in Lines, Opens(c, line), UNCHANGED cast,
             c \in Follows => line = "subscribe"
      PROVE  IInv'
  <2>1. Connect(c, line) /\ call[c] = "idle" /\ UNCHANGED wait
    BY <1>4 DEF Opens
  <2>2. WaitAt'
    BY <1>1, <2>1, OpensWaits
  <2>3. WaitTypes'
    BY <1>1, <1>4, <2>1 DEF WaitTypes
  <2> QED BY <1>4, <2>1, <2>2, <2>3, ConnectKeeps
<1>5. CASE Next
  <2>1. UNCHANGED cast
    BY <1>5 DEF Next
  <2>2. CASE \E c \in Waits : WaitCalls(c)
    BY <1>3, <2>1, <2>2
  <2>3. CASE WaitStep /\ Returned
             /\ UNCHANGED <<streamVars, daemonEnd, inbox, outbox, call, request, hello, heard>>
    BY <2>1, <2>3, WaitStepKeeps
  <2>4. CASE \/ \E c \in (Sends \ Waits) \cap cast.conns : Opens(c, "ping")
             \/ \E c \in Programs \cap cast.conns : Opens(c, "ping")
    <3>1. PICK c \in Conns \ Waits : Opens(c, "ping") /\ c \notin Follows
      BY <1>2, <2>4, ConnectionAssumption
    <3>2. "ping" \in Lines
      BY DEF Lines
    <3> QED BY <1>4, <2>1, <3>1, <3>2
  <2>5. CASE \E c \in Follows \cap cast.conns : Opens(c, "subscribe")
    <3>1. PICK c \in Conns \ Waits : Opens(c, "subscribe")
      BY <1>2, <2>5, ConnectionAssumption
    <3>2. "subscribe" \in Lines
      BY DEF Lines
    <3> QED BY <1>4, <2>1, <3>1, <3>2
  <2>6. CASE /\ UNCHANGED wait
             /\ \/ \E c \in cast.conns : Accept(c) \/ TaskStep(c) \/ CallStep(c) \/ HangUp(c)
                \/ \E c \in Programs \cap cast.conns :
                      ProgramReads(c) \/ \E line \in Lines : ProgramWrites(c, line)
    <3>1. PICK c \in Conns : ConnStep(c)
      BY <1>2, <2>6 DEF ConnStep
    <3> QED BY <2>1, <2>6, <3>1, ConnStepKeeps
  <2>7. CASE UNCHANGED wait /\ (StopAccepting \/ Exit)
    BY <2>1, <2>7, EndKeeps
  <2>8. CASE /\ UNCHANGED <<wait, connVars>>
             /\ (\E kind \in Kinds : Announce(kind)) \/ CollectApply \/ CollectSend
    BY <2>1, <2>8, StreamStepKeeps
  <2> QED BY <1>5, <2>2, <2>3, <2>4, <2>5, <2>6, <2>7, <2>8 DEF Next
<1>6. CASE UNCHANGED vars
  BY <1>6, StutterKeeps
<1> QED BY <1>5, <1>6

\* Every behaviour keeps the invariant.
THEOREM Inductive == Spec => []IInv
<1>1. Init => IInv
  BY InitIInv
<1>2. IInv /\ [Next]_vars => IInv'
  BY NextIInv
<1> QED BY <1>1, <1>2, PTL DEF Spec

-----------------------------------------------------------------------------
(* What the runs check.                                                     *)

\* The variables stay what they are; no more permits than there were at the start.
THEOREM TypeCorrect == Spec => []TypeOK
<1>1. IInv => TypeOK
  <2>1. SUFFICES ASSUME IInv PROVE TypeOK
    OBVIOUS
  <2>2. StreamTypes /\ ConnTypes /\ WaitTypes /\ PermitsAt
    BY <2>1 DEF IInv, Types
  <2>3. permits \in 0..MaxConnections
    <3>1. Cardinality(Used) \in Nat /\ permits \in Nat /\ MaxConnections \in Nat
          /\ permits + Cardinality(Used) <= MaxConnections
      BY <2>2, FS_CardinalityType, ConnectionAssumption DEF PermitsAt, ConnTypes
    <3> QED BY <3>1
  <2>4. wait.stage \in Stages
    BY <2>2, WaitFields DEF WaitTypes
  <2> QED BY <2>2, <2>3, <2>4 DEF TypeOK, StreamTypes, ConnTypes, Places, Calls, Stages
<1> QED BY <1>1, Inductive, PTL

\* A subscriber that follows the stream misses no event without being told: what it
\* heard is the first part of its trail, which began no later than its hello.
THEOREM NoSilentGap == Spec => []StreamHasNoSilentGap
<1>1. IInv => StreamHasNoSilentGap
  <2>1. SUFFICES ASSUME IInv, NEW c \in Follows, NEW k \in DOMAIN heard[c], heard[c][k].kind = "event"
                 PROVE  /\ \A i \in Got(heard[c], k - 1) : i < heard[c][k].n
                        /\ Cardinality(Missing(c, heard[c], k, hello[c], heard[c][k].n))
                             <= Cardinality(Told(heard[c], k))
    BY DEF StreamHasNoSilentGap
  <2>2. StreamTypes /\ ConnTypes /\ FollowerAt(c) /\ c \in Conns
    BY <2>1 DEF IInv, Types, Conns
  <2> DEFINE p == heard[c]
             q == Trail(c)
             e == events
             logs == c \notin NoLogs
             since == hello[c]
             m == sent
  <2>3. p \in Seq(Answers) /\ q \in Seq(Answers) /\ Pipe(c) \in Seq(Answers) /\ since \in Nat /\ m \in Nat
    BY <2>2, TrailTypes DEF StreamTypes
  <2>4. k \in 1..Len(p) /\ p # <<>> /\ p[k].kind = "event"
    BY <2>1, <2>3
  <2>5. Subscribed(c) /\ call[c] # "reading"
    BY <2>2, <2>4 DEF FollowerAt, Unsubscribed, Subscribed
  <2>6. PICK from : SubscribedFrom(c, from)
    BY <2>5 DEF Subscribed, SubscribedFrom
  <2>7. from \in Nat /\ from <= since /\ Sound(e, logs, q, from, m)
    BY <2>3, <2>5, <2>6 DEF SubscribedFrom
  <2>8. q = p \o Pipe(c)
    BY <2>5 DEF Trail
  <2>9. Len(p) \in Nat /\ Len(q) \in Nat /\ Len(p) <= Len(q) /\ \A j \in 1..Len(p) : p[j] = q[j]
    <3> HIDE DEF p, q
    <3> QED BY <2>3, <2>8
  <2>10. Missing(c, p, k, since, p[k].n) = Lost(e, logs, p, k, since, p[k].n)
    BY DEF Missing, Lost, Wants
  <2> HIDE DEF p, q, e, logs, since, m
  <2>11. /\ \A i \in Got(p, k - 1) : i < p[k].n
         /\ Cardinality(Lost(e, logs, p, k, since, p[k].n)) <= Cardinality(Told(p, k))
    BY <2>3, <2>4, <2>7, <2>9, HeardHasNoGap
  <2> QED BY <2>10, <2>11 DEF p, since
<1> QED BY <1>1, Inductive, PTL

\* `start --wait' returns what was announced, up to a moment that is not before the
\* services were asked for: late verdicts on a process that has ended included.
THEOREM WaitAgrees == Spec => []WaitAgreesWithTheEvents
<1>1. IInv => WaitAgreesWithTheEvents
  <2>1. SUFFICES ASSUME IInv PROVE WaitAgreesWithTheEvents
    OBVIOUS
  <2>2. WaitAt /\ wait.from \in Nat /\ applied \in Nat
    BY <2>1, WaitFields DEF IInv, Types, WaitTypes, StreamTypes
  <2>3. wait.stage \in {"ready", "gone"} => wait.from <= wait.seen
    BY <2>2 DEF WaitAt
  <2> QED BY <2>2, <2>3 DEF WaitAt, WaitAgreesWithTheEvents
<1> QED BY <1>1, Inductive, PTL

\* The outcome of a call is what it read, unless there was nothing to read.
LEMMA FailsEmptyHanded ==
  ASSUME IInv, [Next]_vars, NEW c \in Conns, outcome'[c].kind = "Failed", outcome[c].kind # "Failed"
  PROVE  outbox[c] = <<>>
<1>1. ConnTypes /\ WaitTypes /\ cast.conns \subseteq Conns /\ Waits \subseteq Conns
      /\ Follows \subseteq Conns /\ Programs \subseteq Conns /\ Sends \subseteq Conns
  BY CastFacts DEF IInv, Types
<1>2. outcome \in [Conns -> Results] /\ outcome'[c] # outcome[c]
  BY <1>1 DEF ConnTypes
<1>3. Nothing.kind # "Failed" /\ Answer("NotRunning", 0).kind # "Failed" /\ Answer("over", 0).kind # "Failed"
  BY DEF Nothing, Answer
<1>4. ASSUME NEW a, NEW d \in Conns, Returns(d, a)
      PROVE  outcome'[c] = outcome[c] \/ (c = d /\ outcome'[c] = a)
  BY <1>2, <1>4 DEF Returns
<1>5. ~UNCHANGED outcome
  BY <1>2
<1>6. Next
  BY <1>5 DEF vars, connVars, clientEnd
<1>7. ASSUME NEW d \in Conns, NEW line, Connect(d, line)
      PROVE  FALSE
  <2>1. outcome' = [outcome EXCEPT ![d] = Nothing] \/ Returns(d, Answer("NotRunning", 0))
    BY <1>7 DEF Connect
  <2>2. outcome'[c] \in {outcome[c], Nothing, Answer("NotRunning", 0)}
    BY <1>2, <1>4, <1>7, <2>1
  <2> QED BY <1>2, <1>3, <2>2
<1>8. ASSUME Returned, wait.call \in Conns
      PROVE  FALSE
  <2>1. outcome'[c] \in {outcome[c], Nothing}
    BY <1>2, <1>8 DEF Returned
  <2> QED BY <1>2, <1>3, <2>1
<1>9. ASSUME NEW d \in Conns, ConnStep(d)
      PROVE  outbox[c] = <<>>
  <2>1. Hear(d) \/ HearNothing(d) \/ Follow(d) \/ HangUp(d)
    BY <1>5, <1>9 DEF ConnStep, TaskStep, CallStep, Accept, Admit, ReadNothing, ReadUnusable, ReadRequest,
       ReadSubscribe, ReadClosed, ReadIdle, Write, WriteFails, Receive, Put, ProgramReads, ProgramWrites,
       clientEnd
  <2>2. CASE Hear(d)
    <3>1. Returns(d, Head(outbox[d])) /\ outbox[d] # <<>>
      BY <1>5, <2>2 DEF Hear, Takes
    <3>2. outcome'[c] = outcome[c] \/ (c = d /\ outcome'[c] = Head(outbox[d]))
      BY <1>4, <3>1
    <3>3. Head(outbox[d]).kind \in Words
      BY <1>1, <3>1, TypesAt, QueueFacts, AnswerFacts
    <3> QED BY <1>2, <3>2, <3>3 DEF Words
  <2>3. CASE HearNothing(d)
    BY <1>2, <1>4, <2>3 DEF HearNothing
  <2>4. CASE Follow(d)
    <3>1. Returns(d, Answer("over", 0))
      BY <1>5, <2>4 DEF Follow
    <3> QED BY <1>2, <1>3, <1>4, <3>1
  <2>5. CASE HangUp(d)
    BY <1>2, <1>3, <1>4, <2>5 DEF HangUp
  <2> QED BY <2>1, <2>2, <2>3, <2>4, <2>5
<1>10. ASSUME NEW d \in Waits, WaitCalls(d)
       PROVE  FALSE
  BY <1>1, <1>7, <1>10 DEF WaitCalls
<1>11. ASSUME WaitStep, Returned
       PROVE  FALSE
  <2>1. wait.call # NoCall
    BY <1>11 DEF WaitStep, WaitChecks, WaitNames, WaitPolls, WaitErrs, Heard
  <2> QED BY <1>1, <1>8, <1>11, <2>1, WaitedFor
<1>12. ASSUME NEW d \in Conns, NEW line, Opens(d, line)
       PROVE  FALSE
  BY <1>7, <1>12 DEF Opens
<1>13. ASSUME StopAccepting \/ Exit \/ UNCHANGED connVars
       PROVE  FALSE
  BY <1>5, <1>13 DEF StopAccepting, Exit, connVars, clientEnd
<1>14. \/ \E d \in Conns : ConnStep(d)
       \/ \E d \in Waits : WaitCalls(d)
       \/ WaitStep /\ Returned
       \/ \E d \in Conns, line \in {"ping", "subscribe"} : Opens(d, line)
       \/ StopAccepting \/ Exit \/ UNCHANGED connVars
  BY <1>1, <1>6 DEF Next, ConnStep
<1> QED BY <1>9, <1>10, <1>11, <1>12, <1>13, <1>14

\* A call that ends in failure leaves no answer behind unread.
THEOREM FailureIsUnanswered == Spec => FailureMeansNoAnswer
<1>1. IInv /\ [Next]_vars => [\A c \in Conns : outcome'[c].kind = "Failed" /\ outcome[c].kind # "Failed"
                                                => outbox[c] = <<>>]_vars
  BY FailsEmptyHanded
<1> QED BY <1>1, Inductive, PTL DEF Spec, FailureMeansNoAnswer

=============================================================================
