-------------------------- MODULE LogPipelineProofs --------------------------
(****************************************************************************)
(* Theorems about LogPipeline, for every number of senders and lines, every *)
(* allowance, every size of a file and every history of files.              *)
(*                                                                          *)
(* ChannelIInv: a sum over the senders says what they hold in hand, and the *)
(* allowance has a place for every line under way.  TrailIInv: a line is in *)
(* one place.  FilesIInv: the files from the oldest to the youngest, the    *)
(* writer's buffer, the line in hand and the queue are in the order of      *)
(* `accepted', and as long as no error was reported each begins where the   *)
(* one before it ends.  FollowIInv: what the follower would read next comes *)
(* after all that it printed.                                               *)
(****************************************************************************)
EXTENDS LogPipeline, FiniteSetTheorems, FunctionTheorems, SequenceTheorems, WellFoundedInduction, TLAPS

\* A set of numbers has a least one: induction on numbers in first-order form.
LEMMA Least ==
  ASSUME NEW T \in SUBSET Nat, T # {}
  PROVE  \E n \in T : \A m \in T : n <= m
<1> DEFINE R == OpToRel(<, Nat)
<1>1. IsWellFoundedOn(R, Nat)
  BY NatLessThanWellFounded
<1>2. \A n, m \in Nat : n < m => <<n, m>> \in R
  BY DEF OpToRel
<1> HIDE DEF R
<1>3. PICK n \in T : \A m \in T : ~(<<m, n>> \in R)
  BY <1>1, WFMin
<1>4. ASSUME NEW m \in T
      PROVE  n <= m
  <2>1. m \in Nat /\ n \in Nat /\ ~(m < n)
    BY <1>2, <1>3
  <2> QED BY <2>1
<1> QED BY <1>4
-----------------------------------------------------------------------------
(* Sums over the senders.                                                   *)

Pick(T) == CHOOSE x \in T : TRUE

\* The recursive function of MapThenSumSet, unfolded: c says what is summed.
Adds(c, f) ==
  [T \in SUBSET Senders |-> IF T = {} THEN 0 ELSE c[Pick(T)] + f[T \ {Pick(T)}]]

Sums(c) == CHOOSE f : f = Adds(c, f)

UpTo(n) == {T \in SUBSET Senders : Cardinality(T) <= n}

\* f has the sums over the sets of at most n senders.
SumsUpTo(c, n, f) ==
  /\ f \in [UpTo(n) -> Int]
  /\ \A T \in UpTo(n) : f[T] = IF T = {} THEN 0 ELSE c[Pick(T)] + f[T \ {Pick(T)}]

\* A set of senders is finite, and smaller without the sender picked from it.
LEMMA PickFacts ==
  ASSUME NEW T \in SUBSET Senders
  PROVE  /\ IsFiniteSet(T) /\ Cardinality(T) \in Nat
         /\ Cardinality(T) <= Cardinality(Senders) /\ Cardinality(Senders) \in Nat
         /\ T = {} <=> Cardinality(T) = 0
         /\ T # {} => /\ Pick(T) \in T
                      /\ T \ {Pick(T)} \in SUBSET Senders
                      /\ Cardinality(T \ {Pick(T)}) = Cardinality(T) - 1
<1>1. IsFiniteSet(Senders)
  BY AllowanceAssumption
<1>2. /\ IsFiniteSet(T) /\ Cardinality(T) \in Nat /\ Cardinality(Senders) \in Nat
      /\ Cardinality(T) <= Cardinality(Senders)
  BY <1>1, FS_Subset, FS_CardinalityType
<1>3. T = {} <=> Cardinality(T) = 0
  BY <1>2, FS_EmptySet
<1>4. ASSUME T # {}
      PROVE  Pick(T) \in T
  BY <1>4 DEF Pick
<1>5. ASSUME T # {}
      PROVE  Cardinality(T \ {Pick(T)}) = Cardinality(T) - 1
  BY <1>2, <1>4, <1>5, FS_RemoveElement
<1> QED BY <1>2, <1>3, <1>4, <1>5

\* There are sums over the sets of at most n senders, by induction on n.
LEMMA SumsExistUpTo ==
  ASSUME NEW c \in [Senders -> Int], NEW n \in Nat
  PROVE  \E f : SumsUpTo(c, n, f)
<1> DEFINE Bad == {m \in Nat : ~ \E f : SumsUpTo(c, m, f)}
<1>1. ASSUME Bad # {}
      PROVE  FALSE
  <2>1. PICK m \in Bad : \A k \in Bad : m <= k
    <3>1. Bad \in SUBSET Nat
      OBVIOUS
    <3> HIDE DEF Bad
    <3> QED BY <1>1, <3>1, Least
  <2>2. CASE m = 0
    <3>1. ASSUME NEW T \in UpTo(0)
          PROVE  T = {}
      <4>1. T \in SUBSET Senders /\ Cardinality(T) <= 0
        BY DEF UpTo
      <4>2. Cardinality(T) \in Nat /\ (T = {} <=> Cardinality(T) = 0)
        BY <4>1, PickFacts
      <4> QED BY <4>1, <4>2
    <3>2. SumsUpTo(c, 0, [T \in UpTo(0) |-> 0])
      BY <3>1 DEF SumsUpTo
    <3> QED BY <2>2, <3>2
  <2>3. CASE m # 0
    <3>1. m - 1 \in Nat /\ ~(m <= m - 1)
      BY <2>3
    <3>2. PICK f : SumsUpTo(c, m - 1, f)
      BY <2>1, <3>1
    <3> DEFINE next(T) == IF T = {} THEN 0 ELSE c[Pick(T)] + f[T \ {Pick(T)}]
               g == [T \in UpTo(m) |-> next(T)]
    <3>3. ASSUME NEW T \in UpTo(m), T # {}
          PROVE  T \ {Pick(T)} \in UpTo(m - 1) /\ Pick(T) \in Senders
      <4>1. T \in SUBSET Senders /\ Cardinality(T) <= m
        BY DEF UpTo
      <4>2. Cardinality(T) \in Nat /\ Cardinality(T \ {Pick(T)}) = Cardinality(T) - 1 /\ Pick(T) \in T
        BY <3>3, <4>1, PickFacts
      <4> QED BY <4>1, <4>2, <3>1 DEF UpTo
    <3>4. \A T \in UpTo(m - 1) : T \in UpTo(m) /\ f[T] = next(T)
      <4>1. \A T \in UpTo(m - 1) : f[T] = next(T)
        BY <3>2 DEF SumsUpTo
      <4>2. \A T \in UpTo(m - 1) : T \in UpTo(m)
        <5> SUFFICES ASSUME NEW T \in UpTo(m - 1) PROVE T \in UpTo(m)
          OBVIOUS
        <5>1. T \in SUBSET Senders /\ Cardinality(T) <= m - 1
          BY DEF UpTo
        <5>2. Cardinality(T) \in Nat
          BY <5>1, PickFacts
        <5> QED BY <5>1, <5>2, <3>1 DEF UpTo
      <4> QED BY <4>1, <4>2
    <3>5. f \in [UpTo(m - 1) -> Int]
      BY <3>2 DEF SumsUpTo
    <3>6. g \in [UpTo(m) -> Int]
      BY <3>3, <3>5
    <3>7. ASSUME NEW T \in UpTo(m), T # {}
          PROVE  g[T] = c[Pick(T)] + g[T \ {Pick(T)}]
      BY <3>3, <3>4, <3>7
    <3>8. \A T \in UpTo(m) : T = {} => g[T] = 0
      OBVIOUS
    <3> HIDE DEF g, next
    <3>9. SumsUpTo(c, m, g)
      BY <3>6, <3>7, <3>8 DEF SumsUpTo
    <3> QED BY <3>9
  <2> QED BY <2>2, <2>3
<1> QED BY <1>1

\* The sums are what they say.
LEMMA SumsFacts ==
  ASSUME NEW c \in [Senders -> Int]
  PROVE  /\ Sums(c) = Adds(c, Sums(c))
         /\ Sums(c) \in [SUBSET Senders -> Int]
<1> DEFINE N == Cardinality(Senders)
<1>1. N \in Nat /\ UpTo(N) = SUBSET Senders
  BY PickFacts DEF UpTo
<1>2. PICK f : SumsUpTo(c, N, f)
  BY <1>1, SumsExistUpTo
<1>3. f \in [SUBSET Senders -> Int] /\ f = Adds(c, f)
  <2>1. f \in [SUBSET Senders -> Int]
    BY <1>1, <1>2 DEF SumsUpTo
  <2>2. \A T \in SUBSET Senders : f[T] = IF T = {} THEN 0 ELSE c[Pick(T)] + f[T \ {Pick(T)}]
    BY <1>1, <1>2 DEF SumsUpTo
  <2>3. f = [T \in SUBSET Senders |-> f[T]]
    BY <2>1
  <2> QED BY <2>1, <2>2, <2>3 DEF Adds
<1>4. Sums(c) = Adds(c, Sums(c))
  BY <1>3, Zenon DEF Sums
<1> DEFINE g == Sums(c)
<1>5. /\ DOMAIN g = SUBSET Senders
      /\ \A T \in SUBSET Senders : g[T] = IF T = {} THEN 0 ELSE c[Pick(T)] + g[T \ {Pick(T)}]
      /\ g = [T \in SUBSET Senders |-> g[T]]
  BY <1>4 DEF Adds
<1> HIDE DEF g
<1>6. \A T \in SUBSET Senders : g[T] \in Int
  <2> DEFINE Bad == {n \in Nat : \E T \in SUBSET Senders : Cardinality(T) = n /\ g[T] \notin Int}
  <2>1. ASSUME Bad # {}
        PROVE  FALSE
    <3>1. PICK n \in Bad : \A m \in Bad : n <= m
      <4>1. Bad \in SUBSET Nat
        OBVIOUS
      <4> HIDE DEF Bad
      <4> QED BY <2>1, <4>1, Least
    <3>2. PICK T \in SUBSET Senders : Cardinality(T) = n /\ g[T] \notin Int
      OBVIOUS
    <3>3. T # {}
      <4>1. T = {} => g[T] = 0
        BY <1>5
      <4> QED BY <3>2, <4>1
    <3> DEFINE U == T \ {Pick(T)}
    <3>4. U \in SUBSET Senders /\ Cardinality(U) = n - 1 /\ n \in Nat /\ n # 0 /\ Pick(T) \in Senders
      BY <3>2, <3>3, PickFacts
    <3>5. g[U] \in Int
      <4>1. n - 1 \notin Bad
        BY <3>1, <3>4
      <4> HIDE DEF U
      <4> QED BY <3>4, <4>1
    <3>6. g[T] = c[Pick(T)] + g[U]
      BY <1>5, <3>3
    <3> HIDE DEF U
    <3> QED BY <3>2, <3>4, <3>5, <3>6
  <2>2. \A T \in SUBSET Senders : Cardinality(T) \in Nat
    BY PickFacts
  <2> QED BY <2>1, <2>2
<1>7. g \in [SUBSET Senders -> Int]
  BY <1>5, <1>6
<1> QED BY <1>4, <1>7 DEF g

\* What a change of one term does to a sum.
LEMMA SumsChange ==
  ASSUME NEW c \in [Senders -> Int], NEW d \in [Senders -> Int], NEW x \in Senders,
         \A s \in Senders : s # x => d[s] = c[s]
  PROVE  Sums(d)[Senders] = Sums(c)[Senders] + (d[x] - c[x])
<1> DEFINE f == Sums(c)
           g == Sums(d)
           Right(T) == g[T] = f[T] + (IF x \in T THEN d[x] - c[x] ELSE 0)
<1>1. /\ f \in [SUBSET Senders -> Int] /\ g \in [SUBSET Senders -> Int]
      /\ f = Adds(c, f) /\ g = Adds(d, g)
  BY SumsFacts
<1> HIDE DEF f, g
<1>2. /\ \A T \in SUBSET Senders : f[T] = IF T = {} THEN 0 ELSE c[Pick(T)] + f[T \ {Pick(T)}]
      /\ \A T \in SUBSET Senders : g[T] = IF T = {} THEN 0 ELSE d[Pick(T)] + g[T \ {Pick(T)}]
  BY <1>1 DEF Adds
<1> DEFINE Bad == {n \in Nat : \E T \in SUBSET Senders : Cardinality(T) = n /\ ~Right(T)}
<1>3. ASSUME Bad # {}
      PROVE  FALSE
  <2>1. PICK n \in Bad : \A m \in Bad : n <= m
    <3>1. Bad \in SUBSET Nat
      OBVIOUS
    <3> HIDE DEF Bad
    <3> QED BY <1>3, <3>1, Least
  <2>2. PICK T \in SUBSET Senders : Cardinality(T) = n /\ ~Right(T)
    OBVIOUS
  <2>3. T # {}
    <3>1. T = {} => f[T] = 0 /\ g[T] = 0 /\ x \notin T
      BY <1>2
    <3> QED BY <2>2, <3>1
  <2> DEFINE p == Pick(T)
             U == T \ {p}
  <2>4. U \in SUBSET Senders /\ Cardinality(U) = n - 1 /\ n \in Nat /\ n # 0 /\ p \in T
    BY <2>2, <2>3, PickFacts
  <2>5. Right(U)
    <3>1. n - 1 \notin Bad
      BY <2>1, <2>4
    <3> HIDE DEF U, Right
    <3> QED BY <2>4, <3>1
  <2>6. f[T] = c[p] + f[U] /\ g[T] = d[p] + g[U]
    BY <1>2, <2>3
  <2>7. /\ p \in Senders /\ c[p] \in Int /\ d[p] \in Int /\ f[U] \in Int /\ g[U] \in Int
        /\ c[x] \in Int /\ d[x] \in Int
    BY <1>1, <2>4
  <2>8. x \in U <=> x \in T /\ x # p
    OBVIOUS
  <2> HIDE DEF U, p
  <2>9. CASE x = p
    BY <2>2, <2>4, <2>5, <2>6, <2>7, <2>8, <2>9
  <2>10. CASE x # p
    <3>1. d[p] = c[p]
      BY <2>7, <2>10
    <3> QED BY <2>2, <2>5, <2>6, <2>7, <2>8, <2>10, <3>1
  <2> QED BY <2>9, <2>10
<1>4. \A T \in SUBSET Senders : Cardinality(T) \in Nat
  BY PickFacts
<1>5. Right(Senders)
  <2> HIDE DEF Right
  <2> QED BY <1>3, <1>4
<1> QED BY <1>5 DEF f, g

\* Nothing held by anybody sums up to nothing.
LEMMA SumsOfNothing ==
  ASSUME NEW c \in [Senders -> Int], \A s \in Senders : c[s] = 0
  PROVE  Sums(c)[Senders] = 0
<1> DEFINE f == Sums(c)
           Bad == {n \in Nat : \E T \in SUBSET Senders : Cardinality(T) = n /\ f[T] # 0}
<1>1. /\ f \in [SUBSET Senders -> Int] /\ f = Adds(c, f)
  BY SumsFacts
<1> HIDE DEF f
<1>2. \A T \in SUBSET Senders : f[T] = IF T = {} THEN 0 ELSE c[Pick(T)] + f[T \ {Pick(T)}]
  BY <1>1 DEF Adds
<1>3. ASSUME Bad # {}
      PROVE  FALSE
  <2>1. PICK n \in Bad : \A m \in Bad : n <= m
    <3>1. Bad \in SUBSET Nat
      OBVIOUS
    <3> HIDE DEF Bad
    <3> QED BY <1>3, <3>1, Least
  <2>2. PICK T \in SUBSET Senders : Cardinality(T) = n /\ f[T] # 0
    OBVIOUS
  <2>3. T # {}
    BY <1>2, <2>2
  <2> DEFINE U == T \ {Pick(T)}
  <2>4. U \in SUBSET Senders /\ Cardinality(U) = n - 1 /\ n \in Nat /\ n # 0 /\ Pick(T) \in Senders
    BY <2>2, <2>3, PickFacts
  <2>5. f[U] = 0
    <3>1. n - 1 \notin Bad
      BY <2>1, <2>4
    <3> HIDE DEF U
    <3> QED BY <2>4, <3>1
  <2>6. f[T] = c[Pick(T)] + f[U]
    BY <1>2, <2>3
  <2> HIDE DEF U
  <2> QED BY <2>2, <2>4, <2>5, <2>6
<1>4. \A T \in SUBSET Senders : Cardinality(T) \in Nat
  BY PickFacts
<1> QED BY <1>3, <1>4 DEF f

\* What senders hold between taking a count and telling it, and the places they hold.
Holds(snd) == [s \in Senders |-> snd[s].count]

ClaimOf(x) == IF x.at \in {"giveback", "send"} \/ (x.at \in {"look", "swap", "tell"} /\ x.fits)
                THEN 1 ELSE 0

Claims(snd) == [s \in Senders |-> ClaimOf(snd[s])]

Iter(snd) == CHOOSE iter : iter =
               [T \in SUBSET Senders |->
                  IF T = {} THEN 0
                    ELSE snd[CHOOSE x \in T : TRUE].count + iter[T \ {CHOOSE x \in T : TRUE}]]

\* The fold that InHand is written with is a sum.
LEMMA IterIsSums ==
  ASSUME NEW snd
  PROVE  Iter(snd) = Sums(Holds(snd))
<1>1. \A T \in SUBSET Senders : T # {} => Pick(T) \in Senders
  BY DEF Pick
<1>2. ASSUME NEW f
      PROVE  Adds(Holds(snd), f) =
               [T \in SUBSET Senders |->
                  IF T = {} THEN 0
                    ELSE snd[CHOOSE x \in T : TRUE].count + f[T \ {CHOOSE x \in T : TRUE}]]
  BY <1>1 DEF Adds, Holds, Pick
<1>3. ASSUME NEW f
      PROVE  (f = Adds(Holds(snd), f)) <=>
               (f = [T \in SUBSET Senders |->
                  IF T = {} THEN 0
                    ELSE snd[CHOOSE x \in T : TRUE].count + f[T \ {CHOOSE x \in T : TRUE}]])
  BY <1>2
<1> QED BY <1>3, Zenon DEF Iter, Sums

\* InHand is the sum of what the senders hold, now and after a step.
LEMMA InHandIsSum ==
  /\ InHand = Sums(Holds(sender))[Senders]
  /\ InHand' = Sums(Holds(sender'))[Senders]
<1>1. InHand = Iter(sender)[Senders] /\ InHand' = Iter(sender')[Senders]
  BY DEF InHand, MapThenSumSet, MapThenFoldSet, Iter
<1> QED BY <1>1, IterIsSums

\* A sum of natural numbers is one.
LEMMA SumsOfNat ==
  ASSUME NEW c \in [Senders -> Nat]
  PROVE  Sums(c)[Senders] \in Nat
<1> DEFINE f == Sums(c)
           Bad == {n \in Nat : \E T \in SUBSET Senders : Cardinality(T) = n /\ f[T] \notin Nat}
<1>1. /\ f \in [SUBSET Senders -> Int] /\ f = Adds(c, f)
  <2>1. c \in [Senders -> Int]
    OBVIOUS
  <2> QED BY <2>1, SumsFacts
<1> HIDE DEF f
<1>2. \A T \in SUBSET Senders : f[T] = IF T = {} THEN 0 ELSE c[Pick(T)] + f[T \ {Pick(T)}]
  BY <1>1 DEF Adds
<1>3. ASSUME Bad # {}
      PROVE  FALSE
  <2>1. PICK n \in Bad : \A m \in Bad : n <= m
    <3>1. Bad \in SUBSET Nat
      OBVIOUS
    <3> HIDE DEF Bad
    <3> QED BY <1>3, <3>1, Least
  <2>2. PICK T \in SUBSET Senders : Cardinality(T) = n /\ f[T] \notin Nat
    OBVIOUS
  <2>3. T # {}
    <3>1. T = {} => f[T] = 0
      BY <1>2
    <3> QED BY <2>2, <3>1
  <2> DEFINE U == T \ {Pick(T)}
  <2>4. U \in SUBSET Senders /\ Cardinality(U) = n - 1 /\ n \in Nat /\ n # 0 /\ Pick(T) \in Senders
    BY <2>2, <2>3, PickFacts
  <2>5. f[U] \in Nat
    <3>1. n - 1 \notin Bad
      BY <2>1, <2>4
    <3> HIDE DEF U
    <3> QED BY <2>4, <3>1
  <2>6. f[T] = c[Pick(T)] + f[U]
    BY <1>2, <2>3
  <2> HIDE DEF U
  <2> QED BY <2>2, <2>4, <2>5, <2>6
<1>4. \A T \in SUBSET Senders : Cardinality(T) \in Nat
  BY PickFacts
<1> QED BY <1>3, <1>4 DEF f
-----------------------------------------------------------------------------
(* The channel.                                                             *)

SenderRecords == [at : Positions, fits : BOOLEAN, count : Nat, n : Nat]

Places == Sums(Claims(sender))[Senders]

\* The log lines in the channel.
Lines(q) == Cardinality({i \in 1..Len(q) : IsLog(q[i])})

Handling == IF collector.at = "handle" /\ IsLog(collector.event) THEN 1 ELSE 0

ChannelAt ==
  /\ sender \in [Senders -> SenderRecords]
  /\ channel \in Seq(Events) /\ open \in BOOLEAN
  /\ queued \in Nat /\ dropped \in Nat /\ lost \in Nat /\ told \in Nat
  /\ collector \in [at : {"recv", "handle", "drain", "done"}, event : Events \cup {NoLine}]
  /\ collector.at = "handle" => collector.event \in Events

SenderAt(s) ==
  /\ sender[s].at # "tell" => sender[s].count = 0
  /\ sender[s].at \in {"giveback", "count"} => ~sender[s].fits
  /\ sender[s].at \in {"look", "send"} => sender[s].fits

\* A line in hand, in the channel or being handled has its place in the allowance.
PlacesAt == queued >= Places + Lines(channel) + Handling

\* What a change of one sender does to the sums.
LEMMA OneSender ==
  ASSUME sender \in [Senders -> SenderRecords], sender' \in [Senders -> SenderRecords],
         NEW s \in Senders, \A t \in Senders : t # s => sender'[t] = sender[t]
  PROVE  /\ InHand' = InHand + (sender'[s].count - sender[s].count)
         /\ Places' = Places + (ClaimOf(sender'[s]) - ClaimOf(sender[s]))
         /\ InHand \in Nat /\ Places \in Nat
<1>1. /\ Holds(sender) \in [Senders -> Nat] /\ Holds(sender') \in [Senders -> Nat]
      /\ Claims(sender) \in [Senders -> Nat] /\ Claims(sender') \in [Senders -> Nat]
  BY DEF Holds, Claims, ClaimOf, SenderRecords
<1>2. /\ Holds(sender) \in [Senders -> Int] /\ Holds(sender') \in [Senders -> Int]
      /\ Claims(sender) \in [Senders -> Int] /\ Claims(sender') \in [Senders -> Int]
  BY <1>1
<1>3. /\ \A t \in Senders : t # s => Holds(sender')[t] = Holds(sender)[t]
      /\ \A t \in Senders : t # s => Claims(sender')[t] = Claims(sender)[t]
      /\ Holds(sender)[s] = sender[s].count /\ Holds(sender')[s] = sender'[s].count
      /\ Claims(sender)[s] = ClaimOf(sender[s]) /\ Claims(sender')[s] = ClaimOf(sender'[s])
  BY DEF Holds, Claims
<1>4. InHand' = InHand + (sender'[s].count - sender[s].count)
  <2> DEFINE c == Holds(sender)
             d == Holds(sender')
  <2>1. /\ c \in [Senders -> Int] /\ d \in [Senders -> Int]
        /\ \A t \in Senders : t # s => d[t] = c[t]
    BY <1>2, <1>3
  <2> HIDE DEF c, d
  <2>2. Sums(d)[Senders] = Sums(c)[Senders] + (d[s] - c[s])
    BY <2>1, SumsChange
  <2> QED BY <1>3, <2>2, InHandIsSum DEF c, d
<1>5. Places' = Places + (ClaimOf(sender'[s]) - ClaimOf(sender[s]))
  <2> DEFINE c == Claims(sender)
             d == Claims(sender')
  <2>1. /\ c \in [Senders -> Int] /\ d \in [Senders -> Int]
        /\ \A t \in Senders : t # s => d[t] = c[t]
    BY <1>2, <1>3
  <2> HIDE DEF c, d
  <2>2. Sums(d)[Senders] = Sums(c)[Senders] + (d[s] - c[s])
    BY <2>1, SumsChange
  <2>3. Places = Sums(c)[Senders] /\ Places' = Sums(d)[Senders]
    BY DEF Places, c, d
  <2> QED BY <1>3, <2>2, <2>3 DEF c, d
<1>6. InHand \in Nat /\ Places \in Nat
  BY <1>1, InHandIsSum, SumsOfNat DEF Places
<1> QED BY <1>4, <1>5, <1>6

\* How the number of log lines in the channel changes.
LEMMA LinesFacts ==
  ASSUME NEW q \in Seq(Events)
  PROVE  /\ Lines(q) \in Nat
         /\ Lines(<<>>) = 0
         /\ \A e \in Events : Lines(Append(q, e)) = Lines(q) + (IF IsLog(e) THEN 1 ELSE 0)
         /\ q # <<>> => Lines(Tail(q)) = Lines(q) - (IF IsLog(Head(q)) THEN 1 ELSE 0)
<1> DEFINE At(p) == {i \in 1..Len(p) : IsLog(p[i])}
<1>1. ASSUME NEW p \in Seq(Events)
      PROVE  At(p) \in SUBSET (1..Len(p)) /\ IsFiniteSet(At(p)) /\ Lines(p) = Cardinality(At(p))
             /\ Lines(p) \in Nat
  <2>1. Len(p) \in Nat /\ At(p) \in SUBSET (1..Len(p))
    OBVIOUS
  <2>2. IsFiniteSet(At(p))
    <3>1. IsFiniteSet(1..Len(p))
      BY <2>1, FS_Interval
    <3> HIDE DEF At
    <3> QED BY <2>1, <3>1, FS_Subset
  <2> QED BY <2>1, <2>2, FS_CardinalityType DEF Lines
<1>2. Lines(<<>>) = 0
  <2>1. At(<<>>) = {} /\ Lines(<<>>) = Cardinality(At(<<>>))
    BY DEF Lines
  <2> QED BY <2>1, FS_EmptySet
<1>3. ASSUME NEW e \in Events
      PROVE  Lines(Append(q, e)) = Lines(q) + (IF IsLog(e) THEN 1 ELSE 0)
  <2> DEFINE r == Append(q, e)
             n == Len(q) + 1
  <2>1. /\ r \in Seq(Events) /\ Len(r) = n /\ Len(q) \in Nat /\ r[n] = e
        /\ \A i \in 1..Len(q) : r[i] = q[i]
    OBVIOUS
  <2>2. At(r) = At(q) \cup (IF IsLog(e) THEN {n} ELSE {})
    <3> HIDE DEF r
    <3> QED BY <2>1
  <2>3. n \notin At(q)
    BY <2>1
  <2> HIDE DEF At, n, r
  <2>4. Cardinality(At(q) \cup {n}) = Cardinality(At(q)) + 1
    BY <1>1, <2>3, FS_AddElement
  <2>5. Lines(r) = Cardinality(At(r)) /\ Lines(q) = Cardinality(At(q)) /\ Lines(q) \in Nat
    BY <1>1, <2>1
  <2>6. CASE IsLog(e)
    BY <2>2, <2>4, <2>5, <2>6 DEF r
  <2>7. CASE ~IsLog(e)
    <3>1. At(r) = At(q)
      BY <2>2, <2>7
    <3> QED BY <2>5, <2>7, <3>1 DEF r
  <2> QED BY <2>6, <2>7
<1>4. ASSUME q # <<>>
      PROVE  Lines(Tail(q)) = Lines(q) - (IF IsLog(Head(q)) THEN 1 ELSE 0)
  <2> DEFINE r == Tail(q)
             S == At(r)
             T == At(q) \ {1}
  <2>1. /\ r \in Seq(Events) /\ Len(r) = Len(q) - 1 /\ Len(q) \in Nat \ {0} /\ Head(q) = q[1]
        /\ \A i \in 1..Len(r) : r[i] = q[i + 1]
    BY <1>4
  <2> DEFINE f == [i \in S |-> i + 1]
  <2>2. f \in Bijection(S, T)
    <3>1. \A i \in S : f[i] \in T
      BY <2>1
    <3>2. \A i, j \in S : f[i] = f[j] => i = j
      BY <2>1
    <3>3. \A k \in T : k - 1 \in S /\ f[k - 1] = k
      <4> SUFFICES ASSUME NEW k \in T PROVE k - 1 \in S /\ f[k - 1] = k
        OBVIOUS
      <4>1. k \in 1..Len(q) /\ k # 1 /\ IsLog(q[k])
        OBVIOUS
      <4>2. k - 1 \in 1..Len(r) /\ (k - 1) + 1 = k
        BY <2>1, <4>1
      <4> HIDE DEF r
      <4>3. r[k - 1] = q[k]
        BY <2>1, <4>2
      <4> QED BY <4>1, <4>2, <4>3
    <3>4. f \in [S -> T]
      BY <3>1
    <3> HIDE DEF f, S, T
    <3> QED BY <3>2, <3>3, <3>4, Fun_IsBij
  <2>3. IsFiniteSet(S) /\ IsFiniteSet(At(q)) /\ Lines(r) = Cardinality(S)
        /\ Lines(q) = Cardinality(At(q)) /\ Lines(q) \in Nat
    <3> HIDE DEF r
    <3> QED BY <1>1, <2>1
  <2>4. Cardinality(S) = Cardinality(T)
    <3> HIDE DEF f, S, T
    <3> QED BY <2>2, <2>3, FS_Bijection DEF ExistsBijection
  <2>5. 1 \in At(q) <=> IsLog(Head(q))
    BY <2>1
  <2>6. 1 \in At(q) => Cardinality(T) = Cardinality(At(q)) - 1
    <3> HIDE DEF At
    <3> QED BY <2>3, FS_RemoveElement
  <2>7. 1 \notin At(q) => T = At(q)
    OBVIOUS
  <2> HIDE DEF At, S, T
  <2> QED BY <2>3, <2>4, <2>5, <2>6, <2>7 DEF r
<1> QED BY <1>1, <1>2, <1>3, <1>4

ChannelIInv == ChannelAt /\ (\A s \in Senders : SenderAt(s)) /\ PlacesAt /\ EveryLossIsTold

\* The channel begins with nothing sent, dropped or told.
LEMMA ChannelInit_IInv == Init => ChannelIInv
<1> SUFFICES ASSUME Init PROVE ChannelIInv
  OBVIOUS
<1>1. ChannelAt
  BY DEF Init, ChannelInit, ChannelAt, SenderRecords, Positions
<1>2. \A s \in Senders : SenderAt(s) /\ sender[s].count = 0 /\ ClaimOf(sender[s]) = 0
  BY DEF Init, ChannelInit, SenderAt, ClaimOf
<1>3. InHand = 0
  <2> DEFINE c == Holds(sender)
  <2>1. c \in [Senders -> Int] /\ \A s \in Senders : c[s] = 0
    BY <1>2 DEF Holds
  <2> HIDE DEF c
  <2>2. Sums(c)[Senders] = 0
    BY <2>1, SumsOfNothing
  <2> QED BY <2>2, InHandIsSum DEF c
<1>4. Places = 0
  <2> DEFINE c == Claims(sender)
  <2>1. c \in [Senders -> Int] /\ \A s \in Senders : c[s] = 0
    BY <1>2 DEF Claims
  <2> HIDE DEF c
  <2>2. Sums(c)[Senders] = 0
    BY <2>1, SumsOfNothing
  <2> QED BY <2>2 DEF c, Places
<1>5. Lines(channel) = 0 /\ Handling = 0 /\ queued = 0
  <2>1. <<>> \in Seq(Events) /\ channel = <<>>
    BY DEF Init, ChannelInit
  <2> QED BY <2>1, LinesFacts DEF Init, ChannelInit, Handling
<1>6. EveryLossIsTold
  BY <1>3 DEF Init, ChannelInit, EveryLossIsTold
<1> QED BY <1>1, <1>2, <1>4, <1>5, <1>6 DEF ChannelIInv, PlacesAt

\* What an atomic operation of send() must see to.
LEMMA Balance ==
  ASSUME NEW l \in Int, NEW d \in Int, NEW h \in Int, NEW t \in Int, NEW a \in Int, NEW b \in Int,
         NEW l2 \in Int, NEW d2 \in Int, NEW t2 \in Int,
         l = d + h + t, l2 - l = (d2 - d) + (b - a) + (t2 - t)
  PROVE  l2 = d2 + (h + (b - a)) + t2
OBVIOUS

\* The allowance covers the lines after a step as it did before.
LEMMA Covers ==
  ASSUME NEW q \in Int, NEW p \in Int, NEW m \in Int, NEW h \in Int, NEW a \in Int, NEW b \in Int,
         NEW n \in Int, NEW q2 \in Int, q >= p + m + h, q2 - q >= (b - a) + (n - m)
  PROVE  q2 >= (p + (b - a)) + n + h
OBVIOUS

\* An operation of send() that balances the counters keeps the invariant.
LEMMA SenderMoves ==
  ASSUME ChannelIInv, NEW s \in Senders, UNCHANGED <<open, collector>>,
         sender' \in [Senders -> SenderRecords], SenderAt(s)',
         \A t \in Senders : t # s => sender'[t] = sender[t],
         channel' \in Seq(Events),
         queued' \in Int, dropped' \in Nat, lost' \in Nat, told' \in Nat,
         lost' - lost = (dropped' - dropped) + (sender'[s].count - sender[s].count) + (told' - told),
         queued' - queued >= (ClaimOf(sender'[s]) - ClaimOf(sender[s]))
                               + (Lines(channel') - Lines(channel))
  PROVE  ChannelIInv'
<1>1. /\ ChannelAt /\ PlacesAt /\ EveryLossIsTold /\ \A t \in Senders : SenderAt(t)
      /\ sender \in [Senders -> SenderRecords]
      /\ queued \in Nat /\ dropped \in Nat /\ lost \in Nat /\ told \in Nat
  BY DEF ChannelIInv, ChannelAt
<1>2. /\ InHand' = InHand + (sender'[s].count - sender[s].count)
      /\ Places' = Places + (ClaimOf(sender'[s]) - ClaimOf(sender[s]))
      /\ InHand \in Nat /\ Places \in Nat /\ Places' \in Nat
  <2>1. /\ InHand' = InHand + (sender'[s].count - sender[s].count)
        /\ Places' = Places + (ClaimOf(sender'[s]) - ClaimOf(sender[s]))
        /\ InHand \in Nat /\ Places \in Nat
    BY <1>1, OneSender
  <2>2. Claims(sender') \in [Senders -> Nat]
    BY DEF Claims, ClaimOf
  <2>3. Places' = Sums(Claims(sender'))[Senders]
    BY DEF Places
  <2> QED BY <2>1, <2>2, <2>3, SumsOfNat
<1>3. /\ sender[s].count \in Nat /\ sender'[s].count \in Nat
      /\ ClaimOf(sender[s]) \in Nat /\ ClaimOf(sender'[s]) \in Nat
  BY <1>1 DEF SenderRecords, ClaimOf
<1>4. /\ Lines(channel) \in Nat /\ Lines(channel') \in Nat
      /\ Handling' = Handling /\ Handling \in Nat
  BY <1>1, LinesFacts DEF ChannelAt, Handling
<1>5. EveryLossIsTold'
  <2> DEFINE h == InHand
             k == InHand'
             a == sender[s].count
             b == sender'[s].count
  <2>1. /\ h \in Nat /\ a \in Nat /\ b \in Nat /\ k = h + (b - a) /\ lost = dropped + h + told
        /\ lost' - lost = (dropped' - dropped) + (b - a) + (told' - told)
    BY <1>1, <1>2, <1>3 DEF EveryLossIsTold
  <2>2. EveryLossIsTold' <=> lost' = dropped' + k + told'
    BY DEF EveryLossIsTold
  <2> HIDE DEF h, k, a, b
  <2>3. lost' = dropped' + (h + (b - a)) + told'
    <3>1. /\ lost \in Int /\ dropped \in Int /\ told \in Int /\ h \in Int /\ a \in Int /\ b \in Int
          /\ lost' \in Int /\ dropped' \in Int /\ told' \in Int
      BY <1>1, <2>1
    <3>2. lost = dropped + h + told
      BY <2>1
    <3>3. lost' - lost = (dropped' - dropped) + (b - a) + (told' - told)
      BY <2>1
    <3> DEFINE l == lost'
               d == dropped'
               t == told'
    <3> HIDE DEF l, d, t
    <3>4. l = d + (h + (b - a)) + t
      <4>1. l \in Int /\ d \in Int /\ t \in Int /\ l - lost = (d - dropped) + (b - a) + (t - told)
        BY <3>1, <3>3 DEF l, d, t
      <4> QED BY <3>1, <3>2, <4>1, Balance
    <3> QED BY <3>4 DEF l, d, t
  <2> QED BY <2>1, <2>2, <2>3
<1>6. PlacesAt' /\ queued' \in Nat
  <2> DEFINE p == Places
             q == Places'
             a == ClaimOf(sender[s])
             b == ClaimOf(sender'[s])
             m == Lines(channel)
             n == Lines(channel')
  <2>1. /\ p \in Nat /\ q \in Nat /\ a \in Nat /\ b \in Nat /\ m \in Nat /\ n \in Nat
        /\ q = p + (b - a) /\ queued >= p + m + Handling
        /\ queued' - queued >= (b - a) + (n - m)
    BY <1>1, <1>2, <1>3, <1>4 DEF PlacesAt
  <2>2. PlacesAt' <=> queued' >= q + n + Handling'
    BY DEF PlacesAt
  <2> HIDE DEF p, q, a, b, m, n
  <2>3. queued' >= (p + (b - a)) + n + Handling
    <3>1. /\ queued \in Int /\ queued' \in Int /\ p \in Int /\ a \in Int /\ b \in Int
          /\ m \in Int /\ n \in Int /\ Handling \in Int
      BY <1>1, <1>4, <2>1
    <3> QED BY <2>1, <3>1, Covers
  <2> QED BY <1>4, <2>1, <2>2, <2>3
<1>7. ChannelAt'
  BY <1>1, <1>6 DEF ChannelAt
<1>8. ASSUME NEW t \in Senders
      PROVE  SenderAt(t)'
  BY <1>1, <1>8 DEF SenderAt
<1> QED BY <1>5, <1>6, <1>7, <1>8 DEF ChannelIInv

\* What the channel holds once an event was sent.
LEMMA SentFacts ==
  ASSUME ChannelAt, NEW e \in Events, channel' = Sent(e)
  PROVE  /\ channel' \in Seq(Events)
         /\ Lines(channel') = Lines(channel) + (IF open /\ IsLog(e) THEN 1 ELSE 0)
         /\ Lines(channel) \in Nat
<1>1. channel \in Seq(Events) /\ Append(channel, e) \in Seq(Events) /\ Lines(channel) \in Nat
  BY LinesFacts DEF ChannelAt
<1>2. CASE open
  BY <1>1, <1>2, LinesFacts DEF Sent
<1>3. CASE ~open
  BY <1>1, <1>3 DEF Sent
<1> QED BY <1>2, <1>3

\* Every operation of send() balances them.
LEMMA SenderStepIInv ==
  ASSUME ChannelIInv, NEW s \in Senders, SenderStep(s), UNCHANGED collector
  PROVE  ChannelIInv'
<1> DEFINE x == sender[s]
           y == sender'[s]
<1>1. /\ ChannelAt /\ SenderAt(s) /\ DOMAIN sender = Senders
      /\ sender \in [Senders -> SenderRecords]
      /\ x.at \in Positions /\ x.fits \in BOOLEAN /\ x.count \in Nat /\ x.n \in Nat
      /\ queued \in Nat /\ dropped \in Nat /\ lost \in Nat /\ told \in Nat
      /\ Lines(channel) \in Nat /\ channel \in Seq(Events)
  BY LinesFacts DEF ChannelIInv, ChannelAt, SenderRecords
<1>2. ASSUME NEW r \in SenderRecords, sender' = [sender EXCEPT ![s] = r]
      PROVE  /\ sender' \in [Senders -> SenderRecords] /\ y = r
             /\ \A t \in Senders : t # s => sender'[t] = sender[t]
  BY <1>1, <1>2
<1>3. ASSUME NEW at \in Positions
      PROVE  [x EXCEPT !.at = at] \in SenderRecords
  BY <1>1 DEF SenderRecords
<1>4. ASSUME NEW at \in Positions, Goes(s, at)
      PROVE  /\ sender' \in [Senders -> SenderRecords]
             /\ \A t \in Senders : t # s => sender'[t] = sender[t]
             /\ y.at = at /\ y.fits = x.fits /\ y.count = x.count /\ y.n = x.n
  <2>1. sender' = [sender EXCEPT ![s] = [x EXCEPT !.at = at]]
    BY <1>4 DEF Goes
  <2> QED BY <1>1, <1>2, <1>3, <2>1 DEF SenderRecords
<1>5. ASSUME LineDone(s)
      PROVE  /\ sender' \in [Senders -> SenderRecords]
             /\ \A t \in Senders : t # s => sender'[t] = sender[t]
             /\ y.at = "idle" /\ y.fits = x.fits /\ y.count = x.count /\ y.n = x.n + 1
  <2> DEFINE a == [x EXCEPT !.at = "idle"]
             b == [a EXCEPT !.n = x.n + 1]
  <2>1. a \in SenderRecords /\ a.at = "idle" /\ a.fits = x.fits /\ a.count = x.count /\ a.n = x.n
    BY <1>1, <1>3 DEF Positions, SenderRecords
  <2>2. sender' = [sender EXCEPT ![s] = b]
    BY <1>1, <1>5 DEF LineDone
  <2> HIDE DEF a
  <2>3. /\ b \in SenderRecords /\ b.at = "idle" /\ b.fits = x.fits /\ b.count = x.count
        /\ b.n = x.n + 1
    BY <1>1, <2>1 DEF SenderRecords
  <2> HIDE DEF b
  <2> QED BY <1>2, <2>2, <2>3
<1>6. ASSUME AfterReport(s), x.at = "swap"
      PROVE  /\ sender' \in [Senders -> SenderRecords]
             /\ \A t \in Senders : t # s => sender'[t] = sender[t]
             /\ y.at = (IF x.fits THEN "send" ELSE "idle") /\ y.fits = x.fits /\ y.count = x.count
             /\ y.n = x.n \/ y.n = x.n + 1
  BY <1>4, <1>5, <1>6 DEF AfterReport, Positions
<1> USE DEF SenderAt, ClaimOf
<1>7. CASE Claim(s)
  <2> DEFINE at == CASE ~Fits(queued) -> "giveback"
                     [] FloodOver(queued) -> "look"
                     [] OTHER -> "send"
             a == [x EXCEPT !.fits = Fits(queued)]
             b == [a EXCEPT !.at = at]
  <2>1. /\ Fits(queued) \in BOOLEAN
        /\ at = IF ~Fits(queued) THEN "giveback" ELSE IF FloodOver(queued) THEN "look" ELSE "send"
    <3>1. Fits(queued) \in BOOLEAN /\ FloodOver(queued) \in BOOLEAN
      <4>1. (queued < MaxQueued) \in BOOLEAN /\ (queued < FloodOverBelow) \in BOOLEAN
        OBVIOUS
      <4> QED BY <4>1, Zenon DEF Fits, FloodOver
    <3>2. ~Fits(queued) => at = "giveback"
      <4>1. ~Fits(queued) => ~FloodOver(queued)
        BY <1>1, AllowanceAssumption DEF Fits, FloodOver
      <4> QED BY <4>1, Zenon
    <3>3. Fits(queued) /\ FloodOver(queued) => at = "look"
      BY Zenon
    <3>4. Fits(queued) /\ ~FloodOver(queued) => at = "send"
      BY Zenon
    <3> HIDE DEF at
    <3> QED BY <3>1, <3>2, <3>3, <3>4
  <2>2. sender' = [sender EXCEPT ![s] = b]
    <3> DEFINE fits == Fits(queued)
    <3>1. sender' = [sender EXCEPT ![s].fits = fits, ![s].at = at]
      BY <1>7 DEF Claim
    <3> HIDE DEF fits, at
    <3>2. sender' = [sender EXCEPT ![s] = [[x EXCEPT !.fits = fits] EXCEPT !.at = at]]
      BY <1>1, <3>1
    <3> QED BY <3>2 DEF fits
  <2> HIDE DEF at
  <2>3. a \in SenderRecords /\ a.fits = Fits(queued) /\ a.count = x.count /\ a.n = x.n
    BY <1>1, <2>1 DEF SenderRecords
  <2> HIDE DEF a
  <2>4. /\ b \in SenderRecords /\ b.at = at /\ b.fits = Fits(queued) /\ b.count = x.count
        /\ b.n = x.n
    BY <2>1, <2>3 DEF SenderRecords, Positions
  <2> HIDE DEF b
  <2>5. /\ sender' \in [Senders -> SenderRecords] /\ y = b
        /\ \A t \in Senders : t # s => sender'[t] = sender[t]
    BY <1>2, <2>2, <2>4
  <2>6. x.at = "idle" /\ queued' = queued + 1 /\ UNCHANGED <<channel, open, dropped, lost, told>>
    BY <1>7 DEF Claim
  <2>7. SenderAt(s)' /\ y.count = x.count /\ ClaimOf(y) = 1 /\ ClaimOf(x) = 0
    BY <1>1, <2>1, <2>4, <2>5, <2>6
  <2> HIDE DEF SenderAt, ClaimOf, x, y
  <2> QED BY <1>1, <2>5, <2>6, <2>7, SenderMoves DEF x, y
<1>8. CASE GiveBack(s)
  <2>1. /\ x.at = "giveback" /\ queued' = queued - 1 /\ Goes(s, "count")
        /\ UNCHANGED <<channel, open, dropped, lost, told>>
    BY <1>8 DEF GiveBack
  <2>2. /\ sender' \in [Senders -> SenderRecords]
        /\ \A t \in Senders : t # s => sender'[t] = sender[t]
        /\ y.at = "count" /\ y.fits = x.fits /\ y.count = x.count
    BY <1>4, <2>1 DEF Positions
  <2>3. SenderAt(s)' /\ ClaimOf(y) = 0 /\ ClaimOf(x) = 1
    BY <1>1, <2>1, <2>2
  <2> HIDE DEF SenderAt, ClaimOf, x, y
  <2> QED BY <1>1, <2>1, <2>2, <2>3, SenderMoves DEF x, y
<1>9. CASE Count(s)
  <2>1. /\ x.at = "count" /\ dropped' = dropped + 1 /\ lost' = lost + 1
        /\ Goes(s, "swap") \/ LineDone(s)
        /\ UNCHANGED <<channel, open, queued, told>>
    BY <1>9 DEF Count
  <2>2. /\ sender' \in [Senders -> SenderRecords]
        /\ \A t \in Senders : t # s => sender'[t] = sender[t]
        /\ y.at \in {"swap", "idle"} /\ y.fits = x.fits /\ y.count = x.count
    BY <1>4, <1>5, <2>1 DEF Positions
  <2>3. SenderAt(s)' /\ ClaimOf(y) = 0 /\ ClaimOf(x) = 0
    BY <1>1, <2>1, <2>2
  <2> HIDE DEF SenderAt, ClaimOf, x, y
  <2> QED BY <1>1, <2>1, <2>2, <2>3, SenderMoves DEF x, y
<1>10. CASE Look(s)
  <2>1. /\ x.at = "look"
        /\ Goes(s, "swap") \/ Goes(s, "send")
        /\ UNCHANGED <<channel, open, queued, dropped, lost, told>>
    BY <1>10 DEF Look
  <2>2. /\ sender' \in [Senders -> SenderRecords]
        /\ \A t \in Senders : t # s => sender'[t] = sender[t]
        /\ y.at \in {"swap", "send"} /\ y.fits = x.fits /\ y.count = x.count
    BY <1>4, <2>1 DEF Positions
  <2>3. SenderAt(s)' /\ ClaimOf(y) = 1 /\ ClaimOf(x) = 1
    BY <1>1, <2>1, <2>2
  <2> HIDE DEF SenderAt, ClaimOf, x, y
  <2> QED BY <1>1, <2>1, <2>2, <2>3, SenderMoves DEF x, y
<1>11. CASE Swap(s) /\ dropped = 0
  <2>1. /\ x.at = "swap" /\ AfterReport(s) /\ dropped' = 0
        /\ UNCHANGED <<channel, open, queued, lost, told>>
    BY <1>11 DEF Swap
  <2>2. /\ sender' \in [Senders -> SenderRecords]
        /\ \A t \in Senders : t # s => sender'[t] = sender[t]
        /\ y.at = (IF x.fits THEN "send" ELSE "idle") /\ y.fits = x.fits /\ y.count = x.count
    BY <1>6, <2>1
  <2>3. SenderAt(s)' /\ ClaimOf(y) = ClaimOf(x)
    BY <1>1, <2>1, <2>2
  <2>4. ClaimOf(x) \in Nat
    OBVIOUS
  <2> HIDE DEF SenderAt, ClaimOf, x, y
  <2> QED BY <1>1, <1>11, <2>1, <2>2, <2>3, <2>4, SenderMoves DEF x, y
<1>12. CASE Swap(s) /\ dropped # 0
  <2> DEFINE a == [x EXCEPT !.at = "tell"]
             b == [a EXCEPT !.count = dropped]
  <2>1. /\ x.at = "swap" /\ dropped' = 0 /\ UNCHANGED <<channel, open, queued, lost, told>>
        /\ sender' = [sender EXCEPT ![s] = b]
    BY <1>1, <1>12 DEF Swap
  <2>2. a \in SenderRecords /\ a.at = "tell" /\ a.fits = x.fits /\ a.n = x.n
    BY <1>1, <1>3 DEF SenderRecords, Positions
  <2> HIDE DEF a
  <2>3. b \in SenderRecords /\ b.at = "tell" /\ b.fits = x.fits /\ b.count = dropped /\ b.n = x.n
    BY <1>1, <2>2 DEF SenderRecords
  <2> HIDE DEF b
  <2>4. /\ sender' \in [Senders -> SenderRecords] /\ y = b
        /\ \A t \in Senders : t # s => sender'[t] = sender[t]
    BY <1>2, <2>1, <2>3
  <2>5. SenderAt(s)' /\ ClaimOf(y) = ClaimOf(x) /\ y.count = dropped /\ x.count = 0
    BY <1>1, <2>1, <2>3, <2>4
  <2>6. ClaimOf(x) \in Nat
    OBVIOUS
  <2> HIDE DEF SenderAt, ClaimOf, x, y
  <2> QED BY <1>1, <2>1, <2>4, <2>5, <2>6, SenderMoves DEF x, y
<1>13. CASE Tell(s)
  <2> DEFINE e == Drops(x.count)
             quiet == [x EXCEPT !.count = 0]
             a == [quiet EXCEPT !.at = "send"]
             b == [quiet EXCEPT !.at = "idle"]
             c == [b EXCEPT !.n = x.n + 1]
  <2>1. /\ x.at = "tell" /\ channel' = Sent(e) /\ told' = told + x.count
        /\ UNCHANGED <<open, queued, dropped, lost>>
    BY <1>13 DEF Tell
  <2>2. sender' = [sender EXCEPT ![s] = IF x.fits THEN a ELSE c]
    <3>1. CASE x.fits
      BY <1>1, <1>13, <3>1 DEF Tell
    <3>2. CASE ~x.fits
      BY <1>1, <1>13, <3>2 DEF Tell
    <3> QED BY <3>1, <3>2
  <2>3. e \in Events /\ ~IsLog(e)
    BY <1>1 DEF Drops, Events, IsLog
  <2>4. /\ quiet \in SenderRecords /\ quiet.count = 0 /\ quiet.fits = x.fits /\ quiet.n = x.n
    BY <1>1 DEF SenderRecords
  <2> HIDE DEF quiet, e
  <2>5. /\ a \in SenderRecords /\ a.at = "send" /\ a.count = 0 /\ a.fits = x.fits
        /\ b \in SenderRecords /\ b.at = "idle" /\ b.count = 0 /\ b.fits = x.fits
    <3> HIDE DEF x
    <3>1. a \in SenderRecords /\ a.at = "send" /\ a.count = 0 /\ a.fits = x.fits
      BY <2>4 DEF SenderRecords, Positions
    <3>2. b \in SenderRecords /\ b.at = "idle" /\ b.count = 0 /\ b.fits = x.fits
      BY <2>4 DEF SenderRecords, Positions
    <3> QED BY <3>1, <3>2
  <2> HIDE DEF a, b
  <2>6. c \in SenderRecords /\ c.at = "idle" /\ c.count = 0 /\ c.fits = x.fits
    <3>1. x.n + 1 \in Nat
      BY <1>1
    <3> DEFINE m == x.n + 1
               f == x.fits
    <3> HIDE DEF m, f, x
    <3>2. [b EXCEPT !.n = m] \in SenderRecords /\ [b EXCEPT !.n = m].at = "idle"
          /\ [b EXCEPT !.n = m].count = 0 /\ [b EXCEPT !.n = m].fits = b.fits
      BY <2>5, <3>1 DEF SenderRecords, m
    <3> QED BY <2>5, <3>2 DEF m
  <2> HIDE DEF c
  <2>7. /\ sender' \in [Senders -> SenderRecords] /\ y = IF x.fits THEN a ELSE c
        /\ \A t \in Senders : t # s => sender'[t] = sender[t]
    BY <1>2, <2>2, <2>5, <2>6
  <2>8. SenderAt(s)' /\ ClaimOf(y) = ClaimOf(x) /\ y.count = 0
    <3>1. /\ y.at = (IF x.fits THEN "send" ELSE "idle") /\ y.count = 0 /\ y.fits = x.fits
      <4> HIDE DEF x, y
      <4>1. CASE x.fits
        BY <2>5, <2>7, <4>1
      <4>2. CASE ~x.fits
        BY <2>6, <2>7, <4>2
      <4> QED BY <4>1, <4>2
    <3>2. x.fits \in BOOLEAN
      BY <1>1
    <3>3. SenderAt(s)'
      <4>1. y.at # "tell" => y.count = 0
        BY <3>1
      <4>2. y.at \notin {"giveback", "count"}
        BY <3>1
      <4>3. y.at \in {"look", "send"} => y.fits
        <5> HIDE DEF x, y
        <5>1. CASE x.fits
          BY <3>1, <5>1
        <5>2. CASE ~x.fits
          BY <3>1, <5>2
        <5> QED BY <5>1, <5>2
      <4> QED BY <4>1, <4>2, <4>3 DEF SenderAt
    <3>4. ClaimOf(y) = ClaimOf(x)
      <4> HIDE DEF x, y
      <4> QED BY <2>1, <3>1, <3>2 DEF ClaimOf
    <3> QED BY <3>1, <3>3, <3>4
  <2>9. channel' \in Seq(Events) /\ Lines(channel') = Lines(channel)
    BY <1>1, <2>1, <2>3, SentFacts
  <2>10. ClaimOf(x) \in Nat
    OBVIOUS
  <2> HIDE DEF SenderAt, ClaimOf, x, y
  <2>11. /\ queued' \in Int /\ dropped' \in Nat /\ lost' \in Nat /\ told' \in Nat
         /\ lost' - lost = (dropped' - dropped) + (y.count - x.count) + (told' - told)
    <3> DEFINE n == x.count
    <3>1. n \in Nat
      BY <1>1
    <3> HIDE DEF n
    <3>2. told' = told + n /\ y.count - x.count = 0 - n
      BY <2>1, <2>8 DEF n
    <3>3. lost' - lost = 0 /\ dropped' - dropped = 0 /\ told' - told = n
      BY <1>1, <2>1, <3>1, <3>2
    <3>4. 0 = (0 + (0 - n)) + n
      BY <3>1
    <3>5. queued' \in Int /\ dropped' \in Nat /\ lost' \in Nat /\ told' \in Nat
      BY <1>1, <2>1, <3>1, <3>2
    <3>6. lost' - lost = (dropped' - dropped) + (y.count - x.count) + (told' - told)
      BY <3>2, <3>3, <3>4
    <3> QED BY <3>5, <3>6
  <2>12. queued' - queued >= (ClaimOf(y) - ClaimOf(x)) + (Lines(channel') - Lines(channel))
    BY <1>1, <2>1, <2>8, <2>9, <2>10
  <2> QED BY <2>1, <2>7, <2>8, <2>9, <2>11, <2>12, SenderMoves DEF x, y
<1>14. CASE Send(s)
  <2> DEFINE e == Line(s, x.n + 1)
  <2>1. /\ x.at = "send" /\ channel' = Sent(e) /\ queued' = (IF open THEN queued ELSE queued - 1)
        /\ LineDone(s) /\ UNCHANGED <<open, dropped, lost, told>>
    BY <1>14 DEF Send
  <2>2. e \in Events /\ IsLog(e)
    BY <1>1 DEF Line, LogLines, Events, IsLog
  <2> HIDE DEF e
  <2>3. /\ sender' \in [Senders -> SenderRecords]
        /\ \A t \in Senders : t # s => sender'[t] = sender[t]
        /\ y.at = "idle" /\ y.fits = x.fits /\ y.count = x.count
    BY <1>5, <2>1
  <2>4. SenderAt(s)' /\ ClaimOf(y) = 0 /\ ClaimOf(x) = 1
    BY <1>1, <2>1, <2>3
  <2>5. /\ channel' \in Seq(Events)
        /\ Lines(channel') = Lines(channel) + (IF open THEN 1 ELSE 0)
    BY <1>1, <2>1, <2>2, SentFacts
  <2> HIDE DEF SenderAt, ClaimOf, x, y
  <2> QED BY <1>1, <2>1, <2>3, <2>4, <2>5, SenderMoves DEF x, y
<1>15. CASE Finish(s)
  <2> DEFINE e == Exited(s)
  <2>1. /\ x.at = "idle" /\ channel' = Sent(e) /\ Goes(s, "done")
        /\ UNCHANGED <<open, queued, dropped, lost, told>>
    BY <1>15 DEF Finish
  <2>2. e \in Events /\ ~IsLog(e)
    BY DEF Exited, Events, IsLog
  <2> HIDE DEF e
  <2>3. /\ sender' \in [Senders -> SenderRecords]
        /\ \A t \in Senders : t # s => sender'[t] = sender[t]
        /\ y.at = "done" /\ y.fits = x.fits /\ y.count = x.count
    BY <1>4, <2>1 DEF Positions
  <2>4. SenderAt(s)' /\ ClaimOf(y) = 0 /\ ClaimOf(x) = 0
    BY <1>1, <2>1, <2>3
  <2>5. channel' \in Seq(Events) /\ Lines(channel') = Lines(channel)
    BY <1>1, <2>1, <2>2, SentFacts
  <2> HIDE DEF SenderAt, ClaimOf, x, y
  <2> QED BY <1>1, <2>1, <2>3, <2>4, <2>5, SenderMoves DEF x, y
<1> HIDE DEF SenderAt, ClaimOf
<1> QED BY <1>7, <1>8, <1>9, <1>10, <1>11, <1>12, <1>13, <1>14, <1>15 DEF SenderStep

\* The collector takes events and gives the places of lines back; nothing else
\* touches the channel.
LEMMA RestIInv ==
  ASSUME ChannelIInv, UNCHANGED <<sender, dropped, lost, told>>,
         channel' \in Seq(Events), open' \in BOOLEAN, queued' \in Int,
         collector' \in [at : {"recv", "handle", "drain", "done"}, event : Events \cup {NoLine}],
         collector'.at = "handle" => collector'.event \in Events,
         queued' - queued >= (Lines(channel') - Lines(channel)) + (Handling' - Handling)
  PROVE  ChannelIInv'
<1>1. /\ ChannelAt /\ PlacesAt /\ EveryLossIsTold /\ \A t \in Senders : SenderAt(t)
      /\ sender \in [Senders -> SenderRecords] /\ channel \in Seq(Events)
      /\ queued \in Nat /\ dropped \in Nat /\ lost \in Nat /\ told \in Nat
  BY DEF ChannelIInv, ChannelAt
<1>2. InHand' = InHand
  BY InHandIsSum
<1>3. Places' = Places /\ Places \in Nat
  <2>1. Claims(sender) \in [Senders -> Nat]
    BY DEF Claims, ClaimOf
  <2> QED BY <2>1, SumsOfNat DEF Places
<1>4. Lines(channel) \in Nat /\ Lines(channel') \in Nat /\ Handling \in Nat /\ Handling' \in Nat
  BY <1>1, LinesFacts DEF Handling
<1>5. EveryLossIsTold'
  BY <1>1, <1>2 DEF EveryLossIsTold
<1>6. PlacesAt' /\ queued' \in Nat
  <2> DEFINE p == Places
             m == Lines(channel)
             n == Lines(channel')
             h == Handling
             i == Handling'
             q == queued'
  <2>1. /\ p \in Nat /\ m \in Nat /\ n \in Nat /\ h \in Nat /\ i \in Nat /\ q \in Int
        /\ queued >= p + m + h /\ q - queued >= (n - m) + (i - h)
    BY <1>1, <1>3, <1>4 DEF PlacesAt
  <2>2. PlacesAt' <=> q >= p + n + i
    BY <1>3 DEF PlacesAt
  <2> HIDE DEF p, m, n, h, i, q
  <2>3. q >= p + n + i /\ q \in Nat
    BY <1>1, <2>1
  <2> QED BY <2>2, <2>3 DEF q
<1>7. ChannelAt'
  BY <1>1, <1>6 DEF ChannelAt
<1>8. ASSUME NEW t \in Senders
      PROVE  SenderAt(t)'
  BY <1>1, <1>8 DEF SenderAt
<1> QED BY <1>5, <1>6, <1>7, <1>8 DEF ChannelIInv

\* Every step keeps the channel's invariant.
LEMMA ChannelNext == ChannelIInv /\ [Next]_vars => ChannelIInv'
<1> SUFFICES ASSUME ChannelIInv, [Next]_vars PROVE ChannelIInv'
  OBVIOUS
<1>1. /\ ChannelAt /\ channel \in Seq(Events) /\ Lines(channel) \in Nat /\ Handling \in Nat
      /\ open \in BOOLEAN /\ queued \in Nat
      /\ collector \in [at : {"recv", "handle", "drain", "done"}, event : Events \cup {NoLine}]
      /\ collector.at = "handle" => collector.event \in Events
  BY LinesFacts DEF ChannelIInv, ChannelAt, Handling
<1>2. ASSUME NEW s \in Senders, SenderStep(s), UNCHANGED <<fileVars, collector>>
      PROVE  ChannelIInv'
  BY <1>2, SenderStepIInv
<1>3. CASE CollectTake
  <2>1. /\ channel # <<>> /\ channel' = Tail(channel) /\ collector.at = "recv"
        /\ collector' = [at |-> "handle", event |-> Head(channel)]
        /\ UNCHANGED <<sender, open, queued, dropped, lost, told>>
    BY <1>3 DEF CollectTake, Take
  <2>2. /\ channel' \in Seq(Events) /\ Head(channel) \in Events
        /\ Lines(channel') = Lines(channel) - (IF IsLog(Head(channel)) THEN 1 ELSE 0)
    BY <1>1, <2>1, LinesFacts
  <2>3. /\ collector' \in [at : {"recv", "handle", "drain", "done"}, event : Events \cup {NoLine}]
        /\ collector'.at = "handle" /\ collector'.event = Head(channel)
    BY <2>1, <2>2
  <2>4. Handling = 0 /\ Handling' = IF IsLog(Head(channel)) THEN 1 ELSE 0
    BY <2>1, <2>3 DEF Handling
  <2> QED BY <1>1, <2>1, <2>2, <2>3, <2>4, RestIInv
<1>4. CASE CollectHandle
  <2>1. /\ collector.at = "handle" /\ collector' = [at |-> "recv", event |-> NoLine]
        /\ queued' = (IF IsLog(collector.event) THEN queued - 1 ELSE queued)
        /\ UNCHANGED <<sender, channel, open, dropped, lost, told>>
    BY <1>4 DEF CollectHandle, Release
  <2>2. Handling = (IF IsLog(collector.event) THEN 1 ELSE 0) /\ Handling' = 0
    BY <2>1 DEF Handling
  <2> QED BY <1>1, <2>1, <2>2, RestIInv
<1>5. CASE CollectEnd \/ CollectDone
  <2>1. /\ \/ collector.at = "recv" /\ collector' = [collector EXCEPT !.at = "drain"]
           \/ collector.at = "drain" /\ collector' = [collector EXCEPT !.at = "done"]
        /\ UNCHANGED channelVars
    BY <1>5 DEF CollectEnd, CollectDone
  <2>2. /\ collector' \in [at : {"recv", "handle", "drain", "done"}, event : Events \cup {NoLine}]
        /\ collector'.at # "handle" /\ Handling' = 0 /\ Handling = 0
    BY <1>1, <2>1 DEF Handling
  <2> QED BY <1>1, <2>1, <2>2, RestIInv DEF channelVars
<1>6. CASE GiveUp
  <2>1. /\ collector.at = "recv" /\ collector' = [collector EXCEPT !.at = "drain"]
        /\ open' = FALSE /\ channel' = <<>> /\ UNCHANGED <<sender, queued, dropped, lost, told>>
    BY <1>6 DEF GiveUp, Hangup
  <2>2. /\ collector' \in [at : {"recv", "handle", "drain", "done"}, event : Events \cup {NoLine}]
        /\ collector'.at # "handle" /\ Handling' = 0 /\ Handling = 0
    BY <1>1, <2>1 DEF Handling
  <2>3. channel' \in Seq(Events) /\ Lines(channel') = 0
    <3>1. <<>> \in Seq(Events) /\ Lines(<<>>) = 0
      BY <1>1, LinesFacts
    <3> QED BY <2>1, <3>1
  <2>4. /\ queued' \in Int /\ open' \in BOOLEAN
        /\ queued' - queued >= (Lines(channel') - Lines(channel)) + (Handling' - Handling)
    <3> DEFINE m == Lines(channel)
               n == Lines(channel')
               h == Handling
               i == Handling'
    <3>1. m \in Nat /\ n = 0 /\ h = 0 /\ i = 0 /\ queued' = queued
      BY <1>1, <2>1, <2>2, <2>3
    <3> HIDE DEF m, n, h, i
    <3>2. queued' - queued >= (n - m) + (i - h)
      BY <1>1, <3>1
    <3>3. queued' \in Int
      BY <1>1, <2>1
    <3>4. open' \in BOOLEAN
      BY <2>1, Zenon
    <3> QED BY <3>2, <3>3, <3>4 DEF m, n, h, i
  <2> QED BY <2>1, <2>2, <2>3, <2>4, RestIInv
<1>7. CASE UNCHANGED <<channelVars, collector>>
  <2>1. Handling' = Handling
    BY <1>7 DEF Handling
  <2> QED BY <1>1, <1>7, <2>1, RestIInv DEF channelVars
<1> QED BY <1>2, <1>3, <1>4, <1>5, <1>6, <1>7 DEF Next, CollectorStep, vars

\* The channel's invariant holds throughout.
LEMMA ChannelInductive == Spec => []ChannelIInv
BY ChannelInit_IInv, ChannelNext, PTL DEF Spec

\* Every dropped line is counted, in a sender's hand on its way into a report, or
\* was told, whatever send()s are half-way: Count adds to `dropped', Swap moves the
\* whole of it into one hand, Tell empties the hand.
THEOREM LossesAreTold == Spec => []EveryLossIsTold
<1>1. ChannelIInv => EveryLossIsTold
  BY DEF ChannelIInv
<1> QED BY <1>1, ChannelInductive, PTL

-----------------------------------------------------------------------------
(* A line is in one place: the channel, the collector's hand or the sink.   *)

\* e was sent by now.
Old(e) == e.n \in 1..sender[e.from].n

AcceptedAt ==
  /\ accepted \in Seq(LogLines)
  /\ \A i \in 1..Len(accepted) : Old(accepted[i])
  /\ \A i, j \in 1..Len(accepted) : accepted[i] = accepted[j] => i = j

QueuedLinesAt ==
  /\ \A i \in 1..Len(channel) : IsLog(channel[i]) =>
       /\ Old(channel[i])
       /\ \A j \in 1..Len(channel) : channel[i] = channel[j] => i = j
       /\ \A k \in 1..Len(accepted) : channel[i] # accepted[k]

HandledAt ==
  collector.at = "handle" /\ IsLog(collector.event) =>
    /\ Old(collector.event)
    /\ \A i \in 1..Len(channel) : collector.event # channel[i]
    /\ \A k \in 1..Len(accepted) : collector.event # accepted[k]

TrailIInv == AcceptedAt /\ QueuedLinesAt /\ HandledAt

\* The events that are log lines.
LEMMA LogEvents == \A e \in Events : IsLog(e) <=> e \in LogLines
BY DEF Events, LogLines, IsLog

\* What send() does to the trail of lines.
LEMMA SenderTrail ==
  ASSUME ChannelIInv, NEW s \in Senders, SenderStep(s)
  PROVE  /\ \A t \in Senders : sender[t].n \in Nat /\ sender'[t].n \in Nat
                               /\ sender'[t].n >= sender[t].n
         /\ \/ channel' = channel
            \/ \E e \in Events : ~IsLog(e) /\ channel' = Append(channel, e)
            \/ \E e \in LogLines : /\ e.from = s /\ e.n = sender[s].n + 1
                                   /\ sender'[s].n = sender[s].n + 1
                                   /\ channel' = Append(channel, e)
<1>1. /\ sender \in [Senders -> SenderRecords] /\ DOMAIN sender = Senders
      /\ \A t \in Senders : sender[t].n \in Nat
      /\ sender[s].count \in Nat
  BY DEF ChannelIInv, ChannelAt, SenderRecords
<1>2. ASSUME \/ \E at \in Positions : Goes(s, at)
             \/ \E r \in SenderRecords : r.n = sender[s].n /\ sender' = [sender EXCEPT ![s] = r]
      PROVE  \A t \in Senders : sender'[t].n = sender[t].n
  BY <1>1, <1>2 DEF Goes, SenderRecords
<1>3. ASSUME LineDone(s)
      PROVE  \A t \in Senders : sender'[t].n = IF t = s THEN sender[s].n + 1 ELSE sender[t].n
  BY <1>1, <1>3 DEF LineDone, SenderRecords
<1>4. ASSUME \/ \A t \in Senders : sender'[t].n = sender[t].n
             \/ \A t \in Senders : sender'[t].n = IF t = s THEN sender[s].n + 1 ELSE sender[t].n
      PROVE  \A t \in Senders : /\ sender[t].n \in Nat /\ sender'[t].n \in Nat
                                /\ sender'[t].n >= sender[t].n
  BY <1>1, <1>4
<1>5. CASE Claim(s)
  <2>1. \A t \in Senders : sender'[t].n = sender[t].n
    BY <1>1, <1>5 DEF Claim, SenderRecords
  <2> QED BY <1>4, <1>5, <2>1 DEF Claim
<1>6. CASE GiveBack(s) \/ Look(s)
  <2>1. \E at \in Positions : Goes(s, at)
    BY <1>6 DEF GiveBack, Look, Positions
  <2>2. channel' = channel
    BY <1>6 DEF GiveBack, Look
  <2> QED BY <1>2, <1>4, <2>1, <2>2
<1>7. CASE Count(s)
  <2>1. (\E at \in Positions : Goes(s, at)) \/ LineDone(s)
    BY <1>7 DEF Count, Positions
  <2> QED BY <1>2, <1>3, <1>4, <1>7, <2>1 DEF Count
<1>8. CASE Swap(s)
  <2>1. \/ \E at \in Positions : Goes(s, at)
        \/ LineDone(s)
        \/ sender' = [sender EXCEPT ![s].at = "tell", ![s].count = dropped]
    BY <1>8 DEF Swap, AfterReport, Positions
  <2>2. ASSUME sender' = [sender EXCEPT ![s].at = "tell", ![s].count = dropped]
        PROVE  \A t \in Senders : sender'[t].n = sender[t].n
    BY <1>1, <2>2 DEF SenderRecords
  <2> QED BY <1>2, <1>3, <1>4, <1>8, <2>1, <2>2 DEF Swap
<1>9. CASE Tell(s)
  <2>1. \/ \A t \in Senders : sender'[t].n = sender[t].n
        \/ \A t \in Senders : sender'[t].n = IF t = s THEN sender[s].n + 1 ELSE sender[t].n
    <3>1. CASE sender[s].fits
      <4>1. sender' = [[sender EXCEPT ![s].count = 0] EXCEPT ![s].at = "send"]
        BY <1>9, <3>1 DEF Tell
      <4> QED BY <1>1, <4>1 DEF SenderRecords
    <3>2. CASE ~sender[s].fits
      <4>1. sender' = [[sender EXCEPT ![s].count = 0] EXCEPT ![s].at = "idle", ![s].n = @ + 1]
        BY <1>9, <3>2 DEF Tell
      <4> QED BY <1>1, <4>1 DEF SenderRecords
    <3> QED BY <3>1, <3>2
  <2>2. Drops(sender[s].count) \in Events /\ ~IsLog(Drops(sender[s].count))
    BY <1>1 DEF Drops, Events, IsLog
  <2>3. channel' = channel \/ channel' = Append(channel, Drops(sender[s].count))
    BY <1>9 DEF Tell, Sent
  <2> QED BY <1>4, <2>1, <2>2, <2>3
<1>10. CASE Send(s)
  <2> DEFINE e == Line(s, sender[s].n + 1)
  <2>1. e \in LogLines /\ e.from = s /\ e.n = sender[s].n + 1
    BY <1>1 DEF Line, LogLines
  <2>2. channel' = channel \/ channel' = Append(channel, e)
    BY <1>10 DEF Send, Sent
  <2>3. \A t \in Senders : sender'[t].n = IF t = s THEN sender[s].n + 1 ELSE sender[t].n
    BY <1>3, <1>10 DEF Send
  <2> HIDE DEF e
  <2> QED BY <1>4, <2>1, <2>2, <2>3
<1>11. CASE Finish(s)
  <2>1. \A t \in Senders : sender'[t].n = sender[t].n
    BY <1>2, <1>11 DEF Finish, Positions
  <2>2. Exited(s) \in Events /\ ~IsLog(Exited(s))
    BY DEF Exited, Events, IsLog
  <2>3. channel' = channel \/ channel' = Append(channel, Exited(s))
    BY <1>11 DEF Finish, Sent
  <2> QED BY <1>4, <2>1, <2>2, <2>3
<1> QED BY <1>5, <1>6, <1>7, <1>8, <1>9, <1>10, <1>11 DEF SenderStep

\* The trail follows the channel, the collector and the sink.
LEMMA TrailSenderStep ==
  ASSUME ChannelIInv, TrailIInv, NEW s \in Senders, SenderStep(s), UNCHANGED <<accepted, collector>>
  PROVE  TrailIInv'
<1>1. /\ ChannelAt /\ channel \in Seq(Events) /\ accepted \in Seq(LogLines)
      /\ AcceptedAt /\ QueuedLinesAt /\ HandledAt
      /\ collector.at = "handle" => collector.event \in Events
  BY DEF ChannelIInv, ChannelAt, TrailIInv, AcceptedAt
<1>2. \A t \in Senders : /\ sender[t].n \in Nat /\ sender'[t].n \in Nat
                         /\ sender'[t].n >= sender[t].n
  BY SenderTrail
<1>3. ASSUME NEW e \in LogLines, Old(e)
      PROVE  Old(e)'
  <2>1. e.from \in Senders /\ e.n \in Nat
    BY DEF LogLines
  <2> QED BY <1>2, <1>3, <2>1 DEF Old
<1>4. AcceptedAt'
  <2>1. ASSUME NEW i \in 1..Len(accepted)
        PROVE  Old(accepted[i])'
    <3>1. accepted[i] \in LogLines /\ Old(accepted[i])
      BY <1>1 DEF AcceptedAt
    <3> QED BY <1>3, <3>1 DEF Old
  <2> QED BY <1>1, <2>1 DEF AcceptedAt
<1>5. ASSUME collector.at = "handle", IsLog(collector.event)
      PROVE  collector.event \in LogLines /\ Old(collector.event) /\ Old(collector.event)'
  <2>1. collector.event \in LogLines
    BY <1>1, <1>5, LogEvents
  <2> QED BY <1>1, <1>3, <1>5, <2>1 DEF HandledAt, Old
<1>6. ASSUME NEW i \in 1..Len(channel), IsLog(channel[i])
      PROVE  channel[i] \in LogLines /\ Old(channel[i])
  BY <1>1, <1>6, LogEvents DEF QueuedLinesAt
<1> DEFINE Kept2(i) == /\ channel[i].n \in 1..sender'[channel[i].from].n
                       /\ \A j \in 1..Len(channel) : channel[i] = channel[j] => i = j
                       /\ \A k \in 1..Len(accepted) : channel[i] # accepted[k]
<1>7. ASSUME NEW i \in 1..Len(channel), IsLog(channel[i])
      PROVE  Kept2(i)
  <2>1. channel[i].n \in 1..sender'[channel[i].from].n
    <3> DEFINE e == channel[i]
    <3>1. e \in LogLines /\ Old(e)
      BY <1>6, <1>7
    <3> HIDE DEF e
    <3>2. e.from \in Senders /\ e.n \in Nat
      BY <3>1 DEF LogLines
    <3>3. e.n \in 1..sender'[e.from].n
      BY <1>2, <3>1, <3>2 DEF Old
    <3> QED BY <3>3 DEF e
  <2> QED BY <1>1, <1>7, <2>1 DEF QueuedLinesAt
<1>8. CASE channel' = channel
  BY <1>1, <1>4, <1>5, <1>7, <1>8 DEF TrailIInv, QueuedLinesAt, HandledAt, Old
<1>9. CASE channel' # channel
  <2>1. PICK e \in Events :
          /\ channel' = Append(channel, e)
          /\ IsLog(e) => /\ e.from = s /\ e.n = sender[s].n + 1
                         /\ sender'[s].n = sender[s].n + 1
    <3>1. \A e \in LogLines : e \in Events
      BY DEF Events
    <3> QED BY <1>9, <3>1, SenderTrail
  <2> DEFINE N == Len(channel)
  <2>2. /\ N \in Nat /\ Len(channel') = N + 1 /\ channel'[N + 1] = e
        /\ \A i \in 1..N : channel'[i] = channel[i]
    BY <1>1, <2>1
  <2>3. ASSUME IsLog(e), NEW f \in LogLines, Old(f)
        PROVE  e # f
    <3>1. f.n \in Nat /\ f.from \in Senders /\ f.n <= sender[f.from].n
      BY <2>3 DEF Old, LogLines
    <3> QED BY <1>2, <2>1, <2>3, <3>1
  <2>4. ASSUME IsLog(e)
        PROVE  /\ \A i \in 1..N : e # channel[i]
               /\ \A k \in 1..Len(accepted) : e # accepted[k]
    <3>1. ASSUME NEW i \in 1..N
          PROVE  e # channel[i]
      <4>1. CASE IsLog(channel[i])
        BY <1>6, <2>3, <2>4, <4>1
      <4>2. CASE ~IsLog(channel[i])
        BY <2>4, <4>2
      <4> QED BY <4>1, <4>2
    <3>2. ASSUME NEW k \in 1..Len(accepted)
          PROVE  e # accepted[k]
      <4>1. accepted[k] \in LogLines /\ Old(accepted[k])
        BY <1>1 DEF AcceptedAt
      <4> QED BY <2>3, <2>4, <4>1
    <3> QED BY <3>1, <3>2
  <2>5. ASSUME collector.at = "handle", IsLog(collector.event)
        PROVE  e # collector.event
    <3>1. CASE IsLog(e)
      BY <1>5, <2>3, <2>5, <3>1
    <3>2. CASE ~IsLog(e)
      BY <2>5, <3>2
    <3> QED BY <3>1, <3>2
  <2>6. QueuedLinesAt'
    <3> SUFFICES ASSUME NEW i \in 1..(N + 1), IsLog(channel'[i])
                 PROVE  /\ channel'[i].n \in 1..sender'[channel'[i].from].n
                        /\ \A j \in 1..(N + 1) : channel'[i] = channel'[j] => i = j
                        /\ \A k \in 1..Len(accepted) : channel'[i] # accepted[k]
      BY <2>2 DEF QueuedLinesAt, Old
    <3>1. CASE i = N + 1
      <4>1. channel'[i] = e
        BY <2>2, <3>1
      <4>2. e.n \in 1..sender'[e.from].n
        BY <1>2, <2>1, <4>1
      <4>3. \A j \in 1..(N + 1) : e = channel'[j] => i = j
        BY <2>2, <2>4, <3>1, <4>1
      <4> QED BY <2>4, <4>1, <4>2, <4>3
    <3>2. CASE i # N + 1
      <4>1. i \in 1..N /\ channel'[i] = channel[i]
        BY <2>2, <3>2
      <4>2. Kept2(i)
        BY <1>7, <4>1
      <4>3. channel[i] # e
        BY <2>4, <4>1
      <4>4. \A j \in 1..(N + 1) : channel[i] = channel'[j] => i = j
        BY <2>2, <4>2, <4>3
      <4> QED BY <4>1, <4>2, <4>4
    <3> QED BY <3>1, <3>2
  <2>7. HandledAt'
    <3> SUFFICES ASSUME collector.at = "handle", IsLog(collector.event)
                 PROVE  /\ Old(collector.event)'
                        /\ \A i \in 1..(N + 1) : collector.event # channel'[i]
                        /\ \A k \in 1..Len(accepted) : collector.event # accepted[k]
      BY <2>2 DEF HandledAt, Old
    <3>1. \A i \in 1..N : collector.event # channel[i]
      BY <1>1 DEF HandledAt
    <3>2. \A i \in 1..(N + 1) : collector.event # channel'[i]
      BY <2>2, <2>5, <3>1
    <3> QED BY <1>1, <1>5, <3>2 DEF HandledAt
  <2> QED BY <1>4, <2>6, <2>7 DEF TrailIInv
<1> QED BY <1>8, <1>9

\* The collector moves a line on, and leaves no copy behind.
LEMMA TrailCollects ==
  ASSUME ChannelIInv, TrailIInv, CollectTake \/ CollectHandle
  PROVE  TrailIInv'
<1>1. /\ channel \in Seq(Events) /\ accepted \in Seq(LogLines)
      /\ AcceptedAt /\ QueuedLinesAt /\ HandledAt
      /\ collector.at = "handle" => collector.event \in Events
  BY DEF ChannelIInv, ChannelAt, TrailIInv, AcceptedAt
<1>2. CASE CollectTake
  <2> DEFINE e == channel[1]
             N == Len(channel)
  <2>1. /\ channel # <<>> /\ channel' = Tail(channel) /\ UNCHANGED <<sender, accepted>>
        /\ collector' = [at |-> "handle", event |-> e]
    BY <1>1, <1>2 DEF CollectTake, Take, fileVars
  <2>2. /\ N \in Nat \ {0} /\ Len(channel') = N - 1 /\ 1 \in 1..N
        /\ \A i \in 1..(N - 1) : i + 1 \in 1..N /\ channel'[i] = channel[i + 1]
    BY <1>1, <2>1
  <2>3. \A i \in 1..N : IsLog(channel[i]) =>
          /\ Old(channel[i])
          /\ \A j \in 1..N : channel[i] = channel[j] => i = j
          /\ \A k \in 1..Len(accepted) : channel[i] # accepted[k]
    BY <1>1 DEF QueuedLinesAt
  <2>4. AcceptedAt'
    BY <1>1, <2>1 DEF AcceptedAt, Old
  <2>5. QueuedLinesAt'
    <3> SUFFICES ASSUME NEW i \in 1..(N - 1), IsLog(channel'[i])
                 PROVE  /\ channel'[i].n \in 1..sender[channel'[i].from].n
                        /\ \A j \in 1..(N - 1) : channel'[i] = channel'[j] => i = j
                        /\ \A k \in 1..Len(accepted) : channel'[i] # accepted[k]
      BY <2>1, <2>2 DEF QueuedLinesAt, Old
    <3>1. i + 1 \in 1..N /\ channel'[i] = channel[i + 1]
      BY <2>2
    <3>2. \A j \in 1..(N - 1) : channel'[i] = channel'[j] => i = j
      <4> SUFFICES ASSUME NEW j \in 1..(N - 1), channel'[i] = channel'[j] PROVE i = j
        OBVIOUS
      <4>1. j + 1 \in 1..N /\ channel'[j] = channel[j + 1]
        BY <2>2
      <4>2. i + 1 = j + 1
        BY <2>3, <3>1, <4>1
      <4> QED BY <2>2, <4>2
    <3> QED BY <2>3, <3>1, <3>2 DEF Old
  <2>6. HandledAt'
    <3> SUFFICES ASSUME IsLog(e)
                 PROVE  /\ e.n \in 1..sender[e.from].n
                        /\ \A i \in 1..(N - 1) : e # channel'[i]
                        /\ \A k \in 1..Len(accepted) : e # accepted[k]
      BY <2>1, <2>2 DEF HandledAt, Old
    <3>1. \A i \in 1..(N - 1) : e # channel'[i]
      <4> SUFFICES ASSUME NEW i \in 1..(N - 1), e = channel'[i] PROVE FALSE
        OBVIOUS
      <4>1. i + 1 \in 1..N /\ channel'[i] = channel[i + 1]
        BY <2>2
      <4>2. 1 = i + 1
        BY <2>2, <2>3, <4>1
      <4> QED BY <2>2, <4>2
    <3> QED BY <2>2, <2>3, <3>1 DEF Old
  <2> QED BY <2>4, <2>5, <2>6 DEF TrailIInv
<1>3. CASE CollectHandle
  <2> DEFINE e == collector.event
             M == Len(accepted)
  <2>1. /\ collector.at = "handle" /\ UNCHANGED <<sender, channel>>
        /\ collector' = [at |-> "recv", event |-> NoLine]
        /\ \/ accepted' = accepted
           \/ IsLog(e) /\ accepted' = Append(accepted, e)
    BY <1>3 DEF CollectHandle, Release, Record, fileVars
  <2>2. HandledAt'
    BY <2>1 DEF HandledAt
  <2>3. CASE accepted' = accepted
    BY <1>1, <2>1, <2>2, <2>3 DEF TrailIInv, AcceptedAt, QueuedLinesAt, Old
  <2>4. CASE IsLog(e) /\ accepted' = Append(accepted, e)
    <3>1. /\ e \in LogLines /\ Old(e)
          /\ \A i \in 1..Len(channel) : e # channel[i]
          /\ \A k \in 1..M : e # accepted[k]
      BY <1>1, <2>1, <2>4, LogEvents DEF HandledAt
    <3> HIDE DEF e
    <3>2. /\ accepted' \in Seq(LogLines) /\ M \in Nat /\ Len(accepted') = M + 1
          /\ accepted'[M + 1] = e /\ \A i \in 1..M : accepted'[i] = accepted[i]
      BY <1>1, <2>4, <3>1
    <3>3. /\ \A i \in 1..M : Old(accepted[i])
          /\ \A i, j \in 1..M : accepted[i] = accepted[j] => i = j
      BY <1>1 DEF AcceptedAt
    <3>4. \A i \in 1..(M + 1) : Old(accepted'[i])
      BY <3>1, <3>2, <3>3
    <3>5. \A i, j \in 1..(M + 1) : accepted'[i] = accepted'[j] => i = j
      <4> SUFFICES ASSUME NEW i \in 1..(M + 1), NEW j \in 1..(M + 1), accepted'[i] = accepted'[j]
                   PROVE  i = j
        OBVIOUS
      <4>1. (i = M + 1 \/ i \in 1..M) /\ (j = M + 1 \/ j \in 1..M)
        BY <3>2
      <4>2. CASE i \in 1..M /\ j \in 1..M
        BY <3>2, <3>3, <4>2
      <4>3. CASE i \in 1..M /\ j = M + 1
        BY <3>1, <3>2, <4>3
      <4>4. CASE i = M + 1 /\ j \in 1..M
        BY <3>1, <3>2, <4>4
      <4> QED BY <4>1, <4>2, <4>3, <4>4
    <3>6. AcceptedAt'
      BY <2>1, <3>2, <3>4, <3>5 DEF AcceptedAt, Old
    <3>7. \A i \in 1..Len(channel) : IsLog(channel[i]) =>
            /\ Old(channel[i])
            /\ \A j \in 1..Len(channel) : channel[i] = channel[j] => i = j
            /\ \A k \in 1..(M + 1) : channel[i] # accepted'[k]
      <4> SUFFICES ASSUME NEW i \in 1..Len(channel), IsLog(channel[i])
                   PROVE  /\ Old(channel[i])
                          /\ \A j \in 1..Len(channel) : channel[i] = channel[j] => i = j
                          /\ \A k \in 1..(M + 1) : channel[i] # accepted'[k]
        OBVIOUS
      <4>1. /\ Old(channel[i])
            /\ \A j \in 1..Len(channel) : channel[i] = channel[j] => i = j
            /\ \A k \in 1..M : channel[i] # accepted[k]
        BY <1>1 DEF QueuedLinesAt
      <4>2. ASSUME NEW k \in 1..(M + 1)
            PROVE  channel[i] # accepted'[k]
        <5>1. k = M + 1 \/ k \in 1..M
          BY <3>2
        <5>2. accepted'[M + 1] = e /\ \A l \in 1..M : accepted'[l] = accepted[l]
          BY <3>2
        <5> QED BY <3>1, <4>1, <5>1, <5>2
      <4> QED BY <4>1, <4>2
    <3>8. QueuedLinesAt'
      BY <2>1, <3>2, <3>7 DEF QueuedLinesAt, Old
    <3> QED BY <2>2, <3>6, <3>8 DEF TrailIInv
  <2> QED BY <2>1, <2>3, <2>4
<1> QED BY <1>2, <1>3

\* Every step keeps a line in one place.
LEMMA TrailNext == ChannelIInv /\ TrailIInv /\ [Next]_vars => TrailIInv'
<1> SUFFICES ASSUME ChannelIInv, TrailIInv, [Next]_vars PROVE TrailIInv'
  OBVIOUS
<1>1. ASSUME NEW s \in Senders, SenderStep(s), UNCHANGED <<fileVars, collector>>
      PROVE  TrailIInv'
  BY <1>1, TrailSenderStep DEF fileVars
<1>2. CASE CollectTake \/ CollectHandle
  BY <1>2, TrailCollects
<1>3. CASE CollectEnd \/ CollectDone
  <2>1. /\ UNCHANGED <<sender, channel, accepted>>
        /\ collector'.at # "handle"
    BY <1>3 DEF CollectEnd, CollectDone, channelVars, fileVars, Shut, ChannelIInv, ChannelAt
  <2> QED BY <2>1 DEF TrailIInv, AcceptedAt, QueuedLinesAt, HandledAt, Old
<1>4. CASE GiveUp
  <2>1. /\ UNCHANGED <<sender, accepted>> /\ channel' = <<>> /\ collector'.at # "handle"
    BY <1>4 DEF GiveUp, Hangup, Shut, ChannelIInv, ChannelAt
  <2> QED BY <2>1 DEF TrailIInv, AcceptedAt, QueuedLinesAt, HandledAt, Old
<1>5. ASSUME UNCHANGED <<channelVars, collector, accepted>>
      PROVE  TrailIInv'
  BY <1>5 DEF channelVars, TrailIInv, AcceptedAt, QueuedLinesAt, HandledAt, Old
<1>6. CASE PumpStep /\ UNCHANGED <<channelVars, collector>>
  BY <1>5, <1>6 DEF PumpStep, Receive, CatchUp, LastFlush, DropWriter, Open, Write, WriteFails,
     RotateFlush, Truncate, Shift, Rename, Reopen, Abandon
<1>7. CASE FollowerStep /\ UNCHANGED <<channelVars, collector>>
  BY <1>5, <1>7 DEF FollowerStep
<1>8. CASE UNCHANGED vars
  BY <1>5, <1>8 DEF vars, fileVars
<1> QED BY <1>1, <1>2, <1>3, <1>4, <1>6, <1>7, <1>8 DEF Next, CollectorStep

\* Nothing was sent yet.
LEMMA TrailInit == Init => TrailIInv
BY DEF Init, ChannelInit, FilesInit, TrailIInv, AcceptedAt, QueuedLinesAt, HandledAt

-----------------------------------------------------------------------------
(* What the files hold.                                                     *)

Real(e) == e \in LogLines /\ e.n \in 1..LineBound[e.from]

Busy == {"record", "truncate", "shift", "rename", "reopen"}

PlaceIn(a, line) == CHOOSE i \in DOMAIN a : a[i] = line

In(fs, n) == IF fs[n] = Absent THEN <<>> ELSE fs[n]

Buffer == IF writer = Absent THEN <<>> ELSE writer.buffer

\* How many of the accepted lines the writer is done with.
Handled == Len(accepted) - Len(queue) - (IF pump \in Busy THEN 1 ELSE 0)

FileTypes ==
  /\ maxFiles \in Nat
  /\ queue \in Seq(LogLines)
  /\ pump \in Busy \cup {"poll", "park", "drop", "done"}
  /\ files \in [Names -> Seq(LogLines) \cup {Absent}]
  /\ writer # Absent => writer \in [at : Names \cup {Unlinked}, size : Nat, buffer : Seq(LogLines),
                                    unflushed : Nat]
  /\ pump \in {"shift", "rename", "reopen"} => maxFiles # 0
  /\ pump = "truncate" => maxFiles = 0
  /\ pump \in {"truncate", "shift", "rename", "reopen"} => writer # Absent

\* The queue is the end of what was accepted, and the line in hand comes before it.
QueueAt ==
  /\ Handled \in Nat
  /\ \A i \in 1..Len(queue) : queue[i] = accepted[(Len(accepted) - Len(queue)) + i]
  /\ pump \in Busy => entry = accepted[Handled + 1]

\* The writer's file is the youngest there is, or its name is gone and nothing is there.
WriterAt ==
  /\ writer # Absent /\ writer.at # Unlinked =>
       files[writer.at] # Absent /\ \A n \in 0..(writer.at - 1) : files[n] = Absent
  /\ writer # Absent /\ writer.at = Unlinked => \A n \in Names : files[n] = Absent
  /\ writer = Absent /\ pump # "done" => \A n \in Names : files[n] = Absent

\* The lines sq are among the first b, one after the other.
Among(a, sq, b) ==
  /\ \A i \in 1..Len(sq) : \E p \in 1..b : a[p] = sq[i]
  /\ \A i, j \in 1..Len(sq) : i < j => PlaceIn(a, sq[i]) < PlaceIn(a, sq[j])

Older(a, sq, tq) ==
  \A i \in 1..Len(sq), j \in 1..Len(tq) : PlaceIn(a, sq[i]) < PlaceIn(a, tq[j])

Ordered(a, fs, buf, b) ==
  /\ \A n \in Names : Among(a, In(fs, n), b) /\ Older(a, In(fs, n), buf)
  /\ \A m, n \in Names : m < n => Older(a, In(fs, n), In(fs, m))
  /\ Among(a, buf, b)

\* sq are the lines of a from place lo + 1 to place hi.
Slice(a, sq, lo, hi) == Len(sq) = hi - lo /\ \A i \in 1..Len(sq) : sq[i] = a[lo + i]

\* Nothing is missing between two cuts: file n ends where file n - 1 begins.
Whole(a, fs, buf, b, cut) ==
  /\ \A n \in Names : cut[n + 1] <= cut[n] /\ Slice(a, In(fs, n), cut[n + 1], cut[n])
  /\ Slice(a, buf, cut[0], b)

Cuts(b) == [0..(maxFiles + 1) -> 0..b]

\* A rotation leaves one name free for a moment.
Gap == CASE pump = "rename" -> {1}
         [] pump = "reopen" -> {0}
         [] OTHER           -> {}

\* Without an error the files are the end of what was handled; something fell off
\* only when every file is there.
SilentAt ==
  ~reported =>
    /\ \E cut \in Cuts(Handled) :
         /\ Whole(accepted, files, Buffer, Handled, cut)
         /\ cut[maxFiles + 1] = 0 \/ \A n \in Names \ Gap : files[n] # Absent
    /\ \A m, n \in Names \ Gap : m < n /\ files[n] # Absent => files[m] # Absent
    /\ \A n \in Gap : files[n] = Absent
    /\ writer # Absent => writer.at = IF pump = "reopen" THEN 1 ELSE 0
    /\ pump \in {"truncate", "shift", "rename", "reopen", "drop"} => Buffer = <<>>

FilesIInv ==
  /\ FileTypes /\ QueueAt /\ WriterAt
  /\ Ordered(accepted, files, Buffer, Handled)
  /\ SilentAt

-----------------------------------------------------------------------------
(* A sender prints its lines and no more.                                   *)

Bounded(s) ==
  /\ sender[s].n <= LineBound[s]
  /\ sender[s].at \notin {"idle", "done"} => sender[s].n < LineBound[s]

Bounds == \A s \in Senders : Bounded(s)

\* No line was printed yet.
LEMMA BoundsInit == Init => Bounds
BY AllowanceAssumption DEF Init, ChannelInit, Bounds, Bounded

\* A sender that claims a place has a line left to print.
LEMMA BoundsSenderStep ==
  ASSUME ChannelIInv, Bounds, NEW s \in Senders, SenderStep(s)
  PROVE  Bounds'
<1>1. /\ sender \in [Senders -> SenderRecords] /\ DOMAIN sender = Senders
      /\ \A t \in Senders : sender[t].n \in Nat /\ LineBound[t] \in Nat
      /\ \A t \in Senders : Bounded(t)
  BY AllowanceAssumption DEF ChannelIInv, ChannelAt, SenderRecords, Bounds
<1>2. ASSUME \A t \in Senders : t # s => sender'[t] = sender[t], Bounded(s)'
      PROVE  Bounds'
  <2>1. ASSUME NEW t \in Senders
        PROVE  Bounded(t)'
    <3>1. CASE t = s
      BY <1>2, <3>1
    <3>2. CASE t # s
      BY <1>1, <1>2, <3>2 DEF Bounded
    <3> QED BY <3>1, <3>2
  <2> QED BY <2>1 DEF Bounds
<1>3. ASSUME NEW at \in Positions, Goes(s, at), at = "done" \/ sender[s].n < LineBound[s]
      PROVE  Bounds'
  <2>1. \A t \in Senders : t # s => sender'[t] = sender[t]
    BY <1>1, <1>3 DEF Goes
  <2>2. sender'[s].at = at /\ sender'[s].n = sender[s].n
    BY <1>1, <1>3 DEF Goes, SenderRecords
  <2>3. Bounded(s)'
    BY <1>1, <1>3, <2>2 DEF Bounded
  <2> QED BY <1>2, <2>1, <2>3
<1>4. ASSUME LineDone(s), sender[s].n < LineBound[s]
      PROVE  Bounds'
  <2>1. \A t \in Senders : t # s => sender'[t] = sender[t]
    BY <1>1, <1>4 DEF LineDone
  <2>2. sender'[s].at = "idle" /\ sender'[s].n = sender[s].n + 1
    BY <1>1, <1>4 DEF LineDone, SenderRecords
  <2>3. Bounded(s)'
    BY <1>1, <1>4, <2>2 DEF Bounded
  <2> QED BY <1>2, <2>1, <2>3
<1>5. sender[s].at \notin {"idle", "done"} => sender[s].n < LineBound[s]
  BY <1>1 DEF Bounded
<1>6. CASE Claim(s)
  <2>1. \A t \in Senders : t # s => sender'[t] = sender[t]
    BY <1>1, <1>6 DEF Claim
  <2>2. sender'[s].n = sender[s].n /\ sender[s].n < LineBound[s]
    BY <1>1, <1>6 DEF Claim, SenderRecords
  <2>3. Bounded(s)'
    BY <1>1, <2>2 DEF Bounded
  <2> QED BY <1>2, <2>1, <2>3
<1>7. CASE GiveBack(s) \/ Look(s)
  <2>1. sender[s].at \notin {"idle", "done"} /\ \E at \in Positions : Goes(s, at)
    BY <1>7 DEF GiveBack, Look, Positions
  <2> QED BY <1>3, <1>5, <2>1
<1>8. CASE Count(s)
  <2>1. /\ sender[s].at \notin {"idle", "done"}
        /\ (\E at \in Positions : Goes(s, at)) \/ LineDone(s)
    BY <1>8 DEF Count, Positions
  <2> QED BY <1>3, <1>4, <1>5, <2>1
<1>9. CASE Swap(s)
  <2>1. /\ sender[s].at \notin {"idle", "done"}
        /\ \/ \E at \in Positions : Goes(s, at)
           \/ LineDone(s)
           \/ sender' = [sender EXCEPT ![s].at = "tell", ![s].count = dropped]
    BY <1>9 DEF Swap, AfterReport, Positions
  <2>2. ASSUME sender' = [sender EXCEPT ![s].at = "tell", ![s].count = dropped]
        PROVE  Bounds'
    <3>1. \A t \in Senders : t # s => sender'[t] = sender[t]
      BY <1>1, <2>2
    <3>2. sender'[s].n = sender[s].n /\ sender[s].n < LineBound[s]
      BY <1>1, <1>5, <2>1, <2>2 DEF SenderRecords
    <3>3. Bounded(s)'
      BY <1>1, <3>2 DEF Bounded
    <3> QED BY <1>2, <3>1, <3>3
  <2> QED BY <1>3, <1>4, <1>5, <2>1, <2>2
<1>10. CASE Tell(s)
  <2>1. sender[s].n < LineBound[s]
    BY <1>5, <1>10 DEF Tell
  <2>2. CASE sender[s].fits
    <3>1. sender' = [[sender EXCEPT ![s].count = 0] EXCEPT ![s].at = "send"]
      BY <1>10, <2>2 DEF Tell
    <3>2. \A t \in Senders : t # s => sender'[t] = sender[t]
      BY <1>1, <3>1
    <3>3. sender'[s].n = sender[s].n
      BY <1>1, <3>1 DEF SenderRecords
    <3>4. Bounded(s)'
      BY <1>1, <2>1, <3>3 DEF Bounded
    <3> QED BY <1>2, <3>2, <3>4
  <2>3. CASE ~sender[s].fits
    <3>1. sender' = [[sender EXCEPT ![s].count = 0] EXCEPT ![s].at = "idle", ![s].n = @ + 1]
      BY <1>10, <2>3 DEF Tell
    <3>2. \A t \in Senders : t # s => sender'[t] = sender[t]
      BY <1>1, <3>1
    <3>3. sender'[s].n = sender[s].n + 1 /\ sender'[s].at = "idle"
      BY <1>1, <3>1 DEF SenderRecords
    <3>4. Bounded(s)'
      BY <1>1, <2>1, <3>3 DEF Bounded
    <3> QED BY <1>2, <3>2, <3>4
  <2> QED BY <2>2, <2>3
<1>11. CASE Send(s)
  <2>1. sender[s].at \notin {"idle", "done"} /\ LineDone(s)
    BY <1>11 DEF Send
  <2> QED BY <1>4, <1>5, <2>1
<1>12. CASE Finish(s)
  <2>1. Goes(s, "done") /\ "done" \in Positions
    BY <1>12 DEF Finish, Positions
  <2> QED BY <1>3, <2>1
<1> QED BY <1>6, <1>7, <1>8, <1>9, <1>10, <1>11, <1>12 DEF SenderStep

\* Every step keeps the bounds.
LEMMA BoundsNext == ChannelIInv /\ Bounds /\ [Next]_vars => Bounds'
<1> SUFFICES ASSUME ChannelIInv, Bounds, [Next]_vars PROVE Bounds'
  OBVIOUS
<1>1. ASSUME NEW s \in Senders, SenderStep(s)
      PROVE  Bounds'
  BY <1>1, BoundsSenderStep
<1>2. ASSUME UNCHANGED sender
      PROVE  Bounds'
  BY <1>2 DEF Bounds, Bounded
<1>3. (\E s \in Senders : SenderStep(s)) \/ UNCHANGED sender
  BY DEF Next, CollectorStep, CollectTake, CollectHandle, CollectEnd, CollectDone, GiveUp, Take,
         Release, Hangup, channelVars, vars
<1> QED BY <1>1, <1>2, <1>3

\* The lines that the sink took, in the order it took them.
Sound(a) ==
  /\ a \in Seq(LogLines)
  /\ \A i \in 1..Len(a) : Real(a[i])
  /\ \A i, j \in 1..Len(a) : a[i] = a[j] => i = j

SourceIInv == ChannelIInv /\ TrailIInv /\ Bounds

\* What the channel promises the files is kept by every step.
LEMMA SourceInductive == (Init => SourceIInv) /\ (SourceIInv /\ [Next]_vars => SourceIInv')
BY ChannelInit_IInv, ChannelNext, TrailInit, TrailNext, BoundsInit, BoundsNext DEF SourceIInv

\* The sink takes real lines, each of them once.
LEMMA SourceIsSound == SourceIInv => Sound(accepted)
<1> SUFFICES ASSUME SourceIInv PROVE Sound(accepted)
  OBVIOUS
<1>1. ASSUME NEW i \in 1..Len(accepted)
      PROVE  Real(accepted[i])
  <2> DEFINE e == accepted[i]
  <2>1. e \in LogLines /\ Old(e)
    BY DEF SourceIInv, TrailIInv, AcceptedAt
  <2> HIDE DEF e
  <2>2. e.from \in Senders
    BY <2>1 DEF LogLines
  <2>3. /\ sender[e.from].n \in Nat /\ LineBound[e.from] \in Nat
        /\ sender[e.from].n <= LineBound[e.from]
    BY <2>2, AllowanceAssumption
       DEF SourceIInv, ChannelIInv, ChannelAt, SenderRecords, Bounds, Bounded
  <2>4. Real(e)
    BY <2>1, <2>3 DEF Real, Old
  <2> QED BY <2>4 DEF e
<1> QED BY <1>1 DEF Sound, SourceIInv, TrailIInv, AcceptedAt

-----------------------------------------------------------------------------
(* Bytes of lines.                                                          *)

Loop(lines, f) == [n \in 0..Len(lines) |-> IF n = 0 THEN 0 ELSE f[n - 1] + Needed(lines[n])]

Sizes(lines) == CHOOSE f : f = Loop(lines, f)

\* f has the sizes of the first n lines.
SizesUpTo(lines, n, f) ==
  f \in [0..n -> Nat] /\ f[0] = 0 /\ \A m \in 1..n : f[m] = f[m - 1] + Needed(lines[m])

\* Every line that was printed takes room.
LEMMA NeededFacts == \A e : Real(e) => Needed(e) \in Nat \ {0}
<1> SUFFICES ASSUME NEW e, Real(e) PROVE Needed(e) \in Nat \ {0}
  OBVIOUS
<1>1. e.from \in Senders /\ e.n \in 1..LineBound[e.from] /\ e = Line(e.from, e.n)
  BY DEF Real, LogLines, Line
<1>2. Needed(Line(e.from, e.n)) \in Nat \ {0}
  BY <1>1, PipelineAssumption
<1> QED BY <1>1, <1>2

\* Size adds up what the lines need, one after the other.
LEMMA SizesFacts ==
  ASSUME NEW lines \in Seq(LogLines), \A i \in 1..Len(lines) : Real(lines[i])
  PROVE  /\ SizesUpTo(lines, Len(lines), Sizes(lines))
         /\ Size(lines) = Sizes(lines)[Len(lines)] /\ Size(lines) \in Nat
<1> DEFINE N == Len(lines)
<1>1. N \in Nat /\ \A m \in 1..N : Needed(lines[m]) \in Nat
  BY NeededFacts
<1> DEFINE Bad == {n \in 0..N : ~ \E f : SizesUpTo(lines, n, f)}
<1>2. ASSUME Bad # {}
      PROVE  FALSE
  <2>1. PICK n \in Bad : \A m \in Bad : n <= m
    <3>1. Bad \in SUBSET Nat
      BY <1>1
    <3> HIDE DEF Bad
    <3> QED BY <1>2, <3>1, Least
  <2>2. n # 0
    <3>1. SizesUpTo(lines, 0, [m \in 0..0 |-> 0])
      BY DEF SizesUpTo
    <3> QED BY <3>1
  <2>3. n \in 1..N /\ n - 1 \in 0..N /\ n - 1 \in Nat /\ ~(n <= n - 1)
    BY <1>1, <2>2
  <2>4. PICK f : SizesUpTo(lines, n - 1, f)
    BY <2>1, <2>3
  <2> DEFINE g == [m \in 0..n |-> IF m = n THEN f[n - 1] + Needed(lines[n]) ELSE f[m]]
  <2>5. f \in [0..(n - 1) -> Nat] /\ f[n - 1] \in Nat /\ Needed(lines[n]) \in Nat
    BY <1>1, <2>3, <2>4 DEF SizesUpTo
  <2>6. g \in [0..n -> Nat]
    <3>1. ASSUME NEW m \in 0..n
          PROVE  g[m] \in Nat
      <4>1. m = n \/ m \in 0..(n - 1)
        BY <2>3
      <4> QED BY <2>5, <4>1
    <3> QED BY <3>1
  <2>7. g[0] = 0 /\ \A m \in 1..n : g[m] = g[m - 1] + Needed(lines[m])
    <3>1. f[0] = 0 /\ \A m \in 1..(n - 1) : f[m] = f[m - 1] + Needed(lines[m])
      BY <2>4 DEF SizesUpTo
    <3>2. ASSUME NEW m \in 1..n
          PROVE  g[m] = g[m - 1] + Needed(lines[m])
      <4>1. CASE m = n
        BY <2>3, <4>1
      <4>2. CASE m # n
        <5>1. m \in 1..(n - 1) /\ m - 1 \in 0..n /\ m - 1 # n /\ m \in 0..n
          BY <2>3, <4>2
        <5> QED BY <3>1, <4>2, <5>1
      <4> QED BY <4>1, <4>2
    <3>3. 0 \in 0..n /\ 0 # n
      BY <2>3
    <3> QED BY <3>1, <3>2, <3>3
  <2> HIDE DEF g
  <2>8. SizesUpTo(lines, n, g)
    BY <2>6, <2>7 DEF SizesUpTo
  <2> QED BY <2>8
<1>3. PICK f : SizesUpTo(lines, N, f)
  BY <1>1, <1>2
<1>4. f = Loop(lines, f)
  <2>1. f = [n \in 0..N |-> f[n]] /\ f[0] = 0
    BY <1>3 DEF SizesUpTo
  <2>2. \A n \in 0..N : f[n] = IF n = 0 THEN 0 ELSE f[n - 1] + Needed(lines[n])
    BY <1>1, <1>3, <2>1 DEF SizesUpTo
  <2> QED BY <2>1, <2>2 DEF Loop
<1> DEFINE s == Sizes(lines)
<1>5. s = Loop(lines, s)
  BY <1>4, Zenon DEF Sizes
<1> HIDE DEF s
<1>6. /\ s = [n \in 0..N |-> s[n]] /\ s[0] = 0
      /\ \A n \in 1..N : s[n] = s[n - 1] + Needed(lines[n])
  BY <1>1, <1>5 DEF Loop
<1> DEFINE Wrong == {n \in 0..N : s[n] # f[n]}
<1>7. ASSUME Wrong # {}
      PROVE  FALSE
  <2>1. PICK n \in Wrong : \A m \in Wrong : n <= m
    <3>1. Wrong \in SUBSET Nat
      BY <1>1
    <3> HIDE DEF Wrong
    <3> QED BY <1>7, <3>1, Least
  <2>2. n # 0
    BY <1>3, <1>6 DEF SizesUpTo
  <2>3. n \in 1..N /\ n - 1 \in 0..N /\ n - 1 \in Nat /\ ~(n <= n - 1)
    BY <1>1, <2>2
  <2>4. s[n - 1] = f[n - 1]
    BY <2>1, <2>3
  <2>5. s[n] = f[n]
    BY <1>3, <1>6, <2>3, <2>4 DEF SizesUpTo
  <2> QED BY <2>5
<1>8. s = f
  BY <1>3, <1>6, <1>7 DEF SizesUpTo
<1>9. Size(lines) = s[N]
  BY DEF Size, s, Sizes, Loop
<1>10. f[N] \in Nat
  BY <1>1, <1>3 DEF SizesUpTo
<1> QED BY <1>3, <1>8, <1>9, <1>10 DEF s

-----------------------------------------------------------------------------
(* Lines in order.                                                          *)

\* No line was accepted twice, so a line has one place.
LEMMA PlaceFacts ==
  ASSUME NEW a, Sound(a), NEW p \in 1..Len(a)
  PROVE  PlaceIn(a, a[p]) = p
<1>1. p \in DOMAIN a /\ \A i \in DOMAIN a : a[i] = a[p] => i = p
  BY DEF Sound
<1> QED BY <1>1 DEF PlaceIn

\* A line of such a sequence has its place among the first b.
LEMMA AmongPlaces ==
  ASSUME NEW a, Sound(a), NEW b \in 0..Len(a), NEW sq, Among(a, sq, b), NEW i \in 1..Len(sq)
  PROVE  /\ PlaceIn(a, sq[i]) \in 1..b
         /\ a[PlaceIn(a, sq[i])] = sq[i]
         /\ sq[i] \in LogLines /\ Real(sq[i])
<1>1. PICK p \in 1..b : a[p] = sq[i]
  BY DEF Among
<1>2. p \in 1..Len(a)
  BY DEF Sound
<1>3. PlaceIn(a, a[p]) = p
  BY <1>2, PlaceFacts
<1>4. a[p] \in LogLines /\ Real(a[p])
  BY <1>2 DEF Sound
<1> QED BY <1>1, <1>3, <1>4

\* No lines are in order.
LEMMA AmongEmpty == \A a, b : Among(a, <<>>, b)
BY DEF Among

\* No lines are older and younger than any.
LEMMA OlderEmpty == \A a, sq : Older(a, sq, <<>>) /\ Older(a, <<>>, sq)
BY DEF Older

\* The lines of one sequence after those of another.
LEMMA ConcatFacts ==
  ASSUME NEW a, NEW b, NEW sq \in Seq(LogLines), NEW tq \in Seq(LogLines)
  PROVE  /\ sq \o tq \in Seq(LogLines) /\ Len(sq \o tq) = Len(sq) + Len(tq)
         /\ Len(sq) \in Nat /\ Len(tq) \in Nat
         /\ \A i \in 1..Len(sq) : (sq \o tq)[i] = sq[i]
         /\ \A i \in (Len(sq) + 1)..(Len(sq) + Len(tq)) :
              i - Len(sq) \in 1..Len(tq) /\ (sq \o tq)[i] = tq[i - Len(sq)]
OBVIOUS

\* An older sequence before a younger one.
LEMMA AmongConcat ==
  ASSUME NEW a, NEW b, NEW sq \in Seq(LogLines), NEW tq \in Seq(LogLines),
         Among(a, sq, b), Among(a, tq, b), Older(a, sq, tq)
  PROVE  Among(a, sq \o tq, b)
<1> DEFINE M == Len(sq)
           N == Len(tq)
           uq == sq \o tq
<1>1. /\ M \in Nat /\ N \in Nat /\ Len(uq) = M + N
      /\ \A i \in 1..M : uq[i] = sq[i]
      /\ \A i \in (M + 1)..(M + N) : i - M \in 1..N /\ uq[i] = tq[i - M]
  BY ConcatFacts
<1>2. /\ \A i \in 1..M : \E p \in 1..b : a[p] = sq[i]
      /\ \A i \in 1..N : \E p \in 1..b : a[p] = tq[i]
      /\ \A i, j \in 1..M : i < j => PlaceIn(a, sq[i]) < PlaceIn(a, sq[j])
      /\ \A i, j \in 1..N : i < j => PlaceIn(a, tq[i]) < PlaceIn(a, tq[j])
      /\ \A i \in 1..M, j \in 1..N : PlaceIn(a, sq[i]) < PlaceIn(a, tq[j])
  BY DEF Among, Older
<1> HIDE DEF M, N, uq
<1>3. \A i \in 1..(M + N) : i \in 1..M \/ i \in (M + 1)..(M + N)
  BY <1>1
<1>4. ASSUME NEW i \in 1..(M + N)
      PROVE  \E p \in 1..b : a[p] = uq[i]
  BY <1>1, <1>2, <1>3
<1>5. ASSUME NEW i \in 1..(M + N), NEW j \in 1..(M + N), i < j
      PROVE  PlaceIn(a, uq[i]) < PlaceIn(a, uq[j])
  <2>1. CASE j \in 1..M
    <3>1. i \in 1..M
      BY <1>1, <1>5, <2>1
    <3> QED BY <1>1, <1>2, <1>5, <2>1, <3>1
  <2>2. CASE i \in 1..M /\ j \in (M + 1)..(M + N)
    BY <1>1, <1>2, <2>2
  <2>3. CASE i \in (M + 1)..(M + N) /\ j \in (M + 1)..(M + N)
    <3>1. i - M \in 1..N /\ j - M \in 1..N /\ i - M < j - M
      BY <1>1, <1>5, <2>3
    <3>2. PlaceIn(a, tq[i - M]) < PlaceIn(a, tq[j - M])
      BY <1>2, <3>1
    <3> QED BY <1>1, <2>3, <3>2
  <2> QED BY <1>3, <2>1, <2>2, <2>3
<1>6. Among(a, uq, b)
  BY <1>1, <1>4, <1>5 DEF Among
<1> QED BY <1>6 DEF uq

\* Two sequences that are older than a third are so together.
LEMMA OlderConcat ==
  ASSUME NEW a, NEW sq \in Seq(LogLines), NEW tq \in Seq(LogLines), NEW wq,
         Older(a, sq, wq), Older(a, tq, wq)
  PROVE  Older(a, sq \o tq, wq)
<1> DEFINE M == Len(sq)
           N == Len(tq)
           uq == sq \o tq
<1>1. /\ M \in Nat /\ N \in Nat /\ Len(uq) = M + N
      /\ \A i \in 1..M : uq[i] = sq[i]
      /\ \A i \in (M + 1)..(M + N) : i - M \in 1..N /\ uq[i] = tq[i - M]
  BY ConcatFacts
<1>2. /\ \A i \in 1..M, j \in 1..Len(wq) : PlaceIn(a, sq[i]) < PlaceIn(a, wq[j])
      /\ \A i \in 1..N, j \in 1..Len(wq) : PlaceIn(a, tq[i]) < PlaceIn(a, wq[j])
  BY DEF Older
<1> HIDE DEF M, N, uq
<1>3. \A i \in 1..(M + N) : i \in 1..M \/ i \in (M + 1)..(M + N)
  BY <1>1
<1>4. ASSUME NEW i \in 1..(M + N), NEW j \in 1..Len(wq)
      PROVE  PlaceIn(a, uq[i]) < PlaceIn(a, wq[j])
  BY <1>1, <1>2, <1>3
<1>5. Older(a, uq, wq)
  BY <1>1, <1>4 DEF Older
<1> QED BY <1>5 DEF uq

\* Two sequences that are younger than a third are so together.
LEMMA YoungerConcat ==
  ASSUME NEW a, NEW sq \in Seq(LogLines), NEW tq \in Seq(LogLines), NEW wq,
         Older(a, wq, sq), Older(a, wq, tq)
  PROVE  Older(a, wq, sq \o tq)
<1> DEFINE M == Len(sq)
           N == Len(tq)
           uq == sq \o tq
<1>1. /\ M \in Nat /\ N \in Nat /\ Len(uq) = M + N
      /\ \A i \in 1..M : uq[i] = sq[i]
      /\ \A i \in (M + 1)..(M + N) : i - M \in 1..N /\ uq[i] = tq[i - M]
  BY ConcatFacts
<1>2. /\ \A i \in 1..M, j \in 1..Len(wq) : PlaceIn(a, wq[j]) < PlaceIn(a, sq[i])
      /\ \A i \in 1..N, j \in 1..Len(wq) : PlaceIn(a, wq[j]) < PlaceIn(a, tq[i])
  BY DEF Older
<1> HIDE DEF M, N, uq
<1>3. \A i \in 1..(M + N) : i \in 1..M \/ i \in (M + 1)..(M + N)
  BY <1>1
<1>4. ASSUME NEW i \in 1..(M + N), NEW j \in 1..Len(wq)
      PROVE  PlaceIn(a, wq[j]) < PlaceIn(a, uq[i])
  BY <1>1, <1>2, <1>3
<1>5. Older(a, wq, uq)
  BY <1>1, <1>4 DEF Older
<1> QED BY <1>5 DEF uq

\* What the writer has, and where: w is the LogWriter, b how many lines it has had.
Fine(a, fs, w, b) ==
  /\ maxFiles \in Nat /\ b \in 0..Len(a)
  /\ fs \in [Names -> Seq(LogLines) \cup {Absent}]
  /\ w \in [at : Names \cup {Unlinked}, size : Nat, buffer : Seq(LogLines), unflushed : Nat]
  /\ w.at # Unlinked => fs[w.at] # Absent /\ \A n \in 0..(w.at - 1) : fs[n] = Absent
  /\ w.at = Unlinked => \A n \in Names : fs[n] = Absent
  /\ Ordered(a, fs, w.buffer, b)

\* And nothing is missing after the first `low' lines.
Exact(a, fs, w, b, low) ==
  /\ w.at = 0
  /\ \E cut \in Cuts(b) : Whole(a, fs, w.buffer, b, cut) /\ cut[maxFiles + 1] = low

\* The next line goes into the buffer.
LEMMA PutFacts ==
  ASSUME NEW a, Sound(a), NEW fs, NEW w, NEW b, Fine(a, fs, w, b), b + 1 \in 1..Len(a),
         NEW u \in [at : Names \cup {Unlinked}, size : Nat, buffer : Seq(LogLines), unflushed : Nat],
         u.at = w.at, u.buffer = Append(w.buffer, a[b + 1])
  PROVE  /\ Fine(a, fs, u, b + 1)
         /\ \A low : Exact(a, fs, w, b, low) => Exact(a, fs, u, b + 1, low)
<1> DEFINE e == a[b + 1]
           q == w.buffer
           r == u.buffer
           N == Len(w.buffer)
<1>1. /\ q \in Seq(LogLines) /\ N \in Nat /\ Len(r) = N + 1 /\ r[N + 1] = e
      /\ \A i \in 1..N : r[i] = q[i]
      /\ b \in Nat /\ Len(a) \in Nat /\ b \in 0..Len(a) /\ e \in LogLines
      /\ maxFiles \in Nat /\ b + 1 \in 0..Len(a)
  BY DEF Fine, Sound
<1>2. /\ \A n \in Names : Among(a, In(fs, n), b) /\ Older(a, In(fs, n), q)
      /\ \A m, n \in Names : m < n => Older(a, In(fs, n), In(fs, m))
      /\ Among(a, q, b)
  BY DEF Fine, Ordered
<1>3. PlaceIn(a, e) = b + 1
  BY PlaceFacts
<1> HIDE DEF e, q, r, N
<1>4. ASSUME NEW sq, Among(a, sq, b)
      PROVE  Among(a, sq, b + 1) /\ \A i \in 1..Len(sq) : PlaceIn(a, sq[i]) < PlaceIn(a, e)
  <2>1. \A i \in 1..Len(sq) : PlaceIn(a, sq[i]) \in 1..b
    BY <1>1, <1>4, AmongPlaces
  <2>2. \A p \in 1..b : p \in 1..(b + 1)
    BY <1>1
  <2> QED BY <1>1, <1>3, <1>4, <2>1, <2>2 DEF Among
<1>5. \A i \in 1..(N + 1) : i = N + 1 \/ i \in 1..N
  BY <1>1
<1>6. Among(a, r, b + 1)
  <2>1. ASSUME NEW i \in 1..(N + 1)
        PROVE  \E p \in 1..(b + 1) : a[p] = r[i]
    <3>1. CASE i = N + 1
      BY <1>1, <3>1 DEF e
    <3>2. CASE i \in 1..N
      <4>1. Among(a, q, b + 1)
        BY <1>2, <1>4
      <4>2. \E p \in 1..(b + 1) : a[p] = q[i]
        BY <3>2, <4>1 DEF Among, N, q
      <4> QED BY <1>1, <3>2, <4>2
    <3> QED BY <1>5, <3>1, <3>2
  <2>2. ASSUME NEW i \in 1..(N + 1), NEW j \in 1..(N + 1), i < j
        PROVE  PlaceIn(a, r[i]) < PlaceIn(a, r[j])
    <3>1. i \in 1..N
      BY <1>1, <2>2
    <3>2. CASE j = N + 1
      <4>1. PlaceIn(a, q[i]) < PlaceIn(a, e)
        BY <1>2, <1>4, <3>1 DEF N, q
      <4> QED BY <1>1, <3>1, <3>2, <4>1
    <3>3. CASE j \in 1..N
      <4>1. PlaceIn(a, q[i]) < PlaceIn(a, q[j])
        BY <1>2, <2>2, <3>1, <3>3 DEF Among, N, q
      <4> QED BY <1>1, <3>1, <3>3, <4>1
    <3> QED BY <1>5, <3>2, <3>3
  <2> QED BY <1>1, <2>1, <2>2 DEF Among
<1>7. ASSUME NEW n \in Names
      PROVE  Among(a, In(fs, n), b + 1) /\ Older(a, In(fs, n), r)
  <2> DEFINE sq == In(fs, n)
  <2>1. Among(a, sq, b) /\ Older(a, sq, q)
    BY <1>2
  <2> HIDE DEF sq
  <2>2. ASSUME NEW i \in 1..Len(sq), NEW j \in 1..(N + 1)
        PROVE  PlaceIn(a, sq[i]) < PlaceIn(a, r[j])
    <3>1. CASE j = N + 1
      BY <1>1, <1>4, <2>1, <3>1
    <3>2. CASE j \in 1..N
      BY <1>1, <2>1, <3>2 DEF Older, N, q
    <3> QED BY <1>5, <3>1, <3>2
  <2>3. Older(a, sq, r) /\ Among(a, sq, b + 1)
    BY <1>1, <1>4, <2>1, <2>2 DEF Older
  <2> QED BY <2>3 DEF sq
<1>8. Ordered(a, fs, r, b + 1)
  BY <1>2, <1>6, <1>7 DEF Ordered
<1>9. Fine(a, fs, u, b + 1)
  BY <1>1, <1>8 DEF Fine, r
<1>10. ASSUME NEW low, Exact(a, fs, w, b, low)
       PROVE  Exact(a, fs, u, b + 1, low)
  <2>1. PICK cut \in Cuts(b) : Whole(a, fs, q, b, cut) /\ cut[maxFiles + 1] = low
    BY <1>10 DEF Exact, q
  <2>2. cut[0] \in 0..b /\ cut \in Cuts(b + 1)
    BY <1>1 DEF Cuts
  <2>3. Slice(a, r, cut[0], b + 1)
    <3>1. N = b - cut[0] /\ \A i \in 1..N : q[i] = a[cut[0] + i]
      BY <2>1 DEF Whole, Slice, N, q
    <3>2. cut[0] + (N + 1) = b + 1 /\ N + 1 = (b + 1) - cut[0]
      <4>1. cut[0] \in Int /\ b \in Int /\ N \in Int /\ N = b - cut[0]
        BY <1>1, <2>2, <3>1
      <4> QED BY <4>1
    <3>3. r[N + 1] = a[cut[0] + (N + 1)]
      BY <1>1, <3>2 DEF e
    <3>4. \A i \in 1..N : r[i] = a[cut[0] + i]
      BY <1>1, <3>1
    <3> QED BY <1>1, <1>5, <3>2, <3>3, <3>4 DEF Slice
  <2>4. Whole(a, fs, r, b + 1, cut)
    BY <2>1, <2>3 DEF Whole
  <2> QED BY <1>10, <2>1, <2>2, <2>4 DEF Exact, r
<1> QED BY <1>9, <1>10

\* Two slices that meet are one.
LEMMA SliceConcat ==
  ASSUME NEW a, NEW sq \in Seq(LogLines), NEW tq \in Seq(LogLines), NEW lo \in Int, NEW mid \in Int,
         NEW hi \in Int, Slice(a, sq, lo, mid), Slice(a, tq, mid, hi)
  PROVE  Slice(a, sq \o tq, lo, hi)
<1> DEFINE M == Len(sq)
           N == Len(tq)
           uq == sq \o tq
<1>1. /\ M \in Nat /\ N \in Nat /\ Len(uq) = M + N
      /\ \A i \in 1..M : uq[i] = sq[i]
      /\ \A i \in (M + 1)..(M + N) : i - M \in 1..N /\ uq[i] = tq[i - M]
  BY ConcatFacts
<1>2. /\ M = mid - lo /\ \A i \in 1..M : sq[i] = a[lo + i]
      /\ N = hi - mid /\ \A i \in 1..N : tq[i] = a[mid + i]
  BY DEF Slice
<1> HIDE DEF M, N, uq
<1>3. \A i \in 1..(M + N) : i \in 1..M \/ i \in (M + 1)..(M + N)
  BY <1>1
<1>4. ASSUME NEW i \in 1..(M + N)
      PROVE  uq[i] = a[lo + i]
  <2>1. CASE i \in 1..M
    BY <1>1, <1>2, <2>1
  <2>2. CASE i \in (M + 1)..(M + N)
    <3>1. i - M \in 1..N /\ mid + (i - M) = lo + i
      BY <1>1, <1>2, <2>2
    <3>2. tq[i - M] = a[mid + (i - M)]
      BY <1>2, <3>1
    <3> QED BY <1>1, <2>2, <3>1, <3>2
  <2> QED BY <1>3, <2>1, <2>2
<1>5. M + N = hi - lo
  BY <1>1, <1>2
<1>6. Slice(a, uq, lo, hi)
  BY <1>1, <1>4, <1>5 DEF Slice
<1> QED BY <1>6 DEF uq

\* The buffer goes to the file that the handle is of, or nowhere.
LEMMA FlushFacts ==
  ASSUME NEW a, Sound(a), NEW fs, NEW w, NEW b, Fine(a, fs, w, b),
         NEW u \in [at : Names \cup {Unlinked}, size : Nat, buffer : Seq(LogLines), unflushed : Nat],
         u.at = w.at, u.buffer = <<>>
  PROVE  /\ Fine(a, Flushed(fs, w), u, b)
         /\ \A n \in Names : Flushed(fs, w)[n] = Absent <=> fs[n] = Absent
         /\ \A low : Exact(a, fs, w, b, low) => Exact(a, Flushed(fs, w), u, b, low)
<1> DEFINE gs == Flushed(fs, w)
           q == w.buffer
           k == w.at
           fk == fs[w.at]
<1>1. /\ q \in Seq(LogLines) /\ fs \in [Names -> Seq(LogLines) \cup {Absent}]
      /\ maxFiles \in Nat /\ b \in 0..Len(a) /\ k \in Names \cup {Unlinked}
      /\ k # Unlinked => fk # Absent /\ fk \in Seq(LogLines) /\ \A n \in 0..(k - 1) : fs[n] = Absent
      /\ k = Unlinked => \A n \in Names : fs[n] = Absent
  BY DEF Fine
<1>2. /\ \A n \in Names : Among(a, In(fs, n), b) /\ Older(a, In(fs, n), q)
      /\ \A m, n \in Names : m < n => Older(a, In(fs, n), In(fs, m))
      /\ Among(a, q, b)
  BY DEF Fine, Ordered
<1>3. CASE k = Unlinked
  <2>1. gs = fs
    BY <1>3 DEF Flushed
  <2>2. Ordered(a, gs, u.buffer, b)
    BY <1>2, <2>1, AmongEmpty, OlderEmpty DEF Ordered
  <2>3. Fine(a, gs, u, b)
    BY <1>1, <1>3, <2>1, <2>2 DEF Fine
  <2>4. ~ \E low : Exact(a, fs, w, b, low)
    <3>1. k # 0
      BY <1>3, PipelineAssumption
    <3> QED BY <3>1 DEF Exact
  <2> QED BY <2>1, <2>3, <2>4
<1>4. CASE k # Unlinked
  <2> DEFINE new == fk \o q
  <2>1. k \in Names /\ fk \in Seq(LogLines) /\ In(fs, k) = fk /\ new \in Seq(LogLines)
    BY <1>1, <1>4, ConcatFacts DEF In
  <2>2. new # Absent
    BY <2>1, PipelineAssumption
  <2>3. gs = [fs EXCEPT ![k] = new]
    BY <1>4 DEF Flushed
  <2> HIDE DEF gs
  <2>4. gs[k] = new /\ \A n \in Names : n # k => gs[n] = fs[n]
    BY <1>1, <2>1, <2>3
  <2>5. gs \in [Names -> Seq(LogLines) \cup {Absent}]
    BY <1>1, <2>1, <2>3
  <2>6. \A n \in Names : gs[n] = Absent <=> fs[n] = Absent
    BY <1>1, <1>4, <2>2, <2>4
  <2>7. In(gs, k) = new /\ \A n \in Names : n # k => In(gs, n) = In(fs, n)
    BY <2>2, <2>4 DEF In
  <2>8. Among(a, fk, b) /\ Older(a, fk, q) /\ Among(a, q, b)
    BY <1>2, <2>1
  <2>9. Among(a, new, b)
    BY <1>1, <2>1, <2>8, AmongConcat
  <2>10. \A n \in Names : n < k => In(fs, n) = <<>>
    <3> SUFFICES ASSUME NEW n \in Names, n < k PROVE In(fs, n) = <<>>
      OBVIOUS
    <3>1. n \in 0..(k - 1)
      BY <1>1, <2>1 DEF Names
    <3> QED BY <1>1, <1>4, <3>1 DEF In
  <2> HIDE DEF new
  <2>11. ASSUME NEW m \in Names, NEW n \in Names, m < n
         PROVE  Older(a, In(gs, n), In(gs, m))
    <3>1. CASE m # k /\ n # k
      BY <1>2, <2>7, <2>11, <3>1
    <3>2. CASE n = k
      <4>1. m # k /\ In(gs, m) = <<>>
        BY <2>7, <2>10, <2>11, <3>2, <1>1 DEF Names
      <4> QED BY <4>1, OlderEmpty
    <3>3. CASE m = k
      <4>1. n # k /\ In(gs, n) = In(fs, n) /\ In(gs, m) = new
        BY <2>7, <2>11, <3>3, <1>1 DEF Names
      <4>2. Older(a, In(fs, n), fk) /\ Older(a, In(fs, n), q)
        BY <1>2, <2>1, <2>11, <3>3
      <4>3. Older(a, In(fs, n), new)
        BY <1>1, <2>1, <4>2, YoungerConcat DEF new
      <4> QED BY <4>1, <4>3
    <3> QED BY <3>1, <3>2, <3>3
  <2>12. Ordered(a, gs, u.buffer, b)
    <3>1. \A n \in Names : Among(a, In(gs, n), b)
      BY <1>2, <2>7, <2>9
    <3> QED BY <2>11, <3>1, AmongEmpty, OlderEmpty DEF Ordered
  <2>13. \A n \in 0..(k - 1) : gs[n] = Absent
    <3> SUFFICES ASSUME NEW n \in 0..(k - 1) PROVE gs[n] = Absent
      OBVIOUS
    <3>1. n \in Names /\ n # k
      BY <1>1, <2>1 DEF Names
    <3> QED BY <1>1, <1>4, <2>4, <3>1
  <2>14. Fine(a, gs, u, b)
    BY <1>1, <1>4, <2>2, <2>4, <2>5, <2>12, <2>13 DEF Fine
  <2>15. ASSUME NEW low, Exact(a, fs, w, b, low)
         PROVE  Exact(a, gs, u, b, low)
    <3>1. PICK cut \in Cuts(b) : Whole(a, fs, q, b, cut) /\ cut[maxFiles + 1] = low
      BY <2>15 DEF Exact
    <3>2. k = 0 /\ b \in Nat
      BY <1>1, <2>15 DEF Exact
    <3> DEFINE cut2 == [cut EXCEPT ![0] = b]
    <3>3. /\ cut2 \in Cuts(b) /\ cut2[0] = b /\ \A n \in 0..(maxFiles + 1) : n # 0 => cut2[n] = cut[n]
          /\ \A n \in 0..(maxFiles + 1) : cut[n] \in 0..b
      BY <1>1, <3>2 DEF Cuts
    <3> HIDE DEF cut2
    <3>4. Slice(a, fk, cut[1], cut[0]) /\ Slice(a, q, cut[0], b)
      BY <2>1, <3>1, <3>2 DEF Whole, Names
    <3>5. 1 \in 0..(maxFiles + 1) /\ 0 \in 0..(maxFiles + 1) /\ maxFiles + 1 # 0
          /\ maxFiles + 1 \in 0..(maxFiles + 1)
      BY <1>1
    <3>6. Slice(a, new, cut[1], b)
      <4>1. cut[1] \in Int /\ cut[0] \in Int /\ b \in Int
        BY <3>2, <3>3, <3>5
      <4> QED BY <1>1, <2>1, <3>4, <4>1, SliceConcat DEF new
    <3>7. ASSUME NEW n \in Names
          PROVE  cut2[n + 1] <= cut2[n] /\ Slice(a, In(gs, n), cut2[n + 1], cut2[n])
      <4>1. n \in 0..(maxFiles + 1) /\ n + 1 \in 0..(maxFiles + 1) /\ n + 1 # 0
        BY <1>1 DEF Names
      <4>2. CASE n = 0
        BY <2>7, <3>2, <3>3, <3>5, <3>6, <4>1, <4>2
      <4>3. CASE n # 0
        BY <2>7, <3>1, <3>2, <3>3, <4>1, <4>3 DEF Whole
      <4> QED BY <4>2, <4>3
    <3>8. Slice(a, u.buffer, cut2[0], b)
      BY <3>2, <3>3 DEF Slice
    <3>9. Whole(a, gs, u.buffer, b, cut2) /\ cut2[maxFiles + 1] = low
      BY <3>1, <3>3, <3>5, <3>7, <3>8 DEF Whole
    <3> QED BY <3>2, <3>3, <3>9 DEF Exact
  <2> QED BY <2>6, <2>14, <2>15 DEF gs
<1> QED BY <1>3, <1>4

\* What is left of a file, or moved with the others, stays in order.
LEMMA Rearranged ==
  ASSUME NEW a, NEW fs, NEW buf, NEW b, Ordered(a, fs, buf, b), NEW gs, NEW g \in [Names -> Names],
         \A n \in Names : In(gs, n) = <<>> \/ In(gs, n) = In(fs, g[n]),
         \A m, n \in Names : m < n => In(gs, m) = <<>> \/ In(gs, n) = <<>> \/ g[m] < g[n]
  PROVE  Ordered(a, gs, buf, b) /\ Ordered(a, gs, <<>>, b)
<1>1. /\ \A n \in Names : Among(a, In(fs, n), b) /\ Older(a, In(fs, n), buf)
      /\ \A m, n \in Names : m < n => Older(a, In(fs, n), In(fs, m))
      /\ Among(a, buf, b)
  BY DEF Ordered
<1>2. \A n \in Names : Among(a, In(gs, n), b) /\ Older(a, In(gs, n), buf)
  BY <1>1, AmongEmpty, OlderEmpty
<1>3. ASSUME NEW m \in Names, NEW n \in Names, m < n
      PROVE  Older(a, In(gs, n), In(gs, m))
  BY <1>1, <1>3, OlderEmpty
<1> QED BY <1>1, <1>2, <1>3, AmongEmpty, OlderEmpty DEF Ordered

\* A line that is lost is only skipped.
LEMMA LineLost ==
  ASSUME NEW a, NEW fs, NEW buf, NEW b \in Nat, Ordered(a, fs, buf, b)
  PROVE  Ordered(a, fs, buf, b + 1) /\ Ordered(a, fs, <<>>, b + 1) /\ Ordered(a, fs, <<>>, b)
<1>1. \A p \in 1..b : p \in 1..(b + 1)
  OBVIOUS
<1>2. \A sq : Among(a, sq, b) => Among(a, sq, b + 1)
  BY <1>1 DEF Among
<1> QED BY <1>2, AmongEmpty, OlderEmpty DEF Ordered

WriterRecords == [at : Names \cup {Unlinked}, size : Nat, buffer : Seq(LogLines), unflushed : Nat]

\* A LogWriter is not Absent.
LEMMA WriterIsThere == \A w \in WriterRecords : maxFiles \in Nat => w # Absent
<1> SUFFICES ASSUME NEW w \in WriterRecords, maxFiles \in Nat PROVE w # Absent
  OBVIOUS
<1>1. Names \subseteq Nat
  BY DEF Names
<1>2. w \in [at : Nat \cup {Unlinked}, size : Nat, buffer : Seq(LogLines), unflushed : Nat]
  BY <1>1 DEF WriterRecords
<1> QED BY <1>2, PipelineAssumption

\* write_line's second half: the line is buffered, spilt or flushed.
LEMMA BufferedCases ==
  ASSUME NEW fs, NEW w \in WriterRecords, entry \in LogLines, Needed(entry) \in Nat,
         Buffered(fs, w)
  PROVE  /\ writer' \in WriterRecords /\ writer'.at = w.at
         /\ \E held, bare \in WriterRecords :
              /\ held.at = w.at /\ held.buffer = Append(w.buffer, entry)
              /\ bare.at = w.at /\ bare.buffer = <<>>
              /\ \/ writer'.buffer = held.buffer /\ files' = fs
                 \/ writer'.buffer = <<entry>> /\ files' = Flushed(fs, w)
                 \/ writer'.buffer = <<>> /\ files' = Flushed(fs, held)
<1> DEFINE size == w.size + Needed(entry)
           count == w.unflushed + 1
           buf == Append(w.buffer, entry)
           w1 == [w EXCEPT !.buffer = buf]
           w2 == [w1 EXCEPT !.size = size]
           held == [w2 EXCEPT !.unflushed = count]
           bare == [held EXCEPT !.buffer = <<>>]
           fresh == [held EXCEPT !.buffer = <<entry>>]
           still == [held EXCEPT !.unflushed = 0]
           clean == [bare EXCEPT !.unflushed = 0]
<1>1. w.at \in Names \cup {Unlinked} /\ w.size \in Nat /\ w.buffer \in Seq(LogLines)
      /\ w.unflushed \in Nat
  BY DEF WriterRecords
<1>2. size \in Nat /\ buf \in Seq(LogLines) /\ count \in Nat
      /\ <<>> \in Seq(LogLines) /\ <<entry>> \in Seq(LogLines) /\ 0 \in Nat
  BY <1>1
<1>3. [w EXCEPT !.buffer = Append(@, entry), !.size = @ + Needed(entry), !.unflushed = @ + 1] = held
  OBVIOUS
<1>4. /\ [held EXCEPT !.buffer = <<entry>>] = fresh /\ [held EXCEPT !.unflushed = 0] = still
      /\ Clean(held) = clean
  BY DEF Clean
<1>5. \/ writer' = held /\ files' = fs
      \/ writer' = fresh /\ files' = Flushed(fs, w)
      \/ writer' = clean /\ files' = Flushed(fs, held)
      \/ writer' = still /\ files' = fs
  <2> HIDE DEF held, fresh, clean, still
  <2> QED BY <1>3, <1>4 DEF Buffered
<1> HIDE DEF size, count, buf
<1>6. w1 \in WriterRecords /\ w1.at = w.at /\ w1.buffer = buf
  BY <1>2 DEF WriterRecords
<1> HIDE DEF w1
<1>7. w2 \in WriterRecords /\ w2.at = w.at /\ w2.buffer = buf
  BY <1>2, <1>6 DEF WriterRecords
<1> HIDE DEF w2
<1>8. held \in WriterRecords /\ held.at = w.at /\ held.buffer = buf
  BY <1>2, <1>7 DEF WriterRecords
<1> HIDE DEF held
<1>9. bare \in WriterRecords /\ bare.at = w.at /\ bare.buffer = <<>>
  BY <1>2, <1>8 DEF WriterRecords
<1>10. fresh \in WriterRecords /\ fresh.at = w.at /\ fresh.buffer = <<entry>>
  BY <1>2, <1>8 DEF WriterRecords
<1>11. still \in WriterRecords /\ still.at = w.at /\ still.buffer = buf
  BY <1>2, <1>8 DEF WriterRecords
<1> HIDE DEF bare
<1>12. clean \in WriterRecords /\ clean.at = w.at /\ clean.buffer = <<>>
  BY <1>2, <1>9 DEF WriterRecords
<1> HIDE DEF fresh, still, clean
<1>13. writer' \in WriterRecords /\ writer'.at = w.at
  BY <1>5, <1>8, <1>10, <1>11, <1>12
<1>14. \/ writer'.buffer = held.buffer /\ files' = fs
       \/ writer'.buffer = <<entry>> /\ files' = Flushed(fs, w)
       \/ writer'.buffer = <<>> /\ files' = Flushed(fs, held)
  BY <1>5, <1>8, <1>10, <1>11, <1>12
<1> QED BY <1>8, <1>9, <1>13, <1>14 DEF buf

\* And nothing is lost.
LEMMA BufferedFacts ==
  ASSUME NEW a, Sound(a), NEW fs, NEW w, NEW b, Fine(a, fs, w, b), b + 1 \in 1..Len(a),
         entry = a[b + 1], Buffered(fs, w)
  PROVE  /\ Fine(a, files', writer', b + 1) /\ writer' # Absent /\ writer'.at = w.at
         /\ \A n \in Names : files'[n] = Absent <=> fs[n] = Absent
         /\ \A low : Exact(a, fs, w, b, low) => Exact(a, files', writer', b + 1, low)
<1>1. /\ w \in WriterRecords /\ maxFiles \in Nat
      /\ entry \in LogLines /\ Needed(entry) \in Nat
  BY NeededFacts DEF Fine, WriterRecords, Sound
<1>2. writer' \in WriterRecords /\ writer'.at = w.at
  BY <1>1, BufferedCases
<1>3. PICK held \in WriterRecords, bare \in WriterRecords :
        /\ held.at = w.at /\ held.buffer = Append(w.buffer, entry)
        /\ bare.at = w.at /\ bare.buffer = <<>>
        /\ \/ writer'.buffer = held.buffer /\ files' = fs
           \/ writer'.buffer = <<entry>> /\ files' = Flushed(fs, w)
           \/ writer'.buffer = <<>> /\ files' = Flushed(fs, held)
  BY <1>1, BufferedCases
<1>4. writer' # Absent
  BY <1>1, <1>2, WriterIsThere
<1>5. \A u \in WriterRecords : u \in [at : Names \cup {Unlinked}, size : Nat, buffer : Seq(LogLines),
                                      unflushed : Nat]
  BY DEF WriterRecords
<1>6. CASE writer'.buffer = held.buffer /\ files' = fs
  <2>1. /\ Fine(a, fs, writer', b + 1)
        /\ \A low : Exact(a, fs, w, b, low) => Exact(a, fs, writer', b + 1, low)
    BY <1>2, <1>3, <1>5, <1>6, PutFacts
  <2> QED BY <1>2, <1>4, <1>6, <2>1
<1>7. CASE writer'.buffer = <<entry>> /\ files' = Flushed(fs, w)
  <2> DEFINE gs == Flushed(fs, w)
  <2>1. /\ Fine(a, gs, bare, b)
        /\ \A n \in Names : gs[n] = Absent <=> fs[n] = Absent
        /\ \A low : Exact(a, fs, w, b, low) => Exact(a, gs, bare, b, low)
    BY <1>3, <1>5, FlushFacts
  <2>2. writer'.buffer = Append(bare.buffer, a[b + 1]) /\ writer'.at = bare.at
    <3>1. <<entry>> = Append(<<>>, a[b + 1])
      OBVIOUS
    <3> QED BY <1>2, <1>3, <1>7, <3>1
  <2> HIDE DEF gs
  <2>3. /\ Fine(a, gs, writer', b + 1)
        /\ \A low : Exact(a, gs, bare, b, low) => Exact(a, gs, writer', b + 1, low)
    BY <1>2, <1>5, <2>1, <2>2, PutFacts
  <2> QED BY <1>2, <1>4, <1>7, <2>1, <2>3 DEF gs
<1>8. CASE writer'.buffer = <<>> /\ files' = Flushed(fs, held)
  <2> DEFINE gs == Flushed(fs, held)
  <2>1. /\ Fine(a, fs, held, b + 1)
        /\ \A low : Exact(a, fs, w, b, low) => Exact(a, fs, held, b + 1, low)
    BY <1>3, <1>5, PutFacts
  <2>2. /\ Fine(a, gs, writer', b + 1)
        /\ \A n \in Names : gs[n] = Absent <=> fs[n] = Absent
        /\ \A low : Exact(a, fs, held, b + 1, low) => Exact(a, gs, writer', b + 1, low)
    BY <1>2, <1>3, <1>5, <1>8, <2>1, FlushFacts
  <2> HIDE DEF gs
  <2> QED BY <1>2, <1>4, <1>8, <2>1, <2>2 DEF gs
<1> QED BY <1>3, <1>6, <1>7, <1>8

-----------------------------------------------------------------------------
(* What the invariant says where there is a writer, and what is enough of it *)
(* for the next state.                                                      *)

\* The line in hand is the one after those the writer is done with.
LEMMA HandledFacts ==
  ASSUME SourceIInv, FilesIInv
  PROVE  /\ Handled \in 0..Len(accepted) /\ Sound(accepted) /\ maxFiles \in Nat
         /\ pump \in Busy => Handled + 1 \in 1..Len(accepted) /\ entry = accepted[Handled + 1]
<1>1. Sound(accepted) /\ accepted \in Seq(LogLines) /\ queue \in Seq(LogLines) /\ Handled \in Nat
  BY SourceIsSound DEF FilesIInv, FileTypes, QueueAt, Sound
<1>2. Len(accepted) \in Nat /\ Len(queue) \in Nat
  BY <1>1
<1>3. Handled <= Len(accepted) /\ (pump \in Busy => Handled + 1 <= Len(accepted))
  BY <1>2 DEF Handled
<1> QED BY <1>1, <1>2, <1>3 DEF FilesIInv, FileTypes, QueueAt

\* The invariant, where there is a writer.
LEMMA WriterFine ==
  ASSUME SourceIInv, FilesIInv, writer # Absent
  PROVE  Fine(accepted, files, writer, Handled)
<1>1. Handled \in 0..Len(accepted) /\ maxFiles \in Nat
  BY HandledFacts
<1>2. Ordered(accepted, files, writer.buffer, Handled)
  BY DEF FilesIInv, Buffer
<1> QED BY <1>1, <1>2 DEF Fine, FilesIInv, FileTypes, WriterAt

\* No error, and the files have everything after a beginning that had to go.
Silent(a, fs, w, b, gap) ==
  /\ \E low : Exact(a, fs, w, b, low) /\ (low = 0 \/ \A n \in Names \ gap : fs[n] # Absent)
  /\ \A m, n \in Names \ gap : m < n /\ fs[n] # Absent => fs[m] # Absent
  /\ \A n \in gap : fs[n] = Absent

\* The invariant, where no error was reported.
LEMMA WriterSilent ==
  ASSUME FilesIInv, writer # Absent, pump # "reopen", ~reported
  PROVE  /\ Silent(accepted, files, writer, Handled, Gap)
         /\ pump \in {"truncate", "shift", "rename", "reopen", "drop"} => writer.buffer = <<>>
<1>1. PICK cut \in Cuts(Handled) :
         /\ Whole(accepted, files, writer.buffer, Handled, cut)
         /\ cut[maxFiles + 1] = 0 \/ \A n \in Names \ Gap : files[n] # Absent
  BY DEF FilesIInv, SilentAt, Buffer
<1>2. writer.at = 0
  BY DEF FilesIInv, SilentAt
<1>3. Exact(accepted, files, writer, Handled, cut[maxFiles + 1])
  BY <1>1, <1>2 DEF Exact
<1> QED BY <1>1, <1>3 DEF FilesIInv, SilentAt, Silent, Buffer

\* Order in the next state.
LEMMA OrderedNext ==
  ASSUME maxFiles' = maxFiles, Ordered(accepted', files', Buffer', Handled')
  PROVE  Ordered(accepted, files, Buffer, Handled)'
BY DEF Ordered, Names

\* Nothing lost silently in the next state.
LEMMA SilentNext ==
  ASSUME maxFiles' = maxFiles, maxFiles \in Nat, writer' # Absent, pump' # "reopen",
         ~reported' =>
           /\ Silent(accepted', files', writer', Handled', Gap')
           /\ pump' \in {"truncate", "shift", "rename", "reopen", "drop"} => writer'.buffer = <<>>
  PROVE  SilentAt'
<1> SUFFICES ASSUME ~reported' PROVE SilentAt'
  BY DEF SilentAt
<1>1. PICK low :
        /\ Exact(accepted', files', writer', Handled', low)
        /\ low = 0 \/ \A n \in Names \ Gap' : files'[n] # Absent
  BY DEF Silent
<1>2. PICK cut \in Cuts(Handled') :
        Whole(accepted', files', writer'.buffer, Handled', cut) /\ cut[maxFiles + 1] = low
  BY <1>1 DEF Exact
<1>3. Names' = Names /\ cut \in Cuts(Handled)' /\ Buffer' = writer'.buffer
  BY <1>2 DEF Names, Cuts, Buffer
<1>4. Whole(accepted, files, Buffer, Handled, cut)'
  BY <1>2, <1>3 DEF Whole
<1>5. /\ \A m, n \in Names' \ Gap' : m < n /\ files'[n] # Absent => files'[m] # Absent
      /\ \A n \in Gap' : files'[n] = Absent
  BY <1>3 DEF Silent
<1>6. writer'.at = 0
  BY <1>1 DEF Exact
<1>7. cut[maxFiles' + 1] = 0 \/ \A n \in Names' \ Gap' : files'[n] # Absent
  BY <1>1, <1>2, <1>3
<1> QED BY <1>3, <1>4, <1>5, <1>6, <1>7 DEF SilentAt

\* Nothing comes or goes in the queue; the line in hand stays there, or its recording ends.
LEMMA QueueStays ==
  ASSUME FilesIInv, accepted \in Seq(LogLines), accepted' = accepted, queue' = queue,
         pump' \in Busy => pump \in Busy /\ entry' = entry
  PROVE  /\ QueueAt' /\ queue' \in Seq(LogLines)
         /\ (pump \in Busy <=> pump' \in Busy) => Handled' = Handled
         /\ pump \in Busy /\ pump' \notin Busy => Handled' = Handled + 1
<1>1. /\ queue \in Seq(LogLines) /\ Handled \in Nat
      /\ \A i \in 1..Len(queue) : queue[i] = accepted[(Len(accepted) - Len(queue)) + i]
      /\ pump \in Busy => entry = accepted[Handled + 1]
  BY DEF FilesIInv, FileTypes, QueueAt
<1>2. Len(queue) \in Nat /\ Len(accepted) \in Nat
  BY <1>1
<1>3. /\ (pump \in Busy <=> pump' \in Busy) => Handled' = Handled
      /\ pump \in Busy /\ pump' \notin Busy => Handled' = Handled + 1
  BY <1>2 DEF Handled
<1>4. Handled' \in Nat
  <2>1. CASE pump \in Busy /\ pump' \notin Busy
    BY <1>1, <1>3, <2>1
  <2>2. CASE pump \in Busy <=> pump' \in Busy
    BY <1>1, <1>3, <2>2
  <2> QED BY <2>1, <2>2
<1>5. pump' \in Busy => entry' = accepted'[Handled' + 1]
  <2> SUFFICES ASSUME pump' \in Busy PROVE entry' = accepted'[Handled' + 1]
    OBVIOUS
  <2>1. Handled' = Handled /\ entry' = entry /\ pump \in Busy
    BY <1>3
  <2> QED BY <1>1, <2>1
<1>6. \A i \in 1..Len(queue') : queue'[i] = accepted'[(Len(accepted') - Len(queue')) + i]
  BY <1>1
<1> QED BY <1>1, <1>3, <1>4, <1>5, <1>6 DEF QueueAt

\* A step after which there is a writer.
LEMMA WriterStays ==
  ASSUME maxFiles' = maxFiles, maxFiles \in Nat, QueueAt', queue' \in Seq(LogLines),
         pump' \in Busy \cup {"poll", "park", "drop"},
         pump' \in {"shift", "rename", "reopen"} => maxFiles # 0,
         pump' = "truncate" => maxFiles = 0,
         writer' # Absent, Fine(accepted', files', writer', Handled')
  PROVE  SilentAt' => FilesIInv'
<1>1. Names' = Names
  BY DEF Names
<1>2. FileTypes'
  BY <1>1 DEF FileTypes, Fine
<1>3. WriterAt'
  BY <1>1 DEF WriterAt, Fine
<1>4. Ordered(accepted, files, Buffer, Handled)'
  BY OrderedNext DEF Fine, Buffer
<1> QED BY <1>2, <1>3, <1>4 DEF FilesIInv

-----------------------------------------------------------------------------
(* The steps of the writer.                                                 *)

\* The line is lost, which was reported.
LEMMA LostKeeps ==
  ASSUME SourceIInv, FilesIInv, pump \in Busy, pump' = "poll", reported' = TRUE,
         maxFiles' = maxFiles, queue' = queue, writer' = writer, files' = files,
         accepted' = accepted
  PROVE  FilesIInv'
<1>1. /\ pump' = "poll" /\ reported' = TRUE
      /\ maxFiles' = maxFiles /\ queue' = queue /\ writer' = writer /\ files' = files
      /\ accepted' = accepted
  OBVIOUS
<1>2. "poll" \notin Busy
  BY DEF Busy
<1>3. accepted \in Seq(LogLines) /\ Handled \in Nat /\ maxFiles \in Nat
  BY HandledFacts DEF Sound
<1>4. QueueAt' /\ queue' \in Seq(LogLines) /\ Handled' = Handled + 1
  BY <1>1, <1>2, <1>3, QueueStays
<1>5. Names' = Names /\ Buffer' = Buffer
  BY <1>1 DEF Names, Buffer
<1>6. FileTypes'
  BY <1>1, <1>5 DEF FileTypes, FilesIInv
<1>7. WriterAt'
  <2>1. pump # "done"
    BY DEF Busy
  <2> QED BY <1>1, <1>5, <2>1 DEF WriterAt, FilesIInv
<1>8. Ordered(accepted, files, Buffer, Handled + 1)
  BY <1>3, LineLost DEF FilesIInv
<1>9. Ordered(accepted, files, Buffer, Handled)'
  <2>1. Ordered(accepted', files', Buffer', Handled')
    BY <1>1, <1>4, <1>5, <1>8
  <2> QED BY <1>1, <2>1, OrderedNext
<1>10. SilentAt'
  BY <1>1 DEF SilentAt
<1> QED BY <1>4, <1>6, <1>7, <1>9, <1>10 DEF FilesIInv

\* A flushed writer has an empty buffer, a failed flush leaves it as it was.
LEMMA CleanFacts ==
  ASSUME NEW w \in WriterRecords
  PROVE  /\ Clean(w) \in WriterRecords /\ Clean(w).at = w.at /\ Clean(w).buffer = <<>>
         /\ [w EXCEPT !.unflushed = 0] \in WriterRecords
         /\ [w EXCEPT !.unflushed = 0].at = w.at /\ [w EXCEPT !.unflushed = 0].buffer = w.buffer
<1> DEFINE v == [w EXCEPT !.buffer = <<>>]
           u == [v EXCEPT !.unflushed = 0]
           x == [w EXCEPT !.unflushed = 0]
<1>1. <<>> \in Seq(LogLines)
  OBVIOUS
<1>2. v \in WriterRecords /\ v.at = w.at /\ v.buffer = <<>>
  BY <1>1 DEF WriterRecords
<1>3. x \in WriterRecords /\ x.at = w.at /\ x.buffer = w.buffer
  BY DEF WriterRecords
<1>4. Clean(w) = u
  BY DEF Clean
<1> HIDE DEF v
<1>5. u \in WriterRecords /\ u.at = w.at /\ u.buffer = <<>>
  BY <1>2 DEF WriterRecords
<1> HIDE DEF u
<1> QED BY <1>3, <1>4, <1>5

\* The buffer reaches the disk.
LEMMA FlushKeeps ==
  ASSUME SourceIInv, FilesIInv, writer # Absent, maxFiles' = maxFiles, accepted' = accepted,
         queue' = queue, entry' = entry, reported' = reported,
         \/ /\ pump \in {"poll", "park"}
            /\ pump' \in {"poll", "park", "drop"}
         \/ /\ pump = "record"
            /\ pump' = IF maxFiles = 0 THEN "truncate" ELSE "shift",
         files' = Flushed(files, writer), writer' = Clean(writer)
  PROVE  FilesIInv'
<1>1. /\ Handled \in 0..Len(accepted) /\ Sound(accepted) /\ maxFiles \in Nat
      /\ accepted \in Seq(LogLines)
  BY HandledFacts DEF Sound
<1>2. Fine(accepted, files, writer, Handled)
  BY WriterFine
<1>3. writer \in WriterRecords
  BY <1>2 DEF Fine, WriterRecords
<1>4. writer' \in WriterRecords /\ writer'.at = writer.at /\ writer'.buffer = <<>>
  BY <1>3, CleanFacts
<1>5. /\ Fine(accepted, files', writer', Handled)
      /\ \A n \in Names : files'[n] = Absent <=> files[n] = Absent
      /\ \A low : Exact(accepted, files, writer, Handled, low)
                    => Exact(accepted, files', writer', Handled, low)
  BY <1>1, <1>2, <1>4, FlushFacts DEF WriterRecords
<1>6. pump \in Busy <=> pump' \in Busy
  BY DEF Busy
<1>7. QueueAt' /\ queue' \in Seq(LogLines) /\ Handled' = Handled
  BY <1>1, <1>6, QueueStays
<1>8. writer' # Absent
  BY <1>1, <1>4, WriterIsThere
<1>9. Gap = {} /\ Gap' = {} /\ pump # "reopen" /\ pump' # "reopen"
  BY DEF Gap
<1>10. ASSUME ~reported'
       PROVE  Silent(accepted', files', writer', Handled', Gap')
  <2>1. Silent(accepted, files, writer, Handled, Gap)
    BY <1>9, <1>10, WriterSilent
  <2> QED BY <1>5, <1>7, <1>9, <2>1 DEF Silent
<1>11. SilentAt'
  BY <1>1, <1>4, <1>8, <1>9, <1>10, SilentNext
<1>12. /\ pump' \in Busy \cup {"poll", "park", "drop"}
       /\ pump' \in {"shift", "rename", "reopen"} => maxFiles # 0
       /\ pump' = "truncate" => maxFiles = 0
  BY DEF Busy
<1>13. Fine(accepted', files', writer', Handled')
  BY <1>5, <1>7
<1> QED BY <1>1, <1>7, <1>8, <1>11, <1>12, <1>13, WriterStays

\* The buffer does not reach the disk, which is reported.
LEMMA FlushFails ==
  ASSUME SourceIInv, FilesIInv, writer # Absent, maxFiles' = maxFiles, accepted' = accepted,
         queue' = queue, reported' = TRUE,
         pump \in {"poll", "park", "record"}, pump' \in {"poll", "park", "drop"},
         files' = files, writer' = [writer EXCEPT !.unflushed = 0]
  PROVE  FilesIInv'
<1>1. /\ Handled \in 0..Len(accepted) /\ maxFiles \in Nat /\ accepted \in Seq(LogLines)
      /\ pump \in Busy => Handled + 1 \in 1..Len(accepted)
  BY HandledFacts DEF Sound
<1>2. Fine(accepted, files, writer, Handled)
  BY WriterFine
<1>3. writer \in WriterRecords
  BY <1>2 DEF Fine, WriterRecords
<1>4. writer' \in WriterRecords /\ writer'.at = writer.at /\ writer'.buffer = writer.buffer
  BY <1>3, CleanFacts
<1>5. Fine(accepted, files', writer', Handled)
  BY <1>2, <1>4 DEF Fine, WriterRecords
<1>6. pump' \notin Busy
  BY DEF Busy
<1>7. /\ QueueAt' /\ queue' \in Seq(LogLines)
      /\ pump \notin Busy => Handled' = Handled
      /\ pump \in Busy => Handled' = Handled + 1
  BY <1>1, <1>6, QueueStays
<1>8. Fine(accepted', files', writer', Handled')
  <2>1. CASE pump \notin Busy
    BY <1>5, <1>7, <2>1
  <2>2. CASE pump \in Busy
    <3>1. Ordered(accepted, files', writer'.buffer, Handled + 1) /\ Handled + 1 \in 0..Len(accepted)
      BY <1>1, <1>5, <2>2, LineLost DEF Fine
    <3>2. Fine(accepted, files', writer', Handled + 1)
      BY <1>5, <3>1 DEF Fine
    <3> QED BY <1>7, <2>2, <3>2
  <2> QED BY <2>1, <2>2
<1>9. writer' # Absent
  BY <1>1, <1>4, WriterIsThere
<1>10. SilentAt'
  BY DEF SilentAt
<1> QED BY <1>1, <1>7, <1>8, <1>9, <1>10, WriterStays

\* write_line's second half, into the files fs by the writer w.
LEMMA BufferedKeeps ==
  ASSUME SourceIInv, FilesIInv, maxFiles' = maxFiles, accepted' = accepted, queue' = queue,
         pump \in Busy, Recorded, NEW fs, NEW w, Fine(accepted, fs, w, Handled), Buffered(fs, w),
         ~reported => Silent(accepted, fs, w, Handled, {})
  PROVE  FilesIInv'
<1>1. /\ Handled \in 0..Len(accepted) /\ Sound(accepted) /\ maxFiles \in Nat
      /\ accepted \in Seq(LogLines) /\ Handled + 1 \in 1..Len(accepted)
      /\ entry = accepted[Handled + 1]
  BY HandledFacts DEF Sound
<1>2. /\ Fine(accepted, files', writer', Handled + 1) /\ writer' # Absent
      /\ \A n \in Names : files'[n] = Absent <=> fs[n] = Absent
      /\ \A low : Exact(accepted, fs, w, Handled, low)
                    => Exact(accepted, files', writer', Handled + 1, low)
  BY <1>1, BufferedFacts
<1>3. pump' = "poll" /\ "poll" \notin Busy
  BY DEF Recorded, Busy
<1>4. QueueAt' /\ queue' \in Seq(LogLines) /\ Handled' = Handled + 1
  BY <1>1, <1>3, QueueStays
<1>5. Gap' = {}
  BY <1>3 DEF Gap
<1>6. ASSUME ~reported'
      PROVE  Silent(accepted', files', writer', Handled', Gap')
  <2>1. ~reported
    BY <1>6 DEF Buffered
  <2>2. Silent(accepted, fs, w, Handled, {})
    BY <2>1
  <2> QED BY <1>2, <1>4, <1>5, <2>2 DEF Silent
<1>7. SilentAt'
  BY <1>1, <1>2, <1>3, <1>6, SilentNext
<1>8. Fine(accepted', files', writer', Handled')
  BY <1>2, <1>4
<1> QED BY <1>1, <1>2, <1>3, <1>4, <1>7, <1>8, WriterStays

\* A rotation moves the files above `stop' up by one, and the writer's file with them.
LEMMA ShiftedFacts ==
  ASSUME NEW a, NEW fs, NEW w, NEW b, Fine(a, fs, w, b), maxFiles # 0, NEW stop \in 0..(maxFiles - 1)
  PROVE  /\ Fine(a, Shifted(fs, stop), HandleAfter(w, stop), b)
         /\ HandleAfter(w, stop).buffer = w.buffer
         /\ w.at = 0 => HandleAfter(w, stop).at = 0
         /\ \A n \in Names : Shifted(fs, stop)[n] = IF n <= stop THEN fs[n]
                                                    ELSE IF n = stop + 1 THEN Absent
                                                    ELSE fs[n - 1]
<1> DEFINE gs == Shifted(fs, stop)
           k == w.at
           at2 == IF k = Unlinked THEN Unlinked
                  ELSE IF k <= stop THEN k
                  ELSE IF k = maxFiles THEN Unlinked ELSE k + 1
           u == [w EXCEPT !.at = at2]
<1>1. /\ maxFiles \in Nat /\ stop \in Nat /\ stop + 1 <= maxFiles
      /\ fs \in [Names -> Seq(LogLines) \cup {Absent}] /\ DOMAIN fs = Names
      /\ w \in WriterRecords /\ k \in Names \cup {Unlinked}
      /\ \A n \in Names : n \in Nat /\ n <= maxFiles
      /\ \A n \in Nat : n <= maxFiles => n \in Names
  BY DEF Fine, WriterRecords, Names
<1>2. \A n \in Names : gs[n] = IF n <= stop THEN fs[n]
                               ELSE IF n = stop + 1 THEN Absent
                               ELSE fs[n - 1]
  <2> SUFFICES ASSUME NEW n \in Names
               PROVE  gs[n] = IF n <= stop THEN fs[n]
                              ELSE IF n = stop + 1 THEN Absent
                              ELSE fs[n - 1]
    OBVIOUS
  <2>1. gs[n] = CASE n <= stop -> fs[n] [] n = stop + 1 -> Absent [] OTHER -> fs[n - 1]
    BY <1>1 DEF Shifted
  <2>2. ~(n <= stop /\ n = stop + 1)
    BY <1>1
  <2> QED BY <2>1, <2>2, Zenon
<1>3. gs \in [Names -> Seq(LogLines) \cup {Absent}]
  <2>1. DOMAIN gs = Names /\ gs = [n \in DOMAIN gs |-> gs[n]]
    BY <1>1 DEF Shifted
  <2>2. ASSUME NEW n \in Names
        PROVE  gs[n] \in Seq(LogLines) \cup {Absent}
    <3>1. n <= stop \/ n = stop + 1 \/ n - 1 \in Names
      BY <1>1
    <3> HIDE DEF gs
    <3> QED BY <1>1, <1>2, <3>1
  <2> HIDE DEF gs
  <2> QED BY <2>1, <2>2
<1> HIDE DEF gs
<1>4. HandleAfter(w, stop) = u
  <2>1. k # Unlinked => k \in Nat
    BY <1>1
  <2>2. (CASE k = Unlinked -> Unlinked
           [] k # Unlinked /\ k <= stop -> k
           [] k # Unlinked /\ k > stop -> IF k = maxFiles THEN Unlinked ELSE k + 1) = at2
    <3>1. CASE k = Unlinked
      BY <3>1, Zenon
    <3>2. CASE k # Unlinked /\ k <= stop
      <4>1. ~(k > stop)
        BY <1>1, <2>1, <3>2
      <4> QED BY <3>2, <4>1, Zenon
    <3>3. CASE k # Unlinked /\ ~(k <= stop)
      <4>1. k > stop
        BY <1>1, <2>1, <3>3
      <4> QED BY <3>3, <4>1, Zenon
    <3> QED BY <3>1, <3>2, <3>3
  <2> HIDE DEF at2
  <2> QED BY <2>2 DEF HandleAfter
<1>5. at2 \in Names \cup {Unlinked}
  BY <1>1
<1>6. \/ k = Unlinked /\ at2 = Unlinked
      \/ k # Unlinked /\ k <= stop /\ at2 = k
      \/ k # Unlinked /\ k > stop /\ k = maxFiles /\ at2 = Unlinked
      \/ k # Unlinked /\ k > stop /\ k # maxFiles /\ at2 = k + 1
  BY <1>1
<1> HIDE DEF at2
<1>7. u \in WriterRecords /\ u.at = at2 /\ u.buffer = w.buffer
  BY <1>1, <1>5 DEF WriterRecords
<1> HIDE DEF u
<1>8. /\ k # Unlinked => fs[k] # Absent /\ \A n \in 0..(k - 1) : fs[n] = Absent
      /\ k = Unlinked => \A n \in Names : fs[n] = Absent
  BY DEF Fine
<1>9. /\ at2 # Unlinked => gs[at2] # Absent /\ \A n \in 0..(at2 - 1) : gs[n] = Absent
      /\ at2 = Unlinked => \A n \in Names : gs[n] = Absent
  <2>1. Unlinked \notin Nat
    BY PipelineAssumption
  <2>2. CASE k = Unlinked /\ at2 = Unlinked
    <3>1. ASSUME NEW n \in Names
          PROVE  gs[n] = Absent
      <4>1. n <= stop \/ n = stop + 1 \/ n - 1 \in Names
        BY <1>1
      <4> QED BY <1>2, <1>8, <2>2, <4>1
    <3> QED BY <2>2, <3>1
  <2>3. CASE k # Unlinked /\ k <= stop /\ at2 = k
    <3>1. k \in Names
      BY <1>1, <2>3
    <3>2. gs[k] = fs[k]
      BY <1>2, <2>3, <3>1
    <3>3. \A n \in 0..(k - 1) : n \in Names /\ n <= stop
      BY <1>1, <2>3, <3>1
    <3> QED BY <1>2, <1>8, <2>3, <3>2, <3>3
  <2>4. CASE k # Unlinked /\ k > stop /\ k = maxFiles /\ at2 = Unlinked
    <3>1. ASSUME NEW n \in Names
          PROVE  gs[n] = Absent
      <4>1. (n <= stop /\ n \in 0..(k - 1)) \/ n = stop + 1 \/ (n > stop + 1 /\ n - 1 \in 0..(k - 1))
        BY <1>1, <2>4
      <4>2. n > stop + 1 => ~(n <= stop) /\ n # stop + 1
        BY <1>1
      <4> QED BY <1>1, <1>2, <1>8, <2>4, <4>1, <4>2
    <3> QED BY <2>4, <3>1
  <2>5. CASE k # Unlinked /\ k > stop /\ k # maxFiles /\ at2 = k + 1
    <3>1. k \in Names /\ k + 1 \in Names /\ (k + 1) - 1 = k /\ ~(k + 1 <= stop) /\ k + 1 # stop + 1
      BY <1>1, <2>5
    <3>2. gs[k + 1] = fs[k]
      BY <1>2, <3>1
    <3>3. ASSUME NEW n \in 0..k
          PROVE  gs[n] = Absent
      <4>1. n \in Names
        BY <1>1, <3>1
      <4>2. (n <= stop /\ n \in 0..(k - 1)) \/ n = stop + 1 \/ (n > stop + 1 /\ n - 1 \in 0..(k - 1))
        BY <1>1, <2>5, <3>1
      <4>3. n > stop + 1 => ~(n <= stop) /\ n # stop + 1
        BY <1>1
      <4> QED BY <1>2, <1>8, <2>5, <4>1, <4>2, <4>3
    <3>4. 0..(at2 - 1) = 0..k
      BY <1>1, <2>5, <3>1
    <3>5. at2 \in Nat /\ gs[at2] = fs[k] /\ fs[k] # Absent
      BY <1>1, <1>8, <2>5, <3>1, <3>2
    <3> QED BY <2>1, <3>3, <3>4, <3>5
  <2> QED BY <1>6, <2>2, <2>3, <2>4, <2>5
<1>10. Ordered(a, gs, w.buffer, b)
  <2> DEFINE g == [n \in Names |-> IF n <= stop + 1 THEN n ELSE n - 1]
  <2>1. g \in [Names -> Names] /\ \A n \in Names : g[n] = IF n <= stop + 1 THEN n ELSE n - 1
    BY <1>1
  <2> HIDE DEF g
  <2>2. \A n \in Names : n = stop + 1 => In(gs, n) = <<>>
    BY <1>1, <1>2 DEF In
  <2>3. \A n \in Names : n # stop + 1 => gs[n] = fs[g[n]]
    BY <1>1, <1>2, <2>1
  <2>4. \A n \in Names : In(gs, n) = <<>> \/ In(gs, n) = In(fs, g[n])
    BY <2>2, <2>3 DEF In
  <2>5. ASSUME NEW m \in Names, NEW n \in Names, m < n
        PROVE  In(gs, m) = <<>> \/ In(gs, n) = <<>> \/ g[m] < g[n]
    <3>1. CASE m = stop + 1 \/ n = stop + 1
      BY <2>2, <3>1
    <3>2. CASE m # stop + 1 /\ n # stop + 1
      BY <1>1, <2>1, <2>5, <3>2
    <3> QED BY <3>1, <3>2
  <2>6. Ordered(a, fs, w.buffer, b)
    BY DEF Fine
  <2> QED BY <2>1, <2>4, <2>5, <2>6, Rearranged
<1>11. Fine(a, gs, u, b)
  <2>1. u.at = at2 /\ u.buffer = w.buffer /\ b \in 0..Len(a)
    BY <1>7 DEF Fine
  <2> QED BY <1>1, <1>3, <1>7, <1>9, <1>10, <2>1 DEF Fine, WriterRecords
<1>12. k = 0 => at2 = 0
  <2>1. 0 # Unlinked
    BY PipelineAssumption
  <2> QED BY <1>1, <1>6, <2>1
<1> QED BY <1>2, <1>4, <1>7, <1>11, <1>12 DEF gs

\* rotate(): the renames of the rotated files, or the ones before the one that failed.
LEMMA ShiftKeeps ==
  ASSUME SourceIInv, FilesIInv, Shift
  PROVE  FilesIInv'
<1>1. /\ Handled \in 0..Len(accepted) /\ Sound(accepted) /\ maxFiles \in Nat
      /\ accepted \in Seq(LogLines) /\ Handled + 1 \in 1..Len(accepted)
  BY HandledFacts DEF Sound, Shift, Busy
<1>2. /\ pump = "shift" /\ writer # Absent /\ maxFiles # 0
      /\ maxFiles' = maxFiles /\ queue' = queue /\ accepted' = accepted
  BY DEF Shift, FilesIInv, FileTypes
<1>3. Fine(accepted, files, writer, Handled)
  BY <1>2, WriterFine
<1>4. pump \in Busy /\ "rename" \in Busy /\ "poll" \notin Busy
  BY <1>2 DEF Busy
<1>5. CASE /\ files' = Shifted(files, 0) /\ writer' = HandleAfter(writer, 0) /\ pump' = "rename"
           /\ entry' = entry /\ reported' = reported
  <2>1. /\ Fine(accepted, files', writer', Handled) /\ writer'.buffer = writer.buffer
        /\ writer.at = 0 => writer'.at = 0
        /\ \A n \in Names : files'[n] = IF n <= 0 THEN files[n]
                                        ELSE IF n = 0 + 1 THEN Absent
                                        ELSE files[n - 1]
    <3>1. 0 \in 0..(maxFiles - 1)
      BY <1>1, <1>2
    <3> QED BY <1>2, <1>3, <1>5, <3>1, ShiftedFacts
  <2>2. writer' # Absent
    BY <1>1, <2>1, WriterIsThere DEF Fine, WriterRecords
  <2>3. QueueAt' /\ queue' \in Seq(LogLines) /\ Handled' = Handled
    BY <1>1, <1>2, <1>4, <1>5, QueueStays
  <2>4. Gap = {} /\ Gap' = {1} /\ pump # "reopen" /\ pump' # "reopen"
    BY <1>2, <1>5 DEF Gap
  <2>5. ASSUME ~reported'
        PROVE  Silent(accepted', files', writer', Handled', Gap') /\ writer'.buffer = <<>>
    <3>1. Silent(accepted, files, writer, Handled, {}) /\ writer.buffer = <<>>
      BY <1>2, <1>5, <2>4, <2>5, WriterSilent
    <3>2. PICK low : /\ Exact(accepted, files, writer, Handled, low)
                     /\ low = 0 \/ \A n \in Names : files[n] # Absent
      BY <3>1 DEF Silent
    <3>3. PICK cut \in Cuts(Handled) : /\ Whole(accepted, files, writer.buffer, Handled, cut)
                                       /\ cut[maxFiles + 1] = low
      BY <3>2 DEF Exact
    <3>4. /\ \A n \in Names : n \in Nat /\ n <= maxFiles
          /\ \A n \in Nat : n <= maxFiles => n \in Names
          /\ files'[0] = files[0] /\ files'[1] = Absent
          /\ \A n \in Names : n >= 2 => n - 1 \in Names /\ files'[n] = files[n - 1]
          /\ 0 \in Names /\ 1 \in Names
      <4>1. \A n \in Names : n \in Nat /\ n <= maxFiles
        BY DEF Names
      <4>2. \A n \in Nat : n <= maxFiles => n \in Names
        BY <1>1 DEF Names
      <4>3. 0 \in Names /\ 1 \in Names
        BY <1>1, <1>2, <4>2
      <4>4. files'[0] = files[0] /\ files'[1] = Absent
        BY <2>1, <4>3
      <4>5. ASSUME NEW n \in Names, n >= 2
            PROVE  n - 1 \in Names /\ files'[n] = files[n - 1]
        <5>1. n - 1 \in Names /\ ~(n <= 0) /\ n # 0 + 1
          BY <1>1, <4>1, <4>2, <4>5
        <5> QED BY <2>1, <5>1
      <4> QED BY <4>1, <4>2, <4>3, <4>4, <4>5
    <3> DEFINE cut2 == [n \in 0..(maxFiles + 1) |-> IF n >= 2 THEN cut[n - 1] ELSE cut[n]]
               D == 0..(maxFiles + 1)
    <3>5. /\ \A n \in D : n \in Nat /\ cut[n] \in 0..Handled
          /\ cut2 \in Cuts(Handled) /\ cut2[0] = cut[0] /\ cut2[1] = cut[1]
          /\ \A n \in D : n >= 2 => n - 1 \in D /\ cut2[n] = cut[n - 1]
          /\ maxFiles \in D /\ maxFiles + 1 \in D /\ 0 \in D /\ 1 \in D
          /\ maxFiles + 1 >= 2 /\ \A n \in Names : n \in D /\ n + 1 \in D
      BY <1>1, <1>2, <3>3 DEF Cuts, Names
    <3> HIDE DEF cut2, D
    <3>6. /\ \A n \in Names : cut[n + 1] <= cut[n]
                                /\ Slice(accepted, In(files, n), cut[n + 1], cut[n])
          /\ Slice(accepted, writer.buffer, cut[0], Handled)
      BY <3>3 DEF Whole
    <3>7. ASSUME NEW n \in Names
          PROVE  cut2[n + 1] <= cut2[n] /\ Slice(accepted, In(files', n), cut2[n + 1], cut2[n])
      <4>1. CASE n = 0
        <5>1. In(files', 0) = In(files, 0)
          BY <3>4 DEF In
        <5> QED BY <3>4, <3>5, <3>6, <4>1, <5>1
      <4>2. CASE n = 1
        <5>1. In(files', 1) = <<>> /\ cut2[2] = cut[1] /\ cut[1] \in Nat
          BY <1>2, <3>4, <3>5, <4>2 DEF In
        <5>2. Slice(accepted, <<>>, cut[1], cut[1])
          BY <5>1 DEF Slice
        <5> QED BY <3>5, <4>2, <5>1, <5>2
      <4>3. CASE n >= 2
        <5> DEFINE m == n - 1
        <5>1. m \in Names /\ m + 1 = n /\ n + 1 >= 2 /\ (n + 1) - 1 = n /\ n \in D /\ n + 1 \in D
          BY <3>4, <3>5, <4>3
        <5>2. In(files', n) = In(files, m)
          BY <3>4, <4>3 DEF In
        <5>3. cut2[n + 1] = cut[m + 1] /\ cut2[n] = cut[m]
          BY <3>5, <4>3, <5>1
        <5> HIDE DEF m
        <5> QED BY <3>6, <5>1, <5>2, <5>3
      <4>4. n = 0 \/ n = 1 \/ n >= 2
        BY <3>4
      <4> QED BY <4>1, <4>2, <4>3, <4>4
    <3>8. Whole(accepted, files', writer'.buffer, Handled, cut2)
      BY <2>1, <3>5, <3>6, <3>7 DEF Whole
    <3> DEFINE low2 == cut2[maxFiles + 1]
    <3>9. low2 = cut[maxFiles]
      <4>1. (maxFiles + 1) - 1 = maxFiles
        BY <1>1
      <4> QED BY <3>5, <4>1
    <3>10. Exact(accepted, files', writer', Handled, low2)
      <4>1. writer'.at = 0
        BY <2>1, <3>2 DEF Exact
      <4> QED BY <3>5, <3>8, <4>1 DEF Exact
    <3>11. \A m, n \in Names : m < n /\ files[n] # Absent => files[m] # Absent
      BY <3>1 DEF Silent
    <3>12. low2 = 0 \/ \A n \in Names \ {1} : files'[n] # Absent
      <4> SUFFICES ASSUME low2 # 0, NEW n \in Names \ {1} PROVE files'[n] # Absent
        OBVIOUS
      <4>1. \A m \in Names : m < maxFiles => files[m] # Absent
        <5>1. CASE low = 0
          <6>1. maxFiles \in Names /\ cut[maxFiles] \in Nat /\ cut[maxFiles] # 0
            <7>1. maxFiles \in Names
              BY <1>1, <3>4
            <7>2. Handled \in Nat /\ cut[maxFiles] \in 0..Handled
              BY <1>1, <3>5
            <7>3. cut[maxFiles] # 0
              BY <3>9
            <7> QED BY <7>1, <7>2, <7>3
          <6>2. Len(In(files, maxFiles)) = cut[maxFiles] - 0
            BY <3>3, <3>6, <5>1, <6>1 DEF Slice
          <6>3. files[maxFiles] # Absent
            BY <6>1, <6>2 DEF In
          <6> QED BY <3>11, <6>1, <6>3
        <5>2. CASE \A m \in Names : files[m] # Absent
          BY <5>2
        <5> QED BY <3>2, <5>1, <5>2
      <4>2. CASE n = 0
        BY <1>1, <1>2, <3>4, <4>1, <4>2
      <4>3. CASE n >= 2
        <5>1. n - 1 \in Names /\ n - 1 < maxFiles
          BY <1>1, <3>4, <4>3
        <5> QED BY <3>4, <4>1, <4>3, <5>1
      <4>4. n = 0 \/ n >= 2
        BY <3>4
      <4> QED BY <4>2, <4>3, <4>4
    <3>13. ASSUME NEW m \in Names \ {1}, NEW n \in Names \ {1}, m < n, files'[n] # Absent
           PROVE  files'[m] # Absent
      <4>1. n >= 2 /\ n - 1 \in Names /\ files[n - 1] # Absent
        BY <3>4, <3>13
      <4>2. CASE m = 0
        BY <3>4, <3>11, <4>1, <4>2
      <4>3. CASE m >= 2
        <5>1. m - 1 \in Names /\ m - 1 < n - 1 /\ files'[m] = files[m - 1]
          BY <3>4, <3>13, <4>3
        <5> QED BY <3>11, <4>1, <5>1
      <4>4. m = 0 \/ m >= 2
        BY <3>4
      <4> QED BY <4>2, <4>3, <4>4
    <3>14. Silent(accepted, files', writer', Handled, {1})
      <4>1. \E l : /\ Exact(accepted, files', writer', Handled, l)
                   /\ l = 0 \/ \A n \in Names \ {1} : files'[n] # Absent
        BY <3>10, <3>12
      <4> QED BY <3>4, <3>13, <4>1 DEF Silent
    <3> QED BY <1>2, <2>1, <2>3, <2>4, <3>1, <3>14
  <2>6. SilentAt'
    BY <1>1, <1>2, <2>2, <2>4, <2>5, SilentNext
  <2>7. Fine(accepted', files', writer', Handled')
    BY <1>2, <2>1, <2>3
  <2> QED BY <1>1, <1>2, <1>4, <1>5, <2>2, <2>3, <2>6, <2>7, WriterStays
<1>6. CASE /\ \E stop \in 1..maxFiles :
                /\ files' = IF stop = maxFiles THEN files ELSE Shifted(files, stop)
                /\ writer' = IF stop = maxFiles THEN writer ELSE HandleAfter(writer, stop)
           /\ Recorded /\ reported' = TRUE
  <2>1. PICK stop \in 1..maxFiles :
                /\ files' = IF stop = maxFiles THEN files ELSE Shifted(files, stop)
                /\ writer' = IF stop = maxFiles THEN writer ELSE HandleAfter(writer, stop)
    BY <1>6
  <2>2. Fine(accepted, files', writer', Handled)
    <3>1. CASE stop = maxFiles
      BY <1>3, <2>1, <3>1
    <3>2. CASE stop # maxFiles
      <4>1. stop \in 0..(maxFiles - 1)
        BY <1>1, <3>2
      <4> QED BY <1>2, <1>3, <2>1, <3>2, <4>1, ShiftedFacts
    <3> QED BY <3>1, <3>2
  <2>3. pump' = "poll"
    BY <1>6 DEF Recorded
  <2>4. QueueAt' /\ queue' \in Seq(LogLines) /\ Handled' = Handled + 1
    BY <1>1, <1>2, <1>4, <2>3, QueueStays
  <2>5. Fine(accepted', files', writer', Handled')
    <3>1. Ordered(accepted, files', writer'.buffer, Handled + 1) /\ Handled + 1 \in 0..Len(accepted)
      BY <1>1, <2>2, LineLost DEF Fine
    <3>2. Fine(accepted, files', writer', Handled + 1)
      BY <2>2, <3>1 DEF Fine
    <3> QED BY <1>2, <2>4, <3>2
  <2>6. writer' # Absent
    BY <1>1, <2>2, WriterIsThere DEF Fine, WriterRecords
  <2>7. SilentAt'
    BY <1>6 DEF SilentAt
  <2> QED BY <1>1, <1>2, <2>3, <2>4, <2>5, <2>6, <2>7, WriterStays
<1> QED BY <1>5, <1>6 DEF Shift

\* rotate(): <service>.log becomes <service>.log.1.
LEMMA RenameKeeps ==
  ASSUME SourceIInv, FilesIInv, Rename
  PROVE  FilesIInv'
<1>1. /\ Handled \in 0..Len(accepted) /\ Handled \in Nat /\ Sound(accepted) /\ maxFiles \in Nat
      /\ accepted \in Seq(LogLines)
  BY HandledFacts DEF Sound
<1>2. /\ pump = "rename" /\ writer # Absent /\ maxFiles # 0
      /\ maxFiles' = maxFiles /\ queue' = queue /\ accepted' = accepted
  BY DEF Rename, FilesIInv, FileTypes
<1>3. pump \in Busy /\ "reopen" \in Busy
  BY <1>2 DEF Busy
<1>4. ASSUME pump' = "poll", reported' = TRUE, files' = files, writer' = writer
      PROVE  FilesIInv'
  BY <1>2, <1>3, <1>4, LostKeeps
<1>5. CASE /\ files[0] # Absent
           /\ files' = [files EXCEPT ![0] = Absent, ![1] = files[0]]
           /\ writer' = [writer EXCEPT !.at = IF @ = 0 THEN 1 ELSE @]
           /\ pump' = "reopen" /\ entry' = entry /\ reported' = reported
  <2>1. /\ files \in [Names -> Seq(LogLines) \cup {Absent}] /\ writer \in WriterRecords
        /\ Ordered(accepted, files, writer.buffer, Handled)
        /\ \A n \in Names : n \in Nat /\ n <= maxFiles
        /\ \A n \in Nat : n <= maxFiles => n \in Names
        /\ 0 \in Names /\ 1 \in Names
    BY <1>1, <1>2 DEF FilesIInv, FileTypes, WriterRecords, Names, Buffer
  <2>2. writer.at = 0
    <3>1. writer.at # Unlinked
      BY <1>2, <1>5, <2>1 DEF FilesIInv, WriterAt
    <3>2. writer.at \in Names
      BY <2>1, <3>1 DEF WriterRecords
    <3>3. ~(0 \in 0..(writer.at - 1))
      BY <1>2, <1>5, <3>1 DEF FilesIInv, WriterAt
    <3> QED BY <2>1, <3>2, <3>3
  <2>3. writer' \in WriterRecords /\ writer'.at = 1 /\ writer'.buffer = writer.buffer
    <3>1. writer' = [writer EXCEPT !.at = 1]
      BY <1>5, <2>1, <2>2 DEF WriterRecords
    <3> QED BY <2>1, <3>1 DEF WriterRecords
  <2>4. /\ files' \in [Names -> Seq(LogLines) \cup {Absent}]
        /\ files'[0] = Absent /\ files'[1] = files[0]
        /\ \A n \in Names : n \notin {0, 1} => files'[n] = files[n]
    BY <1>5, <2>1
  <2>5. Ordered(accepted, files', writer.buffer, Handled)
    <3> DEFINE g == [n \in Names |-> IF n = 1 THEN 0 ELSE n]
    <3>1. g \in [Names -> Names] /\ \A n \in Names : g[n] = IF n = 1 THEN 0 ELSE n
      BY <2>1
    <3> HIDE DEF g
    <3>2. In(files', 0) = <<>>
      BY <2>4 DEF In
    <3>3. \A n \in Names : n # 0 => files'[n] = files[g[n]]
      BY <2>1, <2>4, <3>1
    <3>4. \A n \in Names : In(files', n) = <<>> \/ In(files', n) = In(files, g[n])
      BY <3>2, <3>3 DEF In
    <3>5. \A m, n \in Names : m < n => In(files', m) = <<>> \/ In(files', n) = <<>> \/ g[m] < g[n]
      <4> SUFFICES ASSUME NEW m \in Names, NEW n \in Names, m < n, m # 0 PROVE g[m] < g[n]
        BY <3>2
      <4> QED BY <2>1, <3>1
    <3> QED BY <2>1, <3>1, <3>4, <3>5, Rearranged
  <2>6. 1 # Unlinked
    BY PipelineAssumption
  <2>7. Fine(accepted, files', writer', Handled)
    <3>1. \A n \in 0..(1 - 1) : n = 0
      OBVIOUS
    <3>2. files'[writer'.at] # Absent /\ \A n \in 0..(writer'.at - 1) : files'[n] = Absent
      BY <1>5, <2>3, <2>4, <3>1
    <3>3. Ordered(accepted, files', writer'.buffer, Handled)
      BY <2>3, <2>5
    <3> QED BY <1>1, <2>3, <2>4, <2>6, <3>2, <3>3 DEF Fine, WriterRecords
  <2>8. writer' # Absent
    BY <1>1, <2>3, WriterIsThere
  <2>9. QueueAt' /\ queue' \in Seq(LogLines) /\ Handled' = Handled
    BY <1>1, <1>2, <1>3, <1>5, QueueStays
  <2>10. Gap = {1} /\ Gap' = {0} /\ Names' = Names
    BY <1>2, <1>5 DEF Gap, Names
  <2>11. ASSUME ~reported'
         PROVE  /\ \E cut \in Cuts(Handled) :
                     /\ Whole(accepted, files', <<>>, Handled, cut)
                     /\ cut[maxFiles + 1] = 0 \/ \A n \in Names \ {0} : files'[n] # Absent
                /\ \A m, n \in Names \ {0} : m < n /\ files'[n] # Absent => files'[m] # Absent
                /\ writer.buffer = <<>>
    <3>1. Silent(accepted, files, writer, Handled, {1}) /\ writer.buffer = <<>>
      BY <1>2, <1>5, <2>10, <2>11, WriterSilent
    <3>2. PICK low : /\ Exact(accepted, files, writer, Handled, low)
                     /\ low = 0 \/ \A n \in Names \ {1} : files[n] # Absent
      BY <3>1 DEF Silent
    <3>3. PICK cut \in Cuts(Handled) : /\ Whole(accepted, files, <<>>, Handled, cut)
                                       /\ cut[maxFiles + 1] = low
      BY <3>1, <3>2 DEF Exact
    <3>4. files[1] = Absent /\ \A m, n \in Names \ {1} : m < n /\ files[n] # Absent => files[m] # Absent
      BY <3>1 DEF Silent
    <3> DEFINE D == 0..(maxFiles + 1)
               cut2 == [cut EXCEPT ![1] = cut[0]]
    <3>5. /\ \A n \in D : n \in Nat /\ cut[n] \in 0..Handled
          /\ cut2 \in Cuts(Handled) /\ cut2[0] = cut[0] /\ cut2[1] = cut[0]
          /\ \A n \in D : n # 1 => cut2[n] = cut[n]
          /\ 0 \in D /\ 1 \in D /\ 2 \in D /\ maxFiles + 1 \in D /\ maxFiles + 1 # 1
          /\ \A n \in Names : n \in D /\ n + 1 \in D
      BY <1>1, <1>2, <3>3 DEF Cuts, Names
    <3> HIDE DEF cut2, D
    <3>6. /\ \A n \in Names : cut[n + 1] <= cut[n]
                                /\ Slice(accepted, In(files, n), cut[n + 1], cut[n])
          /\ Slice(accepted, <<>>, cut[0], Handled)
      BY <3>3 DEF Whole
    <3>7. cut[2] = cut[1]
      <4>1. In(files, 1) = <<>> /\ 1 + 1 = 2
        BY <3>4 DEF In
      <4>2. Slice(accepted, <<>>, cut[2], cut[1])
        BY <2>1, <3>6, <4>1
      <4>3. 0 = cut[1] - cut[2]
        BY <4>2 DEF Slice
      <4> QED BY <1>1, <3>5, <4>3
    <3>8. ASSUME NEW n \in Names
          PROVE  cut2[n + 1] <= cut2[n] /\ Slice(accepted, In(files', n), cut2[n + 1], cut2[n])
      <4>1. CASE n = 0
        <5>1. In(files', 0) = <<>> /\ cut[0] \in Nat
          BY <1>1, <2>4, <3>5 DEF In
        <5>2. Slice(accepted, <<>>, cut[0], cut[0])
          BY <5>1 DEF Slice
        <5> QED BY <3>5, <4>1, <5>1, <5>2
      <4>2. CASE n = 1
        <5>1. In(files', 1) = In(files, 0) /\ cut2[2] = cut[1] /\ 0 + 1 = 1 /\ 1 + 1 = 2
          BY <2>4, <3>5, <3>7 DEF In
        <5>2. Slice(accepted, In(files, 0), cut[1], cut[0]) /\ cut[1] <= cut[0]
          BY <2>1, <3>6, <5>1
        <5> QED BY <3>5, <4>2, <5>1, <5>2
      <4>3. CASE n \notin {0, 1}
        <5>1. In(files', n) = In(files, n) /\ n + 1 # 1 /\ n # 1
          BY <2>1, <2>4, <4>3 DEF In
        <5>2. cut2[n + 1] = cut[n + 1] /\ cut2[n] = cut[n]
          BY <3>5, <5>1
        <5> QED BY <3>6, <5>1, <5>2
      <4> QED BY <4>1, <4>2, <4>3
    <3>9. Whole(accepted, files', <<>>, Handled, cut2)
      BY <3>5, <3>6, <3>8 DEF Whole
    <3>10. cut2[maxFiles + 1] = 0 \/ \A n \in Names \ {0} : files'[n] # Absent
      <4>1. cut2[maxFiles + 1] = low
        BY <3>3, <3>5
      <4>2. ASSUME \A n \in Names \ {1} : files[n] # Absent, NEW n \in Names \ {0}
            PROVE  files'[n] # Absent
        BY <1>5, <2>4, <4>2
      <4> QED BY <3>2, <4>1, <4>2
    <3>11. ASSUME NEW m \in Names \ {0}, NEW n \in Names \ {0}, m < n, files'[n] # Absent
           PROVE  files'[m] # Absent
      <4>1. CASE m = 1
        BY <1>5, <2>4, <4>1
      <4>2. CASE m # 1
        <5>1. n # 1
          BY <2>1, <3>11, <4>2
        <5> QED BY <2>4, <3>4, <3>11, <4>2, <5>1
      <4> QED BY <4>1, <4>2
    <3> QED BY <3>1, <3>5, <3>9, <3>10, <3>11
  <2>12. SilentAt'
    <3> SUFFICES ASSUME ~reported' PROVE SilentAt'
      BY DEF SilentAt
    <3>1. PICK cut \in Cuts(Handled) :
            /\ Whole(accepted, files', <<>>, Handled, cut)
            /\ cut[maxFiles + 1] = 0 \/ \A n \in Names \ {0} : files'[n] # Absent
      BY <2>11
    <3>2. Buffer' = <<>>
      BY <2>3, <2>8, <2>11 DEF Buffer
    <3>3. cut \in Cuts(Handled)'
      BY <1>2, <2>9 DEF Cuts
    <3>4. Whole(accepted, files, Buffer, Handled, cut)'
      BY <1>2, <2>9, <2>10, <3>1, <3>2 DEF Whole
    <3>5. cut[maxFiles' + 1] = 0 \/ \A n \in Names' \ Gap' : files'[n] # Absent
      BY <1>2, <2>10, <3>1
    <3>6. /\ \A m, n \in Names' \ Gap' : m < n /\ files'[n] # Absent => files'[m] # Absent
          /\ \A n \in Gap' : files'[n] = Absent
      BY <2>4, <2>10, <2>11
    <3> QED BY <1>5, <2>3, <3>2, <3>3, <3>4, <3>5, <3>6 DEF SilentAt
  <2>13. Fine(accepted', files', writer', Handled')
    BY <1>2, <2>7, <2>9
  <2> QED BY <1>1, <1>2, <1>3, <1>5, <2>8, <2>9, <2>12, <2>13, WriterStays
<1> QED BY <1>4, <1>5 DEF Rename, Recorded

\* A fresh <service>.log under a fresh handle.
FreshFiles == [files EXCEPT ![0] = <<>>]
FreshWriter == [Clean(writer) EXCEPT !.at = 0, !.size = 0]

\* An empty <service>.log with an empty buffer is in order.
LEMMA FreshFacts ==
  ASSUME SourceIInv, FilesIInv, writer # Absent
  PROVE  /\ Fine(accepted, FreshFiles, FreshWriter, Handled)
         /\ FreshWriter.at = 0 /\ FreshWriter.buffer = <<>>
         /\ FreshFiles[0] = <<>> /\ <<>> # Absent
         /\ \A n \in Names : n # 0 => FreshFiles[n] = files[n]
         /\ 0 \in Names
<1> DEFINE w1 == Clean(writer)
           w2 == [w1 EXCEPT !.at = 0]
           w3 == [w2 EXCEPT !.size = 0]
<1>1. /\ Handled \in 0..Len(accepted) /\ maxFiles \in Nat
      /\ files \in [Names -> Seq(LogLines) \cup {Absent}] /\ writer \in WriterRecords
      /\ Ordered(accepted, files, writer.buffer, Handled)
      /\ 0 \in Names
  BY HandledFacts DEF FilesIInv, FileTypes, WriterRecords, Names, Buffer
<1>2. w1 \in WriterRecords /\ w1.buffer = <<>>
  BY <1>1, CleanFacts
<1> HIDE DEF w1
<1>3. w2 \in WriterRecords /\ w2.buffer = <<>> /\ w2.at = 0
  BY <1>1, <1>2 DEF WriterRecords
<1> HIDE DEF w2
<1>4. w3 \in WriterRecords /\ w3.buffer = <<>> /\ w3.at = 0
  BY <1>3 DEF WriterRecords
<1>5. FreshWriter = w3
  BY DEF FreshWriter, w1, w2
<1> HIDE DEF w3
<1>6. <<>> # Absent /\ <<>> \in Seq(LogLines)
  <2>1. <<>> \in Seq(LogLines)
    OBVIOUS
  <2> QED BY <2>1, PipelineAssumption
<1>7. /\ FreshFiles \in [Names -> Seq(LogLines) \cup {Absent}] /\ FreshFiles[0] = <<>>
      /\ \A n \in Names : n # 0 => FreshFiles[n] = files[n]
  BY <1>1, <1>6 DEF FreshFiles
<1>8. Ordered(accepted, FreshFiles, <<>>, Handled)
  <2> DEFINE g == [n \in Names |-> n]
  <2>1. g \in [Names -> Names] /\ \A n \in Names : g[n] = n
    OBVIOUS
  <2> HIDE DEF g
  <2>2. \A n \in Names : In(FreshFiles, n) = <<>> \/ In(FreshFiles, n) = In(files, g[n])
    BY <1>6, <1>7, <2>1 DEF In
  <2>3. \A m, n \in Names : m < n => g[m] < g[n]
    BY <2>1
  <2> QED BY <1>1, <2>1, <2>2, <2>3, Rearranged
<1>9. \A n \in 0..(0 - 1) : FreshFiles[n] = Absent
  OBVIOUS
<1>10. 0 # Unlinked
  BY PipelineAssumption
<1>11. Fine(accepted, FreshFiles, FreshWriter, Handled)
  BY <1>1, <1>4, <1>5, <1>6, <1>7, <1>8, <1>9, <1>10 DEF Fine, WriterRecords
<1> QED BY <1>1, <1>4, <1>5, <1>6, <1>7, <1>11

\* rotate() without a history.
LEMMA TruncateKeeps ==
  ASSUME SourceIInv, FilesIInv, Truncate
  PROVE  FilesIInv'
<1>1. pump = "truncate" /\ pump \in Busy /\ maxFiles = 0 /\ writer # Absent
  BY DEF Truncate, FilesIInv, FileTypes, Busy
<1>2. CASE Abandon
  BY <1>1, <1>2, LostKeeps DEF Abandon, Recorded
<1>3. CASE /\ Buffered(FreshFiles, FreshWriter) /\ Recorded
           /\ UNCHANGED <<maxFiles, queue, closed, behind, accepted, follower>>
  <2>1. /\ Fine(accepted, FreshFiles, FreshWriter, Handled)
        /\ FreshWriter.at = 0 /\ FreshWriter.buffer = <<>>
        /\ FreshFiles[0] = <<>> /\ <<>> # Absent
    BY <1>1, FreshFacts
  <2>2. Handled \in Nat /\ Names = {0}
    BY <1>1 DEF FilesIInv, QueueAt, Names
  <2>3. Exact(accepted, FreshFiles, FreshWriter, Handled, Handled)
    <3> DEFINE cut == [n \in 0..(0 + 1) |-> Handled]
    <3>1. cut \in Cuts(Handled) /\ cut[0] = Handled /\ cut[1] = Handled /\ 0 + 1 = 1
      BY <1>1, <2>2 DEF Cuts
    <3> HIDE DEF cut
    <3>2. Slice(accepted, <<>>, Handled, Handled)
      BY <2>2 DEF Slice
    <3>3. In(FreshFiles, 0) = <<>>
      BY <2>1 DEF In
    <3>4. Whole(accepted, FreshFiles, FreshWriter.buffer, Handled, cut)
      BY <2>1, <2>2, <3>1, <3>2, <3>3 DEF Whole
    <3> QED BY <1>1, <2>1, <3>1, <3>4 DEF Exact
  <2>4. Silent(accepted, FreshFiles, FreshWriter, Handled, {})
    BY <2>1, <2>2, <2>3 DEF Silent
  <2> HIDE DEF Recorded
  <2> QED BY <1>1, <1>3, <2>1, <2>4, BufferedKeeps
<1> QED BY <1>2, <1>3 DEF Truncate, FreshFiles, FreshWriter

\* rotate(): the fresh file gets the line that did not fit into the old one.
LEMMA ReopenKeeps ==
  ASSUME SourceIInv, FilesIInv, Reopen
  PROVE  FilesIInv'
<1>1. pump = "reopen" /\ pump \in Busy /\ writer # Absent
  BY DEF Reopen, FilesIInv, FileTypes, Busy
<1>2. CASE Abandon
  BY <1>1, <1>2, LostKeeps DEF Abandon, Recorded
<1>3. CASE /\ Buffered(FreshFiles, FreshWriter) /\ Recorded
           /\ UNCHANGED <<maxFiles, queue, closed, behind, accepted, follower>>
  <2>1. /\ Fine(accepted, FreshFiles, FreshWriter, Handled)
        /\ FreshWriter.at = 0 /\ FreshWriter.buffer = <<>>
        /\ FreshFiles[0] = <<>> /\ <<>> # Absent
        /\ \A n \in Names : n # 0 => FreshFiles[n] = files[n]
        /\ 0 \in Names
    BY <1>1, FreshFacts
  <2>2. ASSUME ~reported
        PROVE  Silent(accepted, FreshFiles, FreshWriter, Handled, {})
    <3>1. Gap = {0} /\ Buffer = <<>>
      BY <1>1, <2>2 DEF Gap, FilesIInv, SilentAt
    <3>2. PICK cut \in Cuts(Handled) :
            /\ Whole(accepted, files, <<>>, Handled, cut)
            /\ cut[maxFiles + 1] = 0 \/ \A n \in Names \ {0} : files[n] # Absent
      BY <2>2, <3>1 DEF FilesIInv, SilentAt
    <3>3. files[0] = Absent /\ \A m, n \in Names \ {0} : m < n /\ files[n] # Absent => files[m] # Absent
      BY <2>2, <3>1 DEF FilesIInv, SilentAt
    <3>4. \A n \in Names : In(FreshFiles, n) = In(files, n)
      BY <2>1, <3>3 DEF In
    <3>5. Exact(accepted, FreshFiles, FreshWriter, Handled, cut[maxFiles + 1])
      BY <2>1, <3>2, <3>4 DEF Exact, Whole
    <3>6. cut[maxFiles + 1] = 0 \/ \A n \in Names \ {} : FreshFiles[n] # Absent
      BY <2>1, <3>2
    <3>7. \A m, n \in Names \ {} : m < n /\ FreshFiles[n] # Absent => FreshFiles[m] # Absent
      <4> SUFFICES ASSUME NEW m \in Names, NEW n \in Names, m < n, FreshFiles[n] # Absent
                   PROVE  FreshFiles[m] # Absent
        OBVIOUS
      <4>1. CASE m = 0
        BY <2>1, <4>1
      <4>2. CASE m # 0
        <5>1. n # 0
          BY <4>2 DEF Names
        <5> QED BY <2>1, <3>3, <4>2, <5>1
      <4> QED BY <4>1, <4>2
    <3> QED BY <3>5, <3>6, <3>7 DEF Silent
  <2> HIDE DEF Recorded
  <2> QED BY <1>1, <1>3, <2>1, <2>2, BufferedKeeps
<1> QED BY <1>2, <1>3 DEF Reopen, FreshFiles, FreshWriter

\* The first line of a service opens its file.
LEMMA OpenKeeps ==
  ASSUME SourceIInv, FilesIInv, Open
  PROVE  FilesIInv'
<1>1. /\ pump = "record" /\ pump \in Busy /\ writer = Absent
      /\ \A n \in Names : files[n] = Absent
  BY DEF Open, FilesIInv, WriterAt, Busy
<1>2. CASE Abandon
  BY <1>1, <1>2, LostKeeps DEF Abandon, Recorded
<1>3. CASE ~Abandon
  <2>1. /\ files' = [files EXCEPT ![0] = IF @ = Absent THEN <<>> ELSE @]
        /\ writer' = [at |-> 0, size |-> Size(files'[0]), buffer |-> <<>>, unflushed |-> 0]
        /\ maxFiles' = maxFiles /\ queue' = queue /\ pump' = pump /\ entry' = entry
        /\ reported' = reported /\ accepted' = accepted
    BY <1>3 DEF Open
  <2>2. /\ Handled \in 0..Len(accepted) /\ Sound(accepted) /\ maxFiles \in Nat
        /\ accepted \in Seq(LogLines) /\ Handled \in Nat
        /\ files \in [Names -> Seq(LogLines) \cup {Absent}] /\ 0 \in Names
    BY HandledFacts DEF Sound, FilesIInv, FileTypes, Names
  <2>3. <<>> # Absent /\ <<>> \in Seq(LogLines) /\ 0 # Unlinked
    <3>1. <<>> \in Seq(LogLines)
      OBVIOUS
    <3>2. <<>> # Absent
      BY <3>1, PipelineAssumption
    <3>3. 0 # Unlinked
      BY PipelineAssumption
    <3> QED BY <3>1, <3>2, <3>3
  <2>4. /\ files' \in [Names -> Seq(LogLines) \cup {Absent}] /\ files'[0] = <<>>
        /\ \A n \in Names : n # 0 => files'[n] = files[n]
    BY <1>1, <2>1, <2>2, <2>3
  <2>5. Size(<<>>) \in Nat
    <3>1. \A i \in 1..Len(<<>>) : Real(<<>>[i])
      OBVIOUS
    <3> QED BY <2>3, <3>1, SizesFacts
  <2>6. writer' \in WriterRecords /\ writer'.at = 0 /\ writer'.buffer = <<>>
    BY <2>1, <2>2, <2>3, <2>4, <2>5 DEF WriterRecords
  <2>7. writer' # Absent
    BY <2>2, <2>6, WriterIsThere
  <2>8. \A n \in Names : In(files', n) = <<>> /\ In(files, n) = <<>>
    BY <1>1, <2>3, <2>4 DEF In
  <2>9. Ordered(accepted, files', <<>>, Handled)
    BY <2>8, AmongEmpty, OlderEmpty DEF Ordered
  <2>10. \A n \in 0..(0 - 1) : files'[n] = Absent
    OBVIOUS
  <2>11. Fine(accepted, files', writer', Handled)
    BY <2>2, <2>3, <2>4, <2>6, <2>9, <2>10 DEF Fine, WriterRecords
  <2>12. QueueAt' /\ queue' \in Seq(LogLines) /\ Handled' = Handled
    BY <1>1, <2>1, <2>2, QueueStays
  <2>13. Gap = {} /\ Gap' = {}
    BY <1>1, <2>1 DEF Gap
  <2>14. ASSUME ~reported'
         PROVE  Silent(accepted, files', writer', Handled, {})
    <3>1. Buffer = <<>> /\ ~reported
      BY <1>1, <2>1, <2>14 DEF Buffer
    <3>2. PICK cut \in Cuts(Handled) :
            /\ Whole(accepted, files, <<>>, Handled, cut)
            /\ cut[maxFiles + 1] = 0 \/ \A n \in Names : files[n] # Absent
      BY <2>13, <3>1 DEF FilesIInv, SilentAt
    <3>3. Whole(accepted, files', <<>>, Handled, cut)
      BY <2>8, <3>2 DEF Whole
    <3>4. cut[maxFiles + 1] = 0
      BY <1>1, <2>2, <3>2
    <3>5. Exact(accepted, files', writer', Handled, 0)
      BY <2>6, <3>3, <3>4 DEF Exact
    <3>6. \A m, n \in Names : m < n /\ files'[n] # Absent => files'[m] # Absent
      <4> SUFFICES ASSUME NEW m \in Names, NEW n \in Names, m < n PROVE files'[n] = Absent
        OBVIOUS
      <4>1. n # 0
        BY DEF Names
      <4> QED BY <1>1, <2>4, <4>1
    <3> QED BY <3>5, <3>6 DEF Silent
  <2>15. SilentAt'
    <3>1. pump' = "record"
      BY <1>1, <2>1
    <3> QED BY <2>1, <2>2, <2>7, <2>12, <2>13, <2>14, <3>1, SilentNext
  <2>16. Fine(accepted', files', writer', Handled')
    BY <2>1, <2>11, <2>12
  <2>17. /\ pump' \in Busy /\ pump' \notin {"shift", "rename", "reopen", "truncate"}
    BY <1>1, <2>1
  <2> QED BY <2>1, <2>2, <2>7, <2>12, <2>15, <2>16, <2>17, WriterStays
<1> QED BY <1>2, <1>3

\* A flush, where there may be no writer yet.
LEMMA CatchUpKeeps ==
  ASSUME SourceIInv, FilesIInv, CatchUp \/ LastFlush
  PROVE  FilesIInv'
<1>1. /\ pump \in {"poll", "park"} /\ pump' \in {"park", "drop"}
      /\ maxFiles' = maxFiles /\ queue' = queue /\ entry' = entry /\ accepted' = accepted
      /\ Flush
  BY DEF CatchUp, LastFlush
<1>2. CASE writer # Absent /\ files' = Flushed(files, writer) /\ writer' = Clean(writer)
           /\ reported' = reported
  BY <1>1, <1>2, FlushKeeps
<1>3. CASE writer # Absent /\ writer' = [writer EXCEPT !.unflushed = 0] /\ reported' = TRUE
           /\ files' = files
  BY <1>1, <1>3, FlushFails
<1>4. CASE writer = Absent /\ writer' = writer /\ files' = files /\ reported' = reported
  <2>1. accepted \in Seq(LogLines) /\ pump \notin Busy /\ pump' \notin Busy
    BY <1>1, HandledFacts DEF Sound, Busy
  <2>2. QueueAt' /\ queue' \in Seq(LogLines) /\ Handled' = Handled
    BY <1>1, <2>1, QueueStays
  <2>3. Names' = Names /\ Buffer' = Buffer /\ Gap = {} /\ Gap' = {} /\ Buffer = <<>>
    BY <1>1, <1>4 DEF Names, Buffer, Gap
  <2>4. FileTypes'
    BY <1>1, <1>4, <2>2, <2>3 DEF FilesIInv, FileTypes
  <2>5. WriterAt'
    BY <1>1, <1>4, <2>3 DEF FilesIInv, WriterAt
  <2>6. Ordered(accepted, files, Buffer, Handled)'
    BY <1>1, <1>4, <2>2, <2>3 DEF FilesIInv, Ordered
  <2>7. SilentAt'
    BY <1>1, <1>4, <2>2, <2>3 DEF FilesIInv, SilentAt, Whole, Cuts
  <2> QED BY <2>2, <2>4, <2>5, <2>6, <2>7 DEF FilesIInv
<1> QED BY <1>1, <1>2, <1>3, <1>4 DEF Flush

\* The last flush, whose failure nobody hears of.
LEMMA DropWriterKeeps ==
  ASSUME SourceIInv, FilesIInv, DropWriter
  PROVE  FilesIInv'
<1>1. /\ pump = "drop" /\ pump' = "done" /\ pump \notin Busy /\ pump' \notin Busy
      /\ writer' = Absent /\ maxFiles' = maxFiles /\ queue' = queue /\ accepted' = accepted
      /\ reported' = reported
  BY DEF DropWriter, Busy
<1>2. /\ Handled \in 0..Len(accepted) /\ Handled \in Nat /\ Sound(accepted) /\ maxFiles \in Nat
      /\ accepted \in Seq(LogLines)
  BY HandledFacts DEF Sound
<1>3. QueueAt' /\ queue' \in Seq(LogLines) /\ Handled' = Handled
  BY <1>1, <1>2, QueueStays
<1>4. Names' = Names /\ Buffer' = <<>> /\ Gap = {} /\ Gap' = {} /\ WriterAt'
  BY <1>1 DEF Names, Buffer, Gap, WriterAt
<1>5. ASSUME files' \in [Names -> Seq(LogLines) \cup {Absent}],
             Ordered(accepted, files', <<>>, Handled),
             ~reported =>
               /\ \E cut \in Cuts(Handled) :
                    /\ Whole(accepted, files', <<>>, Handled, cut)
                    /\ cut[maxFiles + 1] = 0 \/ \A n \in Names : files'[n] # Absent
               /\ \A m, n \in Names : m < n /\ files'[n] # Absent => files'[m] # Absent
      PROVE  FilesIInv'
  <2>1. FileTypes'
    BY <1>1, <1>2, <1>3, <1>4, <1>5 DEF FileTypes
  <2>2. Ordered(accepted, files, Buffer, Handled)'
    BY <1>1, <1>3, <1>4, <1>5 DEF Ordered
  <2>3. SilentAt'
    BY <1>1, <1>3, <1>4, <1>5 DEF SilentAt, Whole, Cuts
  <2> QED BY <1>3, <1>4, <2>1, <2>2, <2>3 DEF FilesIInv
<1>6. /\ files \in [Names -> Seq(LogLines) \cup {Absent}]
      /\ Ordered(accepted, files, <<>>, Handled)
  <2>1. Ordered(accepted, files, Buffer, Handled)
    BY DEF FilesIInv
  <2> QED BY <1>2, <2>1, LineLost DEF FilesIInv, FileTypes
<1>7. ASSUME files' = files, ~reported => Buffer = <<>>
      PROVE  FilesIInv'
  <2>1. ~reported =>
               /\ \E cut \in Cuts(Handled) :
                    /\ Whole(accepted, files, <<>>, Handled, cut)
                    /\ cut[maxFiles + 1] = 0 \/ \A n \in Names : files[n] # Absent
               /\ \A m, n \in Names : m < n /\ files[n] # Absent => files[m] # Absent
    BY <1>4, <1>7 DEF FilesIInv, SilentAt
  <2> QED BY <1>5, <1>6, <1>7, <2>1
<1>8. CASE writer = Absent
  <2>1. files' = files /\ Buffer = <<>>
    BY <1>8 DEF DropWriter, Buffer
  <2> QED BY <1>7, <2>1
<1>9. CASE writer # Absent /\ files' = files /\ writer.buffer # <<>>
  <2>1. ~reported => Buffer = <<>>
    BY <1>1 DEF FilesIInv, SilentAt
  <2> QED BY <1>7, <1>9, <2>1
<1>10. CASE writer # Absent /\ files' = Flushed(files, writer)
  <2> DEFINE u == Clean(writer)
  <2>1. Fine(accepted, files, writer, Handled)
    BY <1>10, WriterFine
  <2>2. u \in WriterRecords /\ u.at = writer.at /\ u.buffer = <<>>
    BY <2>1, CleanFacts DEF Fine, WriterRecords
  <2> HIDE DEF u
  <2>3. /\ Fine(accepted, files', u, Handled)
        /\ \A n \in Names : files'[n] = Absent <=> files[n] = Absent
        /\ \A low : Exact(accepted, files, writer, Handled, low)
                      => Exact(accepted, files', u, Handled, low)
    BY <1>2, <1>10, <2>1, <2>2, FlushFacts DEF WriterRecords
  <2>4. ASSUME ~reported
        PROVE  /\ \E cut \in Cuts(Handled) :
                    /\ Whole(accepted, files', <<>>, Handled, cut)
                    /\ cut[maxFiles + 1] = 0 \/ \A n \in Names : files'[n] # Absent
               /\ \A m, n \in Names : m < n /\ files'[n] # Absent => files'[m] # Absent
    <3>1. Silent(accepted, files, writer, Handled, {})
      BY <1>1, <1>4, <1>10, <2>4, WriterSilent
    <3>2. PICK low : /\ Exact(accepted, files, writer, Handled, low)
                     /\ low = 0 \/ \A n \in Names : files[n] # Absent
      BY <3>1 DEF Silent
    <3>3. PICK cut \in Cuts(Handled) :
            Whole(accepted, files', <<>>, Handled, cut) /\ cut[maxFiles + 1] = low
      BY <2>2, <2>3, <3>2 DEF Exact
    <3>4. \A m, n \in Names : m < n /\ files'[n] # Absent => files'[m] # Absent
      BY <2>3, <3>1 DEF Silent
    <3> QED BY <2>3, <3>2, <3>3, <3>4
  <2>5. files' \in [Names -> Seq(LogLines) \cup {Absent}] /\ Ordered(accepted, files', <<>>, Handled)
    BY <2>2, <2>3 DEF Fine
  <2> QED BY <1>5, <2>4, <2>5
<1> QED BY <1>8, <1>9, <1>10 DEF DropWriter

\* write_line without a rotation, and one that fails.
LEMMA WriteKeeps ==
  ASSUME SourceIInv, FilesIInv, Write \/ WriteFails \/ RotateFlush
  PROVE  FilesIInv'
<1>1. pump = "record" /\ pump \in Busy /\ writer # Absent
  BY DEF Write, WriteFails, RotateFlush, Busy
<1>2. CASE Write
  <2>1. Fine(accepted, files, writer, Handled)
    BY <1>1, WriterFine
  <2>2. ~reported => Silent(accepted, files, writer, Handled, {})
    <3>1. Gap = {}
      BY <1>1 DEF Gap
    <3> QED BY <1>1, <3>1, WriterSilent
  <2> QED BY <1>1, <1>2, <2>1, <2>2, BufferedKeeps DEF Write
<1>3. CASE WriteFails
  BY <1>1, <1>3, LostKeeps DEF WriteFails, Abandon, Recorded
<1>4. CASE RotateFlush
  <2>1. maxFiles' = maxFiles /\ queue' = queue /\ accepted' = accepted
    BY <1>4 DEF RotateFlush
  <2>2. CASE /\ files' = Flushed(files, writer) /\ writer' = Clean(writer)
             /\ pump' = (IF maxFiles = 0 THEN "truncate" ELSE "shift")
             /\ entry' = entry /\ reported' = reported
    BY <1>1, <2>1, <2>2, FlushKeeps
  <2>3. CASE /\ writer' = [writer EXCEPT !.unflushed = 0] /\ Recorded /\ reported' = TRUE
             /\ files' = files
    BY <1>1, <2>1, <2>3, FlushFails DEF Recorded
  <2> QED BY <1>4, <2>2, <2>3 DEF RotateFlush
<1> QED BY <1>2, <1>3, <1>4

\* pump() takes a line.
LEMMA ReceiveKeeps ==
  ASSUME SourceIInv, FilesIInv, Receive
  PROVE  FilesIInv'
<1>1. /\ pump \in {"poll", "park"} /\ pump' = "record" /\ pump \notin Busy /\ pump' \in Busy
      /\ queue # <<>> /\ queue' = Tail(queue) /\ entry' = Head(queue)
      /\ maxFiles' = maxFiles /\ writer' = writer /\ files' = files /\ reported' = reported
      /\ accepted' = accepted
  BY DEF Receive, Busy
<1>2. /\ accepted \in Seq(LogLines) /\ Handled \in Nat /\ queue \in Seq(LogLines)
      /\ \A i \in 1..Len(queue) : queue[i] = accepted[(Len(accepted) - Len(queue)) + i]
  BY HandledFacts DEF Sound, FilesIInv, FileTypes, QueueAt
<1>3. /\ Len(queue) \in Nat \ {0} /\ Len(accepted) \in Nat /\ queue' \in Seq(LogLines)
      /\ Len(queue') = Len(queue) - 1 /\ \A i \in 1..Len(queue') : queue'[i] = queue[i + 1]
      /\ entry' = queue[1]
  BY <1>1, <1>2
<1>4. Handled = Len(accepted) - Len(queue) /\ Handled' = Handled
  BY <1>1, <1>3 DEF Handled
<1>5. QueueAt'
  <2>1. \A i \in 1..Len(queue') : queue'[i] = accepted'[(Len(accepted') - Len(queue')) + i]
    <3> SUFFICES ASSUME NEW i \in 1..Len(queue')
                 PROVE  queue'[i] = accepted'[(Len(accepted') - Len(queue')) + i]
      OBVIOUS
    <3> DEFINE L == Len(accepted)
               Q == Len(queue)
    <3>1. i + 1 \in 1..Q /\ (L - Q) + (i + 1) = (L - (Q - 1)) + i
      BY <1>3
    <3>2. queue[i + 1] = accepted[(L - Q) + (i + 1)]
      BY <1>2, <3>1
    <3> QED BY <1>1, <1>3, <3>1, <3>2
  <2>2. entry' = accepted'[Handled' + 1]
    BY <1>1, <1>2, <1>3, <1>4
  <2> HIDE DEF Handled
  <2> QED BY <1>2, <1>4, <2>1, <2>2 DEF QueueAt
<1>6. Names' = Names /\ Buffer' = Buffer /\ Gap = {} /\ Gap' = {}
  BY <1>1 DEF Names, Buffer, Gap
<1>7. FileTypes'
  BY <1>1, <1>3, <1>6 DEF FilesIInv, FileTypes
<1>8. WriterAt'
  BY <1>1, <1>6 DEF FilesIInv, WriterAt
<1>9. Ordered(accepted, files, Buffer, Handled)'
  BY <1>1, <1>4, <1>6 DEF FilesIInv, Ordered
<1>10. SilentAt'
  BY <1>1, <1>4, <1>6 DEF FilesIInv, SilentAt, Whole, Cuts
<1> QED BY <1>5, <1>7, <1>8, <1>9, <1>10 DEF FilesIInv

\* A longer list of accepted lines changes no place.
LEMMA LongerKeeps ==
  ASSUME NEW a, Sound(a), NEW c, Sound(c), Len(a) <= Len(c),
         \A i \in 1..Len(a) : c[i] = a[i], NEW b \in 0..Len(a)
  PROVE  /\ \A sq : Among(a, sq, b)
               => Among(c, sq, b) /\ \A i \in 1..Len(sq) : PlaceIn(c, sq[i]) = PlaceIn(a, sq[i])
         /\ \A sq, tq : Among(a, sq, b) /\ Among(a, tq, b) /\ Older(a, sq, tq) => Older(c, sq, tq)
         /\ \A fs, buf : Ordered(a, fs, buf, b) => Ordered(c, fs, buf, b)
         /\ \A sq, lo, hi : lo \in Nat /\ hi \in 0..b /\ Slice(a, sq, lo, hi) => Slice(c, sq, lo, hi)
<1>1. Len(a) \in Nat /\ Len(c) \in Nat /\ b \in Nat
  BY DEF Sound
<1>2. ASSUME NEW sq, Among(a, sq, b)
      PROVE  Among(c, sq, b) /\ \A i \in 1..Len(sq) : PlaceIn(c, sq[i]) = PlaceIn(a, sq[i])
  <2>1. ASSUME NEW i \in 1..Len(sq)
        PROVE  /\ PlaceIn(a, sq[i]) \in 1..b /\ c[PlaceIn(a, sq[i])] = sq[i]
               /\ PlaceIn(c, sq[i]) = PlaceIn(a, sq[i])
    <3> DEFINE p == PlaceIn(a, sq[i])
    <3>1. p \in 1..b /\ a[p] = sq[i]
      BY <1>2, AmongPlaces
    <3> HIDE DEF p
    <3>2. p \in 1..Len(a) /\ p \in 1..Len(c)
      BY <1>1, <3>1
    <3>3. c[p] = sq[i]
      BY <3>1, <3>2
    <3>4. PlaceIn(c, c[p]) = p
      BY <3>2, PlaceFacts
    <3> QED BY <3>1, <3>3, <3>4 DEF p
  <2>2. \A i, j \in 1..Len(sq) : i < j => PlaceIn(a, sq[i]) < PlaceIn(a, sq[j])
    BY <1>2 DEF Among
  <2> QED BY <2>1, <2>2 DEF Among
<1>3. \A sq, tq : Among(a, sq, b) /\ Among(a, tq, b) /\ Older(a, sq, tq) => Older(c, sq, tq)
  BY <1>2 DEF Older
<1>4. ASSUME NEW fs, NEW buf, Ordered(a, fs, buf, b)
      PROVE  Ordered(c, fs, buf, b)
  <2>1. /\ \A n \in Names : Among(a, In(fs, n), b) /\ Older(a, In(fs, n), buf)
        /\ \A m, n \in Names : m < n => Older(a, In(fs, n), In(fs, m))
        /\ Among(a, buf, b)
    BY <1>4 DEF Ordered
  <2>2. \A n \in Names : Among(c, In(fs, n), b) /\ Older(c, In(fs, n), buf)
    BY <1>2, <1>3, <2>1
  <2>3. \A m, n \in Names : m < n => Older(c, In(fs, n), In(fs, m))
    BY <1>3, <2>1
  <2> QED BY <1>2, <2>1, <2>2, <2>3 DEF Ordered
<1>5. ASSUME NEW sq, NEW lo \in Nat, NEW hi \in 0..b, Slice(a, sq, lo, hi)
      PROVE  Slice(c, sq, lo, hi)
  <2>1. Len(sq) = hi - lo /\ \A i \in 1..Len(sq) : sq[i] = a[lo + i]
    BY <1>5 DEF Slice
  <2>2. \A i \in 1..Len(sq) : lo + i \in 1..Len(a)
    BY <1>1, <2>1
  <2>3. \A i \in 1..Len(sq) : sq[i] = c[lo + i]
    BY <2>1, <2>2
  <2> QED BY <2>1, <2>3 DEF Slice
<1> QED BY <1>2, <1>3, <1>4, <1>5

\* LogSink::record: the queue takes a line, or it is dropped.
LEMMA RecordKeeps ==
  ASSUME SourceIInv, FilesIInv, Sound(accepted'), NEW line \in LogLines, Record(line)
  PROVE  FilesIInv'
<1>1. /\ maxFiles' = maxFiles /\ pump' = pump /\ entry' = entry /\ writer' = writer
      /\ files' = files /\ reported' = reported
  BY DEF Record
<1>2. Names' = Names /\ Buffer' = Buffer /\ Gap' = Gap /\ WriterAt'
  BY <1>1 DEF Names, Buffer, Gap, WriterAt, FilesIInv
<1>3. CASE queue' = queue /\ accepted' = accepted
  <2>1. Handled' = Handled
    BY <1>1, <1>3 DEF Handled
  <2>2. FileTypes' /\ QueueAt'
    BY <1>1, <1>2, <1>3, <2>1 DEF FilesIInv, FileTypes, QueueAt
  <2>3. Ordered(accepted, files, Buffer, Handled)'
    BY <1>1, <1>2, <1>3, <2>1 DEF FilesIInv, Ordered
  <2>4. SilentAt'
    BY <1>1, <1>2, <1>3, <2>1 DEF FilesIInv, SilentAt, Whole, Cuts
  <2> QED BY <1>2, <2>2, <2>3, <2>4 DEF FilesIInv
<1>4. CASE queue' = Append(queue, line) /\ accepted' = Append(accepted, line)
  <2> DEFINE a == accepted
             c == accepted'
             q == queue
             L == Len(accepted)
             Q == Len(queue)
  <2>1. /\ a \in Seq(LogLines) /\ q \in Seq(LogLines) /\ L \in Nat /\ Q \in Nat
        /\ Sound(a) /\ Sound(c) /\ Handled \in 0..L /\ Handled \in Nat
        /\ pump \in Busy => Handled + 1 \in 1..L
    BY HandledFacts DEF Sound, FilesIInv, FileTypes
  <2>2. /\ Len(c) = L + 1 /\ Len(queue') = Q + 1 /\ queue' \in Seq(LogLines)
        /\ \A i \in 1..L : c[i] = a[i]
        /\ \A i \in 1..Q : queue'[i] = q[i]
        /\ c[L + 1] = line /\ queue'[Q + 1] = line
    BY <1>4, <2>1
  <2>3. Handled' = Handled
    BY <1>1, <2>1, <2>2 DEF Handled
  <2>4. QueueAt'
    <3>1. ASSUME NEW i \in 1..(Q + 1)
          PROVE  queue'[i] = c[((L + 1) - (Q + 1)) + i]
      <4>1. CASE i = Q + 1
        <5>1. ((L + 1) - (Q + 1)) + i = L + 1
          BY <2>1, <4>1
        <5> QED BY <2>2, <4>1, <5>1
      <4>2. CASE i \in 1..Q
        <5>1. L - Q \in Nat
          BY <2>1 DEF Handled
        <5>2. ((L + 1) - (Q + 1)) + i = (L - Q) + i /\ (L - Q) + i \in 1..L
          BY <2>1, <4>2, <5>1
        <5>3. q[i] = a[(L - Q) + i]
          BY <4>2 DEF FilesIInv, QueueAt
        <5> QED BY <2>2, <4>2, <5>2, <5>3
      <4> QED BY <2>1, <4>1, <4>2
    <3>2. pump' \in Busy => entry' = c[Handled' + 1]
      BY <1>1, <2>1, <2>2, <2>3 DEF FilesIInv, QueueAt
    <3> HIDE DEF Handled
    <3> QED BY <2>1, <2>2, <2>3, <3>1, <3>2 DEF QueueAt
  <2>5. FileTypes'
    BY <1>1, <1>2, <2>2 DEF FilesIInv, FileTypes
  <2>6. L <= Len(c)
    BY <2>1, <2>2
  <2>7. /\ \A fs, buf : Ordered(a, fs, buf, Handled) => Ordered(c, fs, buf, Handled)
        /\ \A sq, lo, hi : lo \in Nat /\ hi \in 0..Handled /\ Slice(a, sq, lo, hi)
                             => Slice(c, sq, lo, hi)
    <3> HIDE DEF a, c, L
    <3>1. Len(a) = L
      BY DEF a, L
    <3> QED BY <2>1, <2>2, <2>6, <3>1, LongerKeeps
  <2>8. Ordered(accepted, files, Buffer, Handled)'
    <3>1. Ordered(c, files, Buffer, Handled)
      BY <2>7 DEF FilesIInv
    <3> QED BY <1>1, <1>2, <2>3, <3>1, OrderedNext
  <2>9. SilentAt'
    <3> SUFFICES ASSUME ~reported' PROVE SilentAt'
      BY DEF SilentAt
    <3>1. ~reported
      BY <1>1
    <3>2. PICK cut \in Cuts(Handled) :
            /\ Whole(a, files, Buffer, Handled, cut)
            /\ cut[maxFiles + 1] = 0 \/ \A n \in Names \ Gap : files[n] # Absent
      BY <3>1 DEF FilesIInv, SilentAt
    <3>3. /\ maxFiles \in Nat
          /\ \A n \in Names : cut[n] \in 0..Handled /\ cut[n + 1] \in 0..Handled
          /\ cut[0] \in 0..Handled /\ Handled \in 0..Handled
          /\ \A n \in 0..Handled : n \in Nat
    <4>1. maxFiles \in Nat
      BY DEF FilesIInv, FileTypes
    <4>2. \A n \in Names : n \in 0..(maxFiles + 1) /\ n + 1 \in 0..(maxFiles + 1)
      BY <4>1 DEF Names
    <4>3. 0 \in 0..(maxFiles + 1)
      BY <4>1
    <4> HIDE DEF Handled
    <4> QED BY <2>1, <3>2, <4>1, <4>2, <4>3 DEF Cuts
    <3>4. Whole(c, files, Buffer, Handled, cut)
      BY <2>7, <3>2, <3>3 DEF Whole
    <3>5. Whole(accepted, files, Buffer, Handled, cut)'
      BY <1>1, <1>2, <2>3, <3>4 DEF Whole
    <3>6. cut \in Cuts(Handled)'
      BY <1>1, <2>3, <3>2 DEF Cuts
    <3>7. cut[maxFiles' + 1] = 0 \/ \A n \in Names' \ Gap' : files'[n] # Absent
      BY <1>1, <1>2, <3>2
    <3> QED BY <1>1, <1>2, <3>1, <3>5, <3>6, <3>7 DEF FilesIInv, SilentAt
  <2> QED BY <1>2, <2>4, <2>5, <2>8, <2>9 DEF FilesIInv
<1> QED BY <1>3, <1>4 DEF Record

\* Nothing that the files, the writer or its queue is concerned with.
LEMMA FilesIdle ==
  ASSUME FilesIInv, UNCHANGED <<maxFiles, queue, pump, entry, writer, files, reported, accepted>>
  PROVE  FilesIInv'
<1>1. Names' = Names /\ Buffer' = Buffer /\ Gap' = Gap /\ WriterAt' /\ Handled' = Handled
  BY DEF Names, Buffer, Gap, WriterAt, FilesIInv, Handled
<1>2. FileTypes' /\ QueueAt'
  BY <1>1 DEF FilesIInv, FileTypes, QueueAt
<1>3. Ordered(accepted, files, Buffer, Handled)'
  BY <1>1 DEF FilesIInv, Ordered
<1>4. SilentAt'
  BY <1>1 DEF FilesIInv, SilentAt, Whole, Cuts
<1> QED BY <1>1, <1>2, <1>3, <1>4 DEF FilesIInv

\* Every step keeps the invariant of the files.
LEMMA FilesNext == SourceIInv /\ FilesIInv /\ [Next]_vars => FilesIInv'
<1> SUFFICES ASSUME SourceIInv, FilesIInv, [Next]_vars PROVE FilesIInv'
  OBVIOUS
<1>1. Sound(accepted')
  <2>1. SourceIInv'
    BY SourceInductive
  <2>2. Sound(accepted)'
    BY <2>1, SourceIsSound, PTL
  <2> QED BY <2>2 DEF Sound
<1>2. CASE UNCHANGED vars
  BY <1>2, FilesIdle DEF vars, fileVars
<1>3. ASSUME NEW s \in Senders, SenderStep(s) /\ UNCHANGED <<fileVars, collector>>
      PROVE  FilesIInv'
  BY <1>3, FilesIdle DEF fileVars
<1>4. CASE CollectTake \/ CollectEnd \/ CollectDone \/ GiveUp
  BY <1>4, FilesIdle DEF CollectTake, CollectEnd, CollectDone, GiveUp, Shut, fileVars
<1>5. CASE CollectHandle
  <2>1. CASE IsLog(collector.event)
    <3>1. collector.event \in LogLines
      <4>1. collector.event \in Events
        BY <1>5 DEF SourceIInv, ChannelIInv, ChannelAt, CollectHandle
      <4> QED BY <2>1, <4>1, LogEvents
    <3>2. Record(collector.event)
      BY <1>5, <2>1 DEF CollectHandle
    <3> QED BY <1>1, <3>1, <3>2, RecordKeeps
  <2>2. CASE ~IsLog(collector.event)
    BY <1>5, <2>2, FilesIdle DEF CollectHandle, fileVars
  <2> QED BY <2>1, <2>2
<1>6. CASE PumpStep
  BY <1>6, ReceiveKeeps, CatchUpKeeps, DropWriterKeeps, OpenKeeps, WriteKeeps, TruncateKeeps,
     ShiftKeeps, RenameKeeps, ReopenKeeps DEF PumpStep
<1>7. CASE FollowerStep
  BY <1>7, FilesIdle DEF FollowerStep
<1> QED BY <1>2, <1>3, <1>4, <1>5, <1>6, <1>7 DEF Next, CollectorStep

\* No file was opened yet.
LEMMA FilesInit_IInv == Init => FilesIInv
<1> SUFFICES ASSUME Init PROVE FilesIInv
  OBVIOUS
<1>1. /\ maxFiles \in Nat /\ queue = <<>> /\ pump = "poll" /\ writer = Absent /\ accepted = <<>>
      /\ files = [n \in Names |-> Absent]
  BY LogFilesAssumption DEF Init, FilesInit, Names
<1>2. Handled = 0 /\ Buffer = <<>> /\ Gap = {}
  <2>1. pump \notin Busy /\ Len(accepted) = 0 /\ Len(queue) = 0
    BY <1>1 DEF Busy
  <2>2. Handled = 0
    <3>1. Handled = (0 - 0) - 0
      BY <2>1, Zenon DEF Handled
    <3> QED BY <3>1
  <2>3. Buffer = <<>> /\ Gap = {}
    BY <1>1 DEF Buffer, Gap
  <2> QED BY <2>2, <2>3
<1>3. FileTypes /\ QueueAt /\ WriterAt
  BY <1>1, <1>2 DEF FileTypes, QueueAt, WriterAt, Busy
<1>4. \A n \in Names : In(files, n) = <<>> /\ files[n] = Absent
  BY <1>1 DEF In
<1>5. Ordered(accepted, files, Buffer, Handled)
  BY <1>2, <1>4, AmongEmpty, OlderEmpty DEF Ordered
<1>6. SilentAt
  <2> DEFINE cut == [n \in 0..(maxFiles + 1) |-> 0]
  <2>1. /\ cut \in Cuts(0) /\ cut[maxFiles + 1] = 0 /\ cut[0] = 0
        /\ \A n \in Names : cut[n] = 0 /\ cut[n + 1] = 0
    BY <1>1 DEF Cuts, Names
  <2> HIDE DEF cut
  <2>2. Slice(accepted, <<>>, 0, 0)
    BY DEF Slice
  <2>3. Whole(accepted, files, <<>>, 0, cut)
    BY <1>4, <2>1, <2>2 DEF Whole
  <2> QED BY <1>1, <1>2, <1>4, <2>1, <2>3 DEF SilentAt
<1> QED BY <1>3, <1>5, <1>6 DEF FilesIInv

\* Both invariants hold throughout.
LEMMA FilesInductive == Spec => [](SourceIInv /\ FilesIInv)
<1>1. Init => SourceIInv /\ FilesIInv
  BY SourceInductive, FilesInit_IInv
<1>2. SourceIInv /\ FilesIInv /\ [Next]_vars => (SourceIInv /\ FilesIInv)'
  BY SourceInductive, FilesNext
<1> QED BY <1>1, <1>2, PTL DEF Spec

-----------------------------------------------------------------------------
(* The files from the oldest to the current one.                            *)

Joined(seqs, f) == [i \in 1..Len(seqs) |-> IF i = 1 THEN seqs[i] ELSE f[i - 1] \o seqs[i]]

Join(seqs) == CHOOSE f : f = Joined(seqs, f)

\* f has the first n of the sequences one after the other.
JoinedUpTo(seqs, n, f) ==
  /\ f \in [1..n -> Seq(LogLines)]
  /\ f[1] = seqs[1]
  /\ \A i \in 2..n : f[i] = f[i - 1] \o seqs[i]

\* FlattenSeq puts the sequences together one after the other.
LEMMA FlattenFacts ==
  ASSUME NEW N \in Nat \ {0}, NEW seqs \in [1..N -> Seq(LogLines)]
  PROVE  JoinedUpTo(seqs, N, Join(seqs)) /\ FlattenSeq(seqs) = Join(seqs)[N]
<1>1. N \in Nat /\ N # 0 /\ 1 \in 1..N /\ N \in 1..N /\ Len(seqs) = N /\ \A i \in 1..N : seqs[i] \in Seq(LogLines)
  OBVIOUS
<1>2. \A sq, tq \in Seq(LogLines) : sq \o tq \in Seq(LogLines)
  BY ConcatFacts
<1> DEFINE Bad == {n \in 1..N : ~ \E f : JoinedUpTo(seqs, n, f)}
<1>3. ASSUME Bad # {}
      PROVE  FALSE
  <2>1. PICK n \in Bad : \A m \in Bad : n <= m
    <3>1. Bad \in SUBSET Nat
      BY <1>1
    <3> HIDE DEF Bad
    <3> QED BY <1>3, <3>1, Least
  <2>2. n # 1
    <3>1. JoinedUpTo(seqs, 1, [i \in 1..1 |-> seqs[1]])
      BY <1>1 DEF JoinedUpTo
    <3> QED BY <3>1
  <2>3. n \in 2..N /\ n \in 1..N /\ n - 1 \in 1..N /\ n - 1 \in Nat /\ ~(n <= n - 1)
    BY <1>1, <2>2
  <2>4. PICK f : JoinedUpTo(seqs, n - 1, f)
    BY <2>1, <2>3
  <2> DEFINE g == [i \in 1..n |-> IF i = n THEN f[n - 1] \o seqs[n] ELSE f[i]]
  <2>5. f \in [1..(n - 1) -> Seq(LogLines)] /\ f[n - 1] \in Seq(LogLines)
    BY <2>3, <2>4 DEF JoinedUpTo
  <2>6. f[n - 1] \o seqs[n] \in Seq(LogLines)
    BY <1>1, <1>2, <2>3, <2>5
  <2>7. g \in [1..n -> Seq(LogLines)]
    <3>1. ASSUME NEW i \in 1..n
          PROVE  g[i] \in Seq(LogLines)
      <4>1. i = n \/ i \in 1..(n - 1)
        BY <2>3
      <4> QED BY <2>5, <2>6, <4>1
    <3> QED BY <3>1
  <2>8. g[1] = seqs[1] /\ \A i \in 2..n : g[i] = g[i - 1] \o seqs[i]
    <3>1. f[1] = seqs[1] /\ \A i \in 2..(n - 1) : f[i] = f[i - 1] \o seqs[i]
      BY <2>4 DEF JoinedUpTo
    <3>2. ASSUME NEW i \in 2..n
          PROVE  g[i] = g[i - 1] \o seqs[i]
      <4>1. CASE i = n
        <5>1. i \in 1..n /\ i - 1 \in 1..n /\ i - 1 # n
          BY <2>3, <4>1
        <5> QED BY <4>1, <5>1
      <4>2. CASE i # n
        <5>1. i \in 2..(n - 1) /\ i - 1 \in 1..n /\ i - 1 # n /\ i \in 1..n
          BY <2>3, <4>2
        <5> QED BY <3>1, <4>2, <5>1
      <4> QED BY <4>1, <4>2
    <3>3. 1 \in 1..n /\ 1 # n
      BY <2>3
    <3> QED BY <3>1, <3>2, <3>3
  <2> HIDE DEF g
  <2>9. JoinedUpTo(seqs, n, g)
    BY <2>7, <2>8 DEF JoinedUpTo
  <2> QED BY <2>9
<1>4. PICK f : JoinedUpTo(seqs, N, f)
  BY <1>1, <1>3
<1>5. f = Joined(seqs, f)
  <2>1. f = [i \in 1..N |-> f[i]] /\ f[1] = seqs[1]
    BY <1>4 DEF JoinedUpTo
  <2>2. \A i \in 1..N : f[i] = IF i = 1 THEN seqs[i] ELSE f[i - 1] \o seqs[i]
    <3> SUFFICES ASSUME NEW i \in 1..N, i # 1 PROVE f[i] = f[i - 1] \o seqs[i]
      BY <2>1
    <3>1. i \in 2..N
      BY <1>1
    <3> QED BY <1>4, <3>1 DEF JoinedUpTo
  <2> QED BY <1>1, <2>1, <2>2 DEF Joined
<1> DEFINE s == Join(seqs)
<1>6. s = Joined(seqs, s)
  BY <1>5, Zenon DEF Join
<1> HIDE DEF s
<1>7. /\ s = [i \in 1..N |-> s[i]] /\ s[1] = seqs[1]
      /\ \A i \in 2..N : s[i] = s[i - 1] \o seqs[i]
  <2>1. s = [i \in 1..N |-> IF i = 1 THEN seqs[i] ELSE s[i - 1] \o seqs[i]]
    BY <1>1, <1>6 DEF Joined
  <2>2. \A i \in 1..N : s[i] = IF i = 1 THEN seqs[i] ELSE s[i - 1] \o seqs[i]
    BY <2>1
  <2>3. \A i \in 2..N : i \in 1..N /\ i # 1
    BY <1>1
  <2> QED BY <1>1, <2>1, <2>2, <2>3
<1> DEFINE Wrong == {n \in 1..N : s[n] # f[n]}
<1>8. ASSUME Wrong # {}
      PROVE  FALSE
  <2>1. PICK n \in Wrong : \A m \in Wrong : n <= m
    <3>1. Wrong \in SUBSET Nat
      BY <1>1
    <3> HIDE DEF Wrong
    <3> QED BY <1>8, <3>1, Least
  <2>2. n # 1
    BY <1>4, <1>7 DEF JoinedUpTo
  <2>3. n \in 2..N /\ n - 1 \in 1..N /\ n - 1 \in Nat /\ ~(n <= n - 1)
    BY <1>1, <2>2
  <2>4. s[n - 1] = f[n - 1]
    BY <2>1, <2>3
  <2>5. s[n] = f[n]
    BY <1>4, <1>7, <2>3, <2>4 DEF JoinedUpTo
  <2> QED BY <2>5
<1>9. s = f
  BY <1>4, <1>7, <1>8 DEF JoinedUpTo
<1>10. FlattenSeq(seqs) = s[N]
  BY <1>1 DEF FlattenSeq, s, Join, Joined
<1> QED BY <1>4, <1>9, <1>10 DEF s

\* From the oldest file to the current one every line is older than the next, and
\* without a loss they are the lines between two places.
LEMMA OnDiskFacts ==
  ASSUME maxFiles \in Nat, NEW b \in Nat, files \in [Names -> Seq(LogLines) \cup {Absent}],
         NEW buf, Ordered(accepted, files, buf, b)
  PROVE  /\ OnDisk \in Seq(LogLines)
         /\ Among(accepted, OnDisk, b) /\ Older(accepted, OnDisk, buf)
         /\ \A cut \in Cuts(b) : Whole(accepted, files, buf, b, cut)
                                   => Slice(accepted, OnDisk, cut[maxFiles + 1], cut[0])
<1> DEFINE N == maxFiles + 1
           seqs == [i \in 1..N |-> Contents(N - i)]
           h == Join(seqs)
           a == accepted
<1>1. /\ N \in Nat \ {0} /\ N \in 1..N /\ N - N = 0 /\ 1 \in 1..N /\ N - 1 = maxFiles
      /\ \A i \in 1..N : N - i \in Names
      /\ \A n \in Names : n \in Nat /\ n < N
      /\ 0 \in Names /\ maxFiles \in Names
  BY DEF Names
<1>2. /\ \A n \in Names : Among(a, In(files, n), b) /\ Older(a, In(files, n), buf)
      /\ \A m, n \in Names : m < n => Older(a, In(files, n), In(files, m))
  BY DEF Ordered
<1>3. \A n \in Names : In(files, n) \in Seq(LogLines) /\ Contents(n) = In(files, n)
  <2>1. <<>> \in Seq(LogLines)
    OBVIOUS
  <2> QED BY <2>1 DEF In, Contents
<1> HIDE DEF N
<1>4. seqs \in [1..N -> Seq(LogLines)] /\ \A i \in 1..N : seqs[i] = In(files, N - i)
  BY <1>1, <1>3
<1>5. OnDisk = FlattenSeq(seqs)
  BY DEF OnDisk, N
<1> HIDE DEF seqs
<1>6. JoinedUpTo(seqs, N, h) /\ OnDisk = h[N]
  BY <1>1, <1>4, <1>5, FlattenFacts
<1> HIDE DEF h
<1>7. /\ h \in [1..N -> Seq(LogLines)] /\ h[1] = In(files, N - 1)
      /\ \A i \in 2..N : h[i] = h[i - 1] \o In(files, N - i)
  <2>1. \A i \in 2..N : i \in 1..N
    BY <1>1
  <2> QED BY <1>1, <1>4, <1>6, <2>1 DEF JoinedUpTo
<1> HIDE DEF a
<1> DEFINE Good(i) == /\ Among(a, h[i], b) /\ Older(a, h[i], buf)
                      /\ \A n \in Names : n < N - i => Older(a, h[i], In(files, n))
                      /\ \A cut \in Cuts(b) : Whole(a, files, buf, b, cut)
                                              => Slice(a, h[i], cut[N], cut[N - i])
           Bad == {i \in 1..N : ~Good(i)}
<1>8. \A cut \in Cuts(b) : \A n \in 0..N : cut[n] \in Int
  BY <1>1 DEF Cuts, N
<1>9. Good(1)
  <2>1. /\ \A n \in Names : n < N - 1 => Older(a, h[1], In(files, n))
        /\ Among(a, h[1], b) /\ Older(a, h[1], buf)
    BY <1>1, <1>2, <1>7
  <2>2. ASSUME NEW cut \in Cuts(b), Whole(a, files, buf, b, cut)
        PROVE  Slice(a, h[1], cut[N], cut[N - 1])
    BY <1>1, <1>7, <2>2 DEF Whole, N
  <2> QED BY <2>1, <2>2
<1>10. ASSUME NEW i \in 2..N, Good(i - 1)
       PROVE  Good(i)
  <2> DEFINE n == N - i
             sq == h[i - 1]
             tq == In(files, n)
  <2>1. /\ i - 1 \in 1..N /\ i \in 1..N /\ n \in Names /\ n < N - (i - 1) /\ n + 1 = N - (i - 1)
        /\ sq \in Seq(LogLines) /\ tq \in Seq(LogLines) /\ h[i] = sq \o tq
    <3>1. i - 1 \in 1..N /\ i \in 1..N /\ n < N - (i - 1) /\ n + 1 = N - (i - 1)
      BY <1>1
    <3>2. n \in Names
      BY <1>1, <3>1
    <3>3. sq \in Seq(LogLines) /\ h[i] = sq \o tq
      BY <1>7, <3>1
    <3>4. tq \in Seq(LogLines)
      BY <1>3, <3>2
    <3> QED BY <3>1, <3>2, <3>3, <3>4
  <2>2. /\ Among(a, sq, b) /\ Older(a, sq, buf) /\ Older(a, sq, tq)
        /\ \A m \in Names : m < n => Older(a, sq, In(files, m))
    <3>1. \A m \in Names : m < n => m < N - (i - 1)
      BY <1>1, <2>1
    <3> QED BY <1>10, <2>1, <3>1
  <2>3. /\ Among(a, tq, b) /\ Older(a, tq, buf)
        /\ \A m \in Names : m < n => Older(a, tq, In(files, m))
    BY <1>2, <2>1
  <2> HIDE DEF sq, tq, n
  <2>4. Among(a, h[i], b)
    BY <2>1, <2>2, <2>3, AmongConcat
  <2>5. Older(a, h[i], buf)
    BY <2>1, <2>2, <2>3, OlderConcat
  <2>6. \A m \in Names : m < n => Older(a, h[i], In(files, m))
    BY <2>1, <2>2, <2>3, OlderConcat
  <2>7. ASSUME NEW cut \in Cuts(b), Whole(a, files, buf, b, cut)
        PROVE  Slice(a, h[i], cut[N], cut[n])
    <3>1. Slice(a, sq, cut[N], cut[n + 1])
      BY <1>10, <2>1, <2>7 DEF sq
    <3>2. Slice(a, tq, cut[n + 1], cut[n])
      BY <2>1, <2>7 DEF Whole, tq
    <3>3. cut[N] \in Int /\ cut[n + 1] \in Int /\ cut[n] \in Int
      <4>1. N \in 0..N /\ n + 1 \in 0..N /\ n \in 0..N
        BY <1>1, <2>1
      <4> QED BY <1>8, <4>1
    <3> QED BY <2>1, <3>1, <3>2, <3>3, SliceConcat
  <2> QED BY <2>4, <2>5, <2>6, <2>7 DEF n
<1> HIDE DEF Good
<1>11. Bad = {}
  <2> SUFFICES ASSUME Bad # {} PROVE FALSE
    OBVIOUS
  <2>1. PICK i \in Bad : \A j \in Bad : i <= j
    <3>1. Bad \in SUBSET Nat
      BY <1>1
    <3> HIDE DEF Bad
    <3> QED BY <3>1, Least
  <2>2. i \in 2..N /\ i - 1 \in 1..N /\ ~(i <= i - 1)
    BY <1>1, <1>9, <2>1
  <2> QED BY <1>10, <2>1, <2>2
<1>12. Good(N)
  BY <1>1, <1>11
<1>13. /\ Among(a, h[N], b) /\ Older(a, h[N], buf)
       /\ \A cut \in Cuts(b) : Whole(a, files, buf, b, cut) => Slice(a, h[N], cut[N], cut[0])
  BY <1>1, <1>12 DEF Good
<1>14. h[N] \in Seq(LogLines)
  BY <1>1, <1>7
<1> QED BY <1>6, <1>13, <1>14 DEF N, a

\* What is on disk and in the buffer is in order, and a slice where the files are whole.
LEMMA KeptFacts ==
  ASSUME SourceIInv, FilesIInv
  PROVE  /\ Kept \in Seq(LogLines) /\ Among(accepted, Kept, Handled)
         /\ \A cut \in Cuts(Handled) : Whole(accepted, files, Buffer, Handled, cut)
               => Slice(accepted, Kept, cut[maxFiles + 1], Handled)
<1> DEFINE a == accepted
           d == OnDisk
           q == Buffer
           b == Handled
<1>1. /\ b \in Nat /\ maxFiles \in Nat /\ q \in Seq(LogLines) /\ Kept = d \o q
      /\ files \in [Names -> Seq(LogLines) \cup {Absent}] /\ Ordered(a, files, q, b)
  <2>1. Buffer \in Seq(LogLines)
    <3>1. <<>> \in Seq(LogLines)
      OBVIOUS
    <3> QED BY <3>1 DEF Buffer, FilesIInv, FileTypes
  <2> QED BY <2>1 DEF FilesIInv, FileTypes, QueueAt, Kept, Buffer
<1>2. Among(a, q, b)
  BY <1>1 DEF Ordered
<1> HIDE DEF a, d, q, b
<1>3. /\ d \in Seq(LogLines) /\ Among(a, d, b) /\ Older(a, d, q)
      /\ \A cut \in Cuts(b) : Whole(a, files, q, b, cut)
            => Slice(a, d, cut[maxFiles + 1], cut[0])
  BY <1>1, OnDiskFacts DEF a, d
<1>4. Among(a, d \o q, b) /\ d \o q \in Seq(LogLines)
  BY <1>1, <1>2, <1>3, AmongConcat, ConcatFacts
<1>5. ASSUME NEW cut \in Cuts(b), Whole(a, files, q, b, cut)
      PROVE  Slice(a, d \o q, cut[maxFiles + 1], b)
  <2>1. Slice(a, d, cut[maxFiles + 1], cut[0]) /\ Slice(a, q, cut[0], b)
    BY <1>3, <1>5 DEF Whole
  <2>2. cut[maxFiles + 1] \in Int /\ cut[0] \in Int /\ b \in Int
    BY <1>1 DEF Cuts
  <2> QED BY <1>1, <1>3, <2>1, <2>2, SliceConcat
<1> QED BY <1>1, <1>4, <1>5 DEF a, q, b

\* The invariant says that the log is in order.
LEMMA OrderHolds == SourceIInv /\ FilesIInv => LogIsInOrder
<1> SUFFICES ASSUME SourceIInv, FilesIInv PROVE LogIsInOrder
  OBVIOUS
<1> DEFINE K == Kept
<1>1. K \in Seq(LogLines) /\ Among(accepted, K, Handled)
  BY KeptFacts
<1>2. Handled \in 0..Len(accepted) /\ accepted \in Seq(LogLines)
  BY HandledFacts DEF Sound
<1> HIDE DEF K
<1>3. DOMAIN K = 1..Len(K) /\ \A p \in 1..Handled : p \in DOMAIN accepted
  BY <1>1, <1>2
<1>4. ToSet(K) \subseteq ToSet(accepted)
  BY <1>1, <1>3 DEF ToSet, Among
<1>5. \A i, j \in DOMAIN K : i < j => Place(K[i]) < Place(K[j])
  BY <1>1, <1>3 DEF Place, PlaceIn, Among
<1> QED BY <1>4, <1>5 DEF LogIsInOrder, K

\* For every number of lines, files and faults: the log files from the
\* oldest to the current one hold accepted lines in the order they came, none twice,
\* whatever failed half-way (LogWriter::write_line, flush and rotate).
THEOREM FilesKeepTheOrder == Spec => []LogIsInOrder
BY FilesInductive, OrderHolds, PTL

\* A sequence that is the end of another.
LEMMA EndIsSuffix ==
  ASSUME NEW sq \in Seq(LogLines), NEW a \in Seq(LogLines), NEW lo \in Nat, Slice(a, sq, lo, Len(a))
  PROVE  IsSuffix(sq, a) /\ (lo = 0 => sq = a)
<1> DEFINE M == Len(sq)
           N == Len(a)
           rs == Reverse(sq)
           ra == Reverse(a)
<1>1. M \in Nat /\ N \in Nat /\ M = N - lo /\ M <= N /\ \A i \in 1..M : sq[i] = a[lo + i]
  BY DEF Slice
<1>2. /\ rs = [i \in 1..M |-> sq[(M - i) + 1]] /\ ra = [i \in 1..N |-> a[(N - i) + 1]]
  BY DEF Reverse
<1>3. lo = 0 => sq = a
  <2> SUFFICES ASSUME lo = 0 PROVE sq = a
    OBVIOUS
  <2>1. M = N /\ \A i \in 1..M : sq[i] = a[i]
    BY <1>1
  <2> QED BY <2>1, SeqEqual
<1>4. Len(rs) = M /\ Len(ra) = N
  BY <1>1, <1>2
<1> HIDE DEF rs, ra, M, N
<1>5. ASSUME NEW i \in 1..M
      PROVE  rs[i] = ra[i] /\ rs[i] \in LogLines
  <2>1. /\ (M - i) + 1 \in 1..M /\ lo + ((M - i) + 1) = (N - i) + 1 /\ i \in 1..N
        /\ (N - i) + 1 \in 1..N
    BY <1>1
  <2>2. sq[(M - i) + 1] = a[(N - i) + 1]
    BY <1>1, <2>1
  <2>3. sq[(M - i) + 1] \in LogLines
    BY <2>1 DEF M
  <2> QED BY <1>2, <2>1, <2>2, <2>3
<1> DEFINE us == SubSeq(rs, 1, M)
           ua == SubSeq(ra, 1, M)
<1>6. /\ us \in Seq(LogLines) /\ Len(us) = Len(ua) /\ ua \in Seq(LogLines)
      /\ \A i \in 1..Len(us) : us[i] = ua[i]
  <2>1. \A i \in 1..M : rs[i] \in LogLines /\ ra[i] \in LogLines
    BY <1>5
  <2>2. /\ us \in Seq(LogLines) /\ Len(us) = (IF 1 <= M THEN M - 1 + 1 ELSE 0)
        /\ \A i \in 1..(M - 1 + 1) : us[i] = rs[1 + i - 1]
    BY <1>1, <2>1, SubSeqProperties
  <2>3. /\ ua \in Seq(LogLines) /\ Len(ua) = (IF 1 <= M THEN M - 1 + 1 ELSE 0)
        /\ \A i \in 1..(M - 1 + 1) : ua[i] = ra[1 + i - 1]
    BY <1>1, <2>1, SubSeqProperties
  <2> HIDE DEF us, ua
  <2>4. Len(us) = M /\ Len(ua) = M
    BY <1>1, <2>2, <2>3
  <2>5. \A i \in 1..M : i \in 1..(M - 1 + 1) /\ 1 + i - 1 = i
    BY <1>1
  <2>6. \A i \in 1..M : us[i] = ua[i]
    BY <1>5, <2>2, <2>3, <2>5
  <2> QED BY <2>2, <2>3, <2>4, <2>6
<1>7. us = ua
  <2> HIDE DEF us, ua
  <2> QED BY <1>6, SeqEqual
<1>8. IsPrefix(rs, ra)
  BY <1>1, <1>4, <1>7 DEF IsPrefix
<1> QED BY <1>3, <1>8 DEF IsSuffix, rs, ra

\* The invariant says that nothing is lost silently.
LEMMA SilenceHolds == SourceIInv /\ FilesIInv => NothingIsLostSilently
<1> SUFFICES ASSUME SourceIInv, FilesIInv, pump \in {"poll", "park", "done"}, ~reported
             PROVE  /\ IsSuffix(Kept \o queue, accepted)
                    /\ Kept \o queue # accepted => \A n \in Names : files[n] # Absent
  BY DEF NothingIsLostSilently
<1>1. Gap = {} /\ pump \notin Busy
  BY DEF Gap, Busy
<1>2. PICK cut \in Cuts(Handled) :
        /\ Whole(accepted, files, Buffer, Handled, cut)
        /\ cut[maxFiles + 1] = 0 \/ \A n \in Names : files[n] # Absent
  BY <1>1 DEF FilesIInv, SilentAt
<1>3. /\ accepted \in Seq(LogLines) /\ queue \in Seq(LogLines) /\ Handled \in Nat /\ maxFiles \in Nat
      /\ \A i \in 1..Len(queue) : queue[i] = accepted[(Len(accepted) - Len(queue)) + i]
  BY HandledFacts DEF Sound, FilesIInv, FileTypes, QueueAt
<1> DEFINE K == Kept
           low == cut[maxFiles + 1]
<1>4. K \in Seq(LogLines) /\ Slice(accepted, K, low, Handled)
  BY <1>2, KeptFacts
<1>5. low \in Nat
  BY <1>2, <1>3 DEF Cuts
<1>6. Len(accepted) \in Nat /\ Len(queue) \in Nat
  BY <1>3
<1>7. Handled = Len(accepted) - Len(queue)
  BY <1>1, <1>6 DEF Handled
<1>8. Slice(accepted, queue, Handled, Len(accepted))
  BY <1>3, <1>6, <1>7 DEF Slice
<1> HIDE DEF K, low
<1>9. K \o queue \in Seq(LogLines) /\ Slice(accepted, K \o queue, low, Len(accepted))
  BY <1>3, <1>4, <1>5, <1>6, <1>8, SliceConcat, ConcatFacts
<1>10. IsSuffix(K \o queue, accepted) /\ (low = 0 => K \o queue = accepted)
  BY <1>3, <1>5, <1>9, EndIsSuffix
<1> QED BY <1>2, <1>10 DEF K, low

\* As long as no error was reported, what the files, the buffer and the queue hold is
\* the end of what was accepted, and the beginning is missing only when every file
\* that max_files allows is there: for every number of lines, files and faults.
THEOREM LossesAreLoud == Spec => []NothingIsLostSilently
BY FilesInductive, SilenceHolds, PTL

-----------------------------------------------------------------------------
(* What `logs --follow' has printed.                                        *)

\* Lines that were printed.
RealLines(f) == f \in Seq(LogLines) /\ \A i \in 1..Len(f) : Real(f[i])

\* A size depends on the lines before it alone.
LEMMA SizesAgree ==
  ASSUME NEW f, RealLines(f), NEW g, RealLines(g), NEW n \in Nat, n <= Len(f), n <= Len(g),
         \A i \in 1..n : f[i] = g[i]
  PROVE  \A k \in 0..n : Sizes(f)[k] = Sizes(g)[k]
<1> DEFINE r == Sizes(f)
           s == Sizes(g)
           Wrong == {k \in 0..n : r[k] # s[k]}
<1>1. /\ Len(f) \in Nat /\ Len(g) \in Nat
      /\ SizesUpTo(f, Len(f), r) /\ SizesUpTo(g, Len(g), s)
  BY SizesFacts DEF RealLines
<1> HIDE DEF r, s
<1>2. /\ r[0] = 0 /\ \A m \in 1..Len(f) : r[m] = r[m - 1] + Needed(f[m])
      /\ s[0] = 0 /\ \A m \in 1..Len(g) : s[m] = s[m - 1] + Needed(g[m])
  BY <1>1 DEF SizesUpTo
<1>3. ASSUME Wrong # {}
      PROVE  FALSE
  <2>1. PICK k \in Wrong : \A m \in Wrong : k <= m
    <3>1. Wrong \in SUBSET Nat
      OBVIOUS
    <3> HIDE DEF Wrong
    <3> QED BY <1>3, <3>1, Least
  <2>2. k # 0
    BY <1>2
  <2>3. k \in 1..n /\ k - 1 \in 0..n /\ ~(k <= k - 1) /\ k \in 1..Len(f) /\ k \in 1..Len(g)
    BY <1>1, <2>2
  <2>4. r[k - 1] = s[k - 1]
    BY <2>1, <2>3
  <2>5. r[k] = s[k]
    BY <1>2, <2>3, <2>4
  <2> QED BY <2>5
<1> QED BY <1>3 DEF r, s

\* Every line takes room.
LEMMA SizesGrow ==
  ASSUME NEW f, RealLines(f)
  PROVE  /\ \A k \in 0..Len(f) : Sizes(f)[k] \in Nat
         /\ Sizes(f)[0] = 0 /\ Size(f) = Sizes(f)[Len(f)] /\ Len(f) \in Nat
         /\ \A j, k \in 0..Len(f) : j < k => Sizes(f)[j] < Sizes(f)[k]
         /\ \A k \in 0..Len(f) : Size(SubSeq(f, 1, k)) = Sizes(f)[k]
<1> DEFINE r == Sizes(f)
           N == Len(f)
<1>1. /\ N \in Nat /\ SizesUpTo(f, N, r) /\ Size(f) = r[N]
      /\ f \in Seq(LogLines) /\ \A i \in 1..N : f[i] \in LogLines /\ Real(f[i])
  BY SizesFacts DEF RealLines
<1> HIDE DEF r
<1>2. /\ \A k \in 0..N : r[k] \in Nat
      /\ r[0] = 0 /\ \A m \in 1..N : r[m] = r[m - 1] + Needed(f[m])
      /\ \A m \in 1..N : Needed(f[m]) \in Nat \ {0}
  BY <1>1, NeededFacts DEF SizesUpTo
<1>3. ASSUME NEW j \in 0..N
      PROVE  \A k \in 0..N : j < k => r[j] < r[k]
  <2> DEFINE Wrong == {k \in 0..N : j < k /\ ~(r[j] < r[k])}
  <2>1. ASSUME Wrong # {}
        PROVE  FALSE
    <3>1. PICK k \in Wrong : \A m \in Wrong : k <= m
      <4>1. Wrong \in SUBSET Nat
        BY <1>1
      <4> HIDE DEF Wrong
      <4> QED BY <2>1, <4>1, Least
    <3>2. k \in 1..N /\ k - 1 \in 0..N /\ ~(k <= k - 1) /\ j <= k - 1
      BY <1>1
    <3>3. r[j] <= r[k - 1]
      <4>1. CASE j = k - 1
        BY <1>2, <3>2, <4>1
      <4>2. CASE j # k - 1
        <5>1. j < k - 1 /\ k - 1 \notin Wrong
          BY <1>1, <3>1, <3>2, <4>2
        <5>2. r[j] < r[k - 1]
          BY <3>2, <5>1
        <5> QED BY <1>2, <3>2, <5>2
      <4> QED BY <4>1, <4>2
    <3> DEFINE x == r[j]
               y == r[k - 1]
               z == Needed(f[k])
    <3>4. x \in Nat /\ y \in Nat /\ z \in Nat \ {0} /\ r[k] = y + z /\ x <= y
      BY <1>2, <3>2, <3>3
    <3>5. ~(x < r[k])
      OBVIOUS
    <3> HIDE DEF x, y, z
    <3> QED BY <3>4, <3>5
  <2> QED BY <2>1
<1>4. ASSUME NEW k \in 0..N
      PROVE  Size(SubSeq(f, 1, k)) = r[k]
  <2> DEFINE g == SubSeq(f, 1, k)
  <2>1. k \in Int /\ \A i \in 1..k : i \in 1..N
    BY <1>1
  <2>2. /\ g \in Seq(LogLines) /\ Len(g) = (IF 1 <= k THEN k - 1 + 1 ELSE 0)
        /\ \A i \in 1..(k - 1 + 1) : g[i] = f[1 + i - 1]
    BY <1>1, <2>1, SubSeqProperties
  <2> HIDE DEF g
  <2>3. Len(g) = k
    BY <1>1, <2>2
  <2>4. ASSUME NEW i \in 1..k
        PROVE  g[i] = f[i]
    <3>1. i \in 1..(k - 1 + 1) /\ 1 + i - 1 = i
      BY <2>1
    <3> QED BY <2>2, <3>1
  <2>5. RealLines(g)
    BY <1>1, <2>1, <2>2, <2>3, <2>4 DEF RealLines
  <2>6. k \in Nat /\ k <= Len(f) /\ k <= Len(g)
    BY <1>1, <2>3
  <2>7. \A m \in 0..k : Sizes(f)[m] = Sizes(g)[m]
    BY <2>4, <2>5, <2>6, SizesAgree
  <2>8. Size(g) = Sizes(g)[k]
    BY <2>3, <2>5, SizesFacts DEF RealLines
  <2> QED BY <2>6, <2>7, <2>8 DEF g, r
<1> QED BY <1>1, <1>2, <1>3, <1>4 DEF r

\* A line of the file f that reading from the offset would print, and that no earlier
\* reading did: it ends behind the offset, or the file is another, shorter one.
Unread(f, offset, i) == Sizes(f)[i] > offset \/ Size(f) < offset

NewAfter(a, printed, f, offset) ==
  \A i \in 1..Len(f) : Unread(f, offset, i) =>
    \A j \in 1..Len(printed) : PlaceIn(a, printed[j]) < PlaceIn(a, f[i])

\* What was printed is accepted and handled, older than the buffer, and older than
\* what the file has unread.
FollowIInv ==
  /\ follower \in [at : {"tail", "len", "read"}, offset : Nat, printed : Seq(LogLines)]
  /\ Among(accepted, follower.printed, Handled)
  /\ Older(accepted, follower.printed, Buffer)
  /\ NewAfter(accepted, follower.printed, In(files, 0), follower.offset)

FirstAt ==
  /\ RealLines(In(files, 0)) /\ Among(accepted, In(files, 0), Handled)
  /\ Older(accepted, In(files, 0), Buffer)
  /\ FileLen = Size(In(files, 0))
  /\ files[0] # Absent => In(files, 0) = files[0]

\* The file that the follower reads is in order, and everything in it takes room.
LEMMA FirstFacts == SourceIInv /\ FilesIInv => FirstAt
<1> SUFFICES ASSUME SourceIInv, FilesIInv PROVE FirstAt
  OBVIOUS
<1>1. 0 \in Names /\ Sound(accepted) /\ Handled \in 0..Len(accepted)
  BY HandledFacts DEF Names
<1> DEFINE f == In(files, 0)
<1>2. Among(accepted, f, Handled) /\ Older(accepted, f, Buffer)
  BY <1>1 DEF FilesIInv, Ordered
<1>3. <<>> \in Seq(LogLines)
  OBVIOUS
<1>4. f \in Seq(LogLines)
  BY <1>1, <1>3 DEF In, FilesIInv, FileTypes
<1>5. FileLen = Size(f)
  <2>1. RealLines(<<>>) /\ Len(<<>>) = 0
    BY <1>3 DEF RealLines
  <2>2. Size(<<>>) = 0
    BY <2>1, SizesGrow
  <2> QED BY <2>2 DEF FileLen, In
<1> HIDE DEF f
<1>6. RealLines(f)
  BY <1>1, <1>2, <1>4, AmongPlaces DEF RealLines
<1> QED BY <1>2, <1>5, <1>6 DEF f, In, FirstAt

\* A set of numbers up to n has a largest one.
LEMMA Most ==
  ASSUME NEW n \in Nat, NEW T \in SUBSET (0..n), T # {}
  PROVE  \E k \in T : \A m \in T : m <= k
<1> DEFINE U == {n - k : k \in T}
<1>1. U \in SUBSET Nat /\ U # {}
  <2>1. \A k \in T : n - k \in Nat
    OBVIOUS
  <2>2. \A u \in U : u \in Nat
    BY <2>1
  <2>3. PICK k \in T : TRUE
    OBVIOUS
  <2>4. n - k \in U
    BY <2>3
  <2> HIDE DEF U
  <2> QED BY <2>2, <2>4
<1> HIDE DEF U
<1>2. PICK u \in U : \A v \in U : u <= v
  BY <1>1, Least
<1>3. PICK k \in T : u = n - k
  BY <1>2 DEF U
<1>4. \A m \in T : n - k <= n - m
  BY <1>2, <1>3 DEF U
<1>5. \A m \in T : m <= k
  BY <1>4
<1> QED BY <1>5

\* read_lines takes the lines that end behind the offset.
LEMMA LinesFromFacts ==
  ASSUME NEW f, RealLines(f), NEW offset \in Nat
  PROVE  \E m \in 0..Len(f) :
           /\ LinesFrom(f, offset) = SubSeq(f, m + 1, Len(f))
           /\ \A i \in (m + 1)..Len(f) : Sizes(f)[i] > offset
<1> DEFINE r == Sizes(f)
           N == Len(f)
           before == {k \in 0..N : Size(SubSeq(f, 1, k)) <= offset}
           k == CHOOSE b \in before : \A c \in before : c <= b
<1>1. /\ \A j \in 0..N : r[j] \in Nat
      /\ r[0] = 0 /\ N \in Nat
      /\ \A j \in 0..N : Size(SubSeq(f, 1, j)) = r[j]
  BY SizesGrow
<1>2. LinesFrom(f, offset) = SubSeq(f, k + 1, N)
  BY DEF LinesFrom
<1>3. before = {j \in 0..N : r[j] <= offset}
  BY <1>1
<1>4. before \in SUBSET (0..N) /\ before # {}
  <2>1. 0 \in before
    BY <1>1, <1>3
  <2> QED BY <1>3, <2>1
<1>5. k \in before /\ \A c \in before : c <= k
  <2> HIDE DEF before
  <2>1. \E b \in before : \A c \in before : c <= b
    BY <1>1, <1>4, Most
  <2> QED BY <2>1
<1>6. k \in 0..N
  BY <1>4, <1>5
<1> HIDE DEF r, before, k
<1>7. ASSUME NEW i \in (k + 1)..N
      PROVE  r[i] > offset
  <2>1. i \in 0..N /\ ~(i <= k)
    BY <1>1, <1>6
  <2>2. i \notin before
    BY <1>5, <2>1
  <2> QED BY <1>1, <1>3, <2>1, <2>2
<1> QED BY <1>2, <1>6, <1>7 DEF r

\* The end of a file is as old, and in the same order, as the file.
LEMMA EndFacts ==
  ASSUME NEW a, NEW f \in Seq(LogLines), NEW b, Among(a, f, b), NEW m \in 0..Len(f)
  PROVE  LET e == SubSeq(f, m + 1, Len(f))
         IN  /\ e \in Seq(LogLines) /\ Len(e) = Len(f) - m /\ Among(a, e, b)
             /\ \A i \in 1..Len(e) : m + i \in (m + 1)..Len(f) /\ e[i] = f[m + i]
             /\ \A tq : Older(a, f, tq) => Older(a, e, tq)
<1> DEFINE e == SubSeq(f, m + 1, Len(f))
           N == Len(f)
<1>1. N \in Nat /\ m \in Nat /\ m <= N
  OBVIOUS
<1>2. /\ e \in Seq(LogLines)
      /\ Len(e) = (IF m + 1 <= N THEN N - (m + 1) + 1 ELSE 0)
      /\ \A i \in 1..(N - (m + 1) + 1) : e[i] = f[(m + 1) + i - 1]
  <2>1. m + 1 \in Int /\ N \in Int /\ \A i \in (m + 1)..N : i \in 1..N
    BY <1>1
  <2> QED BY <2>1, SubSeqProperties
<1> HIDE DEF e
<1>3. Len(e) = N - m /\ N - (m + 1) + 1 = N - m
  BY <1>1, <1>2
<1>4. ASSUME NEW i \in 1..Len(e)
      PROVE  m + i \in (m + 1)..N /\ m + i \in 1..N /\ e[i] = f[m + i]
  <2>1. i \in 1..(N - (m + 1) + 1) /\ (m + 1) + i - 1 = m + i
    BY <1>1, <1>3
  <2>2. e[i] = f[m + i]
    BY <1>2, <2>1
  <2> QED BY <1>1, <1>3, <2>2
<1>5. Among(a, e, b)
  <2>1. \A i, j \in 1..Len(e) : i < j => m + i < m + j
    BY <1>1, <1>3
  <2> QED BY <1>4, <2>1 DEF Among
<1>6. \A tq : Older(a, f, tq) => Older(a, e, tq)
  BY <1>4 DEF Older
<1> QED BY <1>2, <1>3, <1>4, <1>5, <1>6 DEF e

\* A file that has been read to its end has nothing new.
LEMMA AllRead ==
  ASSUME NEW f, RealLines(f), NEW a, NEW printed
  PROVE  NewAfter(a, printed, f, Size(f))
<1>1. /\ \A k \in 0..Len(f) : Sizes(f)[k] \in Nat
      /\ Size(f) = Sizes(f)[Len(f)] /\ Len(f) \in Nat
      /\ \A j, k \in 0..Len(f) : j < k => Sizes(f)[j] < Sizes(f)[k]
  BY SizesGrow
<1>2. ASSUME NEW i \in 1..Len(f)
      PROVE  ~Unread(f, Size(f), i)
  <2>1. i \in 0..Len(f) /\ Len(f) \in 0..Len(f) /\ (i < Len(f) \/ i = Len(f))
    BY <1>1
  <2>2. /\ Sizes(f)[i] <= Size(f) /\ Sizes(f)[i] \in Nat /\ Size(f) \in Nat
    BY <1>1, <2>1
  <2> QED BY <2>2 DEF Unread
<1> QED BY <1>2 DEF NewAfter

\* A step of the follower prints what is unread, and leaves nothing unread that it printed.
LEMMA FollowerKeeps ==
  ASSUME SourceIInv, FilesIInv, FollowIInv, FollowerStep
  PROVE  FollowIInv'
<1> DEFINE a == accepted
           f == In(files, 0)
           P == follower.printed
           o == follower.offset
           len == FileLen
<1>1. /\ Handled' = Handled /\ Buffer' = Buffer /\ In(files, 0)' = f /\ accepted' = a
  BY DEF FollowerStep, Handled, Buffer, In
<1>2. /\ RealLines(f) /\ f \in Seq(LogLines) /\ Among(a, f, Handled) /\ Older(a, f, Buffer)
      /\ len = Size(f)
      /\ files[0] # Absent => f = files[0]
  BY FirstFacts DEF FirstAt, RealLines
<1>3. /\ P \in Seq(LogLines) /\ o \in Nat /\ Among(a, P, Handled) /\ Older(a, P, Buffer)
      /\ NewAfter(a, P, f, o)
      /\ follower = [at |-> follower.at, offset |-> o, printed |-> P]
  BY DEF FollowIInv
<1>4. /\ Size(f) \in Nat /\ Len(f) \in Nat /\ Size(f) = Sizes(f)[Len(f)]
      /\ \A k \in 0..Len(f) : Sizes(f)[k] \in Nat
      /\ \A j, k \in 0..Len(f) : j < k => Sizes(f)[j] < Sizes(f)[k]
  <2>1. RealLines(f)
    BY <1>2
  <2> HIDE DEF f
  <2>2. /\ Len(f) \in Nat /\ Size(f) = Sizes(f)[Len(f)]
        /\ \A k \in 0..Len(f) : Sizes(f)[k] \in Nat
        /\ \A j, k \in 0..Len(f) : j < k => Sizes(f)[j] < Sizes(f)[k]
    BY <2>1, SizesGrow
  <2> QED BY <2>2
<1>5. ASSUME NEW at \in {"tail", "len", "read"}, NEW off \in Nat, NEW sq \in Seq(LogLines),
             follower' = [at |-> at, offset |-> off, printed |-> sq],
             Among(a, sq, Handled), Older(a, sq, Buffer), NewAfter(a, sq, f, off)
      PROVE  FollowIInv'
  BY <1>1, <1>5 DEF FollowIInv
<1>6. CASE ReadTail
  <2>1. follower' = [at |-> "len", offset |-> Size(f), printed |-> f]
    BY <1>2, <1>6 DEF ReadTail, In
  <2>2. NewAfter(a, f, f, Size(f))
    BY <1>2, AllRead
  <2> QED BY <1>2, <1>4, <1>5, <2>1, <2>2
<1>7. CASE LookAtLength
  <2>0. PICK half \in HalfLine :
          LET n    == FileLen + half
              from == IF n < follower.offset THEN 0 ELSE follower.offset
          IN  follower' = [follower EXCEPT !.offset = from,
                                           !.at = IF n = from THEN "len" ELSE "read"]
    BY <1>7 DEF LookAtLength
  <2> DEFINE n == Size(f) + half
             from == IF n < o THEN 0 ELSE o
             at == IF n = from THEN "len" ELSE "read"
  <2>1. follower' = [at |-> at, offset |-> from, printed |-> P]
    <3>1. follower' = [follower EXCEPT !.offset = from, !.at = at]
      BY <1>2, <2>0
    <3> HIDE DEF from, at
    <3> DEFINE v == [follower EXCEPT !.offset = from]
    <3>2. follower' = [v EXCEPT !.at = at]
      BY <3>1
    <3> HIDE DEF P, o
    <3>3. v = [at |-> follower.at, offset |-> from, printed |-> P]
      BY <1>3
    <3> HIDE DEF v
    <3> QED BY <3>2, <3>3
  <2>2. NewAfter(a, P, f, from)
    <3>1. CASE n < o
      <4>0. Size(f) < o
        <5>1. half \in Nat
          BY DEF HalfLine
        <5> DEFINE z == Size(f)
        <5>2. z \in Nat /\ z + half < o
          BY <1>4, <3>1
        <5> HIDE DEF z, o
        <5>3. o \in Nat
          BY <1>3
        <5>4. z < o
          BY <5>1, <5>2, <5>3
        <5> QED BY <5>4 DEF z, o
      <4>1. \A i \in 1..Len(f) : Unread(f, o, i)
        BY <4>0 DEF Unread
      <4>2. \A i \in 1..Len(f), j \in 1..Len(P) : PlaceIn(a, P[j]) < PlaceIn(a, f[i])
        BY <1>3, <4>1 DEF NewAfter
      <4> QED BY <4>2 DEF NewAfter
    <3>2. CASE ~(n < o)
      BY <1>3, <3>2
    <3> QED BY <3>1, <3>2
  <2>3. from \in Nat /\ at \in {"tail", "len", "read"}
    BY <1>3
  <2> HIDE DEF from, at, a, f, P, o
  <2> QED BY <1>3, <1>5, <2>1, <2>2, <2>3
<1>8. CASE ReadLines
  <2>1. CASE files[0] = Absent
    <3>1. follower' = [at |-> "len", offset |-> o, printed |-> P]
      <4>1. follower' = [follower EXCEPT !.at = "len", !.offset = o, !.printed = P]
        BY <1>8, <2>1 DEF ReadLines
      <4> HIDE DEF P, o
      <4> QED BY <1>3, <4>1
    <3> HIDE DEF a, f, P, o
    <3> QED BY <1>3, <1>5, <3>1
  <2>2. CASE files[0] # Absent
    <3> DEFINE e == LinesFrom(f, o)
               to == IF Size(f) < o THEN o ELSE Size(f)
               Q == P \o e
    <3>1. follower' = [at |-> "len", offset |-> to, printed |-> Q]
      <4>1. follower' = [follower EXCEPT !.at = "len", !.offset = to, !.printed = Q]
        BY <1>2, <1>8, <2>2 DEF ReadLines
      <4> HIDE DEF P, o, to, Q
      <4> QED BY <1>3, <4>1
    <3> HIDE DEF a, f, P, o, len
    <3>2. PICK m \in 0..Len(f) :
            /\ e = SubSeq(f, m + 1, Len(f))
            /\ \A i \in (m + 1)..Len(f) : Sizes(f)[i] > o
      BY <1>2, <1>3, LinesFromFacts
    <3>3. /\ e \in Seq(LogLines) /\ Len(e) = Len(f) - m /\ Among(a, e, Handled)
          /\ \A i \in 1..Len(e) : m + i \in (m + 1)..Len(f) /\ e[i] = f[m + i]
          /\ Older(a, e, Buffer)
      <4> DEFINE d == SubSeq(f, m + 1, Len(f))
      <4>1. /\ d \in Seq(LogLines) /\ Len(d) = Len(f) - m /\ Among(a, d, Handled)
            /\ \A i \in 1..Len(d) : m + i \in (m + 1)..Len(f) /\ d[i] = f[m + i]
            /\ \A tq : Older(a, f, tq) => Older(a, d, tq)
        BY <1>2, EndFacts
      <4>2. e = d
        BY <3>2
      <4> HIDE DEF e, d
      <4>3. Older(a, d, Buffer)
        BY <1>2, <4>1
      <4> QED BY <4>1, <4>2, <4>3
    <3> HIDE DEF e
    <3>4. Older(a, P, e)
      <4>1. ASSUME NEW i \in 1..Len(e), NEW j \in 1..Len(P)
            PROVE  PlaceIn(a, P[j]) < PlaceIn(a, e[i])
        <5>1. m + i \in (m + 1)..Len(f) /\ m + i \in 1..Len(f) /\ e[i] = f[m + i]
          BY <1>4, <3>3
        <5>2. Unread(f, o, m + i)
          BY <3>2, <5>1 DEF Unread
        <5> QED BY <1>3, <5>1, <5>2 DEF NewAfter
      <4> QED BY <4>1 DEF Older
    <3>5. Q \in Seq(LogLines) /\ Among(a, Q, Handled)
      BY <1>3, <3>3, <3>4, AmongConcat, ConcatFacts
    <3>6. Older(a, Q, Buffer)
      BY <1>3, <3>3, OlderConcat
    <3>7. NewAfter(a, Q, f, to)
      <4>1. CASE ~(Size(f) < o)
        BY <1>2, <4>1, AllRead
      <4>2. CASE Size(f) < o
        <5>1. \A i \in 1..Len(f) : ~(Sizes(f)[i] > o)
          <6> SUFFICES ASSUME NEW i \in 1..Len(f) PROVE ~(Sizes(f)[i] > o)
            OBVIOUS
          <6>1. i \in 0..Len(f) /\ Len(f) \in 0..Len(f) /\ (i < Len(f) \/ i = Len(f))
            BY <1>4
          <6>2. Sizes(f)[i] <= Size(f) /\ Sizes(f)[i] \in Nat
            BY <1>4, <6>1
          <6> QED BY <1>3, <1>4, <4>2, <6>2
        <5>2. m = Len(f)
          <6>1. ASSUME m # Len(f) PROVE FALSE
            <7>1. m + 1 \in (m + 1)..Len(f) /\ m + 1 \in 1..Len(f)
              BY <1>4, <6>1
            <7> QED BY <3>2, <5>1, <7>1
          <6> QED BY <6>1
        <5>3. e = <<>>
          BY <1>4, <3>3, <5>2
        <5>4. Q = P
          BY <1>3, <5>3
        <5> QED BY <1>3, <4>2, <5>4
      <4> QED BY <4>1, <4>2
    <3>8. to \in Nat
      BY <1>3, <1>4
    <3> HIDE DEF to, Q
    <3> QED BY <1>5, <3>1, <3>5, <3>6, <3>7, <3>8
  <2> QED BY <2>1, <2>2
<1> QED BY <1>6, <1>7, <1>8 DEF FollowerStep

\* The file stays as it is or gets longer, or another one takes its place; what is new in
\* it was not printed.
Grows(f, g) ==
  \E x \in Seq(LogLines) : Older(accepted, follower.printed, x) /\ (g = f \o x \/ g = x)

\* A file that got longer, or another one, has only new lines to read.
LEMMA GrownFacts ==
  ASSUME NEW a, NEW P, NEW f, RealLines(f), NEW x \in Seq(LogLines), NEW g, RealLines(g),
         g = f \o x \/ g = x, Older(a, P, x), NEW o \in Nat, NewAfter(a, P, f, o)
  PROVE  NewAfter(a, P, g, o)
<1>1. \A i \in 1..Len(x), j \in 1..Len(P) : PlaceIn(a, P[j]) < PlaceIn(a, x[i])
  BY DEF Older
<1>2. CASE g = x
  BY <1>1, <1>2 DEF NewAfter
<1>3. CASE g = f \o x
  <2> DEFINE M == Len(f)
             N == Len(x)
  <2>1. /\ M \in Nat /\ N \in Nat /\ Len(g) = M + N
        /\ \A i \in 1..M : g[i] = f[i]
        /\ \A i \in (M + 1)..(M + N) : i - M \in 1..N /\ g[i] = x[i - M]
    BY <1>3, ConcatFacts DEF RealLines
  <2>2. \A k \in 0..M : Sizes(f)[k] = Sizes(g)[k]
    <3>1. M <= Len(f) /\ M <= Len(g) /\ \A i \in 1..M : f[i] = g[i]
      BY <2>1
    <3> HIDE DEF M
    <3> QED BY <2>1, <3>1, SizesAgree
  <2>3. Size(f) <= Size(g) /\ Size(f) \in Nat /\ Size(g) \in Nat
    <3>1. /\ \A k \in 0..Len(g) : Sizes(g)[k] \in Nat
          /\ Size(g) = Sizes(g)[Len(g)]
          /\ \A j, k \in 0..Len(g) : j < k => Sizes(g)[j] < Sizes(g)[k]
      BY SizesGrow
    <3>2. Size(f) = Sizes(f)[M]
      BY SizesGrow
    <3>3. M \in 0..Len(g) /\ Len(g) \in 0..Len(g) /\ M \in 0..M
      BY <2>1
    <3>4. Size(f) = Sizes(g)[M]
      BY <2>2, <3>2, <3>3
    <3> HIDE DEF M
    <3>5. CASE M = Len(g)
      BY <3>1, <3>3, <3>4, <3>5
    <3>6. CASE M # Len(g)
      <4>1. M < Len(g)
        BY <2>1, <3>3, <3>6
      <4>2. Sizes(g)[M] < Sizes(g)[Len(g)]
        BY <3>1, <3>3, <4>1
      <4> QED BY <3>1, <3>3, <3>4, <4>2
    <3> QED BY <3>5, <3>6
  <2>4. ASSUME NEW i \in 1..Len(g), Unread(g, o, i), NEW j \in 1..Len(P)
        PROVE  PlaceIn(a, P[j]) < PlaceIn(a, g[i])
    <3>1. CASE i \in 1..M
      <4>1. Sizes(f)[i] = Sizes(g)[i]
        <5>1. i \in 0..M
          BY <2>1, <3>1
        <5> QED BY <2>2, <5>1
      <4>2. Unread(f, o, i)
        <5>1. CASE Sizes(g)[i] > o
          BY <4>1, <5>1 DEF Unread
        <5>2. CASE Size(g) < o
          BY <2>3, <5>2 DEF Unread
        <5> QED BY <2>4, <5>1, <5>2 DEF Unread
      <4> QED BY <2>1, <3>1, <4>2 DEF NewAfter
    <3>2. CASE i \in (M + 1)..(M + N)
      <4>1. i - M \in 1..N /\ g[i] = x[i - M]
        BY <2>1, <3>2
      <4> QED BY <1>1, <4>1
    <3>3. i \in 1..M \/ i \in (M + 1)..(M + N)
      BY <2>1
    <3> QED BY <3>1, <3>2, <3>3
  <2> QED BY <2>4 DEF NewAfter
<1> QED BY <1>2, <1>3

\* A step of the writer that brings only lines that were not printed.
LEMMA FollowStays ==
  ASSUME SourceIInv, FilesIInv, FollowIInv, FirstAt', accepted' = accepted,
         follower' = follower, Handled' \in Nat, Handled <= Handled',
         Older(accepted, follower.printed, Buffer'), Grows(In(files, 0), In(files, 0)')
  PROVE  FollowIInv'
<1> DEFINE a == accepted
           f == In(files, 0)
           g == In(files, 0)'
           P == follower.printed
           o == follower.offset
<1>1. RealLines(f) /\ RealLines(g)
  BY FirstFacts DEF FirstAt, RealLines, In, Real
<1>2. o \in Nat /\ NewAfter(a, P, f, o) /\ Among(a, P, Handled)
  BY DEF FollowIInv
<1>3. PICK x \in Seq(LogLines) : Older(a, P, x) /\ (g = f \o x \/ g = x)
  BY DEF Grows
<1>4. NewAfter(a, P, g, o)
  <2> HIDE DEF a, f, g, P, o
  <2> QED BY <1>1, <1>2, <1>3, GrownFacts
<1>5. \A p \in 1..Handled : p \in 1..Handled'
  <2>1. Handled \in Nat
    BY HandledFacts DEF Sound
  <2> QED BY <2>1
<1>6. Among(a, P, Handled')
  BY <1>2, <1>5 DEF Among
<1>7. NewAfter(accepted', follower'.printed, g, follower'.offset)
  BY <1>4
<1>8. Among(accepted', follower'.printed, Handled') /\ Older(accepted', follower'.printed, Buffer')
  BY <1>6
<1>9. follower' \in [at : {"tail", "len", "read"}, offset : Nat, printed : Seq(LogLines)]
  BY DEF FollowIInv
<1>10. NewAfter(accepted, follower.printed, In(files, 0), follower.offset)'
  BY <1>7 DEF NewAfter, Unread
<1>11. (Among(accepted, follower.printed, Handled) /\ Older(accepted, follower.printed, Buffer))'
  BY <1>8 DEF Among, Older
<1> QED BY <1>9, <1>10, <1>11 DEF FollowIInv

\* Flushing adds the buffer to the file of the writer's handle.
LEMMA FlushedFirst ==
  ASSUME NEW fs, NEW w, maxFiles \in Nat, fs \in [Names -> Seq(LogLines) \cup {Absent}],
         w \in WriterRecords, w.at # Unlinked => fs[w.at] # Absent
  PROVE  \/ In(Flushed(fs, w), 0) = In(fs, 0) \o w.buffer
         \/ In(Flushed(fs, w), 0) = In(fs, 0) \o <<>>
<1>1. /\ 0 \in Names /\ w.at \in Names \cup {Unlinked} /\ w.buffer \in Seq(LogLines)
      /\ fs[0] \in Seq(LogLines) \cup {Absent}
  BY DEF Names, WriterRecords
<1>2. In(fs, 0) \in Seq(LogLines)
  BY <1>1 DEF In
<1>3. In(fs, 0) \o <<>> = In(fs, 0)
  BY <1>2
<1>4. CASE w.at = Unlinked
  BY <1>3, <1>4 DEF Flushed
<1>5. CASE w.at # Unlinked /\ w.at # 0
  <2>1. Flushed(fs, w)[0] = fs[0]
    BY <1>1, <1>5 DEF Flushed
  <2> QED BY <1>3, <2>1 DEF In
<1>6. CASE w.at # Unlinked /\ w.at = 0
  <2>1. Flushed(fs, w)[0] = fs[0] \o w.buffer /\ fs[0] # Absent
    BY <1>1, <1>6 DEF Flushed
  <2>2. fs[0] \o w.buffer \in Seq(LogLines)
    BY <1>1, <2>1, ConcatFacts
  <2>3. fs[0] \o w.buffer # Absent
    BY <2>2, PipelineAssumption
  <2> QED BY <2>1, <2>3 DEF In
<1> QED BY <1>4, <1>5, <1>6

\* write_line's second half brings what is in the buffer and the line in hand.
LEMMA BufferedFirst ==
  ASSUME NEW fs, NEW w \in WriterRecords, entry \in LogLines, Needed(entry) \in Nat,
         Buffered(fs, w), maxFiles \in Nat, fs \in [Names -> Seq(LogLines) \cup {Absent}],
         w.at # Unlinked => fs[w.at] # Absent,
         Older(accepted, follower.printed, w.buffer),
         Older(accepted, follower.printed, <<entry>>)
  PROVE  /\ Older(accepted, follower.printed, Buffer')
         /\ \E x \in Seq(LogLines) :
              Older(accepted, follower.printed, x) /\ In(files, 0)' = In(fs, 0) \o x
<1> DEFINE a == accepted
           P == follower.printed
           Brought(g) == \E x \in Seq(LogLines) : Older(a, P, x) /\ g = In(fs, 0) \o x
<1>1. PICK held \in WriterRecords, bare \in WriterRecords :
        /\ held.at = w.at /\ held.buffer = Append(w.buffer, entry)
        /\ \/ writer'.buffer = held.buffer /\ files' = fs
           \/ writer'.buffer = <<entry>> /\ files' = Flushed(fs, w)
           \/ writer'.buffer = <<>> /\ files' = Flushed(fs, held)
  BY BufferedCases
<1>2. writer' # Absent
  BY BufferedCases, WriterIsThere
<1>3. w.buffer \in Seq(LogLines) /\ <<entry>> \in Seq(LogLines) /\ held.buffer \in Seq(LogLines)
      /\ <<>> \in Seq(LogLines)
  BY DEF WriterRecords
<1>4. Older(a, P, held.buffer)
  <2>1. held.buffer = w.buffer \o <<entry>>
    BY <1>1, <1>3
  <2> HIDE DEF a, P
  <2>2. Older(a, P, w.buffer \o <<entry>>)
    BY <1>3, YoungerConcat DEF a, P
  <2> QED BY <2>1, <2>2
<1>5. Older(a, P, <<>>)
  BY OlderEmpty
<1>6. Older(a, P, Buffer')
  <2>1. Buffer' = writer'.buffer
    BY <1>2 DEF Buffer
  <2> HIDE DEF a, P
  <2> QED BY <1>1, <1>4, <1>5, <2>1 DEF a, P
<1>7. In(files, 0)' = In(files', 0)
  BY DEF In
<1>8. In(fs, 0) \in Seq(LogLines)
  <2>1. 0 \in Names
    BY DEF Names
  <2> QED BY <1>3, <2>1 DEF In
<1>9. Brought(In(files', 0))
  <2>1. CASE files' = fs
    <3>1. In(files', 0) = In(fs, 0) \o <<>>
      BY <1>8, <2>1
    <3> QED BY <1>3, <1>5, <3>1
  <2>2. CASE files' = Flushed(fs, w)
    <3>1. \/ In(files', 0) = In(fs, 0) \o w.buffer
          \/ In(files', 0) = In(fs, 0) \o <<>>
      BY <2>2, FlushedFirst
    <3> QED BY <1>3, <1>5, <3>1
  <2>3. CASE files' = Flushed(fs, held)
    <3>1. \/ In(files', 0) = In(fs, 0) \o held.buffer
          \/ In(files', 0) = In(fs, 0) \o <<>>
      BY <1>1, <2>3, FlushedFirst
    <3> QED BY <1>3, <1>4, <1>5, <3>1
  <2> QED BY <1>1, <2>1, <2>2, <2>3
<1> QED BY <1>6, <1>7, <1>9

\* Lines that come after every printed one.
Fresh(sq) == Older(accepted, follower.printed, sq)

\* A file that stays, is emptied, gets longer or starts over.
LEMMA GrowsFacts ==
  ASSUME NEW f \in Seq(LogLines)
  PROVE  /\ Grows(f, f) /\ Grows(f, <<>>)
         /\ \A x \in Seq(LogLines) : Fresh(x) => Grows(f, f \o x) /\ Grows(f, <<>> \o x)
<1>1. <<>> \in Seq(LogLines) /\ f \o <<>> = f /\ Fresh(<<>>)
  BY OlderEmpty DEF Fresh
<1>2. \A x \in Seq(LogLines) : <<>> \o x = x
  OBVIOUS
<1>3. \A x \in Seq(LogLines) : Fresh(x) => Grows(f, f \o x) /\ Grows(f, x)
  BY DEF Fresh, Grows
<1> QED BY <1>1, <1>2, <1>3

\* Every step of the writer brings the file only what was not printed.
LEMMA PumpBrings ==
  ASSUME SourceIInv, FilesIInv, FollowIInv, PumpStep
  PROVE  Older(accepted, follower.printed, Buffer') /\ Grows(In(files, 0), In(files, 0)')
<1> DEFINE f == In(files, 0)
           g == In(files, 0)'
<1>1. /\ Sound(accepted) /\ Handled \in 0..Len(accepted) /\ maxFiles \in Nat /\ 0 \in Names
      /\ files \in [Names -> Seq(LogLines) \cup {Absent}] /\ <<>> \in Seq(LogLines)
      /\ writer # Absent => writer \in WriterRecords
      /\ writer # Absent /\ writer.at # Unlinked => files[writer.at] # Absent
  BY HandledFacts DEF FilesIInv, FileTypes, WriterRecords, WriterAt, Names
<1>2. f \in Seq(LogLines) /\ g = In(files', 0) /\ <<>> # Absent
  <2>1. <<>> # Absent
    BY <1>1, PipelineAssumption
  <2> QED BY <1>1, <2>1 DEF In
<1>3. Fresh(Buffer) /\ Fresh(<<>>)
  BY OlderEmpty DEF FollowIInv, Fresh
<1>4. pump \in Busy => /\ entry \in LogLines /\ Needed(entry) \in Nat /\ Fresh(<<entry>>)
  <2> SUFFICES ASSUME pump \in Busy
               PROVE  entry \in LogLines /\ Needed(entry) \in Nat /\ Fresh(<<entry>>)
    OBVIOUS
  <2>1. Handled + 1 \in 1..Len(accepted) /\ entry = accepted[Handled + 1]
    BY HandledFacts
  <2>2. Real(entry) /\ PlaceIn(accepted, entry) = Handled + 1
    <3> DEFINE p == Handled + 1
    <3>1. p \in 1..Len(accepted) /\ entry = accepted[p]
      BY <2>1
    <3> HIDE DEF p
    <3>2. Real(accepted[p]) /\ PlaceIn(accepted, accepted[p]) = p
      BY <1>1, <3>1, PlaceFacts DEF Sound
    <3> QED BY <3>1, <3>2 DEF p
  <2>3. \A j \in 1..Len(follower.printed) : PlaceIn(accepted, follower.printed[j]) \in 1..Handled
    BY <1>1, AmongPlaces DEF FollowIInv
  <2>4. Len(<<entry>>) = 1 /\ \A i \in 1..1 : i = 1 /\ <<entry>>[i] = entry
    OBVIOUS
  <2>5. Fresh(<<entry>>)
    <3>1. ASSUME NEW j \in 1..Len(follower.printed)
          PROVE  PlaceIn(accepted, follower.printed[j]) < Handled + 1
      <4> DEFINE p == PlaceIn(accepted, follower.printed[j])
      <4>1. p \in 1..Handled /\ Handled \in Nat
        BY <1>1, <2>3
      <4> HIDE DEF p, Handled
      <4>2. p < Handled + 1
        BY <4>1
      <4> QED BY <4>2 DEF p
    <3>2. ASSUME NEW j \in 1..Len(follower.printed), NEW i \in 1..Len(<<entry>>)
          PROVE  PlaceIn(accepted, follower.printed[j]) < PlaceIn(accepted, <<entry>>[i])
      <4>1. <<entry>>[i] = entry
        BY <2>4
      <4> QED BY <2>2, <3>1, <4>1
    <3> QED BY <3>2 DEF Fresh, Older
  <2> QED BY <2>2, <2>5, NeededFacts DEF Real
<1>5. /\ Grows(f, f) /\ Grows(f, <<>>)
      /\ \A x \in Seq(LogLines) : Fresh(x) => Grows(f, f \o x) /\ Grows(f, <<>> \o x)
  <2> HIDE DEF f
  <2> QED BY <1>2, GrowsFacts
<1> HIDE DEF f, g
<1> SUFFICES Fresh(Buffer') /\ Grows(f, g)
  BY DEF Fresh, f, g
\* The files and the buffer stay.
<1>6. ASSUME files'[0] = files[0], Buffer' = Buffer \/ Buffer' = <<>>
      PROVE  Fresh(Buffer') /\ Grows(f, g)
  <2>1. g = f
    BY <1>2, <1>6 DEF In, f
  <2> QED BY <1>3, <1>5, <1>6, <2>1
\* The buffer reaches the disk.
<1>7. ASSUME writer # Absent, files' = Flushed(files, writer), Buffer' = <<>>
      PROVE  Fresh(Buffer') /\ Grows(f, g)
  <2>1. g = f \o writer.buffer \/ g = f \o <<>>
    BY <1>1, <1>2, <1>7, FlushedFirst DEF f
  <2>2. writer.buffer \in Seq(LogLines) /\ Fresh(writer.buffer)
    BY <1>1, <1>3, <1>7 DEF WriterRecords, Buffer
  <2> QED BY <1>1, <1>3, <1>5, <1>7, <2>1, <2>2
<1>8. CASE writer' = writer /\ files' = files
  <2>1. Buffer' = Buffer
    BY <1>8 DEF Buffer
  <2> QED BY <1>6, <1>8, <2>1
<1>9. ASSUME writer # Absent, files' = Flushed(files, writer), writer' = Clean(writer)
      PROVE  Fresh(Buffer') /\ Grows(f, g)
  <2>1. writer'.buffer = <<>>
    BY <1>1, <1>9, CleanFacts
  <2>2. Buffer' = <<>>
    BY <2>1 DEF Buffer
  <2> QED BY <1>7, <1>9, <2>2
<1>10. ASSUME writer # Absent, files' = files, writer' = [writer EXCEPT !.unflushed = 0]
       PROVE  Fresh(Buffer') /\ Grows(f, g)
  <2>1. writer'.buffer = writer.buffer /\ writer' \in WriterRecords
    BY <1>1, <1>10, CleanFacts
  <2>2. writer' # Absent
    BY <1>1, <2>1, WriterIsThere
  <2>3. Buffer' = Buffer
    BY <1>10, <2>1, <2>2 DEF Buffer
  <2> QED BY <1>6, <1>10, <2>3
<1>11. CASE Receive
  BY <1>8, <1>11 DEF Receive
<1>12. CASE CatchUp \/ LastFlush
  <2>1. Flush
    BY <1>12 DEF CatchUp, LastFlush
  <2> QED BY <1>8, <1>9, <1>10, <2>1 DEF Flush
<1>13. CASE DropWriter
  <2>1. Buffer' = <<>>
    <3>1. writer' = Absent
      BY <1>13 DEF DropWriter
    <3> QED BY <3>1 DEF Buffer
  <2>2. \/ files' = files
        \/ writer # Absent /\ files' = Flushed(files, writer)
    BY <1>13 DEF DropWriter
  <2> QED BY <1>6, <1>7, <2>1, <2>2
<1>14. CASE Open
  <2>1. CASE UNCHANGED <<writer, files>>
    BY <1>8, <2>1
  <2>2. CASE /\ files' = [files EXCEPT ![0] = IF @ = Absent THEN <<>> ELSE @]
             /\ writer' = [at |-> 0, size |-> Size(files'[0]), buffer |-> <<>>, unflushed |-> 0]
    <3>1. files'[0] = IF files[0] = Absent THEN <<>> ELSE files[0]
      BY <1>1, <2>2
    <3>2. g = f
      BY <1>2, <3>1 DEF In, f
    <3>3. Buffer' = <<>>
      BY <2>2 DEF Buffer
    <3> QED BY <1>3, <1>5, <3>2, <3>3
  <2> QED BY <1>14, <2>1, <2>2 DEF Open, Abandon
<1>15. CASE Write
  <2>1. pump \in Busy /\ writer # Absent /\ Buffered(files, writer)
    BY <1>15 DEF Write, Busy
  <2>2. Older(accepted, follower.printed, writer.buffer)
    BY <1>3, <2>1 DEF Fresh, Buffer
  <2>3. Older(accepted, follower.printed, <<entry>>)
    BY <1>4, <2>1 DEF Fresh
  <2>4. /\ Fresh(Buffer')
        /\ \E x \in Seq(LogLines) : Fresh(x) /\ g = f \o x
    BY <1>1, <1>4, <2>1, <2>2, <2>3, BufferedFirst DEF Fresh, f, g
  <2> QED BY <1>5, <2>4
<1>16. CASE WriteFails
  BY <1>8, <1>16 DEF WriteFails, Abandon
<1>17. CASE RotateFlush
  BY <1>9, <1>10, <1>17 DEF RotateFlush
<1>18. CASE Truncate \/ Reopen
  <2>1. CASE UNCHANGED <<writer, files>>
    BY <1>8, <2>1
  <2>2. CASE Buffered(FreshFiles, FreshWriter)
    <3>1. pump \in Busy /\ writer # Absent
      BY <1>18 DEF Truncate, Reopen, Busy, FilesIInv, FileTypes
    <3>2. /\ Fine(accepted, FreshFiles, FreshWriter, Handled)
          /\ FreshWriter.buffer = <<>> /\ FreshFiles[0] = <<>>
      BY <3>1, FreshFacts
    <3>3. /\ FreshWriter \in WriterRecords
          /\ FreshFiles \in [Names -> Seq(LogLines) \cup {Absent}]
          /\ FreshWriter.at # Unlinked => FreshFiles[FreshWriter.at] # Absent
          /\ In(FreshFiles, 0) = <<>>
      BY <3>2 DEF Fine, WriterRecords, In
    <3>4. /\ Older(accepted, follower.printed, FreshWriter.buffer)
          /\ Older(accepted, follower.printed, <<entry>>)
      BY <1>3, <1>4, <3>1, <3>2 DEF Fresh
    <3>5. /\ Fresh(Buffer')
          /\ \E x \in Seq(LogLines) : Fresh(x) /\ g = <<>> \o x
      <4> DEFINE fs == FreshFiles
                 w == FreshWriter
      <4> HIDE DEF fs, w
      <4>1. Buffered(fs, w)
        BY <2>2 DEF fs, w
      <4>2. /\ Fresh(Buffer')
            /\ \E x \in Seq(LogLines) : Fresh(x) /\ g = In(fs, 0) \o x
        BY <1>1, <1>4, <3>1, <3>3, <3>4, <4>1, BufferedFirst DEF Fresh, g, fs, w
      <4> QED BY <3>3, <4>2 DEF fs
    <3> QED BY <1>5, <3>5
  <2> QED BY <1>18, <2>1, <2>2 DEF Truncate, Reopen, Abandon, FreshFiles, FreshWriter
<1>19. CASE Shift
  <2>1. files'[0] = files[0]
    <3>1. 0 \in DOMAIN files /\ \A stop \in Nat : 0 <= stop
      BY <1>1
    <3>2. \A stop \in Nat : Shifted(files, stop)[0] = files[0]
      BY <3>1 DEF Shifted
    <3>3. \A stop \in 1..maxFiles : stop \in Nat
      BY <1>1
    <3> QED BY <1>19, <3>2, <3>3 DEF Shift
  <2>2. writer # Absent
    BY <1>19 DEF Shift, FilesIInv, FileTypes
  <2>3. \E at : writer' = [writer EXCEPT !.at = at]
    <3>1. \A stop : \E at : HandleAfter(writer, stop) = [writer EXCEPT !.at = at]
      BY DEF HandleAfter
    <3>2. writer = [writer EXCEPT !.at = writer.at]
      BY <1>1, <2>2 DEF WriterRecords
    <3> QED BY <1>19, <3>1, <3>2 DEF Shift
  <2>4. writer'.buffer = writer.buffer
    BY <1>1, <2>2, <2>3 DEF WriterRecords
  <2>5. Buffer' = Buffer \/ Buffer' = <<>>
    BY <2>2, <2>4 DEF Buffer
  <2> QED BY <1>6, <2>1, <2>5
<1>20. CASE Rename
  <2>1. CASE UNCHANGED <<writer, files>>
    BY <1>8, <2>1
  <2>2. CASE /\ files' = [files EXCEPT ![0] = Absent, ![1] = files[0]]
             /\ writer' = [writer EXCEPT !.at = IF @ = 0 THEN 1 ELSE @]
    <3>1. files'[0] = Absent
      BY <1>1, <2>2
    <3>2. g = <<>>
      BY <1>2, <3>1 DEF In
    <3>3. writer # Absent
      BY <1>20 DEF Rename, FilesIInv, FileTypes
    <3>4. writer'.buffer = writer.buffer
      BY <1>1, <2>2, <3>3 DEF WriterRecords
    <3>5. Buffer' = Buffer \/ Buffer' = <<>>
      BY <3>3, <3>4 DEF Buffer
    <3> QED BY <1>3, <1>5, <3>2, <3>5
  <2> QED BY <1>20, <2>1, <2>2 DEF Rename
<1> QED BY <1>11, <1>12, <1>13, <1>14, <1>15, <1>16, <1>17, <1>18, <1>19, <1>20 DEF PumpStep

\* Every step of the writer keeps what the follower relies on.
LEMMA PumpFollows ==
  ASSUME SourceIInv, FilesIInv, FollowIInv, FilesIInv', FirstAt', PumpStep
  PROVE  FollowIInv'
<1>1. accepted' = accepted /\ follower' = follower
  BY DEF PumpStep, Receive, CatchUp, LastFlush, DropWriter, Open, Write, WriteFails, RotateFlush,
         Truncate, Shift, Rename, Reopen, Abandon
<1>2. /\ Len(accepted) \in Nat /\ Len(queue) \in Nat /\ queue \in Seq(LogLines)
      /\ Handled' \in Nat /\ pump \in Busy \cup {"poll", "park", "drop", "done"}
  <2>1. accepted \in Seq(LogLines)
    BY HandledFacts DEF Sound
  <2> QED BY <2>1 DEF FilesIInv, FileTypes, QueueAt
<1>3. Handled <= Handled'
  <2>1. CASE Receive
    <3>1. /\ pump' = "record" /\ pump' \in Busy /\ pump \notin Busy
          /\ Len(queue') = Len(queue) - 1
      BY <1>2, <2>1 DEF Receive, Busy
    <3> QED BY <1>1, <1>2, <3>1 DEF Handled
  <2>2. CASE queue' = queue /\ (pump' \in Busy => pump \in Busy)
    BY <1>1, <1>2, <2>2 DEF Handled
  <2>3. CatchUp \/ LastFlush \/ DropWriter \/ Open \/ Write \/ WriteFails
          => queue' = queue /\ (pump' \in Busy => pump \in Busy)
    BY DEF CatchUp, LastFlush, DropWriter, Open, Write, WriteFails, Abandon, Recorded, Busy
  <2>4. RotateFlush \/ Truncate \/ Shift \/ Rename \/ Reopen
          => queue' = queue /\ (pump' \in Busy => pump \in Busy)
    BY DEF RotateFlush, Truncate, Shift, Rename, Reopen, Abandon, Recorded, Busy
  <2> QED BY <2>1, <2>2, <2>3, <2>4 DEF PumpStep
<1>4. Older(accepted, follower.printed, Buffer') /\ Grows(In(files, 0), In(files, 0)')
  BY PumpBrings
<1> QED BY <1>1, <1>2, <1>3, <1>4, FollowStays

\* The sink takes a line: the printed ones, and those on disk, keep their places.
LEMMA RecordFollows ==
  ASSUME SourceIInv, FilesIInv, FollowIInv, Sound(accepted'), NEW line \in LogLines, Record(line)
  PROVE  FollowIInv'
<1> DEFINE a == accepted
           c == accepted'
           f == In(files, 0)
           P == follower.printed
           o == follower.offset
           b == Handled
<1>1. /\ files' = files /\ writer' = writer /\ pump' = pump /\ follower' = follower
      /\ Buffer' = Buffer /\ In(files, 0)' = f
  BY DEF Record, Buffer, In
<1>2. CASE queue' = queue /\ accepted' = accepted
  <2>1. Handled' = Handled
    BY <1>1, <1>2 DEF Handled
  <2> QED BY <1>1, <1>2, <2>1 DEF FollowIInv, NewAfter, Among, Older
<1>3. CASE queue' = Append(queue, line) /\ accepted' = Append(accepted, line)
  <2>1. /\ a \in Seq(LogLines) /\ Sound(a) /\ b \in 0..Len(a) /\ queue \in Seq(LogLines)
        /\ Among(a, f, b) /\ Among(a, P, b) /\ Among(a, Buffer, b) /\ Older(a, P, Buffer)
        /\ NewAfter(a, P, f, o)
    BY HandledFacts, FirstFacts DEF Sound, FirstAt, FollowIInv, FilesIInv, FileTypes, Ordered
  <2>2. /\ Len(a) <= Len(c) /\ \A i \in 1..Len(a) : c[i] = a[i]
        /\ Len(c) = Len(a) + 1 /\ Len(queue') = Len(queue) + 1
        /\ Len(a) \in Nat /\ Len(queue) \in Nat
    BY <1>3, <2>1
  <2>3. Handled' = b
    BY <1>1, <2>2 DEF Handled
  <2>4. /\ Sound(c)
        /\ follower \in [at : {"tail", "len", "read"}, offset : Nat, printed : Seq(LogLines)]
    BY DEF FollowIInv
  <2>5. /\ Among(c, P, b) /\ \A i \in 1..Len(P) : PlaceIn(c, P[i]) = PlaceIn(a, P[i])
        /\ \A i \in 1..Len(f) : PlaceIn(c, f[i]) = PlaceIn(a, f[i])
        /\ Older(c, P, Buffer)
    <3> HIDE DEF a, c, f, P, b
    <3>1. /\ \A sq : Among(a, sq, b)
               => Among(c, sq, b) /\ \A i \in 1..Len(sq) : PlaceIn(c, sq[i]) = PlaceIn(a, sq[i])
          /\ \A sq, tq : Among(a, sq, b) /\ Among(a, tq, b) /\ Older(a, sq, tq) => Older(c, sq, tq)
      <4>1. Sound(a) /\ Sound(c) /\ Len(a) <= Len(c) /\ b \in 0..Len(a)
        BY <2>1, <2>2, <2>4
      <4>2. \A i \in 1..Len(a) : c[i] = a[i]
        BY <2>2
      <4> QED BY <4>1, <4>2, LongerKeeps
    <3> QED BY <2>1, <3>1
  <2>6. NewAfter(c, P, f, o)
    BY <2>1, <2>5 DEF NewAfter
  <2>7. /\ (Among(accepted, follower.printed, Handled))'
        /\ (Older(accepted, follower.printed, Buffer))'
    BY <1>1, <2>3, <2>5 DEF Among, Older
  <2>8. NewAfter(accepted, follower.printed, In(files, 0), follower.offset)'
    BY <1>1, <2>6 DEF NewAfter
  <2> QED BY <1>1, <2>4, <2>7, <2>8 DEF FollowIInv
<1> QED BY <1>2, <1>3 DEF Record

\* A step that is no concern of the follower's.
LEMMA FollowIdle ==
  ASSUME FollowIInv,
         UNCHANGED <<queue, pump, writer, files, accepted, follower>>
  PROVE  FollowIInv'
<1>1. Handled' = Handled /\ Buffer' = Buffer /\ In(files, 0)' = In(files, 0)
  BY DEF Handled, Buffer, In
<1> QED BY <1>1 DEF FollowIInv, NewAfter, Among, Older

\* Every step keeps what the follower relies on.
LEMMA FollowNext == SourceIInv /\ FilesIInv /\ FollowIInv /\ [Next]_vars => FollowIInv'
<1> SUFFICES ASSUME SourceIInv, FilesIInv, FollowIInv, [Next]_vars PROVE FollowIInv'
  OBVIOUS
<1>1. SourceIInv' /\ FilesIInv'
  BY SourceInductive, FilesNext
<1>2. Sound(accepted')
  <2>1. Sound(accepted)'
    BY <1>1, SourceIsSound, PTL
  <2> QED BY <2>1 DEF Sound
<1>3. FirstAt'
  BY <1>1, FirstFacts, PTL
<1>4. CASE UNCHANGED vars
  BY <1>4, FollowIdle DEF vars, fileVars
<1>5. ASSUME NEW s \in Senders, SenderStep(s) /\ UNCHANGED <<fileVars, collector>>
      PROVE  FollowIInv'
  BY <1>5, FollowIdle DEF fileVars
<1>6. CASE CollectTake \/ CollectEnd \/ CollectDone \/ GiveUp
  BY <1>6, FollowIdle DEF CollectTake, CollectEnd, CollectDone, GiveUp, Shut, fileVars
<1>7. CASE CollectHandle
  <2>1. CASE IsLog(collector.event)
    <3>1. collector.event \in LogLines
      <4>1. collector.event \in Events
        BY <1>7 DEF SourceIInv, ChannelIInv, ChannelAt, CollectHandle
      <4> QED BY <2>1, <4>1, LogEvents
    <3>2. Record(collector.event)
      BY <1>7, <2>1 DEF CollectHandle
    <3> QED BY <1>2, <3>1, <3>2, RecordFollows
  <2>2. CASE ~IsLog(collector.event)
    BY <1>7, <2>2, FollowIdle DEF CollectHandle, fileVars
  <2> QED BY <2>1, <2>2
<1>8. CASE PumpStep
  BY <1>1, <1>3, <1>8, PumpFollows
<1>9. CASE FollowerStep
  BY <1>9, FollowerKeeps
<1> QED BY <1>4, <1>5, <1>6, <1>7, <1>8, <1>9 DEF Next, CollectorStep

\* Nothing was printed yet.
LEMMA FollowInit == Init => FollowIInv
<1> SUFFICES ASSUME Init PROVE FollowIInv
  OBVIOUS
<1>1. follower = [at |-> "tail", offset |-> 0, printed |-> <<>>] /\ <<>> \in Seq(LogLines)
  BY DEF Init, FilesInit
<1>2. follower.printed = <<>> /\ Len(<<>>) = 0
  BY <1>1
<1>3. NewAfter(accepted, follower.printed, In(files, 0), follower.offset)
  BY <1>2 DEF NewAfter
<1>4. /\ Among(accepted, follower.printed, Handled)
      /\ Older(accepted, follower.printed, Buffer)
  BY <1>2, AmongEmpty, OlderEmpty
<1> QED BY <1>1, <1>3, <1>4 DEF FollowIInv

\* The invariant says that the follower repeats nothing.
LEMMA FollowHolds == SourceIInv /\ FilesIInv /\ FollowIInv => FollowPrintsOnce
<1> SUFFICES ASSUME SourceIInv, FilesIInv, FollowIInv PROVE FollowPrintsOnce
  OBVIOUS
<1> DEFINE P == follower.printed
<1>1. P \in Seq(LogLines) /\ Among(accepted, P, Handled)
  BY DEF FollowIInv
<1>2. Handled \in 0..Len(accepted) /\ accepted \in Seq(LogLines)
  BY HandledFacts DEF Sound
<1> HIDE DEF P
<1>3. DOMAIN P = 1..Len(P) /\ \A p \in 1..Handled : p \in DOMAIN accepted
  BY <1>1, <1>2
<1>4. ToSet(P) \subseteq ToSet(accepted)
  BY <1>1, <1>3 DEF ToSet, Among
<1>5. \A i, j \in DOMAIN P : i < j => Place(P[i]) < Place(P[j])
  BY <1>1, <1>3 DEF Place, PlaceIn, Among
<1> QED BY <1>4, <1>5 DEF FollowPrintsOnce, P

\* Whatever the writer does between two looks of `servicrab logs --follow', and
\* whichever of its calls fail, the follower prints accepted lines only, or what is
\* left of one that it began within, in the order they came and each of them at most
\* once (logs.rs: follow, read_lines, file_len).
THEOREM FollowerRepeatsNothing == Spec => []FollowPrintsOnce
<1>1. Init => SourceIInv /\ FilesIInv /\ FollowIInv
  BY SourceInductive, FilesInit_IInv, FollowInit
<1>2. SourceIInv /\ FilesIInv /\ FollowIInv /\ [Next]_vars => (SourceIInv /\ FilesIInv /\ FollowIInv)'
  BY SourceInductive, FilesNext, FollowNext
<1> QED BY <1>1, <1>2, FollowHolds, PTL DEF Spec

-----------------------------------------------------------------------------
(* Types.                                                                   *)

SinkTypes ==
  /\ closed \in BOOLEAN /\ reported \in BOOLEAN
  /\ behind \in Nat /\ faults \in 0..FaultBound
  /\ entry \in LogLines \cup {NoLine}

\* The types of the sink's flags and counters to begin with.
LEMMA SinkInit == Init => SinkTypes
<1>1. FaultBound \in Nat
  BY LogFilesAssumption
<1>2. 0 \in 0..FaultBound
  BY <1>1
<1>3. Init => closed = FALSE /\ reported = FALSE /\ behind = 0 /\ faults = 0 /\ entry = NoLine
  BY DEF Init, FilesInit
<1>4. Init => closed \in BOOLEAN /\ reported \in BOOLEAN
  BY <1>3, Zenon
<1>5. Init => behind \in Nat /\ faults \in 0..FaultBound /\ entry \in LogLines \cup {NoLine}
  BY <1>2, <1>3
<1> QED BY <1>4, <1>5 DEF SinkTypes

\* The writer keeps them.
LEMMA SinkPumpStep ==
  ASSUME FilesIInv, SinkTypes, PumpStep
  PROVE  SinkTypes'
<1>1. FaultBound \in Nat /\ queue \in Seq(LogLines)
  BY LogFilesAssumption DEF FilesIInv, FileTypes
<1>2. CASE Receive
  <2>1. Head(queue) \in LogLines
    BY <1>1, <1>2 DEF Receive
  <2> QED BY <1>2, <2>1 DEF Receive, SinkTypes
<1>3. /\ Works => faults' \in 0..FaultBound
      /\ Fails => faults' \in 0..FaultBound
  BY <1>1 DEF Works, Fails, SinkTypes
<1>4. Flush => faults' \in 0..FaultBound /\ reported' \in BOOLEAN
  BY <1>3 DEF Flush, SinkTypes
<1>5. \A fs, w : Buffered(fs, w) => faults' \in 0..FaultBound /\ reported' \in BOOLEAN
  BY <1>3 DEF Buffered, SinkTypes
<1>6. Recorded => entry' \in LogLines \cup {NoLine}
  BY DEF Recorded
<1>7. Abandon => SinkTypes'
  BY <1>3, <1>6 DEF Abandon, SinkTypes
<1>8. CASE CatchUp \/ LastFlush
  BY <1>4, <1>8 DEF CatchUp, LastFlush, SinkTypes
<1>9. CASE DropWriter
  <2>1. faults' \in 0..FaultBound
    BY <1>3, <1>9 DEF DropWriter, SinkTypes
  <2> QED BY <1>9, <2>1 DEF DropWriter, SinkTypes
<1>10. CASE Open
  BY <1>3, <1>7, <1>10 DEF Open, SinkTypes
<1>11. CASE Write
  BY <1>5, <1>6, <1>11 DEF Write, SinkTypes
<1>12. CASE WriteFails
  BY <1>7, <1>12 DEF WriteFails
<1>13. CASE RotateFlush
  BY <1>3, <1>6, <1>13 DEF RotateFlush, SinkTypes
<1>14. CASE Truncate
  BY <1>5, <1>6, <1>7, <1>14 DEF Truncate, SinkTypes
<1>15. CASE Reopen
  BY <1>5, <1>6, <1>7, <1>15 DEF Reopen, SinkTypes
<1>16. CASE Shift
  BY <1>3, <1>6, <1>16 DEF Shift, SinkTypes
<1>17. CASE Rename
  BY <1>3, <1>6, <1>17 DEF Rename, SinkTypes
<1> QED BY <1>2, <1>8, <1>9, <1>10, <1>11, <1>12, <1>13, <1>14, <1>15, <1>16, <1>17 DEF PumpStep

\* Every step keeps them.
LEMMA SinkNext == FilesIInv /\ SinkTypes /\ [Next]_vars => SinkTypes'
<1> SUFFICES ASSUME FilesIInv, SinkTypes, [Next]_vars PROVE SinkTypes'
  OBVIOUS
<1>1. UNCHANGED <<closed, reported, behind, faults, entry>> => SinkTypes'
  BY DEF SinkTypes
<1>2. CASE UNCHANGED vars
  BY <1>1, <1>2 DEF vars, fileVars
<1>3. ASSUME NEW s \in Senders, SenderStep(s) /\ UNCHANGED <<fileVars, collector>>
      PROVE  SinkTypes'
  BY <1>1, <1>3 DEF fileVars
<1>4. CASE CollectTake \/ CollectDone
  BY <1>1, <1>4 DEF CollectTake, CollectDone, fileVars
<1>5. CASE CollectHandle
  <2>1. Record(collector.event) => SinkTypes'
    BY DEF Record, SinkTypes
  <2> QED BY <1>1, <1>5, <2>1 DEF CollectHandle, fileVars
<1>6. CASE CollectEnd \/ GiveUp
  BY <1>6 DEF CollectEnd, GiveUp, Shut, SinkTypes
<1>7. CASE PumpStep
  BY <1>7, SinkPumpStep
<1>8. CASE FollowerStep
  BY <1>1, <1>8 DEF FollowerStep
<1> QED BY <1>2, <1>3, <1>4, <1>5, <1>6, <1>7, <1>8 DEF Next, CollectorStep

\* The invariants say what TypeOK says.
LEMMA TypesHold == SourceIInv /\ FilesIInv /\ SinkTypes => TypeOK
<1> SUFFICES ASSUME SourceIInv, FilesIInv, SinkTypes PROVE TypeOK
  OBVIOUS
<1>1. ChannelTypeOK
  <2>1. ChannelAt
    BY DEF SourceIInv, ChannelIInv
  <2>2. \A i \in DOMAIN channel : channel[i] \in Events
    BY <2>1 DEF ChannelAt
  <2> QED BY <2>1, <2>2 DEF ChannelAt, ChannelTypeOK, SenderRecords
<1>2. accepted \in Seq(LogLines)
  BY HandledFacts DEF Sound
<1>3. pump \in {"poll", "park", "record", "truncate", "shift", "rename", "reopen", "drop", "done"}
  BY DEF FilesIInv, FileTypes, Busy
<1> QED BY <1>1, <1>2, <1>3 DEF TypeOK, SinkTypes, FilesIInv, FileTypes, Writers

\* The types of the channel, the queue, the writer and the files.
THEOREM TypeCorrect == Spec => []TypeOK
<1>1. Init => SourceIInv /\ FilesIInv /\ SinkTypes
  BY SourceInductive, FilesInit_IInv, SinkInit
<1>2. SourceIInv /\ FilesIInv /\ SinkTypes /\ [Next]_vars => (SourceIInv /\ FilesIInv /\ SinkTypes)'
  BY SourceInductive, FilesNext, SinkNext
<1> QED BY <1>1, <1>2, TypesHold, PTL DEF Spec
=============================================================================
