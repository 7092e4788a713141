------------------------- MODULE SupervisionProofs -------------------------
(***************************************************************************)
(* Theorems about what stands beside a service's runner: the restart policy  *)
(* (RestartTracker), and the health monitor with the relay of what it and    *)
(* the runner announce (HealthRelay).  The two specifications share no state *)
(* and each has its own theorems.                                            *)
(*                                                                         *)
(* RestartTracker: the budget and the delays, for every set of settings,     *)
(* every counter width and every width of the backoff arithmetic.            *)
(*                                                                         *)
(* HealthRelay: for any number of processes and supervision runs, any budget *)
(* and ceiling of a monitor and channels of any length.                      *)
(* What carries QuietMeansTruthful is what a channel foretells: folding the  *)
(* events that wait in it leads from what has been published to the truth.   *)
(* A fold is not needed to say so, because only the last event of a kind     *)
(* counts.  What else writes the cell are the relays of earlier runs: they   *)
(* have no event left that would.                                            *)
(***************************************************************************)
EXTENDS HealthRelay, RestartTracker, SequenceTheorems, WellFoundedInduction, TLAPS

-----------------------------------------------------------------------------
(* The restart policy.                                                      *)

\* The attempt counter is the number of restarts granted, until it saturates;
\* a budget is never wider than the counter, so it is spent before that.
CounterIsHistory ==
  attempts = IF failures < AttemptTop THEN failures ELSE AttemptTop

TrackerIInv ==
  /\ TrackerTypeOK
  /\ failures \in Nat /\ CounterIsHistory
  /\ BudgetIsExact
  /\ BackoffIsTheDocumentedMinimum

-----------------------------------------------------------------------------
(* Powers of two.                                                           *)

\* A set of numbers has a least one: induction on numbers in first-order form.
LEMMA Least ==
  ASSUME NEW T \in SUBSET Nat, T # {}
  PROVE  \E n \in T : \A m \in T : n <= m
<1> DEFINE R == OpToRel(<, Nat)
<1>1. IsWellFoundedOn(R, Nat)
  BY NatLessThanWellFounded
<1>2. \A n, m \in Nat : n < m => <<n, m>> \in R
  BY DEF OpToRel
<1> HIDE DEF R
<1>3. PICK n \in T : \A m \in T : ~(<<m, n>> \in R)
  BY <1>1, WFMin
<1>4. ASSUME NEW m \in T
      PROVE  n <= m
  <2>1. m \in Nat /\ n \in Nat /\ ~(m < n)
    BY <1>2, <1>3
  <2> QED BY <2>1
<1> QED BY <1>4

\* f doubles from one up to n.
Doubles(f, n) ==
  /\ f \in [0..n -> Nat \ {0}]
  /\ f[0] = 1 /\ \A m \in 1..n : f[m] = 2 * f[m - 1]

\* Such functions agree where both are defined.
LEMMA DoublesAgree ==
  ASSUME NEW k \in Nat, NEW n \in Nat, k <= n, NEW f, NEW g, Doubles(f, k), Doubles(g, n)
  PROVE  f[k] = g[k]
<1> DEFINE Bad == {m \in 0..k : f[m] # g[m]}
<1>1. ASSUME Bad # {}
      PROVE  FALSE
  <2>1. PICK m \in Bad : \A j \in Bad : m <= j
    <3>1. Bad \in SUBSET Nat
      OBVIOUS
    <3> HIDE DEF Bad
    <3> QED BY <1>1, <3>1, Least
  <2>2. m # 0 /\ m \in 0..k /\ f[m] # g[m]
    BY <2>1 DEF Doubles
  <2>3. m \in 1..k /\ m \in 1..n /\ m - 1 \in 0..k /\ ~(m <= m - 1)
    BY <2>2
  <2>4. f[m - 1] = g[m - 1]
    BY <2>1, <2>3
  <2>5. f[m] = 2 * f[m - 1] /\ g[m] = 2 * g[m - 1]
    BY <2>3 DEF Doubles
  <2> QED BY <2>2, <2>4, <2>5
<1>2. k \in 0..k
  OBVIOUS
<1> QED BY <1>1, <1>2

\* There is one for every n.
LEMMA DoublesExist == \A n \in Nat : \E f : Doubles(f, n)
<1> DEFINE Bad == {n \in Nat : ~ \E f : Doubles(f, n)}
<1>1. ASSUME Bad # {}
      PROVE  FALSE
  <2>1. PICK n \in Bad : \A m \in Bad : n <= m
    <3>1. Bad \in SUBSET Nat
      OBVIOUS
    <3> HIDE DEF Bad
    <3> QED BY <1>1, <3>1, Least
  <2>2. n \in Nat /\ ~ \E f : Doubles(f, n)
    BY <2>1
  <2>3. n # 0
    <3>1. Doubles([m \in 0..0 |-> 1], 0)
      BY DEF Doubles
    <3> QED BY <2>2, <3>1
  <2>4. n - 1 \in Nat /\ n \in 1..n /\ n - 1 \in 0..(n - 1) /\ ~(n <= n - 1)
    BY <2>2, <2>3
  <2>5. PICK f : Doubles(f, n - 1)
    BY <2>1, <2>4
  <2> DEFINE g == [m \in 0..n |-> IF m = n THEN 2 * f[n - 1] ELSE f[m]]
  <2>6. f \in [0..(n - 1) -> Nat \ {0}] /\ f[n - 1] \in Nat \ {0}
    BY <2>4, <2>5 DEF Doubles
  <2>7. g \in [0..n -> Nat \ {0}]
    <3>1. ASSUME NEW m \in 0..n
          PROVE  g[m] \in Nat \ {0}
      <4>1. m = n \/ m \in 0..(n - 1)
        BY <2>2
      <4> QED BY <2>6, <4>1
    <3> QED BY <3>1
  <2>8. g[0] = 1 /\ \A m \in 1..n : g[m] = 2 * g[m - 1]
    <3>1. f[0] = 1 /\ \A m \in 1..(n - 1) : f[m] = 2 * f[m - 1]
      BY <2>5 DEF Doubles
    <3>2. ASSUME NEW m \in 1..n
          PROVE  g[m] = 2 * g[m - 1]
      <4>1. m - 1 \in 0..n /\ m - 1 # n /\ m \in 0..n
        BY <2>2
      <4>2. CASE m = n
        BY <4>1, <4>2
      <4>3. CASE m # n
        <5>1. m \in 1..(n - 1)
          BY <2>2, <4>3
        <5> QED BY <3>1, <4>1, <4>3, <5>1
      <4> QED BY <4>2, <4>3
    <3>3. 0 \in 0..n /\ 0 # n
      BY <2>2, <2>3
    <3> QED BY <3>1, <3>2, <3>3
  <2> HIDE DEF g
  <2>9. Doubles(g, n)
    BY <2>7, <2>8 DEF Doubles
  <2> QED BY <2>2, <2>9
<1> QED BY <1>1

\* The recursive function is the one that its definition describes.
LEMMA Pow2Facts ==
  /\ Pow2[0] = 1
  /\ \A n \in Nat : Pow2[n] \in Nat \ {0} /\ Pow2[n + 1] = 2 * Pow2[n]
<1> DEFINE g == [n \in Nat |-> (CHOOSE f : Doubles(f, n))[n]]
           Twice(h) == [n \in Nat |-> IF n = 0 THEN 1 ELSE 2 * h[n - 1]]
<1>1. ASSUME NEW n \in Nat
      PROVE  Doubles(CHOOSE f : Doubles(f, n), n)
  BY DoublesExist
<1>2. g[0] = 1
  BY <1>1 DEF Doubles
<1>3. ASSUME NEW n \in Nat, n # 0
      PROVE  g[n] = 2 * g[n - 1]
  <2> DEFINE e == CHOOSE f : Doubles(f, n - 1)
             d == CHOOSE f : Doubles(f, n)
  <2>1. n - 1 \in Nat /\ n - 1 <= n /\ n \in 1..n
    BY <1>3
  <2>2. Doubles(e, n - 1) /\ Doubles(d, n)
    BY <1>1, <2>1
  <2>3. g[n] = d[n] /\ g[n - 1] = e[n - 1]
    BY <2>1
  <2> HIDE DEF d, e, g
  <2>4. e[n - 1] = d[n - 1]
    BY <2>1, <2>2, DoublesAgree
  <2>5. d[n] = 2 * d[n - 1]
    BY <2>1, <2>2 DEF Doubles
  <2> QED BY <2>3, <2>4, <2>5
<1>4. \E h : h = Twice(h)
  <2>1. g = [n \in Nat |-> g[n]]
    OBVIOUS
  <2> HIDE DEF g
  <2>2. \A n \in Nat : g[n] = IF n = 0 THEN 1 ELSE 2 * g[n - 1]
    BY <1>2, <1>3
  <2>3. g = Twice(g)
    BY <2>1, <2>2
  <2> QED BY <2>3
<1> DEFINE p == CHOOSE h : h = Twice(h)
<1>5. p = Twice(p)
  <2> HIDE DEF Twice
  <2> QED BY <1>4
<1>6. Pow2 = p
  BY DEF Pow2
<1> HIDE DEF p
<1>7. \A n \in Nat : Pow2[n] = IF n = 0 THEN 1 ELSE 2 * Pow2[n - 1]
  BY <1>5, <1>6
<1>8. Pow2[0] = 1
  BY <1>7
<1>9. ASSUME NEW n \in Nat
      PROVE  Pow2[n + 1] = 2 * Pow2[n]
  <2>1. n + 1 \in Nat /\ n + 1 # 0 /\ (n + 1) - 1 = n
    OBVIOUS
  <2> QED BY <1>7, <2>1
<1>10. ASSUME NEW n \in Nat
      PROVE  Pow2[n] \in Nat \ {0}
  <2> DEFINE Bad == {m \in Nat : Pow2[m] \notin Nat \ {0}}
  <2>1. ASSUME Bad # {}
        PROVE  FALSE
    <3>1. PICK m \in Bad : \A j \in Bad : m <= j
      <4>1. Bad \in SUBSET Nat
        OBVIOUS
      <4> HIDE DEF Bad
      <4> QED BY <2>1, <4>1, Least
    <3>2. m \in Nat /\ Pow2[m] \notin Nat \ {0} /\ m # 0
      BY <1>8, <3>1
    <3>3. m - 1 \in Nat /\ ~(m <= m - 1)
      BY <3>2
    <3>4. Pow2[m - 1] \in Nat \ {0}
      BY <3>1, <3>3
    <3>5. Pow2[m] = 2 * Pow2[m - 1]
      BY <1>7, <3>2
    <3> QED BY <3>2, <3>4, <3>5
  <2> QED BY <2>1
<1> QED BY <1>8, <1>9, <1>10

\* They grow.
LEMMA Pow2Grows == \A m, n \in Nat : m <= n => Pow2[m] <= Pow2[n]
<1> SUFFICES ASSUME NEW m \in Nat PROVE \A n \in Nat : m <= n => Pow2[m] <= Pow2[n]
  OBVIOUS
<1> DEFINE Bad == {n \in Nat : m <= n /\ ~(Pow2[m] <= Pow2[n])}
<1>1. ASSUME Bad # {}
      PROVE  FALSE
  <2>1. PICK n \in Bad : \A j \in Bad : n <= j
    <3>1. Bad \in SUBSET Nat
      OBVIOUS
    <3> HIDE DEF Bad
    <3> QED BY <1>1, <3>1, Least
  <2>2. n \in Nat /\ m <= n /\ ~(Pow2[m] <= Pow2[n])
    BY <2>1
  <2>3. n # m
    BY <2>2, Pow2Facts
  <2>4. n - 1 \in Nat /\ m <= n - 1 /\ ~(n <= n - 1) /\ (n - 1) + 1 = n
    BY <2>2, <2>3
  <2>5. Pow2[m] <= Pow2[n - 1]
    BY <2>1, <2>4
  <2>6. Pow2[n] = 2 * Pow2[n - 1] /\ Pow2[n - 1] \in Nat /\ Pow2[m] \in Nat
    BY <2>4, Pow2Facts
  <2> QED BY <2>2, <2>5, <2>6
<1> QED BY <1>1
-----------------------------------------------------------------------------
(* What validation.rs guarantees of the settings in use.                    *)
LEMMA SettingFacts ==
  ASSUME settings \in Settings
  PROVE  AttemptTop \in Nat \ {0} /\ settings.maxRestarts \in 0..AttemptTop
BY SettingsAssumption

-----------------------------------------------------------------------------
(* The delay.                                                               *)

\* A product grows with its factor.
LEMMA ProductGrows ==
  \A a, b, c \in Nat : b <= c => a * b <= a * c /\ a * b \in Nat /\ a * c \in Nat
<1> SUFFICES ASSUME NEW a \in Nat, NEW b \in Nat, NEW c \in Nat, b <= c
             PROVE  a * b <= a * c /\ a * b \in Nat /\ a * c \in Nat
  OBVIOUS
<1>1. a * b \in Nat /\ a * c \in Nat /\ a * (c - b) \in Nat
  OBVIOUS
<1>2. a * c = a * b + a * (c - b)
  OBVIOUS
<1> QED BY <1>1, <1>2

\* The factor is 2^attempt unless that is wider than the ceiling needs: what the
\* shift, the cast and the multiplication saturate is never seen in a delay.
LEMMA BackoffIsExact ==
  ASSUME NEW s \in Settings, NEW n \in Nat
  PROVE  LET exact == s.delay * Pow2[n] IN
         /\ BackoffForAttempt(s, n) = IF exact < s.maxDelay THEN exact ELSE s.maxDelay
         /\ BackoffForAttempt(s, n) \in 0..DurationMax
<1> DEFINE d == s.delay
           m == s.maxDelay
           f == Factor(n)
           p == Pow2[n]
           t == FactorTop
<1>1. /\ d \in Nat /\ m \in Nat /\ DurationMax \in Nat /\ m <= DurationMax /\ m <= d * t
      /\ FactorBits \in Nat /\ ShiftBits \in Nat /\ FactorBits <= ShiftBits
  BY SettingsAssumption
<1>2. p \in Nat /\ t \in Nat /\ Pow2[FactorBits] = t + 1
  BY <1>1, Pow2Facts DEF FactorTop
<1>3. f = IF n >= ShiftBits \/ p > t THEN t ELSE p
  BY DEF Factor
<1>4. BackoffForAttempt(s, n) = IF d * f > DurationMax \/ d * f > m THEN m ELSE d * f
  BY DEF BackoffForAttempt
<1>5. n >= ShiftBits => p > t
  <2>1. n >= FactorBits => Pow2[FactorBits] <= p
    BY <1>1, Pow2Grows
  <2> QED BY <1>1, <1>2, <2>1
<1> HIDE DEF d, m, f, p, t
<1>6. d * p \in Nat /\ d * t \in Nat
  BY <1>1, <1>2, ProductGrows
<1>7. CASE p > t
  <2>1. f = t
    BY <1>3, <1>7
  <2>2. d * t <= d * p
    BY <1>1, <1>2, <1>7, ProductGrows
  <2>3. d * f = d * t
    BY <2>1
  <2>4. BackoffForAttempt(s, n) = m /\ ~(d * p < m)
    BY <1>1, <1>4, <1>6, <2>2, <2>3
  <2> QED BY <1>1, <2>4 DEF d, m, p
<1>8. CASE ~(p > t)
  <2>1. d * f = d * p
    BY <1>3, <1>5, <1>8
  <2>2. BackoffForAttempt(s, n) = IF d * p < m THEN d * p ELSE m
    BY <1>1, <1>4, <1>6, <2>1
  <2>3. BackoffForAttempt(s, n) \in 0..DurationMax
    BY <1>1, <1>6, <2>2
  <2> QED BY <2>2, <2>3 DEF d, m, p
<1> QED BY <1>7, <1>8

-----------------------------------------------------------------------------
(* A tracker starts with a whole budget.                                    *)
LEMMA TrackerInitIInv == TrackerInit => TrackerIInv
<1> SUFFICES ASSUME TrackerInit PROVE TrackerIInv
  OBVIOUS
<1>1. settings \in Settings /\ attempts = 0 /\ failures = 0 /\ decision.kind = "none"
  BY DEF TrackerInit
<1>2. CounterIsHistory
  BY <1>1, SettingFacts DEF CounterIsHistory
<1>3. BudgetIsExact
  BY <1>1, SettingFacts DEF BudgetIsExact
<1>4. TrackerTypeOK /\ BackoffIsTheDocumentedMinimum
  BY <1>1, SettingFacts, SettingsAssumption DEF TrackerInit, TrackerTypeOK, BackoffIsTheDocumentedMinimum
<1> QED BY <1>1, <1>2, <1>3, <1>4 DEF TrackerIInv

(* decide() grants a restart only while the counter is below the budget, and *)
(* counts it; a stable run starts both counts afresh.                       *)
LEMMA DecideIInv ==
  ASSUME TrackerIInv, NEW reason \in ExitReasons, NEW stable \in BOOLEAN, Decide(reason, stable)
  PROVE  TrackerIInv'
<1> DEFINE fresh   == AttemptsAfter(attempts, stable)
           granted == IF stable THEN 0 ELSE failures
           kind    == Verdict(settings.policy, settings.maxRestarts, fresh, reason)
<1>1. settings' = settings /\ settings \in Settings
  BY DEF TrackerIInv, TrackerTypeOK, Decide
<1>2. AttemptTop \in Nat \ {0} /\ settings.maxRestarts \in 0..AttemptTop
  BY <1>1, SettingFacts
<1>3. granted \in Nat /\ fresh = IF granted < AttemptTop THEN granted ELSE AttemptTop
  BY <1>2 DEF TrackerIInv, CounterIsHistory, AttemptsAfter
<1>4. settings.maxRestarts # 0 => granted <= settings.maxRestarts
  BY <1>2 DEF TrackerIInv, BudgetIsExact
<1>5. /\ decision'.kind = kind
      /\ failures' = granted + (IF kind = "restart" THEN 1 ELSE 0)
      /\ attempts' = IF kind = "restart" THEN SaturatingInc(fresh, AttemptTop) ELSE fresh
  BY DEF Decide
<1>6. /\ kind \in {"restart", "stop", "fail"} /\ fresh \in 0..AttemptTop
      /\ decision'.delay = IF kind = "restart" THEN BackoffForAttempt(settings, fresh) ELSE 0
  BY <1>2, <1>3 DEF Decide, Verdict
<1>7. CASE kind = "restart"
  <2>1. failures' = granted + 1 /\ attempts' = SaturatingInc(fresh, AttemptTop)
    BY <1>5, <1>7
  <2>2. settings.maxRestarts # 0 => fresh < settings.maxRestarts
    BY <1>7 DEF Verdict, BudgetLeft
  <2>3. CounterIsHistory'
    BY <2>1, <1>2, <1>3 DEF CounterIsHistory, SaturatingInc
  <2>4. BudgetIsExact'
    BY <2>1, <2>2, <1>1, <1>2, <1>3, <1>5, <1>7 DEF BudgetIsExact
  <2> DEFINE exact == settings.delay * Pow2[fresh]
  <2>5. /\ decision'.delay = IF exact < settings.maxDelay THEN exact ELSE settings.maxDelay
        /\ decision'.delay \in 0..DurationMax
    BY <1>1, <1>2, <1>7, <1>6, BackoffIsExact
  <2>6. attempts' \in 0..AttemptTop /\ (attempts' < AttemptTop => attempts' - 1 = fresh)
    BY <1>2, <1>6, <2>1 DEF SaturatingInc
  <2>7. TrackerTypeOK'
    BY <1>1, <1>5, <1>7, <2>5, <2>6 DEF TrackerTypeOK
  <2>8. BackoffIsTheDocumentedMinimum'
    BY <1>1, <2>5, <2>6 DEF BackoffIsTheDocumentedMinimum
  <2> QED BY <2>1, <2>3, <2>4, <2>7, <2>8, <1>3 DEF TrackerIInv
<1>8. CASE kind # "restart"
  <2>1. failures' = granted /\ attempts' = fresh
    BY <1>3, <1>5, <1>8
  <2>2. kind = "fail" => settings.maxRestarts # 0 /\ ~(fresh < settings.maxRestarts)
    BY DEF Verdict, BudgetLeft
  <2>3. BudgetIsExact'
    BY <2>1, <2>2, <1>1, <1>2, <1>3, <1>4, <1>5 DEF BudgetIsExact
  <2>4. TrackerTypeOK' /\ BackoffIsTheDocumentedMinimum'
    BY <1>1, <1>5, <1>8, <1>6, <2>1, SettingsAssumption DEF TrackerTypeOK, BackoffIsTheDocumentedMinimum
  <2> QED BY <2>1, <2>3, <2>4, <1>1, <1>3 DEF TrackerIInv, CounterIsHistory
<1> QED BY <1>7, <1>8

(* What decide() keeps holds of every behaviour.                            *)
LEMMA TrackerInductive == TrackerSpec => []TrackerIInv
<1>1. TrackerIInv /\ [TrackerNext]_trackerVars => TrackerIInv'
  <2> SUFFICES ASSUME TrackerIInv, [TrackerNext]_trackerVars PROVE TrackerIInv'
    OBVIOUS
  <2>1. CASE TrackerNext
    BY <2>1, DecideIInv DEF TrackerNext
  <2>2. CASE UNCHANGED trackerVars
    BY <2>2 DEF trackerVars, TrackerIInv, TrackerTypeOK, CounterIsHistory, BudgetIsExact, BackoffIsTheDocumentedMinimum
  <2> QED BY <2>1, <2>2
<1> QED BY <1>1, TrackerInitIInv, PTL DEF TrackerSpec

(* The counter stays within u32 and every delay within Duration.            *)
THEOREM TrackerTypeCorrect == TrackerSpec => []TrackerTypeOK
<1>1. TrackerIInv => TrackerTypeOK
  BY DEF TrackerIInv
<1> QED BY <1>1, TrackerInductive, PTL

(* max_restarts bounds the restarts granted between two stable runs, and    *)
(* decide() gives up exactly when they are all granted.                     *)
THEOREM BudgetExact == TrackerSpec => []BudgetIsExact
<1>1. TrackerIInv => BudgetIsExact
  BY DEF TrackerIInv
<1> QED BY <1>1, TrackerInductive, PTL

(* backoff_for_attempt() waits the minimum that it documents, whatever the  *)
(* shift, the cast to u32 and the multiplication saturate.                  *)
THEOREM BackoffDocumented == TrackerSpec => []BackoffIsTheDocumentedMinimum
<1>1. TrackerIInv => BackoffIsTheDocumentedMinimum
  BY DEF TrackerIInv
<1> QED BY <1>1, TrackerInductive, PTL

-----------------------------------------------------------------------------
(* The health monitor and the relay.                                        *)

Counts == [ready : BOOLEAN, failed : 0..Ceiling, grace : BOOLEAN, streak : Nat,
           said : {"none", "healthy", "unhealthy"}]
Monitors == [at : {"none", "idle", "probing", "done"}, run : 0..RunBound, counts : Counts]

Kinds == {"state", "started", "exited", "finished", "healthy", "unhealthy"}
Words == States \cup ExitReasons \cup {""}

Emitted == {e \in [kind : Kinds, what : Words, proc : 0..ProcBound] :
              e.kind = "state" => e.what \in States}

\* The events that write the process group cell, and what an event says.
Group == {"started", "exited", "finished"}
Says(e) == IF e.kind = "state" THEN e.what ELSE IF e.kind = "started" THEN e.proc ELSE 0

Silent(q, K) == \A i \in 1..Len(q) : q[i].kind \notin K

\* The last event of q with a kind in K says `new'.
Tells(q, K, new) ==
  \E i \in 1..Len(q) :
    /\ q[i].kind \in K /\ Says(q[i]) = new
    /\ \A j \in 1..Len(q) : j > i => q[j].kind \notin K

\* Whoever knows `old' knows `new' when q has been handled.
Foretells(q, K, old, new) == Tells(q, K, new) \/ (Silent(q, K) /\ old = new)

LiveGroup == IF state \in {"Running", "Stopping"} THEN proc ELSE 0

Types ==
  /\ proc \in 0..ProcBound /\ run \in RunIds /\ state \in States /\ sent \in BOOLEAN
  /\ monitors \in [Procs -> Monitors]
  /\ channel \in [RunIds -> Seq(Emitted)]
  /\ relay \in [RunIds -> {"none", "running", "ended"}]
  /\ tracker \in [RunIds -> Statuses]
  /\ status \in Statuses /\ pgid \in 0..ProcBound

CountsAt(c) ==
  /\ c.failed = IF c.streak < Ceiling THEN c.streak ELSE Ceiling
  /\ c.streak >= Retries => ~c.ready /\ c.said = "unhealthy"

MonitorAt(k) ==
  /\ monitors[k].run <= run
  /\ monitors[k].at # "none" => monitors[k].run >= 1
  /\ CountsAt(monitors[k].counts)

\* The relay of a run ends when nobody is left to send.
RelayAt(r) ==
  /\ r > run => channel[r] = <<>> /\ tracker[r] = NewStatus /\ relay[r] = "none"
  /\ r < run => Silent(channel[r], Group)
  /\ relay[r] = "ended" =>
       /\ channel[r] = <<>>
       /\ r = run => Over
       /\ \A k \in Procs : monitors[k].run = r => monitors[k].at = "done"

RunAt ==
  /\ sent => Over /\ pgid = 0 /\ Silent(channel[run], Group)
  /\ Foretells(channel[run], {"state"}, tracker[run].state, state)
  /\ Foretells(channel[run], Group, pgid, LiveGroup)
  /\ \E r \in 1..run : status = tracker[r]

IInv ==
  /\ Types
  /\ \A k \in Procs : MonitorAt(k)
  /\ \A r \in RunIds : RelayAt(r)
  /\ RunAt
-----------------------------------------------------------------------------
(* Lemmas on sequences of events.                                           *)

\* Events that say nothing of a kind change nothing of what a channel foretells.
LEMMA SilentConcat ==
  ASSUME NEW S, NEW q \in Seq(S), NEW w \in Seq(S), NEW K, Silent(w, K)
  PROVE  /\ Silent(q, K) => Silent(q \o w, K)
         /\ \A old, new : Foretells(q, K, old, new) => Foretells(q \o w, K, old, new)
<1>1. /\ q \o w \in Seq(S) /\ Len(q \o w) = Len(q) + Len(w)
      /\ \A i \in 1..(Len(q) + Len(w)) : (q \o w)[i] = IF i <= Len(q) THEN q[i] ELSE w[i - Len(q)]
      /\ Len(q) \in Nat /\ Len(w) \in Nat
  BY ConcatProperties
<1> DEFINE n == Len(q)
           c == q \o w
<1>2. \A i \in 1..Len(c) : i > n => c[i].kind \notin K
  <2> SUFFICES ASSUME NEW i \in 1..Len(c), i > n PROVE c[i].kind \notin K
    OBVIOUS
  <2>1. i - n \in 1..Len(w) /\ c[i] = w[i - n]
    BY <1>1
  <2> QED BY <2>1 DEF Silent
<1>3. Len(c) >= n /\ \A i \in 1..n : c[i] = q[i] /\ i \in 1..Len(c)
  BY <1>1
<1>4. \A i \in 1..Len(c) : i > n \/ i \in 1..n
  BY <1>1
<1> HIDE DEF c
<1>5. Silent(q, K) => Silent(c, K)
  BY <1>2, <1>3, <1>4 DEF Silent
<1>6. ASSUME NEW new, Tells(q, K, new)
      PROVE  Tells(c, K, new)
  <2>1. PICK i \in 1..n : /\ q[i].kind \in K /\ Says(q[i]) = new
                          /\ \A j \in 1..n : j > i => q[j].kind \notin K
    BY <1>6 DEF Tells
  <2>2. i \in 1..Len(c) /\ c[i] = q[i]
    BY <1>3
  <2>3. \A j \in 1..Len(c) : j > i => c[j].kind \notin K
    BY <2>1, <1>2, <1>3, <1>4
  <2> QED BY <2>1, <2>2, <2>3 DEF Tells
<1> QED BY <1>5, <1>6 DEF Foretells, c

\* What a channel foretells is decided by the events that were sent last.
LEMMA TellingConcat ==
  ASSUME NEW S, NEW q \in Seq(S), NEW w \in Seq(S), NEW K, NEW new, Tells(w, K, new)
  PROVE  \A old : Foretells(q \o w, K, old, new)
<1>1. /\ q \o w \in Seq(S) /\ Len(q \o w) = Len(q) + Len(w)
      /\ \A i \in 1..(Len(q) + Len(w)) : (q \o w)[i] = IF i <= Len(q) THEN q[i] ELSE w[i - Len(q)]
      /\ Len(q) \in Nat /\ Len(w) \in Nat
  BY ConcatProperties
<1> DEFINE n == Len(q)
           c == q \o w
<1>2. PICK i \in 1..Len(w) : /\ w[i].kind \in K /\ Says(w[i]) = new
                             /\ \A j \in 1..Len(w) : j > i => w[j].kind \notin K
  BY DEF Tells
<1>3. n + i \in 1..Len(c) /\ c[n + i] = w[i]
  BY <1>1
<1>4. ASSUME NEW j \in 1..Len(c), j > n + i
      PROVE  c[j].kind \notin K
  <2>1. j - n \in 1..Len(w) /\ j - n > i /\ c[j] = w[j - n]
    BY <1>1, <1>4
  <2> QED BY <2>1, <1>2
<1> HIDE DEF c
<1>5. Tells(c, K, new)
  BY <1>2, <1>3, <1>4 DEF Tells
<1> QED BY <1>5 DEF Foretells, c

\* Taking an event brings what is published one step closer to what is foretold.
LEMMA TailForetells ==
  ASSUME NEW S, NEW q \in Seq(S), q # <<>>, NEW K, NEW old, NEW new
  PROVE  /\ Silent(q, K) => Head(q).kind \notin K /\ Silent(Tail(q), K)
         /\ Foretells(q, K, old, new) =>
              Foretells(Tail(q), K, IF Head(q).kind \in K THEN Says(Head(q)) ELSE old, new)
<1> DEFINE t == Tail(q)
<1>1. /\ Len(q) \in Nat /\ Len(q) >= 1 /\ Len(t) = Len(q) - 1 /\ Head(q) = q[1]
      /\ \A i \in 1..Len(t) : t[i] = q[i + 1]
  OBVIOUS
<1>2. \A i \in 1..Len(t) : i + 1 \in 1..Len(q)
  BY <1>1
<1>3. 1 \in 1..Len(q)
  BY <1>1
<1>4. \A i \in 1..Len(q) : i = 1 \/ (i - 1 \in 1..Len(t) /\ t[i - 1] = q[i])
  <2> SUFFICES ASSUME NEW i \in 1..Len(q), i # 1 PROVE i - 1 \in 1..Len(t) /\ t[i - 1] = q[i]
    OBVIOUS
  <2>1. i - 1 \in 1..Len(t) /\ (i - 1) + 1 = i
    BY <1>1
  <2> QED BY <2>1, <1>1
<1> HIDE DEF t
<1>5. Silent(q, K) => Head(q).kind \notin K /\ Silent(t, K)
  BY <1>1, <1>2, <1>3 DEF Silent
<1>6. ASSUME Tells(q, K, new)
      PROVE  Foretells(t, K, IF Head(q).kind \in K THEN Says(Head(q)) ELSE old, new)
  <2>1. PICK i \in 1..Len(q) : /\ q[i].kind \in K /\ Says(q[i]) = new
                               /\ \A j \in 1..Len(q) : j > i => q[j].kind \notin K
    BY <1>6 DEF Tells
  <2>2. CASE i = 1
    <3>1. Silent(t, K)
      BY <2>1, <2>2, <1>1, <1>2 DEF Silent
    <3> QED BY <3>1, <2>1, <2>2, <1>1 DEF Foretells
  <2>3. CASE i # 1
    <3>1. i - 1 \in 1..Len(t) /\ t[i - 1] = q[i]
      BY <2>3, <1>4
    <3>2. ASSUME NEW j \in 1..Len(t), j > i - 1
          PROVE  t[j].kind \notin K
      <4>1. j + 1 \in 1..Len(q) /\ j + 1 > i /\ t[j] = q[j + 1]
        BY <3>2, <1>1, <1>2
      <4> QED BY <4>1, <2>1
    <3> QED BY <3>1, <3>2, <2>1 DEF Foretells, Tells
  <2> QED BY <2>2, <2>3
<1> QED BY <1>5, <1>6 DEF Foretells, t
-----------------------------------------------------------------------------
(* Lemmas on monitors.                                                      *)

\* The counters have room for the whole budget.
LEMMA CeilingFacts == Ceiling \in Nat /\ Ceiling >= Retries /\ Retries \in Nat /\ Retries >= 1
BY CountsAssumption DEF Ceiling

\* A probe leaves the counts what they should be, and the news is one at most.
LEMMA ProbeFacts ==
  ASSUME NEW m \in Monitors, CountsAt(m.counts)
  PROVE  /\ \A c \in {Passed(m.counts), Failed(m.counts), m.counts} :
              c \in Counts /\ CountsAt(c)
         /\ \A c : News(m.counts, c) \in {{}, {"healthy"}, {"unhealthy"}}
<1> DEFINE c == m.counts
<1>1. c \in Counts
  BY DEF Monitors
<1> HIDE DEF c
<1>2. CountsAt(c)
  BY DEF c
<1>3. Passed(c) \in Counts /\ CountsAt(Passed(c))
  <2>1. Passed(c) = [[[[c EXCEPT !.failed = 0] EXCEPT !.streak = 0] EXCEPT !.ready = TRUE]
                       EXCEPT !.said = "healthy"]
    BY Zenon DEF Passed
  <2>2. 0 \in 0..Ceiling /\ 0 \in Nat
    BY CeilingFacts
  <2>3. Passed(c) \in Counts
    BY <1>1, <2>1, <2>2 DEF Counts
  <2>4. Passed(c).failed = 0 /\ Passed(c).streak = 0
    BY <1>1, <2>1 DEF Counts
  <2> QED BY <2>3, <2>4, CeilingFacts DEF CountsAt
<1>4. Failed(c) \in Counts /\ CountsAt(Failed(c))
  <2> DEFINE failed == IF c.failed + 1 < Ceiling THEN c.failed + 1 ELSE Ceiling
             spent  == failed = Retries
             streak == c.streak + 1
             ready  == c.ready /\ ~spent
             said   == IF spent THEN "unhealthy" ELSE c.said
  <2>1. failed \in 0..Ceiling /\ streak \in Nat
    BY <1>1, CeilingFacts DEF Counts
  <2>2. failed = IF streak < Ceiling THEN streak ELSE Ceiling
    BY <1>1, <1>2, CeilingFacts DEF CountsAt, Counts
  <2>3. streak >= Retries => spent \/ c.streak >= Retries
    BY <1>1, <2>2, CeilingFacts DEF Counts
  <2>4. ready \in BOOLEAN /\ said \in {"none", "healthy", "unhealthy"}
    BY <1>1 DEF Counts
  <2>5. Failed(c) = [c EXCEPT !.failed = failed, !.grace = FALSE, !.streak = streak,
                              !.ready = ready, !.said = said]
    BY DEF Failed
  <2>6. /\ ready => c.ready /\ ~spent
        /\ spent => said = "unhealthy"
        /\ ~spent => said = c.said
    OBVIOUS
  <2> HIDE DEF failed, spent, streak, ready, said
  <2>7. Failed(c) = [[[[[c EXCEPT !.failed = failed] EXCEPT !.grace = FALSE]
                         EXCEPT !.streak = streak] EXCEPT !.ready = ready] EXCEPT !.said = said]
    BY <2>5, Zenon
  <2>8. Failed(c) \in Counts
    BY <1>1, <2>1, <2>4, <2>7 DEF Counts
  <2>9. /\ Failed(c).failed = failed /\ Failed(c).streak = streak
        /\ Failed(c).ready = ready /\ Failed(c).said = said
    BY <1>1, <2>7 DEF Counts
  <2>10. streak >= Retries => ~ready /\ said = "unhealthy"
    BY <1>2, <2>3, <2>6 DEF CountsAt
  <2> QED BY <2>2, <2>8, <2>9, <2>10 DEF CountsAt
<1>5. \A n : News(c, n) \in {{}, {"healthy"}, {"unhealthy"}}
  BY DEF News
<1> QED BY <1>1, <1>2, <1>3, <1>4, <1>5 DEF c

\* ReadinessTracker::observe takes the state from the last state event.
LEMMA ObserveFacts ==
  ASSUME NEW st \in Statuses, NEW e \in Emitted
  PROVE  /\ Observe(st, e) \in Statuses
         /\ Observe(st, e).state = IF e.kind \in {"state"} THEN Says(e) ELSE st.state
<1>1. e.kind \in Kinds /\ (e.kind = "state" => e.what \in States)
  BY DEF Emitted
<1>2. CASE e.kind = "state"
  <2>1. Observe(st, e) = ObserveState(st, e.what)
    BY <1>2 DEF Observe
  <2> QED BY <1>1, <1>2, <2>1 DEF ObserveState, Statuses, Says
<1>3. CASE e.kind = "healthy"
  <2>1. Observe(st, e) = ObserveHealth(st, TRUE)
    BY <1>3 DEF Observe
  <2> QED BY <1>3, <2>1 DEF ObserveHealth, Statuses
<1>4. CASE e.kind = "unhealthy"
  <2>1. Observe(st, e) = ObserveHealth(st, FALSE)
    BY <1>4 DEF Observe
  <2> QED BY <1>4, <2>1 DEF ObserveHealth, Statuses
<1>5. CASE e.kind = "exited"
  <2>1. Observe(st, e) = ObserveExit(st, e.what)
    BY <1>5 DEF Observe
  <2> QED BY <1>5, <2>1 DEF ObserveExit, Statuses
<1>6. CASE e.kind \in {"started", "finished"}
  <2>1. Observe(st, e) = st
    BY <1>6 DEF Observe
  <2> QED BY <1>6, <2>1
<1> QED BY <1>1, <1>2, <1>3, <1>4, <1>5, <1>6 DEF Kinds

\* The process group cell follows the events of a process group and no others.
LEMMA PublishedFacts ==
  ASSUME NEW e \in Emitted
  PROVE  Published(e) = IF e.kind \in Group THEN Says(e) ELSE pgid
<1>1. e.kind \in Kinds
  BY DEF Emitted
<1>2. CASE e.kind = "started"
  BY <1>2 DEF Published, Group, Says
<1>3. CASE e.kind \in {"exited", "finished"}
  BY <1>3 DEF Published, Group, Says
<1>4. CASE e.kind \in {"state", "healthy", "unhealthy"}
  BY <1>4 DEF Published, Group, Says
<1> QED BY <1>1, <1>2, <1>3, <1>4 DEF Kinds
-----------------------------------------------------------------------------
(* The invariant is inductive.                                              *)

\* Runs are numbered from 1.
LEMMA RunIdsFacts == run \in RunIds => run \in 1..RunBound /\ RunBound \in Nat /\ run \in Nat
BY BoundsAssumption DEF RunIds

\* A new run begins as pending.
LEMMA NewStatusFacts == NewStatus \in Statuses /\ NewStatus.state = "Pending"
BY DEF NewStatus, Statuses, States

\* An empty channel foretells what is there.
LEMMA EmptyForetells == \A K, old : Foretells(<<>>, K, old, old) /\ Silent(<<>>, K)
BY DEF Foretells, Silent

\* The first run, before it launches anything.
LEMMA InitIInv == Init => IInv
<1> SUFFICES ASSUME Init PROVE IInv
  OBVIOUS
<1>1. 1 \in RunIds /\ ProcBound \in Nat /\ RunBound \in Nat
  BY BoundsAssumption DEF RunIds
<1>2. NoMonitor \in Monitors /\ CountsAt(NoMonitor.counts)
  BY <1>1, CeilingFacts DEF NoMonitor, NewCounts, Monitors, Counts, CountsAt
<1>3. <<>> \in Seq(Emitted)
  OBVIOUS
<1>4. Types
  <2>1. monitors \in [Procs -> Monitors]
    BY <1>2 DEF Init
  <2>2. channel \in [RunIds -> Seq(Emitted)]
    BY <1>3, Zenon DEF Init
  <2>3. tracker \in [RunIds -> Statuses]
    BY NewStatusFacts DEF Init
  <2>4. relay \in [RunIds -> {"none", "running", "ended"}]
    BY DEF Init
  <2>5. proc \in 0..ProcBound /\ run \in RunIds /\ state \in States /\ sent \in BOOLEAN
    <3>1. proc = 0 /\ run = 1 /\ state = "Pending" /\ sent = FALSE
      BY Zenon DEF Init
    <3>2. sent \in BOOLEAN
      BY <3>1, Zenon
    <3>3. proc \in 0..ProcBound /\ run \in RunIds
      BY <3>1, <1>1
    <3>4. state \in States
      BY <3>1 DEF States
    <3> QED BY <3>2, <3>3, <3>4
  <2>6. status \in Statuses /\ pgid \in 0..ProcBound
    BY <1>1, NewStatusFacts DEF Init
  <2> QED BY <2>1, <2>2, <2>3, <2>4, <2>5, <2>6 DEF Types
<1>5. ASSUME NEW k \in Procs
      PROVE  MonitorAt(k)
  <2>1. monitors[k] = NoMonitor /\ run = 1
    BY DEF Init
  <2> QED BY <2>1, <1>2 DEF MonitorAt, NoMonitor
<1>6. ASSUME NEW r \in RunIds
      PROVE  RelayAt(r)
  BY EmptyForetells, <1>1 DEF Init, RelayAt, RunIds
<1>7. RunAt
  <2>1. channel[run] = <<>> /\ tracker[run].state = state /\ pgid = LiveGroup /\ ~sent
    BY <1>1, NewStatusFacts DEF Init, LiveGroup
  <2>2. status = tracker[1] /\ 1 \in 1..run
    BY <1>1 DEF Init
  <2> QED BY <2>1, <2>2, EmptyForetells DEF RunAt
<1> QED BY <1>4, <1>5, <1>6, <1>7 DEF IInv

\* What emitting makes of the channels.
LEMMA EmitFacts ==
  ASSUME channel \in [RunIds -> Seq(Emitted)], NEW r \in RunIds, NEW w \in Seq(Emitted),
         Emit(r, w)
  PROVE  /\ channel' \in [RunIds -> Seq(Emitted)]
         /\ channel'[r] = channel[r] \o w
         /\ \A q \in RunIds : q # r => channel'[q] = channel[q]
<1>1. channel[r] \o w \in Seq(Emitted)
  BY ConcatProperties
<1> QED BY <1>1 DEF Emit

\* A step of the runner in charge: its events say what it became.
LEMMA RunnerEmits ==
  ASSUME IInv, ~Over, UnchangedByRunner,
         NEW w \in Seq(Emitted), Emit(run, w),
         proc' \in 0..ProcBound, state' \in States,
         monitors' \in [Procs -> Monitors],
         \A k \in Procs : MonitorAt(k)' /\ (monitors'[k] = monitors[k] \/ monitors'[k].run = run),
         Tells(w, {"state"}, state'),
         Tells(w, Group, LiveGroup') \/ (Silent(w, Group) /\ LiveGroup' = LiveGroup)
  PROVE  IInv'
<1>1. Types /\ RunAt /\ \A r \in RunIds : RelayAt(r)
  BY DEF IInv
<1>2. UNCHANGED <<run, sent, relay, tracker, status, pgid>> /\ run \in RunIds
  BY <1>1 DEF UnchangedByRunner, Types
<1>3. channel \in [RunIds -> Seq(Emitted)] /\ channel[run] \in Seq(Emitted)
  BY <1>1, <1>2 DEF Types
<1>4. /\ channel' \in [RunIds -> Seq(Emitted)]
      /\ channel'[run] = channel[run] \o w
      /\ \A q \in RunIds : q # run => channel'[q] = channel[q]
  BY <1>2, <1>3, EmitFacts
<1>5. Types'
  BY <1>1, <1>2, <1>4 DEF Types
<1>6. ~sent /\ relay[run] # "ended"
  BY <1>1, <1>2 DEF RunAt, RelayAt
<1>7. ASSUME NEW r \in RunIds
      PROVE  RelayAt(r)'
  <2>1. RelayAt(r)
    BY <1>1
  <2>2. CASE r = run
    BY <2>2, <1>2, <1>6, RunIdsFacts DEF RelayAt
  <2>3. CASE r # run
    <3>1. channel'[r] = channel[r]
      BY <2>3, <1>4
    <3> QED BY <2>1, <2>3, <3>1, <1>2 DEF RelayAt
  <2> QED BY <2>2, <2>3
<1>8. Foretells(channel'[run], {"state"}, tracker[run].state, state')
  BY <1>3, <1>4, TellingConcat
<1>9. Foretells(channel'[run], Group, pgid, LiveGroup')
  <2>1. CASE Tells(w, Group, LiveGroup')
    BY <2>1, <1>3, <1>4, TellingConcat
  <2>2. CASE Silent(w, Group) /\ LiveGroup' = LiveGroup
    <3>1. Foretells(channel[run], Group, pgid, LiveGroup)
      BY <1>1 DEF RunAt
    <3> QED BY <2>2, <3>1, <1>3, <1>4, SilentConcat
  <2> QED BY <2>1, <2>2
<1>10. RunAt'
  BY <1>1, <1>2, <1>6, <1>8, <1>9 DEF RunAt
<1> QED BY <1>5, <1>7, <1>10 DEF IInv

\* A run starts a process, with a monitor of its own.
LEMMA LaunchIInv == IInv /\ Launch => IInv'
<1> SUFFICES ASSUME IInv, Launch PROVE IInv'
  OBVIOUS
<1> DEFINE a == Announced("Starting")
           b == Announced("Running")
           c == [Event("started", "") EXCEPT !.proc = proc + 1]
           k0 == proc + 1
<1>1. /\ ProcBound \in Nat /\ proc \in 0..ProcBound /\ proc < ProcBound
      /\ monitors \in [Procs -> Monitors] /\ run \in RunIds
  BY BoundsAssumption DEF IInv, Types, Launch
<1>2. /\ proc' = k0 /\ state' = "Running" /\ state \in {"Pending", "Backoff"}
      /\ monitors' = [monitors EXCEPT ![k0] = [monitors[k0] EXCEPT !.at = "idle", !.run = run]]
      /\ Emit(run, <<a, b, c>>) /\ UnchangedByRunner
  BY DEF Launch
<1>3. k0 \in Procs /\ k0 \in 0..ProcBound
  BY <1>1 DEF Procs
<1>4. /\ a \in Emitted /\ a.kind = "state"
      /\ b \in Emitted /\ b.kind = "state" /\ b.what = "Running"
      /\ c \in Emitted /\ c.kind = "started" /\ c.proc = k0
  BY <1>1, <1>3 DEF Announced, Event, Emitted, Kinds, Words, States
<1> HIDE DEF a, b, c
<1>5. /\ <<a, b, c>> \in Seq(Emitted) /\ Len(<<a, b, c>>) = 3
      /\ <<a, b, c>>[1] = a /\ <<a, b, c>>[2] = b /\ <<a, b, c>>[3] = c
  BY <1>4
<1> DEFINE w == <<a, b, c>>
<1> HIDE DEF w
<1>6. /\ w \in Seq(Emitted) /\ Len(w) = 3 /\ w[1] = a /\ w[2] = b /\ w[3] = c
  BY <1>5 DEF w
<1>7. Tells(w, {"state"}, "Running")
  <2>1. 2 \in 1..Len(w) /\ \A j \in 1..Len(w) : j > 2 => j = 3
    BY <1>6
  <2> QED BY <2>1, <1>4, <1>6 DEF Tells, Says
<1>8. Tells(w, Group, k0)
  <2>1. 3 \in 1..Len(w) /\ \A j \in 1..Len(w) : ~(j > 3)
    BY <1>6
  <2>2. w[3].kind \in Group /\ Says(w[3]) = k0
    BY <1>4, <1>6 DEF Group, Says
  <2> QED BY <2>1, <2>2 DEF Tells
<1> DEFINE m == [monitors[k0] EXCEPT !.at = "idle", !.run = run]
<1>9. m \in Monitors /\ m.run = run /\ m.counts = monitors[k0].counts
  <2>1. run \in 0..RunBound /\ monitors[k0] \in Monitors
    BY <1>1, <1>3, RunIdsFacts
  <2> QED BY <2>1 DEF Monitors
<1> HIDE DEF m
<1>10. /\ monitors' \in [Procs -> Monitors] /\ monitors'[k0] = m
       /\ \A k \in Procs : k # k0 => monitors'[k] = monitors[k]
  BY <1>1, <1>2, <1>3, <1>9 DEF m
<1>11. ASSUME NEW k \in Procs
       PROVE  MonitorAt(k)' /\ (monitors'[k] = monitors[k] \/ monitors'[k].run = run)
  <2>1. MonitorAt(k) /\ run' = run /\ run \in Nat /\ run >= 1
    BY <1>1, <1>2, RunIdsFacts DEF IInv, UnchangedByRunner
  <2>2. CASE k = k0
    BY <2>1, <2>2, <1>9, <1>10 DEF MonitorAt
  <2>3. CASE k # k0
    BY <2>1, <2>3, <1>10 DEF MonitorAt
  <2> QED BY <2>2, <2>3
<1>12. ~Over /\ state' \in States /\ LiveGroup' = k0
  BY <1>2 DEF Over, Terminal, States, LiveGroup
<1> QED BY <1>2, <1>3, <1>6, <1>7, <1>8, <1>10, <1>11, <1>12, RunnerEmits DEF w

\* A runner's step that leaves the monitors alone.
LEMMA AnnouncesIInv ==
  ASSUME IInv, ~Over, UnchangedByRunner, UNCHANGED <<proc, monitors>>,
         NEW w \in Seq(Emitted), Emit(run, w), state' \in States,
         Tells(w, {"state"}, state'),
         Tells(w, Group, LiveGroup') \/ (Silent(w, Group) /\ LiveGroup' = LiveGroup)
  PROVE  IInv'
<1>1. run' = run /\ Types /\ \A k \in Procs : MonitorAt(k)
  BY DEF IInv, UnchangedByRunner
<1>2. proc' \in 0..ProcBound /\ monitors' \in [Procs -> Monitors]
  BY <1>1 DEF Types
<1>3. \A k \in Procs : MonitorAt(k)' /\ (monitors'[k] = monitors[k] \/ monitors'[k].run = run)
  BY <1>1 DEF MonitorAt
<1> QED BY <1>2, <1>3, RunnerEmits

\* What the events are that a runner emits.
LEMMA EventFacts ==
  ASSUME IInv, NEW s \in States, NEW reason \in ExitReasons
  PROVE  /\ Announced(s) \in Emitted
         /\ Announced(s).kind = "state" /\ Announced(s).what = s
         /\ Event("exited", reason) \in Emitted /\ Event("exited", reason).kind = "exited"
         /\ Event("finished", "") \in Emitted /\ Event("finished", "").kind = "finished"
<1>1. proc \in 0..ProcBound
  BY DEF IInv, Types
<1> QED BY <1>1 DEF Announced, Event, Emitted, Kinds, Words

\* A run begins to stop its process.
LEMMA BeginStopIInv == IInv /\ BeginStop => IInv'
<1> SUFFICES ASSUME IInv, BeginStop PROVE IInv'
  OBVIOUS
<1> DEFINE a == Announced("Stopping")
<1>1. /\ state = "Running" /\ state' = "Stopping" /\ Emit(run, <<a>>)
      /\ UNCHANGED <<proc, monitors>> /\ UnchangedByRunner
  BY DEF BeginStop
<1>2. "Stopping" \in States /\ "code" \in ExitReasons
  BY DEF States, ExitReasons, OwnExits
<1>3. a \in Emitted /\ a.kind = "state" /\ a.what = "Stopping"
  BY <1>2, EventFacts
<1> HIDE DEF a
<1> DEFINE w == <<a>>
<1>4. w \in Seq(Emitted) /\ Len(w) = 1 /\ w[1] = a
  BY <1>3
<1> HIDE DEF w
<1>5. Tells(w, {"state"}, "Stopping") /\ Silent(w, Group)
  BY <1>3, <1>4 DEF Tells, Silent, Says, Group
<1>6. ~Over /\ LiveGroup' = LiveGroup
  BY <1>1 DEF Over, Terminal, LiveGroup
<1> QED BY <1>1, <1>2, <1>4, <1>5, <1>6, AnnouncesIInv DEF w

\* The process is gone, which the run and its monitor learn of later.
LEMMA ExitsIInv ==
  ASSUME IInv, NEW reason \in ExitReasons, NEW next \in {"Backoff", "Exited", "Failed"},
         Exits(reason, next)
  PROVE  IInv'
<1> DEFINE a == Event("exited", reason)
           b == Announced(next)
           c == Event("finished", "")
           w == <<a, b>> \o IF next = "Exited" THEN <<c>> ELSE <<>>
<1>1. /\ state \in {"Running", "Stopping"} /\ state' = next
      /\ UNCHANGED <<proc, monitors>> /\ UnchangedByRunner
      /\ Emit(run, w)
  BY DEF Exits
<1>2. next \in States
  BY DEF States
<1>3. /\ a \in Emitted /\ a.kind = "exited"
      /\ b \in Emitted /\ b.kind = "state" /\ b.what = next
      /\ c \in Emitted /\ c.kind = "finished"
  BY <1>2, EventFacts
<1> HIDE DEF a, b, c
<1>4. /\ w \in Seq(Emitted) /\ Len(w) \in {2, 3} /\ w[1] = a /\ w[2] = b
      /\ Len(w) = 3 => w[3] = c
  <2>1. CASE next = "Exited"
    <3>1. w = <<a, b>> \o <<c>> /\ <<a, b>> \in Seq(Emitted) /\ <<c>> \in Seq(Emitted)
      BY <2>1, <1>3
    <3> HIDE DEF w
    <3>2. /\ w \in Seq(Emitted) /\ Len(w) = 3
          /\ \A i \in 1..3 : w[i] = IF i <= 2 THEN <<a, b>>[i] ELSE <<c>>[i - 2]
      BY <3>1, ConcatProperties
    <3> QED BY <3>2
  <2>2. CASE next # "Exited"
    <3>1. w = <<a, b>>
      BY <2>2
    <3> QED BY <3>1, <1>3
  <2> QED BY <2>1, <2>2
<1> HIDE DEF w
<1>5. Says(a) = 0 /\ Says(b) = next /\ Says(c) = 0
  BY <1>3 DEF Says
<1>6. Tells(w, {"state"}, next)
  <2>1. CASE Len(w) = 2
    <3>1. 2 \in 1..Len(w) /\ \A j \in 1..Len(w) : ~(j > 2)
      BY <2>1
    <3> QED BY <3>1, <1>3, <1>4, <1>5 DEF Tells
  <2>2. CASE Len(w) = 3
    <3>1. 2 \in 1..Len(w) /\ \A j \in 1..Len(w) : j > 2 => j = 3
      BY <2>2
    <3> QED BY <3>1, <2>2, <1>3, <1>4, <1>5 DEF Tells
  <2> QED BY <1>4, <2>1, <2>2
<1>7. Tells(w, Group, 0)
  <2>1. CASE Len(w) = 2
    <3>1. 1 \in 1..Len(w) /\ \A j \in 1..Len(w) : j > 1 => j = 2
      BY <2>1
    <3> QED BY <3>1, <1>3, <1>4, <1>5 DEF Tells, Group
  <2>2. CASE Len(w) = 3
    <3>1. 3 \in 1..Len(w) /\ \A j \in 1..Len(w) : ~(j > 3)
      BY <2>2
    <3> QED BY <3>1, <2>2, <1>3, <1>4, <1>5 DEF Tells, Group
  <2> QED BY <1>4, <2>1, <2>2
<1>8. ~Over /\ LiveGroup' = 0
  BY <1>1 DEF Over, Terminal, LiveGroup
<1> QED BY <1>1, <1>2, <1>4, <1>6, <1>7, <1>8, AnnouncesIInv

\* A run tells of the end of its process.
LEMMA StoppedIInv == IInv /\ Stopped => IInv'
<1> SUFFICES ASSUME IInv, Stopped PROVE IInv'
  OBVIOUS
<1> DEFINE a == Announced("Stopped")
           c == Event("finished", "")
           w == <<a>> \o IF state = "Pending" THEN <<>> ELSE <<c>>
<1>1. /\ state \in {"Pending", "Stopping", "Backoff"} /\ state' = "Stopped"
      /\ UNCHANGED <<proc, monitors>> /\ UnchangedByRunner
      /\ Emit(run, w)
  BY DEF Stopped
<1>2. "Stopped" \in States /\ "code" \in ExitReasons
  BY DEF States, ExitReasons, OwnExits
<1>3. /\ a \in Emitted /\ a.kind = "state" /\ a.what = "Stopped"
      /\ c \in Emitted /\ c.kind = "finished"
  BY <1>2, EventFacts
<1> HIDE DEF a, c
<1>4. /\ w \in Seq(Emitted) /\ w[1] = a
      /\ Len(w) = IF state = "Pending" THEN 1 ELSE 2
      /\ Len(w) = 2 => w[2] = c
  <2>1. CASE state = "Pending"
    <3>1. w = <<a>>
      BY <2>1
    <3> QED BY <2>1, <3>1, <1>3
  <2>2. CASE state # "Pending"
    <3>1. w = <<a>> \o <<c>> /\ <<a>> \in Seq(Emitted) /\ <<c>> \in Seq(Emitted)
      BY <2>2, <1>3
    <3> HIDE DEF w
    <3>2. /\ w \in Seq(Emitted) /\ Len(w) = 2
          /\ \A i \in 1..2 : w[i] = IF i <= 1 THEN <<a>>[i] ELSE <<c>>[i - 1]
      BY <3>1, ConcatProperties
    <3> QED BY <2>2, <3>2
  <2> QED BY <2>1, <2>2
<1> HIDE DEF w
<1>5. Says(a) = "Stopped" /\ Says(c) = 0
  BY <1>3 DEF Says
<1>6. Tells(w, {"state"}, "Stopped")
  <2>1. 1 \in 1..Len(w) /\ \A j \in 1..Len(w) : j > 1 => (j = 2 /\ Len(w) = 2)
    BY <1>4
  <2> QED BY <2>1, <1>3, <1>4, <1>5 DEF Tells
<1>7. LiveGroup' = 0 /\ ~Over
  BY <1>1 DEF LiveGroup, Over, Terminal
<1>8. Tells(w, Group, 0) \/ (Silent(w, Group) /\ LiveGroup' = LiveGroup)
  <2>1. CASE state = "Pending"
    BY <2>1, <1>1, <1>3, <1>4, <1>7 DEF Silent, Group, LiveGroup
  <2>2. CASE state # "Pending"
    <3>1. 2 \in 1..Len(w) /\ w[2] = c /\ \A j \in 1..Len(w) : ~(j > 2)
      BY <2>2, <1>4
    <3> QED BY <3>1, <1>3, <1>5 DEF Tells, Group
  <2> QED BY <2>1, <2>2
<1> QED BY <1>1, <1>2, <1>4, <1>6, <1>7, <1>8, AnnouncesIInv

\* A run is over and reports it.
LEMMA ReportIInv == IInv /\ Report => IInv'
<1> SUFFICES ASSUME IInv, Report PROVE IInv'
  OBVIOUS
<1>1. /\ Over /\ sent' = TRUE /\ pgid' = 0
      /\ UNCHANGED <<proc, run, state, monitors, channel, relay, tracker, status>>
      /\ relay[run] = "ended" \/ channel[run] = <<>>
  BY DEF Report, Drained, DrainTimesOut
<1>2. Types /\ RunAt /\ \A r \in RunIds : RelayAt(r)
  BY DEF IInv
<1>3. channel[run] = <<>>
  BY <1>1, <1>2 DEF RelayAt, Types
<1>4. Types'
  BY <1>1, <1>2, BoundsAssumption DEF Types
<1>5. \A k \in Procs : MonitorAt(k)'
  BY <1>1 DEF IInv, MonitorAt
<1>6. \A r \in RunIds : RelayAt(r)'
  BY <1>1, <1>2 DEF RelayAt, Over
<1>7. LiveGroup' = 0 /\ Over'
  BY <1>1 DEF LiveGroup, Over, Terminal
<1>8. RunAt'
  <2>1. Foretells(channel'[run'], {"state"}, tracker'[run'].state, state')
    BY <1>1, <1>2 DEF RunAt
  <2>2. Foretells(channel'[run'], Group, pgid', LiveGroup') /\ Silent(channel'[run'], Group)
    BY <1>1, <1>3, <1>7, EmptyForetells
  <2> QED BY <2>1, <2>2, <1>1, <1>2, <1>7 DEF RunAt
<1> QED BY <1>4, <1>5, <1>6, <1>8 DEF IInv

\* The stack spawns the next run: a new channel, a new status, an empty cell.
LEMMA RespawnIInv == IInv /\ Respawn => IInv'
<1> SUFFICES ASSUME IInv, Respawn PROVE IInv'
  OBVIOUS
<1>1. /\ sent /\ run < RunBound
      /\ run' = run + 1 /\ state' = "Pending" /\ sent' = FALSE
      /\ relay' = [relay EXCEPT ![run + 1] = "running"]
      /\ status' = NewStatus /\ pgid' = 0
      /\ UNCHANGED <<proc, monitors, channel, tracker>>
  BY DEF Respawn
<1>2. Types /\ RunAt /\ (\A r \in RunIds : RelayAt(r)) /\ (\A k \in Procs : MonitorAt(k))
  BY DEF IInv
<1>3. /\ run \in RunIds /\ run \in Nat /\ run >= 1 /\ RunBound \in Nat
      /\ run + 1 \in RunIds /\ RunIds \subseteq Nat
  BY <1>1, <1>2, BoundsAssumption DEF Types, RunIds
<1>4. channel[run + 1] = <<>> /\ tracker[run + 1] = NewStatus
  BY <1>2, <1>3 DEF RelayAt
<1>5. Types'
  <2>1. /\ state' \in States /\ sent' \in BOOLEAN
        /\ pgid' \in 0..ProcBound /\ status' \in Statuses
    <3>1. state' \in States
      BY <1>1 DEF States
    <3>2. sent' \in BOOLEAN
      BY <1>1, Zenon
    <3>3. pgid' \in 0..ProcBound
      BY <1>1, BoundsAssumption
    <3>4. status' \in Statuses
      BY <1>1, NewStatusFacts, Zenon
    <3> QED BY <3>1, <3>2, <3>3, <3>4
  <2>2. relay' \in [RunIds -> {"none", "running", "ended"}]
    BY <1>1, <1>2, <1>3 DEF Types
  <2> QED BY <2>1, <2>2, <1>1, <1>2, <1>3 DEF Types
<1>6. ASSUME NEW k \in Procs
      PROVE  MonitorAt(k)'
  <2>1. monitors[k].run \in 0..RunBound /\ RunBound \in Nat
    BY <1>2, <1>3 DEF Types, Monitors
  <2> QED BY <2>1, <1>1, <1>2, <1>3 DEF MonitorAt
<1>7. ASSUME NEW r \in RunIds
      PROVE  RelayAt(r)'
  <2>1. RelayAt(r) /\ r \in Nat
    BY <1>2, <1>3
  <2>2. CASE r = run
    BY <2>1, <2>2, <1>1, <1>2, <1>3 DEF RelayAt, RunAt, Types
  <2>3. CASE r = run + 1
    BY <2>1, <2>3, <1>1, <1>2, <1>3 DEF RelayAt, Types
  <2>4. CASE r # run /\ r # run + 1
    <3>1. relay'[r] = relay[r]
      BY <2>4, <1>1, <1>2 DEF Types
    <3>2. (r > run' => r > run) /\ (r < run' => r < run) /\ r # run'
      BY <2>1, <2>4, <1>1, <1>3
    <3> QED BY <2>1, <3>1, <3>2, <1>1 DEF RelayAt
  <2> QED BY <2>2, <2>3, <2>4
<1>8. RunAt'
  <2>1. channel'[run'] = <<>> /\ tracker'[run'].state = state' /\ LiveGroup' = pgid'
    BY <1>1, <1>4, NewStatusFacts DEF LiveGroup
  <2>2. run' \in 1..run' /\ status' = tracker'[run']
    BY <1>1, <1>3, <1>4
  <2>3. Foretells(channel'[run'], {"state"}, tracker'[run'].state, state')
    BY <2>1, EmptyForetells
  <2>4. Foretells(channel'[run'], Group, pgid', LiveGroup')
    BY <2>1, EmptyForetells
  <2> QED BY <2>2, <2>3, <2>4, <1>1 DEF RunAt
<1> QED BY <1>5, <1>6, <1>7, <1>8 DEF IInv

\* A step of a monitor that emits nothing.
LEMMA MonitorIInv ==
  ASSUME IInv, NEW k \in Procs, UnchangedByMonitor, UNCHANGED channel,
         NEW m \in Monitors, monitors' = [monitors EXCEPT ![k] = m],
         m.run = monitors[k].run, CountsAt(m.counts),
         monitors[k].at \in {"idle", "probing"}
  PROVE  IInv'
<1>1. /\ UNCHANGED <<proc, run, state, sent, relay, tracker, status, pgid, channel>>
      /\ Types /\ RunAt /\ (\A r \in RunIds : RelayAt(r)) /\ (\A j \in Procs : MonitorAt(j))
  BY DEF UnchangedByMonitor, IInv
<1>2. /\ monitors' \in [Procs -> Monitors] /\ monitors'[k] = m
      /\ \A j \in Procs : j # k => monitors'[j] = monitors[j]
  BY <1>1 DEF Types
<1>3. Types'
  BY <1>1, <1>2 DEF Types
<1>4. \A j \in Procs : MonitorAt(j)'
  BY <1>1, <1>2 DEF MonitorAt
<1>5. ASSUME NEW r \in RunIds
      PROVE  RelayAt(r)'
  <2>1. relay[r] = "ended" => monitors[k].run # r
    BY <1>1 DEF RelayAt
  <2>2. relay[r] = "ended" =>
          \A j \in Procs : monitors'[j].run = r => monitors'[j].at = "done"
    BY <2>1, <1>1, <1>2 DEF RelayAt
  <2> QED BY <2>2, <1>1 DEF RelayAt, Over
<1>6. RunAt'
  BY <1>1 DEF RunAt, Over, LiveGroup
<1> QED BY <1>3, <1>4, <1>5, <1>6 DEF IInv

\* A step of a monitor that tells of health: it writes neither state nor cell.
LEMMA MonitorEmits ==
  ASSUME IInv, NEW k \in Procs, UnchangedByMonitor,
         NEW e \in Emitted, e.kind \in {"healthy", "unhealthy"}, Emit(monitors[k].run, <<e>>),
         NEW m \in Monitors, monitors' = [monitors EXCEPT ![k] = m],
         m.run = monitors[k].run, CountsAt(m.counts),
         monitors[k].at \in {"idle", "probing"}
  PROVE  IInv'
<1>1. /\ UNCHANGED <<proc, run, state, sent, relay, tracker, status, pgid>>
      /\ Types /\ RunAt /\ (\A r \in RunIds : RelayAt(r)) /\ (\A j \in Procs : MonitorAt(j))
  BY DEF UnchangedByMonitor, IInv
<1> DEFINE q == monitors[k].run
<1>2. q \in RunIds /\ q <= run /\ run \in Nat /\ q \in Nat /\ RunIds \subseteq Nat
  BY <1>1, BoundsAssumption DEF MonitorAt, Types, Monitors, RunIds
<1>3. relay[q] # "ended"
  BY <1>1, <1>2 DEF RelayAt
<1>4. <<e>> \in Seq(Emitted) /\ Silent(<<e>>, Group) /\ Silent(<<e>>, {"state"})
  BY DEF Silent, Group
<1>5. /\ monitors' \in [Procs -> Monitors] /\ monitors'[k] = m
      /\ \A j \in Procs : j # k => monitors'[j] = monitors[j]
  BY <1>1 DEF Types
<1> HIDE DEF q
<1>6. /\ channel \in [RunIds -> Seq(Emitted)]
      /\ channel' \in [RunIds -> Seq(Emitted)]
      /\ channel'[q] = channel[q] \o <<e>>
      /\ \A r \in RunIds : r # q => channel'[r] = channel[r]
  <2>1. channel \in [RunIds -> Seq(Emitted)] /\ Emit(q, <<e>>)
    BY <1>1 DEF Types, q
  <2> QED BY <2>1, <1>2, <1>4, EmitFacts
<1>7. \A r \in RunIds, K \in {Group, {"state"}} :
        /\ Silent(channel[r], K) => Silent(channel'[r], K)
        /\ \A old, new : Foretells(channel[r], K, old, new) => Foretells(channel'[r], K, old, new)
  <2> SUFFICES ASSUME NEW r \in RunIds, NEW K \in {Group, {"state"}}
               PROVE  /\ Silent(channel[r], K) => Silent(channel'[r], K)
                      /\ \A old, new : Foretells(channel[r], K, old, new)
                                         => Foretells(channel'[r], K, old, new)
    OBVIOUS
  <2>1. CASE r # q
    BY <2>1, <1>6
  <2>2. CASE r = q
    <3>1. channel[q] \in Seq(Emitted)
      BY <1>2, <1>6
    <3>2. Silent(<<e>>, K)
      BY <1>4, Zenon
    <3> DEFINE w == <<e>>
    <3>3. w \in Seq(Emitted) /\ Silent(w, K) /\ channel'[q] = channel[q] \o w
      BY <3>2, <1>4, <1>6, Zenon
    <3> HIDE DEF w
    <3>4. /\ Silent(channel[q], K) => Silent(channel[q] \o w, K)
          /\ \A old, new : Foretells(channel[q], K, old, new)
                             => Foretells(channel[q] \o w, K, old, new)
      BY <3>1, <3>3, SilentConcat
    <3> QED BY <2>2, <3>3, <3>4, Zenon
  <2> QED BY <2>1, <2>2
<1>8. Types'
  BY <1>1, <1>5, <1>6 DEF Types
<1>9. \A j \in Procs : MonitorAt(j)'
  BY <1>1, <1>5 DEF MonitorAt
<1>10. ASSUME NEW r \in RunIds
       PROVE  RelayAt(r)'
  <2>1. relay[r] = "ended" => q # r
    BY <1>3
  <2>2. relay[r] = "ended" =>
          \A j \in Procs : monitors'[j].run = r => monitors'[j].at = "done"
    BY <2>1, <1>1, <1>5 DEF RelayAt, q
  <2>3. r > run => channel'[r] = channel[r]
    BY <1>2, <1>6
  <2>4. r < run => Silent(channel'[r], Group)
    BY <1>1, <1>7 DEF RelayAt
  <2>5. relay[r] = "ended" => channel'[r] = channel[r]
    BY <2>1, <1>6
  <2> QED BY <2>2, <2>3, <2>4, <2>5, <1>1 DEF RelayAt, Over
<1>11. RunAt'
  <2>1. run \in RunIds
    BY <1>1 DEF Types
  <2>2. /\ Foretells(channel'[run], {"state"}, tracker[run].state, state)
        /\ Foretells(channel'[run], Group, pgid, LiveGroup)
        /\ sent => Silent(channel'[run], Group)
    BY <2>1, <1>1, <1>7 DEF RunAt
  <2>3. LiveGroup' = LiveGroup /\ (Over' <=> Over)
    BY <1>1 DEF LiveGroup, Over
  <2> QED BY <2>2, <2>3, <1>1 DEF RunAt
<1> QED BY <1>8, <1>9, <1>10, <1>11 DEF IInv

\* A probe's verdict is counted, and announced when it changes something.
LEMMA JudgedIInv ==
  ASSUME IInv, NEW k \in Procs, monitors[k].at = "probing",
         NEW c \in {Passed(monitors[k].counts), Failed(monitors[k].counts), monitors[k].counts},
         Judged(k, c)
  PROVE  IInv'
<1> DEFINE news == News(monitors[k].counts, c)
           e == [Event(CHOOSE n \in news : TRUE, "") EXCEPT !.proc = k]
           there == IF news # {} /\ ~Open(k) THEN "done" ELSE "idle"
           m == [monitors[k] EXCEPT !.counts = c, !.at = there]
<1>1. monitors[k] \in Monitors /\ CountsAt(monitors[k].counts) /\ proc \in 0..ProcBound
  BY DEF IInv, Types, MonitorAt
<1>2. c \in Counts /\ CountsAt(c) /\ news \in {{}, {"healthy"}, {"unhealthy"}}
  BY <1>1, ProbeFacts
<1>3. /\ monitors' = [monitors EXCEPT ![k] = m]
      /\ IF news = {} THEN UNCHANGED channel ELSE Emit(monitors[k].run, <<e>>)
      /\ UnchangedByMonitor
  <2>1. monitors' = [monitors EXCEPT ![k].counts = c, ![k].at = there]
    BY DEF Judged
  <2>2. monitors' = [monitors EXCEPT ![k] = m]
    BY <2>1, Zenon
  <2> QED BY <2>2 DEF Judged
<1>4. there \in {"done", "idle"}
  OBVIOUS
<1> HIDE DEF there
<1>5. m \in Monitors /\ m.run = monitors[k].run /\ m.counts = c
  <2>1. m = [[monitors[k] EXCEPT !.counts = c] EXCEPT !.at = there]
    BY Zenon
  <2> QED BY <2>1, <1>1, <1>2, <1>4 DEF Monitors
<1> HIDE DEF m
<1>6. CASE news = {}
  BY <1>1, <1>2, <1>3, <1>5, <1>6, MonitorIInv
<1>7. CASE news # {}
  <2> DEFINE n == CHOOSE x \in news : TRUE
  <2>1. n \in {"healthy", "unhealthy"}
    BY <1>2, <1>7
  <2>2. e = [Event(n, "") EXCEPT !.proc = k]
    OBVIOUS
  <2> HIDE DEF n, e
  <2>3. e \in Emitted /\ e.kind = n
    <3>1. k \in 0..ProcBound
      BY BoundsAssumption DEF Procs
    <3> QED BY <2>1, <2>2, <3>1, <1>1 DEF Event, Emitted, Kinds, Words
  <2> QED BY <2>1, <2>3, <1>1, <1>2, <1>3, <1>5, <1>7, MonitorEmits
<1> QED BY <1>6, <1>7

\* A monitor's timer fires, or it learns that nobody listens any more.
LEMMA TickIInv == ASSUME IInv, NEW k \in Procs, Tick(k) \/ Leave(k) PROVE IInv'
<1>1. PICK there \in {"probing", "done"} : monitors' = [monitors EXCEPT ![k].at = there]
  BY DEF Tick, Leave
<1>2. /\ monitors[k].at = "idle" /\ UnchangedByMonitor /\ UNCHANGED channel
      /\ monitors[k] \in Monitors /\ CountsAt(monitors[k].counts)
  BY DEF Tick, Leave, Notices, IInv, Types, MonitorAt
<1> DEFINE m == [monitors[k] EXCEPT !.at = there]
<1>3. monitors' = [monitors EXCEPT ![k] = m]
  BY <1>1
<1>4. m \in Monitors /\ m.run = monitors[k].run /\ m.counts = monitors[k].counts
  BY <1>2 DEF Monitors
<1> HIDE DEF m
<1> QED BY <1>2, <1>3, <1>4, MonitorIInv

\* A relay folds an event into the slot's status and process group cell.
LEMMA RelayIInv == ASSUME IInv, NEW r \in RunIds, Relay(r) PROVE IInv'
<1> DEFINE e == Head(channel[r])
           next == Observe(tracker[r], e)
           t == Tail(channel[r])
<1>1. /\ Types /\ RunAt /\ (\A q \in RunIds : RelayAt(q)) /\ (\A j \in Procs : MonitorAt(j))
  BY DEF IInv
<1>2. /\ relay[r] = "running" /\ channel[r] # <<>>
      /\ pgid' = Published(e) /\ tracker' = [tracker EXCEPT ![r] = next]
      /\ status' = IF next = tracker[r] THEN status ELSE next
      /\ channel' = [channel EXCEPT ![r] = t]
      /\ UNCHANGED <<proc, run, state, sent, monitors, relay>>
  BY DEF Relay
<1>3. /\ channel[r] \in Seq(Emitted) /\ e \in Emitted /\ t \in Seq(Emitted)
      /\ tracker[r] \in Statuses
  <2>1. channel[r] \in Seq(Emitted) /\ tracker[r] \in Statuses
    BY <1>1 DEF Types
  <2> QED BY <2>1, <1>2
<1>4. next \in Statuses /\ next.state = IF e.kind \in {"state"} THEN Says(e) ELSE tracker[r].state
  BY <1>3, ObserveFacts
<1>5. pgid' = IF e.kind \in Group THEN Says(e) ELSE pgid
  BY <1>2, <1>3, PublishedFacts
<1>6. \A K : /\ Silent(channel[r], K) => e.kind \notin K /\ Silent(t, K)
             /\ \A old, new : Foretells(channel[r], K, old, new) =>
                  Foretells(t, K, IF e.kind \in K THEN Says(e) ELSE old, new)
  BY <1>2, <1>3, TailForetells
<1> HIDE DEF e, next, t
<1>7. /\ channel' \in [RunIds -> Seq(Emitted)] /\ tracker' \in [RunIds -> Statuses]
      /\ channel'[r] = t /\ tracker'[r] = next
      /\ \A q \in RunIds : q # r => channel'[q] = channel[q] /\ tracker'[q] = tracker[q]
  BY <1>1, <1>2, <1>3, <1>4 DEF Types
<1>8. pgid' \in 0..ProcBound /\ status' \in Statuses
  <2>1. e.kind \in Group => Says(e) \in 0..ProcBound
    BY <1>3, BoundsAssumption DEF Emitted, Group, Says
  <2> QED BY <2>1, <1>1, <1>2, <1>4, <1>5 DEF Types
<1>9. Types'
  BY <1>1, <1>2, <1>7, <1>8 DEF Types
<1>10. \A j \in Procs : MonitorAt(j)'
  BY <1>1, <1>2 DEF MonitorAt
<1>11. /\ run \in RunIds /\ run \in Nat /\ r \in Nat /\ r <= run /\ run >= 1 /\ r >= 1
  BY <1>1, <1>2, BoundsAssumption DEF Types, RelayAt, RunIds
<1>12. ASSUME NEW q \in RunIds
       PROVE  RelayAt(q)'
  <2>1. RelayAt(q)
    BY <1>1
  <2>2. CASE q = r
    <3>1. r < run => Silent(t, Group)
      BY <2>1, <2>2, <1>6 DEF RelayAt
    <3> QED BY <2>2, <3>1, <1>2, <1>7, <1>11 DEF RelayAt
  <2>3. CASE q # r
    BY <2>1, <2>3, <1>2, <1>7 DEF RelayAt, Over
  <2> QED BY <2>2, <2>3
<1>13. ASSUME r < run \/ sent
       PROVE  e.kind \notin Group /\ Silent(t, Group) /\ pgid' = pgid
  <2>1. Silent(channel[r], Group)
    BY <1>1, <1>11, <1>13 DEF RelayAt, RunAt
  <2> QED BY <2>1, <1>5, <1>6
<1>14. RunAt'
  <2>1. UNCHANGED <<state, proc, run, sent>> /\ LiveGroup' = LiveGroup /\ (Over' <=> Over)
    BY <1>2 DEF LiveGroup, Over
  <2>2. sent => pgid' = 0 /\ Silent(channel'[run], Group) /\ Over
    BY <1>1, <1>7, <1>11, <1>13 DEF RunAt
  <2>3. /\ Foretells(channel'[run], {"state"}, tracker'[run].state, state)
        /\ Foretells(channel'[run], Group, pgid', LiveGroup)
    <3>1. /\ Foretells(channel[run], {"state"}, tracker[run].state, state)
          /\ Foretells(channel[run], Group, pgid, LiveGroup)
      BY <1>1 DEF RunAt
    <3>2. CASE r = run
      <4>1. Foretells(t, {"state"}, next.state, state)
        BY <3>1, <3>2, <1>4, <1>6
      <4>2. Foretells(t, Group, pgid', LiveGroup)
        BY <3>1, <3>2, <1>5, <1>6
      <4> QED BY <3>2, <4>1, <4>2, <1>7
    <3>3. CASE r # run
      <4>1. r < run
        BY <3>3, <1>11
      <4> QED BY <3>1, <3>3, <4>1, <1>7, <1>11, <1>13
    <3> QED BY <3>2, <3>3
  <2>4. \E q \in 1..run : status' = tracker'[q]
    <3>1. CASE next = tracker[r]
      <4>1. PICK q \in 1..run : status = tracker[q]
        BY <1>1 DEF RunAt
      <4>2. q \in RunIds
        BY <1>11, BoundsAssumption DEF RunIds
      <4> QED BY <3>1, <4>1, <4>2, <1>2, <1>7
    <3>2. CASE next # tracker[r]
      BY <3>2, <1>2, <1>7, <1>11
    <3> QED BY <3>1, <3>2
  <2> QED BY <2>1, <2>2, <2>3, <2>4 DEF RunAt
<1> QED BY <1>9, <1>10, <1>12, <1>14 DEF IInv

\* A relay ends once its run and the monitors of its run are over.
LEMMA RelayEndsIInv == ASSUME IInv, NEW r \in RunIds, RelayEnds(r) PROVE IInv'
<1>1. /\ Types /\ RunAt /\ (\A q \in RunIds : RelayAt(q)) /\ (\A j \in Procs : MonitorAt(j))
  BY DEF IInv
<1>2. /\ relay[r] = "running" /\ channel[r] = <<>> /\ (r < run \/ Over)
      /\ \A k \in Procs : monitors[k].run = r => monitors[k].at = "done"
      /\ relay' = [relay EXCEPT ![r] = "ended"]
      /\ UNCHANGED <<proc, run, state, sent, monitors, channel, tracker, status, pgid>>
  BY DEF RelayEnds
<1>3. /\ relay' \in [RunIds -> {"none", "running", "ended"}] /\ relay'[r] = "ended"
      /\ \A q \in RunIds : q # r => relay'[q] = relay[q]
  BY <1>1, <1>2 DEF Types
<1>4. Types'
  BY <1>1, <1>2, <1>3 DEF Types
<1>5. run \in Nat /\ r \in Nat
  BY <1>1, BoundsAssumption DEF Types, RunIds
<1>6. ASSUME NEW q \in RunIds
      PROVE  RelayAt(q)'
  <2>1. CASE q = r
    BY <2>1, <1>1, <1>2, <1>3, <1>5 DEF RelayAt, Over
  <2>2. CASE q # r
    BY <2>2, <1>1, <1>2, <1>3 DEF RelayAt, Over
  <2> QED BY <2>1, <2>2
<1>7. (\A j \in Procs : MonitorAt(j)') /\ RunAt'
  BY <1>1, <1>2 DEF MonitorAt, RunAt, Over, LiveGroup
<1> QED BY <1>4, <1>6, <1>7 DEF IInv

\* Every step keeps the invariant.
LEMMA NextIInv == IInv /\ [Next]_vars => IInv'
<1> SUFFICES ASSUME IInv, [Next]_vars PROVE IInv'
  OBVIOUS
<1>1. CASE Launch
  BY <1>1, LaunchIInv
<1>2. CASE BeginStop
  BY <1>2, BeginStopIInv
<1>3. CASE Stopped
  BY <1>3, StoppedIInv
<1>4. CASE Report
  BY <1>4, ReportIInv
<1>5. CASE Respawn
  BY <1>5, RespawnIInv
<1>6. ASSUME NEW reason \in Reasons \cup {"unhealthy"},
             NEW next \in {"Backoff", "Exited", "Failed"}, Exits(reason, next)
      PROVE  IInv'
  <2>1. reason \in ExitReasons
    BY ReasonsAssumption DEF ExitReasons
  <2> QED BY <1>6, <2>1, ExitsIInv
<1>7. ASSUME NEW k \in Procs, Monitor(k)
      PROVE  IInv'
  <2>1. CASE Tick(k) \/ Leave(k)
    BY <2>1, TickIInv
  <2>2. CASE ProbePasses(k) \/ ProbeFails(k) \/ ProbeFailsEarly(k)
    BY <2>2, JudgedIInv DEF ProbePasses, ProbeFails, ProbeFailsEarly
  <2> QED BY <1>7, <2>1, <2>2 DEF Monitor
<1>8. ASSUME NEW r \in RunIds, Relay(r) \/ RelayEnds(r)
      PROVE  IInv'
  BY <1>8, RelayIInv, RelayEndsIInv
<1>9. CASE UNCHANGED vars
  <2>1. UNCHANGED <<proc, run, state, sent, monitors, channel, relay, tracker, status, pgid>>
    BY <1>9 DEF vars
  <2> QED BY <2>1 DEF IInv, Types, MonitorAt, RelayAt, RunAt, Over, LiveGroup
<1> QED BY <1>1, <1>2, <1>3, <1>4, <1>5, <1>6, <1>7, <1>8, <1>9 DEF Next, Runner

\* The invariant holds throughout.
LEMMA Inductive == Spec => []IInv
BY InitIInv, NextIInv, PTL DEF Spec
-----------------------------------------------------------------------------
(* The theorems.                                                            *)

\* The variables keep their types.
THEOREM TypeCorrect == Spec => []TypeOK
<1>1. IInv => TypeOK
  BY DEF IInv, Types, TypeOK, Monitors, Counts
<1> QED BY <1>1, Inductive, PTL

\* ReadinessTracker, the relay and the report together: when nothing is left to
\* relay, the slot's status and its process group cell tell the truth, whatever
\* probes and relays of earlier processes and runs are still at work.
THEOREM QuietSlotIsTruthful == Spec => []QuietMeansTruthful
<1>1. IInv => QuietMeansTruthful
  <2> SUFFICES ASSUME IInv, channel[run] = <<>>
               PROVE  /\ status.state = state \/ \E r \in RunIds : r < run /\ status = tracker[r]
                      /\ pgid = LiveGroup
    BY DEF QuietMeansTruthful, LiveGroup
  <2>1. RunAt /\ run \in RunIds /\ RunIds = 1..RunBound /\ RunBound \in Nat
    BY BoundsAssumption DEF IInv, Types, RunIds
  <2>2. \A K, old, new : Foretells(<<>>, K, old, new) => old = new
    BY DEF Foretells, Tells
  <2>3. tracker[run].state = state /\ pgid = LiveGroup
    BY <2>1, <2>2 DEF RunAt
  <2>4. PICK r \in 1..run : status = tracker[r]
    BY <2>1 DEF RunAt
  <2>5. r \in RunIds /\ (r = run \/ r < run)
    BY <2>1
  <2> QED BY <2>3, <2>4, <2>5
<1> QED BY <1>1, Inductive, PTL

\* HealthMonitor::run: the counter stops at a ceiling, and the budget is spent all
\* the same, for every budget and every ceiling.
THEOREM BudgetIsAlwaysSpent == Spec => []BudgetIsNeverSwallowed
<1>1. IInv => BudgetIsNeverSwallowed
  BY DEF IInv, MonitorAt, CountsAt, BudgetIsNeverSwallowed
<1> QED BY <1>1, Inductive, PTL
=============================================================================
