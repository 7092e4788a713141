--------------------------- MODULE RestartTracker ---------------------------
(***************************************************************************)
(* RestartTracker of servicrab-core/src/lifecycle.rs on its own: fed one    *)
(* process outcome after another, it answers restart (with a delay), stop   *)
(* or fail.  Durations are natural numbers; the machine widths of the       *)
(* backoff arithmetic (u64 shift, u32 factor, Duration) are constants.      *)
(***************************************************************************)
EXTENDS Lifecycle, Integers

CONSTANTS
  ShiftBits,    \* width of the shifted word: 64 in the code
  FactorBits,   \* width of the factor Duration::checked_mul takes: 32
  DurationMax,  \* the longest representable Duration
  AttemptTop,   \* u32::MAX for the attempt counter
  FailureBound, \* restarts explored between two stable runs
  Settings      \* the validated [policy, delay, maxDelay, maxRestarts] records

\* A one shifted left by n, before it meets a width.
Pow2[n \in Nat] == IF n = 0 THEN 1 ELSE 2 * Pow2[n - 1]

FactorTop == Pow2[FactorBits] - 1

\* What validation.rs guarantees of a setting: restart_delay is at least 100ms
\* and at most restart_max_delay, which is at most 24h, far below the largest
\* product the factor can reach; and max_restarts is as wide as the counter.
ASSUME SettingsAssumption ==
  /\ FactorBits \in Nat \ {0} /\ ShiftBits \in Nat /\ FactorBits <= ShiftBits
  /\ DurationMax \in Nat /\ FailureBound \in Nat /\ AttemptTop \in Nat \ {0}
  /\ \A s \in Settings :
       /\ s.policy \in Policies /\ s.maxRestarts \in 0..AttemptTop
       /\ s.delay \in Nat \ {0} /\ s.maxDelay \in s.delay..DurationMax
       /\ s.maxDelay <= s.delay * FactorTop

VARIABLES
  settings,  \* the tracker's configuration
  attempts,  \* restarts performed since the last stable run
  decision,  \* the last RestartDecision: its kind and its delay
  failures   \* history: restarts granted since the last stable run

trackerVars == <<settings, attempts, decision, failures>>

\* Mutant of Factor: a cast that drops the high bits.
FactorTruncates(attempt) == Pow2[attempt] % (FactorTop + 1)

\* 1u64.checked_shl(attempt), saturated, then narrowed to u32.
Factor(attempt) ==
  IF attempt >= ShiftBits \/ Pow2[attempt] > FactorTop THEN FactorTop ELSE Pow2[attempt]

\* checked_mul falls back to the ceiling, which also caps the product.
BackoffForAttempt(s, attempt) ==
  LET product == s.delay * Factor(attempt)
  IN  IF product > DurationMax \/ product > s.maxDelay THEN s.maxDelay ELSE product

TrackerInit ==
  /\ settings \in Settings
  /\ attempts = 0
  /\ decision = [kind |-> "none", delay |-> 0]
  /\ failures = 0

\* decide() without a user's shutdown: the runner passes none.
Decide(reason, stable) ==
  LET fresh == AttemptsAfter(attempts, stable)
      kind  == Verdict(settings.policy, settings.maxRestarts, fresh, reason)
  IN  /\ decision.kind \in {"none", "restart"} /\ failures < FailureBound
      /\ decision' = [kind  |-> kind,
                      delay |-> IF kind = "restart"
                                THEN BackoffForAttempt(settings, fresh) ELSE 0]
      /\ attempts' = IF kind = "restart" THEN SaturatingInc(fresh, AttemptTop) ELSE fresh
      /\ failures' = (IF stable THEN 0 ELSE failures) + (IF kind = "restart" THEN 1 ELSE 0)
      /\ UNCHANGED settings

\* A spawn failure reports an uptime of zero, and stable_after is at least 1s.
TrackerNext == \E reason \in ExitReasons, stable \in BOOLEAN :
          /\ reason \in {"spawn_retryable", "spawn_fatal"} => ~stable
          /\ Decide(reason, stable)

TrackerSpec == TrackerInit /\ [][TrackerNext]_trackerVars

-----------------------------------------------------------------------------
TrackerTypeOK ==
  /\ settings \in Settings
  /\ attempts \in 0..AttemptTop
  /\ decision.kind \in {"none", "restart", "stop", "fail"}
  /\ decision.delay \in 0..DurationMax

\* backoff_for_attempt documents min(restart_delay * 2^attempt,
\* restart_max_delay): the saturating shift, the narrowing to u32 and the
\* checked multiplication must never show in a delay that was waited.
BackoffIsTheDocumentedMinimum ==
  decision.kind = "restart" =>
    LET exact == settings.delay * Pow2[attempts - 1]
    IN  attempts < AttemptTop =>
          decision.delay = IF exact < settings.maxDelay THEN exact ELSE settings.maxDelay

\* max_restarts bounds the restarts granted between two stable runs, and giving
\* up means the whole budget was spent, never less.
BudgetIsExact ==
  /\ settings.maxRestarts # 0 => failures <= settings.maxRestarts
  /\ decision.kind = "fail" => failures = settings.maxRestarts

=============================================================================
