--------------------------- MODULE HealthMonitor ---------------------------
(***************************************************************************)
(* The counting half of HealthMonitor::run in runtime/health.rs: what one   *)
(* probe result makes of a monitor, and what the monitor has to say then.   *)
(* Pure operators on a monitor's record:                                    *)
(*   ready     the last transition it announced was Healthy;                *)
(*   failed    consecutive failures, up to a ceiling;                       *)
(*   grace     the start period may not be over yet;                        *)
(*   streak    history: failures that counted since the last success,       *)
(*             beyond any ceiling of the code;                              *)
(*   said      history: the last transition announced.                      *)
(* Which of the failures in between are published (should_report_failure)   *)
(* reaches no dependent and is left out.                                    *)
(***************************************************************************)
EXTENDS Naturals

CONSTANTS
  Retries,       \* consecutive failures that make a service unhealthy
  FailureTop,    \* MAX_CONSECUTIVE_FAILURES
  StreakBound    \* failures in a row explored

ASSUME CountsAssumption ==
  /\ Retries \in Nat \ {0} /\ FailureTop \in Nat \ {0}
  /\ StreakBound \in Nat

NewCounts == [ready |-> FALSE, failed |-> 0, grace |-> TRUE,
              streak |-> 0, said |-> "none"]

\* Mutant: the ceiling ignores how large `retries' is.
CeilingFixed == FailureTop

\* Never below `retries', or the budget could not be spent.
Ceiling == IF FailureTop > Retries THEN FailureTop ELSE Retries

\* A probe passed.
Passed(m) == [m EXCEPT !.failed = 0, !.streak = 0,
                       !.ready = TRUE, !.said = "healthy"]

\* A failure that counts: the start period is over.
Failed(m) ==
  LET failed == IF m.failed + 1 < Ceiling THEN m.failed + 1 ELSE Ceiling
      spent  == failed = Retries
  IN  [m EXCEPT !.failed = failed, !.grace = FALSE, !.streak = @ + 1,
                !.ready = @ /\ ~spent,
                !.said = IF spent THEN "unhealthy" ELSE @]

\* Whether the step from m to n announces a transition, and which.
News(m, n) ==
  CASE n.ready /\ ~m.ready -> {"healthy"}
    [] n.failed = Retries /\ n.streak > m.streak -> {"unhealthy"}
    [] OTHER -> {}
=============================================================================
