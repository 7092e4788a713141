-------------------------- MODULE MCRestartTracker --------------------------
EXTENDS RestartTracker

\* Every policy, delays up to two units, ceilings up to the widest the factor
\* can reach, and budgets that are unlimited, tight and beyond the backoff cap.
MCSettings ==
  {s \in [policy : Policies, delay : 1..2, maxDelay : 1..12, maxRestarts : {0, 1, 2, 6}] :
     s.delay <= s.maxDelay /\ s.maxDelay <= s.delay * FactorTop}
=============================================================================
