----------------------------- MODULE RiskClock ------------------------------
(***************************************************************************)
(* The risk engine called by threads that share one clock: now_ns never    *)
(* goes back between two calls of evaluate.  granted holds the times of    *)
(* the approvals since the limits were last installed.                     *)
(***************************************************************************)
EXTENDS RiskEngine, Sequences

CONSTANT MaxTime   \* bound on the clock

VARIABLES clock, granted

clockVars == <<riskVars, clock, granted>>

ClockInit ==
  /\ RiskInit
  /\ clock = 1
  /\ granted = << >>

Tick ==
  /\ clock < MaxTime
  /\ clock' = clock + 1
  /\ UNCHANGED <<riskVars, granted>>

EvaluateNow(i) ==
  /\ Evaluate(i, clock)
  /\ granted' = IF Verdict(i, clock) = "Approved" THEN Append(granted, clock) ELSE granted
  /\ UNCHANGED clock

InstallLimits(s) ==
  /\ SetLimits(s)
  /\ granted' = << >>
  /\ UNCHANGED clock

ClockNext ==
  \/ Tick
  \/ \E i \in Intents : EvaluateNow(i)
  \/ \E s \in Snapshots : InstallLimits(s)
  \/ \E h \in Healths : SetHealth(h) /\ UNCHANGED <<clock, granted>>

ClockSpec == ClockInit /\ [][ClockNext]_clockVars

-----------------------------------------------------------------------------
\* The window is reset, not slid, so more than max_orders_per_second orders can be
\* approved within one second; never twice as many.  Under one snapshot, of 2 * max
\* approvals in a row the first and the last are a whole Second apart: a window
\* starts with an approval, which lies before any second that reaches the next.
RateBurst ==
  \A n, k \in DOMAIN granted :
    k = n + 2 * limits.maxRate - 1 => granted[k] - granted[n] >= Second

=============================================================================
