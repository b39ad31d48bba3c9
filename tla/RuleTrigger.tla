----------------------------- MODULE RuleTrigger -----------------------------
(***************************************************************************)
(* The two triggers of one rule over time (proto/baserule.cpp), as the     *)
(* watcher's check_triggers drives them: once per pass, with the rates and *)
(* the dst_top of that pass.  The passes are at least a second apart; a    *)
(* pass that is slow, or that skips the check after a reload, makes the    *)
(* time between two checks longer.  checks, calm, hot and alarms are       *)
(* history variables, read by the properties only.                         *)
(***************************************************************************)
EXTENDS RulesList

CONSTANTS
  K,          \* the key of the rule
  Rates,      \* rates a pass may measure
  StartTime,  \* std::time when the rule is added
  EndTime,    \* bound: no check is later
  MaxGap      \* bound: seconds between two checks

ASSUME KAssumption == K \in Key
ASSUME RatesAssumption == Rates \subseteq 0 .. Word - 1
ASSUME ClockAssumption == StartTime \in Nat /\ EndTime \in Nat /\ MaxGap \in Nat

VARIABLES
  rule,    \* the rule, in main_collect
  now,     \* std::time at the next check
  checks,  \* times of the checks so far
  calm,    \* <<m, t>>: at t the rate of m was within the threshold
  hot,     \* <<m, t>>: at t it was above, and an address was known
  alarms   \* <<m, t>>: at t the trigger of m fired

vars == <<rule, now, checks, calm, hot, alarms>>

Event == Metric \X Nat

TypeOK ==
  /\ rule \in Rule /\ rule.key = K
  /\ now \in Nat
  /\ checks \subseteq Nat
  /\ calm \subseteq Event /\ hot \subseteq Event /\ alarms \subseteq Event

Init ==
  /\ rule = NewRule(K)
  /\ now = StartTime
  /\ checks = {} /\ calm = {} /\ hot = {} /\ alarms = {}

\* The trigger that fires in a check, if any: pps comes first.
Firing(r) == IF Fires(r, "pps", now) THEN {"pps"}
             ELSE IF Fires(r, "bps", now) THEN {"bps"} ELSE {}

\* Faulty variant: the stamps of the check before are kept when it fires.
KeepStamps(r) ==
  /\ now <= EndTime
  /\ rule' = [(IF IsTriggered(r, now) THEN r ELSE AfterCheck(r, now)) EXCEPT !.top = {}]
  /\ checks' = checks \cup {now}
  /\ calm' = calm \cup {<<m, now>> : m \in {x \in Metric : ~Exceeds(r, x)}}
  /\ hot' = hot \cup {<<m, now>> : m \in {x \in Metric : Exceeds(r, x) /\ r.top # {}}}
  /\ alarms' = alarms \cup {<<m, now>> : m \in Firing(r)}
  /\ \E gap \in 1 .. MaxGap : now' = now + gap

\* A check: r is the rule with the rates and addresses of this pass.
Check(r) ==
  /\ now <= EndTime
  /\ rule' = [AfterCheck(r, now) EXCEPT !.top = {}]
  /\ checks' = checks \cup {now}
  /\ calm' = calm \cup {<<m, now>> : m \in {x \in Metric : ~Exceeds(r, x)}}
  /\ hot' = hot \cup {<<m, now>> : m \in {x \in Metric : Exceeds(r, x) /\ r.top # {}}}
  /\ alarms' = alarms \cup {<<m, now>> : m \in Firing(r)}
  /\ \E gap \in 1 .. MaxGap : now' = now + gap

\* The rates and the addresses of a pass are independent: rates are left from
\* an earlier pass when calc_delta finds lists of different sizes, and
\* addresses stay when a check was skipped.
Next ==
  \E rates \in [Metric -> Rates], top \in SUBSET Dst :
    Check([rule EXCEPT !.rate = rates, !.top = top])

Spec == Init /\ [][Next]_vars

-----------------------------------------------------------------------------
(* Properties.                                                             *)

PeriodOf(m) == Period[K][m]
Set(m) == Trigger[K][m] > 0

\* baserule.cpp:205 "the trigger fires once in a period": two alarms of the
\* same trigger are more than a period apart.
OneAlarmPerPeriod ==
  \A x, y \in alarms : x[1] = y[1] /\ x[2] < y[2] => y[2] - x[2] > PeriodOf(x[1])

\* The bps trigger is not looked at in a check where the pps trigger fires.
Masked(m, t) == m = "bps" /\ <<"pps", t>> \in alarms

\* No alarm of a trigger when a check within the period before it found the
\* rate within the threshold, unless that check did not look at it.
AlarmSustained ==
  \A x \in calm, y \in alarms : x[1] = y[1] /\ x[2] <= y[2] =>
    y[2] - x[2] > PeriodOf(x[1]) \/ Masked(x[1], x[2])

\* When more than a period after a check the rate has been above the threshold
\* in every check since, with an address known, an alarm was raised.
AlarmNotMissed ==
  \A m \in Metric : \A s, t \in checks :
    /\ Set(m)
    /\ t - s > PeriodOf(m)
    /\ \A c \in checks : s < c /\ c <= t => <<m, c>> \in hot
    => \/ \E u \in checks : s <= u /\ u <= t /\ <<m, u>> \in alarms
       \/ Masked(m, t)
=============================================================================
