-------------------------- MODULE RuleTriggerProofs --------------------------
(***************************************************************************)
(* The properties of RuleTrigger for every rule, threshold, period and     *)
(* clock.  Everything a check does to the stamps is collected in one       *)
(* lemma, CheckFacts; the rest of the proof knows nothing of the rule.     *)
(***************************************************************************)
EXTENDS RuleTrigger, RulesListProofs

\* What a check of r does to its stamps, and which trigger fires in it.
LEMMA CheckFacts ==
  ASSUME NEW r \in Rule, r.key = K, now \in Nat,
         NEW new, new = [AfterCheck(r, now) EXCEPT !.top = {}]
  PROVE  /\ new \in Rule /\ new.key = K
         /\ Firing(r) \subseteq Metric
         /\ \A m \in Metric :
              /\ new.last[m] = r.last[m] \/ new.last[m] = now
              /\ m \in Firing(r) => /\ Set(m) /\ Exceeds(r, m) /\ r.top # {}
                                     /\ now - r.last[m] > PeriodOf(m)
                                     /\ new.last[m] = now
              /\ Set(m) /\ ~Exceeds(r, m) =>
                   new.last[m] = now \/ (m = "bps" /\ "pps" \in Firing(r))
              /\ Set(m) /\ Exceeds(r, m) /\ r.top # {} =>
                   \/ m \in Firing(r)
                   \/ m = "bps" /\ "pps" \in Firing(r)
                   \/ ~(now - r.last[m] > PeriodOf(m)) /\ new.last[m] = r.last[m]
              /\ Exceeds(r, m) /\ r.top # {} /\ m \notin Firing(r) =>
                   new.last[m] = r.last[m]
<1> DEFINE p == Restamp(r, "pps", now)
           b == Restamp(p, "bps", now)
<1>1. "pps" \in Metric /\ "bps" \in Metric /\ "pps" # "bps" /\ Metric = {"pps", "bps"}
  BY DEF Metric
<1>2. /\ p \in Rule /\ p.key = K /\ p.rate = r.rate /\ p.top = r.top
      /\ p.last["bps"] = r.last["bps"]
      /\ p.last["pps"] = IF Set("pps") /\ (Exceeds(r, "pps") => PeriodOver(r, "pps", now))
                         THEN now ELSE r.last["pps"]
  BY <1>1, RestampFacts DEF Set
<1>3. /\ b \in Rule /\ b.key = K
      /\ b.last["pps"] = p.last["pps"]
      /\ b.last["bps"] = IF Set("bps") /\ (Exceeds(p, "bps") => PeriodOver(p, "bps", now))
                         THEN now ELSE p.last["bps"]
  BY <1>1, <1>2, RestampFacts DEF Set
<1>4. /\ Exceeds(p, "bps") <=> Exceeds(r, "bps")
      /\ PeriodOver(p, "bps", now) <=> PeriodOver(r, "bps", now)
  BY <1>2 DEF Exceeds, PeriodOver
<1>5. \A m \in Metric : PeriodOver(r, m, now) <=> now - r.last[m] > PeriodOf(m)
  BY DEF PeriodOver, PeriodOf
<1>6. \A m \in Metric :
        Fires(r, m, now) <=> Set(m) /\ Exceeds(r, m) /\ PeriodOver(r, m, now) /\ r.top # {}
  BY DEF Fires, Set
<1> DEFINE after == AfterCheck(r, now)
<1>7. after = IF Fires(r, "pps", now) THEN p ELSE b
  BY DEF AfterCheck
<1>8. after \in Rule /\ after.key = K
  BY <1>2, <1>3, <1>7
<1> HIDE DEF p, b, after
<1>9. new \in Rule /\ new.key = K /\ new.last = after.last
  BY <1>8 DEF Rule, after
<1>10. Firing(r) = IF Fires(r, "pps", now) THEN {"pps"}
                   ELSE IF Fires(r, "bps", now) THEN {"bps"} ELSE {}
  BY DEF Firing
<1>11. CASE Fires(r, "pps", now)
  <2>1. Firing(r) = {"pps"} /\ new.last = p.last
    BY <1>7, <1>9, <1>10, <1>11
  <2> QED BY <2>1, <1>1, <1>2, <1>5, <1>6, <1>9, <1>11
<1>12. CASE ~Fires(r, "pps", now)
  <2>1. /\ Firing(r) = IF Fires(r, "bps", now) THEN {"bps"} ELSE {}
        /\ new.last = b.last
    BY <1>7, <1>9, <1>10, <1>12
  <2> QED BY <2>1, <1>1, <1>2, <1>3, <1>4, <1>5, <1>6, <1>9, <1>12
<1> QED BY <1>11, <1>12

-----------------------------------------------------------------------------
\* The stamps against the history: a stamp is no older than the alarms and
\* the calm checks of its trigger, and no newer than the last check that
\* could move it without an alarm.
StampsBoundAlarms ==
  \A x \in alarms : Set(x[1]) /\ x[2] <= rule.last[x[1]]

StampsBoundCalm ==
  \A x \in calm : Set(x[1]) => x[2] <= rule.last[x[1]] \/ Masked(x[1], x[2])

StampsStayWhileHot ==
  \A m \in Metric : \A s \in checks :
    Set(m) /\ (\A c \in checks : s < c => <<m, c>> \in hot)
      => rule.last[m] <= s \/ \E u \in checks : s <= u /\ <<m, u>> \in alarms

PastOnly ==
  /\ \A c \in checks : c < now
  /\ \A x \in calm \cup hot \cup alarms : x[2] \in checks
  /\ \A m \in Metric : rule.last[m] <= now

IInv ==
  /\ TypeOK
  /\ PastOnly
  /\ StampsBoundAlarms
  /\ StampsBoundCalm
  /\ StampsStayWhileHot
  /\ OneAlarmPerPeriod
  /\ AlarmSustained
  /\ AlarmNotMissed

LEMMA InitInv == Init => IInv
<1> SUFFICES ASSUME Init PROVE IInv
  OBVIOUS
<1> USE KAssumption, ClockAssumption DEF Init
<1>1. NewRule(K) \in Rule /\ NewRule(K).key = K /\ \A m \in Metric : NewRule(K).last[m] = 0
  BY WordAssumption DEF NewRule, Rule, Counter, Zero
<1>2. TypeOK
  BY <1>1 DEF TypeOK, Event
<1>3. PastOnly
  BY <1>1 DEF PastOnly
<1>4. StampsBoundAlarms /\ StampsBoundCalm /\ StampsStayWhileHot
  BY DEF StampsBoundAlarms, StampsBoundCalm, StampsStayWhileHot
<1>5. OneAlarmPerPeriod /\ AlarmSustained /\ AlarmNotMissed
  BY DEF OneAlarmPerPeriod, AlarmSustained, AlarmNotMissed
<1> QED BY <1>2, <1>3, <1>4, <1>5 DEF IInv

\* A check, reduced to what it does to the stamps and to the history.
LEMMA StepFacts ==
  ASSUME TypeOK, Next
  PROVE  \E r \in Rule :
           /\ r.key = K /\ r.last = rule.last
           /\ now' \in Nat /\ now < now'
           /\ checks' = checks \cup {now}
           /\ calm' = calm \cup {<<m, now>> : m \in {x \in Metric : ~Exceeds(r, x)}}
           /\ hot' = hot \cup {<<m, now>> : m \in {x \in Metric : Exceeds(r, x) /\ r.top # {}}}
           /\ alarms' = alarms \cup {<<m, now>> : m \in Firing(r)}
           /\ rule' = [AfterCheck(r, now) EXCEPT !.top = {}]
<1>1. PICK rates \in [Metric -> Rates], top \in SUBSET Dst :
        Check([rule EXCEPT !.rate = rates, !.top = top])
  BY DEF Next
<1> DEFINE r == [rule EXCEPT !.rate = rates, !.top = top]
<1>2. r \in Rule /\ r.key = K /\ r.last = rule.last
  BY RatesAssumption DEF TypeOK, Rule, Counter
<1>3. now' \in Nat /\ now < now'
  <2>1. PICK gap \in 1 .. MaxGap : now' = now + gap
    BY <1>1 DEF Check
  <2> QED BY <2>1, ClockAssumption DEF TypeOK
<1> HIDE DEF r
<1>4. Check(r)
  BY <1>1 DEF r
<1> QED BY <1>2, <1>3, <1>4 DEF Check

LEMMA NextInv == IInv /\ [Next]_vars => IInv'
<1>1. CASE UNCHANGED vars
  BY <1>1 DEF IInv, vars, TypeOK, PastOnly, StampsBoundAlarms, StampsBoundCalm,
     StampsStayWhileHot, OneAlarmPerPeriod, AlarmSustained, AlarmNotMissed, Masked, Set
<1>2. ASSUME IInv, Next PROVE IInv'
  <2> USE <1>2 DEF IInv
  <2>1. PICK r \in Rule :
           /\ r.key = K /\ r.last = rule.last
           /\ now' \in Nat /\ now < now'
           /\ checks' = checks \cup {now}
           /\ calm' = calm \cup {<<m, now>> : m \in {x \in Metric : ~Exceeds(r, x)}}
           /\ hot' = hot \cup {<<m, now>> : m \in {x \in Metric : Exceeds(r, x) /\ r.top # {}}}
           /\ alarms' = alarms \cup {<<m, now>> : m \in Firing(r)}
           /\ rule' = [AfterCheck(r, now) EXCEPT !.top = {}]
    BY StepFacts
  <2>2. now \in Nat /\ \A m \in Metric : rule.last[m] \in Nat /\ rule'.last[m] \in Nat
    <3>1. rule' \in Rule
      BY <2>1, CheckFacts DEF TypeOK
    <3> QED BY <3>1 DEF TypeOK, Rule
  <2>3. rule' \in Rule /\ rule'.key = K /\ Firing(r) \subseteq Metric
    BY <2>1, CheckFacts DEF TypeOK
  <2>4. \A m \in Metric :
              /\ rule'.last[m] = rule.last[m] \/ rule'.last[m] = now
              /\ m \in Firing(r) => /\ Set(m) /\ Exceeds(r, m) /\ r.top # {}
                                     /\ now - rule.last[m] > PeriodOf(m)
                                     /\ rule'.last[m] = now
              /\ Set(m) /\ ~Exceeds(r, m) =>
                   rule'.last[m] = now \/ (m = "bps" /\ "pps" \in Firing(r))
              /\ Set(m) /\ Exceeds(r, m) /\ r.top # {} =>
                   \/ m \in Firing(r)
                   \/ m = "bps" /\ "pps" \in Firing(r)
                   \/ ~(now - rule.last[m] > PeriodOf(m)) /\ rule'.last[m] = rule.last[m]
              /\ Exceeds(r, m) /\ r.top # {} /\ m \notin Firing(r) =>
                   rule'.last[m] = rule.last[m]
    BY <2>1, <2>2, CheckFacts
  <2>5. TypeOK'
    <3>1. checks' \subseteq Nat /\ now' \in Nat
      BY <2>1, <2>2 DEF TypeOK
    <3>2. calm' \subseteq Event /\ hot' \subseteq Event /\ alarms' \subseteq Event
      BY <2>1, <2>2, <2>3 DEF TypeOK, Event
    <3> QED BY <2>3, <3>1, <3>2 DEF TypeOK
  <2>6. PastOnly'
    <3>1. \A c \in checks' : c < now'
      BY <2>1, <2>2 DEF PastOnly, TypeOK
    <3>2. \A x \in calm' \cup hot' \cup alarms' : x[2] \in checks'
      BY <2>1 DEF PastOnly
    <3>3. \A m \in Metric : rule'.last[m] <= now'
      BY <2>1, <2>2, <2>4 DEF PastOnly
    <3> QED BY <3>1, <3>2, <3>3 DEF PastOnly
  \* From here on rule, calm, hot and alarms change as <2>1 and <2>4 say.
  <2>7. \A x \in alarms \cup calm \cup hot : x[1] \in Metric /\ x[2] \in Nat /\ x[2] < now /\ x = <<x[1], x[2]>>
    BY DEF TypeOK, Event, PastOnly
  <2>8. \A x : x \in alarms' <=> x \in alarms \/ (\E m \in Firing(r) : x = <<m, now>>)
    BY <2>1
  <2>9. \A x : x \in calm' <=> x \in calm \/ (\E m \in Metric : ~Exceeds(r, m) /\ x = <<m, now>>)
    BY <2>1
  <2>10. \A m \in Metric, c \in Nat :
           <<m, c>> \in hot' <=> <<m, c>> \in hot \/ (c = now /\ Exceeds(r, m) /\ r.top # {})
    BY <2>1
  <2>11. \A m, t : Masked(m, t) => Masked(m, t)'
    <3>1. alarms \subseteq alarms'
      BY <2>1
    <3> QED BY <3>1 DEF Masked
  <2>12. "pps" \in Firing(r) => <<"pps", now>> \in alarms'
    BY <2>8
  <2>13. StampsBoundAlarms'
    <3> SUFFICES ASSUME NEW x \in alarms' PROVE Set(x[1])' /\ x[2] <= rule'.last[x[1]]
      BY DEF StampsBoundAlarms
    <3>1. CASE x \in alarms
      BY <3>1, <2>2, <2>4, <2>7 DEF StampsBoundAlarms, Set
    <3>2. CASE \E m \in Firing(r) : x = <<m, now>>
      BY <3>2, <2>2, <2>3, <2>4 DEF Set
    <3> QED BY <3>1, <3>2, <2>8
  <2>14. StampsBoundCalm'
    <3> SUFFICES ASSUME NEW x \in calm', Set(x[1])
                 PROVE x[2] <= rule'.last[x[1]] \/ Masked(x[1], x[2])'
      BY DEF StampsBoundCalm, Set
    <3>1. CASE x \in calm
      BY <3>1, <2>2, <2>4, <2>7, <2>11 DEF StampsBoundCalm
    <3>2. CASE \E m \in Metric : ~Exceeds(r, m) /\ x = <<m, now>>
      <4>1. PICK m \in Metric : ~Exceeds(r, m) /\ x[1] = m /\ x[2] = now
        BY <3>2
      <4>2. rule'.last[m] = now \/ (m = "bps" /\ <<"pps", now>> \in alarms')
        BY <4>1, <2>4, <2>12
      <4> QED BY <4>1, <4>2, <2>2 DEF Masked
    <3> QED BY <3>1, <3>2, <2>9
  <2>15. OneAlarmPerPeriod'
    <3> SUFFICES ASSUME NEW x \in alarms', NEW y \in alarms', x[1] = y[1], x[2] < y[2]
                 PROVE y[2] - x[2] > PeriodOf(x[1])
      BY DEF OneAlarmPerPeriod, PeriodOf
    <3>1. x \in alarms
      BY <2>2, <2>7, <2>8
    <3>2. CASE y \in alarms
      BY <3>1, <3>2 DEF OneAlarmPerPeriod
    <3>3. CASE \E m \in Firing(r) : y = <<m, now>>
      <4>1. PeriodOf(x[1]) \in Nat
        BY <2>7, <3>1, KAssumption, PeriodAssumption DEF PeriodOf
      <4> QED BY <3>1, <3>3, <4>1, <2>2, <2>3, <2>4, <2>7 DEF StampsBoundAlarms
    <3> QED BY <3>2, <3>3, <2>8
  <2>16. AlarmSustained'
    <3> SUFFICES ASSUME NEW x \in calm', NEW y \in alarms', x[1] = y[1], x[2] <= y[2]
                 PROVE y[2] - x[2] > PeriodOf(x[1]) \/ Masked(x[1], x[2])'
      BY DEF AlarmSustained, PeriodOf
    <3>1. CASE y \in alarms
      <4>1. x \in calm
        BY <3>1, <2>2, <2>7, <2>9
      <4> QED BY <3>1, <4>1, <2>11 DEF AlarmSustained
    <3>2. CASE \E m \in Firing(r) : y = <<m, now>>
      <4>1. x \in calm
        BY <3>2, <2>3, <2>4, <2>9
      <4>2. PeriodOf(x[1]) \in Nat
        BY <2>7, <4>1, KAssumption, PeriodAssumption DEF PeriodOf
      <4> QED BY <3>2, <4>1, <4>2, <2>2, <2>3, <2>4, <2>7, <2>11 DEF StampsBoundCalm
    <3> QED BY <3>1, <3>2, <2>8
  <2>17. ASSUME NEW m \in Metric, NEW s \in checks, Set(m),
                \A c \in checks' : s < c => <<m, c>> \in hot'
         PROVE  /\ Exceeds(r, m) /\ r.top # {}
                /\ rule.last[m] <= s \/ \E u \in checks : s <= u /\ <<m, u>> \in alarms
    <3>1. s \in Nat /\ s < now /\ now \in checks'
      BY <2>1 DEF PastOnly, TypeOK
    <3>2. <<m, now>> \notin hot
      BY <2>2, <2>7
    <3>3. Exceeds(r, m) /\ r.top # {}
      BY <2>2, <2>10, <2>17, <3>1, <3>2
    <3>4. \A c \in checks : c \in Nat /\ c # now
      <4>1. \A c \in checks : c < now
        BY DEF PastOnly
      <4>2. checks \subseteq Nat /\ now \in Nat
        BY DEF TypeOK
      <4> QED BY <4>1, <4>2
    <3>5. \A c \in checks : s < c => <<m, c>> \in hot
      BY <2>1, <2>10, <2>17, <3>4
    <3> QED BY <2>17, <3>3, <3>5 DEF StampsStayWhileHot
  <2>18. StampsStayWhileHot'
    <3> SUFFICES ASSUME NEW m \in Metric, NEW s \in checks', Set(m),
                        \A c \in checks' : s < c => <<m, c>> \in hot'
                 PROVE  rule'.last[m] <= s \/ \E u \in checks' : s <= u /\ <<m, u>> \in alarms'
      BY DEF StampsStayWhileHot, Set
    <3>1. CASE s = now
      BY <3>1, <2>2, <2>4 DEF PastOnly
    <3>2. CASE s \in checks
      <4>1. /\ Exceeds(r, m) /\ r.top # {}
            /\ rule.last[m] <= s \/ \E u \in checks : s <= u /\ <<m, u>> \in alarms
        BY <2>17, <3>2
      <4>2. s \in Nat /\ s <= now
        BY <3>2, <2>2 DEF PastOnly, TypeOK
      <4>3. CASE m \in Firing(r)
        BY <4>2, <4>3, <2>1, <2>8
      <4>4. CASE m \notin Firing(r)
        BY <4>1, <4>4, <2>1, <2>4, <2>8
      <4> QED BY <4>3, <4>4
    <3> QED BY <3>1, <3>2, <2>1
  <2>19. AlarmNotMissed'
    <3> SUFFICES ASSUME NEW m \in Metric, NEW s \in checks', NEW t \in checks', Set(m),
                        t - s > PeriodOf(m),
                        \A c \in checks' : s < c /\ c <= t => <<m, c>> \in hot'
                 PROVE  \/ \E u \in checks' : s <= u /\ u <= t /\ <<m, u>> \in alarms'
                        \/ Masked(m, t)'
      BY DEF AlarmNotMissed, Set, PeriodOf
    <3>1. PeriodOf(m) \in Nat
      BY KAssumption, PeriodAssumption DEF PeriodOf
    <3>2. \A c \in checks' : c \in Nat /\ c <= now /\ (c \in checks => c < now)
      BY <2>1, <2>2 DEF PastOnly, TypeOK
    <3>3. s \in checks /\ s < t
      BY <3>1, <3>2, <2>1, <2>2
    <3>4. CASE t \in checks
      <4>1. \A c \in checks : s < c /\ c <= t => <<m, c>> \in hot
        BY <3>2, <3>4, <2>1, <2>10
      <4>2. \/ \E u \in checks : s <= u /\ u <= t /\ <<m, u>> \in alarms
            \/ Masked(m, t)
        BY <3>3, <3>4, <4>1 DEF AlarmNotMissed
      <4> QED BY <4>2, <2>1, <2>8, <2>11
    <3>5. CASE t = now
      <4>1. \A c \in checks' : s < c => <<m, c>> \in hot'
        BY <3>2, <3>5
      <4>2. /\ Exceeds(r, m) /\ r.top # {}
            /\ rule.last[m] <= s \/ \E u \in checks : s <= u /\ <<m, u>> \in alarms
        BY <2>17, <3>3, <4>1
      <4>3. CASE \E u \in checks : s <= u /\ <<m, u>> \in alarms
        BY <4>3, <3>2, <3>5, <2>1, <2>8
      <4>4. CASE rule.last[m] <= s
        <5>1. now - rule.last[m] > PeriodOf(m)
          BY <4>4, <3>1, <3>2, <3>3, <3>5, <2>2
        <5>2. m \in Firing(r) \/ (m = "bps" /\ "pps" \in Firing(r))
          BY <5>1, <4>2, <2>4
        <5>3. CASE m \in Firing(r)
          BY <5>3, <3>2, <3>3, <3>5, <2>1, <2>8
        <5>4. CASE m = "bps" /\ "pps" \in Firing(r)
          BY <5>4, <3>5, <2>12 DEF Masked
        <5> QED BY <5>2, <5>3, <5>4
      <4> QED BY <4>2, <4>3, <4>4
    <3> QED BY <3>4, <3>5, <2>1
  <2> QED BY <2>5, <2>6, <2>13, <2>14, <2>15, <2>16, <2>18, <2>19
<1> QED BY <1>1, <1>2

\* The inductive invariant holds of every behaviour.
THEOREM InvHolds == Spec => []IInv
<1> QED BY InitInv, NextInv, PTL DEF Spec

\* baserule.cpp:198-237: a check leaves a rule with stamps, rates and counters
\* of their types, and every event at a time.
THEOREM TriggerTypes == Spec => []TypeOK
<1>1. IInv => TypeOK
  BY DEF IInv
<1> QED BY <1>1, InvHolds, PTL

\* baserule.cpp:203-205, 223-225: for every threshold, period and sequence of
\* rates, two alarms of one trigger are more than its period apart.
THEOREM TriggerRateLimit == Spec => []OneAlarmPerPeriod
<1>1. IInv => OneAlarmPerPeriod
  BY DEF IInv
<1> QED BY <1>1, InvHolds, PTL

\* baserule.cpp:212-215, 232-235: a check that finds the rate within the
\* threshold silences the trigger for a period, unless it was masked.
THEOREM TriggerSustained == Spec => []AlarmSustained
<1>1. IInv => AlarmSustained
  BY DEF IInv
<1> QED BY <1>1, InvHolds, PTL

\* baserule.cpp:198-237: a rate above its threshold for more than a period
\* is never missed, unless the pps trigger masks the check.
THEOREM TriggerNotMissed == Spec => []AlarmNotMissed
<1>1. IInv => AlarmNotMissed
  BY DEF IInv
<1> QED BY <1>1, InvHolds, PTL
=============================================================================
