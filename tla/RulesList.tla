------------------------------ MODULE RulesList ------------------------------
(***************************************************************************)
(* The data of one RulesList<T> (rules.hpp, rules.cpp) and the operations  *)
(* that run under its mutex, as operators on a sequence of rules.  Each    *)
(* operation of the class is one critical section, so a module that uses   *)
(* this one applies an operator in a single step.                          *)
(*                                                                         *)
(* What a rule's operator== compares (addresses, ports, thresholds,        *)
(* periods, --next) is one value, its key; the rest of the rule is data.   *)
(* dst_top is kept as the set of addresses it holds, since is_triggered    *)
(* asks only whether it is empty.  Rules of one key accept the same        *)
(* packets here; RuleMatch tells when that is so.                          *)
(***************************************************************************)
EXTENDS Integers, Sequences, SequencesExt

CONSTANTS
  Key,       \* the comparable parameters of the rules that exist
  NextKeys,  \* the keys with --next set
  Dst,       \* destination addresses
  Trigger,   \* Trigger[k][m]: pps_trigger or bps_trigger, 0 when not set
  Period,    \* Period[k][m]: pps_trigger_period or bps_trigger_period
  Word       \* counters are uint64_t: they count modulo Word

Metric == {"pps", "bps"}

ASSUME NextKeysAssumption == NextKeys \subseteq Key
ASSUME WordAssumption == Word \in Nat \ {0}
ASSUME TriggerAssumption == Trigger \in [Key -> [Metric -> Nat]]
ASSUME PeriodAssumption == Period \in [Key -> [Metric -> Nat]]

Counter == [Metric -> 0 .. Word - 1]
Zero == [m \in Metric |-> 0]

Rule == [key : Key, count : Counter, rate : Counter,
         last : [Metric -> Nat], top : SUBSET Dst]

\* A packet of the list's protocol: the rules whose check_packet accepts it,
\* its destination and its length.
Packet == [hits : SUBSET Key, dst : Dst, len : Nat]

\* A rule as BaseRule's constructor leaves it.
NewRule(k) == [key |-> k, count |-> Zero, rate |-> Zero, last |-> Zero, top |-> {}]

\* A list of new rules, as a rules file or a series of add_rule builds it.
NewList(keys) == [i \in DOMAIN keys |-> NewRule(keys[i])]

\* What operator== of two lists compares.
KeysOf(list) == [i \in DOMAIN list |-> list[i].key]

SameRules(a, b) == KeysOf(a) = KeysOf(b)

-----------------------------------------------------------------------------
(* check_list: the packet goes down the list to the first matching rule    *)
(* that does not say --next; every matching rule on the way counts it.     *)

MatchedBy(rule, pkt) == rule.key \in pkt.hits

Reached(list, pkt, i) ==
  \A j \in 1 .. i - 1 : MatchedBy(list[j], pkt) => list[j].key \in NextKeys

Counted(list, pkt) ==
  {i \in DOMAIN list : MatchedBy(list[i], pkt) /\ Reached(list, pkt, i)}

CheckList(list, pkt) ==
  [i \in DOMAIN list |->
     IF i \in Counted(list, pkt)
     THEN [list[i] EXCEPT !.count = [m \in Metric |->
                            (@[m] + (IF m = "pps" THEN 1 ELSE pkt.len)) % Word],
                          !.top = @ \cup {pkt.dst}]
     ELSE list[i]]

-----------------------------------------------------------------------------
(* operator+=: the counters of other are added and other's are reset.      *)

\* Faulty variants: the sum forgets the receiver's count, or the bytes.
MergeOverwrites(r, other) == [r EXCEPT !.count = other.count, !.top = @ \cup other.top]
MergePackets(r, other) ==
  [r EXCEPT !.count["pps"] = (@ + other.count["pps"]) % Word, !.top = @ \cup other.top]

MergeRule(r, other) ==
  [r EXCEPT !.count = [m \in Metric |-> (@[m] + other.count[m]) % Word],
            !.top = @ \cup other.top]

\* Faulty variant: other keeps its counters.
ResetNothing(r) == r

ResetRule(r) == [r EXCEPT !.count = Zero, !.top = {}]

AddCounters(list, other) == [i \in DOMAIN list |-> MergeRule(list[i], other[i])]
ResetCounters(list) == [i \in DOMAIN list |-> ResetRule(list[i])]

-----------------------------------------------------------------------------
(* calc_delta: what was counted in the last time passes, in uint64_t      *)
(* arithmetic, per pass, rounded.  Lists of different sizes are left       *)
(* alone.  When time is not positive the quotient fits no uint64_t (it is  *)
(* infinite, negative or no number), its conversion is undefined, and wild *)
(* stands for what the build makes of it.                                  *)

RateOf(delta, time) == (2 * delta + time) \div (2 * time)

\* No rates, or enormous ones, whatever was counted.
Wild(list, time) ==
  [DOMAIN list -> [Metric -> IF time > 0 THEN {0} ELSE {0, Word - 1}]]

CalcDelta(list, old, time, wild) ==
  IF Len(list) # Len(old) THEN list
  ELSE [i \in DOMAIN list |->
          [list[i] EXCEPT !.rate =
             IF time > 0
             THEN [m \in Metric |->
                     RateOf((list[i].count[m] + Word - old[i].count[m]) % Word, time)]
             ELSE wild[i]]]

-----------------------------------------------------------------------------
(* is_triggered and check_triggers.  The pps half comes first, and when it *)
(* fires the bps half is not looked at.                                    *)

\* Faulty variant: the threshold itself counts as exceeded.
Reaches(r, m) == r.rate[m] >= Trigger[r.key][m]

Exceeds(r, m) == r.rate[m] > Trigger[r.key][m]
\* Faulty variant: a period lasts a second longer.
PeriodLongOver(r, m, now) == now - r.last[m] > Period[r.key][m] + 1

PeriodOver(r, m, now) == now - r.last[m] > Period[r.key][m]

\* Faulty variants: the stamp stays below the threshold; it holds the time
\* left of the period instead of a time.
RestampAbove(r, m, now) ==
  IF Trigger[r.key][m] > 0 /\ Exceeds(r, m) /\ PeriodOver(r, m, now)
  THEN [r EXCEPT !.last = [@ EXCEPT ![m] = now]]
  ELSE r

RestampLeft(r, m, now) ==
  IF Trigger[r.key][m] > 0 /\ (Exceeds(r, m) => PeriodOver(r, m, now))
  THEN [r EXCEPT !.last = [@ EXCEPT ![m] = Period[r.key][m] - (now - @)]]
  ELSE r

\* xps_last_not_triggered moves to now below the threshold, and at the end
\* of a period above it.
Restamp(r, m, now) ==
  IF Trigger[r.key][m] > 0 /\ (Exceeds(r, m) => PeriodOver(r, m, now))
  THEN [r EXCEPT !.last = [@ EXCEPT ![m] = now]]
  ELSE r

Fires(r, m, now) ==
  /\ Trigger[r.key][m] > 0
  /\ Exceeds(r, m)
  /\ PeriodOver(r, m, now)
  /\ r.top # {}

IsTriggered(r, now) == Fires(r, "pps", now) \/ Fires(r, "bps", now)

AfterCheck(r, now) ==
  LET checked == Restamp(r, "pps", now)
  IN  IF Fires(r, "pps", now) THEN checked ELSE Restamp(checked, "bps", now)

Triggered(list, now) == {i \in DOMAIN list : IsTriggered(list[i], now)}

CheckTriggers(list, now) ==
  [i \in DOMAIN list |-> [AfterCheck(list[i], now) EXCEPT !.top = {}]]

-----------------------------------------------------------------------------
(* add_rule, del_rule, insert_rule.  num counts from 0; a num outside the  *)
(* list, and any num when the list is empty, throws and changes nothing.   *)

ValidNum(list, num) == num < Len(list)

AppendRule(list, k) == Append(list, NewRule(k))
DelRule(list, num) == RemoveAt(list, num + 1)
InsertRule(list, num, k) == InsertAt(list, num + 1, NewRule(k))

=============================================================================
