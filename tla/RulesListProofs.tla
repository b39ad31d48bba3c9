--------------------------- MODULE RulesListProofs ---------------------------
(***************************************************************************)
(* What the operations of a rules list do to its type and to the rules it  *)
(* holds, for every list.  These lemmas are all that the proofs about the  *)
(* watcher need to know of the counters.                                   *)
(***************************************************************************)
EXTENDS RulesList, SequenceTheorems, TLAPS

LEMMA ModWord == \A n \in Nat : n % Word \in 0 .. Word - 1
  BY WordAssumption

\* A function over the positions of a list that yields rules is a list.
LEMMA RuleSeq ==
  ASSUME NEW list \in Seq(Rule), NEW g, DOMAIN g = DOMAIN list,
         g = [i \in DOMAIN list |-> g[i]], \A i \in DOMAIN list : g[i] \in Rule
  PROVE  g \in Seq(Rule) /\ Len(g) = Len(list)
<1>1. DOMAIN list = 1 .. Len(list) /\ Len(list) \in Nat
  BY LenProperties
<1>2. g \in [1 .. Len(list) -> Rule]
  BY <1>1
<1> QED BY <1>1, <1>2

LEMMA SameKeys ==
  ASSUME NEW list, NEW g, DOMAIN g = DOMAIN list,
         \A i \in DOMAIN list : g[i].key = list[i].key
  PROVE  KeysOf(g) = KeysOf(list)
  BY DEF KeysOf

LEMMA SameRulesSameLength ==
  ASSUME NEW a \in Seq(Rule), NEW b \in Seq(Rule), SameRules(a, b)
  PROVE  Len(a) = Len(b) /\ DOMAIN a = DOMAIN b
<1>1. DOMAIN KeysOf(a) = DOMAIN a /\ DOMAIN KeysOf(b) = DOMAIN b
  BY DEF KeysOf
<1>2. DOMAIN a = 1 .. Len(a) /\ DOMAIN b = 1 .. Len(b) /\ Len(a) \in Nat /\ Len(b) \in Nat
  BY LenProperties
<1>3. DOMAIN a = DOMAIN b
  BY <1>1 DEF SameRules
<1>4. \A i \in Int : i \in 1 .. Len(a) <=> i \in 1 .. Len(b)
  BY <1>2, <1>3
<1>5. Len(a) \in 1 .. Len(b) \/ Len(a) = 0
  BY <1>2, <1>4
<1>6. Len(b) \in 1 .. Len(a) \/ Len(b) = 0
  BY <1>2, <1>4
<1>7. Len(a) \in Nat /\ Len(b) \in Nat
  BY <1>2
<1>8. Len(a) = Len(b)
  BY <1>5, <1>6, <1>7
<1> QED BY <1>3, <1>8

LEMMA NewRuleType ==
  ASSUME NEW k \in Key
  PROVE  NewRule(k) \in Rule /\ NewRule(k).key = k
  BY WordAssumption DEF NewRule, Rule, Counter, Zero

LEMMA NewListType ==
  ASSUME NEW keys \in Seq(Key)
  PROVE  NewList(keys) \in Seq(Rule)
<1>1. DOMAIN keys = 1 .. Len(keys) /\ Len(keys) \in Nat /\ \A i \in DOMAIN keys : keys[i] \in Key
  BY LenProperties
<1>2. NewList(keys) \in [1 .. Len(keys) -> Rule]
  BY <1>1, NewRuleType DEF NewList
<1> QED BY <1>1, <1>2

-----------------------------------------------------------------------------
\* A rule with other counters and other addresses.
WithCounters(r, c, t) == [r EXCEPT !.count = c, !.top = t]

LEMMA CountersChange ==
  ASSUME NEW r \in Rule, NEW c \in Counter, NEW t \in SUBSET Dst
  PROVE  WithCounters(r, c, t) \in Rule /\ WithCounters(r, c, t).key = r.key
  BY DEF Rule, WithCounters

\* Counting a packet changes the counters and dst_top only.
LEMMA CheckListType ==
  ASSUME NEW list \in Seq(Rule), NEW pkt \in Packet
  PROVE  /\ CheckList(list, pkt) \in Seq(Rule)
         /\ KeysOf(CheckList(list, pkt)) = KeysOf(list)
<1> DEFINE g == CheckList(list, pkt)
<1>1. DOMAIN g = DOMAIN list /\ g = [i \in DOMAIN list |-> g[i]]
  BY DEF CheckList
<1>2. ASSUME NEW i \in DOMAIN list PROVE g[i] \in Rule /\ g[i].key = list[i].key
  <2>1. list[i] \in Rule
    BY <1>2, LenProperties
  <2>2. pkt.dst \in Dst /\ pkt.len \in Nat
    BY DEF Packet
  <2> DEFINE c == [m \in Metric |-> (list[i].count[m] + (IF m = "pps" THEN 1 ELSE pkt.len)) % Word]
  <2>3. c \in Counter
    <3>1. \A m \in Metric : list[i].count[m] \in Nat /\ (IF m = "pps" THEN 1 ELSE pkt.len) \in Nat
      BY <2>1, <2>2, WordAssumption DEF Rule, Counter
    <3>2. \A m \in Metric : list[i].count[m] + (IF m = "pps" THEN 1 ELSE pkt.len) \in Nat
      BY <3>1
    <3> QED BY <3>2, ModWord DEF Counter
  <2> HIDE DEF c
  <2>4. g[i] = IF i \in Counted(list, pkt)
               THEN [list[i] EXCEPT !.count = c, !.top = list[i].top \cup {pkt.dst}]
               ELSE list[i]
    BY <1>2 DEF CheckList, c
  <2>5. CASE i \in Counted(list, pkt)
    <3> DEFINE t == list[i].top \cup {pkt.dst}
    <3>1. t \in SUBSET Dst
      BY <2>1, <2>2 DEF Rule
    <3>2. g[i] = WithCounters(list[i], c, t)
      BY <2>4, <2>5 DEF WithCounters
    <3> HIDE DEF t, g
    <3> QED BY <2>1, <2>3, <3>1, <3>2, CountersChange
  <2>6. CASE i \notin Counted(list, pkt)
    BY <2>1, <2>4, <2>6
  <2> QED BY <2>5, <2>6
<1> HIDE DEF g
<1>3. g \in Seq(Rule)
  BY <1>1, <1>2, RuleSeq
<1>4. KeysOf(g) = KeysOf(list)
  BY <1>1, <1>2, SameKeys
<1> QED BY <1>3, <1>4 DEF g

\* operator+= keeps the rules and their number on both sides.
LEMMA MergeRuleType ==
  ASSUME NEW r \in Rule, NEW o \in Rule
  PROVE  MergeRule(r, o) \in Rule /\ MergeRule(r, o).key = r.key
<1> DEFINE c == [m \in Metric |-> (r.count[m] + o.count[m]) % Word]
<1>1. c \in Counter
  BY ModWord DEF Rule, Counter
<1>2. MergeRule(r, o) = WithCounters(r, c, r.top \cup o.top)
  BY DEF MergeRule, WithCounters
<1>3. r.top \cup o.top \in SUBSET Dst
  BY DEF Rule
<1> HIDE DEF c
<1> QED BY <1>1, <1>2, <1>3, CountersChange

LEMMA AddCountersType ==
  ASSUME NEW list \in Seq(Rule), NEW other \in Seq(Rule), Len(list) = Len(other)
  PROVE  /\ AddCounters(list, other) \in Seq(Rule)
         /\ KeysOf(AddCounters(list, other)) = KeysOf(list)
<1> DEFINE g == AddCounters(list, other)
<1>1. DOMAIN g = DOMAIN list /\ g = [i \in DOMAIN list |-> g[i]]
  BY DEF AddCounters
<1>2. ASSUME NEW i \in DOMAIN list PROVE g[i] \in Rule /\ g[i].key = list[i].key
  <2>1. list[i] \in Rule /\ other[i] \in Rule
    BY <1>2, LenProperties
  <2> QED BY <1>2, <2>1, MergeRuleType DEF AddCounters
<1> HIDE DEF g
<1>3. g \in Seq(Rule) /\ KeysOf(g) = KeysOf(list)
  BY <1>1, <1>2, RuleSeq, SameKeys
<1> QED BY <1>3 DEF g

LEMMA ResetCountersType ==
  ASSUME NEW list \in Seq(Rule)
  PROVE  /\ ResetCounters(list) \in Seq(Rule)
         /\ KeysOf(ResetCounters(list)) = KeysOf(list)
<1> DEFINE g == ResetCounters(list)
<1>1. DOMAIN g = DOMAIN list /\ g = [i \in DOMAIN list |-> g[i]]
  BY DEF ResetCounters
<1>2. ASSUME NEW i \in DOMAIN list PROVE g[i] \in Rule /\ g[i].key = list[i].key
  <2>1. list[i] \in Rule /\ Zero \in Counter
    BY <1>2, LenProperties, WordAssumption DEF Zero, Counter
  <2>2. g[i] = WithCounters(list[i], Zero, {}) /\ {} \in SUBSET Dst
    BY <1>2 DEF ResetCounters, ResetRule, WithCounters
  <2> HIDE DEF g
  <2> QED BY <2>1, <2>2, CountersChange
<1> HIDE DEF g
<1>3. g \in Seq(Rule) /\ KeysOf(g) = KeysOf(list)
  BY <1>1, <1>2, RuleSeq, SameKeys
<1> QED BY <1>3 DEF g

\* The rounded quotient of a count by a number of passes is a count, and is
\* not more than the count.
LEMMA RateOfType ==
  ASSUME NEW delta \in 0 .. Word - 1, NEW time \in Nat \ {0}
  PROVE  RateOf(delta, time) \in 0 .. Word - 1 /\ RateOf(delta, time) <= delta
<1> DEFINE x == 2 * delta + time
           y == 2 * time
           q == x \div y
<1>1. delta \in Nat /\ time \in Nat /\ time >= 1 /\ Word \in Nat /\ delta <= Word - 1
  BY WordAssumption
<1>2. x \in Nat /\ y \in Nat /\ y > 0
  BY <1>1
<1> HIDE DEF x, y
<1>3. q \in Int /\ q * y <= x /\ x < q * y + y
  BY <1>2
<1> HIDE DEF q
<1>4. q >= 0
  <2>1. SUFFICES ASSUME q <= -1 PROVE FALSE
    BY <1>3
  <2>2. q * y <= -y
    BY <1>2, <1>3, <2>1
  <2> QED BY <1>2, <1>3, <2>2
<1>5. q <= delta
  <2>1. SUFFICES ASSUME q >= delta + 1 PROVE FALSE
    BY <1>1, <1>3
  <2>2. q * y >= (delta + 1) * y
    BY <1>1, <1>2, <1>3, <2>1
  <2>3. (delta + 1) * y >= 2 * delta + y
    <3>1. delta * y >= 2 * delta
      BY <1>1 DEF y
    <3>2. (delta + 1) * y = delta * y + y /\ delta * y \in Int
      BY <1>1, <1>2
    <3> QED BY <1>1, <1>2, <3>1, <3>2
  <2>4. y >= time + 1 /\ x = 2 * delta + time
    BY <1>1 DEF x, y
  <2>5. q * y \in Int /\ (delta + 1) * y \in Int
    BY <1>1, <1>2, <1>3
  <2> QED BY <1>1, <1>2, <1>3, <2>2, <2>3, <2>4, <2>5
<1> QED BY <1>1, <1>3, <1>4, <1>5 DEF RateOf, q, x, y

\* The difference of two counters, in the arithmetic of a uint64_t, is one.
LEMMA WrappedDifference ==
  ASSUME NEW a \in 0 .. Word - 1, NEW b \in 0 .. Word - 1
  PROVE  (a + Word - b) % Word \in 0 .. Word - 1
<1>1. a \in Nat /\ b \in Nat /\ Word \in Nat /\ b <= Word
  BY WordAssumption
<1>2. a + Word - b \in Nat
  BY <1>1
<1> QED BY <1>2, ModWord

\* calc_delta changes the rates only.
LEMMA CalcDeltaType ==
  ASSUME NEW list \in Seq(Rule), NEW old \in Seq(Rule), NEW time \in Int,
         NEW wild \in Wild(list, time)
  PROVE  /\ CalcDelta(list, old, time, wild) \in Seq(Rule)
         /\ KeysOf(CalcDelta(list, old, time, wild)) = KeysOf(list)
<1>1. CASE Len(list) # Len(old)
  BY <1>1 DEF CalcDelta
<1>2. CASE Len(list) = Len(old)
  <2> DEFINE g == CalcDelta(list, old, time, wild)
             delta(i, m) == (list[i].count[m] + Word - old[i].count[m]) % Word
             rates(i) == IF time > 0 THEN [m \in Metric |-> RateOf(delta(i, m), time)]
                                     ELSE wild[i]
  <2>1. g = [i \in DOMAIN list |-> [list[i] EXCEPT !.rate = rates(i)]]
    BY <1>2 DEF CalcDelta
  <2>2. DOMAIN g = DOMAIN list /\ g = [i \in DOMAIN list |-> g[i]]
    BY <2>1
  <2>3. ASSUME NEW i \in DOMAIN list PROVE g[i] \in Rule /\ g[i].key = list[i].key
    <3>1. list[i] \in Rule /\ old[i] \in Rule
      BY <1>2, <2>3, LenProperties
    <3>2. ASSUME NEW m \in Metric PROVE delta(i, m) \in 0 .. Word - 1
      <4>1. list[i].count \in Counter /\ old[i].count \in Counter
        BY <3>1 DEF Rule
      <4>2. list[i].count[m] \in 0 .. Word - 1 /\ old[i].count[m] \in 0 .. Word - 1
        BY <4>1 DEF Counter
      <4> QED BY <4>2, WrappedDifference
    <3> HIDE DEF delta
    <3>3. rates(i) \in Counter
      <4>1. CASE time > 0
        BY <3>2, <4>1, RateOfType DEF Counter
      <4>2. CASE ~(time > 0)
        BY <2>3, <4>2, WordAssumption DEF Wild, Counter
      <4> QED BY <4>1, <4>2
    <3>4. g[i] = [list[i] EXCEPT !.rate = rates(i)]
      BY <2>1, <2>3
    <3> HIDE DEF g, rates
    <3> QED BY <3>1, <3>3, <3>4 DEF Rule
  <2> HIDE DEF g
  <2>4. g \in Seq(Rule) /\ KeysOf(g) = KeysOf(list)
    BY <2>2, <2>3, RuleSeq, SameKeys
  <2> QED BY <2>4 DEF g
<1> QED BY <1>1, <1>2

-----------------------------------------------------------------------------
\* One half of is_triggered leaves a rule that differs in one stamp at most.
LEMMA RestampFacts ==
  ASSUME NEW r \in Rule, NEW m \in Metric, NEW t \in Nat
  PROVE  /\ Restamp(r, m, t) \in Rule
         /\ Restamp(r, m, t).key = r.key
         /\ Restamp(r, m, t).rate = r.rate
         /\ Restamp(r, m, t).top = r.top
         /\ \A x \in Metric \ {m} : Restamp(r, m, t).last[x] = r.last[x]
         /\ Restamp(r, m, t).last[m] =
              IF Trigger[r.key][m] > 0 /\ (Exceeds(r, m) => PeriodOver(r, m, t))
              THEN t ELSE r.last[m]
<1> DEFINE guard == Trigger[r.key][m] > 0 /\ (Exceeds(r, m) => PeriodOver(r, m, t))
           s == [r EXCEPT !.last = [@ EXCEPT ![m] = t]]
<1> HIDE DEF guard
<1>1. Restamp(r, m, t) = IF guard THEN s ELSE r
  BY DEF Restamp, guard
<1>2. /\ s \in Rule /\ s.key = r.key /\ s.rate = r.rate /\ s.top = r.top
      /\ s.last = [r.last EXCEPT ![m] = t]
  BY DEF Rule
<1>3. r.last \in [Metric -> Nat]
  BY DEF Rule
<1> HIDE DEF s
<1>4. CASE guard
  BY <1>1, <1>2, <1>3, <1>4 DEF guard
<1>5. CASE ~guard
  BY <1>1, <1>5 DEF guard
<1> QED BY <1>4, <1>5

LEMMA AfterCheckType ==
  ASSUME NEW r \in Rule, NEW t \in Nat
  PROVE  AfterCheck(r, t) \in Rule /\ AfterCheck(r, t).key = r.key
<1>1. "pps" \in Metric /\ "bps" \in Metric
  BY DEF Metric
<1>2. Restamp(r, "pps", t) \in Rule /\ Restamp(r, "pps", t).key = r.key
  BY <1>1, RestampFacts
<1>3. /\ Restamp(Restamp(r, "pps", t), "bps", t) \in Rule
      /\ Restamp(Restamp(r, "pps", t), "bps", t).key = r.key
  BY <1>1, <1>2, RestampFacts
<1> QED BY <1>2, <1>3 DEF AfterCheck

\* check_triggers changes the stamps and dst_top only.
LEMMA CheckTriggersType ==
  ASSUME NEW list \in Seq(Rule), NEW t \in Nat
  PROVE  /\ CheckTriggers(list, t) \in Seq(Rule)
         /\ KeysOf(CheckTriggers(list, t)) = KeysOf(list)
<1> DEFINE g == CheckTriggers(list, t)
<1>1. DOMAIN g = DOMAIN list /\ g = [i \in DOMAIN list |-> g[i]]
  BY DEF CheckTriggers
<1>2. ASSUME NEW i \in DOMAIN list PROVE g[i] \in Rule /\ g[i].key = list[i].key
  <2>1. list[i] \in Rule
    BY <1>2, LenProperties
  <2> DEFINE after == AfterCheck(list[i], t)
  <2>2. after \in Rule /\ after.key = list[i].key
    BY <2>1, AfterCheckType
  <2>3. g[i] = [after EXCEPT !.top = {}]
    BY <1>2 DEF CheckTriggers
  <2> HIDE DEF g, after
  <2> QED BY <2>2, <2>3 DEF Rule
<1> HIDE DEF g
<1>3. g \in Seq(Rule) /\ KeysOf(g) = KeysOf(list)
  BY <1>1, <1>2, RuleSeq, SameKeys
<1> QED BY <1>3 DEF g

-----------------------------------------------------------------------------
\* add_rule, del_rule and insert_rule leave a list of what the list held and
\* of new rules.
LEMMA EditElements ==
  ASSUME NEW S, NEW list \in Seq(S), NEW num \in Nat, \A k \in Key : NewRule(k) \in S
  PROVE  /\ \A k \in Key : AppendRule(list, k) \in Seq(S)
         /\ ValidNum(list, num) => DelRule(list, num) \in Seq(S)
         /\ ValidNum(list, num) => \A k \in Key : InsertRule(list, num, k) \in Seq(S)
<1>1. \A k \in Key : AppendRule(list, k) \in Seq(S)
  BY DEF AppendRule
<1>2. ASSUME ValidNum(list, num)
      PROVE  /\ DelRule(list, num) \in Seq(S)
             /\ \A k \in Key : InsertRule(list, num, k) \in Seq(S)
  <2>1. Len(list) \in Nat /\ num < Len(list) /\ \A i \in 1 .. Len(list) : list[i] \in S
    BY <1>2, LenProperties DEF ValidNum
  <2>2. SubSeq(list, 1, num) \in Seq(S)
    BY <2>1, SubSeqProperties
  <2>3. SubSeq(list, num + 2, Len(list)) \in Seq(S)
    BY <2>1, SubSeqProperties
  <2>4. SubSeq(list, num + 1, Len(list)) \in Seq(S)
    BY <2>1, SubSeqProperties
  <2>5. (num + 1) - 1 = num /\ (num + 1) + 1 = num + 2
    OBVIOUS
  <2>6. DelRule(list, num) = SubSeq(list, 1, num) \o SubSeq(list, num + 2, Len(list))
    BY <2>5, Zenon DEF DelRule, RemoveAt
  <2>7. \A k : InsertRule(list, num, k) =
          SubSeq(list, 1, num) \o <<NewRule(k)>> \o SubSeq(list, num + 1, Len(list))
    BY <2>5, Zenon DEF InsertRule, InsertAt
  <2>8. ASSUME NEW k \in Key PROVE InsertRule(list, num, k) \in Seq(S)
    <3>1. InsertRule(list, num, k) =
            SubSeq(list, 1, num) \o <<NewRule(k)>> \o SubSeq(list, num + 1, Len(list))
      BY <2>7
    <3>2. <<NewRule(k)>> \in Seq(S)
      BY <2>8
    <3> HIDE DEF NewRule
    <3> QED BY <2>2, <2>4, <3>1, <3>2, ConcatProperties
  <2> QED BY <2>2, <2>3, <2>6, <2>8
<1> QED BY <1>1, <1>2

LEMMA EditType ==
  ASSUME NEW list \in Seq(Rule), NEW num \in Nat
  PROVE  /\ \A k \in Key : AppendRule(list, k) \in Seq(Rule)
         /\ ValidNum(list, num) => DelRule(list, num) \in Seq(Rule)
         /\ ValidNum(list, num) => \A k \in Key : InsertRule(list, num, k) \in Seq(Rule)
  BY NewRuleType, EditElements

-----------------------------------------------------------------------------
(* What the operations do to the counters and rates of each rule.          *)

\* What a packet adds to a metric of a rule that counts it.
Weight(pkt, m) == IF m = "pps" THEN 1 ELSE pkt.len

LEMMA CheckListCounts ==
  ASSUME NEW list \in Seq(Rule), NEW pkt \in Packet, NEW i \in DOMAIN list, NEW m \in Metric
  PROVE  /\ CheckList(list, pkt)[i].count[m] =
              IF i \in Counted(list, pkt) THEN (list[i].count[m] + Weight(pkt, m)) % Word
                                          ELSE list[i].count[m]
         /\ CheckList(list, pkt)[i].rate = list[i].rate
<1>1. list[i] \in Rule
  BY LenProperties
<1>2. list[i].count \in [Metric -> 0 .. Word - 1]
  BY <1>1 DEF Rule, Counter
<1>3. CASE i \in Counted(list, pkt)
  <2> DEFINE c == [n \in Metric |-> (list[i].count[n] + Weight(pkt, n)) % Word]
  <2>1. CheckList(list, pkt)[i] = [list[i] EXCEPT !.count = c, !.top = list[i].top \cup {pkt.dst}]
    BY <1>3, <1>1 DEF CheckList, Weight
  <2>2. c[m] = (list[i].count[m] + Weight(pkt, m)) % Word
    OBVIOUS
  <2> HIDE DEF c
  <2>3. CheckList(list, pkt)[i].count = c /\ CheckList(list, pkt)[i].rate = list[i].rate
    BY <1>1, <2>1 DEF Rule
  <2> QED BY <1>3, <2>2, <2>3
<1>4. CASE i \notin Counted(list, pkt)
  BY <1>4 DEF CheckList
<1> QED BY <1>3, <1>4

\* operator+= adds the counters up, modulo Word.
LEMMA AddCountersCounts ==
  ASSUME NEW list \in Seq(Rule), NEW other \in Seq(Rule), Len(list) = Len(other),
         NEW i \in DOMAIN list, NEW m \in Metric
  PROVE  /\ AddCounters(list, other)[i].count[m] = (list[i].count[m] + other[i].count[m]) % Word
         /\ AddCounters(list, other)[i].rate = list[i].rate
<1>1. list[i] \in Rule /\ other[i] \in Rule
  BY LenProperties
<1> DEFINE c == [n \in Metric |-> (list[i].count[n] + other[i].count[n]) % Word]
<1>2. AddCounters(list, other)[i] =
        [list[i] EXCEPT !.count = c, !.top = list[i].top \cup other[i].top]
  BY <1>1 DEF AddCounters, MergeRule
<1>3. c[m] = (list[i].count[m] + other[i].count[m]) % Word
  OBVIOUS
<1> HIDE DEF c
<1> QED BY <1>1, <1>2, <1>3 DEF Rule

\* operator+= leaves no counts on the other side.
LEMMA ResetCountersCounts ==
  ASSUME NEW list \in Seq(Rule), NEW i \in DOMAIN list
  PROVE  ResetCounters(list)[i].count = Zero
<1>1. list[i] \in Rule
  BY LenProperties
<1> QED BY <1>1 DEF ResetCounters, ResetRule, Rule

\* calc_delta and check_triggers leave the counters alone.
LEMMA CalcDeltaCounts ==
  ASSUME NEW list \in Seq(Rule), NEW old, NEW time, NEW wild, NEW i \in DOMAIN list
  PROVE  CalcDelta(list, old, time, wild)[i].count = list[i].count
<1>1. list[i] \in Rule
  BY LenProperties
<1>2. CASE Len(list) # Len(old)
  BY <1>2 DEF CalcDelta
<1>3. CASE Len(list) = Len(old)
  <2>1. PICK r : CalcDelta(list, old, time, wild)[i] = [list[i] EXCEPT !.rate = r]
    BY <1>3 DEF CalcDelta
  <2> QED BY <1>1, <2>1 DEF Rule
<1> QED BY <1>2, <1>3

LEMMA RestampKeeps ==
  ASSUME NEW r \in Rule, NEW m \in Metric, NEW t \in Nat
  PROVE  /\ Restamp(r, m, t) \in Rule
         /\ Restamp(r, m, t).count = r.count /\ Restamp(r, m, t).rate = r.rate
<1>1. Restamp(r, m, t).count = r.count
  BY DEF Restamp, Rule
<1> QED BY <1>1, RestampFacts

LEMMA CheckTriggersCounts ==
  ASSUME NEW list \in Seq(Rule), NEW t \in Nat, NEW i \in DOMAIN list
  PROVE  /\ CheckTriggers(list, t)[i].count = list[i].count
         /\ CheckTriggers(list, t)[i].rate = list[i].rate
<1>1. list[i] \in Rule
  BY LenProperties
<1>2. "pps" \in Metric /\ "bps" \in Metric
  BY DEF Metric
<1> DEFINE after == AfterCheck(list[i], t)
           half == Restamp(list[i], "pps", t)
<1>3. half \in Rule /\ half.count = list[i].count /\ half.rate = list[i].rate
  BY <1>1, <1>2, RestampKeeps
<1>4. after = half \/ after = Restamp(half, "bps", t)
  BY DEF AfterCheck
<1> HIDE DEF after, half
<1>5. /\ Restamp(half, "bps", t) \in Rule
      /\ Restamp(half, "bps", t).count = half.count /\ Restamp(half, "bps", t).rate = half.rate
  BY <1>2, <1>3, RestampKeeps
<1>6. after \in Rule /\ after.count = list[i].count /\ after.rate = list[i].rate
  BY <1>3, <1>4, <1>5
<1>7. CheckTriggers(list, t)[i] = [after EXCEPT !.top = {}]
  BY DEF CheckTriggers, after
<1> QED BY <1>6, <1>7 DEF Rule

\* A rate that is computed is not more than what was counted.
LEMMA CalcDeltaRates ==
  ASSUME NEW list \in Seq(Rule), NEW old \in Seq(Rule), Len(list) = Len(old),
         NEW time \in Nat \ {0}, NEW wild, NEW i \in DOMAIN list, NEW m \in Metric
  PROVE  CalcDelta(list, old, time, wild)[i].rate[m]
           <= (list[i].count[m] + Word - old[i].count[m]) % Word
<1>1. list[i] \in Rule /\ old[i] \in Rule
  BY LenProperties
<1>2. list[i].count[m] \in 0 .. Word - 1 /\ old[i].count[m] \in 0 .. Word - 1
  BY <1>1 DEF Rule, Counter
<1> DEFINE delta(n) == (list[i].count[n] + Word - old[i].count[n]) % Word
           r == [n \in Metric |-> RateOf(delta(n), time)]
<1>3. delta(m) \in 0 .. Word - 1
  BY <1>2, WrappedDifference
<1>4. CalcDelta(list, old, time, wild)[i] = [list[i] EXCEPT !.rate = r]
  BY DEF CalcDelta
<1>5. r[m] = RateOf(delta(m), time)
  OBVIOUS
<1> HIDE DEF r, delta
<1>6. CalcDelta(list, old, time, wild)[i].rate = r
  BY <1>1, <1>4 DEF Rule
<1>7. r[m] <= delta(m)
  BY <1>3, <1>5, RateOfType
<1> QED BY <1>6, <1>7 DEF delta

LEMMA NewListRates ==
  ASSUME NEW keys \in Seq(Key)
  PROVE  \A i \in DOMAIN NewList(keys) : NewList(keys)[i].rate = Zero
  BY DEF NewList, NewRule
=============================================================================
