--------------------------- MODULE RuleMatchProofs ---------------------------
(***************************************************************************)
(* That parser and check_packet do what the text of a rule says, when its  *)
(* numbers fit; and that the watcher may trust operator== of two rules,    *)
(* although it looks at no enable_: the parser never builds a range that   *)
(* is on and 0-0, nor a comparison that is off and not with 0.  All of it  *)
(* for any widths, texts and packets.                                      *)
(***************************************************************************)
EXTENDS RuleMatch, Sums

-----------------------------------------------------------------------------
(* Numbers and widths.                                                     *)

\* The factors of the six prefixes.
LEMMA FactorFacts ==
  /\ Factor[0] = 1
  /\ \A pos \in Prefix \ {0} : Factor[pos] = Kilo * Factor[pos - 1]
  /\ \A pos \in Prefix : Factor[pos] \in Nat
<1> DEFINE IsFactor(g) == g = [pos \in Prefix |-> IF pos = 0 THEN 1 ELSE Kilo * g[pos - 1]]
<1>1. \A k \in Nat, n \in Nat : k * n \in Nat
  OBVIOUS
<1>2. Kilo \in Nat
  BY WidthAssumption
<1>3. \E g : IsFactor(g)
  <2>1. PICK b, c, d, e, f : /\ b = Kilo * 1 /\ c = Kilo * b /\ d = Kilo * c
                             /\ e = Kilo * d /\ f = Kilo * e
    OBVIOUS
  <2> DEFINE g == [pos \in Prefix |-> IF pos = 0 THEN 1 ELSE IF pos = 1 THEN b ELSE IF pos = 2
                     THEN c ELSE IF pos = 3 THEN d ELSE IF pos = 4 THEN e ELSE f]
  <2>2. \A pos \in Prefix : g[pos] = IF pos = 0 THEN 1 ELSE Kilo * g[pos - 1]
    BY <2>1 DEF Prefix
  <2>3. g = [pos \in Prefix |-> g[pos]]
    OBVIOUS
  <2> HIDE DEF g
  <2> QED BY <2>2, <2>3
<1>4. IsFactor(Factor)
  BY <1>3, Zenon DEF Factor
<1>5. \A pos \in Prefix : Factor[pos] = IF pos = 0 THEN 1 ELSE Kilo * Factor[pos - 1]
  BY <1>4
<1>6. 0 \in Prefix /\ \A pos \in Prefix \ {0} : pos - 1 \in Prefix
  BY DEF Prefix
<1>7. Factor[0] \in Nat
  BY <1>5, <1>6
<1>8. \A pos \in Prefix \ {0} : Factor[pos - 1] \in Nat => Factor[pos] \in Nat
  BY <1>1, <1>2, <1>5, <1>6
<1> QED BY <1>5, <1>6, <1>7, <1>8 DEF Prefix

\* The widths of the fields.
LEMMA Widths ==
  /\ AddrBits \in Nat \ {0} /\ ByteBits \in Nat \ {0}
  /\ 2 ^ AddrBits \in Nat \ {0} /\ 2 ^ AddrBits # 1
  /\ \A n \in Nat : Uint(n) \in Nat \ {0}
  /\ \A f \in AddrField : Sizes(f) = 2 ^ AddrBits
  /\ \A f \in PortField : Sizes(f) = Uint(2)
  /\ \A f \in AddrField \cup PortField \cup CompField : Sizes(f) \in Nat \ {0}
<1>1. AddrBits \in Nat \ {0} /\ ByteBits \in Nat \ {0}
  BY WidthAssumption
<1>2. 2 ^ AddrBits \in Nat \ {0} /\ 2 ^ AddrBits # 1
  BY <1>1, PowerType
<1>3. ASSUME NEW n \in Nat PROVE Uint(n) \in Nat \ {0}
  <2>1. n * ByteBits \in Nat
    BY <1>1
  <2> QED BY <2>1, PowerType DEF Uint
<1>4. Uint(1) \in Nat \ {0} /\ Uint(2) \in Nat \ {0} /\ Uint(4) \in Nat \ {0}
  BY <1>3
<1>5. ASSUME NEW f \in AddrField PROVE Sizes(f) = 2 ^ AddrBits
  BY DEF Sizes, AddrField, PortField
<1>6. ASSUME NEW f \in PortField PROVE Sizes(f) = Uint(2)
  BY DEF Sizes, AddrField, PortField
<1>7. ASSUME NEW f \in CompField PROVE Sizes(f) \in {Uint(1), Uint(2), Uint(4)}
  BY DEF Sizes, AddrField, PortField, CompField
<1> QED BY <1>1, <1>2, <1>3, <1>4, <1>5, <1>6, <1>7

\* The networks of addresses that fit: the end of one is no more than the
\* end of all.
LEMMA NetFits ==
  ASSUME NEW ip \in Addr, NEW k \in 0 .. AddrBits
  PROVE  LET size == 2 ^ k
         IN  /\ size \in Nat \ {0} /\ ip - (ip % size) \in Addr
             /\ ip - (ip % size) + size - 1 \in Addr
<1>1. PICK M \in Nat \ {0}, N \in Nat \ {0}, all \in Nat \ {0} :
        M = 2 ^ k /\ N = 2 ^ (AddrBits - k) /\ all = 2 ^ AddrBits
  <2>1. k \in Nat /\ AddrBits - k \in Nat /\ AddrBits \in Nat
    BY Widths
  <2> QED BY <2>1, PowerType
<1>2. all = M * N
  <2>1. k \in Nat /\ AddrBits - k \in Nat /\ k + (AddrBits - k) = AddrBits
    BY Widths
  <2> QED BY <1>1, <2>1, PowerPlus
<1>3. ip \in Int /\ 0 <= ip /\ ip < all
  BY <1>1 DEF Addr
<1>4. PICK q \in Int, r \in Int : /\ r = ip % M /\ 0 <= r /\ r < M /\ ip = M * q + r
  BY <1>3, DivMod
<1>5. M * q \in Int /\ M * N \in Int /\ M * 0 = 0 /\ M * (-1) = -M
  BY <1>4, Times
<1>6. q < N
  <2>1. SUFFICES ASSUME ~(q < N) PROVE FALSE
    OBVIOUS
  <2>2. M * N <= M * q
    BY <1>5, <2>1, Cancel
  <2> QED BY <1>2, <1>3, <1>4, <1>5, <2>2
<1>7. 0 <= q
  <2>1. SUFFICES ASSUME q < 0 PROVE FALSE
    OBVIOUS
  <2>2. M * q + M <= 0
    BY <1>5, <2>1, Cancel
  <2> QED BY <1>3, <1>4, <1>5, <2>2
<1>8. M * q + M <= all /\ 0 <= M * q
  BY <1>2, <1>5, <1>6, <1>7, Cancel
<1>9. ip - r = M * q
  BY <1>3, <1>4, <1>5
<1>10. ip - r \in 0 .. all - 1 /\ ip - r + M - 1 \in 0 .. all - 1
  BY <1>5, <1>8, <1>9
<1> QED BY <1>1, <1>4, <1>10 DEF Addr

\* A rule field by field.
LEMMA ParseFacts ==
  ASSUME NEW t \in Text, NEW r \in Parse(t)
  PROVE  /\ WellFormed(t) /\ r.proto = t.proto
         /\ \A f \in AddrField : \E p \in AddrRanges(t.addr[f]) : r.range[f] = AssignRange(p)
         /\ \A f \in PortField : r.range[f] = AssignRange(PortRange(t.port[f]))
         /\ \A f \in CompField : r.comp[f] = NumComp(f, t.comp[f])
         /\ r.flags = FlagSet(t.flags)
         /\ r.trigger = [m \in Metric |-> Threshold(m, t.th[m])]
<1>1. PICK s \in AddrRanges(t.addr["src"]), d \in AddrRanges(t.addr["dst"]) :
        r = MakeRule(t, [f \in AddrField |-> IF f = "src" THEN s ELSE d])
  <2> DEFINE S == AddrRanges(t.addr["src"])
             D == AddrRanges(t.addr["dst"])
             Make(s, d) == MakeRule(t, [f \in AddrField |-> IF f = "src" THEN s ELSE d])
             Made == {Make(s, d) : s \in S, d \in D}
  <2>1. r \in Made
    <3>1. Parse(t) = {y \in Made : WellFormed(t) /\ Complete(y)}
      BY DEF Parse
    <3> HIDE DEF Made
    <3> QED BY <3>1
  <2> HIDE DEF S, D, Make
  <2>2. \E s \in S, d \in D : r = Make(s, d)
    BY <2>1
  <2> QED BY <2>2, Zenon DEF S, D, Make
<1>2. WellFormed(t)
  BY DEF Parse
<1>3. /\ r.proto = t.proto
      /\ \A f \in AddrField : r.range[f] = AssignRange(IF f = "src" THEN s ELSE d)
      /\ \A f \in PortField : r.range[f] = AssignRange(PortRange(t.port[f]))
      /\ \A f \in CompField : r.comp[f] = NumComp(f, t.comp[f])
      /\ r.flags = FlagSet(t.flags)
      /\ r.trigger = [m \in Metric |-> Threshold(m, t.th[m])]
  BY <1>1 DEF MakeRule, AddrField, PortField
<1> QED BY <1>1, <1>2, <1>3 DEF AddrField

\* The parser's numbers keep the width of their fields.
LEMMA AddrRangesType ==
  ASSUME NEW t \in AddrText, NEW p \in AddrRanges(t)
  PROVE  p \in Addr \X Addr
<1>1. 0 \in Addr /\ 2 ^ AddrBits - 1 \in Addr
  BY Widths DEF Addr
<1>2. CASE t.form = "host"
  <2>1. t.ip \in Addr
    BY <1>2 DEF AddrText, Option, Absent, Bad
  <2> QED BY <1>2, <2>1 DEF AddrRanges
<1>3. CASE t.form = "net"
  <2>1. t.ip \in Addr /\ t.bits \in Int
    BY <1>3 DEF AddrText, Option, Absent, Bad
  <2>2. PICK size \in NetSizes(t.bits) : p = NetRange(t.ip, size)
    BY <1>3 DEF AddrRanges
  <2>3. size = 1 \/ \E k \in 0 .. AddrBits : size = 2 ^ k
    <3>1. PICK b \in Int : b = t.bits /\ size \in NetSizes(b)
      BY <2>1, <2>2
    <3>2. CASE b <= 0
      BY <3>1, <3>2 DEF NetSizes
    <3>3. CASE 0 < b /\ b <= AddrBits
      <4>1. size = 2 ^ (AddrBits - b)
        BY <3>1, <3>3 DEF NetSizes
      <4>2. AddrBits - b \in 0 .. AddrBits
        BY <3>1, <3>3, Widths
      <4> QED BY <4>1, <4>2
    <3>4. CASE AddrBits < b
      <4>1. PICK s \in 0 .. AddrBits - 1 : size = 2 ^ s
        BY <3>1, <3>4, Widths DEF NetSizes
      <4>2. s \in 0 .. AddrBits
        BY Widths
      <4> QED BY <4>1, <4>2
    <3> QED BY <3>1, <3>2, <3>3, <3>4, Widths
  <2>4. CASE size = 1
    <3>1. t.ip % 1 = 0
      BY <2>1 DEF Addr
    <3>2. t.ip - (t.ip % 1) = t.ip /\ t.ip - (t.ip % 1) + 1 - 1 = t.ip
      BY <2>1, <3>1 DEF Addr
    <3> QED BY <1>1, <2>1, <2>2, <2>4, <3>2 DEF NetRange
  <2>5. ASSUME NEW k \in 0 .. AddrBits, size = 2 ^ k PROVE p \in Addr \X Addr
    <3>1. t.ip - (t.ip % size) \in Addr /\ t.ip - (t.ip % size) + size - 1 \in Addr
      BY <2>1, <2>5, NetFits
    <3> QED BY <1>1, <2>2, <3>1 DEF NetRange
  <2> QED BY <2>3, <2>4, <2>5
<1>4. CASE t.form \notin {"host", "net"}
  BY <1>1, <1>4 DEF AddrRanges
<1> QED BY <1>2, <1>3, <1>4

LEMMA PortRangeType ==
  ASSUME NEW t \in PortText
  PROVE  PortRange(t) \in (0 .. Uint(2) - 1) \X (0 .. Uint(2) - 1)
<1>1. Uint(2) \in Nat \ {0}
  BY Widths
<1>2. CASE t.form = "ports"
  <2>1. t.from \in Int /\ t.to \in Int
    BY <1>2 DEF PortText, Option, Absent, Bad
  <2>2. t.from % Uint(2) \in 0 .. Uint(2) - 1 /\ t.to % Uint(2) \in 0 .. Uint(2) - 1
    BY <1>1, <2>1
  <2> QED BY <1>2, <2>2 DEF PortRange
<1>3. CASE t.form # "ports"
  BY <1>1, <1>3 DEF PortRange
<1> QED BY <1>2, <1>3

LEMMA AssignType ==
  ASSUME NEW M \in Nat \ {0}, NEW p \in (0 .. M - 1) \X (0 .. M - 1)
  PROVE  AssignRange(p) \in [start : 0 .. M - 1, end : 0 .. M - 1, enable : BOOLEAN]
<1>1. p[1] \in 0 .. M - 1 /\ p[2] \in 0 .. M - 1 /\ 0 \in 0 .. M - 1
  OBVIOUS
<1> QED BY <1>1 DEF AssignRange, NoRange

LEMMA NumCompType ==
  ASSUME NEW f \in CompField, NEW t \in CompText
  PROVE  NumComp(f, t) \in NumComparable(f)
<1>1. Sizes(f) \in Nat \ {0}
  BY Widths
<1>2. CASE t.form = "comp"
  <2>1. t.num \in Nat /\ t.op \in {"=", ">", "<"}
    BY <1>2 DEF CompText, Option, Absent, Bad
  <2>2. t.num % Sizes(f) \in 0 .. Sizes(f) - 1
    BY <1>1, <2>1
  <2> QED BY <1>2, <2>1, <2>2 DEF NumComp, NumComparable
<1>3. CASE t.form # "comp"
  BY <1>1, <1>3 DEF NumComp, NumComparable, NoComp
<1> QED BY <1>2, <1>3

LEMMA FlagSetType ==
  ASSUME NEW t \in FlagText
  PROVE  FlagSet(t) \in [bits : SUBSET Flag, mask : SUBSET Flag, enable : BOOLEAN]
<1>1. CASE t.form = "flags"
  <2>1. t.list \in Seq([flag : Flag, on : BOOLEAN])
    BY <1>1 DEF FlagText, Option, Absent, Bad
  <2>2. \A i \in DOMAIN t.list : t.list[i] \in [flag : Flag, on : BOOLEAN]
    <3>1. \A S : \A list \in Seq(S) : \A i \in DOMAIN list : list[i] \in S
      OBVIOUS
    <3> QED BY <2>1, <3>1, Zenon
  <2>3. ToSet(t.list) \subseteq [flag : Flag, on : BOOLEAN]
    BY <2>2 DEF ToSet
  <2>4. {s.flag : s \in ToSet(t.list)} \subseteq Flag
    BY <2>3
  <2> QED BY <1>1, <2>4 DEF FlagSet
<1>2. CASE t.form # "flags"
  BY <1>2 DEF FlagSet, NoFlags
<1> QED BY <1>1, <1>2

LEMMA ThresholdType ==
  ASSUME NEW m \in Metric, NEW t \in SizeText
  PROVE  Threshold(m, t) \in 0 .. Uint(4) - 1
<1>1. PICK U \in Nat \ {0}, V \in Nat \ {0}, D \in Nat \ {0} :
        U = Uint(4) /\ V = Uint(8) /\ D = IF m = "bps" THEN ByteBits ELSE 1
  BY Widths
<1>2. CASE t.form = "size"
  <2>1. t.num \in Nat /\ t.prefix \in Prefix
    BY <1>2 DEF SizeText, Option, Absent, Bad
  <2>2. PICK x \in Nat : x = Factor[t.prefix]
    BY <2>1, FactorFacts
  <2>3. t.num * x \in Int
    BY <2>1
  <2>4. (t.num * x) % V \in Int
    BY <2>3
  <2>5. ((t.num * x) % V) \div D \in Int
    BY <2>4
  <2>6. (((t.num * x) % V) \div D) % U \in 0 .. U - 1
    BY <2>5
  <2> QED BY <1>1, <1>2, <2>2, <2>6 DEF Threshold
<1>3. CASE t.form # "size"
  BY <1>1, <1>3 DEF Threshold
<1> QED BY <1>2, <1>3

\* Whatever the texts, the rules are rules.
LEMMA ParseType ==
  ASSUME NEW t \in Text, NEW r \in Parse(t)
  PROVE  IsRule(r)
<1>1. /\ t.addr \in [AddrField -> AddrText] /\ t.port \in [PortField -> PortText]
      /\ t.comp \in [CompField -> CompText] /\ t.flags \in FlagText
      /\ t.th \in [Metric -> SizeText]
  BY DEF Text
<1>2. ASSUME NEW f \in AddrField PROVE r.range[f] \in NumRange(f)
  <2>1. PICK p \in AddrRanges(t.addr[f]) : r.range[f] = AssignRange(p)
    BY ParseFacts
  <2>2. p \in (0 .. 2 ^ AddrBits - 1) \X (0 .. 2 ^ AddrBits - 1)
    BY <1>1, AddrRangesType DEF Addr
  <2> QED BY <2>1, <2>2, Widths, AssignType DEF NumRange
<1>3. ASSUME NEW f \in PortField PROVE r.range[f] \in NumRange(f)
  <2>1. PortRange(t.port[f]) \in (0 .. Uint(2) - 1) \X (0 .. Uint(2) - 1)
    BY <1>1, PortRangeType
  <2>2. Sizes(f) = Uint(2) /\ Uint(2) \in Nat \ {0}
    BY Widths
  <2>3. r.range[f] = AssignRange(PortRange(t.port[f]))
    BY ParseFacts
  <2>4. r.range[f] \in [start : 0 .. Uint(2) - 1, end : 0 .. Uint(2) - 1, enable : BOOLEAN]
    BY <2>1, <2>2, <2>3, AssignType
  <2> QED BY <2>2, <2>4 DEF NumRange
<1>4. \A f \in CompField : r.comp[f] \in NumComparable(f)
  BY <1>1, ParseFacts, NumCompType
<1>5. r.flags \in [bits : SUBSET Flag, mask : SUBSET Flag, enable : BOOLEAN]
  BY <1>1, ParseFacts, FlagSetType
<1>6. r.trigger \in [Metric -> 0 .. Uint(4) - 1]
  <2>1. \A m \in Metric : Threshold(m, t.th[m]) \in 0 .. Uint(4) - 1
    BY <1>1, ThresholdType
  <2>2. r.trigger = [m \in Metric |-> Threshold(m, t.th[m])]
    BY ParseFacts
  <2> QED BY <2>1, <2>2
<1> QED BY <1>2, <1>3, <1>4, <1>5, <1>6 DEF IsRule

-----------------------------------------------------------------------------
(* What a text says and what its rule does.                                *)

\* The items of a sequence are of its set.
LEMMA ItemsOfSeq == \A S : \A l \in Seq(S) : \A i \in DOMAIN l : l[i] \in S
  OBVIOUS

\* The last word on a flag that plain words agree on is each of them.
LEMMA FlagsAsWritten ==
  ASSUME NEW t \in FlagText, PlainFlags(t), NEW flags
  PROVE  InFlags(FlagSet(t), flags) <=> FlagsSay(t, flags)
<1>1. CASE t.form = "flags"
  <2> DEFINE list == t.list
  <2>1. list = t.list
    OBVIOUS
  <2>2. list \in Seq([flag : Flag, on : BOOLEAN])
    BY <1>1, <2>1 DEF FlagText, Option, Absent, Bad
  <2>3. \A i \in DOMAIN list : list[i] \in [flag : Flag, on : BOOLEAN]
    BY <2>2, ItemsOfSeq, Zenon
  <2>4. \A i \in DOMAIN list : list[i].on \in BOOLEAN
    BY <2>3
  <2> DEFINE IsLast(f, i) == /\ list[i].flag = f
                             /\ \A j \in DOMAIN list : list[j].flag = f => j <= i
             last(f) == CHOOSE i \in DOMAIN list : IsLast(f, i)
             mask == {s.flag : s \in ToSet(list)}
             bits == {f \in mask : list[last(f)].on}
  <2>5. FlagSet(t) = [bits |-> bits, mask |-> mask, enable |-> TRUE]
    BY <1>1, Zenon DEF FlagSet
  <2> HIDE DEF list
  <2>6. InFlags(FlagSet(t), flags) <=> flags \cap mask = bits
    <3> HIDE DEF bits, mask
    <3> QED BY <2>5 DEF InFlags
  <2>7. ASSUME NEW i \in DOMAIN list PROVE last(list[i].flag) \in DOMAIN list /\ IsLast(list[i].flag, last(list[i].flag))
    <3> DEFINE f == list[i].flag
               S == {j \in DOMAIN list : list[j].flag = f}
    <3>1. DOMAIN list = 1 .. Len(list) /\ Len(list) \in Nat
      <4>1. \A Q : \A l \in Seq(Q) : DOMAIN l = 1 .. Len(l) /\ Len(l) \in Nat
        OBVIOUS
      <4> QED BY <2>2, <4>1, Zenon
    <3>2. IsFiniteSet(S) /\ S \subseteq Int /\ i \in S
      <4>1. IsFiniteSet(DOMAIN list) /\ DOMAIN list \subseteq Int
        BY <3>1, FS_Interval
      <4>2. S \subseteq DOMAIN list /\ i \in S
        BY <2>7
      <4> QED BY <4>1, <4>2, FS_Subset
    <3>3. PICK x \in S : \A y \in S : y <= x
      <4> HIDE DEF S
      <4> QED BY <3>2, LastOf
    <3>4. IsLast(f, x) /\ x \in DOMAIN list
      BY <3>3
    <3> HIDE DEF IsLast, f
    <3> QED BY <3>4, Zenon DEF f
  <2>8. \A i, j \in DOMAIN list : list[i].flag = list[j].flag => list[i].on = list[j].on
    <3>1. \A s, u \in ToSet(list) : s.flag = u.flag => s.on = u.on
      BY <1>1, <2>1 DEF PlainFlags
    <3>2. \A i \in DOMAIN list : list[i] \in ToSet(list)
      BY DEF ToSet
    <3> QED BY <3>1, <3>2
  <2>9. \A i \in DOMAIN list : list[last(list[i].flag)].on <=> list[i].on
    <3> HIDE DEF last
    <3> QED BY <2>4, <2>7, <2>8
  <2> HIDE DEF last, IsLast
  <2>10. \A i \in DOMAIN list : list[i].flag \in mask
    BY DEF ToSet
  <2>11. \A f \in mask : \E i \in DOMAIN list : f = list[i].flag
    BY DEF ToSet
  <2>12. \A i \in DOMAIN list : list[i].flag \in bits <=> list[i].on
    BY <2>9, <2>10
  <2>13. bits \subseteq mask
    OBVIOUS
  <2>14. FlagsSay(t, flags) <=> \A i \in DOMAIN list : (list[i].flag \in flags) = list[i].on
    BY <1>1, <2>1, Zenon DEF FlagsSay, ToSet
  <2> HIDE DEF bits, mask
  <2>15. ASSUME flags \cap mask = bits, NEW i \in DOMAIN list
         PROVE  (list[i].flag \in flags) = list[i].on
    <3>1. list[i].flag \in flags <=> list[i].flag \in bits
      BY <2>10, <2>15
    <3> QED BY <2>4, <2>12, <3>1
  <2>16. ASSUME \A i \in DOMAIN list : (list[i].flag \in flags) = list[i].on
         PROVE  flags \cap mask = bits
    <3>1. \A i \in DOMAIN list : list[i].flag \in flags <=> list[i].flag \in bits
      BY <2>12, <2>16
    <3> QED BY <2>11, <2>13, <3>1
  <2> QED BY <2>6, <2>14, <2>15, <2>16
<1>2. CASE t.form # "flags"
  <2>1. FlagSet(t) = NoFlags
    BY <1>2 DEF FlagSet
  <2> QED BY <1>2, <2>1 DEF InFlags, FlagsSay, NoFlags
<1> QED BY <1>1, <1>2

\* A comparison with a number that fits its field.
LEMMA CompsAsWritten ==
  ASSUME NEW f \in CompField, NEW t \in CompText, t # Bad,
         t # Absent => t.num < Sizes(f), NEW num
  PROVE  InComp(NumComp(f, t), num) <=> CompSays(t, num)
<1>1. CASE t = Absent
  BY <1>1 DEF Absent, NumComp, NoComp, InComp, CompSays
<1>2. CASE t # Absent
  <2>1. t.form = "comp" /\ t.num \in Nat /\ t.op \in {"=", ">", "<"}
    BY <1>2 DEF CompText, Option
  <2>2. t.num % Sizes(f) = t.num
    BY <1>2, <2>1, Widths, Small
  <2>3. NumComp(f, t) = [num |-> t.num, op |-> t.op, enable |-> TRUE]
    BY <2>1, <2>2 DEF NumComp
  <2> QED BY <2>1, <2>3 DEF InComp, CompSays
<1> QED BY <1>1, <1>2

\* A range of ports that fit their field.
LEMMA PortsAsWritten ==
  ASSUME NEW t \in PortText, PlainPort(t), NEW port \in Nat \ {0}
  PROVE  InRange(AssignRange(PortRange(t)), port) <=> PortSays(t, port)
<1>1. CASE t = Absent
  <2>1. AssignRange(PortRange(t)) = NoRange
    BY <1>1 DEF Absent, PortRange, AssignRange
  <2> QED BY <1>1, <2>1 DEF Absent, InRange, NoRange, PortSays
<1>2. CASE t # Absent
  <2>1. /\ t.form = "ports" /\ t.from \in 0 .. Uint(2) - 1 /\ t.to \in 0 .. Uint(2) - 1
        /\ ~(t.from = 0 /\ t.to = 0)
    BY <1>2 DEF PlainPort
  <2>2. t.from % Uint(2) = t.from /\ t.to % Uint(2) = t.to
    <3>1. PICK U \in Nat \ {0} : U = Uint(2)
      BY Widths
    <3>2. PICK a \in 0 .. U - 1, b \in 0 .. U - 1 : a = t.from /\ b = t.to
      BY <2>1, <3>1
    <3>3. a % U = a /\ b % U = b
      BY Small
    <3> QED BY <3>1, <3>2, <3>3
  <2>3. AssignRange(PortRange(t)) = [start |-> t.from, end |-> t.to, enable |-> TRUE]
    BY <2>1, <2>2 DEF PortRange, AssignRange
  <2> QED BY <2>1, <2>3 DEF InRange, PortSays
<1> QED BY <1>1, <1>2

\* A network is the addresses of one quotient by its size.
LEMMA AddrsAsWritten ==
  ASSUME NEW t \in AddrText, PlainAddr(t), NEW p \in AddrRanges(t), NEW ip \in Addr, ip # 0
  PROVE  InRange(AssignRange(p), ip) <=> AddrSays(t, ip)
<1>0. ip \in Int
  BY DEF Addr
<1>1. CASE t = Absent
  <2>1. p = <<0, 0>>
    BY <1>1 DEF Absent, AddrRanges
  <2>2. AssignRange(p) = NoRange
    BY <2>1 DEF AssignRange
  <2> QED BY <1>1, <2>2 DEF Absent, InRange, NoRange, AddrSays
<1>2. CASE t.form = "host" /\ t.ip # 0
  <2>1. t.ip \in Int
    BY <1>2 DEF AddrText, Option, Absent, Bad, Addr
  <2>2. p = <<t.ip, t.ip>>
    BY <1>2 DEF AddrRanges
  <2>3. AssignRange(p) = [start |-> t.ip, end |-> t.ip, enable |-> TRUE]
    BY <1>2, <2>2 DEF AssignRange
  <2> QED BY <1>0, <1>2, <2>1, <2>3 DEF InRange, AddrSays
<1>3. CASE t.form = "net" /\ t.bits \in 1 .. AddrBits /\ (t.ip = 0 => t.bits < AddrBits)
  <2>1. t.ip \in Addr /\ t.ip \in Int /\ 0 <= t.ip
    BY <1>3 DEF AddrText, Option, Absent, Bad, Addr
  <2>2. AddrBits - t.bits \in Nat /\ (t.ip = 0 => AddrBits - t.bits # 0)
    BY <1>3, Widths
  <2>3. PICK M \in Nat \ {0} : M = 2 ^ (AddrBits - t.bits) /\ (t.ip = 0 => M # 1)
    BY <2>2, PowerType
  <2>4. p = NetRange(t.ip, M)
    BY <1>3, <2>3, Widths DEF AddrRanges, NetSizes
  <2>5. PICK a \in Int : a = t.ip - (t.ip % M)
    BY <2>1
  <2>6. p = <<a, a + M - 1>>
    BY <2>3, <2>4, <2>5 DEF NetRange
  <2>7. p # <<0, 0>>
    <3>1. SUFFICES ASSUME a = 0, M = 1 PROVE FALSE
      BY <2>6
    <3>2. t.ip % 1 = 0
      BY <2>1
    <3> QED BY <2>1, <2>3, <2>5, <3>1, <3>2
  <2>8. AssignRange(p) = [start |-> a, end |-> a + M - 1, enable |-> TRUE]
    BY <2>6, <2>7 DEF AssignRange
  <2>9. InRange(AssignRange(p), ip) <=> a <= ip /\ ip <= a + M - 1
    BY <1>0, <2>8 DEF InRange
  <2>10. a <= ip /\ ip <= a + M - 1 <=> ip \div M = t.ip \div M
    BY <1>0, <2>1, <2>5, SameQuotient
  <2> QED BY <1>3, <2>3, <2>9, <2>10 DEF AddrSays
<1>4. CASE t.form = "net" /\ t.bits = 0 /\ t.ip = 0
  <2>1. PICK all \in Nat \ {0} : all = 2 ^ AddrBits /\ all # 1
    BY Widths
  <2>2. p = NetRange(0, 1)
    BY <1>4 DEF AddrRanges, NetSizes
  <2>3. p = <<0, all - 1>>
    BY <2>1, <2>2 DEF NetRange
  <2>4. AssignRange(p) = [start |-> 0, end |-> all - 1, enable |-> TRUE]
    BY <2>1, <2>3 DEF AssignRange
  <2>5. ip \in Nat /\ ip < all
    BY <2>1 DEF Addr
  <2>6. InRange(AssignRange(p), ip)
    BY <2>1, <2>4, <2>5 DEF InRange
  <2>7. ip \div all = 0 /\ 0 \div all = 0
    BY <2>1, <2>5, Small
  <2>8. AddrBits - t.bits = AddrBits
    BY <1>4, Widths
  <2> QED BY <1>4, <2>1, <2>6, <2>7, <2>8 DEF AddrSays
<1> QED BY <1>1, <1>2, <1>3, <1>4 DEF PlainAddr

\* A rule that was made of a plain text does what the text says.
LEMMA RuleAsWritten ==
  ASSUME NEW t \in Text, NEW r \in Parse(t), Plain(t),
         t.proto = "udp" => t.comp["hlen"] = Absent,
         NEW pkt \in Header, pkt.proto = t.proto,
         \A f \in AddrField \cup PortField : pkt.num[f] # 0
  PROVE  CheckPacket(r, pkt) <=> Says(t, pkt)
<1>1. /\ t.addr \in [AddrField -> AddrText] /\ t.port \in [PortField -> PortText]
      /\ t.comp \in [CompField -> CompText] /\ t.flags \in FlagText
      /\ t.proto \in {"tcp", "udp", "icmp"}
      /\ \A f \in CompField \ OwnFields(t.proto) : t.comp[f] = Absent
  BY DEF Text
<1>2. /\ \A f \in AddrField : pkt.num[f] \in Addr
      /\ \A f \in PortField : pkt.num[f] \in Nat \ {0}
  <2>1. /\ pkt.num \in [AddrField \cup PortField \cup (CompField \ {"hlen"}) -> Nat]
        /\ \A f \in DOMAIN pkt.num : pkt.num[f] < Sizes(f)
    BY DEF Header
  <2>2. \A f \in AddrField \cup PortField : pkt.num[f] \in Nat /\ pkt.num[f] < Sizes(f)
    BY <2>1
  <2> QED BY <2>2, Widths DEF Addr
<1>3. ASSUME NEW f \in AddrField
      PROVE  InRange(r.range[f], pkt.num[f]) <=> AddrSays(t.addr[f], pkt.num[f])
  <2>1. PICK p \in AddrRanges(t.addr[f]) : r.range[f] = AssignRange(p)
    BY ParseFacts
  <2>2. PlainAddr(t.addr[f])
    BY DEF Plain
  <2> QED BY <1>1, <1>2, <2>1, <2>2, AddrsAsWritten
<1>4. ASSUME NEW f \in PortField
      PROVE  InRange(r.range[f], pkt.num[f]) <=> PortSays(t.port[f], pkt.num[f])
  <2>1. r.range[f] = AssignRange(PortRange(t.port[f])) /\ PlainPort(t.port[f])
    BY ParseFacts DEF Plain
  <2> QED BY <1>1, <1>2, <2>1, PortsAsWritten
<1>5. ASSUME NEW f \in CompField
      PROVE  InComp(r.comp[f], Field(pkt, f)) <=> CompSays(t.comp[f], FieldInBytes(pkt, f))
  <2>1. /\ r.comp[f] = NumComp(f, t.comp[f]) /\ t.comp[f] # Bad
        /\ t.comp[f] # Absent => t.comp[f].num < Sizes(f)
    BY ParseFacts DEF Plain, WellFormed
  <2>2. \A num : InComp(r.comp[f], num) <=> CompSays(t.comp[f], num)
    BY <1>1, <2>1, CompsAsWritten
  <2>3. CASE f # "hlen" \/ t.proto = "tcp"
    BY <2>2, <2>3 DEF Field, FieldInBytes, HeaderLen
  <2>4. CASE f = "hlen" /\ t.proto # "tcp"
    <3>1. t.comp[f] = Absent
      BY <1>1, <2>4 DEF OwnFields
    <3>2. \A num : CompSays(t.comp[f], num)
      BY <3>1 DEF CompSays, Absent
    <3> QED BY <2>2, <3>2
  <2> QED BY <2>3, <2>4
<1>6. InFlags(r.flags, pkt.flags) <=> FlagsSay(t.flags, pkt.flags)
  BY <1>1, ParseFacts, FlagsAsWritten DEF Plain
<1> QED BY <1>3, <1>4, <1>5, <1>6 DEF CheckPacket, Says

\* Numbers that fit are not cut.
LEMMA ThresholdsAsWritten ==
  ASSUME NEW t \in Text, NEW r \in Parse(t), NEW m \in Metric, t.th[m] # Absent
  PROVE  LET written == t.th[m].num * Factor[t.th[m].prefix]
             kept == written \div (IF m = "bps" THEN ByteBits ELSE 1)
         IN  written < Uint(8) /\ kept < Uint(4) => r.trigger[m] = kept
<1>1. t.th[m] \in SizeText /\ t.th[m] # Bad
  BY ParseFacts DEF Text, WellFormed
<1>2. t.th[m].form = "size" /\ t.th[m].num \in Nat /\ t.th[m].prefix \in Prefix
  BY <1>1 DEF SizeText, Option
<1>3. PICK U \in Nat \ {0}, V \in Nat \ {0}, D \in Nat \ {0} :
        U = Uint(4) /\ V = Uint(8) /\ D = IF m = "bps" THEN ByteBits ELSE 1
  BY Widths
<1>4. PICK x \in Nat : x = Factor[t.th[m].prefix]
  BY <1>2, FactorFacts
<1>5. PICK w \in Nat : w = t.th[m].num * x
  BY <1>2
<1>6. PICK k \in Nat : k = w \div D
  OBVIOUS
<1>7. r.trigger[m] = ((w % V) \div D) % U
  <2>1. r.trigger[m] = Threshold(m, t.th[m])
    <3>1. r.trigger = [n \in Metric |-> Threshold(n, t.th[n])]
      BY ParseFacts
    <3> QED BY <3>1
  <2>2. Threshold(m, t.th[m]) = ((w % V) \div D) % U
    <3> HIDE DEF Factor
    <3> QED BY <1>2, <1>3, <1>4, <1>5 DEF Threshold
  <2> QED BY <2>1, <2>2
<1>8. w < V /\ k < U => r.trigger[m] = k
  BY <1>6, <1>7, Small
<1> QED BY <1>3, <1>4, <1>5, <1>6, <1>8

-----------------------------------------------------------------------------
(* operator==.                                                             *)

\* What the assignments of the parser keep true of a rule's conditions.
Honest(r) ==
  /\ \A f \in AddrField \cup PortField :
       /\ r.range[f].enable \in BOOLEAN
       /\ r.range[f].enable <=> ~(r.range[f].start = 0 /\ r.range[f].end = 0)
  /\ \A f \in CompField :
       /\ r.comp[f].enable \in BOOLEAN
       /\ ~r.comp[f].enable => r.comp[f].num = 0

\* The ranges of the parser are pairs, and the assignment is off for 0-0 only.
LEMMA AssignHonest ==
  ASSUME NEW a, NEW b
  PROVE  LET r == AssignRange(<<a, b>>)
         IN  r.enable \in BOOLEAN /\ (r.enable <=> ~(r.start = 0 /\ r.end = 0))
<1>1. CASE a = 0 /\ b = 0
  BY <1>1 DEF AssignRange, NoRange
<1>2. CASE ~(a = 0 /\ b = 0)
  <2>1. <<a, b>> # <<0, 0>>
    BY <1>2
  <2>2. AssignRange(<<a, b>>) = [start |-> a, end |-> b, enable |-> TRUE]
    BY <2>1 DEF AssignRange
  <2>3. /\ AssignRange(<<a, b>>).start = a /\ AssignRange(<<a, b>>).end = b
        /\ AssignRange(<<a, b>>).enable = TRUE
    BY <2>2
  <2> QED BY <1>2, <2>3
<1> QED BY <1>1, <1>2

LEMMA AddrRangesArePairs ==
  ASSUME NEW t, NEW p \in AddrRanges(t)
  PROVE  \E a, b : p = <<a, b>>
BY DEF AddrRanges, NetRange

LEMMA PortRangesArePairs ==
  ASSUME NEW t
  PROVE  \E a, b : PortRange(t) = <<a, b>>
BY DEF PortRange

\* Whatever a text becomes, it is a rule with honest conditions.
LEMMA ParseHonest ==
  ASSUME NEW t, NEW r \in Parse(t)
  PROVE  Honest(r)
<1>1. PICK s \in AddrRanges(t.addr["src"]), d \in AddrRanges(t.addr["dst"]) :
        r = MakeRule(t, [f \in AddrField |-> IF f = "src" THEN s ELSE d])
  BY DEF Parse
<1> DEFINE pair(f) == IF f \in AddrField THEN IF f = "src" THEN s ELSE d
                                         ELSE PortRange(t.port[f])
<1>2. \A f \in AddrField \cup PortField : r.range[f] = AssignRange(pair(f))
  BY <1>1 DEF MakeRule
<1>3. \A f : \E a, b : pair(f) = <<a, b>>
  BY AddrRangesArePairs, PortRangesArePairs
<1>4. \A f \in CompField : r.comp[f] = NumComp(f, t.comp[f])
  BY <1>1 DEF MakeRule
<1> HIDE DEF pair
<1>5. ASSUME NEW f \in AddrField \cup PortField
      PROVE  /\ r.range[f].enable \in BOOLEAN
             /\ r.range[f].enable <=> ~(r.range[f].start = 0 /\ r.range[f].end = 0)
  <2>1. PICK a, b : pair(f) = <<a, b>>
    BY <1>3
  <2> QED BY <2>1, <1>2, AssignHonest
<1>6. ASSUME NEW f \in CompField
      PROVE  r.comp[f].enable \in BOOLEAN /\ (~r.comp[f].enable => r.comp[f].num = 0)
  <2>1. CASE t.comp[f].form = "comp"
    <3>1. r.comp[f] = [num |-> t.comp[f].num % Sizes(f), op |-> t.comp[f].op, enable |-> TRUE]
      BY <1>4, <2>1 DEF NumComp
    <3>2. r.comp[f].enable = TRUE
      BY <3>1
    <3> QED BY <3>2
  <2>2. CASE t.comp[f].form # "comp"
    <3>1. r.comp[f] = NoComp
      BY <1>4, <2>2 DEF NumComp
    <3>2. r.comp[f].enable = FALSE /\ r.comp[f].num = 0
      BY <3>1 DEF NoComp
    <3> QED BY <3>2
  <2> QED BY <2>1, <2>2
<1> QED BY <1>5, <1>6 DEF Honest

\* Two honest rules that operator== takes for equal differ in nothing that
\* check_packet looks at, unless they are ZeroApart.
LEMMA EqualAccept ==
  ASSUME NEW r, NEW s, Honest(r), Honest(s), EqualRules(r, s), ~ZeroApart(r, s), NEW pkt
  PROVE  CheckPacket(r, pkt) <=> CheckPacket(s, pkt)
<1>1. ASSUME NEW f \in AddrField \cup PortField, NEW num
      PROVE  InRange(r.range[f], num) <=> InRange(s.range[f], num)
  <2>1. r.range[f].start = s.range[f].start /\ r.range[f].end = s.range[f].end
    BY DEF EqualRules, EqualRange
  <2>2. r.range[f].enable <=> s.range[f].enable
    BY <2>1 DEF Honest
  <2> QED BY <2>1, <2>2 DEF InRange
<1>2. ASSUME NEW f \in CompField, NEW num
      PROVE  InComp(r.comp[f], num) <=> InComp(s.comp[f], num)
  <2>1. r.comp[f].num = s.comp[f].num /\ r.comp[f].op = s.comp[f].op
    BY DEF EqualRules, EqualComp
  <2>2. r.comp[f].enable \in BOOLEAN /\ s.comp[f].enable \in BOOLEAN
    BY DEF Honest
  <2>3. r.comp[f].enable = s.comp[f].enable
    BY <2>1, <2>2 DEF Honest, ZeroApart
  <2> QED BY <2>1, <2>3 DEF InComp
<1>3. r.flags = s.flags
  BY DEF EqualRules
<1> QED BY <1>1, <1>2, <1>3 DEF CheckPacket

-----------------------------------------------------------------------------
(* The rule of main_collect and the rule of a thread.                      *)

\* Both rules are what the parser made of a text.
Parsed ==
  /\ mainText \in Texts /\ main \in Parse(mainText)
  /\ copyText \in Texts /\ copy \in Parse(copyText)

\* Rules are replaced and copied whole, with their texts.
THEOREM RulesParsed == Spec => []Parsed
<1>1. Init => Parsed
  BY DEF Init, Parsed
<1>2. Parsed /\ [Next]_vars => Parsed'
  <2> SUFFICES ASSUME Parsed, [Next]_vars PROVE Parsed'
    OBVIOUS
  <2>1. ASSUME NEW t \in Texts, Replace(t) PROVE Parsed'
    BY <2>1 DEF Replace, Parsed
  <2>2. CASE Sync
    BY <2>2 DEF Sync, Parsed
  <2>3. CASE UNCHANGED vars
    BY <2>3 DEF vars, Parsed
  <2> QED BY <2>1, <2>2, <2>3 DEF Next
<1> QED BY <1>1, <1>2, PTL DEF Spec

\* Whatever users write, the numbers of the rule that is made of it keep the
\* widths of their fields.
THEOREM RulesType == Spec => []TypeOK
<1>1. Parsed => TypeOK
  <2> SUFFICES ASSUME Parsed PROVE TypeOK
    OBVIOUS
  <2>1. mainText \in Text /\ copyText \in Text
    BY TextsAssumption DEF Parsed
  <2> QED BY <2>1, ParseType DEF Parsed, TypeOK
<1> QED BY <1>1, RulesParsed, PTL

\* A plain rule accepts the packets its text describes and no others, through
\* parser and check_packet: whatever the widths, the texts and the packets.
THEOREM RulesMatchAsWritten == Spec => []MatchesAsWritten
<1>1. Parsed => MatchesAsWritten
  <2> SUFFICES ASSUME Parsed, Plain(mainText),
                      mainText.proto = "udp" => mainText.comp["hlen"] = Absent,
                      NEW pkt \in PlainPackets(mainText.proto)
               PROVE  CheckPacket(main, pkt) <=> Says(mainText, pkt)
    BY DEF MatchesAsWritten
  <2>1. mainText \in Text /\ main \in Parse(mainText)
    BY TextsAssumption DEF Parsed
  <2>2. pkt \in Header /\ pkt.proto = mainText.proto
        /\ \A f \in AddrField \cup PortField : pkt.num[f] # 0
    BY PacketsAssumption DEF PlainPackets
  <2> QED BY <2>1, <2>2, RuleAsWritten
<1> QED BY <1>1, RulesParsed, PTL

\* A threshold is the number that was written, whenever that number fits.
THEOREM RulesKeepThresholds == Spec => []ThresholdAsWritten
<1>1. Parsed => ThresholdAsWritten
  <2> SUFFICES ASSUME Parsed PROVE ThresholdAsWritten
    OBVIOUS
  <2>1. mainText \in Text /\ main \in Parse(mainText)
    BY TextsAssumption DEF Parsed
  <2> QED BY <2>1, ThresholdsAsWritten DEF ThresholdAsWritten
<1> QED BY <1>1, RulesParsed, PTL

\* A thread whose rule operator== takes for that of main_collect accepts the
\* same packets, unless one of the two compares with 0 what the other does
\* not compare: whatever the widths, the texts and the packets.
THEOREM RulesSyncedAlike == Spec => []SyncedAlike
<1>1. Parsed => SyncedAlike
  <2> SUFFICES ASSUME Parsed PROVE SyncedAlike
    OBVIOUS
  <2>1. Honest(main) /\ Honest(copy)
    BY ParseHonest DEF Parsed
  <2> QED BY <2>1, EqualAccept DEF SyncedAlike
<1> QED BY <1>1, RulesParsed, PTL
=============================================================================
