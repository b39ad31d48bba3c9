----------------------------- MODULE RuleMatch -----------------------------
(***************************************************************************)
(* What one rule says, what the parser makes of it and which packets it    *)
(* accepts: parser.cpp, parser.hpp and proto/*.cpp.  The text of a rule is *)
(* a record of its options, each as far as the parser can tell it apart;   *)
(* a refused text (unknown option, bad number, bad flag) is one value,     *)
(* Bad.  All three kinds of rules have all the fields: a field the kind    *)
(* lacks is never given.                                                   *)
(*                                                                         *)
(* The rule of main_collect is replaced by reloads and commands, and the   *)
(* watcher gives it to a receiver thread when operator== tells the two     *)
(* apart.                                                                  *)
(***************************************************************************)
EXTENDS Integers, Sequences, SequencesExt

CONSTANTS
  AddrBits,  \* width of an address (32)
  ByteBits,  \* width of a byte (8): the other numbers are 1, 2, 4 or 8 bytes
  Kilo,      \* 1000
  Texts,     \* the rules that users write
  Packets    \* the headers of the packets that come

Uint(bytes) == 2 ^ (bytes * ByteBits)
AddrField == {"src", "dst"}
PortField == {"sport", "dport"}
CompField == {"seq", "ack", "win", "hlen", "type", "code"}
Flag == {"U", "A", "P", "R", "S", "F"}
Metric == {"pps", "bps"}

Sizes(f) ==
  CASE f \in AddrField -> 2 ^ AddrBits
    [] f \in PortField \cup {"win", "hlen"} -> Uint(2)
    [] f \in {"seq", "ack"} -> Uint(4)
    [] f \in {"type", "code"} -> Uint(1)

\* Options that were not given, and options the parser takes exception to.
Absent == [form |-> "absent"]
Bad == [form |-> "bad"]

\* The fields above the addresses for which a kind of rule has options.
OwnFields(proto) ==
  CASE proto = "tcp" -> {"sport", "dport", "seq", "ack", "win", "hlen"}
    [] proto = "udp" -> {"sport", "dport", "hlen"}
    [] proto = "icmp" -> {"type", "code"}

\* What users can write.  The prefixes are none, K, M, G, T and P.
Prefix == 0 .. 5
Addr == 0 .. 2 ^ AddrBits - 1
Option(written) == {Absent, Bad} \cup written
AddrText == Option([form : {"host"}, ip : Addr] \cup [form : {"net"}, ip : Addr, bits : Int])
PortText == Option([form : {"ports"}, from : Int, to : Int])
CompText == Option([form : {"comp"}, op : {"=", ">", "<"}, num : Nat])
FlagText == Option([form : {"flags"}, list : Seq([flag : Flag, on : BOOLEAN])])
SizeText == Option([form : {"size"}, num : Nat, prefix : Prefix])

Text ==
  {t \in [proto  : {"tcp", "udp", "icmp"},
          addr   : [AddrField -> AddrText],
          port   : [PortField -> PortText],
          comp   : [CompField -> CompText],
          flags  : FlagText,
          th     : [Metric -> SizeText],
          period : [Metric -> Nat],
          next   : BOOLEAN] :
     /\ \A f \in PortField \ OwnFields(t.proto) : t.port[f] = Absent
     /\ \A f \in CompField \ OwnFields(t.proto) : t.comp[f] = Absent
     /\ t.proto # "tcp" => t.flags = Absent}

\* What packets can hold.
Header ==
  {pkt \in [proto : {"tcp", "udp", "icmp"},
            num   : [AddrField \cup PortField \cup (CompField \ {"hlen"}) -> Nat],
            doff  : Nat,
            len   : Nat,
            flags : SUBSET Flag] :
     \A f \in DOMAIN pkt.num : pkt.num[f] < Sizes(f)}

ASSUME WidthAssumption == {AddrBits, ByteBits, Kilo} \subseteq Nat \ {0}
ASSUME TextsAssumption == Texts \subseteq Text
ASSUME PacketsAssumption == Packets \subseteq Header

VARIABLES
  mainText, main,  \* the rule of main_collect and its text
  copyText, copy   \* the rule of a receiver thread and its text

vars == <<mainText, main, copyText, copy>>

-----------------------------------------------------------------------------
(* NumRange, NumComparable and tcp_flags.                                  *)

NoRange == [start |-> 0, end |-> 0, enable |-> FALSE]
NoComp == [num |-> 0, op |-> "=", enable |-> FALSE]
NoFlags == [bits |-> {}, mask |-> {}, enable |-> FALSE]

\* The assignment leaves a new range alone when it gets 0-0.
AssignRange(p) ==
  IF p = <<0, 0>> THEN NoRange ELSE [start |-> p[1], end |-> p[2], enable |-> TRUE]

InRange(r, num) == r.enable => num # 0 /\ num >= r.start /\ num <= r.end

Compares(op, num, other) ==
  CASE op = "=" -> num = other
    [] op = ">" -> num > other
    [] op = "<" -> num < other

InComp(c, num) == c.enable => Compares(c.op, num, c.num)

InFlags(fl, flags) == fl.enable => flags \cap fl.mask = fl.bits

\* operator== looks at the numbers and not at enable_.
EqualRange(r, s) == r.start = s.start /\ r.end = s.end
EqualComp(c, d) == c.num = d.num /\ c.op = d.op

-----------------------------------------------------------------------------
(* The parser.                                                             *)

\* How many addresses a network has: 1 << (32 - bits), a shift that is
\* undefined for more than 32 bits; a mask of ones stands for 0 bits.
NetSizes(bits) ==
  IF bits <= 0 THEN {1}
  ELSE IF bits <= AddrBits THEN {2 ^ (AddrBits - bits)}
  ELSE {2 ^ s : s \in 0 .. AddrBits - 1}

\* Faulty variant: the end is the first address after the network.
NetRangeOpen(ip, size) == <<ip - (ip % size), ip - (ip % size) + size>>

NetRange(ip, size) ==
  <<ip - (ip % size),
    IF ip = 0 /\ size = 1 THEN 2 ^ AddrBits - 1 ELSE ip - (ip % size) + size - 1>>

\* range_from_ip_string: an address it cannot read becomes 0-0, and so no
\* condition at all.
AddrRanges(t) ==
  CASE t.form = "host" -> {<<t.ip, t.ip>>}
    [] t.form = "net" -> {NetRange(t.ip, size) : size \in NetSizes(t.bits)}
    [] OTHER -> {<<0, 0>>}

\* Faulty variant: the numbers keep their width.
PortRangeUncut(t) == IF t.form = "ports" THEN <<t.from, t.to>> ELSE <<0, 0>>

\* range_from_port_string cuts what atoi reads to a uint16_t; atoi reads 0
\* where there is no number.
PortRange(t) ==
  IF t.form = "ports" THEN <<t.from % Uint(2), t.to % Uint(2)>> ELSE <<0, 0>>

\* numcomp_from_string cuts the number to the width of the field.
NumComp(f, t) ==
  IF t.form = "comp" THEN [num |-> t.num % Sizes(f), op |-> t.op, enable |-> TRUE]
  ELSE NoComp

\* bitset_from_string: the last word on a flag counts.
FlagSet(t) ==
  IF t.form = "flags"
  THEN LET said == ToSet(t.list)
           last(f) == CHOOSE i \in DOMAIN t.list :
                        /\ t.list[i].flag = f
                        /\ \A j \in DOMAIN t.list : t.list[j].flag = f => j <= i
           mask == {s.flag : s \in said}
       IN  [bits |-> {f \in mask : t.list[last(f)].on}, mask |-> mask, enable |-> TRUE]
  ELSE NoFlags

\* What the loop of from_short_size multiplies a number with a prefix by.
Factor[pos \in Prefix] == IF pos = 0 THEN 1 ELSE Kilo * Factor[pos - 1]

\* Faulty variant: bits become bytes before the prefix is applied.
DivideFirst(m, t) ==
  IF t.form # "size" THEN 0
  ELSE (((t.num \div (IF m = "bps" THEN ByteBits ELSE 1)) * Factor[t.prefix]) % Uint(8)) % Uint(4)

\* from_short_size counts in a uint64_t and BaseRule_parse stores the result
\* in a uint32_t.  bps-th is given in bits and kept in bytes.
Threshold(m, t) ==
  IF t.form # "size" THEN 0
  ELSE (((t.num * Factor[t.prefix]) % Uint(8)) \div (IF m = "bps" THEN ByteBits ELSE 1)) % Uint(4)

MakeRule(t, ranges) ==
  [proto   |-> t.proto,
   range   |-> [f \in AddrField \cup PortField |->
                  AssignRange(IF f \in AddrField THEN ranges[f] ELSE PortRange(t.port[f]))],
   comp    |-> [f \in CompField |-> NumComp(f, t.comp[f])],
   flags   |-> FlagSet(t.flags),
   trigger |-> [m \in Metric |-> Threshold(m, t.th[m])],
   period  |-> t.period,
   next    |-> t.next]

\* What makes the parser throw, ip_header_parse and BaseRule_parse included.
WellFormed(t) ==
  /\ \A f \in CompField : t.comp[f] # Bad
  /\ t.flags # Bad /\ (t.flags.form = "flags" => t.flags.list # <<>>)
  /\ \A m \in Metric : t.th[m] # Bad

Complete(r) ==
  /\ \E f \in AddrField : r.range[f].enable
  /\ \E m \in Metric : r.trigger[m] > 0
  /\ \A m \in Metric : r.trigger[m] > 0 => r.period[m] >= 1

\* The rules a text may become: none when it is refused.
Parse(t) ==
  {r \in {MakeRule(t, [f \in AddrField |-> IF f = "src" THEN s ELSE d]) :
            s \in AddrRanges(t.addr["src"]), d \in AddrRanges(t.addr["dst"])} :
     WellFormed(t) /\ Complete(r)}

-----------------------------------------------------------------------------
(* check_packet.                                                           *)

\* A uint16_t read in the wrong byte order.
Swap(num) == (num % Uint(1)) * Uint(1) + num \div Uint(1)

\* The length of a TCP header comes in words of four bytes; that of a UDP
\* packet is read as it lies in the packet.
HeaderLen(pkt) == IF pkt.proto = "tcp" THEN pkt.doff * 4 ELSE Swap(pkt.len)

Field(pkt, f) == IF f = "hlen" THEN HeaderLen(pkt) ELSE pkt.num[f]

CheckPacket(r, pkt) ==
  /\ \A f \in AddrField \cup PortField : InRange(r.range[f], pkt.num[f])
  /\ \A f \in CompField : InComp(r.comp[f], Field(pkt, f))
  /\ InFlags(r.flags, pkt.flags)

\* Faulty variant: the ports are left out.
EqualButPorts(r, s) ==
  /\ \A f \in AddrField : EqualRange(r.range[f], s.range[f])
  /\ \A f \in CompField : EqualComp(r.comp[f], s.comp[f])
  /\ r.flags = s.flags /\ r.next = s.next
  /\ r.trigger = s.trigger /\ r.period = s.period

EqualRules(r, s) ==
  /\ \A f \in AddrField \cup PortField : EqualRange(r.range[f], s.range[f])
  /\ \A f \in CompField : EqualComp(r.comp[f], s.comp[f])
  /\ r.flags = s.flags /\ r.next = s.next
  /\ r.trigger = s.trigger /\ r.period = s.period

-----------------------------------------------------------------------------
NumRange(f) == [start : 0 .. Sizes(f) - 1, end : 0 .. Sizes(f) - 1, enable : BOOLEAN]
NumComparable(f) == [num : 0 .. Sizes(f) - 1, op : {"=", ">", "<"}, enable : BOOLEAN]

IsRule(r) ==
  /\ \A f \in AddrField \cup PortField : r.range[f] \in NumRange(f)
  /\ \A f \in CompField : r.comp[f] \in NumComparable(f)
  /\ r.flags \in [bits : SUBSET Flag, mask : SUBSET Flag, enable : BOOLEAN]
  /\ r.trigger \in [Metric -> 0 .. Uint(4) - 1]

TypeOK ==
  /\ {mainText, copyText} \subseteq Texts
  /\ IsRule(main) /\ IsRule(copy)

Init ==
  /\ mainText \in Texts
  /\ main \in Parse(mainText)
  /\ copyText = mainText /\ copy = main

\* A reload or two commands put another rule of the list's protocol in the
\* place of this one.
Replace(t) ==
  /\ t.proto = main.proto
  /\ main' \in Parse(t)
  /\ mainText' = t
  /\ UNCHANGED <<copyText, copy>>

\* The watcher's test of the thread's collection and its update.
Sync ==
  /\ ~EqualRules(copy, main)
  /\ copy' = main /\ copyText' = mainText
  /\ UNCHANGED <<mainText, main>>

Next == (\E t \in Texts : Replace(t)) \/ Sync

Spec == Init /\ [][Next]_vars

-----------------------------------------------------------------------------
(* What the options say, in the words of the help text, and the texts for  *)
(* which the code does that.                                               *)

AddrSays(t, ip) ==
  CASE t.form = "host" -> ip = t.ip
    [] t.form = "net" -> ip \div 2 ^ (AddrBits - t.bits) = t.ip \div 2 ^ (AddrBits - t.bits)
    [] OTHER -> TRUE

PortSays(t, port) == t.form = "ports" => t.from <= port /\ port <= t.to
CompSays(t, num) == t.form = "comp" => Compares(t.op, num, t.num)
FlagsSay(t, flags) ==
  t.form = "flags" => \A s \in ToSet(t.list) : (s.flag \in flags) = s.on

\* --hlen is in bytes.
FieldInBytes(pkt, f) ==
  IF f = "hlen" THEN IF pkt.proto = "tcp" THEN pkt.doff * 4 ELSE pkt.len ELSE pkt.num[f]

Says(t, pkt) ==
  /\ \A f \in AddrField : AddrSays(t.addr[f], pkt.num[f])
  /\ \A f \in PortField : PortSays(t.port[f], pkt.num[f])
  /\ \A f \in CompField : CompSays(t.comp[f], FieldInBytes(pkt, f))
  /\ FlagsSay(t.flags, pkt.flags)

\* Addresses that can be read, with a mask of 1 to 32 bits or 0.0.0.0/0, and
\* without the address 0.0.0.0 alone; numbers that fit their fields; no flag
\* that is asked to be both set and not set.
PlainAddr(t) ==
  \/ t = Absent
  \/ t.form = "host" /\ t.ip # 0
  \/ t.form = "net" /\ t.bits \in 1 .. AddrBits /\ (t.ip = 0 => t.bits < AddrBits)
  \/ t.form = "net" /\ t.bits = 0 /\ t.ip = 0

PlainPort(t) ==
  \/ t = Absent
  \/ /\ t.form = "ports"
     /\ {t.from, t.to} \subseteq 0 .. Uint(2) - 1
     /\ {t.from, t.to} # {0}

PlainFlags(t) ==
  t.form = "flags" =>
    \A s, u \in ToSet(t.list) : s.flag = u.flag => s.on = u.on

Plain(t) ==
  /\ \A f \in AddrField : PlainAddr(t.addr[f])
  /\ \A f \in PortField : PlainPort(t.port[f])
  /\ \A f \in CompField : t.comp[f] # Absent => t.comp[f].num < Sizes(f)
  /\ PlainFlags(t.flags)

\* Packets without the address 0.0.0.0 and the port 0, which no range holds.
PlainPackets(proto) ==
  {pkt \in Packets : pkt.proto = proto
                     /\ \A f \in AddrField \cup PortField : pkt.num[f] # 0}

-----------------------------------------------------------------------------
(* Properties.                                                             *)

\* A plain rule accepts the packets its text describes and no others,
\* through parser and check_packet; UDP rules with --hlen are no such rules.
MatchesAsWritten ==
  Plain(mainText) /\ (mainText.proto = "udp" => mainText.comp["hlen"] = Absent) =>
    \A pkt \in PlainPackets(mainText.proto) : CheckPacket(main, pkt) <=> Says(mainText, pkt)

\* A threshold is the number that was written whenever that number fits the
\* uint32_t it is kept in and the uint64_t it is computed in.
ThresholdAsWritten ==
  \A m \in Metric :
    mainText.th[m] # Absent =>
      LET written == mainText.th[m].num * Factor[mainText.th[m].prefix]
          kept == written \div (IF m = "bps" THEN ByteBits ELSE 1)
      IN  written < Uint(8) /\ kept < Uint(4) => main.trigger[m] = kept

\* One of two comparisons is with 0 and the other is not asked for.
ZeroApart(r, s) ==
  \E f \in CompField : r.comp[f].enable # s.comp[f].enable
                       /\ 0 = r.comp[f].num /\ 0 = s.comp[f].num

\* A thread whose rule the watcher takes for that of main_collect, although
\* operator== never looks at enable_, accepts the packets main_collect's rule
\* would accept, unless one of the two compares with 0 what the other does
\* not compare.
SyncedAlike ==
  EqualRules(copy, main) /\ ~ZeroApart(copy, main) =>
    \A pkt \in Packets : CheckPacket(copy, pkt) <=> CheckPacket(main, pkt)
=============================================================================
