----------------------------- MODULE MCRuleMatch -----------------------------
(***************************************************************************)
(* Addresses of 3 bits, bytes of 2 bits and a kilo of 10.  Every text      *)
(* gives one or two options and leaves the rest at one default, so that    *)
(* every option meets its boundaries, and pairs of texts differ in any     *)
(* two of them.                                                            *)
(***************************************************************************)
EXTENDS RuleMatch

Host(a) == [form |-> "host", ip |-> a]
Net(a, b) == [form |-> "net", ip |-> a, bits |-> b]
Ports(a, b) == [form |-> "ports", from |-> a, to |-> b]
Comp(o, n) == [form |-> "comp", op |-> o, num |-> n]
Size(n, p) == [form |-> "size", num |-> n, prefix |-> p]
On(f) == [flag |-> f, on |-> TRUE]
Off(f) == [flag |-> f, on |-> FALSE]

\* -d 5 --pps-th 3p
Default(pr) ==
  [proto |-> pr,
   addr |-> [f \in AddrField |-> IF f = "dst" THEN Host(5) ELSE Absent],
   port |-> [f \in PortField |-> Absent],
   comp |-> [f \in CompField |-> Absent],
   flags |-> Absent,
   th |-> [m \in Metric |-> IF m = "pps" THEN Size(3, 0) ELSE Absent],
   period |-> [m \in Metric |-> 10],
   next |-> FALSE]

CompFields(pr) ==
  CASE pr = "tcp" -> {"seq", "ack", "win", "hlen"}
    [] pr = "udp" -> {"hlen"}
    [] pr = "icmp" -> {"type", "code"}

Addresses == {Bad} \cup {Host(a) : a \in 0 .. 7} \cup {Net(a, b) : a \in 0 .. 7, b \in -1 .. 4}
PortTexts == {Ports(0, 0), Ports(0, 2), Ports(3, 3), Ports(2, 5), Ports(5, 2), Ports(17, 18), Bad}

AddrTexts ==
  {[Default("icmp") EXCEPT !.addr["dst"] = a] : a \in Addresses}
    \cup {[Default("udp") EXCEPT !.addr["src"] = a] : a \in Addresses}

PortRules ==
  {[Default(pr) EXCEPT !.port[f] = p] : pr \in {"tcp", "udp"}, f \in PortField, p \in PortTexts}

CompRules ==
  UNION {{[Default(pr) EXCEPT !.comp[f] = c] : f \in CompFields(pr),
            c \in {Bad} \cup {Comp(o, n) : o \in {"=", ">", "<"}, n \in {0, 1, 3, 12, 17}}} :
         pr \in {"tcp", "udp", "icmp"}}

FlagRules ==
  {[Default("tcp") EXCEPT !.flags = fl] :
     fl \in {Bad} \cup {[form |-> "flags", list |-> l] :
                l \in {<<>>, <<On("S")>>, <<Off("S")>>, <<On("S"), Off("A")>>, <<On("S"), Off("S")>>}}}

ThresholdRules ==
  {[Default("tcp") EXCEPT !.th = [m \in Metric |-> IF m = "pps" THEN p ELSE b]] :
     p \in {Absent, Bad, Size(0, 0), Size(2, 2), Size(30, 1), Size(7, 5)},
     b \in {Absent, Size(1, 0), Size(3, 1), Size(51, 1), Size(1, 3), Size(7, 4)}}

OtherRules ==
  {[Default("tcp") EXCEPT !.next = TRUE],
   [Default("tcp") EXCEPT !.period = [m \in Metric |-> 0]]}

MCTexts ==
  {Default(pr) : pr \in {"tcp", "udp", "icmp"}}
    \cup AddrTexts \cup PortRules \cup CompRules \cup FlagRules \cup ThresholdRules
    \cup OtherRules

\* An ordinary packet to address 5, and packets that differ from it.
Ordinary(pr) ==
  [proto |-> pr,
   num |-> [f \in AddrField \cup PortField \cup (CompField \ {"hlen"}) |->
              IF f = "dst" THEN 5 ELSE 1],
   doff |-> 3, len |-> 6, flags |-> {"A"}]

MCPackets ==
  UNION {
    {[Ordinary(pr) EXCEPT !.num["dst"] = a] : a \in 0 .. 7}
      \cup {[Ordinary(pr) EXCEPT !.num["src"] = a] : a \in 0 .. 7}
      \cup {[Ordinary(pr) EXCEPT !.num[f] = n] : f \in PortField, n \in 0 .. 6}
      \cup {[Ordinary(pr) EXCEPT !.num[f] = n] : f \in CompField \ {"hlen"}, n \in {0, 1, 2, 3}}
      \cup {[Ordinary(pr) EXCEPT !.doff = n, !.len = 4 * n] : n \in 0 .. 3}
      \cup {[Ordinary(pr) EXCEPT !.flags = fl] : fl \in SUBSET {"S", "A"}} :
    pr \in {"tcp", "udp", "icmp"}}
=============================================================================
