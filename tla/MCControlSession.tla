--------------------------- MODULE MCControlSession ---------------------------
(***************************************************************************)
(* Lines of every kind of command, one of them ending as telnet ends it,   *)
(* and a number of two digits, which a read may cut.                       *)
(***************************************************************************)
EXTENDS ControlSession

\* A line of words, with spaces between them.
Line(words) ==
  [i \in 1 .. 2 * Len(words) |->
     IF i % 2 = 1 THEN words[(i + 1) \div 2] ELSE IF i = 2 * Len(words) THEN "NL" ELSE "SP"]

MCLines ==
  { Line(<<"add", "rule", "TCP", "-d", "host">>),
    Line(<<"insert", "rule", "TCP", "1", "-d", "host">>),
    Line(<<"del", "rule", "TCP", "0">>),
    <<"del", "SP", "rule", "SP", "TCP", "SP", "1", "CR", "NL">>,
    <<"del", "SP", "rule", "SP", "TCP", "SP", "1", "0", "NL">>,
    Line(<<"reload", "rules">>), Line(<<"show", "rules">>),
    Line(<<"?">>), Line(<<"exit">>), Line(<<"\\q">>), <<"NL">> }
MCKey == {"host", "net"}
MCRuleText == << <<"-d">>, <<"host">> >> :> "host"
MCFirstLists == [t \in Type |-> IF t = "TCP" THEN NewList(<<"net", "host">>) ELSE <<>>]
MCNone == [k \in MCKey |-> [m \in Metric |-> 0]]
===============================================================================
