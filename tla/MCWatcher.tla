------------------------------ MODULE MCWatcher ------------------------------
(***************************************************************************)
(* Small instances of Watcher for TLC.  Rule a is an ordinary rule, rule n *)
(* says --next, so a packet may count for n and for a.                     *)
(***************************************************************************)
EXTENDS Watcher

CONSTANTS a, n, d

MCKey == {a, n}
MCNextKeys == {n}
MCDst == {d}

\* More than one packet per second sets off a, more than two bytes n.
MCTrigger == (a :> [pps |-> 1, bps |-> 0]) @@ (n :> [pps |-> 0, bps |-> 2])
MCPeriod == [k \in MCKey |-> [m \in {"pps", "bps"} |-> 1]]

SmallPacket == {[hits |-> {a}, dst |-> d, len |-> 1]}
BigPacket == {[hits |-> {a, n}, dst |-> d, len |-> 2]}
MCPackets == {[hits |-> {a, n}, dst |-> d, len |-> 2], [hits |-> {a}, dst |-> d, len |-> 1]}

\* The rules file, for one and for two protocols.
OneNext == {[p \in 1 .. 1 |-> <<n, a>>]}
OtherLists == {[p \in 1 .. 2 |-> IF p = 1 THEN <<a>> ELSE <<n>>]}
FewRules == {[p \in 1 .. 2 |-> <<a>>]}
Reloads == OtherLists \cup {[p \in 1 .. 2 |-> IF p = 1 THEN <<a>> ELSE <<>>]}
NoLists == {}
=============================================================================
