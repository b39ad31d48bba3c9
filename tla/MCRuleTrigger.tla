---------------------------- MODULE MCRuleTrigger ----------------------------
(***************************************************************************)
(* One rule with both triggers set, periods of different lengths, and      *)
(* rates at and above the threshold.                                       *)
(***************************************************************************)
EXTENDS RuleTrigger

CONSTANTS a, d

MCKey == {a}
MCDst == {d}
MCTrigger == [k \in MCKey |-> [m \in {"pps", "bps"} |-> 1]]
MCPeriod == [k \in MCKey |-> [m \in {"pps", "bps"} |-> IF m = "pps" THEN 2 ELSE 1]]
=============================================================================
