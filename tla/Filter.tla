-------------------------------- MODULE Filter --------------------------------
(***************************************************************************)
(* What is left of a sequence of items when some of them are taken out:    *)
(* the packets of a ring that go to the host stack, the symbols of a       *)
(* command that are no line ending.                                        *)
(***************************************************************************)
EXTENDS Naturals, Sequences

\* The marked ones among n items, in their order.
Kept(n, item, mark) ==
  LET f[i \in 0 .. n] ==
        IF i = 0 THEN <<>> ELSE IF mark[i] THEN Append(f[i - 1], item[i]) ELSE f[i - 1]
  IN  f[n]
===============================================================================
