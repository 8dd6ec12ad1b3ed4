---------------------------- MODULE MCPerpMirror -----------------------------
(* Instances of PerpMirror for TLC: few followers and symbols, positions   *)
(* of one unit, every unbounded cause (leader trades, faults, user trades) *)
(* with a small bound.                                                     *)
EXTENDS PerpMirror

Sides == {-1, 0, 1}
LongOnly == {0, 1}
Flat == {0}
AllKeys == Keys
One == {1}
NoneOrOne == {0, 1}
AnyEquity == {-1, 0, 1, 2}

(* One follower's exchange does not list one of the symbols.               *)
AllButOne == Keys \ {CHOOSE k \in Keys : TRUE}
==============================================================================
