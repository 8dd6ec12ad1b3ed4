---------------------------- MODULE MCReconciler -----------------------------
(* Instances of Reconciler for TLC: one account, small positions.          *)
EXTENDS Reconciler

(* A cfg has no negative numbers and no ranges.                            *)
Turning == {-2, 0, 3}
Totals == {-2, 0, 2}
LargeOrSmall == {2, 4}
Around == -1..5
Few == {0, 1}
Flat == {0}
==============================================================================
