--------------------------- MODULE ExecutionEngine ---------------------------
(***************************************************************************)
(* How large an order is: the sizing of ExecutionEngine.execute_delta and  *)
(* close (perpmirror/execution/executor.py) with the instrument's rounding *)
(* (perpmirror/models.py).  Quantities and notionals are in the same unit  *)
(* (see RiskManager).                                                      *)
(*                                                                         *)
(* A definition whose name has an underscore is a mutant: the definition   *)
(* that follows it, with a mistake the code could have made.               *)
(***************************************************************************)
EXTENDS Integers

CONSTANTS
    Step,        \* quantity_step
    MinQuantity, \* min_quantity
    MaxQuantity, \* max_quantity of one market order; 0 when there is none
    MinNotional  \* min_notional

ASSUME SizingAssumption ==
    Step \in Nat \ {0} /\ {MinQuantity, MaxQuantity, MinNotional} \subseteq Nat

Smaller(a, b) == IF a < b THEN a ELSE b

Floor(q) == (q \div Step) * Step

(* One market order's maximum, when the instrument has one.                *)
Chunk(q) == IF MaxQuantity > 0 THEN Smaller(q, Floor(MaxQuantity)) ELSE q

IncreaseQuantity(orderNotional) == Chunk(Floor(orderNotional))

ReduceQuantity(orderNotional, held) == Chunk(Smaller(Floor(orderNotional), held))

CloseQuantity(held) ==
    IF MaxQuantity > 0 /\ Floor(MaxQuantity) > 0 THEN Smaller(held, Floor(MaxQuantity))
    ELSE held

TooSmall_AtMinimum(q, reduceOnly) ==
    \/ q <= MinQuantity
    \/ ~reduceOnly /\ q < MinNotional

(* Orders execute_delta refuses to send (UnsafeOperation); close refuses   *)
(* none.                                                                   *)
TooSmall(q, reduceOnly) ==
    \/ q <= 0
    \/ q < MinQuantity
    \/ ~reduceOnly /\ q < MinNotional
==============================================================================
