-------------------------- MODULE TargetCalculator ---------------------------
(***************************************************************************)
(* TargetCalculator.calculate (perpmirror/copy/calculator.py): which       *)
(* position a follower should hold, given the leader's position and the    *)
(* equities that were read in the round.  FIXED sizing puts a fixed margin *)
(* on every position, RATIO sizing copies the leader's exposure.           *)
(*                                                                         *)
(* Positions and equities are in the same unit; a division that is not     *)
(* exact is rounded down, where the code keeps the fraction.               *)
(*                                                                         *)
(* A definition whose name has an underscore is a mutant: the definition   *)
(* that follows it, with a mistake the code could have made.               *)
(***************************************************************************)
EXTENDS Integers

CONSTANTS
    CopyMode,       \* copy_mode: "fixed" or "ratio"
    FixedMargin,    \* fixed_margin_usdt
    CopyRatio,      \* copy_ratio
    CopyLeverage,   \* copy_leverage
    FixedLeverage,  \* fixed_leverage; the configuration does not check it
    MaxLeverage,    \* max_leverage of the follower
    LeaderLeverage  \* leverage of the leader's positions

ASSUME TargetAssumption ==
    /\ CopyMode \in {"fixed", "ratio"} /\ CopyLeverage \in BOOLEAN
    /\ {FixedMargin, CopyRatio, LeaderLeverage} \subseteq Nat \ {0}
    /\ {FixedLeverage, MaxLeverage} \subseteq Nat

Leverage(position) ==
    LET wished == IF CopyLeverage /\ position # 0 THEN LeaderLeverage ELSE FixedLeverage
    IN  IF wished < MaxLeverage THEN wished ELSE MaxLeverage

(* calculate raises UnsafeOperation.                                       *)
TargetFails(position, leaderEquity, equity) ==
    \/ Leverage(position) <= 0
    \/ CopyMode = "ratio" /\ position # 0 /\ leaderEquity <= 0
    \/ CopyMode = "ratio" /\ equity < 0

(* The target's size, for an open leader position.                         *)
TargetNotional(notional, position, leaderEquity, equity) ==
    IF CopyMode = "fixed" THEN FixedMargin * Leverage(position)
    ELSE (equity * notional * CopyRatio) \div leaderEquity

Target_SignedTwice(position, leaderEquity, equity) ==
    CASE position > 0 -> TargetNotional(position, position, leaderEquity, equity)
      [] position < 0 -> -TargetNotional(position, position, leaderEquity, equity)
      [] OTHER -> 0

(* The target, long positive.  An equity of zero makes it zero while the   *)
(* leader holds a position.                                                *)
Target(position, leaderEquity, equity) ==
    CASE position > 0 -> TargetNotional(position, position, leaderEquity, equity)
      [] position < 0 -> -TargetNotional(-position, position, leaderEquity, equity)
      [] OTHER -> 0
==============================================================================
