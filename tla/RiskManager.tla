----------------------------- MODULE RiskManager -----------------------------
(***************************************************************************)
(* RiskManager.check of perpmirror/risk/manager.py, as a predicate.        *)
(*                                                                         *)
(* Here and in the modules that use this one a position is an integer:     *)
(* positive when long, negative when short, 0 when the exchange reports    *)
(* none.  Prices do not move and one unit of quantity is worth one unit of *)
(* notional, so the absolute value is the quantity and the notional.       *)
(*                                                                         *)
(* A definition whose name has an underscore is a mutant: the definition   *)
(* that follows it, with a mistake the code could have made.               *)
(***************************************************************************)
EXTENDS Integers, FiniteSets, FiniteSetsExt

CONSTANTS
    Symbols,          \* normalized symbols
    Tradable,         \* symbols that pass allowlist, blocklist and leverage
    KillSwitchCloses, \* kill_switch_close_positions
    AllowShort,       \* allow_short
    MaxSymbol,        \* max_single_symbol_notional_usdt
    MaxTotal,         \* max_total_notional_usdt
    MaxOrder,         \* max_order_notional_usdt
    MinOrder,         \* min_order_notional_usdt
    MaxOpenSymbols    \* max_open_symbols

ASSUME RiskAssumption ==
    /\ Tradable \subseteq Symbols /\ IsFiniteSet(Symbols)
    /\ {KillSwitchCloses, AllowShort} \subseteq BOOLEAN
    /\ {MaxSymbol, MaxTotal, MaxOrder, MinOrder, MaxOpenSymbols} \subseteq Nat

Abs(n) == IF n < 0 THEN -n ELSE n

Increases == {"OPEN", "ADD"}
Reductions == {"CLOSE", "REDUCE"}

(* The sum of abs_notional over an account's positions.                    *)
Exposure(positions) == MapThenSumSet(LAMBDA s : Abs(positions[s]), Symbols)

OpenSymbols(positions) == {s \in Symbols : positions[s] # 0}

ReductionAllowed(killSwitch) == killSwitch => KillSwitchCloses

IncreaseAllowed_ThisSymbolOnly(killSwitch, s, target, actual, positions, orderNotional) ==
    /\ ~killSwitch
    /\ target < 0 => AllowShort
    /\ s \in Tradable
    /\ Abs(target) <= MaxSymbol
    /\ MinOrder <= orderNotional /\ orderNotional <= MaxOrder
    /\ Abs(target) <= MaxTotal
    /\ actual = 0 => Cardinality(OpenSymbols(positions)) < MaxOpenSymbols

(* killSwitch is the setting; actual is the caller's own, earlier reading  *)
(* of the symbol's position; positions is the whole account as read now.   *)
IncreaseAllowed(killSwitch, s, target, actual, positions, orderNotional) ==
    /\ ~killSwitch
    /\ target < 0 => AllowShort
    /\ s \in Tradable
    /\ Abs(target) <= MaxSymbol
    /\ orderNotional <= MaxOrder
    /\ Exposure(positions) - Abs(actual) + Abs(target) <= MaxTotal
    /\ actual = 0 => Cardinality(OpenSymbols(positions)) < MaxOpenSymbols
    /\ orderNotional >= MinOrder

RiskAllowed(killSwitch, s, target, actual, positions, action, orderNotional) ==
    /\ action \in Reductions => ReductionAllowed(killSwitch)
    /\ action \in Increases =>
          IncreaseAllowed(killSwitch, s, target, actual, positions, orderNotional)
==============================================================================
