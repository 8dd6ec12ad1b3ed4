--------------------------- MODULE OrderSubmission ----------------------------
(***************************************************************************)
(* How one market order reaches an exchange and what its caller learns of  *)
(* it: ReliableHttpClient.request (perpmirror/exchanges/http.py), the      *)
(* signed request, place_market_order and verify_order of the Binance and  *)
(* OKX adapters, and ExecutionEngine's query after a lost answer           *)
(* (perpmirror/execution/executor.py).                                     *)
(*                                                                         *)
(* Calls follow one another on one symbol of one account.  Requests and    *)
(* answers may be lost or slow: a submission may reach the exchange after  *)
(* its caller has given up, and an order may execute after its call ended. *)
(*                                                                         *)
(* A definition whose name has an underscore is a mutant: the definition   *)
(* that follows it, with a mistake the code could have made.               *)
(***************************************************************************)
EXTENDS Integers, FiniteSets

CONSTANTS
    Adapters,      \* adapters in use: "binance", "okx"
    PositionModes, \* modes the account may have: "one_way", "hedge"
    Clocks,        \* how the local clock may be: "right", "off", "wrong"
    Retries,       \* attempts of a request that may be repeated
    PartialFills,  \* a market order may fill in part
    Quantities,    \* quantities of an order
    MaxOrders,     \* bound on the orders sent
    MaxFaults      \* bound on lost requests and answers

ASSUME OrderSubmissionAssumption ==
    /\ Adapters \subseteq {"binance", "okx"}
    /\ PositionModes \subseteq {"one_way", "hedge"}
    /\ Clocks \subseteq {"right", "off", "wrong"}
    /\ Quantities \subseteq Nat \ {0}
    /\ PartialFills \in BOOLEAN
    /\ Retries \in Nat \ {0} /\ {MaxOrders, MaxFaults} \subseteq Nat

Ids == 1..MaxOrders

VARIABLES
    adapter, mode, \* the adapter and the account's position mode, fixed
    clock,   \* the local clock: "off" until it is synchronised, or for ever "wrong"
    legs,    \* the account: how much is held long and how much short
    orders,  \* orders[id]: the order with this client order id
    sent,    \* how many orders were sent; the last one's client order id
    pc,      \* where the call under way is
    seen,    \* the position the caller read last
    want,    \* the order the call is about to send
    attempt, \* attempts of the repeatable request under way
    resent,  \* the submission was repeated with a new timestamp
    result,  \* how the last call ended
    faults   \* losses still to come

vars == <<adapter, mode, clock, legs, orders, sent, pc, seen, want, attempt,
          resent, result, faults>>

fixed == <<adapter, mode>>

-----------------------------------------------------------------------------
(* Orders and what is put into a submission.                               *)
Unsent == [quantity |-> 0, delta |-> 0, reduce |-> FALSE, state |-> "unsent", done |-> 0]

(* What is still to fill of an order's quantity: delta has its sign.       *)
Size(o) == IF o.delta < 0 THEN -o.delta ELSE o.delta

(* The side of the position an order opens or closes (position_side).      *)
Leg(o) == IF (o.delta > 0) = ~o.reduce THEN "long" ELSE "short"

Parameters_OrderSide(o) ==
    [leg |-> IF mode = "hedge" THEN IF o.delta > 0 THEN "long" ELSE "short" ELSE "net",
     reduceOnly |-> mode = "one_way" /\ o.reduce]

(* positionSide or posSide, and reduceOnly: a hedge account's order names  *)
(* its leg, a one-way account's says whether it reduces.                   *)
Parameters(o) ==
    [leg |-> IF mode = "hedge" THEN Leg(o) ELSE "net",
     reduceOnly |-> mode = "one_way" /\ o.reduce]

-----------------------------------------------------------------------------
(* The exchange.                                                           *)
Net == legs.long - legs.short

Split(net) == [long |-> IF net > 0 THEN net ELSE 0, short |-> IF net < 0 THEN -net ELSE 0]

Smaller(a, b) == IF a < b THEN a ELSE b

BothLegs == legs.long > 0 /\ legs.short > 0

Opens(o) == (o.delta > 0) = (Parameters(o).leg = "long")

(* How much of a live order can fill.                                      *)
Fillable(o) ==
    LET p == Parameters(o)
        against == IF o.delta > 0 THEN -Net ELSE Net
    IN  CASE p.leg # "net" ->
               IF Opens(o) THEN Size(o) ELSE Smaller(Size(o), legs[p.leg])
          [] p.leg = "net" /\ p.reduceOnly ->
               IF against > 0 THEN Smaller(Size(o), against) ELSE 0
          [] OTHER -> Size(o)

Filled(o, q) ==
    LET p == Parameters(o)
    IN  IF p.leg = "net" THEN Split(IF o.delta > 0 THEN Net + q ELSE Net - q)
        ELSE [legs EXCEPT ![p.leg] = IF Opens(o) THEN @ + q ELSE @ - q]

exchangeUnchanged == <<fixed, clock, sent, pc, seen, want, attempt, resent, result, faults>>

(* A submission arrives.  One with a bad timestamp is refused; a good one  *)
(* is taken or rejected, and one that was under way for too long does not  *)
(* count any more.                                                         *)
Arrive(id) ==
    /\ orders[id].state = "wire"
    /\ \E s \in IF clock = "right" THEN {"live", "rejected"} ELSE {"refused"} :
          orders' = [orders EXCEPT ![id].state = s]
    /\ UNCHANGED <<legs, exchangeUnchanged>>

(* What is left of an order when q of it has filled.                       *)
Left(o, q) == IF o.delta < 0 THEN o.delta + q ELSE o.delta - q

(* An order may fill piece by piece, before and after it is answered.      *)
Execute(id) ==
    LET o == orders[id]
        most == Fillable(o)
    IN  /\ o.state = "live"
        /\ \E q \in IF PartialFills THEN 1..most ELSE {most} \ {0} :
              /\ legs' = Filled(o, q)
              /\ orders' = [orders EXCEPT ![id] =
                    [o EXCEPT !.delta = Left(o, q), !.done = @ + q,
                              !.state = IF Left(o, q) = 0 THEN "filled" ELSE "live"]]
        /\ UNCHANGED exchangeUnchanged

(* What has not filled will not.                                           *)
Expire(id) ==
    /\ orders[id].state = "live"
    /\ orders' = [orders EXCEPT ![id].state = "expired"]
    /\ UNCHANGED <<legs, exchangeUnchanged>>

ExchangeStep == \E id \in Ids : Arrive(id) \/ Execute(id) \/ Expire(id)

-----------------------------------------------------------------------------
(* The call.                                                               *)
clientUnchanged == <<fixed, legs>>

Order == orders[sent]

Fault == faults > 0 /\ faults' = faults - 1

End(r) == pc' = "idle" /\ result' = r /\ UNCHANGED attempt

RepeatOrFail_OneMore ==
    /\ Fault
    /\ \/ attempt < Retries /\ attempt' = attempt + 1 /\ UNCHANGED <<pc, result>>
       \/ attempt >= Retries /\ End("failed")

(* ReliableHttpClient.request on a request that may be repeated: its answer*)
(* is lost, or it is a 429 or a 5xx; the last attempt's failure is raised. *)
RepeatOrFail ==
    /\ Fault
    /\ \/ attempt + 1 < Retries /\ attempt' = attempt + 1 /\ UNCHANGED <<pc, result>>
       \/ attempt + 1 >= Retries /\ End("failed")

(* get_positions; with both legs open it raises.                           *)
ReadPosition ==
    /\ pc = "idle" /\ ~BothLegs
    /\ seen' = Net
    /\ UNCHANGED <<clientUnchanged, clock, orders, sent, pc, want, attempt, resent, result, faults>>

(* execute_delta or close: the order is made from the position read.  An   *)
(* increase sets margin mode and leverage first.                           *)
Begin ==
    /\ pc = "idle" /\ sent < MaxOrders
    /\ \E q \in Quantities, sign \in {-1, 1}, reduce \in BOOLEAN :
          /\ IF reduce THEN sign * seen < 0 /\ q <= -sign * seen ELSE sign * seen >= 0
          /\ want' = [Unsent EXCEPT !.quantity = q, !.delta = sign * q, !.reduce = reduce]
    /\ pc' = IF want'.reduce THEN "submit" ELSE "prepare"
    /\ attempt' = 0 /\ resent' = FALSE
    /\ UNCHANGED <<clientUnchanged, clock, orders, sent, seen, result, faults>>

Prepare ==
    /\ pc = "prepare"
    /\ \/ pc' = "submit" /\ UNCHANGED <<attempt, result, faults>>
       \/ RepeatOrFail
    /\ UNCHANGED <<clientUnchanged, clock, orders, sent, seen, want, resent>>

(* The order is posted, once more under the same client order id after a   *)
(* refused timestamp.                                                      *)
Submit ==
    /\ pc = "submit" /\ pc' = "answer"
    /\ sent' = IF resent THEN sent ELSE sent + 1
    /\ orders' = [orders EXCEPT ![sent'] =
                    [want EXCEPT !.state = "wire", !.done = orders[sent'].done]]
    /\ UNCHANGED <<clientUnchanged, clock, seen, want, attempt, resent, result, faults>>

(* The exchange has taken the order.  Binance answers with its state; OKX  *)
(* only acknowledges it, and the adapter asks for the state.               *)
Acknowledged ==
    /\ pc = "answer" /\ Order.state \in {"live", "filled", "expired"}
    /\ IF adapter = "binance" THEN End("receipt")
       ELSE pc' = "ack" /\ attempt' = 0 /\ UNCHANGED result
    /\ UNCHANGED <<clientUnchanged, clock, orders, sent, seen, want, resent, faults>>

(* An error code of the exchange, or of OKX's single row.                  *)
Rejected ==
    /\ pc = "answer" /\ Order.state = "rejected"
    /\ End("failed")
    /\ UNCHANGED <<clientUnchanged, clock, orders, sent, seen, want, resent, faults>>

RefusedForTimestamp_Always ==
    /\ pc = "answer" /\ Order.state = "refused"
    /\ pc' = "sync" /\ attempt' = 0 /\ resent' = TRUE /\ UNCHANGED result
    /\ UNCHANGED <<clientUnchanged, clock, orders, sent, seen, want, faults>>

(* The first refusal of the timestamp has the clock read; the second ends  *)
(* the call.                                                               *)
RefusedForTimestamp ==
    /\ pc = "answer" /\ Order.state = "refused"
    /\ IF resent THEN End("failed") /\ UNCHANGED resent
       ELSE pc' = "sync" /\ attempt' = 0 /\ resent' = TRUE /\ UNCHANGED result
    /\ UNCHANGED <<clientUnchanged, clock, orders, sent, seen, want, faults>>

(* sync_time, then the submission again.                                   *)
Synchronise ==
    /\ pc = "sync"
    /\ \/ /\ pc' = "submit" /\ clock' = IF clock = "off" THEN "right" ELSE clock
          /\ UNCHANGED <<attempt, result, faults>>
       \/ RepeatOrFail /\ UNCHANGED clock
    /\ UNCHANGED <<clientUnchanged, orders, sent, seen, want, resent>>

Lost_PostedAgain ==
    /\ pc = "answer"
    /\ Fault
    /\ IF resent THEN pc' = "verify" ELSE pc' = "submit"
    /\ attempt' = 0 /\ resent' = TRUE
    /\ UNCHANGED <<clientUnchanged, clock, orders, sent, seen, want, result>>

(* No answer, a 429 or a 5xx, or an OKX answer without a row: the order's  *)
(* state is unknown (UnknownOrderState) and the executor asks for it.  A   *)
(* submission is not repeated.                                             *)
Lost ==
    /\ pc = "answer"
    /\ Fault
    /\ pc' = "verify" /\ attempt' = 0
    /\ UNCHANGED <<clientUnchanged, clock, orders, sent, seen, want, resent, result>>

(* The connection breaks in a way request does not expect, or the answer is*)
(* no JSON: an exception that is not UnknownOrderState.                    *)
Unusable ==
    /\ pc = "answer"
    /\ Fault /\ End("failed")
    /\ UNCHANGED <<clientUnchanged, clock, orders, sent, seen, want, resent>>

(* verify_order by client order id.                                        *)
QueryFails == RepeatOrFail \/ (Fault /\ End("failed"))

(* After OKX's acknowledgement the order counts as placed in any state.    *)
QueryAcknowledged ==
    /\ pc = "ack"
    /\ (End("receipt") /\ UNCHANGED faults) \/ QueryFails
    /\ UNCHANGED <<clientUnchanged, clock, orders, sent, seen, want, resent>>

(* After a lost answer an executed order alone counts; one filled in part  *)
(* counts while it is live, and is REJECTED once it has expired.           *)
Counts(o) == o.state = "filled" \/ (o.state = "live" /\ o.done > 0)

QueryUnknown ==
    /\ pc = "verify"
    /\ \/ Counts(Order) /\ End("receipt") /\ UNCHANGED faults
       \/ ~Counts(Order) /\ pc' = "reread" /\ UNCHANGED <<attempt, result, faults>>
       \/ QueryFails
    /\ UNCHANGED <<clientUnchanged, clock, orders, sent, seen, want, resent>>

(* The position is read, or fails to be, and the exception raised again.   *)
Reread ==
    /\ pc = "reread"
    /\ End("failed")
    /\ UNCHANGED <<clientUnchanged, clock, orders, sent, seen, want, resent, faults>>

CallStep ==
    \/ Prepare \/ Submit
    \/ Acknowledged \/ Rejected \/ RefusedForTimestamp \/ Synchronise
    \/ Lost \/ Unusable
    \/ QueryAcknowledged \/ QueryUnknown \/ Reread

Init ==
    /\ adapter \in Adapters /\ mode \in PositionModes /\ clock \in Clocks
    /\ legs = [long |-> 0, short |-> 0]
    /\ orders = [id \in Ids |-> Unsent] /\ sent = 0
    /\ pc = "idle" /\ seen = 0 /\ want = Unsent
    /\ attempt = 0 /\ resent = FALSE /\ result = "none"
    /\ faults = MaxFaults

Next == ReadPosition \/ Begin \/ CallStep \/ ExchangeStep

(* Every request is answered or times out, and the exchange decides every  *)
(* order it was sent.  Nobody has to begin a call.                         *)
Spec == Init /\ [][Next]_vars /\ WF_vars(CallStep) /\ WF_vars(ExchangeStep)

-----------------------------------------------------------------------------
OrderStates == {"unsent", "wire", "refused", "rejected", "live", "filled", "expired"}

OrderTypeOK ==
    /\ adapter \in Adapters /\ mode \in PositionModes
    /\ clock \in {"right", "off", "wrong"}
    /\ legs \in [{"long", "short"} -> Nat]
    /\ \A id \in Ids :
          /\ orders[id].delta \in Int /\ orders[id].reduce \in BOOLEAN
          /\ orders[id].state \in OrderStates
          /\ orders[id].done \in Nat /\ orders[id].quantity \in Nat
          /\ orders[id] = Unsent <=> id > sent
    /\ sent \in 0..MaxOrders
    /\ pc \in {"idle", "prepare", "submit", "answer", "sync", "ack", "verify", "reread"}
    /\ seen \in Int /\ attempt \in 0..Retries - 1 /\ resent \in BOOLEAN
    /\ result \in {"none", "receipt", "failed"}
    /\ faults \in 0..MaxFaults

(* No order executes twice: lost and late answers, queries, refused        *)
(* timestamps and repeated requests never bring an order to the exchange a *)
(* second time ("never blindly order again", README.md), so that all its   *)
(* pieces together are at most what it was sent for.                       *)
ExecutesOnce == \A id \in Ids : orders[id].done <= orders[id].quantity

(* The call has sent its order and has not ended.                          *)
Placed ==
    \/ pc \in {"answer", "sync", "ack", "verify", "reread"}
    \/ pc = "submit" /\ resent

Undecided == {"wire", "refused", "live"}

AbstractOrder(id) ==
    [id |-> id, delta |-> orders[id].delta, reduce |-> orders[id].reduce,
     state |-> IF orders[id].state \notin Undecided THEN orders[id].state
               ELSE IF orders[id].done = 0 THEN "sent" ELSE "partly"]

Call == INSTANCE OrderCall WITH
    pos   <- Net,
    torn  <- BothLegs,
    order <- IF Placed THEN AbstractOrder(sent)
             ELSE [id |-> 0, delta |-> 0, reduce |-> FALSE, state |-> "none"],
    call  <- CASE ~Placed -> result
               [] Placed /\ pc \in {"verify", "reread"} -> "asking"
               [] OTHER -> "waiting",
    late  <- {AbstractOrder(id) : id \in {i \in 1..sent :
                 orders[i].state \in Undecided /\ ~(Placed /\ i = sent)}}

(* Both adapters, in both position modes, keep the promise of OrderCall:   *)
(* an order changes the net position in its own direction by what is left  *)
(* of it at most, a reduction never turns the position, both legs open only*)
(* when an increase meets the other side, and a receipt stands for an order*)
(* the exchange took, after a lost answer for one that has executed.       *)
ImplementsOrderCall == Call!CallSpec

(* Every call comes to an end, however wrong the clock is.                 *)
CallEnds == pc # "idle" ~> pc = "idle"

(* A submission is given up without asking for the order only when the     *)
(* exchange refused it ("when an order's HTTP state is unknown, it is first*)
(* queried by client order id", README.md).                                *)
UnknownIsAsked ==
    [][pc = "answer" /\ result' = "failed" /\ pc' = "idle" =>
         Order.state \in {"rejected", "refused"}]_vars
==============================================================================
