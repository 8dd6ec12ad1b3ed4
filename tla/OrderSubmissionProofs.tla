------------------------ MODULE OrderSubmissionProofs -------------------------
(***************************************************************************)
(* Proofs about the submission of orders, for both adapters, both position *)
(* modes, every state of the clock and every number of orders, retries and *)
(* losses: the types, that no order executes twice, and that the protocol  *)
(* implements the promise stated in OrderCall.                             *)
(***************************************************************************)
EXTENDS OrderSubmission, TLAPS

Orders == [quantity : Nat, delta : Int, reduce : BOOLEAN, state : OrderStates, done : Nat]

(* OrderTypeOK, with the order about to be sent typed.                     *)
Typed ==
    /\ adapter \in Adapters /\ mode \in PositionModes /\ clock \in {"right", "off", "wrong"}
    /\ legs \in [{"long", "short"} -> Nat]
    /\ orders \in [Ids -> Orders] /\ want \in Orders /\ sent \in 0..MaxOrders
    /\ pc \in {"idle", "prepare", "submit", "answer", "sync", "ack", "verify", "reread"}
    /\ seen \in Int /\ attempt \in 0..Retries - 1 /\ resent \in BOOLEAN
    /\ result \in {"none", "receipt", "failed"}
    /\ faults \in 0..MaxFaults

(* What an order has done and what is left of it are what was asked for,   *)
(* and only an order the exchange took has done anything.                  *)
Once(o) ==
    /\ o.done + Size(o) = o.quantity
    /\ o.state \notin {"live", "filled", "expired"} => o.done = 0

OrdersInv ==
    \A id \in Ids : /\ Once(orders[id])
                    /\ orders[id] = Unsent <=> id > sent
                    /\ orders[id].state = "unsent" => orders[id] = Unsent

(* The order about to be sent was made from the position read last.        *)
MadeFrom(o, s) ==
    \E q \in Quantities, sign \in {-1, 1}, reduce \in BOOLEAN :
        /\ IF reduce THEN sign * s < 0 /\ q <= -sign * s ELSE sign * s >= 0
        /\ o = [Unsent EXCEPT !.quantity = q, !.delta = sign * q, !.reduce = reduce]

(* Where the call is, and what it has sent.                                *)
CallInv ==
    /\ pc = "prepare" => ~resent
    /\ pc \in {"prepare", "submit"} /\ ~resent => sent < MaxOrders
    /\ Placed => /\ sent > 0
                 /\ Order.done = 0 => Order.delta = want.delta
                 /\ Order.reduce = want.reduce
    /\ pc = "sync" => resent
    /\ pc \in {"sync", "submit"} /\ resent => Order.state = "refused"
    /\ pc = "ack" => Order.state \in {"live", "filled", "expired"}
    /\ pc # "idle" => MadeFrom(want, seen)

(* The inductive invariant.                                                *)
IInv == Typed /\ OrdersInv /\ CallInv

-----------------------------------------------------------------------------
(* The account and its orders.                                             *)

LEMMA UnsentTyped == Unsent \in Orders /\ Unsent.state = "unsent" /\ Once(Unsent)
BY DEF Unsent, Orders, OrderStates, Once, Size

LEMMA NetTyped ==
    ASSUME Typed
    PROVE  legs.long \in Nat /\ legs.short \in Nat /\ Net \in Int
BY DEF Typed, Net

(* What an order asks for is not zero.                                     *)
LEMMA MadeSize ==
    ASSUME NEW o, NEW s \in Int, MadeFrom(o, s)
    PROVE  /\ o \in Orders /\ o.done = 0 /\ o.state = "unsent" /\ o.delta # 0
           /\ Size(o) = o.quantity
           /\ \E q \in Quantities, sign \in {-1, 1} :
                 /\ o.delta = sign * q
                 /\ IF o.reduce THEN sign * s < 0 /\ q <= -sign * s ELSE sign * s >= 0
<1>1. PICK q \in Quantities, sign \in {-1, 1}, reduce \in BOOLEAN :
          /\ IF reduce THEN sign * s < 0 /\ q <= -sign * s ELSE sign * s >= 0
          /\ o = [Unsent EXCEPT !.quantity = q, !.delta = sign * q, !.reduce = reduce]
  BY DEF MadeFrom
<1>2. q \in Nat /\ q > 0
  BY OrderSubmissionAssumption
<1>3. sign * q \in Int /\ sign * q # 0
  BY <1>2
<1>4. o = [quantity |-> q, delta |-> sign * q, reduce |-> reduce, state |-> "unsent", done |-> 0]
  BY <1>1 DEF Unsent
<1>5. /\ o \in Orders /\ o.done = 0 /\ o.state = "unsent" /\ o.delta # 0
      /\ Size(o) = o.quantity
  BY <1>2, <1>3, <1>4 DEF Orders, OrderStates, Size
<1>6. o.delta = sign * q /\ o.reduce = reduce
  BY <1>4
<1>7. QED
  BY <1>1, <1>5, <1>6

LEMMA FillableTyped ==
    ASSUME Typed, NEW o \in Orders
    PROVE  Fillable(o) \in Nat
<1>1. Size(o) \in Nat /\ Net \in Int /\ legs \in [{"long", "short"} -> Nat]
  BY NetTyped DEF Size, Orders, Typed
<1>2. Parameters(o).leg \in {"long", "short", "net"}
  BY DEF Parameters, Leg
<1>3. QED
  BY <1>1, <1>2 DEF Fillable, Smaller

(* How a fill of q changes the account: the legs stay non-negative, the    *)
(* net position moves by q in the order's direction.                       *)
LEMMA FillMoves ==
    ASSUME Typed, NEW o \in Orders, NEW q \in 1..Fillable(o)
    PROVE  /\ q \in Nat /\ q >= 1 /\ q <= Size(o)
           /\ Filled(o, q) \in [{"long", "short"} -> Nat]
           /\ Filled(o, q).long - Filled(o, q).short =
                 IF o.delta < 0 THEN Net - q ELSE Net + q
<1>1. legs.long \in Nat /\ legs.short \in Nat /\ legs = [legs EXCEPT !.long = legs.long]
  BY DEF Typed
<1>2. Size(o) \in Nat /\ o.delta \in Int
  BY DEF Size, Orders
<1>3. Net \in Int /\ Net = legs.long - legs.short
  BY <1>1 DEF Net
<1>4. CASE mode = "hedge"
  <2>1. Parameters(o).leg = Leg(o) /\ Leg(o) \in {"long", "short"}
    BY <1>4 DEF Parameters, Leg
  <2>2. Fillable(o) = IF Opens(o) THEN Size(o) ELSE Smaller(Size(o), legs[Leg(o)])
    BY <2>1 DEF Fillable
  <2>3. Filled(o, q) = [legs EXCEPT ![Leg(o)] = IF Opens(o) THEN @ + q ELSE @ - q]
    BY <2>1 DEF Filled
  <2>4. Fillable(o) \in Nat /\ Fillable(o) <= Size(o)
        /\ (~Opens(o) => Fillable(o) <= legs[Leg(o)])
    BY <1>1, <1>2, <2>1, <2>2 DEF Smaller
  <2>5. q \in Nat /\ q >= 1 /\ q <= Size(o) /\ (~Opens(o) => q <= legs[Leg(o)])
    BY <1>1, <1>2, <2>1, <2>4
  <2>6. /\ o.delta # 0
        /\ Opens(o) <=> ((o.delta > 0) <=> Leg(o) = "long")
    BY <1>2, <2>1, <2>5 DEF Opens, Size
  <2>7. CASE Leg(o) = "long"
    BY <1>1, <1>2, <1>3, <2>3, <2>5, <2>6, <2>7 DEF Typed
  <2>8. CASE Leg(o) = "short"
    BY <1>1, <1>2, <1>3, <2>3, <2>5, <2>6, <2>8 DEF Typed
  <2>9. QED
    BY <2>1, <2>7, <2>8
<1>5. CASE mode = "one_way"
  <2>1. Parameters(o).leg = "net"
    BY <1>5 DEF Parameters
  <2>2. Fillable(o) \in Nat /\ Fillable(o) <= Size(o)
    BY <1>2, <1>3, <2>1 DEF Fillable, Smaller
  <2>3. Filled(o, q) = Split(IF o.delta > 0 THEN Net + q ELSE Net - q)
    BY <2>1 DEF Filled
  <2>4. q \in Nat /\ q >= 1 /\ q <= Size(o) /\ o.delta # 0
    BY <1>2, <2>2 DEF Size
  <2>5. \A n \in Int : /\ Split(n) \in [{"long", "short"} -> Nat]
                       /\ Split(n).long - Split(n).short = n
    BY DEF Split
  <2>6. QED
    BY <1>2, <1>3, <2>3, <2>4, <2>5
<1>6. QED
  BY <1>4, <1>5, OrderSubmissionAssumption DEF Typed

-----------------------------------------------------------------------------
(* The exchange decides an order.                                          *)

LEMMA OrderMoves ==
    ASSUME IInv, NEW id \in Ids, orders[id].state \in {"wire", "live"},
           NEW o \in Orders, orders' = [orders EXCEPT ![id] = o], Once(o),
           o.done = 0 => orders[id].done = 0 /\ o.delta = orders[id].delta,
           o.reduce = orders[id].reduce, o.state # "unsent",
           orders[id].state = "live" => o.state \in {"live", "filled", "expired"},
           legs' \in [{"long", "short"} -> Nat], UNCHANGED exchangeUnchanged
    PROVE  IInv'
<1>. USE DEF IInv
<1>1. UNCHANGED <<adapter, mode, clock, sent, pc, seen, want, attempt, resent, result, faults>>
  BY DEF exchangeUnchanged, fixed
<1>2. /\ orders' \in [Ids -> Orders] /\ orders'[id] = o
      /\ \A j \in Ids : j # id => orders'[j] = orders[j]
  BY DEF Typed
<1>3. Typed'
  BY <1>1, <1>2 DEF Typed
<1>4. OrdersInv'
  <2>1. id <= sent /\ o # Unsent
    BY UnsentTyped DEF OrdersInv, Typed, Ids
  <2>2. ASSUME NEW j \in Ids
        PROVE  /\ Once(orders'[j])
               /\ orders'[j] = Unsent <=> j > sent'
               /\ orders'[j].state = "unsent" => orders'[j] = Unsent
    <3>1. CASE j = id
      BY <1>1, <1>2, <2>1, <3>1 DEF Ids, Typed
    <3>2. CASE j # id
      BY <1>1, <1>2, <3>2 DEF OrdersInv
    <3>3. QED
      BY <3>1, <3>2
  <2>3. QED
    BY <2>2 DEF OrdersInv, Once, Size
<1>5. CallInv'
  <2>1. CASE id = sent
    <3>1. Order' = o /\ Order = orders[id]
      BY <1>1, <1>2, <2>1 DEF Order
    <3>2. QED
      BY <1>1, <3>1 DEF CallInv, Placed, MadeFrom
  <2>2. CASE id # sent
    <3>1. sent \in Ids => Order' = Order
      BY <1>1, <1>2, <2>2 DEF Order
    <3>2. Placed => sent \in Ids
      BY DEF CallInv, Typed, Ids
    <3>3. pc \in {"sync", "ack"} \/ (pc = "submit" /\ resent) => Placed
      BY DEF Placed
    <3>4. QED
      BY <1>1, <3>1, <3>2, <3>3 DEF CallInv, Placed, MadeFrom
  <2>3. QED
    BY <2>1, <2>2
<1>6. QED
  BY <1>3, <1>4, <1>5

LEMMA ArriveInv ==
    ASSUME IInv, NEW id \in Ids, Arrive(id)
    PROVE  IInv'
<1>1. PICK s \in {"live", "rejected", "refused"} : orders' = [orders EXCEPT ![id].state = s]
  BY DEF Arrive
<1>. DEFINE o == [orders[id] EXCEPT !.state = s]
<1>2. orders[id] \in Orders /\ Once(orders[id]) /\ orders[id].state = "wire"
  BY DEF IInv, Typed, OrdersInv, Arrive
<1>3. /\ o \in Orders /\ Once(o) /\ o.state # "unsent" /\ o.done = orders[id].done
      /\ o.delta = orders[id].delta /\ o.reduce = orders[id].reduce
  BY <1>2 DEF Orders, OrderStates, Once, Size
<1>4. legs' \in [{"long", "short"} -> Nat] /\ UNCHANGED exchangeUnchanged
  BY DEF IInv, Typed, Arrive
<1>. HIDE DEF o
<1>5. orders' = [orders EXCEPT ![id] = o]
  BY <1>1 DEF o
<1>6. QED
  BY <1>2, <1>3, <1>4, <1>5, OrderMoves

LEMMA ExpireInv ==
    ASSUME IInv, NEW id \in Ids, Expire(id)
    PROVE  IInv'
<1>. DEFINE o == [orders[id] EXCEPT !.state = "expired"]
<1>1. orders' = [orders EXCEPT ![id] = o]
  BY DEF Expire
<1>2. orders[id] \in Orders /\ Once(orders[id]) /\ orders[id].state = "live"
  BY DEF IInv, Typed, OrdersInv, Expire
<1>3. /\ o \in Orders /\ Once(o) /\ o.state = "expired" /\ o.done = orders[id].done
      /\ o.delta = orders[id].delta /\ o.reduce = orders[id].reduce
  BY <1>2 DEF Orders, OrderStates, Once, Size
<1>4. legs' \in [{"long", "short"} -> Nat] /\ UNCHANGED exchangeUnchanged
  BY DEF IInv, Typed, Expire
<1>. HIDE DEF o
<1>5. QED
  BY <1>1, <1>2, <1>3, <1>4, OrderMoves

(* What a fill of q makes of an order.                                     *)
Rest(o, q) ==
    [o EXCEPT !.delta = Left(o, q), !.done = @ + q,
              !.state = IF Left(o, q) = 0 THEN "filled" ELSE "live"]

LEMMA ExecuteFills ==
    ASSUME IInv, NEW id \in Ids, Execute(id)
    PROVE  \E q \in 1..Fillable(orders[id]) :
               /\ legs' = Filled(orders[id], q)
               /\ orders' = [orders EXCEPT ![id] = Rest(orders[id], q)]
<1>1. Fillable(orders[id]) \in Nat
  BY FillableTyped DEF IInv, Typed
<1>2. (IF PartialFills THEN 1..Fillable(orders[id]) ELSE {Fillable(orders[id])} \ {0})
          \subseteq 1..Fillable(orders[id])
  BY <1>1
<1>3. QED
  BY <1>2 DEF Execute, Rest

LEMMA RestFacts ==
    ASSUME Typed, NEW o \in Orders, NEW q \in 1..Fillable(o)
    PROVE  /\ Left(o, q) \in Int
           /\ Rest(o, q) \in Orders
           /\ Rest(o, q).quantity = o.quantity /\ Rest(o, q).reduce = o.reduce
           /\ Rest(o, q).delta = Left(o, q)
           /\ Rest(o, q).done = o.done + q /\ o.done + q # 0
           /\ Rest(o, q).state = IF Left(o, q) = 0 THEN "filled" ELSE "live"
           /\ Size(Rest(o, q)) + q = Size(o)
<1>1. q \in Nat /\ q >= 1 /\ q <= Size(o) /\ o.delta \in Int /\ o.done \in Nat
  BY FillMoves DEF Orders
<1>2. Left(o, q) \in Int /\ o.done + q \in Nat /\ o.done + q # 0
  BY <1>1 DEF Left
<1>. DEFINE n == o.done + q
            left == Left(o, q)
<1>3. Rest(o, q) = [o EXCEPT !.delta = left, !.done = n,
                             !.state = IF left = 0 THEN "filled" ELSE "live"]
  BY DEF Rest
<1>. HIDE DEF n, left
<1>4. /\ Rest(o, q) \in Orders
      /\ Rest(o, q).quantity = o.quantity /\ Rest(o, q).reduce = o.reduce
      /\ Rest(o, q).delta = left /\ Rest(o, q).done = n
      /\ Rest(o, q).state = IF left = 0 THEN "filled" ELSE "live"
  <2>1. left \in Int /\ n \in Nat
    BY <1>2 DEF left, n
  <2>2. QED
    BY <1>3, <2>1 DEF Orders, OrderStates
<1>5. Size(Rest(o, q)) + q = Size(o)
  <2>1. Rest(o, q).delta = Left(o, q)
    BY <1>4 DEF left
  <2>2. QED
    BY <1>1, <2>1 DEF Size, Left
<1>6. QED
  BY <1>2, <1>4, <1>5 DEF n, left

LEMMA ExecuteInv ==
    ASSUME IInv, NEW id \in Ids, Execute(id)
    PROVE  IInv'
<1>1. orders[id] \in Orders /\ Once(orders[id]) /\ orders[id].state = "live"
  BY DEF IInv, Typed, OrdersInv, Execute
<1>2. PICK q \in 1..Fillable(orders[id]) :
          /\ legs' = Filled(orders[id], q)
          /\ orders' = [orders EXCEPT ![id] = Rest(orders[id], q)]
  BY <1>1, ExecuteFills
<1>. DEFINE o == Rest(orders[id], q)
<1>3. q \in Nat /\ legs' \in [{"long", "short"} -> Nat]
  BY <1>1, <1>2, FillMoves DEF IInv
<1>4. /\ o \in Orders /\ o.state \in {"live", "filled"} /\ o.done # 0
      /\ o.reduce = orders[id].reduce /\ o.quantity = orders[id].quantity
      /\ o.done = orders[id].done + q /\ Size(o) + q = Size(orders[id])
  BY <1>1, RestFacts DEF IInv
<1>5. orders' = [orders EXCEPT ![id] = o]
  BY <1>2
<1>. HIDE DEF o
<1>6. Size(o) \in Int /\ Size(orders[id]) \in Int /\ orders[id].done \in Nat
  BY <1>1, <1>4 DEF Size, Orders
<1>7. Once(o)
  BY <1>1, <1>3, <1>4, <1>6 DEF Once
<1>8. UNCHANGED exchangeUnchanged
  BY DEF Execute
<1>9. QED
  BY <1>1, <1>3, <1>4, <1>5, <1>7, <1>8, OrderMoves

-----------------------------------------------------------------------------
(* The call.  What a step that sends nothing has to show.                  *)

LEMMA CallMoves ==
    ASSUME IInv, UNCHANGED <<adapter, mode, legs, orders, sent, want, seen>>, pc # "idle",
           clock' \in {"right", "off", "wrong"},
           pc' \in {"idle", "prepare", "submit", "answer", "sync", "ack", "verify", "reread"},
           attempt' \in 0..Retries - 1, resent' \in BOOLEAN,
           result' \in {"none", "receipt", "failed"}, faults' \in 0..MaxFaults,
           pc' = "prepare" => ~resent',
           pc' = "submit" /\ ~resent' => sent < MaxOrders,
           pc' \notin {"idle", "prepare", "submit"} \/ (pc' = "submit" /\ resent') => Placed,
           pc' = "sync" => resent',
           pc' \in {"sync", "submit"} /\ resent' => Order.state = "refused",
           pc' = "ack" => Order.state \in {"live", "filled", "expired"},
           pc' = "prepare" => pc = "prepare"
    PROVE  IInv'
<1>. USE DEF IInv
<1>1. Typed'
  BY DEF Typed
<1>2. OrdersInv'
  BY DEF OrdersInv, Once, Size
<1>3. CallInv'
  <2>1. Placed' => Placed
    BY DEF Placed
  <2>2. Order' = Order
    BY DEF Order
  <2>3. pc' = "prepare" /\ ~resent' => sent < MaxOrders
    BY DEF CallInv
  <2>4. QED
    BY <2>1, <2>2, <2>3 DEF CallInv, MadeFrom
<1>4. QED
  BY <1>1, <1>2, <1>3

LEMMA FaultTyped ==
    ASSUME Typed, Fault \/ UNCHANGED faults
    PROVE  faults' \in 0..MaxFaults
BY OrderSubmissionAssumption DEF Typed, Fault

LEMMA RepeatTyped ==
    ASSUME Typed, RepeatOrFail
    PROVE  /\ faults' \in 0..MaxFaults /\ attempt' \in 0..Retries - 1
           /\ result' \in {"none", "receipt", "failed"}
           /\ UNCHANGED <<pc, result>> \/ (pc' = "idle" /\ result' = "failed")
<1>1. Fault /\ Retries \in Nat /\ attempt \in 0..Retries - 1
  BY OrderSubmissionAssumption DEF RepeatOrFail, Typed
<1>2. faults' \in 0..MaxFaults
  BY <1>1, FaultTyped
<1>3. CASE attempt + 1 < Retries /\ attempt' = attempt + 1 /\ UNCHANGED <<pc, result>>
  BY <1>1, <1>2, <1>3 DEF Typed
<1>4. CASE End("failed")
  BY <1>1, <1>2, <1>4 DEF End
<1>5. QED
  BY <1>3, <1>4 DEF RepeatOrFail

LEMMA ReadPositionInv ==
    ASSUME IInv, ReadPosition
    PROVE  IInv'
<1>. USE DEF IInv
<1>1. /\ pc = "idle" /\ pc' = pc /\ seen' = Net
      /\ UNCHANGED <<adapter, mode, clock, legs, orders, sent, want, attempt, resent,
                     result, faults>>
  BY DEF ReadPosition, clientUnchanged, fixed
<1>2. Typed'
  BY <1>1, NetTyped DEF Typed
<1>3. OrdersInv'
  BY <1>1 DEF OrdersInv, Once, Size
<1>4. CallInv'
  BY <1>1 DEF CallInv, Placed
<1>5. QED
  BY <1>2, <1>3, <1>4

LEMMA BeginInv ==
    ASSUME IInv, Begin
    PROVE  IInv'
<1>. USE DEF IInv
<1>1. /\ pc = "idle" /\ sent < MaxOrders /\ MadeFrom(want', seen)
      /\ pc' \in {"prepare", "submit"} /\ attempt' = 0 /\ resent' = FALSE
      /\ UNCHANGED <<adapter, mode, clock, legs, orders, sent, seen, result, faults>>
  BY DEF Begin, MadeFrom, clientUnchanged, fixed
<1>2. want' \in Orders
  BY <1>1, MadeSize DEF Typed
<1>3. attempt' \in 0..Retries - 1
  BY <1>1, OrderSubmissionAssumption
<1>4. Typed'
  BY <1>1, <1>2, <1>3 DEF Typed
<1>5. OrdersInv'
  BY <1>1 DEF OrdersInv, Once, Size
<1>6. CallInv'
  BY <1>1 DEF CallInv, Placed, MadeFrom
<1>7. QED
  BY <1>4, <1>5, <1>6

LEMMA PrepareInv ==
    ASSUME IInv, Prepare
    PROVE  IInv'
<1>1. /\ pc = "prepare" /\ ~resent' /\ sent < MaxOrders
      /\ UNCHANGED <<adapter, mode, legs, clock, orders, sent, seen, want, resent>>
      /\ clock' \in {"right", "off", "wrong"} /\ resent' \in BOOLEAN
  BY DEF Prepare, clientUnchanged, fixed, IInv, Typed, CallInv
<1>2. CASE pc' = "submit" /\ UNCHANGED <<attempt, result, faults>>
  BY <1>1, <1>2, CallMoves DEF IInv, Typed
<1>3. CASE RepeatOrFail
  BY <1>1, <1>3, RepeatTyped, CallMoves DEF IInv
<1>4. QED
  BY <1>2, <1>3 DEF Prepare

(* The only step that puts an order on its way to the exchange.            *)
LEMMA SubmitFacts ==
    ASSUME IInv, Submit
    PROVE  /\ pc = "submit" /\ pc' = "answer" /\ sent' \in Ids
           /\ sent' = IF resent THEN sent ELSE sent + 1
           /\ UNCHANGED <<adapter, mode, clock, legs, seen, want, attempt, resent, result, faults>>
           /\ orders' = [orders EXCEPT ![sent'] = [want EXCEPT !.state = "wire"]]
           /\ orders[sent'].state = IF resent THEN "refused" ELSE "unsent"
           /\ resent => /\ orders[sent].delta = want.delta
                        /\ orders[sent].reduce = want.reduce
           /\ resent => orders[sent].done = 0
           /\ want \in Orders /\ want.delta # 0 /\ want.done = 0 /\ MadeFrom(want, seen)
           /\ Size(want) = want.quantity
<1>. USE DEF IInv
<1>1. /\ pc = "submit" /\ pc' = "answer"
      /\ sent' = IF resent THEN sent ELSE sent + 1
      /\ UNCHANGED <<adapter, mode, clock, legs, seen, want, attempt, resent, result, faults>>
      /\ orders' = [orders EXCEPT ![sent'] =
                       [want EXCEPT !.state = "wire", !.done = orders[sent'].done]]
  BY DEF Submit, clientUnchanged, fixed
<1>2. /\ want \in Orders /\ want.delta # 0 /\ want.done = 0 /\ MadeFrom(want, seen)
      /\ Size(want) = want.quantity
  BY <1>1, MadeSize DEF CallInv, Typed
<1>3. sent \in 0..MaxOrders /\ MaxOrders \in Nat
  BY OrderSubmissionAssumption DEF Typed
<1>4. CASE resent
  <2>1. /\ sent > 0 /\ Order.state = "refused" /\ Order.reduce = want.reduce
        /\ Order.done = 0 => Order.delta = want.delta
    BY <1>1, <1>4 DEF CallInv, Placed
  <2>2. sent' = sent /\ sent \in Ids
    BY <1>1, <1>3, <1>4, <2>1 DEF Ids
  <2>3. orders[sent].done = 0
    BY <2>1, <2>2 DEF OrdersInv, Once, Order
  <2>4. [want EXCEPT !.state = "wire", !.done = 0] = [want EXCEPT !.state = "wire"]
    BY <1>2 DEF Orders
  <2>5. QED
    BY <1>1, <1>2, <1>4, <2>1, <2>2, <2>3, <2>4 DEF Order
<1>5. CASE ~resent
  <2>1. sent < MaxOrders
    BY <1>1, <1>5 DEF CallInv
  <2>2. sent' = sent + 1 /\ sent' \in Ids /\ sent' > sent
    BY <1>1, <1>3, <1>5, <2>1 DEF Ids
  <2>3. orders[sent'] = Unsent
    BY <2>2 DEF OrdersInv
  <2>4. orders[sent'].done = 0 /\ orders[sent'].state = "unsent"
    BY <2>3 DEF Unsent
  <2>5. [want EXCEPT !.state = "wire", !.done = 0] = [want EXCEPT !.state = "wire"]
    BY <1>2 DEF Orders
  <2>6. QED
    BY <1>1, <1>2, <1>5, <2>2, <2>4, <2>5
<1>6. QED
  BY <1>4, <1>5 DEF Typed

LEMMA SubmitInv ==
    ASSUME IInv, Submit
    PROVE  IInv'
<1>. USE DEF IInv
<1>. DEFINE o == [want EXCEPT !.state = "wire"]
<1>1. /\ o \in Orders /\ o.state = "wire" /\ o.done = 0 /\ Once(o)
      /\ o.delta = want.delta /\ o.reduce = want.reduce
  <2>1. /\ o \in Orders /\ o.state = "wire" /\ o.done = 0 /\ o.quantity = want.quantity
        /\ o.delta = want.delta /\ o.reduce = want.reduce
    BY SubmitFacts DEF Orders, OrderStates
  <2>2. Size(o) = o.quantity /\ Size(o) \in Int
    BY <2>1, SubmitFacts DEF Size, Orders
  <2>3. QED
    BY <2>1, <2>2 DEF Once
<1>. HIDE DEF o
<1>2. /\ orders' \in [Ids -> Orders] /\ orders'[sent'] = o
      /\ \A j \in Ids : j # sent' => orders'[j] = orders[j]
  BY <1>1, SubmitFacts DEF Typed, o
<1>3. sent \in 0..MaxOrders /\ MaxOrders \in Nat
  BY OrderSubmissionAssumption DEF Typed
<1>4. Typed'
  <2>1. sent' \in 0..MaxOrders
    BY <1>3, SubmitFacts DEF Ids
  <2>2. QED
    BY <1>2, <2>1, SubmitFacts DEF Typed
<1>5. OrdersInv'
  <2>1. ASSUME NEW j \in Ids
        PROVE  /\ Once(orders'[j])
               /\ orders'[j] = Unsent <=> j > sent'
               /\ orders'[j].state = "unsent" => orders'[j] = Unsent
    <3>1. CASE j = sent'
      BY <1>1, <1>2, <3>1, UnsentTyped DEF Ids
    <3>2. CASE j # sent'
      <4>1. orders'[j] = orders[j] /\ (j > sent' <=> j > sent)
        BY <1>2, <1>3, <3>2, SubmitFacts DEF Ids
      <4>2. QED
        BY <4>1 DEF OrdersInv
    <3>3. QED
      BY <3>1, <3>2
  <2>2. QED
    BY <2>1 DEF OrdersInv, Once, Size
<1>6. CallInv'
  <2>1. Order' = o
    BY <1>2 DEF Order
  <2>2. pc' = "answer" /\ sent' > 0 /\ want' = want /\ seen' = seen /\ MadeFrom(want, seen)
    BY SubmitFacts DEF Ids
  <2>3. QED
    BY <1>1, <2>1, <2>2 DEF CallInv, Placed, MadeFrom
<1>7. QED
  BY <1>4, <1>5, <1>6

(* What the answer to a submission, or to a query, can be.                 *)
LEMMA Sent ==
    ASSUME IInv, Placed
    PROVE  sent \in Ids /\ Order \in Orders /\ Order.state # "unsent"
<1>1. sent \in Ids
  BY OrderSubmissionAssumption DEF IInv, CallInv, Typed, Ids
<1>2. Order # Unsent
  BY <1>1 DEF IInv, OrdersInv, Order, Ids
<1>3. QED
  BY <1>1, <1>2 DEF IInv, OrdersInv, Typed, Order

LEMMA AnswerInv ==
    ASSUME IInv, Acknowledged \/ Rejected \/ RefusedForTimestamp
    PROVE  IInv'
<1>1. /\ pc = "answer" /\ UNCHANGED <<adapter, mode, legs, orders, sent, want, seen>>
      /\ UNCHANGED <<clock, faults>>
  BY DEF Acknowledged, Rejected, RefusedForTimestamp, clientUnchanged, fixed
<1>2. Typed /\ Placed
  BY <1>1 DEF IInv, Placed
<1>3. /\ clock' \in {"right", "off", "wrong"} /\ faults' \in 0..MaxFaults
      /\ resent \in BOOLEAN /\ attempt \in 0..Retries - 1 /\ 0 \in 0..Retries - 1
      /\ result \in {"none", "receipt", "failed"}
  BY <1>1, <1>2, OrderSubmissionAssumption DEF Typed
<1>4. CASE pc' = "idle" /\ result' \in {"receipt", "failed"} /\ UNCHANGED <<attempt, resent>>
  BY <1>1, <1>3, <1>4, CallMoves
<1>5. CASE /\ Order.state \in {"live", "filled", "expired"}
           /\ pc' = "ack" /\ attempt' = 0 /\ UNCHANGED <<result, resent>>
  BY <1>1, <1>2, <1>3, <1>5, CallMoves
<1>6. CASE /\ Order.state = "refused"
           /\ pc' = "sync" /\ attempt' = 0 /\ resent' = TRUE /\ UNCHANGED result
  BY <1>1, <1>2, <1>3, <1>6, CallMoves
<1>7. QED
  BY <1>4, <1>5, <1>6 DEF Acknowledged, Rejected, RefusedForTimestamp, End

LEMMA SynchroniseInv ==
    ASSUME IInv, Synchronise
    PROVE  IInv'
<1>1. /\ pc = "sync" /\ UNCHANGED <<adapter, mode, legs, orders, sent, want, seen>>
      /\ UNCHANGED resent
  BY DEF Synchronise, clientUnchanged, fixed
<1>2. /\ Typed /\ Placed /\ resent' = TRUE /\ Order.state = "refused"
      /\ clock \in {"right", "off", "wrong"}
  BY <1>1 DEF IInv, CallInv, Placed, Typed
<1>3. CASE /\ pc' = "submit" /\ clock' = IF clock = "off" THEN "right" ELSE clock
           /\ UNCHANGED <<attempt, result, faults>>
  <2>1. /\ attempt' \in 0..Retries - 1 /\ result' \in {"none", "receipt", "failed"}
        /\ faults' \in 0..MaxFaults /\ clock' \in {"right", "off", "wrong"}
    BY <1>2, <1>3 DEF Typed
  <2>2. QED
    BY <1>1, <1>2, <1>3, <2>1, CallMoves
<1>4. CASE RepeatOrFail /\ UNCHANGED clock
  BY <1>1, <1>2, <1>4, RepeatTyped, CallMoves
<1>5. QED
  BY <1>3, <1>4 DEF Synchronise

LEMMA LostInv ==
    ASSUME IInv, Lost \/ Unusable
    PROVE  IInv'
<1>1. /\ pc = "answer" /\ UNCHANGED <<adapter, mode, legs, orders, sent, want, seen>>
      /\ UNCHANGED <<clock, resent>> /\ Fault
  BY DEF Lost, Unusable, clientUnchanged, fixed
<1>2. Typed /\ Placed
  BY <1>1 DEF IInv, Placed
<1>3. /\ clock' \in {"right", "off", "wrong"} /\ faults' \in 0..MaxFaults
      /\ resent' \in BOOLEAN /\ attempt \in 0..Retries - 1 /\ 0 \in 0..Retries - 1
      /\ result \in {"none", "receipt", "failed"}
  BY <1>1, <1>2, FaultTyped, OrderSubmissionAssumption DEF Typed
<1>4. CASE pc' = "idle" /\ result' = "failed" /\ UNCHANGED attempt
  BY <1>1, <1>3, <1>4, CallMoves
<1>5. CASE pc' = "verify" /\ attempt' = 0 /\ UNCHANGED result
  BY <1>1, <1>2, <1>3, <1>5, CallMoves
<1>6. QED
  BY <1>4, <1>5 DEF Lost, Unusable, End

LEMMA QueryInv ==
    ASSUME IInv, QueryAcknowledged \/ QueryUnknown \/ Reread
    PROVE  IInv'
<1>1. /\ pc \in {"ack", "verify", "reread"}
      /\ UNCHANGED <<adapter, mode, legs, orders, sent, want, seen>>
      /\ UNCHANGED <<clock, resent>>
  BY DEF QueryAcknowledged, QueryUnknown, Reread, clientUnchanged, fixed
<1>2. Typed /\ Placed
  BY <1>1 DEF IInv, Placed
<1>3. /\ clock' \in {"right", "off", "wrong"} /\ faults \in 0..MaxFaults
      /\ resent' \in BOOLEAN /\ attempt \in 0..Retries - 1
      /\ result \in {"none", "receipt", "failed"}
  BY <1>1, <1>2 DEF Typed
<1>4. CASE /\ pc' = "idle" /\ result' \in {"receipt", "failed"} /\ UNCHANGED attempt
           /\ Fault \/ UNCHANGED faults
  <2>1. faults' \in 0..MaxFaults
    BY <1>2, <1>4, FaultTyped
  <2>2. QED
    BY <1>1, <1>3, <1>4, <2>1, CallMoves
<1>5. CASE pc = "verify" /\ pc' = "reread" /\ UNCHANGED <<attempt, result, faults>>
  BY <1>1, <1>2, <1>3, <1>5, CallMoves
<1>6. CASE RepeatOrFail
  <2>1. CASE pc' = "idle" /\ result' = "failed"
    BY <1>1, <1>2, <1>3, <1>6, <2>1, RepeatTyped, CallMoves
  <2>2. CASE UNCHANGED <<pc, result>>
    <3>1. pc' = "ack" => Order.state \in {"live", "filled", "expired"}
      BY <2>2 DEF IInv, CallInv
    <3>2. QED
      BY <1>1, <1>2, <1>3, <1>6, <2>2, <3>1, RepeatTyped, CallMoves
  <2>3. QED
    BY <1>2, <1>6, <2>1, <2>2, RepeatTyped
<1>7. QED
  BY <1>4, <1>5, <1>6 DEF QueryAcknowledged, QueryUnknown, Reread, QueryFails, End

-----------------------------------------------------------------------------
(* The invariant, and what follows from it.                                *)

LEMMA InitInv == Init => IInv
<1>. SUFFICES ASSUME Init PROVE IInv
  OBVIOUS
<1>1. Typed
  <2>1. /\ 0 \in 0..MaxOrders /\ 0 \in 0..Retries - 1 /\ MaxFaults \in 0..MaxFaults
        /\ adapter \in Adapters /\ mode \in PositionModes
        /\ clock \in {"right", "off", "wrong"}
    BY OrderSubmissionAssumption DEF Init
  <2>2. legs \in [{"long", "short"} -> Nat]
    BY DEF Init
  <2>3. orders \in [Ids -> Orders] /\ want \in Orders
    BY UnsentTyped DEF Init
  <2>4. /\ sent \in 0..MaxOrders /\ attempt \in 0..Retries - 1 /\ faults \in 0..MaxFaults
        /\ pc = "idle" /\ seen \in Int /\ result = "none"
    BY <2>1 DEF Init
  <2>5. resent \in BOOLEAN
    BY DEF Init
  <2>6. QED
    BY <2>1, <2>2, <2>3, <2>4, <2>5 DEF Typed
<1>2. OrdersInv
  BY UnsentTyped DEF Init, OrdersInv, Ids
<1>3. CallInv
  BY DEF Init, CallInv, Placed
<1>4. QED
  BY <1>1, <1>2, <1>3 DEF IInv

LEMMA NextInv == IInv /\ [Next]_vars => IInv'
<1>. SUFFICES ASSUME IInv, [Next]_vars PROVE IInv'
  OBVIOUS
<1>1. CASE ReadPosition
  BY <1>1, ReadPositionInv
<1>2. CASE Begin
  BY <1>2, BeginInv
<1>3. CASE CallStep
  <2>1. CASE Prepare \/ Submit
    BY <2>1, PrepareInv, SubmitInv
  <2>2. CASE Acknowledged \/ Rejected \/ RefusedForTimestamp
    BY <2>2, AnswerInv
  <2>3. CASE Synchronise
    BY <2>3, SynchroniseInv
  <2>4. CASE Lost \/ Unusable
    BY <2>4, LostInv
  <2>5. CASE QueryAcknowledged \/ QueryUnknown \/ Reread
    BY <2>5, QueryInv
  <2>6. QED
    BY <1>3, <2>1, <2>2, <2>3, <2>4, <2>5 DEF CallStep
<1>4. CASE ExchangeStep
  BY <1>4, ArriveInv, ExecuteInv, ExpireInv DEF ExchangeStep
<1>5. CASE UNCHANGED vars
  <2>1. UNCHANGED <<adapter, mode, clock, legs, orders, sent, pc, seen, want, attempt,
                    resent, result, faults>>
    BY <1>5 DEF vars
  <2>2. Typed'
    BY <2>1 DEF IInv, Typed
  <2>3. OrdersInv'
    BY <2>1 DEF IInv, OrdersInv, Once, Size
  <2>4. (Placed' <=> Placed) /\ Order' = Order
    BY <2>1 DEF Placed, Order
  <2>5. MadeFrom(want, seen)' <=> MadeFrom(want, seen)
    BY <2>1 DEF MadeFrom
  <2>6. CallInv'
    BY <2>1, <2>4, <2>5 DEF IInv, CallInv
  <2>7. QED
    BY <2>2, <2>3, <2>6 DEF IInv
<1>6. QED
  BY <1>1, <1>2, <1>3, <1>4, <1>5 DEF Next

(* The invariant holds in every behaviour, with and without fairness.      *)
THEOREM Invariance == Spec => []IInv
BY InitInv, NextInv, PTL DEF Spec

(* Calls, orders and the account keep their types; a client order id is    *)
(* used by one order, and ids are used one after another.                  *)
THEOREM SubmissionTypeCorrect == Spec => []OrderTypeOK
<1>1. IInv => OrderTypeOK
  BY DEF IInv, Typed, OrdersInv, OrderTypeOK, Orders
<1>2. QED
  BY <1>1, Invariance, PTL

(* No order executes twice, whatever is lost, late, asked for or sent again*)
(* ("never blindly order again", README.md).                               *)
THEOREM NeverExecutedTwice == Spec => []ExecutesOnce
<1>1. ASSUME IInv, NEW id \in Ids
      PROVE  orders[id].done <= orders[id].quantity
  <2>1. Size(orders[id]) \in Nat /\ orders[id].done \in Nat
    BY <1>1 DEF IInv, Typed, Orders, Size
  <2>2. orders[id].done + Size(orders[id]) = orders[id].quantity
    BY <1>1 DEF IInv, OrdersInv, Once
  <2>3. QED
    BY <2>1, <2>2
<1>2. IInv => ExecutesOnce
  BY <1>1 DEF ExecutesOnce
<1>3. QED
  BY <1>2, Invariance, PTL
==============================================================================
