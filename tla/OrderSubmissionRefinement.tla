---------------------- MODULE OrderSubmissionRefinement -----------------------
(***************************************************************************)
(* OrderSubmission implements OrderCall, the protocol the reconciler builds*)
(* on: every step of a call, of a request and of the exchange, with both   *)
(* adapters and in both position modes, is a step of an order's life as    *)
(* the caller sees it, or changes nothing the caller relies on.            *)
(***************************************************************************)
EXTENDS OrderSubmissionProofs

(* The abstract state.                                                     *)
CallOrder ==
    IF Placed THEN AbstractOrder(sent)
    ELSE [id |-> 0, delta |-> 0, reduce |-> FALSE, state |-> "none"]

CallStatus ==
    CASE ~Placed -> result
      [] Placed /\ pc \in {"verify", "reread"} -> "asking"
      [] OTHER -> "waiting"

Waiting == {i \in 1..sent : orders[i].state \in Undecided /\ ~(Placed /\ i = sent)}

LateOrders == {AbstractOrder(id) : id \in Waiting}

-----------------------------------------------------------------------------
(* What OrderCall demands, on the abstract state.                          *)

Kept == UNCHANGED <<Net, BothLegs, seen, sent>>

LEMMA Stutters ==
    ASSUME Kept, UNCHANGED <<CallOrder, CallStatus, LateOrders>>
    PROVE  UNCHANGED Call!callVars
BY DEF Kept, CallOrder, CallStatus, LateOrders, Waiting, Call!callVars

LEMMA Reads ==
    ASSUME CallStatus \notin {"waiting", "asking"}, ~BothLegs, seen' = Net,
           UNCHANGED <<Net, BothLegs, CallOrder, CallStatus, LateOrders, sent>>
    PROVE  Call!CallNext
BY DEF CallOrder, CallStatus, LateOrders, Waiting, Call!CallNext, Call!Read, Call!Busy

LEMMA Declines ==
    ASSUME CallStatus \notin {"waiting", "asking"}, CallStatus' = "failed", Kept,
           UNCHANGED <<CallOrder, LateOrders>>
    PROVE  Call!CallNext
BY DEF Kept, CallOrder, CallStatus, LateOrders, Waiting, Call!CallNext, Call!Decline, Call!Busy

LEMMA Places ==
    ASSUME CallStatus \notin {"waiting", "asking"}, NEW q \in Quantities, NEW sign \in {-1, 1},
           NEW reduce \in BOOLEAN,
           IF reduce THEN sign * seen < 0 /\ q <= -sign * seen ELSE sign * seen >= 0,
           sent' = sent + 1, CallStatus' = "waiting",
           CallOrder' = [id |-> sent', delta |-> sign * q, reduce |-> reduce, state |-> "sent"],
           UNCHANGED <<Net, BothLegs, seen, LateOrders>>
    PROVE  Call!CallNext
BY DEF CallOrder, CallStatus, LateOrders, Waiting, Call!CallNext, Call!Place, Call!Busy

LEMMA CallExecutes ==
    ASSUME Call!Live(CallOrder), NEW q \in Call!Pieces(CallOrder), Call!Executes(CallOrder, q),
           CallOrder' = Call!After(CallOrder, q),
           UNCHANGED <<seen, CallStatus, LateOrders, sent>>
    PROVE  Call!CallNext
BY DEF CallOrder, CallStatus, LateOrders, Waiting, Call!CallNext, Call!OrderExecutes

LEMMA CallDies ==
    ASSUME Call!Live(CallOrder), NEW end \in {"rejected", "expired"},
           end = "rejected" => CallOrder.state = "sent",
           CallOrder' = [CallOrder EXCEPT !.state = end], Kept,
           UNCHANGED <<CallStatus, LateOrders>>
    PROVE  Call!CallNext
BY DEF Kept, CallOrder, CallStatus, LateOrders, Waiting, Call!CallNext, Call!OrderDies

LEMMA LateFills ==
    ASSUME NEW o \in LateOrders, NEW q \in Call!Pieces(o), Call!Executes(o, q),
           LateOrders' = (LateOrders \ {o})
                         \cup {rest \in {Call!After(o, q)} : Call!Live(rest)},
           UNCHANGED <<seen, CallOrder, CallStatus, sent>>
    PROVE  Call!CallNext
BY DEF CallOrder, CallStatus, LateOrders, Waiting, Call!CallNext, Call!LateExecutes

LEMMA LateEnds ==
    ASSUME NEW o \in LateOrders, LateOrders' = LateOrders \ {o}, Kept,
           UNCHANGED <<CallOrder, CallStatus>>
    PROVE  Call!CallNext
BY DEF Kept, CallOrder, CallStatus, LateOrders, Waiting, Call!CallNext, Call!LateDies

LEMMA Loses ==
    ASSUME CallStatus = "waiting", CallStatus' = "asking", Kept,
           UNCHANGED <<CallOrder, LateOrders>>
    PROVE  Call!CallNext
BY DEF Kept, CallOrder, CallStatus, LateOrders, Waiting, Call!CallNext, Call!Lose

LEMMA Ends ==
    ASSUME CallStatus \in {"waiting", "asking"}, NEW r \in {"receipt", "failed"},
           r = "receipt" => /\ CallOrder.state # "rejected"
                            /\ CallStatus = "asking" => CallOrder.state \in {"partly", "filled"},
           CallStatus' = r, Kept,
           LateOrders' = IF Call!Live(CallOrder) THEN LateOrders \cup {CallOrder}
                         ELSE LateOrders,
           CallOrder' = [id |-> 0, delta |-> 0, reduce |-> FALSE, state |-> "none"]
    PROVE  Call!CallNext
BY DEF Kept, CallOrder, CallStatus, LateOrders, Waiting, Call!CallNext, Call!End, Call!Busy,
       Call!NoOrder

-----------------------------------------------------------------------------
(* The concrete steps.                                                     *)

LEMMA StatusIs ==
    ASSUME IInv
    PROVE  /\ ~Placed => CallStatus = result /\ CallStatus \notin {"waiting", "asking"}
           /\ Placed => CallStatus = IF pc \in {"verify", "reread"} THEN "asking" ELSE "waiting"
BY DEF IInv, Typed, CallStatus

LEMMA CallOrderIs ==
    ASSUME Placed
    PROVE  /\ CallOrder = AbstractOrder(sent) /\ Order = orders[sent]
           /\ CallOrder.state = IF Order.state \notin Undecided THEN Order.state
                                ELSE IF Order.done = 0 THEN "sent" ELSE "partly"
BY DEF CallOrder, AbstractOrder, Order

LEMMA NothingMoved ==
    ASSUME UNCHANGED <<legs, seen, sent>>
    PROVE  Kept
BY DEF Kept, Net, BothLegs

(* The call goes on, and so do its order and the late ones.                *)
LEMMA GoesOn ==
    ASSUME IInv, UNCHANGED <<legs, seen, sent>>, Placed' <=> Placed,
           Placed => (pc' \in {"verify", "reread"} <=> pc \in {"verify", "reread"}),
           ~Placed => UNCHANGED result,
           \A i \in Ids : /\ AbstractOrder(i)' = AbstractOrder(i)
                          /\ orders'[i].state \in Undecided <=> orders[i].state \in Undecided
    PROVE  UNCHANGED Call!callVars
<1>1. \A i \in 1..sent : i \in Ids
  BY OrderSubmissionAssumption DEF IInv, Typed, Ids
<1>2. CallOrder' = CallOrder
  <2>1. Placed => AbstractOrder(sent)' = AbstractOrder(sent)
    BY Sent
  <2>2. QED
    BY <2>1 DEF CallOrder
<1>3. CallStatus' = CallStatus
  BY DEF CallStatus
<1>4. Waiting' = Waiting
  BY <1>1 DEF Waiting
<1>5. LateOrders' = LateOrders
  BY <1>1, <1>4 DEF LateOrders, Waiting
<1>6. QED
  BY <1>2, <1>3, <1>5, NothingMoved, Stutters

(* The same, when the step touches no order.                               *)
LEMMA CallGoesOn ==
    ASSUME IInv, UNCHANGED <<legs, seen, sent, orders>>, Placed' <=> Placed,
           Placed => (pc' \in {"verify", "reread"} <=> pc \in {"verify", "reread"}),
           ~Placed => UNCHANGED result
    PROVE  UNCHANGED Call!callVars
BY GoesOn DEF AbstractOrder

(* A call that has sent its order ends; an undecided order becomes late.   *)
LEMMA CallEnded ==
    ASSUME IInv, Placed, ~Placed', UNCHANGED <<legs, seen, sent, orders>>,
           result' \in {"receipt", "failed"},
           result' = "receipt" => /\ Order.state # "rejected"
                                  /\ pc \in {"verify", "reread"} => Counts(Order)
    PROVE  Call!CallNext
<1>1. CallStatus \in {"waiting", "asking"} /\ CallStatus' = result' /\ Kept
  BY StatusIs, NothingMoved DEF CallStatus
<1>2. CallOrder' = [id |-> 0, delta |-> 0, reduce |-> FALSE, state |-> "none"]
  BY DEF CallOrder
<1>3. result' = "receipt" => /\ CallOrder.state # "rejected"
                             /\ CallStatus = "asking" => CallOrder.state \in {"partly", "filled"}
  <2>1. CallOrder.state = "rejected" => Order.state = "rejected"
    BY CallOrderIs
  <2>2. Counts(Order) => CallOrder.state \in {"partly", "filled"}
    <3>1. Order.done \in Nat
      BY Sent DEF Orders
    <3>2. QED
      BY <3>1, CallOrderIs DEF Undecided, Counts
  <2>3. CallStatus = "asking" => pc \in {"verify", "reread"}
    BY StatusIs
  <2>4. QED
    BY <2>1, <2>2, <2>3
<1>4. Waiting' = IF Order.state \in Undecided THEN Waiting \cup {sent} ELSE Waiting
  <2>1. sent \in 1..sent
    BY Sent, OrderSubmissionAssumption DEF Ids
  <2>2. QED
    BY <2>1 DEF Waiting, Order
<1>5. Call!Live(CallOrder) <=> Order.state \in Undecided
  <2>1. Order.state \notin {"sent", "partly"}
    BY Sent DEF Orders, OrderStates
  <2>2. QED
    BY <2>1, CallOrderIs DEF Call!Live
<1>6. \A i : AbstractOrder(i)' = AbstractOrder(i)
  BY DEF AbstractOrder
<1>7. LateOrders' = IF Call!Live(CallOrder) THEN LateOrders \cup {CallOrder} ELSE LateOrders
  BY <1>4, <1>5, <1>6, CallOrderIs DEF LateOrders
<1>8. QED
  BY <1>1, <1>2, <1>3, <1>7, Ends

LEMMA ReadPositionRefines ==
    ASSUME IInv, ReadPosition
    PROVE  Call!CallNext
<1>1. /\ pc = "idle" /\ ~BothLegs /\ seen' = Net
      /\ UNCHANGED <<legs, orders, sent, pc, resent, result>>
  BY DEF ReadPosition, clientUnchanged
<1>2. ~Placed /\ (Placed' <=> Placed)
  BY <1>1 DEF Placed
<1>3. UNCHANGED <<CallOrder, CallStatus, LateOrders, Net, BothLegs>>
  BY <1>1, <1>2 DEF CallOrder, CallStatus, LateOrders, Waiting, AbstractOrder, Net, BothLegs
<1>4. QED
  BY <1>1, <1>2, <1>3, StatusIs, Reads

LEMMA BeginRefines ==
    ASSUME IInv, Begin
    PROVE  UNCHANGED Call!callVars
<1>1. /\ pc = "idle" /\ pc' \in {"prepare", "submit"} /\ resent' = FALSE
      /\ UNCHANGED <<legs, orders, sent, seen, result>>
  BY DEF Begin, clientUnchanged
<1>2. ~Placed /\ ~Placed'
  BY <1>1 DEF Placed
<1>3. QED
  BY <1>1, <1>2, CallGoesOn

(* A submission that repeats a request, or gives up on it.                 *)
LEMMA RepeatRefines ==
    ASSUME IInv, Placed, RepeatOrFail, UNCHANGED <<legs, orders, sent, seen, resent>>
    PROVE  Call!CallNext \/ UNCHANGED Call!callVars
<1>1. CASE UNCHANGED <<pc, result>>
  <2>1. Placed' <=> Placed
    BY <1>1 DEF Placed
  <2>2. QED
    BY <1>1, <2>1, CallGoesOn
<1>2. CASE pc' = "idle" /\ result' = "failed"
  <2>1. ~Placed'
    BY <1>2 DEF Placed
  <2>2. QED
    BY <1>2, <2>1, CallEnded
<1>3. QED
  BY <1>1, <1>2, RepeatTyped DEF IInv

LEMMA PrepareRefines ==
    ASSUME IInv, Prepare
    PROVE  Call!CallNext \/ UNCHANGED Call!callVars
<1>1. /\ pc = "prepare" /\ ~resent /\ ~resent'
      /\ UNCHANGED <<legs, orders, sent, seen>>
  BY DEF Prepare, clientUnchanged, IInv, CallInv
<1>2. ~Placed
  BY <1>1 DEF Placed
<1>3. CASE pc' \in {"prepare", "submit"} /\ UNCHANGED result
  <2>1. ~Placed'
    BY <1>1, <1>3 DEF Placed
  <2>2. QED
    BY <1>1, <1>2, <1>3, <2>1, CallGoesOn
<1>4. CASE pc' = "idle" /\ result' = "failed"
  <2>1. ~Placed'
    BY <1>4 DEF Placed
  <2>2. CallStatus' = "failed" /\ CallOrder' = CallOrder /\ LateOrders' = LateOrders /\ Kept
    BY <1>1, <1>2, <1>4, <2>1, NothingMoved
    DEF CallStatus, CallOrder, LateOrders, Waiting, AbstractOrder
  <2>3. QED
    BY <1>2, <2>2, StatusIs, Declines
<1>5. QED
  BY <1>1, <1>3, <1>4, RepeatTyped DEF Prepare, IInv

(* The first submission sends the order; one with a new timestamp sends    *)
(* the same order again.                                                   *)
LEMMA SubmitRefines ==
    ASSUME IInv, Submit
    PROVE  Call!CallNext \/ UNCHANGED Call!callVars
<1>. DEFINE o == [want EXCEPT !.state = "wire"]
<1>1. /\ pc = "submit" /\ pc' = "answer" /\ sent' \in Ids /\ UNCHANGED <<legs, seen, resent>>
      /\ sent' = (IF resent THEN sent ELSE sent + 1)
      /\ orders' = [orders EXCEPT ![sent'] = o] /\ MadeFrom(want, seen) /\ want \in Orders
      /\ want.done = 0
  BY SubmitFacts
<1>2. o.state = "wire" /\ o.delta = want.delta /\ o.reduce = want.reduce /\ o.done = 0
  BY <1>1 DEF Orders
<1>. HIDE DEF o
<1>3. /\ orders'[sent'] = o
      /\ \A j \in Ids : j # sent' => orders'[j] = orders[j]
  BY <1>1 DEF IInv, Typed
<1>4. Placed' /\ (Placed <=> resent)
  BY <1>1 DEF Placed
<1>5. CASE resent
  <2>1. /\ sent' = sent /\ orders[sent].state = "refused"
        /\ orders[sent].delta = want.delta /\ orders[sent].reduce = want.reduce
        /\ orders[sent].done = 0
    BY <1>5, SubmitFacts
  <2>2. ASSUME NEW i \in Ids
        PROVE  /\ AbstractOrder(i)' = AbstractOrder(i)
               /\ orders'[i].state \in Undecided <=> orders[i].state \in Undecided
    BY <1>2, <1>3, <2>1 DEF AbstractOrder, Undecided
  <2>3. QED
    BY <1>1, <1>4, <1>5, <2>1, <2>2, GoesOn
<1>6. CASE ~resent
  <2>1. sent' = sent + 1 /\ sent \in Nat
    BY <1>1, <1>6, OrderSubmissionAssumption DEF IInv, Typed
  <2>2. CallStatus' = "waiting"
    BY <1>1, <1>4 DEF CallStatus
  <2>3. /\ AbstractOrder(sent)' = [id |-> sent', delta |-> want.delta,
                                   reduce |-> want.reduce, state |-> "sent"]
        /\ CallOrder' = AbstractOrder(sent)'
    BY <1>2, <1>3, <1>4 DEF CallOrder, AbstractOrder, Undecided
  <2>4. LateOrders' = LateOrders
    <3>1. \A i \in 1..sent : i \in Ids /\ i # sent' /\ i \in 1..sent' /\ ~(i > sent)
      BY <1>1, <2>1, OrderSubmissionAssumption DEF Ids
    <3>2. \A i \in 1..sent' : i = sent' \/ i \in 1..sent
      BY <2>1
    <3>3. \A i \in 1..sent : orders'[i] = orders[i]
      BY <1>3, <3>1
    <3>4. Waiting' = Waiting
      BY <1>4, <1>6, <3>1, <3>2, <3>3 DEF Waiting
    <3>5. \A i \in Waiting : AbstractOrder(i)' = AbstractOrder(i)
      BY <3>3 DEF Waiting, AbstractOrder
    <3>6. QED
      BY <3>4, <3>5 DEF LateOrders
  <2>5. PICK q \in Quantities, sign \in {-1, 1}, reduce \in BOOLEAN :
            /\ IF reduce THEN sign * seen < 0 /\ q <= -sign * seen ELSE sign * seen >= 0
            /\ want = [Unsent EXCEPT !.quantity = q, !.delta = sign * q, !.reduce = reduce]
    BY <1>1 DEF MadeFrom
  <2>6. want.delta = sign * q /\ want.reduce = reduce
    BY <2>5 DEF Unsent
  <2>7. UNCHANGED <<Net, BothLegs, seen>>
    BY <1>1 DEF Net, BothLegs
  <2>8. QED
    BY <1>4, <1>6, <2>1, <2>2, <2>3, <2>4, <2>5, <2>6, <2>7, StatusIs, Places
<1>7. QED
  BY <1>5, <1>6 DEF IInv, Typed

LEMMA AnswerRefines ==
    ASSUME IInv, Acknowledged \/ Rejected \/ RefusedForTimestamp
    PROVE  Call!CallNext \/ UNCHANGED Call!callVars
<1>1. pc = "answer" /\ Placed /\ UNCHANGED <<legs, orders, sent, seen>>
  BY DEF Acknowledged, Rejected, RefusedForTimestamp, clientUnchanged, Placed
<1>2. CASE pc' \in {"ack", "sync"}
  <2>1. Placed'
    BY <1>2 DEF Placed
  <2>2. QED
    BY <1>1, <1>2, <2>1, CallGoesOn
<1>3. CASE /\ pc' = "idle" /\ result' \in {"receipt", "failed"}
           /\ result' = "receipt" => Order.state # "rejected"
  <2>1. ~Placed'
    BY <1>3 DEF Placed
  <2>2. QED
    BY <1>1, <1>3, <2>1, CallEnded
<1>4. QED
  BY <1>2, <1>3 DEF Acknowledged, Rejected, RefusedForTimestamp, End

LEMMA SynchroniseRefines ==
    ASSUME IInv, Synchronise
    PROVE  Call!CallNext \/ UNCHANGED Call!callVars
<1>1. /\ pc = "sync" /\ Placed /\ resent = TRUE
      /\ UNCHANGED <<legs, orders, sent, seen, resent>>
  BY DEF Synchronise, clientUnchanged, Placed, IInv, Typed, CallInv
<1>2. CASE pc' = "submit"
  <2>1. Placed'
    BY <1>1, <1>2 DEF Placed
  <2>2. QED
    BY <1>1, <1>2, <2>1, CallGoesOn
<1>3. CASE RepeatOrFail
  BY <1>1, <1>3, RepeatRefines
<1>4. QED
  BY <1>2, <1>3 DEF Synchronise

LEMMA LostRefines ==
    ASSUME IInv, Lost \/ Unusable
    PROVE  Call!CallNext
<1>1. pc = "answer" /\ Placed /\ UNCHANGED <<legs, orders, sent, seen>>
  BY DEF Lost, Unusable, clientUnchanged, Placed
<1>2. CASE pc' = "verify"
  <2>1. Placed'
    BY <1>2 DEF Placed
  <2>2. CallStatus = "waiting" /\ CallStatus' = "asking" /\ Kept
    BY <1>1, <1>2, <2>1, NothingMoved DEF CallStatus
  <2>3. UNCHANGED <<CallOrder, LateOrders>>
    BY <1>1, <2>1 DEF CallOrder, LateOrders, Waiting, AbstractOrder
  <2>4. QED
    BY <2>2, <2>3, Loses
<1>3. CASE pc' = "idle" /\ result' = "failed"
  <2>1. ~Placed'
    BY <1>3 DEF Placed
  <2>2. QED
    BY <1>1, <1>3, <2>1, CallEnded
<1>4. QED
  BY <1>2, <1>3 DEF Lost, Unusable, End

LEMMA QueryRefines ==
    ASSUME IInv, QueryAcknowledged \/ QueryUnknown \/ Reread
    PROVE  Call!CallNext \/ UNCHANGED Call!callVars
<1>1. /\ pc \in {"ack", "verify", "reread"} /\ Placed
      /\ UNCHANGED <<legs, orders, sent, seen, resent>>
  BY DEF QueryAcknowledged, QueryUnknown, Reread, clientUnchanged, Placed
<1>2. CASE pc = "verify" /\ pc' = "reread"
  <2>1. Placed'
    BY <1>2 DEF Placed
  <2>2. QED
    BY <1>1, <1>2, <2>1, CallGoesOn
<1>3. CASE RepeatOrFail
  BY <1>1, <1>3, RepeatRefines
<1>4. CASE /\ pc' = "idle" /\ result' \in {"receipt", "failed"}
           /\ result' = "receipt" => /\ pc \in {"ack", "verify"}
                                     /\ pc = "verify" => Counts(Order)
  <2>1. ~Placed'
    BY <1>4 DEF Placed
  <2>2. result' = "receipt" => /\ Order.state # "rejected"
                               /\ pc \in {"verify", "reread"} => Counts(Order)
    BY <1>4 DEF IInv, CallInv, Counts
  <2>3. QED
    BY <1>1, <1>4, <2>1, <2>2, CallEnded
<1>5. QED
  BY <1>2, <1>3, <1>4 DEF QueryAcknowledged, QueryUnknown, Reread, QueryFails, End

-----------------------------------------------------------------------------
(* The exchange.                                                           *)

(* In both position modes a reduction meets a position of the other side   *)
(* and does not exceed it, and an order leaves both legs open only when it *)
(* opens one against the other.                                            *)
LEMMA FillSides ==
    ASSUME Typed, NEW o \in Orders, NEW q \in 1..Fillable(o)
    PROVE  /\ o.reduce /\ ~BothLegs => \/ o.delta < 0 /\ Net > 0 /\ q <= Net
                                       \/ o.delta > 0 /\ Net < 0 /\ q <= -Net
           /\ Filled(o, q).long > 0 /\ Filled(o, q).short > 0 =>
                  \/ BothLegs
                  \/ ~o.reduce /\ (\/ o.delta < 0 /\ Net > 0
                                   \/ o.delta > 0 /\ Net < 0)
<1>1. /\ legs.long \in Nat /\ legs.short \in Nat /\ Net = legs.long - legs.short
      /\ q \in Nat /\ q >= 1 /\ q <= Size(o)
  BY FillMoves, NetTyped DEF Net
<1>2. o.delta \in Int /\ o.reduce \in BOOLEAN /\ Size(o) \in Nat /\ o.delta # 0
  BY <1>1 DEF Size, Orders
<1>3. BothLegs <=> legs.long > 0 /\ legs.short > 0
  BY DEF BothLegs
<1>4. CASE mode = "hedge"
  <2>1. Parameters(o).leg = Leg(o) /\ Leg(o) \in {"long", "short"}
    BY <1>4 DEF Parameters, Leg
  <2>2. Fillable(o) = IF Opens(o) THEN Size(o) ELSE Smaller(Size(o), legs[Leg(o)])
    BY <2>1 DEF Fillable
  <2>3. Filled(o, q) = [legs EXCEPT ![Leg(o)] = IF Opens(o) THEN @ + q ELSE @ - q]
    BY <2>1 DEF Filled
  <2>4. Opens(o) <=> ((o.delta > 0) <=> Leg(o) = "long")
    BY <1>2, <2>1 DEF Opens
  <2>5. CASE o.reduce
    <3>1. Leg(o) = IF o.delta > 0 THEN "short" ELSE "long"
      BY <1>2, <2>5 DEF Leg
    <3>2. ~Opens(o)
      BY <1>2, <2>4, <3>1
    <3>3. q <= legs[Leg(o)] /\ Filled(o, q) = [legs EXCEPT ![Leg(o)] = @ - q]
      BY <1>1, <1>2, <2>1, <2>2, <2>3, <3>2 DEF Smaller
    <3>4. CASE o.delta > 0
      <4>1. q <= legs.short /\ Filled(o, q).long = legs.long
        BY <3>1, <3>3, <3>4 DEF Typed
      <4>2. legs.short > 0
        BY <1>1, <4>1
      <4>3. QED
        BY <1>1, <1>3, <2>5, <3>4, <4>1, <4>2
    <3>5. CASE o.delta < 0
      <4>1. q <= legs.long /\ Filled(o, q).short = legs.short
        BY <1>2, <3>1, <3>3, <3>5 DEF Typed
      <4>2. legs.long > 0
        BY <1>1, <4>1
      <4>3. QED
        BY <1>1, <1>3, <2>5, <3>5, <4>1, <4>2
    <3>6. QED
      BY <1>2, <3>4, <3>5
  <2>6. CASE ~o.reduce
    <3>1. Leg(o) = IF o.delta > 0 THEN "long" ELSE "short"
      BY <1>2, <2>6 DEF Leg
    <3>2. CASE o.delta > 0
      <4>1. Filled(o, q).short = legs.short
        BY <2>3, <3>1, <3>2 DEF Typed
      <4>2. QED
        BY <1>1, <1>3, <2>6, <3>2, <4>1
    <3>3. CASE o.delta < 0
      <4>1. Filled(o, q).long = legs.long
        BY <1>2, <2>3, <3>1, <3>3 DEF Typed
      <4>2. QED
        BY <1>1, <1>3, <2>6, <3>3, <4>1
    <3>4. QED
      BY <1>2, <3>2, <3>3
  <2>7. QED
    BY <1>2, <2>5, <2>6
<1>5. CASE mode = "one_way"
  <2>1. Parameters(o).leg = "net" /\ (Parameters(o).reduceOnly <=> o.reduce)
    BY <1>5 DEF Parameters
  <2>2. Filled(o, q) = Split(IF o.delta > 0 THEN Net + q ELSE Net - q)
    BY <2>1 DEF Filled
  <2>3. ~(Filled(o, q).long > 0 /\ Filled(o, q).short > 0)
    BY <1>1, <2>2 DEF Split
  <2>4. ASSUME o.reduce
        PROVE  \/ o.delta < 0 /\ Net > 0 /\ q <= Net
               \/ o.delta > 0 /\ Net < 0 /\ q <= -Net
    <3>. DEFINE against == IF o.delta > 0 THEN -Net ELSE Net
    <3>1. Fillable(o) = IF against > 0 THEN Smaller(Size(o), against) ELSE 0
      BY <2>1, <2>4 DEF Fillable
    <3>2. against \in Int
      BY <1>1
    <3>3. against > 0 /\ q <= against
      <4>. HIDE DEF against
      <4>1. QED
        BY <1>1, <1>2, <3>1, <3>2 DEF Smaller
    <3>4. QED
      BY <1>1, <1>2, <3>3
  <2>5. QED
    BY <2>3, <2>4
<1>6. QED
  BY <1>4, <1>5, OrderSubmissionAssumption DEF Typed

LEMMA FillExecutes ==
    ASSUME Typed, NEW o \in Orders, NEW q \in 1..Fillable(o), legs' = Filled(o, q),
           NEW a, a.delta = o.delta, a.reduce = o.reduce
    PROVE  q \in Call!Pieces(a) /\ Call!Executes(a, q)
<1>1. /\ q \in Nat /\ q >= 1 /\ q <= Size(o) /\ Net \in Int /\ o.delta \in Int
      /\ legs' \in [{"long", "short"} -> Nat]
      /\ Net' = IF o.delta < 0 THEN Net - q ELSE Net + q
  BY FillMoves, NetTyped DEF Orders, Net
<1>2. q \in 1..(IF a.delta < 0 THEN -a.delta ELSE a.delta)
  BY <1>1 DEF Size
<1>3. a.reduce /\ ~BothLegs => a.delta * Net < 0 /\ Net * Net' >= 0
  <2>1. CASE o.reduce /\ ~BothLegs /\ o.delta < 0 /\ Net > 0 /\ q <= Net
    <3>1. Net' >= 0 /\ Net' \in Int
      BY <1>1, <2>1
    <3>2. QED
      BY <1>1, <2>1, <3>1
  <2>2. CASE o.reduce /\ ~BothLegs /\ o.delta > 0 /\ Net < 0 /\ q <= -Net
    <3>1. Net' <= 0 /\ Net' \in Int
      BY <1>1, <2>2
    <3>2. QED
      BY <1>1, <2>2, <3>1
  <2>3. QED
    BY <2>1, <2>2, FillSides
<1>4. BothLegs' => BothLegs \/ (~a.reduce /\ a.delta * Net < 0)
  <2>1. BothLegs' <=> Filled(o, q).long > 0 /\ Filled(o, q).short > 0
    BY DEF BothLegs
  <2>2. (o.delta < 0 /\ Net > 0) \/ (o.delta > 0 /\ Net < 0) => o.delta * Net < 0
    BY <1>1
  <2>3. QED
    BY <2>1, <2>2, FillSides
<1>5. Net' = IF a.delta < 0 THEN Net - q ELSE Net + q
  BY <1>1
<1>6. QED
  BY <1>2, <1>3, <1>4, <1>5 DEF Call!Executes, Call!Pieces

(* An order fills, or dies: it is the call's own, or a late one.           *)
Fills(id, o) ==
    /\ o.state \in {"live", "filled"}
    /\ \E q \in Call!Pieces(AbstractOrder(id)) :
          /\ Call!Executes(AbstractOrder(id), q)
          /\ AbstractOrder(id)' = Call!After(AbstractOrder(id), q)

Dies(id, o) ==
    /\ o.state \in {"rejected", "expired"} /\ UNCHANGED <<legs, Net, BothLegs>>
    /\ o.delta = orders[id].delta
    /\ o.state = "rejected" => orders[id].done = 0

LEMMA Moves ==
    ASSUME IInv, NEW id \in Ids, orders[id].state \in Undecided,
           NEW o \in Orders, orders' = [orders EXCEPT ![id] = o],
           o.reduce = orders[id].reduce,
           UNCHANGED <<adapter, mode, pc, seen, sent, resent, result>>,
           Fills(id, o) \/ Dies(id, o)
    PROVE  Call!CallNext
<1>1. (Placed' <=> Placed) /\ CallStatus' = CallStatus
  BY DEF Placed, CallStatus
<1>2. id \in 1..sent
  BY OrderSubmissionAssumption DEF IInv, OrdersInv, Typed, Ids, Undecided, Unsent
<1>3. /\ orders'[id] = o /\ (o.state \in Undecided <=> o.state = "live")
      /\ \A j \in Ids : j # id => orders'[j] = orders[j]
  BY DEF IInv, Typed, Undecided, Fills, Dies
<1>4. \A j \in 1..sent : j \in Ids
  BY OrderSubmissionAssumption DEF IInv, Typed, Ids
<1>5. \A j \in 1..sent : j # id => AbstractOrder(j)' = AbstractOrder(j)
  BY <1>3, <1>4 DEF AbstractOrder
<1>6. Waiting' = IF o.state = "live" THEN Waiting ELSE Waiting \ {id}
  BY <1>1, <1>2, <1>3, <1>4 DEF Waiting
<1>7. Call!Live(AbstractOrder(id))
  BY DEF AbstractOrder, Call!Live
<1>8. Call!Live(AbstractOrder(id)') <=> o.state = "live"
  <2>1. o.state \notin {"sent", "partly"}
    BY DEF Orders, OrderStates
  <2>2. AbstractOrder(id)'.state = IF orders'[id].state \notin Undecided THEN orders'[id].state
                                   ELSE IF orders'[id].done = 0 THEN "sent" ELSE "partly"
    BY DEF AbstractOrder
  <2>3. QED
    BY <1>3, <2>1, <2>2 DEF Call!Live
<1>9. ASSUME Dies(id, o)
      PROVE  /\ AbstractOrder(id)' = [AbstractOrder(id) EXCEPT !.state = o.state]
             /\ o.state = "rejected" => AbstractOrder(id).state = "sent"
  BY <1>3, <1>9 DEF Dies, AbstractOrder, Undecided
<1>10. CASE Placed /\ id = sent
  <2>1. CallOrder = AbstractOrder(id) /\ CallOrder' = AbstractOrder(id)'
    BY <1>1, <1>10 DEF CallOrder
  <2>2. LateOrders' = LateOrders
    <3>1. id \notin Waiting
      BY <1>10 DEF Waiting
    <3>2. QED
      BY <1>5, <1>6, <3>1 DEF LateOrders, Waiting
  <2>3. CASE Fills(id, o)
    BY <1>1, <1>7, <2>1, <2>2, <2>3, CallExecutes DEF Fills
  <2>4. CASE Dies(id, o)
    BY <1>1, <1>7, <1>9, <2>1, <2>2, <2>4, CallDies DEF Kept, Dies
  <2>5. QED
    BY <2>3, <2>4
<1>11. CASE ~(Placed /\ id = sent)
  <2>1. id \in Waiting /\ AbstractOrder(id) \in LateOrders
    BY <1>2, <1>11 DEF LateOrders, Waiting
  <2>2. \A j \in Waiting : j # id => AbstractOrder(j) # AbstractOrder(id)
    BY DEF AbstractOrder
  <2>3. LateOrders' = (LateOrders \ {AbstractOrder(id)})
                      \cup {rest \in {AbstractOrder(id)'} : Call!Live(rest)}
    <3>1. LateOrders \ {AbstractOrder(id)} = {AbstractOrder(j) : j \in Waiting \ {id}}
      BY <2>2 DEF LateOrders
    <3>2. \A j \in Waiting \ {id} : AbstractOrder(j)' = AbstractOrder(j)
      BY <1>5 DEF Waiting
    <3>3. LateOrders' = {AbstractOrder(j)' : j \in Waiting'}
      BY DEF LateOrders
    <3>4. CASE o.state = "live"
      BY <1>6, <1>8, <2>1, <3>1, <3>2, <3>3, <3>4
    <3>5. CASE o.state # "live"
      BY <1>6, <1>8, <3>1, <3>2, <3>3, <3>5
    <3>6. QED
      BY <3>4, <3>5
  <2>4. CallOrder' = CallOrder
    <3>1. Placed => sent \in Ids /\ sent # id
      BY <1>11, Sent
    <3>2. QED
      BY <1>1, <1>3, <3>1 DEF CallOrder, AbstractOrder
  <2>5. CASE Fills(id, o)
    BY <1>1, <2>1, <2>3, <2>4, <2>5, LateFills DEF Fills
  <2>6. CASE Dies(id, o)
    <3>1. o.state # "live"
      BY <2>6 DEF Dies
    <3>2. LateOrders' = LateOrders \ {AbstractOrder(id)}
      BY <1>8, <2>3, <3>1
    <3>3. QED
      BY <1>1, <2>1, <2>4, <2>6, <3>2, LateEnds DEF Kept, Dies
  <2>7. QED
    BY <2>5, <2>6
<1>12. QED
  BY <1>10, <1>11

LEMMA ArriveRefines ==
    ASSUME IInv, NEW id \in Ids, Arrive(id)
    PROVE  Call!CallNext \/ UNCHANGED Call!callVars
<1>1. PICK s \in {"live", "rejected", "refused"} :
          orders' = [orders EXCEPT ![id].state = s]
  BY DEF Arrive
<1>. DEFINE o == [orders[id] EXCEPT !.state = s]
<1>2. orders[id] \in Orders /\ orders[id].state = "wire"
  BY DEF IInv, Typed, Arrive
<1>3. /\ o \in Orders /\ o.state = s /\ o.done = orders[id].done
      /\ o.delta = orders[id].delta /\ o.reduce = orders[id].reduce
  BY <1>2 DEF Orders, OrderStates
<1>4. UNCHANGED <<legs, adapter, mode, pc, seen, sent, resent, result>>
  BY DEF Arrive, exchangeUnchanged, fixed
<1>. HIDE DEF o
<1>5. orders' = [orders EXCEPT ![id] = o]
  BY <1>1 DEF o
<1>6. CASE s = "rejected"
  <2>1. orders[id].done = 0
    BY <1>2 DEF IInv, OrdersInv, Once
  <2>2. Dies(id, o)
    BY <1>3, <1>4, <1>6, <2>1 DEF Dies, Net, BothLegs
  <2>3. QED
    BY <1>2, <1>3, <1>4, <1>5, <2>2, Moves DEF Undecided
<1>7. CASE s # "rejected"
  <2>1. Placed' <=> Placed
    BY <1>4 DEF Placed
  <2>2. /\ orders'[id] = o
        /\ \A j \in Ids : j # id => orders'[j] = orders[j]
    BY <1>5 DEF IInv, Typed
  <2>3. ASSUME NEW i \in Ids
        PROVE  /\ AbstractOrder(i)' = AbstractOrder(i)
               /\ orders'[i].state \in Undecided <=> orders[i].state \in Undecided
    BY <1>2, <1>3, <1>7, <2>2 DEF AbstractOrder, Undecided
  <2>4. QED
    BY <1>4, <2>1, <2>3, GoesOn
<1>8. QED
  BY <1>6, <1>7

LEMMA ExecuteRefines ==
    ASSUME IInv, NEW id \in Ids, Execute(id)
    PROVE  Call!CallNext
<1>1. orders[id] \in Orders /\ orders[id].state = "live"
  BY DEF IInv, Typed, Execute
<1>2. PICK q \in 1..Fillable(orders[id]) :
          /\ legs' = Filled(orders[id], q)
          /\ orders' = [orders EXCEPT ![id] = Rest(orders[id], q)]
  BY <1>1, ExecuteFills
<1>. DEFINE o == Rest(orders[id], q)
<1>3. /\ o \in Orders /\ o.delta = Left(orders[id], q) /\ o.reduce = orders[id].reduce
      /\ o.done # 0 /\ o.state = IF o.delta = 0 THEN "filled" ELSE "live"
  BY <1>1, RestFacts DEF IInv
<1>4. orders' = [orders EXCEPT ![id] = o] /\ orders'[id] = o
  BY <1>2 DEF IInv, Typed
<1>. HIDE DEF o
<1>5. UNCHANGED <<adapter, mode, pc, seen, sent, resent, result>>
  BY DEF Execute, exchangeUnchanged, fixed
<1>6. /\ AbstractOrder(id).delta = orders[id].delta
      /\ AbstractOrder(id).reduce = orders[id].reduce
  BY DEF AbstractOrder
<1>7. q \in Call!Pieces(AbstractOrder(id)) /\ Call!Executes(AbstractOrder(id), q)
  BY <1>1, <1>2, <1>6, FillExecutes DEF IInv
<1>8. AbstractOrder(id)' = Call!After(AbstractOrder(id), q)
  <2>. DEFINE left == Left(orders[id], q)
  <2>1. AbstractOrder(id)' = [id |-> id, delta |-> left, reduce |-> orders[id].reduce,
                              state |-> IF left = 0 THEN "filled" ELSE "partly"]
    BY <1>3, <1>4 DEF AbstractOrder, Undecided
  <2>2. Call!After(AbstractOrder(id), q) =
            [AbstractOrder(id) EXCEPT !.delta = left,
                                      !.state = IF left = 0 THEN "filled" ELSE "partly"]
    BY <1>6 DEF Call!After, Left
  <2>. HIDE DEF left
  <2>3. QED
    BY <2>1, <2>2 DEF AbstractOrder
<1>9. Fills(id, o)
  BY <1>3, <1>7, <1>8 DEF Fills
<1>10. QED
  BY <1>1, <1>3, <1>4, <1>5, <1>9, Moves DEF Undecided

LEMMA ExpireRefines ==
    ASSUME IInv, NEW id \in Ids, Expire(id)
    PROVE  Call!CallNext
<1>. DEFINE o == [orders[id] EXCEPT !.state = "expired"]
<1>1. orders[id] \in Orders /\ orders[id].state = "live"
  BY DEF IInv, Typed, Expire
<1>2. /\ o \in Orders /\ o.state = "expired"
      /\ o.delta = orders[id].delta /\ o.reduce = orders[id].reduce
  BY <1>1 DEF Orders, OrderStates
<1>3. orders' = [orders EXCEPT ![id] = o]
  BY DEF Expire
<1>4. UNCHANGED <<legs, adapter, mode, pc, seen, sent, resent, result>>
  BY DEF Expire, exchangeUnchanged, fixed
<1>. HIDE DEF o
<1>5. UNCHANGED <<Net, BothLegs>>
  BY <1>4 DEF Net, BothLegs
<1>6. Dies(id, o)
  BY <1>2, <1>4, <1>5 DEF Dies
<1>7. QED
  BY <1>1, <1>2, <1>3, <1>4, <1>6, Moves DEF Undecided

-----------------------------------------------------------------------------
LEMMA InitRefines == Init => Call!CallInit
BY DEF Init, Placed, AbstractOrder, Net, BothLegs, Call!CallInit, Call!NoOrder

LEMMA StepRefines == IInv /\ [Next]_vars => [Call!CallNext]_(Call!callVars)
<1>. SUFFICES ASSUME IInv, [Next]_vars
              PROVE  Call!CallNext \/ UNCHANGED Call!callVars
  OBVIOUS
<1>1. CASE ReadPosition
  BY <1>1, ReadPositionRefines
<1>2. CASE Begin
  BY <1>2, BeginRefines
<1>3. CASE Prepare \/ Submit
  BY <1>3, PrepareRefines, SubmitRefines
<1>4. CASE Acknowledged \/ Rejected \/ RefusedForTimestamp
  BY <1>4, AnswerRefines
<1>5. CASE Synchronise
  BY <1>5, SynchroniseRefines
<1>6. CASE Lost \/ Unusable
  BY <1>6, LostRefines
<1>7. CASE QueryAcknowledged \/ QueryUnknown \/ Reread
  BY <1>7, QueryRefines
<1>8. CASE ExchangeStep
  BY <1>8, ArriveRefines, ExecuteRefines, ExpireRefines DEF ExchangeStep
<1>9. CASE UNCHANGED vars
  <2>1. UNCHANGED <<legs, orders, sent, pc, seen, resent, result>>
    BY <1>9 DEF vars
  <2>2. Placed' <=> Placed
    BY <2>1 DEF Placed
  <2>3. QED
    BY <2>1, <2>2, CallGoesOn
<1>10. QED
  BY <1>1, <1>2, <1>3, <1>4, <1>5, <1>6, <1>7, <1>8, <1>9 DEF Next, CallStep

(* Both adapters, in both position modes and on a network that loses and   *)
(* delays requests and answers, keep the promise of OrderCall: an order is *)
(* sent once, its pieces together change the position in its own direction *)
(* by its quantity at most, a reduction never turns the position, and a    *)
(* receipt stands for an order the exchange took.                          *)
THEOREM SubmissionImplementsOrderCall == Spec => ImplementsOrderCall
<1>1. QED
  BY InitRefines, StepRefines, Invariance, PTL DEF Spec, ImplementsOrderCall, Call!CallSpec
==============================================================================
