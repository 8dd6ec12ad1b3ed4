------------------------------ MODULE OrderCall -------------------------------
(***************************************************************************)
(* What the submission of one market order promises its caller, whatever   *)
(* the exchange, the position mode and the network do: the protocol the    *)
(* Reconciler module builds on (its Answered, Raised, Lost, Verify, Execute*)
(* and ResolveLate are the actions below with the reconciler's own state   *)
(* around them).                                                           *)
(*                                                                         *)
(* A position is one signed number.  An order is sent at most once, it     *)
(* executes at most once, in one piece or in several, and it may still     *)
(* execute after its call ended.                                           *)
(***************************************************************************)
EXTENDS Integers

CONSTANT Quantities \* quantities an order may have

VARIABLES
    pos,   \* the net position
    torn,  \* a long and a short leg are open at once
    seen,  \* the position the caller read last
    order, \* the order of the call under way: its delta is what is left of it
    call,  \* how far the call is, or how the last one ended
    late,  \* orders whose call ended before they were decided
    sent   \* how many orders were sent; the last one's id

callVars == <<pos, torn, seen, order, call, late, sent>>

NoOrder == [id |-> 0, delta |-> 0, reduce |-> FALSE, state |-> "none"]

Busy == call \in {"waiting", "asking"}

CallInit ==
    /\ pos = 0 /\ torn = FALSE /\ seen = 0
    /\ order = NoOrder /\ call = "none" /\ late = {} /\ sent = 0

Read ==
    /\ ~Busy /\ ~torn
    /\ seen' = pos
    /\ UNCHANGED <<pos, torn, order, call, late, sent>>

(* The call fails before anything was sent.                                *)
Decline ==
    /\ ~Busy /\ call' = "failed"
    /\ UNCHANGED <<pos, torn, seen, order, late, sent>>

(* An order is sent: away from zero on the side that was seen, or towards  *)
(* zero and at most as much as was seen.                                   *)
Place ==
    \E q \in Quantities, sign \in {-1, 1}, reduce \in BOOLEAN :
        /\ ~Busy
        /\ IF reduce THEN sign * seen < 0 /\ q <= -sign * seen ELSE sign * seen >= 0
        /\ sent' = sent + 1
        /\ order' = [id |-> sent', delta |-> sign * q, reduce |-> reduce, state |-> "sent"]
        /\ call' = "waiting"
        /\ UNCHANGED <<pos, torn, seen, late>>

Live(o) == o.state \in {"sent", "partly"}

(* A piece of the order executes.  A reduction brings the position closer  *)
(* to zero and not beyond.  Only an increase that meets a position of the  *)
(* other side can leave both legs open.                                    *)
Executes(o, q) ==
    /\ pos' = IF o.delta < 0 THEN pos - q ELSE pos + q
    /\ o.reduce /\ ~torn => o.delta * pos < 0 /\ pos * pos' >= 0
    /\ torn' => torn \/ (~o.reduce /\ o.delta * pos < 0)

Pieces(o) == 1..(IF o.delta < 0 THEN -o.delta ELSE o.delta)

(* What is left of the order then.                                         *)
After(o, q) ==
    LET left == IF o.delta < 0 THEN o.delta + q ELSE o.delta - q
    IN  [o EXCEPT !.delta = left, !.state = IF left = 0 THEN "filled" ELSE "partly"]

OrderExecutes ==
    \E q \in Pieces(order) :
        /\ Live(order) /\ Executes(order, q)
        /\ order' = After(order, q)
        /\ UNCHANGED <<seen, call, late, sent>>

OrderDies ==
    /\ Live(order)
    /\ \E end \in {"rejected", "expired"} :
          /\ end = "rejected" => order.state = "sent"
          /\ order' = [order EXCEPT !.state = end]
    /\ UNCHANGED <<pos, torn, seen, call, late, sent>>

LateExecutes ==
    \E o \in late : \E q \in Pieces(o) :
        /\ Executes(o, q)
        /\ late' = (late \ {o}) \cup {rest \in {After(o, q)} : Live(rest)}
        /\ UNCHANGED <<seen, order, call, sent>>

LateDies ==
    \E o \in late :
        /\ late' = late \ {o}
        /\ UNCHANGED <<pos, torn, seen, order, call, sent>>

(* The answer is lost; the exchange is asked about the order.              *)
Lose ==
    /\ call = "waiting" /\ call' = "asking"
    /\ UNCHANGED <<pos, torn, seen, order, late, sent>>

(* The call ends.  A receipt is evidence that the exchange took the order; *)
(* after a lost answer it is given for an order that has executed, at least*)
(* in part.                                                                *)
End ==
    \E result \in {"receipt", "failed"} :
        /\ Busy
        /\ result = "receipt" => /\ order.state # "rejected"
                                 /\ call = "asking" => order.state \in {"partly", "filled"}
        /\ call' = result
        /\ late' = IF Live(order) THEN late \cup {order} ELSE late
        /\ order' = NoOrder
        /\ UNCHANGED <<pos, torn, seen, sent>>

CallNext ==
    \/ Read \/ Decline \/ Place
    \/ OrderExecutes \/ OrderDies \/ LateExecutes \/ LateDies
    \/ Lose \/ End

CallSpec == CallInit /\ [][CallNext]_callVars
==============================================================================
