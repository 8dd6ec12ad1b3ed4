-------------------------- MODULE ReconcilerProofs ---------------------------
(***************************************************************************)
(* Proofs about the reconciler, for every set of followers and symbols,    *)
(* every target, limit, instrument, number of retries and of concurrent    *)
(* orders, and every interleaving of the calls with the exchange.          *)
(***************************************************************************)
EXTENDS Reconciler, SequenceTheorems, FiniteSetTheorems, TLAPS

Results == [action : {"none", "NOOP", "EXECUTED", "RISK_BLOCKED", "ORDER_FAILED"},
            final : Int, success : BOOLEAN, suppressed : BOOLEAN, receipts : BOOLEAN]

Tasks == [pc : Pcs, target : Int, attempt : 0..MaxRetries, actual : Int,
          action : {"none", "CLOSE", "OPEN", "FLIP", "ADD", "REDUCE"},
          leg : {"single", "flip_close", "flip_open"},
          order : Orders, receipts : BOOLEAN, result : Results]

Cooldowns == [target : Int, request : {"none", "OPEN", "ADD"},
              result : {"none", "RISK_BLOCKED", "ORDER_FAILED"}]

(* TypeOK, with the whole of the call and of the late orders typed.        *)
Typed ==
    /\ pos \in [Keys -> Int]
    /\ late \in [Keys -> Seq(Orders)]
    /\ task \in [Keys -> Tasks]
    /\ cool \in [Keys -> Cooldowns]
    /\ traded \in [Keys -> BOOLEAN]
    /\ killSwitch \in KillSwitches
    /\ faults \in 0..MaxFaults

(* An order is in hand exactly while the call waits for it.                *)
InHand(t) == t.order # NoOrder <=> t.pc \in {"sent", "verify"}

(* What the call is about to do, or is doing, to the position it has read. *)
Acting(t) ==
    \/ /\ t.leg = "single" /\ t.action # "FLIP" /\ t.action # "NOOP"
       /\ t.action = Classify(t.target, t.actual)
    \/ t.leg = "flip_close" /\ t.action = "FLIP" /\ t.action = Classify(t.target, t.actual)
    \/ t.leg = "flip_open" /\ t.action = "FLIP" /\ t.target # 0 /\ t.actual = 0

(* The call follows _execute_action and its flip.                          *)
Control(t) ==
    /\ t.pc \in {"idle", "queued", "initial", "actual", "risk"} => t.leg = "single"
    /\ t.pc = "risk" => t.action = Classify(t.target, t.actual) /\ t.action # "NOOP"
    /\ t.pc \in {"submit", "sent", "verify"} => Acting(t)
    /\ t.pc \in {"verify_flat", "flip_risk"} =>
           t.leg = "flip_close" /\ t.action = "FLIP" /\ t.target # 0
    /\ t.pc \in {"sent", "verify"} => t.order.reduce = OrderFor(t).reduce
    /\ t.order.state = "sent" => t.order.delta = OrderFor(t).delta

(* A call that has traded remembers it wherever it could still end as if   *)
(* nothing had happened.                                                   *)
Remembers(t, hasTraded) ==
    /\ t.pc \in {"queued", "initial"} => ~hasTraded
    /\ t.pc = "actual" /\ hasTraded => t.receipts
    /\ t.pc = "done" /\ hasTraded => ShouldNotify(t.result)

(* With the kill switch on, every order reduces.                           *)
Reduces(t) ==
    t.pc \in {"submit", "sent", "verify"} => t.action \in Reductions \/ t.leg = "flip_close"

(* What is proved rests on conditions: that the kill switch does not change *)
(* ("kill"), and that only this program trades ("alone").  The invariant is *)
(* stated for any set v of them, so that a module which composes the calls  *)
(* with a round can use it while they hold.  Alone: only this program       *)
(* trades, and no order outlives its answer.                                *)
Alone(v) == "alone" \in v /\ ~OrdersOutliveAnswers

(* Then a call knows the position p it acts on until its own order         *)
(* executes, and what it reports is still true when the caller reads it.   *)
Knows(t, p) ==
    /\ t.pc \in {"risk", "submit"} => t.actual = p
    /\ t.order.state = "sent" => t.actual = p
    /\ t.pc = "flip_risk" => p = 0
    /\ t.pc = "done" => /\ t.result.final \in {Unconfirmed, Abs(p)}
                        /\ t.result.success => Classify(t.target, p) = "NOOP"

TaskInv(v, t, p, hasTraded) ==
    /\ InHand(t) /\ Control(t) /\ Remembers(t, hasTraded)
    /\ "kill" \in v /\ killSwitch => Reduces(t)
    /\ Alone(v) => Knows(t, p)

LateInv(v, orders) ==
    /\ "kill" \in v /\ killSwitch => \A i \in DOMAIN orders : orders[i].reduce
    /\ Alone(v) => orders = <<>>

CoolInv(c) == c = NoCooldown \/ c.request \in Increases

KeyInv(v, k) == TaskInv(v, task[k], pos[k], traded[k]) /\ LateInv(v, late[k]) /\ CoolInv(cool[k])

(* The inductive invariant.                                                *)
IInv(v) == Typed /\ \A k \in Keys : KeyInv(v, k)

-----------------------------------------------------------------------------
(* What the sizing and the exchange do to a position.                      *)

LEMMA FloorBound ==
    ASSUME NEW q \in Nat
    PROVE  Floor(q) \in Nat /\ Floor(q) <= q
<1>1. Step \in Nat /\ Step > 0
  BY SizingAssumption
<1>2. q \div Step \in Nat
  BY <1>1
<1>3. q = Step * (q \div Step) + (q % Step) /\ q % Step \in Nat
  BY <1>1
<1>4. (q \div Step) * Step = Step * (q \div Step) /\ Step * (q \div Step) \in Nat
  BY <1>1, <1>2
<1>5. QED
  BY <1>3, <1>4 DEF Floor

LEMMA ChunkBound ==
    ASSUME NEW q \in Nat
    PROVE  Chunk(q) \in Nat /\ Chunk(q) <= q
BY FloorBound, SizingAssumption DEF Chunk, Smaller

LEMMA QuantityBounds ==
    ASSUME NEW n \in Nat, NEW held \in Nat
    PROVE  /\ IncreaseQuantity(n) \in Nat /\ IncreaseQuantity(n) <= n
           /\ ReduceQuantity(n, held) \in Nat
           /\ CloseQuantity(held) \in Nat
<1>1. IncreaseQuantity(n) \in Nat /\ IncreaseQuantity(n) <= n
  BY FloorBound, ChunkBound DEF IncreaseQuantity
<1>2. Smaller(Floor(n), held) \in Nat
  BY FloorBound DEF Smaller
<1>3. ReduceQuantity(n, held) \in Nat
  BY <1>2, ChunkBound DEF ReduceQuantity
<1>4. CloseQuantity(held) \in Nat
  BY FloorBound, SizingAssumption DEF CloseQuantity, Smaller
<1>5. QED
  BY <1>1, <1>3, <1>4

LEMMA OrderTyped ==
    ASSUME NEW t \in Tasks
    PROVE  OrderFor(t) \in Orders /\ OrderFor(t).state = "sent" /\ OrderFor(t) # NoOrder
<1>1. Abs(t.actual) \in Nat /\ Missing(t) \in Nat
  BY DEF Tasks, Abs, Missing
<1>2. /\ CloseQuantity(Abs(t.actual)) \in Nat
      /\ ReduceQuantity(Missing(t), Abs(t.actual)) \in Nat
      /\ IncreaseQuantity(Missing(t)) \in Nat
  BY <1>1, QuantityBounds
<1>3. OrderFor(t).state = "sent" /\ OrderFor(t) \in Orders
  BY <1>2 DEF OrderFor, Orders, Tasks
<1>4. QED
  BY <1>3 DEF NoOrder

(* An execution moves the position by no more than the order asks for.     *)
LEMMA OutcomeSize ==
    ASSUME NEW order \in Orders, NEW p \in Int, NEW x \in Outcomes(order, p)
    PROVE  \E q \in 1..Executable(order, p) :
               /\ Executable(order, p) \in Nat
               /\ x = p + (IF order.delta < 0 THEN -q ELSE q)
<1>1. Executable(order, p) \in Nat
  BY DEF Executable, Orders, Abs, Smaller
<1>2. QED
  BY <1>1 DEF Outcomes

LEMMA OutcomeTyped ==
    ASSUME NEW order \in Orders, NEW p \in Int, NEW x \in Outcomes(order, p)
    PROVE  x \in Int
BY OutcomeSize DEF Orders

(* A reduce-only order neither enlarges a position nor turns it.           *)
LEMMA ReduceOutcome ==
    ASSUME NEW order \in Orders, order.reduce, NEW p \in Int, NEW x \in Outcomes(order, p)
    PROVE  Abs(x) <= Abs(p) /\ p * x >= 0
<1>1. PICK q \in 1..Executable(order, p) :
               /\ Executable(order, p) \in Nat
               /\ x = p + (IF order.delta < 0 THEN -q ELSE q)
  BY OutcomeSize
<1>2. order.delta \in Int /\ order.delta * p < 0 /\ q \in Nat /\ q <= Abs(p)
  BY <1>1 DEF Executable, Orders, Abs, Smaller
<1>3. \/ order.delta < 0 /\ p > 0
      \/ order.delta > 0 /\ p < 0
  BY <1>2
<1>4. \/ p > 0 /\ x >= 0 /\ x <= p
      \/ p < 0 /\ x <= 0 /\ x >= p
  BY <1>1, <1>2, <1>3 DEF Abs
<1>5. x \in Int
  BY <1>1, <1>2
<1>6. QED
  BY <1>4, <1>5 DEF Abs

(* An order that opens or adds leaves the position on the target's side    *)
(* and no larger than the target.                                          *)
LEMMA IncreaseOutcome ==
    ASSUME NEW t \in Tasks, NEW order \in Orders, order.delta = OrderFor(t).delta,
           order.reduce = OrderFor(t).reduce, Acting(t), ~order.reduce,
           NEW x \in Outcomes(order, t.actual)
    PROVE  x * t.target > 0 /\ Abs(x) <= Abs(t.target) /\ t.actual * x >= 0

<1>1. t.target \in Int /\ t.actual \in Int
  BY DEF Tasks
<1>2. OrderFor(t).reduce = FALSE => /\ ~(t.action = "CLOSE" \/ t.leg = "flip_close")
                                    /\ t.action # "REDUCE"
  BY DEF OrderFor
<1>3. /\ ~(t.action = "CLOSE" \/ t.leg = "flip_close") /\ t.action # "REDUCE"
      /\ OrderFor(t).reduce = FALSE
  BY <1>2 DEF Orders
<1>4. \/ t.target # 0 /\ t.actual = 0
      \/ /\ t.target # 0 /\ t.actual # 0 /\ ~(t.actual * t.target < 0)
         /\ Abs(t.target) > Abs(t.actual)
  <2>1. CASE t.leg = "flip_open" /\ t.target # 0 /\ t.actual = 0
    BY <2>1
  <2>2. CASE t.leg = "single" /\ t.action # "FLIP" /\ t.action # "NOOP"
             /\ t.action = Classify(t.target, t.actual)
    <3>1. t.target # 0
      BY <1>3, <2>2 DEF Classify
    <3>2. CASE t.actual # 0
      <4>1. t.action = "ADD" /\ ~(t.actual * t.target < 0)
        BY <1>3, <2>2, <3>1, <3>2 DEF Classify
      <4>2. Abs(t.target) - Abs(t.actual) > 0
        BY <2>2, <3>1, <3>2, <4>1 DEF Classify
      <4>3. QED
        BY <1>1, <3>1, <3>2, <4>1, <4>2 DEF Abs
    <3>3. QED
      BY <3>1, <3>2
  <2>3. QED
    BY <1>3, <2>1, <2>2 DEF Acting
<1>5. \/ t.target > 0 /\ t.actual >= 0 /\ t.actual < t.target
      \/ t.target < 0 /\ t.actual <= 0 /\ t.actual > t.target
  BY <1>1, <1>4 DEF Abs
<1>6. Missing(t) \in Nat /\ Missing(t) = Abs(t.target) - Abs(t.actual)
  BY <1>1, <1>5 DEF Missing, Abs
<1>7. PICK size \in Nat : /\ size <= Abs(t.target) - Abs(t.actual)
                          /\ order.delta = (IF t.target < 0 THEN -1 ELSE 1) * size
  <2>1. OrderFor(t).delta = (IF t.target < 0 THEN -1 ELSE 1) * IncreaseQuantity(Missing(t))
    BY <1>3 DEF OrderFor
  <2>2. IncreaseQuantity(Missing(t)) \in Nat /\ IncreaseQuantity(Missing(t)) <= Missing(t)
    BY <1>6, QuantityBounds
  <2>3. QED
    BY <1>6, <2>1, <2>2
<1>8. PICK q \in 1..Executable(order, t.actual) :
               x = t.actual + (IF order.delta < 0 THEN -q ELSE q)
  BY <1>1, OutcomeSize
<1>9. Executable(order, t.actual) = Abs(order.delta) /\ order.delta \in Int
  BY DEF Executable, Orders
<1>10. CASE t.target > 0
  <2>1. order.delta = size
    BY <1>7, <1>10, <1>1
  <2>2. q \in Nat /\ q >= 1 /\ q <= size /\ x = t.actual + q
    BY <1>7, <1>8, <1>9, <2>1 DEF Abs
  <2>3. x > 0 /\ x <= t.target /\ x \in Int
    BY <1>1, <1>5, <1>7, <1>10, <2>2 DEF Abs
  <2>4. QED
    BY <1>1, <1>5, <1>10, <2>3 DEF Abs
<1>11. CASE t.target < 0
  <2>1. order.delta = -size
    BY <1>7, <1>11, <1>1
  <2>2. q \in Nat /\ q >= 1 /\ q <= size /\ x = t.actual - q
    BY <1>1, <1>7, <1>8, <1>9, <2>1 DEF Abs
  <2>3. x < 0 /\ x >= t.target /\ x \in Int
    BY <1>1, <1>5, <1>7, <1>11, <2>2 DEF Abs
  <2>4. QED
    BY <1>1, <1>5, <1>11, <2>3 DEF Abs
<1>12. QED
  BY <1>1, <1>5, <1>10, <1>11

-----------------------------------------------------------------------------
(* The tasks a step of the call leaves behind.                             *)

(* u acts on the same reading, for the same target, as t.                  *)
SameCall(t, u) ==
    /\ u.target = t.target /\ u.actual = t.actual
    /\ u.action = t.action /\ u.leg = t.leg

LEMMA SameOrder ==
    ASSUME NEW t \in Tasks, NEW u \in Tasks, SameCall(t, u)
    PROVE  OrderFor(u) = OrderFor(t) /\ (Acting(u) <=> Acting(t))
BY DEF SameCall, OrderFor, Missing, Acting

LEMMA SetPc ==
    ASSUME NEW t \in Tasks, NEW x \in Pcs, NEW u, u = [t EXCEPT !.pc = x]
    PROVE  /\ u \in Tasks /\ u.pc = x /\ SameCall(t, u)
           /\ u.order = t.order /\ u.receipts = t.receipts
BY DEF Tasks, SameCall

LEMMA NoOrderTyped == NoOrder \in Orders /\ NoOrder.state = "none"
BY DEF NoOrder, Orders

LEMMA NoTaskTyped ==
    /\ NoTask \in Tasks /\ NoTask.order = NoOrder
    /\ NoTask.pc = "idle" /\ NoTask.leg = "single"
<1>1. NoResult \in Results /\ 0 \in 0..MaxRetries
  BY ReconcilerAssumption DEF NoResult, Results
<1>2. QED
  BY <1>1, NoOrderTyped DEF NoTask, Tasks, Pcs

(* Between two calls, and at the start of one.                             *)
LEMMA RestInv ==
    ASSUME NEW v, NEW u \in Tasks, u.order = NoOrder, u.leg = "single", NEW p \in Int,
           NEW hasTraded \in BOOLEAN,
           u.pc = "idle" \/ (u.pc \in {"queued", "initial"} /\ ~hasTraded)
                         \/ (u.pc = "actual" /\ (hasTraded => u.receipts))
    PROVE  TaskInv(v, u, p, hasTraded)
BY NoOrderTyped DEF TaskInv, InHand, Control, Remembers, Reduces, Knows

(* The call has ended with the result r.                                   *)
Ended(t, r) == [NoTask EXCEPT !.pc = "done", !.target = t.target, !.result = r]

LEMMA EndedInv ==
    ASSUME NEW v, NEW t \in Tasks, NEW r \in Results, NEW p \in Int, NEW hasTraded \in BOOLEAN,
           hasTraded => ShouldNotify(r),
           Alone(v) => /\ r.final \in {Unconfirmed, Abs(p)}
                       /\ r.success => Classify(t.target, p) = "NOOP"
    PROVE  Ended(t, r) \in Tasks /\ TaskInv(v, Ended(t, r), p, hasTraded)
<1>. DEFINE u == Ended(t, r)
<1>1. /\ u \in Tasks /\ u.pc = "done" /\ u.target = t.target /\ u.result = r
      /\ u.order = NoOrder
  <2>1. "done" \in Pcs /\ t.target \in Int
    BY DEF Pcs, Tasks
  <2>2. QED
    BY <2>1, NoTaskTyped DEF Ended, Tasks
<1>. HIDE DEF u
<1>2. TaskInv(v, u, p, hasTraded)
  BY <1>1, NoOrderTyped DEF TaskInv, InHand, Control, Remembers, Reduces, Knows
<1>3. QED
  BY <1>1, <1>2 DEF u

(* _execute_action has raised: the position will be read again.            *)
LEMMA FailedInv ==
    ASSUME NEW v, NEW t \in Tasks, NEW p \in Int, NEW hasTraded \in BOOLEAN, NEW u,
           u = [t EXCEPT !.pc = "failed", !.order = NoOrder]
    PROVE  u \in Tasks /\ TaskInv(v, u, p, hasTraded)
<1>1. u \in Tasks /\ u.pc = "failed" /\ u.order = NoOrder
  BY NoOrderTyped DEF Tasks, Pcs
<1>2. QED
  BY <1>1, NoOrderTyped DEF TaskInv, InHand, Control, Remembers, Reduces, Knows

(* The task a receipt leaves behind (AfterOrder).                          *)
Receipted(t) ==
    IF t.leg = "flip_close" THEN [t EXCEPT !.pc = "verify_flat", !.order = NoOrder]
    ELSE [t EXCEPT !.pc = IF t.attempt < MaxRetries THEN "actual" ELSE "final",
                   !.attempt = Smaller(@ + 1, MaxRetries),
                   !.receipts = TRUE, !.leg = "single", !.order = NoOrder]

LEMMA ReceiptedInv ==
    ASSUME NEW v, NEW t \in Tasks, t.pc \in {"sent", "verify"}, NEW p \in Int,
           NEW hasTraded \in BOOLEAN, TaskInv(v, t, p, hasTraded)
    PROVE  Receipted(t) \in Tasks /\ TaskInv(v, Receipted(t), p, hasTraded)
<1>1. Acting(t)
  BY DEF TaskInv, Control
<1>2. CASE t.leg = "flip_close"
  <2>. DEFINE u == [t EXCEPT !.pc = "verify_flat", !.order = NoOrder]
  <2>1. u \in Tasks /\ u.pc = "verify_flat" /\ u.order = NoOrder /\ SameCall(t, u)
    BY NoOrderTyped DEF Tasks, Pcs, SameCall
  <2>2. t.action = "FLIP" /\ t.target # 0
    BY <1>1, <1>2 DEF Acting, Classify
  <2>. HIDE DEF u
  <2>3. TaskInv(v, u, p, hasTraded)
    BY <1>2, <2>1, <2>2, NoOrderTyped
    DEF TaskInv, InHand, Control, Remembers, Reduces, Knows, SameCall
  <2>4. QED
    BY <1>2, <2>1, <2>3 DEF Receipted, u
<1>3. CASE t.leg # "flip_close"
  <2>. DEFINE u == [t EXCEPT !.pc = IF t.attempt < MaxRetries THEN "actual" ELSE "final",
                             !.attempt = Smaller(@ + 1, MaxRetries),
                             !.receipts = TRUE, !.leg = "single", !.order = NoOrder]
  <2>1. Smaller(t.attempt + 1, MaxRetries) \in 0..MaxRetries
    BY ReconcilerAssumption DEF Tasks, Smaller
  <2>2. /\ u \in Tasks /\ u.pc \in {"actual", "final"} /\ u.order = NoOrder
        /\ u.leg = "single" /\ u.receipts = TRUE
    BY <2>1, NoOrderTyped DEF Tasks, Pcs
  <2>. HIDE DEF u
  <2>3. TaskInv(v, u, p, hasTraded)
    BY <2>2, NoOrderTyped DEF TaskInv, InHand, Control, Remembers, Reduces, Knows
  <2>4. QED
    BY <1>3, <2>2, <2>3 DEF Receipted, u
<1>4. QED
  BY <1>2, <1>3

-----------------------------------------------------------------------------
(* A step of the call for k: its task becomes t, its cooldown and its late *)
(* orders may change, the other keys are left alone.                       *)

Quiet == UNCHANGED <<pos, traded, killSwitch>>

LateMoves(v, k) ==
    /\ late' \in [Keys -> Seq(Orders)] /\ faults' \in 0..MaxFaults
    /\ LateInv(v, late'[k])
    /\ \A j \in Keys : j # k => late'[j] = late[j]

CoolMoves(k) ==
    /\ cool' \in [Keys -> Cooldowns] /\ CoolInv(cool'[k])
    /\ \A j \in Keys : j # k => cool'[j] = cool[j]

LEMMA Moves ==
    ASSUME NEW v, IInv(v), NEW k \in Keys, NEW t \in Tasks, task' = [task EXCEPT ![k] = t],
           TaskInv(v, t, pos[k], traded[k]), Quiet, LateMoves(v, k), CoolMoves(k)
    PROVE  IInv(v)'
<1>1. /\ task' \in [Keys -> Tasks] /\ task'[k] = t
      /\ \A j \in Keys : j # k => task'[j] = task[j]
  BY DEF IInv, Typed
<1>2. Typed'
  BY <1>1 DEF IInv, Typed, Quiet, LateMoves, CoolMoves
<1>3. ASSUME NEW j \in Keys PROVE KeyInv(v, j)'
  <2>1. CASE j = k
    BY <1>1, <2>1 DEF KeyInv, TaskInv, LateInv, CoolInv, Quiet, LateMoves, CoolMoves
  <2>2. CASE j # k
    BY <1>1, <2>2 DEF IInv, KeyInv, TaskInv, LateInv, CoolInv, Quiet, LateMoves, CoolMoves
  <2>3. QED
    BY <2>1, <2>2
<1>4. QED
  BY <1>2, <1>3 DEF IInv

LEMMA StepFacts ==
    ASSUME NEW v, IInv(v), NEW k \in Keys
    PROVE  /\ task[k] \in Tasks /\ TaskInv(v, task[k], pos[k], traded[k])
           /\ pos[k] \in Int /\ traded[k] \in BOOLEAN
           /\ late[k] \in Seq(Orders) /\ LateInv(v, late[k])
           /\ cool[k] \in Cooldowns /\ CoolInv(cool[k])
           /\ killSwitch \in BOOLEAN
BY ReconcilerAssumption DEF IInv, Typed, KeyInv

LEMMA LateStays ==
    ASSUME NEW v, IInv(v), NEW k \in Keys, UNCHANGED late, Fault \/ UNCHANGED faults
    PROVE  LateMoves(v, k)
<1>1. faults' \in 0..MaxFaults
  BY ReconcilerAssumption DEF IInv, Typed, Fault
<1>2. QED
  BY <1>1 DEF IInv, Typed, KeyInv, LateMoves, LateInv

LEMMA CoolStays ==
    ASSUME NEW v, IInv(v), NEW k \in Keys, cool' = cool \/ cool' = [cool EXCEPT ![k] = NoCooldown]
    PROVE  CoolMoves(k)
<1>1. NoCooldown \in Cooldowns
  BY DEF NoCooldown, Cooldowns
<1>2. QED
  BY <1>1 DEF IInv, Typed, KeyInv, CoolMoves, CoolInv

LEMMA CoolStarts ==
    ASSUME NEW v, IInv(v), NEW k \in Keys, NEW r \in {"RISK_BLOCKED", "ORDER_FAILED"},
           StartCooldown(k, r)
    PROVE  CoolMoves(k)
<1>. DEFINE c == [target |-> task[k].target, request |-> task[k].action, result |-> r]
<1>1. CASE task[k].action \in Increases
  <2>1. c \in Cooldowns /\ CoolInv(c)
    BY <1>1, StepFacts DEF Tasks, Cooldowns, CoolInv, Increases
  <2>2. cool' = [cool EXCEPT ![k] = c] \/ cool' = [cool EXCEPT ![k] = cool[k]]
    BY <1>1 DEF StartCooldown
  <2>. HIDE DEF c
  <2>3. QED
    BY <2>1, <2>2 DEF IInv, Typed, KeyInv, CoolMoves
<1>2. CASE task[k].action \notin Increases
  BY <1>2 DEF StartCooldown, IInv, Typed, KeyInv, CoolMoves
<1>3. QED
  BY <1>1, <1>2

LEMMA ReducesOrder ==
    ASSUME NEW t \in Tasks, t.action \in Reductions \/ t.leg = "flip_close"
    PROVE  OrderFor(t).reduce
BY DEF OrderFor, Reductions

(* An order in hand is the one the call was sized for.                     *)
LEMMA OrderInHand ==
    ASSUME NEW v, IInv(v), NEW k \in Keys, task[k].order.state = "sent"
    PROVE  /\ task[k].pc \in {"sent", "verify"} /\ Acting(task[k])
           /\ task[k].order \in Orders
           /\ task[k].order.delta = OrderFor(task[k]).delta
           /\ task[k].order.reduce = OrderFor(task[k]).reduce
           /\ "kill" \in v /\ killSwitch => task[k].order.reduce
           /\ Alone(v) => task[k].actual = pos[k]
<1>1. task[k] \in Tasks /\ TaskInv(v, task[k], pos[k], traded[k]) /\ task[k].order # NoOrder
  BY StepFacts, NoOrderTyped
<1>2. task[k].pc \in {"sent", "verify"}
  BY <1>1 DEF TaskInv, InHand
<1>3. /\ Acting(task[k]) /\ task[k].order.delta = OrderFor(task[k]).delta
      /\ task[k].order.reduce = OrderFor(task[k]).reduce
  BY <1>1, <1>2 DEF TaskInv, Control
<1>4. "kill" \in v /\ killSwitch => task[k].action \in Reductions \/ task[k].leg = "flip_close"
  BY <1>1, <1>2 DEF TaskInv, Reduces
<1>5. "kill" \in v /\ killSwitch => task[k].order.reduce
  BY <1>1, <1>3, <1>4, ReducesOrder
<1>6. Alone(v) => task[k].actual = pos[k]
  BY <1>1 DEF TaskInv, Knows
<1>7. task[k].order \in Orders
  BY <1>1 DEF Tasks
<1>8. QED
  BY <1>2, <1>3, <1>5, <1>6, <1>7

(* So is what is left of it.                                               *)
LEMMA LiveInHand ==
    ASSUME NEW v, IInv(v), NEW k \in Keys, Live(task[k].order)
    PROVE  task[k].order \in Orders /\ ("kill" \in v /\ killSwitch => task[k].order.reduce)
<1>1. task[k] \in Tasks /\ TaskInv(v, task[k], pos[k], traded[k]) /\ task[k].order # NoOrder
  BY StepFacts DEF Live, NoOrder
<1>2. task[k].order \in Orders /\ task[k].pc \in {"sent", "verify"}
  BY <1>1 DEF TaskInv, InHand, Tasks
<1>3. task[k].order.reduce = OrderFor(task[k]).reduce
  BY <1>1, <1>2 DEF TaskInv, Control
<1>4. "kill" \in v /\ killSwitch => OrderFor(task[k]).reduce
  BY <1>1, <1>2, ReducesOrder DEF TaskInv, Reduces
<1>5. QED
  BY <1>2, <1>3, <1>4

LEMMA StaysLiveMoves ==
    ASSUME NEW v, IInv(v), NEW k \in Keys, StaysLive(k), Fault
    PROVE  LateMoves(v, k)
<1>. DEFINE o == [task[k].order EXCEPT !.state = "sent"]
<1>1. OrdersOutliveAnswers /\ Fault /\ late' = [late EXCEPT ![k] = Append(late[k], o)]
  BY DEF StaysLive
<1>2. o \in Orders /\ ("kill" \in v /\ killSwitch => o.reduce)
  <2>1. task[k].order \in Orders /\ ("kill" \in v /\ killSwitch => task[k].order.reduce)
    BY LiveInHand DEF StaysLive
  <2>2. QED
    BY <2>1 DEF Orders
<1>. HIDE DEF o
<1>3. late[k] \in Seq(Orders) /\ LateInv(v, late[k])
  BY StepFacts
<1>4. /\ Append(late[k], o) \in Seq(Orders)
      /\ \A i \in DOMAIN Append(late[k], o) :
            \/ i \in DOMAIN late[k] /\ Append(late[k], o)[i] = late[k][i]
            \/ Append(late[k], o)[i] = o
  BY <1>2, <1>3
<1>5. LateInv(v, Append(late[k], o))
  BY <1>1, <1>2, <1>3, <1>4 DEF LateInv, Alone
<1>6. faults' \in 0..MaxFaults
  BY <1>1, ReconcilerAssumption DEF IInv, Typed, Fault
<1>7. QED
  BY <1>1, <1>4, <1>5, <1>6 DEF LateMoves, IInv, Typed

LEMMA LetGoMoves ==
    ASSUME NEW v, IInv(v), NEW k \in Keys, LetGo(k)
    PROVE  LateMoves(v, k)
BY StaysLiveMoves, LateStays DEF LetGo

-----------------------------------------------------------------------------
(* The steps of a call, one by one.                                        *)

LEMMA CallInv ==
    ASSUME NEW v, IInv(v), NEW k \in Keys, NEW target \in Targets, Call(k, target)
    PROVE  IInv(v)'
<1>. DEFINE t == [NoTask EXCEPT !.pc = "queued", !.target = target]
<1>1. target \in Int
  BY ReconcilerAssumption
<1>2. /\ t \in Tasks /\ t.order = NoOrder /\ t.leg = "single" /\ t.pc = "queued"
  BY <1>1, NoTaskTyped DEF Tasks, Pcs
<1>3. task' = [task EXCEPT ![k] = t] /\ traded' = [traded EXCEPT ![k] = FALSE]
  BY DEF Call
<1>. HIDE DEF t
<1>4. UNCHANGED <<pos, late, cool, killSwitch, faults>>
  BY DEF Call
<1>5. TaskInv(v, t, pos[k], FALSE)
  BY <1>2, RestInv, StepFacts
<1>6. /\ task' \in [Keys -> Tasks] /\ task'[k] = t
      /\ \A j \in Keys : j # k => task'[j] = task[j]
  BY <1>2, <1>3 DEF IInv, Typed
<1>7. /\ traded' \in [Keys -> BOOLEAN] /\ traded'[k] = FALSE
      /\ \A j \in Keys : j # k => traded'[j] = traded[j]
  BY <1>3 DEF IInv, Typed
<1>8. Typed'
  BY <1>4, <1>6, <1>7 DEF IInv, Typed
<1>9. ASSUME NEW j \in Keys PROVE KeyInv(v, j)'
  <2>1. CASE j = k
    BY <1>4, <1>5, <1>6, <1>7, <2>1, StepFacts DEF KeyInv, TaskInv, LateInv, CoolInv
  <2>2. CASE j # k
    BY <1>4, <1>6, <1>7, <2>2 DEF IInv, KeyInv, TaskInv, LateInv, CoolInv
  <2>3. QED
    BY <2>1, <2>2
<1>10. QED
  BY <1>8, <1>9 DEF IInv

(* The semaphore is taken; the first read changes nothing.                 *)
LEMMA BeginInv ==
    ASSUME NEW v, IInv(v), NEW k \in Keys, Acquire(k) \/ ReadInitial(k)
    PROVE  IInv(v)'
<1>1. PICK x \in {"initial", "actual"} : task' = [task EXCEPT ![k] = [task[k] EXCEPT !.pc = x]]
  BY DEF Acquire, ReadInitial, Goto
<1>2. /\ task[k].pc \in {"queued", "initial"}
      /\ UNCHANGED <<pos, late, cool, traded, killSwitch, faults>>
  BY DEF Acquire, ReadInitial, At
<1>. DEFINE u == [task[k] EXCEPT !.pc = x]
<1>3. /\ u \in Tasks /\ u.pc = x /\ SameCall(task[k], u) /\ u.order = task[k].order
  BY StepFacts, SetPc DEF Pcs
<1>. HIDE DEF u
<1>4. /\ task[k].order = NoOrder /\ task[k].leg = "single" /\ ~traded[k]
      /\ pos[k] \in Int /\ traded[k] \in BOOLEAN
  BY <1>2, StepFacts DEF TaskInv, InHand, Control, Remembers
<1>5. TaskInv(v, u, pos[k], traded[k])
  BY <1>3, <1>4, RestInv DEF SameCall
<1>6. QED
  BY <1>1, <1>2, <1>3, <1>5, Moves, LateStays, CoolStays DEF Quiet, u

LEMMA ReadActualInv ==
    ASSUME NEW v, IInv(v), NEW k \in Keys, ReadActual(k)
    PROVE  IInv(v)'
<1>. DEFINE t == task[k]
            p == pos[k]
            action == Classify(t.target, p)
<1>1. /\ t \in Tasks /\ TaskInv(v, t, p, traded[k]) /\ p \in Int /\ traded[k] \in BOOLEAN
      /\ t.pc = "actual" /\ cool[k] \in Cooldowns
  BY StepFacts DEF ReadActual, At
<1>2. /\ t.order = NoOrder /\ t.leg = "single" /\ (traded[k] => t.receipts)
      /\ t.receipts \in BOOLEAN /\ Abs(p) \in Int
  BY <1>1 DEF TaskInv, InHand, Control, Remembers, Tasks, Abs
<1>3. UNCHANGED <<pos, late, traded, killSwitch, faults>> /\ LateMoves(v, k) /\ Quiet
  BY LateStays DEF ReadActual, Quiet
<1>4. CASE /\ Finish(k, Result(cool[k].result, Abs(p), FALSE, TRUE, t.receipts))
           /\ cool[k] # NoCooldown /\ UNCHANGED cool
  <2>. DEFINE r == Result(cool[k].result, Abs(p), FALSE, TRUE, t.receipts)
  <2>1. /\ r \in Results /\ r.final = Abs(p) /\ r.success = FALSE /\ r.receipts = t.receipts
    BY <1>1, <1>2 DEF Result, Results, Cooldowns
  <2>2. task' = [task EXCEPT ![k] = Ended(t, r)]
    BY <1>4 DEF Finish, Ended
  <2>. HIDE DEF r
  <2>3. traded[k] => ShouldNotify(r)
    BY <1>2, <2>1 DEF ShouldNotify
  <2>4. Ended(t, r) \in Tasks /\ TaskInv(v, Ended(t, r), p, traded[k])
    BY <1>1, <2>1, <2>3, EndedInv
  <2>5. QED
    BY <1>3, <1>4, <2>2, <2>4, Moves, CoolStays
<1>5. CASE /\ action = "NOOP" /\ cool' = [cool EXCEPT ![k] = NoCooldown]
           /\ Finish(k, Result(IF t.receipts THEN "EXECUTED" ELSE "NOOP",
                               Abs(p), TRUE, FALSE, t.receipts))
  <2>. DEFINE r == Result(IF t.receipts THEN "EXECUTED" ELSE "NOOP",
                          Abs(p), TRUE, FALSE, t.receipts)
  <2>1. /\ r \in Results /\ r.final = Abs(p) /\ r.receipts = t.receipts
    BY <1>1, <1>2 DEF Result, Results
  <2>2. task' = [task EXCEPT ![k] = Ended(t, r)]
    BY <1>5 DEF Finish, Ended
  <2>. HIDE DEF r
  <2>3. traded[k] => ShouldNotify(r)
    BY <1>2, <2>1 DEF ShouldNotify
  <2>4. Ended(t, r) \in Tasks /\ TaskInv(v, Ended(t, r), p, traded[k])
    BY <1>1, <1>5, <2>1, <2>3, EndedInv
  <2>5. QED
    BY <1>3, <1>5, <2>2, <2>4, Moves, CoolStays
<1>6. CASE /\ action # "NOOP" /\ cool' = [cool EXCEPT ![k] = NoCooldown]
           /\ task' = [task EXCEPT ![k].pc = "risk", ![k].action = action, ![k].actual = p]
  <2>. DEFINE u == [t EXCEPT !.pc = "risk", !.action = action, !.actual = p]
  <2>1. action \in {"CLOSE", "OPEN", "FLIP", "ADD", "REDUCE"}
    BY <1>6 DEF Classify
  <2>2. /\ u \in Tasks /\ u.pc = "risk" /\ u.action = action /\ u.actual = p
        /\ u.target = t.target /\ u.leg = "single" /\ u.order = NoOrder
    BY <1>1, <1>2, <2>1 DEF Tasks, Pcs
  <2>3. task' = [task EXCEPT ![k] = u]
    BY <1>6
  <2>. HIDE DEF u
  <2>4. TaskInv(v, u, p, traded[k])
    BY <1>6, <2>2, NoOrderTyped DEF TaskInv, InHand, Control, Remembers, Reduces, Knows
  <2>5. QED
    BY <1>3, <1>6, <2>2, <2>3, <2>4, Moves, CoolStays
<1>7. QED
  BY <1>4, <1>5, <1>6 DEF ReadActual

(* The kill switch lets nothing through that increases.                    *)
LEMMA RiskKills ==
    ASSUME NEW ks \in BOOLEAN, NEW s, NEW target, NEW actual, NEW positions,
           NEW action \in Increases, NEW amount,
           RiskAllowed(ks, s, target, actual, positions, action, amount)
    PROVE  ~ks
BY DEF RiskAllowed, IncreaseAllowed

LEMMA CheckRiskInv ==
    ASSUME NEW v, IInv(v), NEW k \in Keys, CheckRisk(k)
    PROVE  IInv(v)'
<1>. DEFINE t == task[k]
            p == pos[k]
            checked == IF t.action = "FLIP" THEN "CLOSE" ELSE t.action
            amount == IF checked = "CLOSE" THEN Abs(t.actual) ELSE Missing(t)
            allowed == RiskAllowed(killSwitch, k[2], t.target, t.actual, Account(k[1]),
                                   checked, amount)
            r == Result("RISK_BLOCKED", Abs(t.actual), FALSE, FALSE, FALSE)
            leg == IF t.action = "FLIP" THEN "flip_close" ELSE "single"
            u == [t EXCEPT !.pc = "submit", !.leg = leg]
<1>1. /\ t \in Tasks /\ TaskInv(v, t, p, traded[k]) /\ p \in Int /\ traded[k] \in BOOLEAN
      /\ t.pc = "risk" /\ killSwitch \in BOOLEAN
  BY StepFacts DEF CheckRisk, At
<1>2. /\ t.order = NoOrder /\ t.leg = "single"
      /\ t.action = Classify(t.target, t.actual) /\ t.action # "NOOP"
      /\ Alone(v) => t.actual = p
  BY <1>1 DEF TaskInv, InHand, Control, Knows
<1>3. UNCHANGED <<pos, late, traded, killSwitch, faults>> /\ LateMoves(v, k) /\ Quiet
  BY LateStays DEF CheckRisk, Quiet
<1>4. \/ /\ allowed /\ UNCHANGED cool
         /\ task' = [task EXCEPT ![k].pc = "submit", ![k].leg = leg]
      \/ StartCooldown(k, "RISK_BLOCKED") /\ Finish(k, r)
  BY DEF CheckRisk
<1>5. CASE /\ allowed /\ UNCHANGED cool
           /\ task' = [task EXCEPT ![k].pc = "submit", ![k].leg = leg]
  <2>1. task' = [task EXCEPT ![k] = u]
    BY <1>5
  <2>2. /\ u \in Tasks /\ u.pc = "submit" /\ u.leg = leg /\ u.action = t.action
        /\ u.actual = t.actual /\ u.target = t.target /\ u.order = NoOrder
    BY <1>1, <1>2 DEF Tasks, Pcs
  <2>3. checked \in Increases => ~killSwitch
    BY <1>1, <1>5, RiskKills
  <2>4. t.action \in {"CLOSE", "OPEN", "FLIP", "ADD", "REDUCE"}
    BY <1>2 DEF Classify
  <2>5. "kill" \in v /\ killSwitch => t.action \in Reductions \/ leg = "flip_close"
    BY <2>3, <2>4 DEF Increases, Reductions
  <2>6. Acting(u)
    BY <1>2, <2>2 DEF Acting
  <2>. HIDE DEF u, leg
  <2>7. TaskInv(v, u, p, traded[k])
    BY <1>2, <2>2, <2>5, <2>6, NoOrderTyped
    DEF TaskInv, InHand, Control, Remembers, Reduces, Knows
  <2>8. QED
    BY <1>3, <1>5, <2>1, <2>2, <2>7, Moves, CoolStays
<1>6. CASE StartCooldown(k, "RISK_BLOCKED") /\ Finish(k, r)
  <2>1. /\ r \in Results /\ r.final = Abs(t.actual) /\ r.success = FALSE
        /\ r.action = "RISK_BLOCKED" /\ r.suppressed = FALSE
    BY <1>1 DEF Result, Results, Tasks, Abs
  <2>2. task' = [task EXCEPT ![k] = Ended(t, r)]
    BY <1>6 DEF Finish, Ended
  <2>. HIDE DEF r
  <2>3. ShouldNotify(r)
    BY <2>1 DEF ShouldNotify
  <2>4. Ended(t, r) \in Tasks /\ TaskInv(v, Ended(t, r), p, traded[k])
    BY <1>1, <1>2, <2>1, <2>3, EndedInv
  <2>5. QED
    BY <1>3, <1>6, <2>2, <2>4, Moves, CoolStarts
<1>7. QED
  BY <1>4, <1>5, <1>6

LEMMA SubmitInv ==
    ASSUME NEW v, IInv(v), NEW k \in Keys, Submit(k)
    PROVE  IInv(v)'
<1>. DEFINE t == task[k]
            p == pos[k]
<1>1. /\ t \in Tasks /\ TaskInv(v, t, p, traded[k]) /\ p \in Int /\ traded[k] \in BOOLEAN
      /\ t.pc = "submit"
  BY StepFacts DEF Submit, At
<1>2. /\ t.order = NoOrder /\ Acting(t) /\ (Alone(v) => t.actual = p)
      /\ "kill" \in v /\ killSwitch => Reduces(t)
  BY <1>1 DEF TaskInv, InHand, Control, Knows
<1>3. UNCHANGED <<pos, late, cool, traded, killSwitch, faults>> /\ LateMoves(v, k) /\ CoolMoves(k)
      /\ Quiet
  BY LateStays, CoolStays DEF Submit, Quiet
<1>4. CASE Goto(k, "failed")
  <2>. DEFINE u == [t EXCEPT !.pc = "failed"]
  <2>1. task' = [task EXCEPT ![k] = u] /\ u \in Tasks /\ u.pc = "failed" /\ u.order = NoOrder
    BY <1>1, <1>2, <1>4, SetPc DEF Goto, Pcs
  <2>. HIDE DEF u
  <2>2. TaskInv(v, u, p, traded[k])
    BY <2>1, NoOrderTyped DEF TaskInv, InHand, Control, Remembers, Reduces, Knows
  <2>3. QED
    BY <1>3, <2>1, <2>2, Moves
<1>5. CASE task' = [task EXCEPT ![k].pc = "sent", ![k].order = OrderFor(t)]
  <2>. DEFINE u == [t EXCEPT !.pc = "sent", !.order = OrderFor(t)]
  <2>1. task' = [task EXCEPT ![k] = u]
    BY <1>5
  <2>2. OrderFor(t) \in Orders /\ OrderFor(t) # NoOrder
    BY <1>1, OrderTyped
  <2>3. /\ u \in Tasks /\ u.pc = "sent" /\ u.order = OrderFor(t) /\ SameCall(t, u)
    BY <1>1, <2>2 DEF Tasks, Pcs, SameCall
  <2>. HIDE DEF u
  <2>4. OrderFor(u) = OrderFor(t) /\ Acting(u)
    BY <1>1, <1>2, <2>3, SameOrder
  <2>5. TaskInv(v, u, p, traded[k])
    BY <1>1, <1>2, <2>2, <2>3, <2>4
    DEF TaskInv, InHand, Control, Remembers, Reduces, Knows, SameCall
  <2>6. QED
    BY <1>3, <2>1, <2>3, <2>5, Moves
<1>6. QED
  BY <1>4, <1>5 DEF Submit

(* Whatever raised, the failed action's position is read next.             *)
LEMMA ExecutionFailedMoves ==
    ASSUME NEW v, IInv(v), NEW k \in Keys, ExecutionFailed(k), LateMoves(v, k), CoolMoves(k), Quiet
    PROVE  IInv(v)'
<1>. DEFINE u == [task[k] EXCEPT !.pc = "failed", !.order = NoOrder]
<1>1. task' = [task EXCEPT ![k] = u]
  BY DEF ExecutionFailed
<1>2. u \in Tasks /\ TaskInv(v, u, pos[k], traded[k])
  BY StepFacts, FailedInv
<1>3. QED
  BY <1>1, <1>2, Moves

LEMMA AfterOrderMoves ==
    ASSUME NEW v, IInv(v), NEW k \in Keys, task[k].pc \in {"sent", "verify"}, AfterOrder(k),
           LateMoves(v, k), Quiet
    PROVE  IInv(v)'
<1>1. task' = [task EXCEPT ![k] = Receipted(task[k])]
  BY DEF AfterOrder, Receipted
<1>2. CoolMoves(k)
  BY CoolStays DEF AfterOrder
<1>3. Receipted(task[k]) \in Tasks /\ TaskInv(v, Receipted(task[k]), pos[k], traded[k])
  BY StepFacts, ReceiptedInv
<1>4. QED
  BY <1>1, <1>2, <1>3, Moves

LEMMA AnswerInv ==
    ASSUME NEW v, IInv(v), NEW k \in Keys, Answered(k) \/ Raised(k)
    PROVE  IInv(v)'
<1>1. CASE Answered(k)
  BY <1>1, LetGoMoves, AfterOrderMoves DEF Answered, At, Quiet
<1>2. CASE Raised(k)
  <2>1. LateMoves(v, k)
    BY <1>2, StaysLiveMoves, LateStays DEF Raised
  <2>2. QED
    BY <1>2, <2>1, CoolStays, ExecutionFailedMoves DEF Raised, Quiet
<1>3. QED
  BY <1>1, <1>2

LEMMA LostInv ==
    ASSUME NEW v, IInv(v), NEW k \in Keys, Lost(k)
    PROVE  IInv(v)'
<1>. DEFINE t == task[k]
            u == [t EXCEPT !.pc = "verify"]
<1>1. /\ t \in Tasks /\ TaskInv(v, t, pos[k], traded[k]) /\ t.pc = "sent"
      /\ task' = [task EXCEPT ![k] = u] /\ LateMoves(v, k) /\ CoolMoves(k) /\ Quiet
  BY StepFacts, LateStays, CoolStays DEF Lost, At, Goto, Quiet
<1>2. u \in Tasks /\ u.pc = "verify" /\ SameCall(t, u) /\ u.order = t.order
  BY <1>1, SetPc DEF Pcs
<1>. HIDE DEF u
<1>3. OrderFor(u) = OrderFor(t) /\ (Acting(u) <=> Acting(t))
  BY <1>1, <1>2, SameOrder
<1>4. TaskInv(v, u, pos[k], traded[k])
  BY <1>1, <1>2, <1>3 DEF TaskInv, InHand, Control, Remembers, Reduces, Knows, SameCall
<1>5. QED
  BY <1>1, <1>2, <1>4, Moves

LEMMA VerifyInv ==
    ASSUME NEW v, IInv(v), NEW k \in Keys, Verify(k)
    PROVE  IInv(v)'
<1>1. task[k].pc = "verify" /\ Quiet
  BY DEF Verify, At, Quiet
<1>2. LateMoves(v, k)
  BY LetGoMoves, LateStays DEF Verify
<1>3. CASE AfterOrder(k)
  BY <1>1, <1>2, <1>3, AfterOrderMoves
<1>4. CASE ExecutionFailed(k) /\ UNCHANGED cool
  BY <1>1, <1>2, <1>4, CoolStays, ExecutionFailedMoves
<1>5. QED
  BY <1>3, <1>4 DEF Verify

(* The old direction must be gone before a flip goes on.                   *)
LEMMA VerifyFlatInv ==
    ASSUME NEW v, IInv(v), NEW k \in Keys, VerifyFlat(k)
    PROVE  IInv(v)'
<1>. DEFINE t == task[k]
            p == pos[k]
            r == Result("ORDER_FAILED", Abs(p), FALSE, FALSE, TRUE)
            u == [t EXCEPT !.pc = "flip_risk"]
<1>1. /\ t \in Tasks /\ TaskInv(v, t, p, traded[k]) /\ p \in Int /\ traded[k] \in BOOLEAN
      /\ t.pc = "verify_flat" /\ t.order = NoOrder
  BY StepFacts DEF VerifyFlat, At, TaskInv, InHand
<1>2. LateMoves(v, k) /\ CoolMoves(k) /\ Quiet
  BY LateStays, CoolStays DEF VerifyFlat, Quiet
<1>3. CASE p = 0 /\ Goto(k, "flip_risk")
  <2>1. task' = [task EXCEPT ![k] = u]
    BY <1>3 DEF Goto
  <2>2. /\ u \in Tasks /\ u.pc = "flip_risk" /\ SameCall(t, u) /\ u.order = NoOrder
    BY <1>1, SetPc DEF Pcs
  <2>. HIDE DEF u
  <2>3. TaskInv(v, u, p, traded[k])
    BY <1>1, <1>3, <2>2, NoOrderTyped
    DEF TaskInv, InHand, Control, Remembers, Reduces, Knows, SameCall
  <2>4. QED
    BY <1>2, <2>1, <2>2, <2>3, Moves
<1>4. CASE Finish(k, r)
  <2>1. r \in Results /\ r.final = Abs(p) /\ r.success = FALSE /\ r.receipts = TRUE
    BY <1>1 DEF Result, Results, Abs
  <2>2. task' = [task EXCEPT ![k] = Ended(t, r)]
    BY <1>4 DEF Finish, Ended
  <2>. HIDE DEF r
  <2>3. Ended(t, r) \in Tasks /\ TaskInv(v, Ended(t, r), p, traded[k])
    BY <1>1, <2>1, EndedInv DEF ShouldNotify
  <2>4. QED
    BY <1>2, <2>2, <2>3, Moves
<1>5. QED
  BY <1>3, <1>4 DEF VerifyFlat

LEMMA FlipRiskInv ==
    ASSUME NEW v, IInv(v), NEW k \in Keys, FlipRisk(k)
    PROVE  IInv(v)'
<1>. DEFINE t == task[k]
            p == pos[k]
            r == Result("RISK_BLOCKED", 0, FALSE, FALSE, TRUE)
            u == [t EXCEPT !.pc = "submit", !.leg = "flip_open", !.actual = 0]
            allowed == RiskAllowed(killSwitch, k[2], t.target, 0, Account(k[1]), "OPEN",
                                   Abs(t.target))
<1>1. /\ t \in Tasks /\ TaskInv(v, t, p, traded[k]) /\ p \in Int /\ traded[k] \in BOOLEAN
      /\ t.pc = "flip_risk" /\ killSwitch \in BOOLEAN
  BY StepFacts DEF FlipRisk, At
<1>2. /\ t.order = NoOrder /\ t.action = "FLIP" /\ t.target # 0 /\ (Alone(v) => p = 0)
  BY <1>1 DEF TaskInv, InHand, Control, Knows
<1>3. LateMoves(v, k) /\ CoolMoves(k) /\ Quiet
  BY LateStays, CoolStays DEF FlipRisk, Quiet
<1>4. CASE /\ allowed
           /\ task' = [task EXCEPT ![k].pc = "submit", ![k].leg = "flip_open", ![k].actual = 0]
  <2>1. task' = [task EXCEPT ![k] = u]
    BY <1>4
  <2>2. /\ u \in Tasks /\ u.pc = "submit" /\ u.leg = "flip_open" /\ u.actual = 0
        /\ u.action = t.action /\ u.target = t.target /\ u.order = t.order
    <3>1. "submit" \in Pcs /\ 0 \in Int
      BY DEF Pcs
    <3>2. QED
      BY <1>1, <3>1 DEF Tasks
  <2>3. ~killSwitch
    BY <1>1, <1>4, RiskKills DEF Increases
  <2>. HIDE DEF u
  <2>4. Acting(u)
    BY <1>2, <2>2 DEF Acting
  <2>5. TaskInv(v, u, p, traded[k])
    BY <1>2, <2>2, <2>3, <2>4, NoOrderTyped
    DEF TaskInv, InHand, Control, Remembers, Reduces, Knows
  <2>6. QED
    BY <1>3, <2>1, <2>2, <2>5, Moves
<1>5. CASE Finish(k, r)
  <2>1. r \in Results /\ r.final = 0 /\ r.success = FALSE /\ r.receipts = TRUE
    BY DEF Result, Results
  <2>2. task' = [task EXCEPT ![k] = Ended(t, r)]
    BY <1>5 DEF Finish, Ended
  <2>. HIDE DEF r
  <2>3. Alone(v) => r.final = Abs(p)
    BY <1>2, <2>1 DEF Abs
  <2>4. Ended(t, r) \in Tasks /\ TaskInv(v, Ended(t, r), p, traded[k])
    BY <1>1, <2>1, <2>3, EndedInv DEF ShouldNotify
  <2>5. QED
    BY <1>3, <2>2, <2>4, Moves
<1>6. QED
  BY <1>4, <1>5 DEF FlipRisk

LEMMA LastReadInv ==
    ASSUME NEW v, IInv(v), NEW k \in Keys, FinalRead(k) \/ FailedRead(k)
    PROVE  IInv(v)'
<1>. DEFINE t == task[k]
            p == pos[k]
<1>1. /\ t \in Tasks /\ p \in Int /\ Abs(p) \in Int /\ traded[k] \in BOOLEAN
      /\ t.receipts \in BOOLEAN
  BY StepFacts DEF Tasks, Abs
<1>2. LateMoves(v, k) /\ Quiet
  BY LateStays DEF FinalRead, FailedRead, Quiet
<1>3. CASE FinalRead(k)
  <2>. DEFINE r == Result("EXECUTED", Abs(p), Classify(t.target, p) = "NOOP", FALSE, TRUE)
  <2>1. /\ r \in Results /\ r.final = Abs(p) /\ r.receipts = TRUE
        /\ r.success <=> Classify(t.target, p) = "NOOP"
    BY <1>1 DEF Result, Results
  <2>2. task' = [task EXCEPT ![k] = Ended(t, r)]
    BY <1>3 DEF FinalRead, Finish, Ended
  <2>. HIDE DEF r
  <2>3. Ended(t, r) \in Tasks /\ TaskInv(v, Ended(t, r), p, traded[k])
    BY <1>1, <2>1, EndedInv DEF ShouldNotify
  <2>4. QED
    BY <1>1, <1>2, <1>3, <2>2, <2>3, CoolStays, Moves DEF FinalRead
<1>4. CASE FailedRead(k)
  <2>. DEFINE r == Result("ORDER_FAILED", Abs(p), FALSE, FALSE, t.receipts)
  <2>1. /\ r \in Results /\ r.final = Abs(p) /\ r.success = FALSE
        /\ r.action = "ORDER_FAILED" /\ r.suppressed = FALSE
    BY <1>1 DEF Result, Results
  <2>2. task' = [task EXCEPT ![k] = Ended(t, r)]
    BY <1>4 DEF FailedRead, Finish, Ended
  <2>. HIDE DEF r
  <2>3. Ended(t, r) \in Tasks /\ TaskInv(v, Ended(t, r), p, traded[k])
    BY <1>1, <2>1, EndedInv DEF ShouldNotify
  <2>4. QED
    BY <1>1, <1>2, <1>4, <2>2, <2>3, CoolStarts, Moves DEF FailedRead
<1>5. QED
  BY <1>3, <1>4

LEMMA ApiFailsInv ==
    ASSUME NEW v, IInv(v), NEW k \in Keys, ApiFails(k)
    PROVE  IInv(v)'
<1>. DEFINE t == task[k]
            p == pos[k]
            r == Result("ORDER_FAILED", Unconfirmed, FALSE, FALSE, FALSE)
<1>1. CoolMoves(k) /\ Quiet
  BY CoolStays DEF ApiFails, Quiet
<1>2. LateMoves(v, k)
  BY StaysLiveMoves, LateStays DEF ApiFails
<1>3. CASE ExecutionFailed(k)
  BY <1>1, <1>2, <1>3, ExecutionFailedMoves
<1>4. CASE Finish(k, r)
  <2>1. /\ r \in Results /\ r.final = Unconfirmed /\ r.success = FALSE
        /\ r.action = "ORDER_FAILED" /\ r.suppressed = FALSE
    BY DEF Result, Results, Unconfirmed
  <2>2. task' = [task EXCEPT ![k] = Ended(t, r)]
    BY <1>4 DEF Finish, Ended
  <2>. HIDE DEF r
  <2>3. Ended(t, r) \in Tasks /\ TaskInv(v, Ended(t, r), p, traded[k])
    BY <2>1, StepFacts, EndedInv DEF ShouldNotify
  <2>4. QED
    BY <1>1, <1>2, <2>2, <2>3, Moves
<1>5. QED
  BY <1>3, <1>4 DEF ApiFails

LEMMA ReturnInv ==
    ASSUME NEW v, IInv(v), NEW k \in Keys, Return(k)
    PROVE  IInv(v)'
<1>1. NoTask \in Tasks /\ TaskInv(v, NoTask, pos[k], traded[k])
  BY NoTaskTyped, StepFacts, RestInv
<1>2. task' = [task EXCEPT ![k] = NoTask] /\ Quiet
  BY DEF Return, Quiet
<1>3. QED
  BY <1>1, <1>2, LateStays, CoolStays, Moves DEF Return

LEMMA ExpireInv ==
    ASSUME NEW v, IInv(v), NEW k \in Keys, Expire(k)
    PROVE  IInv(v)'
<1>1. task' = [task EXCEPT ![k] = task[k]] /\ Quiet
  BY DEF Expire, Quiet, IInv, Typed
<1>2. QED
  BY <1>1, StepFacts, LateStays, CoolStays, Moves DEF Expire

-----------------------------------------------------------------------------
(* The exchange and the user.                                              *)

(* Remove takes a sequence apart and puts it together again; the prover    *)
(* reads SubSeq and \o better under names of their own.                     *)
Part(seq, first, last) == SubSeq(seq, first, last)

Joined(s1, s2) == s1 \o s2

LEMMA PartOf ==
    ASSUME NEW S, NEW seq \in Seq(S), NEW first \in Nat \ {0}, NEW last \in Nat,
           last <= Len(seq)
    PROVE  Part(seq, first, last) \in Seq(S)
<1>1. Len(seq) \in Nat /\ \A n \in 1..Len(seq) : seq[n] \in S
  OBVIOUS
<1>2. \A n \in first..last : seq[n] \in S
  BY <1>1
<1>3. QED
  BY <1>2, SubSeqProperties DEF Part

LEMMA JoinOf ==
    ASSUME NEW S, NEW s1 \in Seq(S), NEW s2 \in Seq(S)
    PROVE  Joined(s1, s2) \in Seq(S)
BY DEF Joined

(* What is left of a sequence are elements of the sequence.                *)
LEMMA RemoveTyped ==
    ASSUME NEW S, NEW seq \in Seq(S), NEW i \in DOMAIN seq
    PROVE  Remove(seq, i) \in Seq(S)
<1>1. Len(seq) \in Nat /\ i \in 1..Len(seq)
  OBVIOUS
<1>2. Part(seq, 1, i - 1) \in Seq(S)
  <2>1. i - 1 \in Nat /\ i - 1 <= Len(seq) /\ 1 \in Nat \ {0}
    BY <1>1
  <2>2. QED
    BY <2>1, PartOf
<1>3. Part(seq, i + 1, Len(seq)) \in Seq(S)
  <2>1. Len(seq) <= Len(seq) /\ i + 1 \in Nat \ {0}
    BY <1>1
  <2>2. QED
    BY <1>1, <2>1, PartOf
<1>4. Remove(seq, i) = Joined(Part(seq, 1, i - 1), Part(seq, i + 1, Len(seq)))
  BY DEF Remove, Joined, Part
<1>5. QED
  BY <1>2, <1>3, <1>4, JoinOf

LEMMA RemoveKeeps ==
    ASSUME NEW S, NEW seq \in Seq(S), NEW i \in DOMAIN seq
    PROVE  \A m \in DOMAIN Remove(seq, i) : \E n \in DOMAIN seq : Remove(seq, i)[m] = seq[n]
<1>. DEFINE Had == {seq[n] : n \in DOMAIN seq}
<1>1. seq \in Seq(Had)
  OBVIOUS
<1>. HIDE DEF Had
<1>2. Remove(seq, i) \in Seq(Had)
  BY <1>1, RemoveTyped
<1>3. \A m \in DOMAIN Remove(seq, i) : Remove(seq, i)[m] \in Had
  BY <1>2
<1>4. QED
  BY <1>3 DEF Had

(* An order is decided while the call waits; what it is for stays.         *)
LEMMA DecidedInv ==
    ASSUME NEW v, NEW t \in Tasks, t.pc \in {"sent", "verify"}, NEW p \in Int, NEW p2 \in Int,
           NEW hasTraded \in BOOLEAN, TaskInv(v, t, p, hasTraded),
           NEW o \in Orders, o.state \in {"partly", "filled", "dead"}, o.reduce = t.order.reduce,
           NEW u, u = [t EXCEPT !.order = o]
    PROVE  u \in Tasks /\ \A h \in BOOLEAN : TaskInv(v, u, p2, h)
<1>1. u \in Tasks /\ u.pc = t.pc /\ SameCall(t, u) /\ u.order = o
  BY DEF Tasks, SameCall
<1>2. o # NoOrder
  BY DEF NoOrder
<1>3. OrderFor(u) = OrderFor(t) /\ (Acting(u) <=> Acting(t))
  BY <1>1, SameOrder
<1>4. ASSUME NEW h \in BOOLEAN PROVE TaskInv(v, u, p2, h)
  BY <1>1, <1>2, <1>3 DEF TaskInv, InHand, Control, Remembers, Reduces, Knows, SameCall
<1>5. QED
  BY <1>1, <1>4

LEMMA ExecuteInv ==
    ASSUME NEW v, IInv(v), NEW k \in Keys, Execute(k)
    PROVE  IInv(v)'
<1>1. /\ task[k].pc \in {"sent", "verify"} /\ task[k].order \in Orders
      /\ task[k] \in Tasks /\ TaskInv(v, task[k], pos[k], traded[k])
      /\ pos[k] \in Int /\ traded[k] \in BOOLEAN
  BY OrderInHand, StepFacts DEF Execute
<1>2. PICK p \in Outcomes(task[k].order, pos[k]) :
          LET left == Left(task[k].order, pos[k], p)
          IN  /\ pos' = [pos EXCEPT ![k] = p]
              /\ task' = [task EXCEPT ![k].order = [@ EXCEPT !.delta = left,
                            !.state = IF left = 0 THEN "filled" ELSE "partly"]]
  BY DEF Execute
<1>3. p \in Int
  BY <1>1, <1>2, OutcomeTyped
<1>. DEFINE left == Left(task[k].order, pos[k], p)
            o == [task[k].order EXCEPT !.delta = left,
                                       !.state = IF left = 0 THEN "filled" ELSE "partly"]
            u == [task[k] EXCEPT !.order = o]
<1>4. /\ task' = [task EXCEPT ![k] = u] /\ o \in Orders
      /\ o.state \in {"partly", "filled", "dead"} /\ o.reduce = task[k].order.reduce
  <2>1. left \in Int
    BY <1>1, <1>3 DEF Left, Orders
  <2>2. task' = [task EXCEPT ![k] = u]
    BY <1>2
  <2>. HIDE DEF left
  <2>3. QED
    BY <1>1, <2>1, <2>2 DEF Orders
<1>. HIDE DEF o
<1>5. u \in Tasks /\ \A h \in BOOLEAN : TaskInv(v, u, p, h)
  BY <1>1, <1>3, <1>4, DecidedInv
<1>6. traded' = [traded EXCEPT ![k] = TRUE] /\ UNCHANGED <<late, cool, killSwitch, faults>>
  BY DEF Execute
<1>. HIDE DEF u
<1>7. /\ task' \in [Keys -> Tasks] /\ task'[k] = u
      /\ \A j \in Keys : j # k => task'[j] = task[j]
  BY <1>4, <1>5 DEF IInv, Typed, u
<1>8. /\ pos' \in [Keys -> Int] /\ pos'[k] = p
      /\ \A j \in Keys : j # k => pos'[j] = pos[j]
  BY <1>2, <1>3 DEF IInv, Typed
<1>9. /\ traded' \in [Keys -> BOOLEAN] /\ traded'[k] = TRUE
      /\ \A j \in Keys : j # k => traded'[j] = traded[j]
  BY <1>6 DEF IInv, Typed
<1>10. Typed'
  BY <1>6, <1>7, <1>8, <1>9 DEF IInv, Typed
<1>11. ASSUME NEW j \in Keys PROVE KeyInv(v, j)'
  <2>1. CASE j = k
    BY <1>5, <1>6, <1>7, <1>8, <1>9, <2>1, StepFacts DEF KeyInv, TaskInv, LateInv, CoolInv
  <2>2. CASE j # k
    BY <1>6, <1>7, <1>8, <1>9, <2>2 DEF IInv, KeyInv, TaskInv, LateInv, CoolInv
  <2>3. QED
    BY <2>1, <2>2
<1>12. QED
  BY <1>10, <1>11 DEF IInv

LEMMA RejectInv ==
    ASSUME NEW v, IInv(v), NEW k \in Keys, Reject(k)
    PROVE  IInv(v)'
<1>. DEFINE o == [task[k].order EXCEPT !.state = "dead"]
            u == [task[k] EXCEPT !.order = o]
<1>1. task' = [task EXCEPT ![k] = u]
  BY DEF Reject
<1>2. /\ task[k].pc \in {"sent", "verify"} /\ task[k] \in Tasks /\ task[k].order \in Orders
      /\ TaskInv(v, task[k], pos[k], traded[k]) /\ pos[k] \in Int /\ traded[k] \in BOOLEAN
  BY OrderInHand, StepFacts DEF Reject
<1>3. u \in Tasks /\ TaskInv(v, u, pos[k], traded[k])
  <2>1. o \in Orders /\ o.state = "dead" /\ o.reduce = task[k].order.reduce
    BY <1>2 DEF Orders
  <2>. HIDE DEF o
  <2>2. QED
    BY <1>2, <2>1, DecidedInv
<1>. HIDE DEF u
<1>4. LateMoves(v, k) /\ CoolMoves(k) /\ Quiet
  BY LateStays, CoolStays DEF Reject, Quiet
<1>5. QED
  BY <1>1, <1>3, <1>4, Moves

(* Steps of others change the position under the call; they exclude Alone. *)
LEMMA DisturbedInv ==
    ASSUME NEW v, IInv(v), NEW k \in Keys, NEW p \in Int, pos' = [pos EXCEPT ![k] = p], ~Alone(v),
           UNCHANGED <<task, cool, traded, killSwitch>>, faults' \in 0..MaxFaults,
           late' \in [Keys -> Seq(Orders)], LateInv(v, late'[k]),
           \A j \in Keys : j # k => late'[j] = late[j]
    PROVE  IInv(v)'
<1>1. pos' \in [Keys -> Int]
  BY DEF IInv, Typed
<1>2. Typed'
  BY <1>1 DEF IInv, Typed
<1>3. ASSUME NEW j \in Keys PROVE KeyInv(v, j)'
  BY DEF IInv, KeyInv, TaskInv, LateInv, CoolInv
<1>4. QED
  BY <1>2, <1>3 DEF IInv

LEMMA ResolveLateInv ==
    ASSUME NEW v, IInv(v), NEW k \in Keys, ResolveLate(k)
    PROVE  IInv(v)'
<1>1. PICK i \in DOMAIN late[k] :
        \E p \in Outcomes(late[k][i], pos[k]) \cup {pos[k]} :
          LET left == Left(late[k][i], pos[k], p)
          IN  /\ pos' = [pos EXCEPT ![k] = p]
              /\ \/ late' = [late EXCEPT ![k] = Remove(@, i)]
                 \/ p # pos[k] /\ left # 0 /\ late' = [late EXCEPT ![k][i].delta = left]
  BY DEF ResolveLate
<1>2. /\ late[k] \in Seq(Orders) /\ LateInv(v, late[k]) /\ pos[k] \in Int
      /\ UNCHANGED <<task, cool, traded, killSwitch, faults>>
  BY StepFacts DEF ResolveLate
<1>3. late[k][i] \in Orders /\ late[k] # <<>>
  BY <1>1, <1>2
<1>. DEFINE o == late[k][i]
<1>4. PICK p \in Outcomes(o, pos[k]) \cup {pos[k]} :
          /\ pos' = [pos EXCEPT ![k] = p]
          /\ \/ late' = [late EXCEPT ![k] = Remove(@, i)]
             \/ late' = [late EXCEPT ![k][i].delta = Left(o, pos[k], p)]
  BY <1>1
<1>5. p \in Int
  BY <1>2, <1>3, <1>4, OutcomeTyped
<1>6. ~Alone(v)
  BY <1>2, <1>3 DEF LateInv
<1>7. /\ Remove(late[k], i) \in Seq(Orders)
      /\ \A m \in DOMAIN Remove(late[k], i) :
            \E n \in DOMAIN late[k] : Remove(late[k], i)[m] = late[k][n]
  BY <1>1, <1>2, RemoveTyped, RemoveKeeps
<1>. DEFINE rest == [o EXCEPT !.delta = Left(o, pos[k], p)]
            smaller == [late[k] EXCEPT ![i] = rest]
<1>8. smaller \in Seq(Orders) /\ \A m \in DOMAIN smaller : smaller[m].reduce = late[k][m].reduce
  <2>1. rest \in Orders /\ rest.reduce = o.reduce
    BY <1>2, <1>3, <1>5 DEF Left, Orders
  <2>. HIDE DEF rest
  <2>2. QED
    BY <1>1, <1>2, <2>1
<1>9. late' = [late EXCEPT ![k] = Remove(late[k], i)] \/ late' = [late EXCEPT ![k] = smaller]
  BY <1>4
<1>10. DOMAIN smaller = DOMAIN late[k]
  OBVIOUS
<1>. HIDE DEF rest, smaller, o
<1>11. PICK new \in {Remove(late[k], i), smaller} : late' = [late EXCEPT ![k] = new]
  BY <1>9
<1>12. new \in Seq(Orders) /\ LateInv(v, new)
  BY <1>2, <1>6, <1>7, <1>8, <1>10 DEF LateInv
<1>13. /\ late' \in [Keys -> Seq(Orders)] /\ late'[k] = new
       /\ \A j \in Keys : j # k => late'[j] = late[j]
  BY <1>11, <1>12 DEF IInv, Typed
<1>14. faults' \in 0..MaxFaults
  BY <1>2 DEF IInv, Typed
<1>15. QED
  BY <1>2, <1>4, <1>5, <1>6, <1>12, <1>13, <1>14, DisturbedInv

LEMMA UserTradeInv ==
    ASSUME NEW v, "alone" \notin v, IInv(v), NEW k \in Keys, UserTrade(k)
    PROVE  IInv(v)'
<1>1. PICK p \in Positions : pos' = [pos EXCEPT ![k] = p]
  BY DEF UserTrade
<1>2. p \in Int /\ ~Alone(v)
  BY ReconcilerAssumption DEF UserTrade, Alone
<1>3. UNCHANGED <<late, task, cool, traded, killSwitch>> /\ faults' \in 0..MaxFaults
  BY ReconcilerAssumption DEF UserTrade, Fault, IInv, Typed
<1>4. late' \in [Keys -> Seq(Orders)] /\ LateInv(v, late'[k])
  BY <1>3, StepFacts DEF IInv, Typed
<1>5. QED
  BY <1>1, <1>2, <1>3, <1>4, DisturbedInv

-----------------------------------------------------------------------------
(* The invariant, and what follows from it.                                *)

(* Nothing but a user breaks a condition in Spec.                          *)
Conditions == {"kill"} \cup (IF UserTrades THEN {} ELSE {"alone"})

LEMMA AloneHolds ==
    ASSUME ~OrdersOutliveAnswers, ~UserTrades
    PROVE  Alone(Conditions)
BY DEF Alone, Conditions

LEMMA InitInv == Init => IInv(Conditions)
<1>. SUFFICES ASSUME Init PROVE IInv(Conditions)
  OBVIOUS
<1>1. /\ NoTask \in Tasks /\ NoCooldown \in Cooldowns /\ <<>> \in Seq(Orders)
      /\ MaxFaults \in 0..MaxFaults /\ Positions \subseteq Int
  BY NoTaskTyped, ReconcilerAssumption DEF NoCooldown, Cooldowns
<1>2. Typed
  BY <1>1 DEF Init, Typed
<1>3. ASSUME NEW k \in Keys PROVE KeyInv(Conditions, k)
  <2>1. /\ task[k] = NoTask /\ pos[k] \in Int /\ traded[k] = FALSE
        /\ late[k] = <<>> /\ cool[k] = NoCooldown
    BY <1>2, <1>3 DEF Init, Typed
  <2>2. TaskInv(Conditions, task[k], pos[k], traded[k])
    BY <2>1, NoTaskTyped, RestInv
  <2>3. LateInv(Conditions, late[k]) /\ CoolInv(cool[k])
    BY <2>1 DEF LateInv, CoolInv
  <2>4. QED
    BY <2>2, <2>3 DEF KeyInv
<1>4. QED
  BY <1>2, <1>3 DEF IInv

LEMMA TaskStepInv ==
    ASSUME NEW v, IInv(v), NEW k \in Keys, TaskStep(k)
    PROVE  IInv(v)'
<1>1. CASE ReadInitial(k)
  BY <1>1, BeginInv
<1>2. CASE ReadActual(k)
  BY <1>2, ReadActualInv
<1>3. CASE CheckRisk(k)
  BY <1>3, CheckRiskInv
<1>4. CASE Submit(k)
  BY <1>4, SubmitInv
<1>5. CASE Answered(k) \/ Raised(k)
  BY <1>5, AnswerInv
<1>6. CASE Lost(k)
  BY <1>6, LostInv
<1>7. CASE Verify(k)
  BY <1>7, VerifyInv
<1>8. CASE VerifyFlat(k)
  BY <1>8, VerifyFlatInv
<1>9. CASE FlipRisk(k)
  BY <1>9, FlipRiskInv
<1>10. CASE FinalRead(k) \/ FailedRead(k)
  BY <1>10, LastReadInv
<1>11. CASE ApiFails(k)
  BY <1>11, ApiFailsInv
<1>12. QED
  BY <1>1, <1>2, <1>3, <1>4, <1>5, <1>6, <1>7, <1>8, <1>9, <1>10, <1>11 DEF TaskStep

LEMMA NextInv == IInv(Conditions) /\ [Next]_vars => IInv(Conditions)'
<1>. SUFFICES ASSUME IInv(Conditions), [Next]_vars PROVE IInv(Conditions)'
  OBVIOUS
<1>1. CASE UNCHANGED vars
  BY <1>1 DEF vars, IInv, Typed, KeyInv, TaskInv, LateInv, CoolInv, Remembers, Knows,
              Reduces, Control, InHand, Acting
<1>2. CASE Next
  <2>1. PICK k \in Keys :
            \/ \E target \in Targets : Call(k, target)
            \/ Acquire(k) \/ TaskStep(k) \/ ExchangeStep(k)
            \/ Return(k) \/ Expire(k) \/ UserTrade(k)
    BY <1>2 DEF Next
  <2>2. CASE \E target \in Targets : Call(k, target)
    BY <2>2, CallInv
  <2>3. CASE Acquire(k)
    BY <2>3, BeginInv
  <2>4. CASE TaskStep(k)
    BY <2>4, TaskStepInv
  <2>5. CASE ExchangeStep(k)
    BY <2>5, ExecuteInv, RejectInv, ResolveLateInv DEF ExchangeStep
  <2>6. CASE Return(k)
    BY <2>6, ReturnInv
  <2>7. CASE Expire(k)
    BY <2>7, ExpireInv
  <2>8. CASE UserTrade(k)
    <3>1. "alone" \notin Conditions
      BY <2>8 DEF UserTrade, Conditions
    <3>2. QED
      BY <2>8, <3>1, UserTradeInv
  <2>9. QED
    BY <2>1, <2>2, <2>3, <2>4, <2>5, <2>6, <2>7, <2>8
<1>3. QED
  BY <1>1, <1>2

(* Whatever fails and however the calls of several keys interleave.        *)
THEOREM Invariance == Spec => []IInv(Conditions)
BY InitInv, NextInv, PTL DEF Spec

LEMMA TypesFollow == ASSUME NEW v, IInv(v) PROVE TypeOK
<1>1. ASSUME NEW k \in Keys
      PROVE  /\ \A i \in DOMAIN late[k] : late[k][i] \in Orders
             /\ task[k].pc \in Pcs
             /\ task[k].attempt \in 0..MaxRetries
             /\ task[k].order \in Orders
             /\ task[k].order # NoOrder <=> task[k].pc \in {"sent", "verify"}
             /\ cool[k] = NoCooldown \/ cool[k].request \in Increases
  <2>1. task[k] \in Tasks /\ late[k] \in Seq(Orders) /\ InHand(task[k]) /\ CoolInv(cool[k])
    BY StepFacts DEF TaskInv
  <2>2. \A i \in DOMAIN late[k] : late[k][i] \in Orders
    BY <2>1
  <2>3. task[k].pc \in Pcs /\ task[k].attempt \in 0..MaxRetries /\ task[k].order \in Orders
    BY <2>1 DEF Tasks
  <2>4. QED
    BY <2>1, <2>2, <2>3 DEF InHand, CoolInv
<1>2. QED
  BY <1>1 DEF TypeOK, IInv, Typed

(* Every call stays within the states of reconcile, whatever its inputs.   *)
THEOREM ReconcilerTypeCorrect == Spec => []TypeOK
<1>1. IInv(Conditions) => TypeOK
  BY TypesFollow
<1>2. QED
  BY <1>1, Invariance, PTL

(* An order that executed is never swallowed: whatever is lost or fails    *)
(* after it, also with user trades and orders that outlive their answers,  *)
(* the call ends with a result its caller notifies (_should_notify).       *)
THEOREM TradesAreReported == Spec => []TradeReported
<1>1. IInv(Conditions) => TradeReported
  BY StepFacts DEF TradeReported, At, TaskInv, Remembers
<1>2. QED
  BY <1>1, Invariance, PTL

(* A position moves in three ways.                                         *)
LEMMA WhoMoves ==
    ASSUME IInv(Conditions), [Next]_vars, NEW j \in Keys, pos'[j] # pos[j]
    PROVE  Execute(j) \/ ResolveLate(j) \/ UserTrade(j)
<1>1. ~UNCHANGED pos
  OBVIOUS
<1>2. PICK k \in Keys : Execute(k) \/ ResolveLate(k) \/ UserTrade(k)
  BY <1>1 DEF vars, Next, TaskStep, ExchangeStep, Call, Acquire, ReadInitial, ReadActual,
              CheckRisk, Submit, Answered, Raised, Lost, Verify, VerifyFlat, FlipRisk,
              FinalRead, FailedRead, ApiFails, Return, Expire, Reject
<1>3. PICK p : pos' = [pos EXCEPT ![k] = p]
  BY <1>2 DEF Execute, ResolveLate, UserTrade
<1>4. j = k
  BY <1>3 DEF IInv, Typed
<1>5. QED
  BY <1>2, <1>4

LEMMA NoChange == \A p \in Int : p * p >= 0
OBVIOUS

(* While no order outlives its answer and nobody else trades, a position   *)
(* moves by the order of the call that has just read it.                   *)
LEMMA ExecuteMoves ==
    ASSUME NEW v, IInv(v), Alone(v), NEW j \in Keys, Execute(j)
    PROVE  /\ pos[j] * pos'[j] >= 0
           /\ \/ Abs(pos'[j]) <= Abs(pos[j])
              \/ pos'[j] * task[j].target > 0 /\ Abs(pos'[j]) <= Abs(task[j].target)
<1>1. /\ task[j] \in Tasks /\ task[j].order \in Orders /\ pos[j] \in Int
      /\ Acting(task[j]) /\ task[j].actual = pos[j]
      /\ task[j].order.delta = OrderFor(task[j]).delta
      /\ task[j].order.reduce = OrderFor(task[j]).reduce
  BY StepFacts, OrderInHand DEF Execute
<1>2. pos'[j] \in Outcomes(task[j].order, pos[j])
  BY DEF Execute, IInv, Typed
<1>3. CASE task[j].order.reduce
  BY <1>1, <1>2, <1>3, ReduceOutcome
<1>4. CASE ~task[j].order.reduce
  BY <1>1, <1>2, <1>4, IncreaseOutcome
<1>5. QED
  BY <1>3, <1>4

LEMMA OwnMove ==
    ASSUME IInv(Conditions), [Next]_vars, Alone(Conditions),
           ~UserTrades, NEW j \in Keys, pos'[j] # pos[j]
    PROVE  /\ pos[j] * pos'[j] >= 0
           /\ \/ Abs(pos'[j]) <= Abs(pos[j])
              \/ pos'[j] * task[j].target > 0 /\ Abs(pos'[j]) <= Abs(task[j].target)
<1>1. Execute(j)
  <2>1. ~ResolveLate(j)
    BY StepFacts DEF ResolveLate, LateInv
  <2>2. ~UserTrade(j)
    BY DEF UserTrade, Alone
  <2>3. QED
    BY <2>1, <2>2, WhoMoves
<1>2. QED
  BY <1>1, ExecuteMoves

(* Without orders that outlive their answers and without user trades, what *)
(* a result reports is the position, and a call that succeeded has nothing *)
(* left to do, until the caller takes the result: the ledger releases a    *)
(* symbol on the strength of it.                                           *)
THEOREM ReportsAreTruthful ==
    ASSUME ~OrdersOutliveAnswers, ~UserTrades
    PROVE  Spec => []ReportTruthful
<1>1. IInv(Conditions) => ReportTruthful
  BY StepFacts, AloneHolds DEF ReportTruthful, At, TaskInv, Knows
<1>2. QED
  BY <1>1, Invariance, PTL

(* Under the same assumption no sequence of chunks, partial fills, lost    *)
(* answers and retries takes a position beyond the target of its call.     *)
THEOREM NeverBeyondTarget ==
    ASSUME ~OrdersOutliveAnswers, ~UserTrades
    PROVE  Spec => NoOvershoot
<1>1. IInv(Conditions) /\ IInv(Conditions)' /\ [Next]_vars =>
          [\A k \in Keys : Abs(pos'[k]) > Abs(pos[k]) =>
                            /\ pos'[k] * task[k].target > 0
                            /\ Abs(pos'[k]) <= Abs(task[k].target)]_vars
  <2>. SUFFICES ASSUME IInv(Conditions), IInv(Conditions)', [Next]_vars, NEW k \in Keys,
                       Abs(pos'[k]) > Abs(pos[k])
                PROVE  /\ pos'[k] * task[k].target > 0
                       /\ Abs(pos'[k]) <= Abs(task[k].target)
    OBVIOUS
  <2>1. pos[k] \in Int /\ pos'[k] \in Int
    BY DEF IInv, Typed
  <2>2. pos'[k] # pos[k]
    BY <2>1 DEF Abs
  <2>3. ~(Abs(pos'[k]) <= Abs(pos[k]))
    BY <2>1 DEF Abs
  <2>4. QED
    BY <2>2, <2>3, AloneHolds, OwnMove
<1>2. QED
  BY <1>1, Invariance, PTL DEF Spec, NoOvershoot

(* Under the same assumption no order takes a position through zero: a     *)
(* flip closes, is seen to have closed, and opens.                         *)
THEOREM FlipsStopAtZero ==
    ASSUME ~OrdersOutliveAnswers, ~UserTrades
    PROVE  Spec => NeverCrossesZero
<1>1. IInv(Conditions) /\ [Next]_vars => [\A k \in Keys : pos[k] * pos'[k] >= 0]_vars
  <2>. SUFFICES ASSUME IInv(Conditions), [Next]_vars, NEW k \in Keys PROVE pos[k] * pos'[k] >= 0
    OBVIOUS
  <2>1. pos[k] \in Int
    BY DEF IInv, Typed
  <2>2. CASE pos'[k] = pos[k]
    BY <2>1, <2>2, NoChange
  <2>3. CASE pos'[k] # pos[k]
    BY <2>3, AloneHolds, OwnMove
  <2>4. QED
    BY <2>2, <2>3
<1>2. QED
  BY <1>1, Invariance, PTL DEF Spec, NeverCrossesZero

(* While nobody else trades, the kill switch keeps every position from     *)
(* growing and from turning, also by orders that outlive their answers     *)
(* ("never add risk", README.md).                                          *)
THEOREM KillSwitchAddsNoRisk ==
    ASSUME ~UserTrades
    PROVE  Spec => NoNewRisk
<1>1. IInv(Conditions) /\ [Next]_vars =>
          [killSwitch => \A k \in Keys : /\ Abs(pos'[k]) <= Abs(pos[k])
                                         /\ pos[k] * pos'[k] >= 0]_vars
  <2>. SUFFICES ASSUME IInv(Conditions), [Next]_vars, killSwitch, NEW k \in Keys
                PROVE  Abs(pos'[k]) <= Abs(pos[k]) /\ pos[k] * pos'[k] >= 0
    OBVIOUS
  <2>1. /\ pos[k] \in Int /\ task[k] \in Tasks /\ late[k] \in Seq(Orders)
        /\ LateInv(Conditions, late[k])
    BY StepFacts
  <2>2. CASE pos'[k] = pos[k]
    BY <2>1, <2>2, NoChange DEF Abs
  <2>3. CASE Execute(k)
    <3>1. pos'[k] \in Outcomes(task[k].order, pos[k])
      BY <2>3 DEF Execute, IInv, Typed
    <3>2. task[k].order \in Orders /\ task[k].order.reduce
      BY <2>3, OrderInHand DEF Execute, Conditions
    <3>3. QED
      BY <2>1, <3>1, <3>2, ReduceOutcome
  <2>4. CASE ResolveLate(k) /\ pos'[k] # pos[k]
    <3>1. PICK i \in DOMAIN late[k] :
              \E p \in Outcomes(late[k][i], pos[k]) \cup {pos[k]} : pos' = [pos EXCEPT ![k] = p]
      BY <2>4 DEF ResolveLate
    <3>2. pos'[k] \in Outcomes(late[k][i], pos[k])
      BY <2>4, <3>1 DEF IInv, Typed
    <3>3. late[k][i] \in Orders /\ late[k][i].reduce
      BY <2>1, <3>1 DEF LateInv, Conditions
    <3>4. QED
      BY <2>1, <3>2, <3>3, ReduceOutcome
  <2>5. ~UserTrade(k)
    BY DEF UserTrade
  <2>6. QED
    BY <2>2, <2>3, <2>4, <2>5, WhoMoves
<1>2. QED
  BY <1>1, Invariance, PTL DEF Spec, NoNewRisk

-----------------------------------------------------------------------------
(* Exposure is a fold over the set of symbols.  What such a sum is cannot  *)
(* be had from the library's induction theorems; it is derived here from   *)
(* the fact that every set of subsets of a finite set has a least one.     *)

LEMMA LeastSet ==
    ASSUME NEW B \in SUBSET (SUBSET Symbols), B # {}
    PROVE  \E t \in B : \A u \in SUBSET t : u # t => u \notin B
<1>. DEFINE R == StrictSubsetOrdering(Symbols)
<1>1. IsWellFoundedOn(R, SUBSET Symbols)
  BY RiskAssumption, FS_StrictSubsetOrderingWellFounded, FS_FiniteSubsetsOfFinite
<1>2. PICK t \in B : \A u \in B : ~(<<u, t>> \in R)
  <2>. HIDE DEF R
  <2>. QED
    BY <1>1, WFMin
<1>3. ASSUME NEW u \in SUBSET t, u # t, u \in B
      PROVE  FALSE
  <2>1. <<u, t>> \in (SUBSET Symbols) \X (SUBSET Symbols)
    BY <1>2, <1>3
  <2>2. <<u, t>> \in R
    BY <1>3, <2>1 DEF StrictSubsetOrdering
  <2>3. QED
    BY <1>2, <1>3, <2>2
<1>4. QED
  BY <1>2, <1>3

(* The symbol the fold takes first.                                        *)
First(t) == CHOOSE s \in t : TRUE

(* g is the fold's table of sums, for the subsets of t.                    *)
Tabulates(g, p, t) ==
    g = [u \in SUBSET t |-> IF u = {} THEN 0 ELSE Abs(p[First(u)]) + g[u \ {First(u)}]]

LEMMA FirstIn == \A t : t # {} => First(t) \in t
BY DEF First

LEMMA OneTable ==
    ASSUME NEW p, NEW t \in SUBSET Symbols, NEW g, NEW h, Tabulates(g, p, t), Tabulates(h, p, t)
    PROVE  g = h
<1>. DEFINE B == {u \in SUBSET t : g[u] # h[u]}
<1>1. ASSUME B # {} PROVE FALSE
  <2>1. B \in SUBSET (SUBSET Symbols)
    OBVIOUS
  <2>2. PICK u \in B : \A v \in SUBSET u : v # u => v \notin B
    <3>. HIDE DEF B
    <3>. QED
      BY <1>1, <2>1, LeastSet
  <2>3. u # {}
    BY <2>2 DEF Tabulates
  <2>4. g[u \ {First(u)}] = h[u \ {First(u)}]
    BY <2>2, <2>3, FirstIn
  <2>5. g[u] = h[u]
    BY <2>3, <2>4 DEF Tabulates
  <2>6. QED
    BY <2>2, <2>5
<1>2. QED
  BY <1>1 DEF Tabulates

LEMMA Restricted ==
    ASSUME NEW p, NEW t, NEW g, Tabulates(g, p, t), NEW u \in SUBSET t
    PROVE  Tabulates([v \in SUBSET u |-> g[v]], p, u)
<1>. DEFINE h == [v \in SUBSET u |-> g[v]]
<1>1. ASSUME NEW v \in SUBSET u
      PROVE  h[v] = IF v = {} THEN 0 ELSE Abs(p[First(v)]) + h[v \ {First(v)}]
  <2>1. v \in SUBSET t /\ v \ {First(v)} \in SUBSET u
    OBVIOUS
  <2>2. g[v] = IF v = {} THEN 0 ELSE Abs(p[First(v)]) + g[v \ {First(v)}]
    BY <2>1 DEF Tabulates
  <2>3. h[v] = g[v] /\ h[v \ {First(v)}] = g[v \ {First(v)}]
    BY <2>1
  <2>4. QED
    BY <2>2, <2>3
<1>2. QED
  BY <1>1 DEF Tabulates

LEMMA SomeTable ==
    ASSUME NEW p
    PROVE  \A t \in SUBSET Symbols : \E g : Tabulates(g, p, t)
<1>. DEFINE B == {t \in SUBSET Symbols : ~\E g : Tabulates(g, p, t)}
<1>1. ASSUME B # {} PROVE FALSE
  <2>1. PICK t \in B : \A u \in SUBSET t : u # t => u \notin B
    <3>. HIDE DEF B
    <3>1. B \in SUBSET (SUBSET Symbols)
      BY DEF B
    <3>2. QED
      BY <1>1, <3>1, LeastSet
  <2>. DEFINE table(u) == CHOOSE g : Tabulates(g, p, u)
              rest == t \ {First(t)}
              g == [u \in SUBSET t |->
                      IF u = {} THEN 0
                      ELSE IF u = t THEN Abs(p[First(t)]) + table(rest)[rest]
                      ELSE table(u)[u]]
  <2>2. ASSUME NEW u \in SUBSET t, u # t
        PROVE  Tabulates(table(u), p, u)
    <3>1. \E h : Tabulates(h, p, u)
      BY <2>1, <2>2
    <3>2. QED
      BY <3>1
  <2>3. ASSUME NEW u \in SUBSET t, u # t
        PROVE  g[u] = table(u)[u]
    BY <2>2, <2>3 DEF Tabulates
  <2>4. ASSUME NEW u \in SUBSET t, u # {}
        PROVE  g[u] = Abs(p[First(u)]) + g[u \ {First(u)}]
    <3>. DEFINE v == u \ {First(u)}
    <3>1. v \in SUBSET t /\ v # t /\ v \in SUBSET u
      BY <2>4, FirstIn
    <3>2. g[v] = table(v)[v]
      BY <2>3, <3>1
    <3>3. CASE u = t
      BY <2>4, <3>2, <3>3
    <3>4. CASE u # t
      <4>1. g[u] = table(u)[u] /\ Tabulates(table(u), p, u)
        BY <2>2, <2>3, <3>4
      <4>2. table(u)[u] = Abs(p[First(u)]) + table(u)[v]
        BY <2>4, <4>1 DEF Tabulates
      <4>3. [w \in SUBSET v |-> table(u)[w]] = table(v)
        <5>1. Tabulates([w \in SUBSET v |-> table(u)[w]], p, v)
          BY <3>1, <4>1, Restricted
        <5>2. Tabulates(table(v), p, v) /\ v \in SUBSET Symbols
          BY <2>1, <2>2, <3>1
        <5>3. QED
          BY <5>1, <5>2, OneTable
      <4>4. table(u)[v] = table(v)[v]
        BY <4>3
      <4>5. QED
        BY <3>2, <4>1, <4>2, <4>4
    <3>5. QED
      BY <3>3, <3>4
  <2>5. Tabulates(g, p, t)
    <3>1. g = [u \in SUBSET t |-> g[u]] /\ g[{}] = 0
      OBVIOUS
    <3>2. QED
      <4>. HIDE DEF g
      <4>. QED
        BY <2>4, <3>1 DEF Tabulates
  <2>6. QED
    BY <2>1, <2>5
<1>2. QED
  BY <1>1

Sums(p) == CHOOSE g : Tabulates(g, p, Symbols)

LEMMA SumsAre ==
    ASSUME NEW p
    PROVE  /\ Exposure(p) = Sums(p)[Symbols]
           /\ \A t \in SUBSET Symbols :
                 Sums(p)[t] = IF t = {} THEN 0 ELSE Abs(p[First(t)]) + Sums(p)[t \ {First(t)}]
<1>1. Exposure(p) = Sums(p)[Symbols]
  BY DEF Exposure, MapThenSumSet, MapThenFoldSet, Sums, Tabulates, First
<1>2. Tabulates(Sums(p), p, Symbols)
  BY SomeTable DEF Sums
<1>3. QED
  BY <1>1, <1>2 DEF Tabulates

LEMMA SumsTyped ==
    ASSUME NEW p \in [Symbols -> Int], NEW t \in SUBSET Symbols
    PROVE  Sums(p)[t] \in Int
<1>. DEFINE B == {u \in SUBSET Symbols : Sums(p)[u] \notin Int}
<1>1. ASSUME B # {} PROVE FALSE
  <2>1. PICK u \in B : \A v \in SUBSET u : v # u => v \notin B
    <3>. HIDE DEF B
    <3>1. B \in SUBSET (SUBSET Symbols)
      BY DEF B
    <3>2. QED
      BY <1>1, <3>1, LeastSet
  <2>2. Sums(p)[u] = IF u = {} THEN 0 ELSE Abs(p[First(u)]) + Sums(p)[u \ {First(u)}]
    BY <2>1, SumsAre
  <2>3. CASE u = {}
    BY <2>1, <2>2, <2>3
  <2>4. CASE u # {}
    <3>1. First(u) \in Symbols /\ u \ {First(u)} # u
      BY <2>1, <2>4, FirstIn
    <3>2. Sums(p)[u \ {First(u)}] \in Int
      BY <2>1, <3>1
    <3>3. Abs(p[First(u)]) \in Int
      BY <3>1 DEF Abs
    <3>4. QED
      BY <2>1, <2>2, <2>4, <3>2, <3>3
  <2>5. QED
    BY <2>3, <2>4
<1>2. QED
  BY <1>1

(* Any symbol may be taken first.                                          *)
LEMMA AnyFirst ==
    ASSUME NEW p \in [Symbols -> Int]
    PROVE  \A t \in SUBSET Symbols : \A s \in t :
              Sums(p)[t] = Abs(p[s]) + Sums(p)[t \ {s}]
<1>. DEFINE B == {t \in SUBSET Symbols :
                    \E s \in t : Sums(p)[t] # Abs(p[s]) + Sums(p)[t \ {s}]}
<1>0. \A s \in Symbols : Abs(p[s]) \in Int
  BY DEF Abs
<1>1. ASSUME B # {} PROVE FALSE
  <2>1. PICK t \in B : \A u \in SUBSET t : u # t => u \notin B
    <3>. HIDE DEF B
    <3>1. B \in SUBSET (SUBSET Symbols)
      BY DEF B
    <3>2. QED
      BY <1>1, <3>1, LeastSet
  <2>2. PICK s \in t : Sums(p)[t] # Abs(p[s]) + Sums(p)[t \ {s}]
    BY <2>1
  <2>. DEFINE a == First(t)
  <2>3. a \in t /\ t \subseteq Symbols /\ Sums(p)[t] = Abs(p[a]) + Sums(p)[t \ {a}]
    BY <2>1, <2>2, SumsAre, FirstIn
  <2>4. a # s
    BY <2>2, <2>3
  <2>. HIDE DEF a
  <2>5. Sums(p)[t \ {a}] = Abs(p[s]) + Sums(p)[(t \ {a}) \ {s}]
    <3>1. t \ {a} \in SUBSET t /\ t \ {a} # t /\ s \in t \ {a}
      BY <2>2, <2>3, <2>4
    <3>2. QED
      BY <2>1, <2>3, <3>1
  <2>6. Sums(p)[t \ {s}] = Abs(p[a]) + Sums(p)[(t \ {s}) \ {a}]
    <3>1. t \ {s} \in SUBSET t /\ t \ {s} # t /\ a \in t \ {s}
      BY <2>2, <2>3, <2>4
    <3>2. QED
      BY <2>1, <2>3, <3>1
  <2>. DEFINE n == Sums(p)[(t \ {a}) \ {s}]
  <2>7. Sums(p)[(t \ {s}) \ {a}] = n
    <3>1. (t \ {a}) \ {s} = (t \ {s}) \ {a}
      OBVIOUS
    <3>2. QED
      BY <3>1
  <2>8. n \in Int /\ Abs(p[a]) \in Int /\ Abs(p[s]) \in Int
    BY <1>0, <2>2, <2>3, SumsTyped
  <2>9. Sums(p)[t] = Abs(p[a]) + (Abs(p[s]) + n)
    BY <2>3, <2>5
  <2>10. Sums(p)[t \ {s}] = Abs(p[a]) + n
    BY <2>6, <2>7
  <2>11. Abs(p[a]) + (Abs(p[s]) + n) = Abs(p[s]) + (Abs(p[a]) + n)
    <3>. HIDE DEF n
    <3>. QED
      BY <2>8
  <2>12. QED
    BY <2>2, <2>9, <2>10, <2>11
<1>2. QED
  BY <1>1

LEMMA SameSums ==
    ASSUME NEW p \in [Symbols -> Int], NEW q \in [Symbols -> Int], NEW t \in SUBSET Symbols,
           \A s \in t : p[s] = q[s]
    PROVE  Sums(p)[t] = Sums(q)[t]
<1>. DEFINE B == {u \in SUBSET t : Sums(p)[u] # Sums(q)[u]}
<1>1. ASSUME B # {} PROVE FALSE
  <2>1. PICK u \in B : \A v \in SUBSET u : v # u => v \notin B
    <3>. HIDE DEF B
    <3>1. B \in SUBSET (SUBSET Symbols)
      BY DEF B
    <3>2. QED
      BY <1>1, <3>1, LeastSet
  <2>2. u # {}
    BY <2>1, SumsAre
  <2>3. First(u) \in u /\ p[First(u)] = q[First(u)]
    BY <2>1, <2>2, FirstIn
  <2>4. Sums(p)[u \ {First(u)}] = Sums(q)[u \ {First(u)}]
    BY <2>1, <2>3
  <2>5. Sums(p)[u] = Sums(q)[u]
    BY <2>1, <2>2, <2>3, <2>4, SumsAre
  <2>6. QED
    BY <2>1, <2>5
<1>2. QED
  BY <1>1

(* When one position changes, the exposure changes by its change.          *)
LEMMA ExposureMoves ==
    ASSUME NEW p \in [Symbols -> Int], NEW q \in [Symbols -> Int], NEW s \in Symbols,
           \A r \in Symbols : r # s => q[r] = p[r]
    PROVE  /\ Exposure(p) \in Int /\ Exposure(q) \in Int
           /\ Exposure(q) = Exposure(p) - Abs(p[s]) + Abs(q[s])
<1>1. Sums(p)[Symbols \ {s}] = Sums(q)[Symbols \ {s}]
  BY SameSums
<1>2. /\ Exposure(p) = Abs(p[s]) + Sums(p)[Symbols \ {s}]
      /\ Exposure(q) = Abs(q[s]) + Sums(q)[Symbols \ {s}]
  <2>1. Exposure(p) = Sums(p)[Symbols] /\ Exposure(q) = Sums(q)[Symbols]
    BY SumsAre
  <2>2. Symbols \in SUBSET Symbols /\ s \in Symbols
    OBVIOUS
  <2>3. Sums(p)[Symbols] = Abs(p[s]) + Sums(p)[Symbols \ {s}]
    BY <2>2, AnyFirst
  <2>4. Sums(q)[Symbols] = Abs(q[s]) + Sums(q)[Symbols \ {s}]
    BY <2>2, AnyFirst
  <2>5. QED
    BY <2>1, <2>3, <2>4
<1>3. Sums(p)[Symbols \ {s}] \in Int /\ Abs(p[s]) \in Int /\ Abs(q[s]) \in Int
  BY SumsTyped DEF Abs
<1>4. QED
  BY <1>1, <1>2, <1>3

LEMMA ExposureTyped ==
    ASSUME NEW p \in [Symbols -> Int]
    PROVE  Exposure(p) \in Int
BY SumsAre, SumsTyped

-----------------------------------------------------------------------------
(* The semaphore, and the total limit it guards.                           *)

(* What a step of another kind makes of the calls: only acquire hands out  *)
(* a permit.                                                               *)
LEMMA PermitSteps ==
    ASSUME Typed, [Next]_vars
    PROVE  \/ Running' \subseteq Running
           \/ \E k \in Keys : /\ Running' \subseteq Running \cup {k}
                              /\ Cardinality(Running) < MaxConcurrentOrders
<1>1. CASE UNCHANGED vars
  BY <1>1 DEF vars, Running
<1>2. ASSUME NEW k \in Keys, Acquire(k)
      PROVE  /\ Running' \subseteq Running \cup {k}
             /\ Cardinality(Running) < MaxConcurrentOrders
  BY <1>2 DEF Acquire, Goto, Running, Typed
<1>3. ASSUME NEW k \in Keys,
             \/ \E target \in Targets : Call(k, target)
             \/ TaskStep(k) \/ ExchangeStep(k) \/ Return(k) \/ Expire(k) \/ UserTrade(k)
      PROVE  Running' \subseteq Running
  <2>1. \A j \in Keys : j # k => task'[j] = task[j]
    BY <1>3 DEF Typed, Call, TaskStep, ExchangeStep, Return, Expire, UserTrade, ReadInitial,
          ReadActual, CheckRisk, Submit, Answered, Raised, Lost, Verify, VerifyFlat, FlipRisk,
          FinalRead, FailedRead, ApiFails, Execute, Reject, ResolveLate, Goto, Finish,
          AfterOrder, ExecutionFailed
  <2>2. k \in Running' => k \in Running
    <3>1. CASE TaskStep(k)
      BY <3>1 DEF TaskStep, ReadInitial, ReadActual, CheckRisk, Submit, Answered, Raised, Lost,
            Verify, VerifyFlat, FlipRisk, FinalRead, FailedRead, ApiFails, At, Running
    <3>2. CASE Execute(k) \/ Reject(k)
      <4>1. \E o : task' = [task EXCEPT ![k].order = o]
        BY <3>2 DEF Execute, Reject
      <4>2. QED
        BY <4>1 DEF Running
    <3>3. CASE ResolveLate(k) \/ Expire(k) \/ UserTrade(k)
      BY <3>3 DEF ResolveLate, Expire, UserTrade, Running
    <3>4. CASE Return(k) \/ \E target \in Targets : Call(k, target)
      <4>1. CASE Return(k)
        BY <4>1 DEF Return, NoTask, Typed, Running
      <4>2. ASSUME NEW target \in Targets, Call(k, target)
            PROVE  k \notin Running'
        BY <4>2 DEF Call, NoTask, Typed, Running
      <4>3. QED
        BY <3>4, <4>1, <4>2
    <3>5. QED
      BY <1>3, <3>1, <3>2, <3>3, <3>4 DEF ExchangeStep
  <2>3. QED
    BY <2>1, <2>2 DEF Running
<1>4. QED
  BY <1>1, <1>2, <1>3 DEF Next

LEMMA StillFinite ==
    ASSUME Typed, [Next]_vars, IsFiniteSet(Running), Cardinality(Running) <= MaxConcurrentOrders
    PROVE  IsFiniteSet(Running') /\ Cardinality(Running') <= MaxConcurrentOrders
<1>1. CASE Running' \subseteq Running
  <2>1. IsFiniteSet(Running') /\ Cardinality(Running') <= Cardinality(Running)
    BY <1>1, FS_Subset
  <2>2. Cardinality(Running') \in Nat /\ Cardinality(Running) \in Nat
    BY <2>1, FS_CardinalityType
  <2>3. QED
    BY <2>1, <2>2, ReconcilerAssumption
<1>2. ASSUME NEW k \in Keys, Running' \subseteq Running \cup {k},
             Cardinality(Running) < MaxConcurrentOrders
      PROVE  IsFiniteSet(Running') /\ Cardinality(Running') <= MaxConcurrentOrders
  <2>1. /\ IsFiniteSet(Running \cup {k}) /\ Cardinality(Running) \in Nat
        /\ Cardinality(Running \cup {k}) <= Cardinality(Running) + 1
    <3>1. Cardinality(Running) \in Nat
      BY FS_CardinalityType
    <3>2. /\ IsFiniteSet(Running \cup {k})
          /\ Cardinality(Running \cup {k}) = IF k \in Running THEN Cardinality(Running)
                                             ELSE Cardinality(Running) + 1
      BY FS_AddElement
    <3>3. QED
      BY <3>1, <3>2
  <2>2. IsFiniteSet(Running') /\ Cardinality(Running') <= Cardinality(Running \cup {k})
    BY <1>2, <2>1, FS_Subset
  <2>3. Cardinality(Running') \in Nat /\ Cardinality(Running \cup {k}) \in Nat
    BY <2>1, <2>2, FS_CardinalityType
  <2>4. QED
    BY <1>2, <2>1, <2>2, <2>3, ReconcilerAssumption
<1>3. QED
  BY <1>1, <1>2, PermitSteps

(* Never more calls past the semaphore than max_concurrent_orders.         *)
LEMMA PermitsAreLimited ==
    Spec => [](IsFiniteSet(Running) /\ Cardinality(Running) <= MaxConcurrentOrders)
<1>1. Init => IsFiniteSet(Running) /\ Cardinality(Running) <= MaxConcurrentOrders
  <2>1. Init => Running = {}
    BY DEF Init, Running, NoTask
  <2>2. QED
    BY <2>1, FS_EmptySet, ReconcilerAssumption
<1>2. /\ IInv(Conditions) /\ [Next]_vars
      /\ IsFiniteSet(Running) /\ Cardinality(Running) <= MaxConcurrentOrders
      => (IsFiniteSet(Running) /\ Cardinality(Running) <= MaxConcurrentOrders)'
  BY StillFinite DEF IInv
<1>3. QED
  BY <1>1, <1>2, Invariance, PTL DEF Spec

(* The steps that leave the call for k without an order to send or to wait *)
(* for; and the other calls as they are.                                   *)
Unarmed(t) == t.pc # "submit" /\ t.order.state # "sent"

LEMMA FinishDisarms ==
    ASSUME Typed, NEW k \in Keys, NEW r, Finish(k, r)
    PROVE  /\ \A j \in Keys : j # k => task'[j] = task[j]
           /\ Unarmed(task'[k])
<1>1. task' = [task EXCEPT ![k] = Ended(task[k], r)]
  BY DEF Finish, Ended
<1>2. Unarmed(Ended(task[k], r))
  BY NoOrderTyped DEF Ended, NoTask, Unarmed
<1>3. QED
  BY <1>1, <1>2 DEF Typed

LEMMA UnarmedSteps ==
    ASSUME IInv(Conditions), NEW k \in Keys,
           \/ \E target \in Targets : Call(k, target)
           \/ Acquire(k) \/ ReadInitial(k) \/ ReadActual(k) \/ Answered(k) \/ Raised(k)
           \/ Verify(k) \/ VerifyFlat(k) \/ FinalRead(k) \/ FailedRead(k) \/ ApiFails(k)
           \/ Return(k) \/ Expire(k) \/ Reject(k) \/ Execute(k)
    PROVE  /\ \A j \in Keys : j # k => task'[j] = task[j]
           /\ task'[k] = task[k] \/ Unarmed(task'[k])
<1>1. task \in [Keys -> Tasks] /\ Typed /\ InHand(task[k]) /\ NoOrder.state = "none"
  BY StepFacts, NoOrderTyped DEF IInv, Typed, TaskInv
<1>2. CASE Acquire(k) \/ ReadInitial(k)
  BY <1>1, <1>2 DEF Acquire, ReadInitial, Goto, Unarmed, InHand, At, Tasks
<1>3. CASE ReadActual(k)
  <2>1. \/ \E r : Finish(k, r)
        \/ /\ At(k, "actual")
           /\ task' = [task EXCEPT ![k].pc = "risk", ![k].actual = pos[k],
                         ![k].action = Classify(task[k].target, pos[k])]
    BY <1>3 DEF ReadActual
  <2>2. QED
    BY <1>1, <2>1, FinishDisarms DEF Unarmed, InHand, At, Tasks
<1>4. CASE Answered(k)
  BY <1>1, <1>4 DEF Answered, AfterOrder, Unarmed, Tasks
<1>5. CASE Raised(k)
  BY <1>1, <1>5 DEF Raised, ExecutionFailed, Unarmed, Tasks
<1>6. CASE Verify(k)
  BY <1>1, <1>6 DEF Verify, AfterOrder, ExecutionFailed, Unarmed, Tasks
<1>7. CASE VerifyFlat(k) \/ FinalRead(k) \/ FailedRead(k)
  <2>1. \/ \E r : Finish(k, r)
        \/ At(k, "verify_flat") /\ Goto(k, "flip_risk")
    BY <1>7 DEF VerifyFlat, FinalRead, FailedRead
  <2>2. QED
    BY <1>1, <2>1, FinishDisarms DEF Goto, Unarmed, InHand, At, Tasks
<1>8. CASE ApiFails(k)
  <2>1. ExecutionFailed(k) \/ \E r : Finish(k, r)
    BY <1>8 DEF ApiFails
  <2>2. CASE ExecutionFailed(k)
    BY <1>1, <2>2 DEF ExecutionFailed, Unarmed, Tasks
  <2>3. CASE \E r : Finish(k, r)
    BY <1>1, <2>3, FinishDisarms
  <2>4. QED
    BY <2>1, <2>2, <2>3
<1>9. CASE Reject(k) \/ Execute(k)
  <2>1. task[k].pc \in {"sent", "verify"}
    BY <1>1, <1>9 DEF InHand, Reject, Execute
  <2>2. PICK o : task' = [task EXCEPT ![k].order = o] /\ o.state \in {"dead", "partly", "filled"}
    <3>1. task[k].order \in Orders
      BY <1>1 DEF Tasks
    <3>2. CASE Reject(k)
      <4> DEFINE o == [task[k].order EXCEPT !.state = "dead"]
      <4>1. task' = [task EXCEPT ![k].order = o]
        BY <3>2 DEF Reject
      <4>2. o.state = "dead"
        BY <3>1 DEF Orders
      <4>3. QED
        BY <4>1, <4>2
    <3>3. CASE Execute(k)
      <4>1. PICK left : task' = [task EXCEPT ![k].order = [task[k].order EXCEPT !.delta = left,
                                   !.state = IF left = 0 THEN "filled" ELSE "partly"]]
        BY <3>3 DEF Execute
      <4> DEFINE o == [task[k].order EXCEPT !.delta = left,
                         !.state = IF left = 0 THEN "filled" ELSE "partly"]
      <4>2. o.state \in {"partly", "filled"}
        BY <3>1 DEF Orders
      <4>3. task' = [task EXCEPT ![k].order = o]
        BY <4>1
      <4> HIDE DEF o
      <4>4. QED
        BY <4>2, <4>3
    <3>4. QED
      BY <1>9, <3>2, <3>3
  <2>3. QED
    BY <1>1, <2>1, <2>2 DEF Unarmed, Tasks
<1>10. ASSUME NEW target \in Targets, Call(k, target)
       PROVE  /\ \A j \in Keys : j # k => task'[j] = task[j]
              /\ Unarmed(task'[k])
  BY <1>1, <1>10 DEF Call, Unarmed, NoTask
<1>11. CASE Return(k)
  BY <1>1, <1>11 DEF Return, Unarmed, NoTask
<1>12. CASE Expire(k)
  BY <1>12 DEF Expire
<1>13. QED
  BY <1>2, <1>3, <1>4, <1>5, <1>6, <1>7, <1>8, <1>9, <1>10, <1>11, <1>12


(* An increase about to be sent, or in flight, has room in its account:    *)
(* the risk check made it, and while its call holds the only permit nobody *)
(* uses it up.                                                             *)
HasRoom(t, positions) ==
    Exposure(positions) - Abs(t.actual) + Abs(t.target) <= MaxTotal

Reserved ==
    \A k \in Keys : ~Unarmed(task[k]) /\ ~OrderFor(task[k]).reduce =>
        HasRoom(task[k], Account(k[1]))

LimitInv ==
    /\ IInv(Conditions)
    /\ IsFiniteSet(Running) /\ Cardinality(Running) <= MaxConcurrentOrders
    /\ Reserved

LEMMA OneAtATime ==
    ASSUME MaxConcurrentOrders = 1, LimitInv, NEW j \in Running, NEW k \in Running
    PROVE  j = k
<1>1. IsFiniteSet(Running) /\ Cardinality(Running) \in Nat /\ Cardinality(Running) <= 1
  BY FS_CardinalityType DEF LimitInv
<1>2. Running # {}
  OBVIOUS
<1>3. Cardinality(Running) = 1
  BY <1>1, <1>2, FS_EmptySet
<1>4. QED
  BY <1>1, <1>3, FS_Singleton

LEMMA ArmedRuns ==
    ASSUME IInv(Conditions), NEW k \in Keys, ~Unarmed(task[k])
    PROVE  k \in Running
BY StepFacts, NoOrderTyped DEF Unarmed, TaskInv, InHand, Running

LEMMA SameAccounts ==
    ASSUME UNCHANGED pos, NEW t, NEW f
    PROVE  HasRoom(t, Account(f)') <=> HasRoom(t, Account(f))
BY DEF Account

LEMMA IncreaseHasRoom ==
    ASSUME NEW ks, NEW s, NEW t, NEW positions, NEW action \in Increases, NEW amount,
           RiskAllowed(ks, s, t.target, t.actual, positions, action, amount)
    PROVE  HasRoom(t, positions)
BY DEF RiskAllowed, IncreaseAllowed, HasRoom

LEMMA CheckRiskReserves ==
    ASSUME LimitInv, NEW k \in Keys, CheckRisk(k), ~Unarmed(task'[k]),
           ~OrderFor(task'[k]).reduce
    PROVE  HasRoom(task'[k], Account(k[1])')
<1>. DEFINE t == task[k]
            checked == IF t.action = "FLIP" THEN "CLOSE" ELSE t.action
            amount == IF checked = "CLOSE" THEN Abs(t.actual) ELSE Missing(t)
            leg == IF t.action = "FLIP" THEN "flip_close" ELSE "single"
            u == [t EXCEPT !.pc = "submit", !.leg = leg]
<1>1. t \in Tasks /\ TaskInv(Conditions, t, pos[k], traded[k]) /\ t.pc = "risk"
  BY StepFacts DEF CheckRisk, At, LimitInv
<1>2. task \in [Keys -> Tasks] /\ UNCHANGED pos
  BY DEF LimitInv, IInv, Typed, CheckRisk
<1>3. ~Finish(k, Result("RISK_BLOCKED", Abs(t.actual), FALSE, FALSE, FALSE))
  BY FinishDisarms DEF LimitInv, IInv
<1>4. /\ RiskAllowed(killSwitch, k[2], t.target, t.actual, Account(k[1]), checked, amount)
      /\ task'[k] = u
  BY <1>2, <1>3 DEF CheckRisk
<1>5. /\ u.action = t.action /\ u.leg = leg /\ u.target = t.target /\ u.actual = t.actual
  BY <1>1 DEF Tasks
<1>6. t.action = Classify(t.target, t.actual) /\ t.action # "NOOP"
  BY <1>1 DEF TaskInv, Control
<1>7. t.action \in Increases
  <2>. HIDE DEF u
  <2>1. ~(u.action = "CLOSE" \/ u.leg = "flip_close") /\ u.action # "REDUCE"
    BY <1>4 DEF OrderFor
  <2>2. QED
    BY <1>5, <1>6, <2>1 DEF Classify, Increases
<1>8. checked = t.action
  BY <1>7 DEF Increases
<1>9. HasRoom(t, Account(k[1]))
  BY <1>4, <1>7, <1>8, IncreaseHasRoom
<1>10. HasRoom(u, Account(k[1]))
  BY <1>5, <1>9 DEF HasRoom
<1>11. QED
  BY <1>2, <1>4, <1>10, SameAccounts

LEMMA FlipRiskReserves ==
    ASSUME LimitInv, NEW k \in Keys, FlipRisk(k), ~Unarmed(task'[k])
    PROVE  HasRoom(task'[k], Account(k[1])')
<1>. DEFINE t == task[k]
            u == [t EXCEPT !.pc = "submit", !.leg = "flip_open", !.actual = 0]
<1>1. t \in Tasks /\ task \in [Keys -> Tasks] /\ UNCHANGED pos
  BY DEF LimitInv, IInv, Typed, FlipRisk
<1>2. ~Finish(k, Result("RISK_BLOCKED", 0, FALSE, FALSE, TRUE))
  BY FinishDisarms DEF LimitInv, IInv
<1>3. /\ RiskAllowed(killSwitch, k[2], t.target, 0, Account(k[1]), "OPEN", Abs(t.target))
      /\ task'[k] = u
  BY <1>1, <1>2 DEF FlipRisk
<1>4. u.target = t.target /\ u.actual = 0
  BY <1>1 DEF Tasks
<1>. HIDE DEF u
<1>5. HasRoom(u, Account(k[1]))
  BY <1>3, <1>4, IncreaseHasRoom DEF Increases
<1>6. QED
  BY <1>1, <1>3, <1>5, SameAccounts

LEMMA SubmitReserves ==
    ASSUME LimitInv, NEW k \in Keys, Submit(k) \/ Lost(k), ~Unarmed(task'[k]),
           ~OrderFor(task'[k]).reduce
    PROVE  HasRoom(task'[k], Account(k[1])')
<1>. DEFINE t == task[k]
            u == task'[k]
<1>1. t \in Tasks /\ task \in [Keys -> Tasks] /\ UNCHANGED pos
      /\ TaskInv(Conditions, t, pos[k], traded[k])
  BY StepFacts DEF LimitInv, IInv, Typed, Submit, Lost
<1>2. CASE Submit(k)
  <2>1. Goto(k, "failed") \/ task' = [task EXCEPT ![k].pc = "sent", ![k].order = OrderFor(t)]
    BY <1>2 DEF Submit
  <2>2. OrderFor(t) \in Orders /\ t.pc = "submit" /\ t.order.state = "none"
    BY <1>1, <1>2, OrderTyped, NoOrderTyped DEF Submit, At, TaskInv, InHand
  <2>3. SameCall(t, u) /\ ~Unarmed(t)
    BY <1>1, <2>1, <2>2 DEF Goto, SameCall, Unarmed, Tasks
  <2>4. u \in Tasks
    BY <1>1, <2>1, <2>2 DEF Goto, Tasks, Pcs
  <2>5. QED
    BY <1>1, <2>3, <2>4, SameOrder, SameAccounts DEF LimitInv, Reserved, HasRoom, SameCall
<1>3. CASE Lost(k)
  <2>1. task' = [task EXCEPT ![k].pc = "verify"]
    BY <1>3 DEF Lost, Goto
  <2>2. SameCall(t, u) /\ u.order = t.order /\ u.pc = "verify"
    BY <1>1, <2>1 DEF SameCall, Tasks
  <2>3. u \in Tasks
    BY <1>1, <2>1 DEF Tasks, Pcs
  <2>4. ~Unarmed(t)
    BY <2>2 DEF Unarmed
  <2>5. QED
    BY <1>1, <2>2, <2>3, <2>4, SameOrder, SameAccounts DEF LimitInv, Reserved, HasRoom, SameCall
<1>4. QED
  BY <1>2, <1>3

LEMMA ReservedStep ==
    ASSUME MaxConcurrentOrders = 1, ~OrdersOutliveAnswers, ~UserTrades, LimitInv, [Next]_vars
    PROVE  Reserved'
<1>0. Typed /\ Alone(Conditions)
  BY AloneHolds DEF LimitInv, IInv
<1>. SUFFICES ASSUME NEW j \in Keys, ~Unarmed(task'[j]), ~OrderFor(task'[j]).reduce
              PROVE  HasRoom(task'[j], Account(j[1])')
  BY DEF Reserved
<1>1. ASSUME task'[j] = task[j], UNCHANGED pos
      PROVE  HasRoom(task'[j], Account(j[1])')
  BY <1>1, SameAccounts DEF LimitInv, Reserved
<1>2. CASE UNCHANGED vars
  BY <1>1, <1>2 DEF vars
<1>3. ASSUME NEW k \in Keys, CheckRisk(k)
      PROVE  HasRoom(task'[j], Account(j[1])')
  <2>1. CASE j = k
    BY <1>3, <2>1, CheckRiskReserves
  <2>2. CASE j # k
    BY <1>0, <1>1, <1>3, <2>2 DEF CheckRisk, Finish, Typed
  <2>3. QED
    BY <2>1, <2>2
<1>4. ASSUME NEW k \in Keys, FlipRisk(k)
      PROVE  HasRoom(task'[j], Account(j[1])')
  <2>1. CASE j = k
    BY <1>4, <2>1, FlipRiskReserves
  <2>2. CASE j # k
    BY <1>0, <1>1, <1>4, <2>2 DEF FlipRisk, Finish, Typed
  <2>3. QED
    BY <2>1, <2>2
<1>5. ASSUME NEW k \in Keys, Submit(k) \/ Lost(k)
      PROVE  HasRoom(task'[j], Account(j[1])')
  <2>1. CASE j = k
    BY <1>5, <2>1, SubmitReserves
  <2>2. CASE j # k
    BY <1>0, <1>1, <1>5, <2>2 DEF Submit, Lost, Goto, Typed
  <2>3. QED
    BY <2>1, <2>2
<1>6. ASSUME NEW k \in Keys,
             \/ \E target \in Targets : Call(k, target)
             \/ Acquire(k) \/ ReadInitial(k) \/ ReadActual(k) \/ Answered(k) \/ Raised(k)
             \/ Verify(k) \/ VerifyFlat(k) \/ FinalRead(k) \/ FailedRead(k) \/ ApiFails(k)
             \/ Return(k) \/ Expire(k) \/ Reject(k)
      PROVE  HasRoom(task'[j], Account(j[1])')
  <2>1. task'[j] = task[j]
    BY <1>6, UnarmedSteps DEF LimitInv
  <2>2. UNCHANGED pos
    BY <1>6 DEF Call, Acquire, ReadInitial, ReadActual, Answered, Raised, Verify, VerifyFlat,
          FinalRead, FailedRead, ApiFails, Return, Expire, Reject
  <2>3. QED
    BY <1>1, <2>1, <2>2
<1>7. ASSUME NEW k \in Keys, Execute(k)
      PROVE  FALSE
  <2>1. task[k].order.state = "sent" /\ task'[k].order.state # "sent"
    BY <1>0, <1>7 DEF Execute, Typed, Tasks, Orders
  <2>2. j # k
    BY <1>7, <2>1, UnarmedSteps DEF LimitInv
  <2>3. ~Unarmed(task[j]) /\ ~Unarmed(task[k])
    BY <1>7, <2>1, <2>2, UnarmedSteps DEF LimitInv, Unarmed
  <2>4. QED
    BY <2>2, <2>3, ArmedRuns, OneAtATime DEF LimitInv
<1>8. ASSUME NEW k \in Keys, ResolveLate(k) \/ UserTrade(k)
      PROVE  FALSE
  BY <1>0, <1>8, StepFacts DEF ResolveLate, UserTrade, LateInv, LimitInv
<1>9. QED
  BY <1>2, <1>3, <1>4, <1>5, <1>6, <1>7, <1>8 DEF Next, TaskStep, ExchangeStep

(* A position moves by an order that has room.                             *)
LEMMA TotalStep ==
    ASSUME ~OrdersOutliveAnswers, ~UserTrades, LimitInv, [Next]_vars,
           NEW f \in Followers, Exposure(Account(f)') > Exposure(Account(f))
    PROVE  Exposure(Account(f)') <= MaxTotal
<1>. DEFINE p == Account(f)
            q == Account(f)'
<1>1. /\ p \in [Symbols -> Int] /\ q = [s \in Symbols |-> pos'[<<f, s>>]]
      /\ IInv(Conditions) /\ IInv(Conditions)' /\ pos \in [Keys -> Int] /\ pos' \in [Keys -> Int]
  BY NextInv DEF LimitInv, IInv, Typed, Account, Keys
<1>2. q \in [Symbols -> Int]
  BY <1>1 DEF Keys
<1>3. PICK s \in Symbols : pos'[<<f, s>>] # pos[<<f, s>>]
  <2>1. Exposure(p) \in Int
    BY <1>1, ExposureTyped
  <2>2. p # q
    BY <2>1
  <2>3. QED
    BY <1>1, <2>2 DEF Account
<1>. DEFINE j == <<f, s>>
            t == task[j]
<1>4. j \in Keys /\ j[1] = f
  BY DEF Keys
<1>5. Execute(j)
  <2>1. Alone(Conditions)
    BY AloneHolds
  <2>. HIDE DEF j
  <2>2. ~ResolveLate(j)
    BY <1>1, <1>4, <2>1, StepFacts DEF ResolveLate, LateInv
  <2>3. ~UserTrade(j)
    BY DEF UserTrade
  <2>4. pos'[j] # pos[j]
    BY <1>3 DEF j
  <2>5. QED
    BY <1>1, <1>4, <2>2, <2>3, <2>4, WhoMoves
<1>6. PICK x \in Outcomes(t.order, pos[j]) : pos' = [pos EXCEPT ![j] = x]
  BY <1>5 DEF Execute
<1>7. /\ \A r \in Symbols : r # s => q[r] = p[r]
      /\ p[s] = pos[j] /\ q[s] = x
  BY <1>1, <1>4, <1>6 DEF Account, Keys
<1>8. /\ Exposure(p) \in Int /\ Exposure(q) \in Int
      /\ Exposure(q) = Exposure(p) - Abs(pos[j]) + Abs(x)
  BY <1>1, <1>2, <1>7, ExposureMoves
<1>9. /\ t \in Tasks /\ t.order \in Orders /\ pos[j] \in Int /\ x \in Int
      /\ Acting(t) /\ t.actual = pos[j]
      /\ t.order.delta = OrderFor(t).delta /\ t.order.reduce = OrderFor(t).reduce
  BY <1>1, <1>4, <1>5, <1>6, StepFacts, OrderInHand, OutcomeTyped, AloneHolds DEF Execute
<1>10. Abs(pos[j]) \in Int /\ Abs(x) \in Int /\ Abs(t.target) \in Int /\ Abs(t.actual) \in Int
  BY <1>9 DEF Abs, Tasks
<1>11. ~t.order.reduce
  <2>1. Abs(x) > Abs(pos[j])
    BY <1>8, <1>10
  <2>2. t.order.reduce => Abs(x) <= Abs(pos[j])
    BY <1>9, ReduceOutcome
  <2>3. QED
    BY <1>10, <2>1, <2>2
<1>12. Abs(x) <= Abs(t.target)
  BY <1>9, <1>11, IncreaseOutcome
<1>13. Exposure(p) - Abs(t.actual) + Abs(t.target) <= MaxTotal
  <2>1. ~Unarmed(t) /\ ~OrderFor(t).reduce
    BY <1>5, <1>9, <1>11 DEF Execute, Unarmed
  <2>2. QED
    BY <1>4, <2>1 DEF LimitInv, Reserved, HasRoom
<1>14. QED
  <2>1. MaxTotal \in Nat
    BY RiskAssumption
  <2>2. Exposure(p) - Abs(pos[j]) + Abs(t.target) <= MaxTotal
    BY <1>9, <1>13
  <2>3. QED
    BY <1>8, <1>10, <1>12, <2>1, <2>2

(* With one order at a time, no order takes the exposure of an account     *)
(* beyond max_total_notional_usdt, in any interleaving of the calls for    *)
(* its symbols: the check made for one still holds when its order executes.*)
THEOREM TotalLimitKept ==
    ASSUME MaxConcurrentOrders = 1, ~OrdersOutliveAnswers, ~UserTrades
    PROVE  Spec => WithinTotal
<1>1. Init => Reserved
  BY NoTaskTyped, NoOrderTyped DEF Init, Reserved, Unarmed
<1>2. LimitInv /\ [Next]_vars => Reserved'
  BY ReservedStep
<1>3. LimitInv /\ [Next]_vars =>
         [\A f \in Followers :
            LET before == Exposure(Account(f))
                after == Exposure(Account(f))'
            IN  after > before => after <= MaxTotal]_vars
  BY TotalStep
<1>4. QED
  BY <1>1, <1>2, <1>3, Invariance, PermitsAreLimited, PTL DEF Spec, WithinTotal, LimitInv
==============================================================================
