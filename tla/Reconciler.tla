----------------------------- MODULE Reconciler ------------------------------
(***************************************************************************)
(* Reconciler.reconcile (perpmirror/copy/reconciler.py) with the order     *)
(* submission of ExecutionEngine, the risk check and the exchange account  *)
(* they act on.                                                            *)
(*                                                                         *)
(* A key is a follower and a symbol.  Every key has at most one call of    *)
(* reconcile under way (the per-key lock); calls of different keys share   *)
(* the semaphore and interleave at every await.  A call is split there: an *)
(* action stands for the answer of one exchange request and for what the   *)
(* code does with it up to the next await.  Live mode only: a dry run      *)
(* returns before it sends anything.                                       *)
(*                                                                         *)
(* A definition whose name has an underscore is a mutant: the definition   *)
(* that follows it, with a mistake the code could have made.               *)
(***************************************************************************)
EXTENDS Sequences, RiskManager, ExecutionEngine

CONSTANTS
    Followers,           \* follower account ids
    DriftMin,            \* drift_min_usdt
    DriftPercent,        \* drift_percent
    MaxRetries,          \* max_retries
    MaxConcurrentOrders, \* max_concurrent_orders
    FailureCooldown,     \* failure_cooldown > 0
    PartialFills,        \* a market order may fill in part
    OrdersOutliveAnswers,\* an order may execute after its answer was read
    KillSwitches,        \* values kill_switch may have been given
    Targets,             \* target positions callers ask for
    Positions,           \* positions an account starts with or a user sets
    UserTrades,          \* users trade in the follower accounts
    MaxFaults            \* bound on failures, slow answers and user trades

ASSUME ReconcilerAssumption ==
    /\ {DriftMin, DriftPercent, MaxRetries} \subseteq Nat
    /\ MaxConcurrentOrders \in Nat \ {0}
    /\ {FailureCooldown, PartialFills, OrdersOutliveAnswers, UserTrades} \subseteq BOOLEAN
    /\ KillSwitches \subseteq BOOLEAN
    /\ Targets \cup Positions \subseteq Int /\ MaxFaults \in Nat

Keys == Followers \X Symbols

VARIABLES
    pos,    \* pos[k]: the position the exchange holds
    late,   \* late[k]: live orders no call waits for any more
    task,   \* task[k]: the call of reconcile for k
    cool,   \* cool[k]: the failure cooldown, if one is active
    traded, \* traded[k]: history, an order of the call has executed
    killSwitch, \* kill_switch, fixed while the process runs
    faults  \* failures, slow answers and user trades still to come

vars == <<pos, late, task, cool, traded, killSwitch, faults>>

Account(f) == [s \in Symbols |-> pos[<<f, s>>]]

-----------------------------------------------------------------------------
NoOrder == [delta |-> 0, reduce |-> FALSE, state |-> "none"]
NoResult == [action |-> "none", final |-> -1, success |-> FALSE,
             suppressed |-> FALSE, receipts |-> FALSE]
NoCooldown == [target |-> 0, request |-> "none", result |-> "none"]

NoTask == [pc |-> "idle", target |-> 0, attempt |-> 0, actual |-> 0,
           action |-> "none", leg |-> "single", order |-> NoOrder,
           receipts |-> FALSE, result |-> NoResult]

(* final_notional is None: the position could not be read.                 *)
Unconfirmed == -1

Classify(target, actual) ==
    IF target = 0 THEN IF actual = 0 THEN "NOOP" ELSE "CLOSE"
    ELSE IF actual = 0 THEN "OPEN"
    ELSE IF actual * target < 0 THEN "FLIP"
    ELSE LET delta == Abs(target) - Abs(actual)
             withinDrift == \/ Abs(delta) <= DriftMin
                            \/ 100 * Abs(delta) <= Abs(target) * DriftPercent
         IN  IF withinDrift THEN "NOOP" ELSE IF delta > 0 THEN "ADD" ELSE "REDUCE"

SameFailureTarget_AnyTarget(c, target, action) ==
    c.target * target > 0 /\ c.request = action

SameFailureTarget(c, target, action) ==
    LET change == Abs(Abs(c.target) - Abs(target))
    IN  /\ c.target * target > 0
        /\ c.request = action
        /\ change <= DriftMin \/ 100 * change <= Abs(c.target) * DriftPercent

Missing_WholeTarget(t) == Abs(t.target)

Missing(t) == Abs(Abs(t.target) - Abs(t.actual))

(* The order the task is about to send.                                    *)
OrderFor(t) ==
    LET sign(n) == IF n < 0 THEN -1 ELSE 1
        closing == t.action = "CLOSE" \/ t.leg = "flip_close"
    IN  CASE closing ->
               [delta |-> -sign(t.actual) * CloseQuantity(Abs(t.actual)),
                reduce |-> TRUE, state |-> "sent"]
          [] ~closing /\ t.action = "REDUCE" ->
               [delta |-> -sign(t.actual) * ReduceQuantity(Missing(t), Abs(t.actual)),
                reduce |-> TRUE, state |-> "sent"]
          [] OTHER ->
               [delta |-> sign(t.target) * IncreaseQuantity(Missing(t)),
                reduce |-> FALSE, state |-> "sent"]

Refused(t) ==
    /\ ~(t.action = "CLOSE" \/ t.leg = "flip_close")
    /\ TooSmall(Abs(OrderFor(t).delta), OrderFor(t).reduce)

(* ReconcileResult, and _should_notify of perpmirror/app.py.               *)
Result(action, final, success, suppressed, receipts) ==
    [action |-> action, final |-> final, success |-> success,
     suppressed |-> suppressed, receipts |-> receipts]

ShouldNotify_Successes(r) ==
    r.success /\ (r.receipts \/ (r.action # "NOOP" /\ ~r.suppressed))

ShouldNotify(r) == r.receipts \/ (r.action # "NOOP" /\ ~r.suppressed)

-----------------------------------------------------------------------------
At(k, pc) == task[k].pc = pc

Goto(k, pc) == task' = [task EXCEPT ![k].pc = pc]

Finish(k, result) ==
    task' = [task EXCEPT ![k] = [NoTask EXCEPT !.pc = "done",
                                               !.target = task[k].target,
                                               !.result = result]]

Running_FromTheCall == {k \in Keys : task[k].pc \notin {"idle", "done"}}

(* Holders of the semaphore.                                               *)
Running == {k \in Keys : task[k].pc \notin {"idle", "queued", "done"}}

StartCooldown(k, result) ==
    cool' = [cool EXCEPT ![k] =
        IF task[k].action \in Increases /\ FailureCooldown
        THEN [target |-> task[k].target, request |-> task[k].action, result |-> result]
        ELSE @]

(* reconcile(client, target) is called.                                    *)
Call(k, target) ==
    /\ At(k, "idle")
    /\ task' = [task EXCEPT ![k] = [NoTask EXCEPT !.pc = "queued", !.target = target]]
    /\ traded' = [traded EXCEPT ![k] = FALSE]
    /\ UNCHANGED <<pos, late, cool, killSwitch, faults>>

Acquire(k) ==
    /\ At(k, "queued")
    /\ Cardinality(Running) < MaxConcurrentOrders
    /\ Goto(k, "initial")
    /\ UNCHANGED <<pos, late, cool, traded, killSwitch, faults>>

ReadInitial(k) ==
    /\ At(k, "initial")
    /\ Goto(k, "actual")
    /\ UNCHANGED <<pos, late, cool, traded, killSwitch, faults>>

(* The position is read and classified; a cooldown of the same target ends *)
(* the call, any other is dropped.                                         *)
ReadActual(k) ==
    LET action == Classify(task[k].target, pos[k])
        held == /\ action \in Increases
                /\ cool[k] # NoCooldown
                /\ SameFailureTarget(cool[k], task[k].target, action)
    IN  /\ At(k, "actual")
        /\ UNCHANGED <<pos, late, traded, killSwitch, faults>>
        /\ \/ /\ held
              /\ Finish(k, Result(cool[k].result, Abs(pos[k]), FALSE, TRUE, task[k].receipts))
              /\ UNCHANGED cool
           \/ /\ ~held /\ action = "NOOP"
              /\ cool' = [cool EXCEPT ![k] = NoCooldown]
              /\ Finish(k, Result(IF task[k].receipts THEN "EXECUTED" ELSE "NOOP",
                                  Abs(pos[k]), TRUE, FALSE, task[k].receipts))
           \/ /\ ~held /\ action # "NOOP"
              /\ cool' = [cool EXCEPT ![k] = NoCooldown]
              /\ task' = [task EXCEPT ![k].pc = "risk", ![k].action = action,
                                      ![k].actual = pos[k]]

(* The account's positions are read and the risk rules applied; a flip is  *)
(* checked as a close first.                                               *)
CheckRisk(k) ==
    LET t == task[k]
        checked == IF t.action = "FLIP" THEN "CLOSE" ELSE t.action
        amount == IF checked = "CLOSE" THEN Abs(t.actual)
                  ELSE Missing(t)
        allowed == RiskAllowed(killSwitch, k[2], t.target, t.actual, Account(k[1]), checked, amount)
    IN  /\ At(k, "risk")
        /\ UNCHANGED <<pos, late, traded, killSwitch, faults>>
        /\ \/ /\ allowed
              /\ task' = [task EXCEPT ![k].pc = "submit",
                             ![k].leg = IF t.action = "FLIP" THEN "flip_close" ELSE "single"]
              /\ UNCHANGED cool
           \/ /\ ~allowed
              /\ StartCooldown(k, "RISK_BLOCKED")
              /\ Finish(k, Result("RISK_BLOCKED", Abs(t.actual), FALSE, FALSE, FALSE))

(* Sizing (mark price, margin mode and leverage were fetched or set).      *)
Submit(k) ==
    /\ At(k, "submit")
    /\ IF Refused(task[k]) THEN Goto(k, "failed")
       ELSE task' = [task EXCEPT ![k].pc = "sent", ![k].order = OrderFor(task[k])]
    /\ UNCHANGED <<pos, late, cool, traded, killSwitch, faults>>

-----------------------------------------------------------------------------
(* A failed or slow request, or a user's trade, uses up the bound.         *)
Fault == faults > 0 /\ faults' = faults - 1

(* Nothing of an order, or only a part, has executed, and the rest is live.*)
Live(order) == order.state \in {"sent", "partly"}

(* The call stops waiting for its order, which stays live.                 *)
StaysLive(k) ==
    /\ OrdersOutliveAnswers /\ Live(task[k].order)
    /\ late' = [late EXCEPT ![k] = Append(@, [task[k].order EXCEPT !.state = "sent"])]

(* The call stops waiting: the order, or its rest, has died or stays live. *)
LetGo(k) ==
    \/ task[k].order.state # "sent" /\ UNCHANGED <<late, faults>>
    \/ StaysLive(k) /\ Fault

AfterOrder_OneMoreRetry(k) ==
    IF task[k].leg = "flip_close"
    THEN /\ task' = [task EXCEPT ![k].pc = "verify_flat", ![k].order = NoOrder]
         /\ UNCHANGED cool
    ELSE /\ cool' = [cool EXCEPT ![k] = NoCooldown]
         /\ task' = [task EXCEPT
                ![k].pc = IF task[k].attempt <= MaxRetries THEN "actual" ELSE "final",
                ![k].attempt = @ + 1,
                ![k].receipts = TRUE, ![k].leg = "single", ![k].order = NoOrder]

AfterOrder_NoReceipt(k) ==
    IF task[k].leg = "flip_close"
    THEN /\ task' = [task EXCEPT ![k].pc = "verify_flat", ![k].order = NoOrder]
         /\ UNCHANGED cool
    ELSE /\ cool' = [cool EXCEPT ![k] = NoCooldown]
         /\ task' = [task EXCEPT
                ![k].pc = IF task[k].attempt < MaxRetries THEN "actual" ELSE "final",
                ![k].attempt = Smaller(@ + 1, MaxRetries),
                ![k].leg = "single", ![k].order = NoOrder]

(* The order's receipt is in hand.                                         *)
AfterOrder(k) ==
    IF task[k].leg = "flip_close"
    THEN /\ task' = [task EXCEPT ![k].pc = "verify_flat", ![k].order = NoOrder]
         /\ UNCHANGED cool
    ELSE /\ cool' = [cool EXCEPT ![k] = NoCooldown]
         /\ task' = [task EXCEPT
                ![k].pc = IF task[k].attempt < MaxRetries THEN "actual" ELSE "final",
                ![k].attempt = Smaller(@ + 1, MaxRetries),
                ![k].receipts = TRUE, ![k].leg = "single", ![k].order = NoOrder]

(* The call's _execute_action raised.                                      *)
ExecutionFailed(k) ==
    task' = [task EXCEPT ![k].pc = "failed", ![k].order = NoOrder]

(* place_market_order returns a result: filled, cancelled or, on OKX, an   *)
(* acknowledgement of an order that is still live.                         *)
Answered(k) ==
    /\ At(k, "sent")
    /\ LetGo(k)
    /\ AfterOrder(k)
    /\ UNCHANGED <<pos, traded, killSwitch>>

(* place_market_order raises something else than UnknownOrderState: the    *)
(* order was rejected, or the answer was unusable, or (OKX) the query that *)
(* follows an acknowledgement failed.                                      *)
Raised(k) ==
    /\ At(k, "sent")
    /\ \/ task[k].order.state = "dead" /\ UNCHANGED <<late, faults>>
       \/ task[k].order.state \in {"filled", "partly"} /\ Fault /\ UNCHANGED late
       \/ StaysLive(k) /\ Fault
    /\ ExecutionFailed(k)
    /\ UNCHANGED <<pos, cool, traded, killSwitch>>

(* The answer is lost: UnknownOrderState.                                  *)
Lost(k) ==
    /\ At(k, "sent")
    /\ Fault
    /\ Goto(k, "verify")
    /\ UNCHANGED <<pos, late, cool, traded, killSwitch>>

(* verify_order: a filled order counts as answered; otherwise the position *)
(* is read, to no effect, and the exception raised again.  An order filled *)
(* in part counts while its rest is live, and is REJECTED once that has    *)
(* expired.                                                                *)
Verify(k) ==
    /\ At(k, "verify")
    /\ UNCHANGED <<pos, traded, killSwitch>>
    /\ \/ /\ task[k].order.state \in {"filled", "partly"}
          /\ LetGo(k)
          /\ AfterOrder(k)
       \/ /\ task[k].order.state # "filled"
          /\ IF task[k].order.state = "partly" THEN UNCHANGED <<late, faults>> ELSE LetGo(k)
          /\ ExecutionFailed(k)
          /\ UNCHANGED cool

VerifyFlat_NotVerified(k) ==
    /\ At(k, "verify_flat")
    /\ Goto(k, "flip_risk")
    /\ UNCHANGED <<pos, late, cool, traded, killSwitch, faults>>

(* A flip goes on only when the old direction is closed.                   *)
VerifyFlat(k) ==
    /\ At(k, "verify_flat")
    /\ IF pos[k] = 0 THEN Goto(k, "flip_risk")
       ELSE Finish(k, Result("ORDER_FAILED", Abs(pos[k]), FALSE, FALSE, TRUE))
    /\ UNCHANGED <<pos, late, cool, traded, killSwitch, faults>>

FlipRisk_NotChecked(k) ==
    /\ At(k, "flip_risk")
    /\ task' = [task EXCEPT ![k].pc = "submit", ![k].leg = "flip_open", ![k].actual = 0]
    /\ UNCHANGED <<pos, late, cool, traded, killSwitch, faults>>

FlipRisk(k) ==
    LET t == task[k]
    IN  /\ At(k, "flip_risk")
        /\ IF RiskAllowed(killSwitch, k[2], t.target, 0, Account(k[1]), "OPEN", Abs(t.target))
           THEN task' = [task EXCEPT ![k].pc = "submit", ![k].leg = "flip_open",
                                     ![k].actual = 0]
           ELSE Finish(k, Result("RISK_BLOCKED", 0, FALSE, FALSE, TRUE))
        /\ UNCHANGED <<pos, late, cool, traded, killSwitch, faults>>

FinalRead_Success(k) ==
    /\ At(k, "final")
    /\ Finish(k, Result("EXECUTED", Abs(pos[k]), TRUE, FALSE, TRUE))
    /\ UNCHANGED <<pos, late, cool, traded, killSwitch, faults>>

FinalRead(k) ==
    /\ At(k, "final")
    /\ Finish(k, Result("EXECUTED", Abs(pos[k]),
                        Classify(task[k].target, pos[k]) = "NOOP", FALSE, TRUE))
    /\ UNCHANGED <<pos, late, cool, traded, killSwitch, faults>>

(* The failed action's position is read again before the cooldown starts.  *)
FailedRead(k) ==
    /\ At(k, "failed")
    /\ StartCooldown(k, "ORDER_FAILED")
    /\ Finish(k, Result("ORDER_FAILED", Abs(pos[k]), FALSE, FALSE, task[k].receipts))
    /\ UNCHANGED <<pos, late, traded, killSwitch, faults>>

(* A request fails.  A PerpMirrorError inside _execute_action leads to the *)
(* failed action; outside, or any other exception anywhere, ends the call  *)
(* (_safe_reconcile).                                                      *)
ApiFails(k) ==
    /\ UNCHANGED <<pos, cool, traded, killSwitch>>
    /\ Fault
    /\ StaysLive(k) \/ (task[k].order.state # "sent" /\ UNCHANGED late)
    /\ \/ /\ task[k].pc \in {"risk", "submit", "verify", "verify_flat", "flip_risk"}
          /\ ExecutionFailed(k)
       \/ /\ k \in Running
          /\ Finish(k, Result("ORDER_FAILED", Unconfirmed, FALSE, FALSE, FALSE))

(* The caller takes the result.                                            *)
Return(k) ==
    /\ At(k, "done")
    /\ task' = [task EXCEPT ![k] = NoTask]
    /\ UNCHANGED <<pos, late, cool, traded, killSwitch, faults>>

(* The cooldown's deadline passes.                                         *)
Expire(k) ==
    /\ cool[k] # NoCooldown
    /\ cool' = [cool EXCEPT ![k] = NoCooldown]
    /\ UNCHANGED <<pos, late, task, traded, killSwitch, faults>>

-----------------------------------------------------------------------------
(* The exchange.  A reduce-only order is cut to the position it reduces.   *)
Executable(order, p) ==
    IF ~order.reduce THEN Abs(order.delta)
    ELSE IF order.delta * p < 0 THEN Smaller(Abs(order.delta), Abs(p))
    ELSE 0

Outcomes(order, p) ==
    LET n == Executable(order, p)
        sizes == IF PartialFills THEN {q \in 1..n : q % Step = 0 \/ q = n} ELSE {n} \ {0}
    IN  {p + (IF order.delta < 0 THEN -q ELSE q) : q \in sizes}

(* What is left of an order that took the position from p to q.            *)
Left(order, p, q) == order.delta - (q - p)

(* Pieces that execute while the call waits for its answer are taken as    *)
(* one; those that execute later are ResolveLate's.                        *)
Execute(k) ==
    /\ task[k].order.state = "sent"
    /\ \E p \in Outcomes(task[k].order, pos[k]) :
          LET left == Left(task[k].order, pos[k], p)
          IN  /\ pos' = [pos EXCEPT ![k] = p]
              /\ task' = [task EXCEPT ![k].order = [@ EXCEPT !.delta = left,
                            !.state = IF left = 0 THEN "filled" ELSE "partly"]]
    /\ traded' = [traded EXCEPT ![k] = TRUE]
    /\ UNCHANGED <<late, cool, killSwitch, faults>>

(* The order is rejected, expires or never arrives.                        *)
Reject(k) ==
    /\ task[k].order.state = "sent"
    /\ IF Executable(task[k].order, pos[k]) = 0 THEN UNCHANGED faults ELSE Fault
    /\ task' = [task EXCEPT ![k].order.state = "dead"]
    /\ UNCHANGED <<pos, late, cool, traded, killSwitch>>

Remove(seq, i) == SubSeq(seq, 1, i - 1) \o SubSeq(seq, i + 1, Len(seq))

(* An order nobody waits for executes, in one piece or in several, or dies.*)
ResolveLate(k) ==
    \E i \in DOMAIN late[k] :
        /\ \E p \in Outcomes(late[k][i], pos[k]) \cup {pos[k]} :
              LET left == Left(late[k][i], pos[k], p)
              IN  /\ pos' = [pos EXCEPT ![k] = p]
                  /\ \/ late' = [late EXCEPT ![k] = Remove(@, i)]
                     \/ p # pos[k] /\ left # 0 /\ late' = [late EXCEPT ![k][i].delta = left]
        /\ UNCHANGED <<task, cool, traded, killSwitch, faults>>

(* Somebody else trades in the follower's account.                         *)
UserTrade(k) ==
    /\ UserTrades /\ Fault
    /\ \E p \in Positions \ {pos[k]} : pos' = [pos EXCEPT ![k] = p]
    /\ UNCHANGED <<late, task, cool, traded, killSwitch>>

-----------------------------------------------------------------------------
Init ==
    /\ pos \in [Keys -> Positions]
    /\ late = [k \in Keys |-> <<>>]
    /\ task = [k \in Keys |-> NoTask]
    /\ cool = [k \in Keys |-> NoCooldown]
    /\ traded = [k \in Keys |-> FALSE]
    /\ killSwitch \in KillSwitches
    /\ faults = MaxFaults

(* A step of the call for k that does not wait for the semaphore or for    *)
(* the exchange to execute an order.                                       *)
TaskStep(k) ==
    \/ ReadInitial(k) \/ ReadActual(k) \/ CheckRisk(k) \/ Submit(k)
    \/ Answered(k) \/ Raised(k) \/ Lost(k) \/ Verify(k)
    \/ VerifyFlat(k) \/ FlipRisk(k) \/ FinalRead(k) \/ FailedRead(k)
    \/ ApiFails(k)

ExchangeStep(k) == Execute(k) \/ Reject(k) \/ ResolveLate(k)

Next ==
    \E k \in Keys :
        \/ \E target \in Targets : Call(k, target)
        \/ Acquire(k)
        \/ TaskStep(k)
        \/ ExchangeStep(k)
        \/ Return(k)
        \/ Expire(k)
        \/ UserTrade(k)

Spec == Init /\ [][Next]_vars

(* asyncio's semaphore is first come, first served, so a waiting call is   *)
(* not passed over for ever; every request is answered or times out; the   *)
(* exchange decides every order; the caller takes every result.            *)
Fairness ==
    \A k \in Keys :
        /\ SF_vars(Acquire(k))
        /\ WF_vars(TaskStep(k))
        /\ WF_vars(ExchangeStep(k))
        /\ WF_vars(Return(k))

FairSpec == Spec /\ Fairness

(* The periodic round calls reconcile again and again.                     *)
RepeatedSpec ==
    FairSpec /\ \A k \in Keys : WF_vars(\E target \in Targets : Call(k, target))

-----------------------------------------------------------------------------
Pcs == {"idle", "queued", "initial", "actual", "risk", "submit", "sent", "verify",
        "verify_flat", "flip_risk", "final", "failed", "done"}

Orders == [delta : Int, reduce : BOOLEAN, state : {"none", "sent", "partly", "filled", "dead"}]

TypeOK ==
    /\ pos \in [Keys -> Int]
    /\ \A k \in Keys :
          /\ \A i \in DOMAIN late[k] : late[k][i] \in Orders
          /\ task[k].pc \in Pcs
          /\ task[k].attempt \in 0..MaxRetries
          /\ task[k].order \in Orders
          /\ task[k].order # NoOrder <=> task[k].pc \in {"sent", "verify"}
          /\ cool[k] = NoCooldown \/ cool[k].request \in Increases
    /\ traded \in [Keys -> BOOLEAN]
    /\ killSwitch \in KillSwitches
    /\ faults \in 0..MaxFaults

(* A result tells the truth: the final notional is the position's, and     *)
(* success means that nothing is left to do.  The ownership ledger releases*)
(* a symbol on the strength of such a result.                              *)
ReportTruthful ==
    \A k \in Keys :
        At(k, "done") =>
            /\ task[k].result.final \in {Unconfirmed, Abs(pos[k])}
            /\ task[k].result.success => Classify(task[k].target, pos[k]) = "NOOP"

(* An order executed for a call is never swallowed: whatever fails after   *)
(* it, the result the caller gets is one it notifies ("an exchange order   *)
(* is always notification-worthy", full_reconcile).                        *)
TradeReported ==
    \A k \in Keys : At(k, "done") /\ traded[k] => ShouldNotify(task[k].result)

(* No sequence of chunks, partial fills, lost answers and retries takes a  *)
(* position beyond the target of the call that trades.                     *)
NoOvershoot ==
    [][\A k \in Keys :
         Abs(pos'[k]) > Abs(pos[k]) =>
             /\ pos'[k] * task[k].target > 0
             /\ Abs(pos'[k]) <= Abs(task[k].target)]_vars

(* No order takes a position through zero: a flip closes, verifies and     *)
(* opens, and the closing order cannot open the other side.                *)
NeverCrossesZero == [][\A k \in Keys : pos[k] * pos'[k] >= 0]_vars

(* With the kill switch on no position grows and none turns: a flip still  *)
(* closes the old side and then stops ("never add risk", README.md).       *)
NoNewRisk ==
    [][killSwitch => \A k \in Keys : /\ Abs(pos'[k]) <= Abs(pos[k])
                                     /\ pos[k] * pos'[k] >= 0]_vars

(* No order takes an account's exposure beyond max_total_notional_usdt,    *)
(* whatever the calls of its other symbols do meanwhile.                   *)
WithinTotal ==
    [][\A f \in Followers :
         LET before == Exposure(Account(f))
             after == Exposure(Account(f))'
         IN  after > before => after <= MaxTotal]_vars

(* Every call returns: neither the semaphore nor a failing exchange holds  *)
(* it for ever.                                                            *)
EveryCallReturns == \A k \in Keys : At(k, "queued") ~> At(k, "idle")

(* What keeps position and target apart is below the instrument's minimum. *)
Residue(target, p) ==
    LET gap == Abs(Abs(target) - Abs(p))
    IN  /\ target * p > 0
        /\ \/ Floor(gap) < MinQuantity
           \/ Abs(p) < Abs(target) /\ Floor(gap) < MinNotional

InSync(k, target) == Classify(target, pos[k]) = "NOOP" \/ Residue(target, pos[k])

(* What must be done for the target has failed before, and its cooldown    *)
(* runs.                                                                   *)
CoolingDown(k, target) ==
    /\ cool[k] # NoCooldown
    /\ cool[k].target = target /\ cool[k].request = Classify(target, pos[k])

(* Once it is called with one target only, reconcile brings the position   *)
(* to it and keeps it there, whatever was lost, rejected, late or changed  *)
(* by a user before: the self-healing the README promises.  What is left   *)
(* is within the drift tolerance or too small an order for the instrument. *)
(* Only a cooldown of this very target and action may hold it back: as     *)
(* long as that keeps ending, no cooldown of an earlier target and none of *)
(* another action does ("a recent failure of the same target").            *)
EventuallyInSync ==
    \A k \in Keys, target \in Targets :
        /\ <>[](task[k].pc = "idle" \/ task[k].target = target)
        /\ []<>~CoolingDown(k, target)
        => <>[]InSync(k, target)
==============================================================================
