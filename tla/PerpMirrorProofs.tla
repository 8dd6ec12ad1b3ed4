-------------------------- MODULE PerpMirrorProofs ---------------------------
(***************************************************************************)
(* Proofs about the composed system: the round, the ledger with its file,  *)
(* the calls of reconcile, the leader, the users and a process that dies   *)
(* and starts again, for every set of followers and symbols.               *)
(***************************************************************************)
EXTENDS PerpMirror, ReconcilerProofs

-----------------------------------------------------------------------------
(* The ledger's methods, under the names the round calls them by.          *)

Sound(l) == l \in Own!Ledgers /\ Own!LoadAccepts(l)

LEMMA FirstSound ==
    ASSUME NEW b \in SUBSET Symbols, NEW p \in Own!SymbolSets
    PROVE  Sound(Own!FirstLedger(b, p)) /\ Own!FirstLedger(b, p) \in Own!Ledgers
BY DEF Sound, Own!FirstLedger, Own!LoadAccepts, Own!Ledgers, Own!SymbolSets, Own!NoSymbols

LEMMA ObserveLeaderIsSound ==
    ASSUME NEW l, Sound(l), NEW current \in SUBSET Symbols
    PROVE  Sound(Own!ObserveLeader(l, current))
BY DEF Sound, Own!ObserveLeader, Own!LoadAccepts, Own!Ledgers, Own!SymbolSets

LEMMA SoundMethods ==
    ASSUME NEW l, Sound(l), NEW f \in Followers
    PROVE  /\ \A current, lead \in SUBSET Symbols : Sound(Own!ObserveFollower(l, f, current, lead))
           /\ \A current \in SUBSET Symbols : Sound(Own!ProtectUnmanaged(l, f, current))
           /\ \A s \in Symbols : /\ Sound(Own!MarkObserved(l, f, s))
                                 /\ Sound(Own!Release(l, f, s))
                                 /\ ~Own!ClaimRefused(l, f, s) => Sound(Own!Claim(l, f, s))
<1>2. ASSUME NEW current \in SUBSET Symbols, NEW lead \in SUBSET Symbols
      PROVE  Sound(Own!ObserveFollower(l, f, current, lead))
  BY DEF Sound, Own!ObserveFollower, Own!Disappeared, Own!LoadAccepts, Own!Ledgers,
         Own!SymbolSets
<1>3. ASSUME NEW current \in SUBSET Symbols
      PROVE  Sound(Own!ProtectUnmanaged(l, f, current))
  BY DEF Sound, Own!ProtectUnmanaged, Own!Discovered, Own!LoadAccepts, Own!Ledgers,
         Own!SymbolSets
<1>4. ASSUME NEW s \in Symbols
      PROVE  Sound(Own!MarkObserved(l, f, s))
  BY DEF Sound, Own!MarkObserved, Own!LoadAccepts, Own!Ledgers, Own!SymbolSets
<1>5. ASSUME NEW s \in Symbols
      PROVE  Sound(Own!Release(l, f, s))
  BY DEF Sound, Own!Release, Own!LoadAccepts, Own!Ledgers, Own!SymbolSets
<1>6. ASSUME NEW s \in Symbols, ~Own!ClaimRefused(l, f, s)
      PROVE  Sound(Own!Claim(l, f, s))
  BY <1>6 DEF Sound, Own!Claim, Own!ClaimRefused, Own!LoadAccepts, Own!Ledgers,
              Own!SymbolSets
<1>7. QED
  BY <1>2, <1>3, <1>4, <1>5, <1>6

LEMMA ProtectAllKeepsSound ==
    ASSUME NEW l, Sound(l), NEW current \in Own!SymbolSets
    PROVE  Sound(Own!ProtectAll(l, current))
BY DEF Sound, Own!ProtectAll, Own!Discovered, Own!LoadAccepts, Own!Ledgers, Own!SymbolSets

LEMMA BlankIsSound == Sound(Own!Blank)
<1>1. Own!NoSymbols \in Own!SymbolSets
  BY DEF Own!NoSymbols, Own!SymbolSets
<1>2. QED
  BY <1>1, FirstSound DEF Own!Blank

LEMMA FileFacts ==
    ASSUME NEW l, Sound(l)
    PROVE  /\ Own!File(l) \in Own!Files /\ Own!File(l) # NoFile
           /\ Own!File(l).ledger = l /\ Own!File(l).version = 2
           /\ Own!Loaded(Own!File(l)) = l
BY SystemNoFileAssumption DEF Own!File, Own!Files, Own!Loaded, Sound


-----------------------------------------------------------------------------
(* The calls of reconcile within the round.                                *)

LEMMA CallStepInv ==
    ASSUME NEW v, IInv(v), NEW k \in Keys, ReconcileStep(k)
    PROVE  IInv(v)'
BY BeginInv, TaskStepInv, ExecuteInv, RejectInv, ResolveLateInv, ExpireInv DEF ReconcileStep

(* The exchange changes the order in hand, and nothing else of the call.   *)
LEMMA OrderReplaced ==
    ASSUME NEW k \in Keys, Execute(k) \/ Reject(k)
    PROVE  \E o : task' = [task EXCEPT ![k] = [task[k] EXCEPT !.order = o]]
<1>1. CASE Execute(k)
  <2>1. PICK left : task' = [task EXCEPT ![k].order = [task[k].order EXCEPT !.delta = left,
                               !.state = IF left = 0 THEN "filled" ELSE "partly"]]
    BY <1>1 DEF Execute
  <2>2. QED
    BY <2>1
<1>2. CASE Reject(k)
  <2>1. task' = [task EXCEPT ![k] = [task[k] EXCEPT !.order = [task[k].order EXCEPT !.state = "dead"]]]
    BY <1>2 DEF Reject
  <2>2. QED
    BY <2>1
<1>3. QED
  BY <1>1, <1>2

(* What a step of a call changes: nothing of any other key, and its own    *)
(* call goes on for the same target.                                       *)
GoesOn(k) ==
    /\ task'[k].pc # "idle" /\ task'[k].target = task[k].target
    /\ \A j \in Keys : j # k => task'[j] = task[j]

LEMMA CallGoesOn ==
    ASSUME IInv({}), NEW k \in Keys, Acquire(k) \/ TaskStep(k) \/ Execute(k) \/ Reject(k)
    PROVE  task[k].pc # "idle" /\ GoesOn(k)
<1>0. /\ task \in [Keys -> Tasks] /\ task[k] \in Tasks
      /\ task[k].order.state = "sent" => task[k].pc \in {"sent", "verify"}
  BY StepFacts, OrderInHand DEF IInv, Typed
<1>00. ASSUME NEW u, task' = [task EXCEPT ![k] = u], u.pc # "idle", u.target = task[k].target
       PROVE  GoesOn(k)
  BY <1>0, <1>00 DEF GoesOn
<1>1. ASSUME NEW x \in Pcs \ {"idle"}, Goto(k, x) PROVE GoesOn(k)
  <2>1. task' = [task EXCEPT ![k] = [task[k] EXCEPT !.pc = x]]
    BY <1>1 DEF Goto
  <2>2. QED
    BY <1>0, <2>1 DEF GoesOn, Tasks
<1>2. ASSUME NEW r, Finish(k, r) PROVE GoesOn(k)
  <2>1. task' = [task EXCEPT ![k] = Ended(task[k], r)]
    BY <1>2 DEF Finish, Ended
  <2>2. Ended(task[k], r).pc = "done" /\ Ended(task[k], r).target = task[k].target
    BY DEF Ended, NoTask
  <2>3. QED
    BY <1>0, <2>1, <2>2 DEF GoesOn
<1>3. ASSUME ExecutionFailed(k) PROVE GoesOn(k)
  <2>1. task' = [task EXCEPT ![k] = [task[k] EXCEPT !.pc = "failed", !.order = NoOrder]]
    BY <1>3 DEF ExecutionFailed
  <2>2. QED
    BY <1>0, <2>1 DEF GoesOn, Tasks
<1>4. ASSUME AfterOrder(k) PROVE GoesOn(k)
  <2>1. task' = [task EXCEPT ![k] = Receipted(task[k])]
    BY <1>4 DEF AfterOrder, Receipted
  <2>2. Receipted(task[k]).pc # "idle" /\ Receipted(task[k]).target = task[k].target
    BY <1>0 DEF Receipted, Tasks
  <2>3. QED
    BY <1>0, <2>1, <2>2 DEF GoesOn
<1>5. CASE Acquire(k) \/ ReadInitial(k) \/ Lost(k)
  BY <1>1, <1>5 DEF Acquire, ReadInitial, Lost, At, Pcs
<1>6. CASE ReadActual(k)
  <2>1. task[k].pc # "idle"
    BY <1>6 DEF ReadActual, At
  <2>2. \/ \E r : Finish(k, r)
        \/ task' = [task EXCEPT ![k].pc = "risk",
                                ![k].action = Classify(task[k].target, pos[k]),
                                ![k].actual = pos[k]]
    BY <1>6 DEF ReadActual
  <2>3. CASE task' = [task EXCEPT ![k].pc = "risk",
                                ![k].action = Classify(task[k].target, pos[k]),
                                ![k].actual = pos[k]]
    <3>. DEFINE u == [task[k] EXCEPT !.pc = "risk", !.actual = pos[k],
                                    !.action = Classify(task[k].target, pos[k])]
    <3>1. task' = [task EXCEPT ![k] = u]
      BY <2>3
    <3>2. u.pc = "risk" /\ u.target = task[k].target
      BY <1>0 DEF Tasks
    <3>. HIDE DEF u
    <3>3. QED
      BY <1>00, <2>1, <3>1, <3>2
  <2>4. QED
    BY <1>2, <2>1, <2>2, <2>3
<1>7. CASE CheckRisk(k)
  <2>. DEFINE leg == IF task[k].action = "FLIP" THEN "flip_close" ELSE "single"
  <2>1. task[k].pc # "idle"
    BY <1>7 DEF CheckRisk, At
  <2>2. \/ \E r : Finish(k, r)
        \/ task' = [task EXCEPT ![k].pc = "submit", ![k].leg = leg]
    BY <1>7 DEF CheckRisk
  <2>. HIDE DEF leg
  <2>3. CASE task' = [task EXCEPT ![k].pc = "submit", ![k].leg = leg]
    <3>. DEFINE u == [task[k] EXCEPT !.pc = "submit", !.leg = leg]
    <3>1. task' = [task EXCEPT ![k] = u]
      BY <2>3
    <3>2. u.pc = "submit" /\ u.target = task[k].target
      BY <1>0 DEF Tasks
    <3>. HIDE DEF u
    <3>3. QED
      BY <1>00, <2>1, <3>1, <3>2
  <2>4. QED
    BY <1>2, <2>1, <2>2, <2>3
<1>8. CASE Submit(k)
  <2>1. task[k].pc # "idle"
    BY <1>8 DEF Submit, At
  <2>2. \/ Goto(k, "failed")
        \/ task' = [task EXCEPT ![k] = [task[k] EXCEPT !.pc = "sent",
                                                      !.order = OrderFor(task[k])]]
    BY <1>8 DEF Submit
  <2>3. QED
    BY <1>0, <1>1, <2>1, <2>2 DEF GoesOn, Tasks, Pcs
<1>9. CASE VerifyFlat(k)
  BY <1>1, <1>2, <1>9 DEF VerifyFlat, At, Pcs
<1>10. CASE FlipRisk(k)
  <2>1. task[k].pc # "idle"
    BY <1>10 DEF FlipRisk, At
  <2>2. \/ \E r : Finish(k, r)
        \/ task' = [task EXCEPT ![k] = [task[k] EXCEPT !.pc = "submit", !.leg = "flip_open",
                                                      !.actual = 0]]
    BY <1>10 DEF FlipRisk
  <2>3. QED
    BY <1>0, <1>2, <2>1, <2>2 DEF GoesOn, Tasks
<1>11. CASE FinalRead(k) \/ FailedRead(k)
  BY <1>2, <1>11 DEF FinalRead, FailedRead, At
<1>12. CASE Answered(k) \/ Raised(k) \/ Verify(k)
  BY <1>3, <1>4, <1>12 DEF Answered, Raised, Verify, At
<1>13. CASE ApiFails(k)
  BY <1>2, <1>3, <1>13 DEF ApiFails, Running
<1>14. CASE Execute(k) \/ Reject(k)
  <2>1. PICK o : task' = [task EXCEPT ![k] = [task[k] EXCEPT !.order = o]]
    BY <1>14, OrderReplaced
  <2>2. [task[k] EXCEPT !.order = o].pc = task[k].pc
    BY <1>0 DEF Tasks
  <2>3. [task[k] EXCEPT !.order = o].target = task[k].target
    BY <1>0 DEF Tasks
  <2>4. task[k].pc # "idle"
    BY <1>0, <1>14 DEF Execute, Reject
  <2>5. QED
    BY <1>0, <2>1, <2>2, <2>3, <2>4 DEF GoesOn
<1>15. QED
  BY <1>5, <1>6, <1>7, <1>8, <1>9, <1>10, <1>11, <1>12, <1>13, <1>14 DEF TaskStep

LEMMA CallStepLocal ==
    ASSUME IInv({}), NEW k \in Keys, Acquire(k) \/ TaskStep(k) \/ Execute(k) \/ Reject(k)
    PROVE  /\ task[k].pc # "idle" /\ task'[k].pc # "idle"
           /\ task'[k].target = task[k].target
           /\ \A j \in Keys : j # k => /\ task'[j] = task[j] /\ pos'[j] = pos[j]
                                       /\ late'[j] = late[j] /\ traded'[j] = traded[j]
<1>1. /\ task \in [Keys -> Tasks] /\ pos \in [Keys -> Int] /\ late \in [Keys -> Seq(Orders)]
      /\ traded \in [Keys -> BOOLEAN]
  BY DEF IInv, Typed
<1>2. task[k].pc # "idle" /\ GoesOn(k)
  BY CallGoesOn
<1>3. pos' = pos \/ \E p : pos' = [pos EXCEPT ![k] = p]
  BY DEF TaskStep, Acquire, ReadInitial, ReadActual, CheckRisk, Submit, Answered, Raised, Lost,
         Verify, VerifyFlat, FlipRisk, FinalRead, FailedRead, ApiFails, Execute, Reject
<1>4. late' = late \/ \E o : late' = [late EXCEPT ![k] = o]
  BY DEF TaskStep, Acquire, ReadInitial, ReadActual, CheckRisk, Submit, Answered, Raised, Lost,
         Verify, VerifyFlat, FlipRisk, FinalRead, FailedRead, ApiFails, Execute, Reject, LetGo,
         StaysLive
<1>5. traded' = traded \/ traded' = [traded EXCEPT ![k] = TRUE]
  BY DEF TaskStep, Acquire, ReadInitial, ReadActual, CheckRisk, Submit, Answered, Raised, Lost,
         Verify, VerifyFlat, FlipRisk, FinalRead, FailedRead, ApiFails, Execute, Reject
<1>6. QED
  BY <1>1, <1>2, <1>3, <1>4, <1>5 DEF GoesOn

(* The round gives calls back, and calls reconcile anew.                   *)
LEMMA CallsReplaced ==
    ASSUME NEW v, IInv(v), UNCHANGED <<pos, late, cool, killSwitch>>,
           faults' \in 0..MaxFaults, task' \in [Keys -> Tasks], traded' \in [Keys -> BOOLEAN],
           \A k \in Keys :
              \/ task'[k] = task[k] /\ traded'[k] = traded[k]
              \/ /\ task'[k].order = NoOrder /\ task'[k].leg = "single"
                 /\ task'[k].pc = "idle" \/ (task'[k].pc = "queued" /\ ~traded'[k])
    PROVE  IInv(v)'
<1>1. Typed'
  BY DEF IInv, Typed
<1>2. ASSUME NEW k \in Keys PROVE KeyInv(v, k)'
  <2>1. LateInv(v, late[k])' /\ CoolInv(cool[k])'
    BY DEF IInv, KeyInv, LateInv, CoolInv
  <2>2. CASE task'[k] = task[k] /\ traded'[k] = traded[k]
    <3>1. TaskInv(v, task[k], pos[k], traded[k])'
      BY <2>2 DEF IInv, KeyInv, TaskInv
    <3>2. QED
      BY <2>1, <3>1 DEF KeyInv
  <2>3. CASE /\ task'[k].order = NoOrder /\ task'[k].leg = "single"
             /\ task'[k].pc = "idle" \/ (task'[k].pc = "queued" /\ ~traded'[k])
    <3>1. TaskInv(v, task'[k], pos'[k], traded'[k])
      BY <2>3, RestInv DEF IInv, Typed
    <3>2. QED
      BY <2>1, <3>1 DEF KeyInv, TaskInv
  <2>4. QED
    BY <2>2, <2>3
<1>3. QED
  BY <1>1, <1>2 DEF IInv

-----------------------------------------------------------------------------
(* The shape of the system's states.                                       *)

Rounds == [pc : RoundPcs, lead : [Symbols -> Int], todo : SUBSET Followers,
           at : Followers \cup {"none"}, snap : SUBSET Symbols, left : SUBSET Symbols,
           plan : SUBSET Symbols, leadEquity : Int, equity : Int]

(* Every ledger _load would accept, in memory and in the file.             *)
LedgerInv ==
    /\ preserve \in PreserveModes /\ up \in BOOLEAN
    /\ Sound(mem)
    /\ disk # NoFile => disk = Own!File(disk.ledger) /\ Sound(disk.ledger)

LeaderInv ==
    /\ leader \in [Symbols -> LeaderPositions]
    /\ moves \in 0..MaxLeaderMoves

(* Only what the round planned for the follower at hand is being called,   *)
(* and only what has a target is planned.                                  *)
RoundInv ==
    /\ round \in Rounds
    /\ up <=> round.pc \notin {"down", "boot"}
    /\ round.pc \in {"protect", "plan", "wait"} => round.at \in Followers
    /\ round.pc \notin {"plan", "wait"} => round.plan = {}
    /\ \A s \in round.plan : ~TargetFails(round.lead[s], round.leadEquity, round.equity)
    /\ \A k \in Keys : task[k] # NoTask =>
          round.pc = "wait" /\ k[1] = round.at /\ k[2] \in round.plan

Shape == IInv({}) /\ LedgerInv /\ LeaderInv /\ RoundInv

LEMMA Modes ==
    /\ \A p \in PreserveModes : p \in BOOLEAN
    /\ LeaderPositions \subseteq Int /\ LeaderEquities \subseteq Int
    /\ FollowerEquities \subseteq Int
BY PerpMirrorAssumption

LEMMA HeldTyped ==
    /\ \A p : Held(p) \in SUBSET Symbols
    /\ \A f : HeldBy(f) \in SUBSET Symbols
    /\ [f \in Followers |-> HeldBy(f)] \in Own!SymbolSets
BY DEF Held, HeldBy, Own!SymbolSets

LEMMA RestTyped ==
    /\ NoRound \in Rounds /\ NoRound.pc = "down" /\ NoRound.plan = {}
    /\ Resting \in Rounds /\ Resting.pc = "idle" /\ Resting.plan = {}
<1>1. NoRound \in Rounds
  BY DEF NoRound, Rounds, RoundPcs
<1>2. QED
  BY <1>1 DEF Resting, NoRound, Rounds, RoundPcs

LEMMA NoTasksTyped == NoTasks \in [Keys -> Tasks]
BY NoTaskTyped DEF NoTasks

LEMMA FaultTyped ==
    ASSUME IInv({}), Fault \/ UNCHANGED faults
    PROVE  faults' \in 0..MaxFaults
BY ReconcilerAssumption DEF Fault, IInv, Typed

(* What is planned has a target.                                           *)
LEMMA PlannedTyped ==
    ASSUME Shape, NEW s \in round.plan
    PROVE  PlannedTarget(s) \in Int
<1>1. /\ round.lead[s] \in Int /\ round.leadEquity \in Int /\ round.equity \in Int
      /\ ~TargetFails(round.lead[s], round.leadEquity, round.equity)
  BY DEF Shape, RoundInv, Rounds
<1>2. /\ FixedMargin \in Nat /\ CopyRatio \in Nat /\ LeaderLeverage \in Nat
      /\ FixedLeverage \in Nat /\ MaxLeverage \in Nat
  BY TargetAssumption
<1>3. Leverage(round.lead[s]) \in Nat
  BY <1>2 DEF Leverage
<1>4. ASSUME NEW a \in Int, NEW b \in Int, b > 0
      PROVE  a \div b \in Int
  BY <1>4
<1>5. ASSUME NEW n \in Int, round.lead[s] # 0
      PROVE  TargetNotional(n, round.lead[s], round.leadEquity, round.equity) \in Int
  <2>1. CASE CopyMode = "fixed"
    <3>1. FixedMargin * Leverage(round.lead[s]) \in Int
      BY <1>2, <1>3
    <3>2. QED
      BY <2>1, <3>1 DEF TargetNotional
  <2>2. CASE CopyMode # "fixed"
    <3>1. CopyMode = "ratio"
      BY <2>2, TargetAssumption
    <3>2. round.leadEquity > 0
      BY <1>1, <1>5, <3>1 DEF TargetFails
    <3>3. round.equity * n * CopyRatio \in Int
      BY <1>1, <1>2, <1>5
    <3>4. QED
      BY <1>1, <1>4, <2>2, <3>2, <3>3 DEF TargetNotional
  <2>3. QED
    BY <2>1, <2>2
<1>6. QED
  BY <1>1, <1>5 DEF PlannedTarget, Target

(* The two ends of a ledger method.                                        *)
LEMMA SavedLedger ==
    ASSUME LedgerInv, NEW l, Sound(l), Saved(l)
    PROVE  /\ LedgerInv' /\ preserve' = preserve /\ up' = up
           /\ mem' = IF preserve THEN l ELSE mem
<1>1. preserve' = preserve /\ up' = up /\ mem' = IF preserve THEN l ELSE mem
  BY DEF Saved, Own!Written, ledgerVars
<1>2. disk' = disk \/ disk' = Own!File(l)
  BY DEF Saved, Own!Written, ledgerVars
<1>3. QED
  BY <1>1, <1>2, FileFacts DEF LedgerInv

LEMMA FailedLedger ==
    ASSUME LedgerInv, NEW l, Sound(l), SaveFails(l)
    PROVE  /\ LedgerInv' /\ UNCHANGED <<preserve, up, disk>> /\ mem' = l
           /\ up /\ preserve /\ DiskMayFail
           /\ round' = Resting /\ task' = NoTasks /\ Fault
BY DEF SaveFails, Own!WriteFails, LedgerInv

(* The round ends, or the process dies: no call goes on.                   *)
LEMMA RestShape ==
    ASSUME Shape, LedgerInv', UNCHANGED <<leader, moves>>, IInv({})',
           round' \in {Resting, NoRound}, task' = NoTasks,
           up' <=> round'.pc \notin {"down", "boot"}
    PROVE  Shape'
<1>1. LeaderInv'
  BY DEF Shape, LeaderInv
<1>2. RoundInv'
  BY RestTyped DEF RoundInv, NoTasks
<1>3. QED
  BY <1>1, <1>2 DEF Shape

LEMMA IdleTasks == ASSUME Shape, round.pc # "wait" PROVE task = NoTasks
BY DEF Shape, RoundInv, IInv, Typed, NoTasks

(* Calls that are given up leave the calls' invariant as it was.           *)
LEMMA CallsDropped ==
    ASSUME NEW v, IInv(v), UNCHANGED <<pos, late, cool, killSwitch>>, traded' \in [Keys -> BOOLEAN],
           \/ task' = NoTasks
           \/ task' = task /\ traded' = traded
           \/ \E k \in Keys : /\ task' = [task EXCEPT ![k] = NoTask]
                              /\ \A j \in Keys : j # k => traded'[j] = traded[j],
           faults' \in 0..MaxFaults
    PROVE  IInv(v)'
<1>1. task \in [Keys -> Tasks]
  BY DEF IInv, Typed
<1>2. task' \in [Keys -> Tasks]
  BY <1>1, NoTasksTyped, NoTaskTyped
<1>3. ASSUME NEW j \in Keys
      PROVE  (task'[j] = task[j] /\ traded'[j] = traded[j]) \/ task'[j] = NoTask
  BY <1>1 DEF NoTasks
<1>4. QED
  BY <1>2, <1>3, CallsReplaced, NoTaskTyped

-----------------------------------------------------------------------------
(* Every step keeps the shape.                                             *)

(* The process starts with no call under way, and with no live order but   *)
(* where orders outlive their answers.                                     *)
LEMMA BootCalls ==
    ASSUME Shape, Boot
    PROVE  IInv({"alone"})' /\ IInv({})'
<1>. DEFINE V == {{}, {"alone"}}
<1>1. task = NoTasks /\ killSwitch' \in KillSwitches
      /\ UNCHANGED <<pos, late, task, cool, traded, faults>>
  BY IdleTasks DEF Boot
<1>2. Typed'
  BY <1>1 DEF Shape, IInv, Typed
<1>3. ASSUME NEW v \in V, NEW k \in Keys PROVE KeyInv(v, k)'
  <2>1. /\ task[k] = NoTask /\ pos[k] \in Int /\ traded[k] \in BOOLEAN
        /\ CoolInv(cool[k]) /\ "kill" \notin v
    BY <1>1, StepFacts DEF Shape, NoTasks
  <2>2. TaskInv(v, task[k], pos[k], traded[k])'
    BY <1>1, <2>1, RestInv, NoTaskTyped DEF TaskInv
  <2>3. LateInv(v, late[k])' /\ CoolInv(cool[k])'
    BY <1>1, <2>1 DEF LateInv, CoolInv, Alone, Boot
  <2>4. QED
    BY <2>2, <2>3 DEF KeyInv
<1>4. QED
  BY <1>2, <1>3 DEF IInv

LEMMA BootShape == ASSUME Shape, Boot PROVE Shape'
<1>1. LedgerInv' /\ LeaderInv' /\ leader \in [Symbols -> Int]
  BY Modes DEF Shape, LedgerInv, LeaderInv, Boot, ledgerVars
<1>2. round' \in Rounds /\ round'.pc = "boot" /\ round'.plan = {}
  BY <1>1, RestTyped DEF Boot, Rounds, RoundPcs
<1>3. RoundInv'
  BY <1>2, IdleTasks, RestTyped DEF Shape, RoundInv, Boot, ledgerVars, NoTasks
<1>4. QED
  BY <1>1, <1>3, BootCalls DEF Shape

(* The ledger a start-up opens and protects.                               *)
LEMMA OpenedSound ==
    ASSUME LedgerInv, NEW b \in SUBSET Symbols, NEW p \in Own!SymbolSets
    PROVE  Sound(Own!Opened(b, p))
BY FirstSound, FileFacts DEF Own!Opened, LedgerInv

LEMMA UncoveredTyped ==
    ASSUME NEW done \in SUBSET Followers
    PROVE  [f \in Followers |-> IF f \in done THEN [g \in Followers |-> HeldBy(g)][f] ELSE {}]
               \in Own!SymbolSets
BY HeldTyped DEF Own!SymbolSets

LEMMA UnchangedCalls ==
    ASSUME NEW v, IInv(v), UNCHANGED vars
    PROVE  IInv(v)'
BY DEF vars, IInv, Typed, KeyInv, TaskInv, LateInv, CoolInv, Remembers, Knows,
       Reduces, Control, InHand, Acting

LEMMA StartUpShape == ASSUME Shape, StartUp PROVE Shape'
<1>. DEFINE o == Own!Opened(Held(round.lead), [f \in Followers |-> HeldBy(f)])
            l == Own!ProtectAll(o, [f \in Followers |-> HeldBy(f)])
<1>1. Sound(o) /\ Sound(l)
  BY HeldTyped, OpenedSound, ProtectAllKeepsSound DEF Shape
<1>2. /\ preserve' = preserve /\ up' = TRUE
      /\ \/ mem' = mem /\ disk' = disk
         \/ mem' = l /\ (disk' = disk \/ disk' = Own!File(l))
  BY DEF StartUp, Own!Initialize
<1>. HIDE DEF o, l
<1>3. LedgerInv'
  BY <1>1, <1>2, FileFacts DEF Shape, LedgerInv
<1>4. IInv({})'
  BY UnchangedCalls DEF StartUp, Shape
<1>5. task' = NoTasks /\ UNCHANGED <<leader, moves>> /\ round' = Resting
  BY IdleTasks DEF StartUp, vars
<1>6. QED
  BY <1>2, <1>3, <1>4, <1>5, RestTyped, RestShape

LEMMA StartUpDiesShape == ASSUME Shape, StartUpDies PROVE Shape'
<1>. DEFINE o == Own!Opened(Held(round.lead), [f \in Followers |-> HeldBy(f)])
            l(done) == Own!ProtectAll(o, [f \in Followers |->
                          IF f \in done THEN [g \in Followers |-> HeldBy(g)][f] ELSE {}])
<1>1. PICK done \in SUBSET Followers :
          Own!InitializeInterrupted(Held(round.lead), [f \in Followers |-> HeldBy(f)], done)
  BY DEF StartUpDies
<1>2. disk' = Own!File(l(done)) /\ up' = up /\ mem' = mem /\ preserve' = preserve
  BY <1>1 DEF Own!InitializeInterrupted, StartUpDies
<1>3. Sound(l(done))
  BY HeldTyped, OpenedSound, UncoveredTyped, ProtectAllKeepsSound DEF Shape
<1>. HIDE DEF l
<1>4. LedgerInv'
  BY <1>2, <1>3, FileFacts DEF Shape, LedgerInv
<1>5. /\ round.pc = "boot" /\ round' = NoRound /\ UNCHANGED <<leader, moves>>
      /\ UNCHANGED <<pos, late, task, cool, traded, killSwitch>> /\ Fault
  BY DEF StartUpDies
<1>6. IInv({})' /\ task' = NoTasks
  <2>1. faults' \in 0..MaxFaults /\ traded' \in [Keys -> BOOLEAN]
    BY <1>5, FaultTyped DEF Shape, IInv, Typed
  <2>2. QED
    BY <1>5, <2>1, IdleTasks, CallsDropped DEF Shape
<1>7. ~up'
  BY <1>2, <1>5 DEF Shape, RoundInv
<1>8. QED
  BY <1>4, <1>5, <1>6, <1>7, RestTyped, RestShape

LEMMA IdleHasNoOrder ==
    ASSUME Shape, NEW k \in Keys, task[k].pc = "idle"
    PROVE  ~Live(task[k].order)
BY StepFacts DEF Shape, TaskInv, InHand, Live, NoOrder

LEMMA CrashCalls == ASSUME Shape, Crash PROVE IInv({})'
<1>1. ASSUME NEW k \in Keys
      PROVE  late'[k] \in Seq(Orders)
  <2>1. late[k] \in Seq(Orders) /\ task[k].order \in Orders
    BY StepFacts DEF Shape, Tasks
  <2>2. [task[k].order EXCEPT !.state = "sent"] \in Orders
    BY <2>1 DEF Orders
  <2>3. QED
    BY <2>1, <2>2 DEF Crash
<1>2. late' \in [Keys -> Seq(Orders)]
  BY <1>1 DEF Crash
<1>3. NoCooldown \in Cooldowns
  BY DEF NoCooldown, Cooldowns
<1>4. Typed'
  BY <1>2, <1>3, FaultTyped, NoTasksTyped DEF Crash, Shape, IInv, Typed
<1>5. ASSUME NEW k \in Keys PROVE KeyInv({}, k)'
  <2>1. /\ task'[k] = NoTask /\ traded'[k] = FALSE /\ cool'[k] = NoCooldown /\ pos'[k] \in Int
    BY <1>4 DEF Crash, NoTasks, Typed
  <2>2. TaskInv({}, task'[k], pos'[k], traded'[k])
    BY <2>1, RestInv, NoTaskTyped
  <2>3. LateInv({}, late'[k]) /\ CoolInv(cool'[k])
    BY <2>1 DEF LateInv, CoolInv, Alone
  <2>4. QED
    BY <2>2, <2>3 DEF KeyInv, TaskInv, LateInv
<1>6. QED
  BY <1>4, <1>5 DEF IInv

LEMMA CrashShape == ASSUME Shape, Crash PROVE Shape'
<1>1. LedgerInv'
  BY BlankIsSound DEF Crash, Shape, LedgerInv
<1>2. QED
  BY <1>1, CrashCalls, RestTyped, RestShape DEF Crash

LEMMA OtherShape ==
    ASSUME Shape, (\E s \in Symbols : LeaderTrade(s)) \/ (\E k \in Keys : FollowerUserTrades(k))
    PROVE  Shape'
<1>1. CASE \E s \in Symbols : LeaderTrade(s)
  <2>1. PICK s \in Symbols, p \in LeaderPositions :
            /\ leader' = [leader EXCEPT ![s] = p]
            /\ moves > 0 /\ moves' = moves - 1
            /\ UNCHANGED <<vars, ledgerVars, round>>
    BY <1>1 DEF LeaderTrade
  <2>2. LeaderInv' /\ LedgerInv' /\ RoundInv'
    BY <2>1, PerpMirrorAssumption DEF Shape, LeaderInv, LedgerInv, RoundInv, vars, ledgerVars
  <2>3. QED
    BY <2>1, <2>2, UnchangedCalls DEF Shape
<1>2. CASE \E k \in Keys : FollowerUserTrades(k)
  <2>1. PICK k \in Keys : UserTrade(k) /\ UNCHANGED <<ledgerVars, leader, round, moves>>
    BY <1>2 DEF FollowerUserTrades
  <2>2. LeaderInv' /\ LedgerInv' /\ RoundInv'
    BY <2>1 DEF Shape, LeaderInv, LedgerInv, RoundInv, ledgerVars, UserTrade
  <2>3. QED
    BY <2>1, <2>2, UserTradeInv DEF Shape
<1>3. QED
  BY <1>1, <1>2

(* A step of the round before any call of it is made.                      *)
LEMMA QuietShape ==
    ASSUME Shape, LedgerInv', up' = up, UNCHANGED <<leader, moves>>, round.pc # "wait",
           UNCHANGED <<pos, late, task, cool, traded, killSwitch>>, faults' \in 0..MaxFaults,
           round' \in Rounds, up <=> round'.pc \notin {"down", "boot"},
           round'.pc \in {"protect", "plan"} => round'.at \in Followers,
           round'.pc # "wait", round'.pc # "plan" => round'.plan = {},
           \A s \in round'.plan : ~TargetFails(round'.lead[s], round'.leadEquity, round'.equity)
    PROVE  Shape'
<1>1. task = NoTasks /\ task' = NoTasks
  BY IdleTasks
<1>2. IInv({})'
  BY <1>1, CallsDropped DEF Shape, IInv, Typed
<1>3. RoundInv'
  BY <1>1 DEF RoundInv, NoTasks
<1>4. LeaderInv'
  BY DEF Shape, LeaderInv
<1>5. QED
  BY <1>2, <1>3, <1>4 DEF Shape

(* A write fails, and the round ends.                                      *)
LEMMA FailedShape ==
    ASSUME Shape, NEW l, Sound(l), SaveFails(l), UNCHANGED <<leader, moves>>,
           UNCHANGED <<pos, late, cool, killSwitch, traded>>
    PROVE  Shape'
<1>1. LedgerInv' /\ up' /\ round' = Resting /\ task' = NoTasks /\ Fault
  BY FailedLedger DEF Shape
<1>2. faults' \in 0..MaxFaults /\ traded' \in [Keys -> BOOLEAN]
  BY <1>1, FaultTyped DEF Shape, IInv, Typed
<1>3. IInv({})'
  BY <1>1, <1>2, CallsDropped DEF Shape
<1>4. QED
  BY <1>1, <1>3, RestTyped, RestShape

LEMMA SameLedger == ASSUME LedgerInv, UNCHANGED ledgerVars PROVE LedgerInv'
BY DEF LedgerInv, ledgerVars

LEMMA SimpleRoundShape ==
    ASSUME Shape,
           \/ StartRound \/ ReadLeaderFails \/ EndRound
           \/ \E f \in Followers : SkipFollower(f)
    PROVE  Shape'
<1>1. /\ UNCHANGED ledgerVars /\ UNCHANGED <<leader, moves>>
      /\ UNCHANGED <<pos, late, task, cool, traded, killSwitch>>
  BY DEF StartRound, ReadLeaderFails, EndRound, SkipFollower, vars
<1>2. faults' \in 0..MaxFaults
  BY FaultTyped DEF Shape, StartRound, ReadLeaderFails, EndRound, SkipFollower, vars
<1>3. LedgerInv' /\ up' = up
  BY <1>1, SameLedger DEF Shape, ledgerVars
<1>4. CASE StartRound \/ ReadLeaderFails \/ EndRound
  <2>1. /\ round' \in Rounds /\ round'.pc \in {"leader", "idle"} /\ round'.plan = {}
        /\ round.pc \in {"idle", "leader", "follower"}
    BY <1>4, RestTyped DEF StartRound, ReadLeaderFails, EndRound, Rounds, RoundPcs
  <2>2. up
    BY <2>1 DEF Shape, RoundInv
  <2>3. QED
    BY <1>1, <1>2, <1>3, <2>1, <2>2, QuietShape
<1>5. CASE \E f \in Followers : SkipFollower(f)
  <2>1. PICK f \in Followers : /\ round.pc = "follower"
                               /\ round' = [round EXCEPT !.todo = @ \ {f}]
    BY <1>5 DEF SkipFollower
  <2>2. round' \in Rounds /\ round'.pc = "follower" /\ round'.plan = {} /\ up
    BY <2>1 DEF Shape, RoundInv, Rounds
  <2>3. QED
    BY <1>1, <1>2, <1>3, <2>1, <2>2, QuietShape
<1>6. QED
  BY <1>4, <1>5

LEMMA ReadLeaderShape == ASSUME Shape, ReadLeader PROVE Shape'
<1>. DEFINE l == Own!ObserveLeader(mem, Held(leader))
<1>1. Sound(l)
  BY HeldTyped, ObserveLeaderIsSound DEF Shape, LedgerInv
<1>2. /\ round.pc = "leader"
      /\ UNCHANGED <<pos, late, cool, traded, killSwitch, leader, moves, history>>
  BY DEF ReadLeader
<1>3. \/ /\ Saved(l) /\ UNCHANGED <<task, faults>>
         /\ \E e \in LeaderEquities :
               round' = [round EXCEPT !.pc = "follower", !.lead = leader,
                                      !.leadEquity = e, !.todo = Followers]
      \/ SaveFails(l)
  BY DEF ReadLeader
<1>. HIDE DEF l
<1>4. CASE SaveFails(l)
  BY <1>1, <1>2, <1>4, FailedShape
<1>5. CASE /\ Saved(l) /\ UNCHANGED <<task, faults>>
           /\ \E e \in LeaderEquities :
                 round' = [round EXCEPT !.pc = "follower", !.lead = leader,
                                        !.leadEquity = e, !.todo = Followers]
  <2>1. PICK e \in Int : round' = [round EXCEPT !.pc = "follower", !.lead = leader,
                                                !.leadEquity = e, !.todo = Followers]
    BY <1>5, Modes
  <2>2. leader \in [Symbols -> Int]
    BY Modes DEF Shape, LeaderInv
  <2>3. /\ round' \in Rounds /\ round'.pc = "follower" /\ round'.plan = {} /\ up
    BY <1>2, <2>1, <2>2 DEF Shape, RoundInv, Rounds, RoundPcs
  <2>4. LedgerInv' /\ up' = up
    BY <1>1, <1>5, SavedLedger DEF Shape
  <2>5. faults' \in 0..MaxFaults
    BY <1>5 DEF Shape, IInv, Typed
  <2>6. QED
    BY <1>2, <1>5, <2>3, <2>4, <2>5, QuietShape
<1>6. QED
  BY <1>3, <1>4, <1>5

LEMMA ReadFollowerShape == ASSUME Shape, NEW f \in Followers, ReadFollower(f) PROVE Shape'
<1>. DEFINE l == Own!ObserveFollower(mem, f, HeldBy(f), Held(round.lead))
<1>1. Sound(l)
  BY HeldTyped, SoundMethods DEF Shape, LedgerInv
<1>2. /\ round.pc = "follower"
      /\ UNCHANGED <<pos, late, cool, traded, killSwitch, leader, moves, history>>
  BY DEF ReadFollower
<1>3. \/ /\ Saved(l) /\ UNCHANGED <<task, faults>>
         /\ \E e \in FollowerEquities :
               round' = [round EXCEPT !.pc = "protect", !.at = f, !.snap = HeldBy(f),
                                      !.equity = e, !.todo = @ \ {f}]
      \/ SaveFails(l)
  BY DEF ReadFollower
<1>. HIDE DEF l
<1>4. CASE SaveFails(l)
  BY <1>1, <1>2, <1>4, FailedShape
<1>5. CASE /\ Saved(l) /\ UNCHANGED <<task, faults>>
           /\ \E e \in FollowerEquities :
                 round' = [round EXCEPT !.pc = "protect", !.at = f, !.snap = HeldBy(f),
                                        !.equity = e, !.todo = @ \ {f}]
  <2>1. PICK e \in Int : round' = [round EXCEPT !.pc = "protect", !.at = f, !.snap = HeldBy(f),
                                                !.equity = e, !.todo = @ \ {f}]
    BY <1>5, Modes
  <2>2. HeldBy(f) \in SUBSET Symbols
    BY HeldTyped
  <2>3. /\ round' \in Rounds /\ round'.pc = "protect" /\ round'.plan = {} /\ up
        /\ round'.at \in Followers
    BY <1>2, <2>1, <2>2 DEF Shape, RoundInv, Rounds, RoundPcs
  <2>4. LedgerInv' /\ up' = up
    BY <1>1, <1>5, SavedLedger DEF Shape
  <2>5. faults' \in 0..MaxFaults
    BY <1>5 DEF Shape, IInv, Typed
  <2>6. QED
    BY <1>2, <1>5, <2>3, <2>4, <2>5, QuietShape
<1>6. QED
  BY <1>3, <1>4, <1>5

LEMMA ProtectShape == ASSUME Shape, Protect PROVE Shape'
<1>. DEFINE l == Own!ProtectUnmanaged(mem, round.at, round.snap)
<1>0. round.pc = "protect" /\ round.at \in Followers /\ round \in Rounds
  BY DEF Protect, Shape, RoundInv
<1>1. Sound(l)
  BY <1>0, SoundMethods DEF Shape, LedgerInv, Rounds
<1>2. UNCHANGED <<pos, late, cool, traded, killSwitch, leader, moves, history>>
  BY DEF Protect
<1>3. \/ /\ Saved(l) /\ UNCHANGED <<task, faults>>
         /\ round' = [round EXCEPT !.pc = "plan", !.left = RoundSymbols(l)]
      \/ SaveFails(l)
  BY DEF Protect
<1>. HIDE DEF l
<1>4. CASE SaveFails(l)
  BY <1>1, <1>2, <1>4, FailedShape
<1>5. CASE /\ Saved(l) /\ UNCHANGED <<task, faults>>
           /\ round' = [round EXCEPT !.pc = "plan", !.left = RoundSymbols(l)]
  <2>1. RoundSymbols(l) \in SUBSET Symbols
    BY <1>0, <1>1, HeldTyped DEF RoundSymbols, Own!CandidateSymbols, Sound, Own!Ledgers,
                                 Own!SymbolSets, Rounds
  <2>2. /\ round' \in Rounds /\ round'.pc = "plan" /\ round'.plan = {} /\ up
        /\ round'.at \in Followers
    BY <1>0, <1>5, <2>1 DEF Shape, RoundInv, Rounds, RoundPcs
  <2>3. LedgerInv' /\ up' = up
    BY <1>1, <1>5, SavedLedger DEF Shape
  <2>4. faults' \in 0..MaxFaults
    BY <1>5 DEF Shape, IInv, Typed
  <2>5. QED
    BY <1>0, <1>2, <1>5, <2>2, <2>3, <2>4, QuietShape
<1>6. QED
  BY <1>3, <1>4, <1>5

(* What PlanSymbol does: the symbol is skipped, or planned unless it has no*)
(* target, after a claim if need be; or the claim is not written.          *)
PlanLedger(s) ==
    IF ~preserve \/ s \in mem.managed[round.at] THEN mem ELSE Own!Claim(mem, round.at, s)

LEMMA PlanCases ==
    ASSUME Shape, NEW s \in Symbols, PlanSymbol(s)
    PROVE  /\ round.pc = "plan" /\ s \in round.left /\ round.at \in Followers
           /\ UNCHANGED <<pos, late, cool, traded, killSwitch, leader, moves, history>>
           /\ \/ /\ round' = [round EXCEPT !.left = @ \ {s}]
                 /\ UNCHANGED <<task, faults, ledgerVars>>
              \/ /\ Sound(PlanLedger(s))
                 /\ \/ ~preserve \/ s \in mem.managed[round.at]
                    \/ ~Own!ClaimRefused(mem, round.at, s)
                 /\ \/ /\ Saved(PlanLedger(s)) /\ UNCHANGED <<task, faults>>
                       /\ \/ round' = [round EXCEPT !.left = @ \ {s}]
                          \/ /\ round' = [round EXCEPT !.left = @ \ {s}, !.plan = @ \cup {s}]
                             /\ ~TargetFails(round.lead[s], round.leadEquity, round.equity)
                    \/ SaveFails(PlanLedger(s))
<1>1. round.pc = "plan" /\ s \in round.left /\ round.at \in Followers
  BY DEF PlanSymbol, Shape, RoundInv
<1>2. Sound(mem)
  BY DEF Shape, LedgerInv
<1>3. ASSUME \/ ~preserve \/ s \in mem.managed[round.at]
             \/ ~Own!ClaimRefused(mem, round.at, s)
      PROVE  Sound(PlanLedger(s))
  BY <1>1, <1>2, <1>3, SoundMethods DEF PlanLedger
<1>4. UNCHANGED <<pos, late, cool, traded, killSwitch, leader, moves, history>>
  BY DEF PlanSymbol
<1>5. \/ /\ round' = [round EXCEPT !.left = @ \ {s}]
         /\ UNCHANGED <<task, faults, ledgerVars>>
      \/ /\ \/ ~preserve \/ s \in mem.managed[round.at]
            \/ ~Own!ClaimRefused(mem, round.at, s)
         /\ \/ /\ Saved(PlanLedger(s)) /\ UNCHANGED <<task, faults>>
               /\ \/ round' = [round EXCEPT !.left = @ \ {s}]
                  \/ /\ round' = [round EXCEPT !.left = @ \ {s}, !.plan = @ \cup {s}]
                     /\ ~TargetFails(round.lead[s], round.leadEquity, round.equity)
            \/ SaveFails(PlanLedger(s))
  BY DEF PlanSymbol, PlanLedger
<1>6. QED
  BY <1>1, <1>3, <1>4, <1>5

LEMMA PlanSymbolShape == ASSUME Shape, NEW s \in Symbols, PlanSymbol(s) PROVE Shape'
<1>1. /\ round.pc = "plan" /\ round.at \in Followers /\ round \in Rounds /\ up
      /\ faults \in 0..MaxFaults
      /\ UNCHANGED <<pos, late, cool, traded, killSwitch, leader, moves, history>>
  BY PlanCases DEF Shape, RoundInv, IInv, Typed
<1>2. CASE SaveFails(PlanLedger(s)) /\ Sound(PlanLedger(s))
  BY <1>1, <1>2, FailedShape
<1>3. CASE /\ UNCHANGED <<task, faults>>
           /\ UNCHANGED ledgerVars \/ (Saved(PlanLedger(s)) /\ Sound(PlanLedger(s)))
           /\ \/ round' = [round EXCEPT !.left = @ \ {s}]
              \/ /\ round' = [round EXCEPT !.left = @ \ {s}, !.plan = @ \cup {s}]
                 /\ ~TargetFails(round.lead[s], round.leadEquity, round.equity)
  <2>1. LedgerInv' /\ up' = up
    BY <1>3, SameLedger, SavedLedger DEF Shape, ledgerVars
  <2>2. /\ round' \in Rounds /\ round'.pc = "plan" /\ round'.at = round.at
        /\ round'.lead = round.lead /\ round'.leadEquity = round.leadEquity
        /\ round'.equity = round.equity
        /\ \/ round'.plan = round.plan
           \/ /\ round'.plan = round.plan \cup {s}
              /\ ~TargetFails(round.lead[s], round.leadEquity, round.equity)
    <3>1. CASE round' = [round EXCEPT !.left = @ \ {s}]
      BY <1>1, <3>1 DEF Rounds
    <3>2. CASE /\ round' = [round EXCEPT !.left = @ \ {s}, !.plan = @ \cup {s}]
               /\ ~TargetFails(round.lead[s], round.leadEquity, round.equity)
      <4>1. /\ round' \in Rounds /\ round'.pc = "plan" /\ round'.at = round.at
            /\ round'.lead = round.lead /\ round'.leadEquity = round.leadEquity
            /\ round'.equity = round.equity /\ round'.plan = round.plan \cup {s}
        BY <1>1, <3>2 DEF Rounds
      <4>2. QED
        BY <3>2, <4>1
    <3>3. QED
      BY <1>3, <3>1, <3>2
  <2>3. \A q \in round'.plan : ~TargetFails(round'.lead[q], round'.leadEquity, round'.equity)
    BY <2>2 DEF Shape, RoundInv
  <2>4. QED
    BY <1>1, <1>3, <2>1, <2>2, <2>3, QuietShape
<1>4. QED
  BY <1>2, <1>3, PlanCases

(* gather calls reconcile for what is planned, and for nothing else.       *)
LEMMA GatherCalls ==
    ASSUME Shape, Gather
    PROVE  /\ task = NoTasks
           /\ \A k \in Keys :
                 IF k[1] = round.at /\ k[2] \in round.plan
                 THEN /\ task'[k] = [NoTask EXCEPT !.pc = "queued", !.target = PlannedTarget(k[2])]
                      /\ task'[k] \in Tasks /\ task'[k].order = NoOrder /\ ~traded'[k]
                      /\ task'[k].pc = "queued" /\ task'[k].leg = "single"
                      /\ task'[k].target = PlannedTarget(k[2])
                 ELSE task'[k] = NoTask /\ traded'[k] = traded[k]
<1>1. task = NoTasks
  BY IdleTasks DEF Gather
<1>2. ASSUME NEW k \in Keys, k[1] = round.at /\ k[2] \in round.plan
      PROVE  /\ task'[k] = [NoTask EXCEPT !.pc = "queued", !.target = PlannedTarget(k[2])]
             /\ task'[k] \in Tasks /\ task'[k].order = NoOrder /\ ~traded'[k]
             /\ task'[k].pc = "queued" /\ task'[k].leg = "single"
             /\ task'[k].target = PlannedTarget(k[2])
  <2>1. /\ task'[k] = [NoTask EXCEPT !.pc = "queued", !.target = PlannedTarget(k[2])]
        /\ ~traded'[k]
    BY <1>2 DEF Gather
  <2>2. PlannedTarget(k[2]) \in Int /\ "queued" \in Pcs
    BY <1>2, PlannedTyped DEF Pcs
  <2>3. QED
    BY <2>1, <2>2, NoTaskTyped DEF Tasks
<1>3. ASSUME NEW k \in Keys, ~(k[1] = round.at /\ k[2] \in round.plan)
      PROVE  task'[k] = NoTask /\ traded'[k] = traded[k]
  <2>1. task'[k] = NoTask
    BY <1>1, <1>3 DEF Gather, NoTasks
  <2>2. traded'[k] = traded[k]
    <3>1. traded[k] \in BOOLEAN
      BY DEF Shape, IInv, Typed
    <3>2. traded'[k] = (traded[k] /\ ~(k[1] = round.at /\ k[2] \in round.plan))
      BY DEF Gather
    <3>3. QED
      BY <1>3, <3>1, <3>2
  <2>3. QED
    BY <2>1, <2>2
<1>4. QED
  BY <1>1, <1>2, <1>3

LEMMA GatherInv == ASSUME Shape, Gather, NEW v, IInv(v) PROVE IInv(v)'
<1>1. ASSUME NEW k \in Keys
      PROVE  /\ task'[k] \in Tasks
             /\ \/ task'[k] = task[k] /\ traded'[k] = traded[k]
                \/ /\ task'[k].order = NoOrder /\ task'[k].leg = "single"
                   /\ task'[k].pc = "idle" \/ (task'[k].pc = "queued" /\ ~traded'[k])
  BY GatherCalls, NoTaskTyped
<1>2. task' \in [Keys -> Tasks]
  BY <1>1 DEF Gather
<1>3. traded' \in [Keys -> BOOLEAN]
  <2>1. ASSUME NEW k \in Keys
        PROVE  (traded[k] /\ ~(k[1] = round.at /\ k[2] \in round.plan)) \in BOOLEAN
    OBVIOUS
  <2>2. QED
    BY <2>1 DEF Gather
<1>4. UNCHANGED <<pos, late, cool, killSwitch>> /\ faults' \in 0..MaxFaults
  BY DEF Gather, Shape, IInv, Typed
<1>5. QED
  BY <1>1, <1>2, <1>3, <1>4, CallsReplaced

LEMMA GatherShape == ASSUME Shape, Gather PROVE Shape'
<1>1. IInv({})'
  BY GatherInv DEF Shape
<1>2. LedgerInv' /\ LeaderInv' /\ up' = up
  BY SameLedger DEF Gather, Shape, LeaderInv, ledgerVars
<1>3. round.pc = "plan" /\ round.at \in Followers /\ round \in Rounds /\ up
  BY DEF Gather, Shape, RoundInv
<1>4. /\ round' \in Rounds /\ round'.at = round.at /\ round'.plan = round.plan
      /\ round'.lead = round.lead /\ round'.leadEquity = round.leadEquity
      /\ round'.equity = round.equity
      /\ round'.pc = IF round.plan = {} THEN "follower" ELSE "wait"
  BY <1>3 DEF Gather, Rounds, RoundPcs
<1>5. RoundInv'
  BY <1>2, <1>3, <1>4, GatherCalls DEF Shape, RoundInv
<1>6. QED
  BY <1>1, <1>2, <1>5 DEF Shape

(* A result is handled: the ledger, then the result.                       *)
LEMMA CollectCases ==
    ASSUME Shape, NEW s \in Symbols, Collect(s)
    PROVE  LET k == <<round.at, s>>
               l == AfterResult(s, task[k].result)
           IN  /\ k \in Keys /\ round.at \in Followers /\ round.pc = "wait" /\ s \in round.plan
               /\ task[k].pc = "done"
               /\ UNCHANGED <<pos, late, cool, killSwitch, leader, moves, history>>
               /\ Sound(l)
               /\ \/ /\ Saved(l) /\ UNCHANGED faults
                     /\ task' = [task EXCEPT ![k] = NoTask]
                     /\ traded' = [traded EXCEPT ![k] = @ /\ ~ShouldNotify(task[k].result)]
                     /\ round' = [round EXCEPT !.plan = @ \ {s},
                                     !.pc = IF round.plan = {s} THEN "follower" ELSE "wait"]
                  \/ SaveFails(l) /\ UNCHANGED traded
<1>. DEFINE k == <<round.at, s>>
            l == AfterResult(s, task[k].result)
<1>1. /\ k \in Keys /\ round.at \in Followers /\ round.pc = "wait" /\ s \in round.plan
      /\ task[k].pc = "done"
  BY DEF Collect, Shape, RoundInv, Keys, At
<1>2. Sound(l)
  BY <1>1, SoundMethods DEF AfterResult, Shape, LedgerInv
<1>3. UNCHANGED <<pos, late, cool, killSwitch, leader, moves, history>>
  BY DEF Collect
<1>4. \/ /\ Saved(l) /\ UNCHANGED faults
         /\ task' = [task EXCEPT ![k] = NoTask]
         /\ traded' = [traded EXCEPT ![k] = @ /\ ~ShouldNotify(task[k].result)]
         /\ round' = [round EXCEPT !.plan = @ \ {s},
                         !.pc = IF round.plan = {s} THEN "follower" ELSE "wait"]
      \/ SaveFails(l) /\ UNCHANGED traded
  BY DEF Collect
<1>5. QED
  BY <1>1, <1>2, <1>3, <1>4

LEMMA CollectInv ==
    ASSUME Shape, NEW s \in Symbols, Collect(s), NEW v, IInv(v)
    PROVE  IInv(v)'
<1>. DEFINE k == <<round.at, s>>
            l == AfterResult(s, task[k].result)
<1>1. /\ UNCHANGED <<pos, late, cool, killSwitch>> /\ k \in Keys
      /\ \/ /\ UNCHANGED faults /\ task' = [task EXCEPT ![k] = NoTask]
            /\ traded' = [traded EXCEPT ![k] = @ /\ ~ShouldNotify(task[k].result)]
         \/ SaveFails(l) /\ UNCHANGED traded
  BY CollectCases
<1>2. CASE SaveFails(l) /\ UNCHANGED traded
  <2>1. task' = NoTasks /\ faults' \in 0..MaxFaults /\ traded' \in [Keys -> BOOLEAN]
    BY <1>2, FaultTyped DEF SaveFails, Shape, IInv, Typed
  <2>2. QED
    BY <1>1, <2>1, CallsDropped
<1>3. CASE /\ UNCHANGED faults /\ task' = [task EXCEPT ![k] = NoTask]
           /\ traded' = [traded EXCEPT ![k] = @ /\ ~ShouldNotify(task[k].result)]
  <2>1. (traded[k] /\ ~ShouldNotify(task[k].result)) \in BOOLEAN
    OBVIOUS
  <2>2. /\ traded' \in [Keys -> BOOLEAN] /\ faults' \in 0..MaxFaults
        /\ \A j \in Keys : j # k => traded'[j] = traded[j]
    BY <1>1, <1>3, <2>1 DEF IInv, Typed
  <2>. HIDE DEF k
  <2>3. QED
    BY <1>1, <1>3, <2>2, CallsDropped
<1>4. QED
  BY <1>1, <1>2, <1>3

LEMMA CollectShape == ASSUME Shape, NEW s \in Symbols, Collect(s) PROVE Shape'
<1>. DEFINE k == <<round.at, s>>
            l == AfterResult(s, task[k].result)
<1>1. IInv({})'
  BY CollectInv DEF Shape
<1>2. /\ round.pc = "wait" /\ round.at \in Followers /\ round \in Rounds /\ s \in round.plan
      /\ up /\ UNCHANGED <<leader, moves>> /\ Sound(l) /\ k \in Keys
  BY CollectCases DEF Shape, RoundInv
<1>3. CASE SaveFails(l)
  <2>1. LedgerInv' /\ up' /\ round' = Resting /\ task' = NoTasks
    BY <1>2, <1>3, FailedLedger DEF Shape
  <2>2. QED
    BY <1>1, <1>2, <2>1, RestTyped, RestShape
<1>4. CASE /\ Saved(l) /\ task' = [task EXCEPT ![k] = NoTask]
           /\ round' = [round EXCEPT !.plan = @ \ {s},
                           !.pc = IF round.plan = {s} THEN "follower" ELSE "wait"]
  <2>1. LedgerInv' /\ up' = up
    BY <1>2, <1>4, SavedLedger DEF Shape
  <2>2. LeaderInv'
    BY <1>2 DEF Shape, LeaderInv
  <2>3. /\ round' \in Rounds /\ round'.at = round.at /\ round'.plan = round.plan \ {s}
        /\ round'.lead = round.lead /\ round'.leadEquity = round.leadEquity
        /\ round'.equity = round.equity
        /\ round'.pc = IF round.plan = {s} THEN "follower" ELSE "wait"
    BY <1>2, <1>4 DEF Rounds, RoundPcs
  <2>4. ASSUME NEW j \in Keys, task'[j] # NoTask
        PROVE  round'.pc = "wait" /\ j[1] = round'.at /\ j[2] \in round'.plan
    <3>1. j # k /\ task'[j] = task[j]
      BY <1>2, <1>4, <2>4 DEF Shape, IInv, Typed
    <3>2. j[1] = round.at /\ j[2] \in round.plan /\ j[2] # s
      BY <2>4, <3>1 DEF Shape, RoundInv, Keys
    <3>3. QED
      BY <2>3, <3>2
  <2>5. RoundInv'
    BY <1>2, <2>1, <2>3, <2>4 DEF Shape, RoundInv
  <2>6. QED
    BY <1>1, <2>1, <2>2, <2>5 DEF Shape
<1>5. QED
  BY <1>3, <1>4, CollectCases

LEMMA CallStepShape == ASSUME Shape, NEW k \in Keys, ReconcileStep(k) PROVE Shape'
<1>1. IInv({})'
  BY CallStepInv DEF Shape
<1>2. LedgerInv' /\ LeaderInv' /\ UNCHANGED <<round, up>>
  BY SameLedger DEF ReconcileStep, Shape, LeaderInv, ledgerVars
<1>3. ASSUME NEW j \in Keys, task'[j] # NoTask
      PROVE  task[j] # NoTask
  <2>1. CASE Acquire(k) \/ TaskStep(k) \/ Execute(k) \/ Reject(k)
    BY <1>3, <2>1, CallStepLocal, NoTaskTyped DEF Shape
  <2>2. CASE ResolveLate(k) \/ Expire(k)
    BY <1>3, <2>2 DEF ResolveLate, Expire
  <2>3. QED
    BY <2>1, <2>2 DEF ReconcileStep
<1>4. RoundInv'
  BY <1>2, <1>3 DEF Shape, RoundInv
<1>5. QED
  BY <1>1, <1>2, <1>4 DEF Shape

LEMMA InitShape == SystemInit => Shape
<1>. SUFFICES ASSUME SystemInit PROVE Shape
  OBVIOUS
<1>1. IInv({})
  <2>1. /\ NoTask \in Tasks /\ NoCooldown \in Cooldowns /\ <<>> \in Seq(Orders)
        /\ MaxFaults \in 0..MaxFaults /\ Positions \subseteq Int
    BY NoTaskTyped, ReconcilerAssumption DEF NoCooldown, Cooldowns
  <2>2. Typed
    BY <2>1 DEF SystemInit, Init, Typed
  <2>3. ASSUME NEW k \in Keys PROVE KeyInv({}, k)
    <3>1. /\ task[k] = NoTask /\ pos[k] \in Int /\ traded[k] = FALSE
          /\ late[k] = <<>> /\ cool[k] = NoCooldown
      BY <2>2 DEF SystemInit, Init, Typed
    <3>2. TaskInv({}, task[k], pos[k], traded[k])
      BY <3>1, NoTaskTyped, RestInv
    <3>3. QED
      BY <3>1, <3>2 DEF KeyInv, LateInv, CoolInv
  <2>4. QED
    BY <2>2, <2>3 DEF IInv
<1>2. LedgerInv
  BY BlankIsSound DEF SystemInit, LedgerInv
<1>3. LeaderInv
  BY PerpMirrorAssumption DEF SystemInit, LeaderInv
<1>4. RoundInv
  BY RestTyped DEF SystemInit, Init, RoundInv, NoTasks
<1>5. QED
  BY <1>1, <1>2, <1>3, <1>4 DEF Shape

LEMMA UnchangedShape == ASSUME Shape, UNCHANGED allVars PROVE Shape'
<1>1. UNCHANGED vars
  BY DEF allVars
<1>2. IInv({})'
  BY <1>1, UnchangedCalls DEF Shape
<1>3. QED
  BY <1>2 DEF Shape, allVars, appVars, vars, ledgerVars, LedgerInv, LeaderInv, RoundInv

LEMMA NextShape == Shape /\ [SystemNext]_allVars => Shape'
<1>. SUFFICES ASSUME Shape, [SystemNext]_allVars PROVE Shape'
  OBVIOUS
<1>1. CASE RoundStep
  <2>1. CASE Boot \/ StartUp \/ StartUpDies
    BY <2>1, BootShape, StartUpShape, StartUpDiesShape
  <2>2. CASE StartRound \/ ReadLeaderFails \/ EndRound \/ \E f \in Followers : SkipFollower(f)
    BY <2>2, SimpleRoundShape
  <2>3. CASE ReadLeader \/ Protect \/ Gather
    BY <2>3, ReadLeaderShape, ProtectShape, GatherShape
  <2>4. CASE \E f \in Followers : ReadFollower(f)
    BY <2>4, ReadFollowerShape
  <2>5. CASE \E s \in Symbols : PlanSymbol(s) \/ Collect(s)
    BY <2>5, PlanSymbolShape, CollectShape
  <2>6. QED
    BY <1>1, <2>1, <2>2, <2>3, <2>4, <2>5 DEF RoundStep
<1>2. QED
  BY <1>1, CallStepShape, CrashShape, OtherShape, UnchangedShape DEF SystemNext

(* The state space of the composed system, whatever fails.                 *)
THEOREM SystemShape == SystemSpec => []Shape
BY InitShape, NextShape, PTL DEF SystemSpec

(* The calls, the ledger, the file and the round stay within their states, *)
(* in both modes, whatever fails, dies or trades in between.               *)
THEOREM SystemTypeCorrect == SystemSpec => []SystemTypeOK
<1>1. Shape => SystemTypeOK
  <2>. SUFFICES ASSUME Shape PROVE SystemTypeOK
    OBVIOUS
  <2>1. TypeOK
    BY TypesFollow DEF Shape
  <2>2. Own!TypeOK
    BY FileFacts DEF Shape, LedgerInv, Own!TypeOK, Sound
  <2>3. QED
    BY <2>1, <2>2, IdleTasks DEF SystemTypeOK, Shape, LedgerInv, LeaderInv, RoundInv, Rounds
<1>2. QED
  BY <1>1, SystemShape, PTL

(* What a step of a call leaves alone.                                     *)
LEMMA StepLocal ==
    ASSUME Shape, NEW k \in Keys, ReconcileStep(k)
    PROVE  /\ \A j \in Keys : j # k => /\ task'[j] = task[j] /\ pos'[j] = pos[j]
                                       /\ late'[j] = late[j] /\ traded'[j] = traded[j]
           /\ \/ /\ task[k].pc # "idle" /\ task'[k].pc # "idle"
                 /\ task'[k].target = task[k].target
              \/ UNCHANGED <<task, traded>> /\ late[k] # <<>>
              \/ UNCHANGED <<task, traded, pos, late>>
           /\ UNCHANGED <<ledgerVars, leader, round, moves, baseline>>
<1>1. CASE Acquire(k) \/ TaskStep(k) \/ Execute(k) \/ Reject(k)
  BY <1>1, CallStepLocal DEF Shape, ReconcileStep
<1>2. CASE ResolveLate(k)
  <2>0. PICK i \in DOMAIN late[k] :
            /\ \E seq : late' = [late EXCEPT ![k] = seq]
            /\ \E p : pos' = [pos EXCEPT ![k] = p]
            /\ UNCHANGED <<task, traded>>
    BY <1>2 DEF ResolveLate
  <2>1. late[k] # <<>>
    BY <2>0
  <2>2. pos \in [Keys -> Int] /\ late \in [Keys -> Seq(Orders)]
    BY DEF Shape, IInv, Typed
  <2>3. QED
    BY <2>0, <2>1, <2>2 DEF ReconcileStep
<1>3. CASE Expire(k)
  BY <1>3 DEF Expire, ReconcileStep
<1>4. QED
  BY <1>1, <1>2, <1>3 DEF ReconcileStep

LEMMA CollectLocal ==
    ASSUME Shape, NEW s \in Symbols, Collect(s), NEW j \in Keys
    PROVE  task'[j] = task[j] \/ task'[j] = NoTask
<1>1. PICK k \in Keys : task' = [task EXCEPT ![k] = NoTask] \/ task' = NoTasks
  BY CollectCases DEF SaveFails
<1>2. task \in [Keys -> Tasks]
  BY DEF Shape, IInv, Typed
<1>3. QED
  BY <1>1, <1>2 DEF NoTasks

-----------------------------------------------------------------------------
(* Every executed order is published.                                      *)

(* While a trade has not been published, its call goes on.                 *)
NotifyInv == \A k \in Keys : traded[k] => task[k].pc # "idle"

LEMMA NextNotify ==
    ASSUME ~DiskMayFail, Shape, NotifyInv, [SystemNext]_allVars
    PROVE  NotifyInv'
<1>0. \A l : ~SaveFails(l)
  BY DEF SaveFails, Own!WriteFails
<1>1. CASE UNCHANGED <<task, traded>>
  BY <1>1 DEF NotifyInv
<1>2. CASE Crash
  <2>1. traded' = [k \in Keys |-> FALSE]
    BY <1>2 DEF Crash
  <2>2. QED
    BY <2>1 DEF NotifyInv
<1>3. CASE Gather
  <2>1. ASSUME NEW k \in Keys PROVE ~traded[k]
    BY <1>3, GatherCalls, NoTaskTyped DEF NotifyInv, NoTasks
  <2>2. ASSUME NEW k \in Keys PROVE ~traded'[k]
    BY <1>3, <2>1, GatherCalls
  <2>3. QED
    BY <2>2 DEF NotifyInv
<1>4. CASE \E s \in Symbols : Collect(s)
  <2>1. PICK s \in Symbols : Collect(s)
    BY <1>4
  <2>. DEFINE k == <<round.at, s>>
  <2>2. /\ k \in Keys /\ task[k].pc = "done"
        /\ task' = [task EXCEPT ![k] = NoTask]
        /\ traded' = [traded EXCEPT ![k] = @ /\ ~ShouldNotify(task[k].result)]
    BY <1>0, <2>1, CollectCases
  <2>3. /\ task \in [Keys -> Tasks] /\ traded \in [Keys -> BOOLEAN]
        /\ Remembers(task[k], traded[k])
    BY <2>2, StepFacts DEF Shape, IInv, Typed, TaskInv
  <2>4. traded[k] => ShouldNotify(task[k].result)
    BY <2>2, <2>3 DEF Remembers
  <2>5. ~traded'[k]
    <3>1. traded'[k] = (traded[k] /\ ~ShouldNotify(task[k].result))
      BY <2>2, <2>3
    <3>2. QED
      BY <2>4, <3>1
  <2>. HIDE DEF k
  <2>6. \A j \in Keys : j # k => task'[j] = task[j] /\ traded'[j] = traded[j]
    BY <2>2, <2>3
  <2>7. QED
    BY <2>5, <2>6 DEF NotifyInv
<1>5. CASE \E k \in Keys : ReconcileStep(k)
  <2>1. PICK k \in Keys : ReconcileStep(k)
    BY <1>5
  <2>2. \A j \in Keys : (task'[j] = task[j] /\ traded'[j] = traded[j]) \/ task'[j].pc # "idle"
    BY <2>1, StepLocal
  <2>3. QED
    BY <2>2 DEF NotifyInv
<1>6. CASE \/ Boot \/ StartUp \/ StartUpDies \/ StartRound \/ ReadLeader \/ ReadLeaderFails
           \/ \E f \in Followers : ReadFollower(f) \/ SkipFollower(f)
           \/ EndRound \/ Protect \/ \E s \in Symbols : PlanSymbol(s)
  <2>1. UNCHANGED <<task, traded>>
    BY <1>0, <1>6 DEF Boot, StartUp, StartUpDies, StartRound, ReadLeader, ReadLeaderFails,
          ReadFollower, SkipFollower, EndRound, Protect, PlanSymbol, vars
  <2>2. QED
    BY <1>1, <2>1
<1>7. CASE (\E s \in Symbols : LeaderTrade(s)) \/ (\E k \in Keys : FollowerUserTrades(k))
  <2>1. UNCHANGED <<task, traded>>
    BY <1>7 DEF LeaderTrade, FollowerUserTrades, UserTrade, vars
  <2>2. QED
    BY <1>1, <2>1
<1>8. CASE UNCHANGED allVars
  BY <1>1, <1>8 DEF allVars, vars
<1>9. QED
  BY <1>2, <1>3, <1>4, <1>5, <1>6, <1>7, <1>8 DEF SystemNext, RoundStep

(* As long as the state file can be written and the process lives, no      *)
(* failure, lost answer or later error of the call keeps the round from    *)
(* publishing an order that executed.                                      *)
THEOREM EveryTradeIsNotified ==
    ASSUME ~DiskMayFail
    PROVE  SystemSpec => []EveryTradeNotified
<1>1. SystemInit => NotifyInv
  BY DEF SystemInit, Init, NotifyInv
<1>2. Shape /\ NotifyInv /\ [SystemNext]_allVars => NotifyInv'
  BY NextNotify
<1>3. Shape /\ NotifyInv => EveryTradeNotified
  BY IdleTasks, NoTaskTyped DEF NotifyInv, EveryTradeNotified, NoTasks
<1>4. QED
  BY <1>1, <1>2, <1>3, SystemShape, PTL DEF SystemSpec

-----------------------------------------------------------------------------
(* What was held and led at the first start is left alone.                 *)

(* Key k is no part of the baseline b.                                     *)
Free(b, k) == k \notin b.keys /\ k[2] \notin b.symbols

(* The ledger l keeps the program's hands off the baseline b.              *)
Guards(b, l) ==
    /\ \A k \in b.keys : k[2] \in l.protected[k[1]]
    /\ \A s \in b.symbols : s \in l.blocked /\ \A f \in Followers : s \notin l.managed[f]

Nothing == [keys |-> {}, symbols |-> {}]

(* There is a baseline once there is a file, and the file guards it; what  *)
(* is planned, called or still live is free of it.                         *)
StartupInv ==
    /\ baseline \in [keys : SUBSET Keys, symbols : SUBSET Symbols]
    /\ ~preserve \/ disk = NoFile => baseline = Nothing
    /\ preserve /\ disk = NoFile => ~up /\ \A k \in Keys : late[k] = <<>>
    /\ baseline.symbols \subseteq Held(leader)
    /\ up => Guards(baseline, mem)
    /\ disk # NoFile => Guards(baseline, disk.ledger)
    /\ \A k \in Keys : task[k].pc # "idle" \/ late[k] # <<>> => Free(baseline, k)
    /\ \A s \in round.plan : Free(baseline, <<round.at, s>>)

LEMMA NothingGuarded ==
    /\ \A l : Guards(Nothing, l)
    /\ \A k : Free(Nothing, k)
    /\ Nothing \in [keys : SUBSET Keys, symbols : SUBSET Symbols]
    /\ Nothing.symbols = {}
BY DEF Nothing, Guards, Free

(* No method lets go of what is guarded.                                   *)
LEMMA MethodsGuard ==
    ASSUME NEW b \in [keys : SUBSET Keys, symbols : SUBSET Symbols], NEW l, Sound(l), Guards(b, l),
           NEW f \in Followers
    PROVE  /\ \A current \in SUBSET Symbols : b.symbols \subseteq current =>
                  Guards(b, Own!ObserveLeader(l, current))
           /\ \A current, lead \in SUBSET Symbols :
                  Guards(b, Own!ObserveFollower(l, f, current, lead))
           /\ \A current \in SUBSET Symbols : Guards(b, Own!ProtectUnmanaged(l, f, current))
           /\ \A s \in Symbols : /\ Guards(b, Own!MarkObserved(l, f, s))
                                 /\ Guards(b, Own!Release(l, f, s))
                                 /\ ~Own!ClaimRefused(l, f, s) => Guards(b, Own!Claim(l, f, s))
<1>0. l \in Own!Ledgers
  BY DEF Sound
<1>1. \A k \in b.keys : k[1] \in Followers /\ k[2] \in Symbols
  BY DEF Keys
<1>2. ASSUME NEW current \in SUBSET Symbols, b.symbols \subseteq current
      PROVE  Guards(b, Own!ObserveLeader(l, current))
  BY <1>0, <1>2 DEF Guards, Own!ObserveLeader, Own!Ledgers, Own!SymbolSets
<1>3. ASSUME NEW current \in SUBSET Symbols, NEW lead \in SUBSET Symbols
      PROVE  Guards(b, Own!ObserveFollower(l, f, current, lead))
  BY <1>0 DEF Guards, Own!ObserveFollower, Own!Disappeared, Own!Ledgers, Own!SymbolSets
<1>4. ASSUME NEW current \in SUBSET Symbols
      PROVE  Guards(b, Own!ProtectUnmanaged(l, f, current))
  BY <1>0, <1>1 DEF Guards, Own!ProtectUnmanaged, Own!Ledgers, Own!SymbolSets
<1>5. ASSUME NEW s \in Symbols
      PROVE  Guards(b, Own!MarkObserved(l, f, s))
  BY <1>0 DEF Guards, Own!MarkObserved, Own!Ledgers, Own!SymbolSets
<1>6. ASSUME NEW s \in Symbols
      PROVE  Guards(b, Own!Release(l, f, s))
  BY <1>0 DEF Guards, Own!Release, Own!Ledgers, Own!SymbolSets
<1>7. ASSUME NEW s \in Symbols, ~Own!ClaimRefused(l, f, s)
      PROVE  Guards(b, Own!Claim(l, f, s))
  BY <1>0, <1>7 DEF Guards, Own!Claim, Own!ClaimRefused, Own!Ledgers, Own!SymbolSets
<1>8. QED
  BY <1>2, <1>3, <1>4, <1>5, <1>6, <1>7

(* While there are no followers nothing is protected either.               *)
LEMMA ObserveLeaderGuards ==
    ASSUME NEW b \in [keys : SUBSET Keys, symbols : SUBSET Symbols], NEW l, Sound(l), Guards(b, l),
           NEW current \in SUBSET Symbols, b.symbols \subseteq current
    PROVE  Guards(b, Own!ObserveLeader(l, current))
BY DEF Sound, Guards, Own!ObserveLeader, Own!Ledgers, Own!SymbolSets

LEMMA ProtectAllGuards ==
    ASSUME NEW b \in [keys : SUBSET Keys, symbols : SUBSET Symbols], NEW l, Sound(l), Guards(b, l),
           NEW current \in Own!SymbolSets
    PROVE  Guards(b, Own!ProtectAll(l, current))
<1>1. \A k \in b.keys : k[1] \in Followers
  BY DEF Keys
<1>2. QED
  BY <1>1 DEF Sound, Guards, Own!ProtectAll, Own!Ledgers, Own!SymbolSets

(* The steps of a running process keep the baseline.                       *)
LEMMA StartupMoves ==
    ASSUME Shape, StartupInv, UNCHANGED <<baseline, leader, preserve>>,
           up' => up /\ Guards(baseline, mem'),
           disk' = NoFile => disk = NoFile,
           disk' # NoFile => Guards(baseline, disk'.ledger),
           \A k \in Keys : late'[k] # <<>> => late[k] # <<>> \/ task[k].pc # "idle",
           \A k \in Keys : task'[k].pc # "idle" \/ late'[k] # <<>> => Free(baseline, k),
           \A s \in round'.plan : Free(baseline, <<round'.at, s>>)
    PROVE  StartupInv'
<1>1. preserve /\ disk' = NoFile => ~up' /\ \A k \in Keys : late'[k] = <<>>
  <2>1. SUFFICES ASSUME preserve, disk' = NoFile PROVE ~up' /\ \A k \in Keys : late'[k] = <<>>
    OBVIOUS
  <2>2. ~up /\ \A k \in Keys : late[k] = <<>>
    BY <2>1 DEF StartupInv
  <2>3. \A k \in Keys : task[k].pc = "idle"
    BY <2>2, NoTaskTyped DEF Shape, RoundInv
  <2>4. QED
    BY <2>2, <2>3
<1>2. QED
  BY <1>1 DEF StartupInv

(* The same, for a step that uses one method of the ledger.                *)
LEMMA MethodStartup ==
    ASSUME Shape, StartupInv, UNCHANGED <<baseline, leader, late>>, NEW l, Sound(l),
           preserve => Guards(baseline, l), Saved(l) \/ SaveFails(l),
           \A k \in Keys : task'[k] = task[k] \/ task'[k] = NoTask,
           \A s \in round'.plan : Free(baseline, <<round'.at, s>>)
    PROVE  StartupInv'
<1>1. preserve' = preserve /\ up' = up
  BY SavedLedger, FailedLedger DEF Shape
<1>2. /\ mem' = mem \/ (preserve /\ mem' = l)
      /\ disk' = disk \/ (preserve /\ disk' = Own!File(l))
  BY DEF Saved, SaveFails, Own!Written, Own!WriteFails, ledgerVars
<1>3. up' => up /\ Guards(baseline, mem')
  BY <1>1, <1>2 DEF StartupInv
<1>4. disk' = NoFile => disk = NoFile
  BY <1>2, FileFacts
<1>5. disk' # NoFile => Guards(baseline, disk'.ledger)
  BY <1>2, FileFacts DEF StartupInv
<1>6. \A k \in Keys : task'[k].pc # "idle" \/ late'[k] # <<>> => Free(baseline, k)
  BY NoTaskTyped DEF StartupInv
<1>7. QED
  BY <1>1, <1>3, <1>4, <1>5, <1>6, StartupMoves

LEMMA StartUpStartup == ASSUME Shape, StartupInv, StartUp \/ StartUpDies PROVE StartupInv'
<1>. DEFINE p == [f \in Followers |-> HeldBy(f)]
            o == Own!Opened(Held(round.lead), p)
            l(q) == Own!ProtectAll(o, q)
            part(done) == [f \in Followers |-> IF f \in done THEN p[f] ELSE {}]
            first == [keys |-> {k \in Keys : pos[k] # 0},
                      symbols |-> Held(round.lead) \cap Held(leader)]
<1>0. /\ task' = NoTasks /\ task = NoTasks /\ UNCHANGED <<preserve, leader, late>>
      /\ round.pc = "boot" /\ ~up
  BY IdleTasks DEF StartUp, StartUpDies, vars, Shape, RoundInv
<1>1. Sound(o) /\ p \in Own!SymbolSets /\ \A done \in SUBSET Followers : part(done) \in Own!SymbolSets
  BY HeldTyped, OpenedSound, UncoveredTyped DEF Shape
<1>2. \/ /\ ~preserve /\ UNCHANGED <<mem, disk, baseline>>
      \/ /\ preserve
         /\ \E q \in {p} \cup {part(done) : done \in SUBSET Followers} :
               /\ disk' = Own!File(l(q)) \/ (disk # NoFile /\ disk' = disk)
               /\ up' => mem' = l(q)
         /\ baseline' = IF disk = NoFile THEN first ELSE baseline
  <2>1. CASE StartUp
    <3>1. CASE preserve
      <4>1. Own!Initialize(Held(round.lead), p) /\ FirstStart
        BY <2>1, <3>1 DEF StartUp
      <4>2. /\ mem' = l(p)
            /\ disk' = IF disk = NoFile \/ disk.version = 1 \/ mem' # disk.ledger
                       THEN Own!File(l(p)) ELSE disk
        BY <4>1 DEF Own!Initialize
      <4>3. baseline' = IF disk = NoFile THEN first ELSE baseline
        BY <3>1, <4>1 DEF FirstStart
      <4>. HIDE DEF p, o, l, first, part
      <4>4. QED
        BY <3>1, <4>2, <4>3
    <3>2. CASE ~preserve
      BY <2>1, <3>2 DEF StartUp, FirstStart
    <3>3. QED
      BY <3>1, <3>2
  <2>2. CASE StartUpDies
    <3>1. PICK done \in SUBSET Followers : Own!InitializeInterrupted(Held(round.lead), p, done)
      BY <2>2 DEF StartUpDies
    <3>2. preserve /\ FirstStart /\ ~up
      BY <1>0, <2>2 DEF StartUpDies
    <3>3. disk' = Own!File(l(part(done))) /\ up' = up
      BY <3>1 DEF Own!InitializeInterrupted
    <3>4. baseline' = IF disk = NoFile THEN first ELSE baseline
      BY <3>2 DEF FirstStart
    <3>. HIDE DEF p, o, l, first, part
    <3>5. QED
      BY <1>0, <3>2, <3>3, <3>4
  <2>3. QED
    BY <2>1, <2>2
<1>3. \A k \in Keys : task[k].pc = "idle" /\ task'[k].pc = "idle"
  BY <1>0, NoTaskTyped DEF NoTasks
<1>4. round'.plan = {}
  BY RestTyped DEF StartUp, StartUpDies
<1>5. CASE ~preserve
  BY <1>0, <1>2, <1>3, <1>4, <1>5, NothingGuarded DEF StartupInv
<1>6. CASE preserve
  <2>0. PICK q \in Own!SymbolSets :
               /\ disk' = Own!File(l(q)) \/ (disk # NoFile /\ disk' = disk)
               /\ up' => mem' = l(q)
               /\ baseline' = IF disk = NoFile THEN first ELSE baseline
    BY <1>1, <1>2, <1>6
  <2>1. Sound(l(q))
    BY <1>1, ProtectAllKeepsSound
  <2>2. /\ first \in [keys : SUBSET Keys, symbols : SUBSET Symbols]
        /\ first.symbols \subseteq Held(leader)
    BY DEF Held
  <2>3. baseline' \in [keys : SUBSET Keys, symbols : SUBSET Symbols]
    BY <2>0, <2>2 DEF StartupInv
  <2>4. Guards(baseline', o)
    <3>1. CASE disk # NoFile
      BY <2>0, <3>1, FileFacts DEF Own!Opened, StartupInv, Shape, LedgerInv
    <3>2. CASE disk = NoFile
      <4>1. o = Own!FirstLedger(Held(round.lead), p)
        BY <3>2 DEF Own!Opened
      <4>2. \A k \in first.keys : k[2] \in p[k[1]]
        BY DEF Keys, HeldBy, Held, Account
      <4>3. Guards(first, o)
        BY <4>1, <4>2 DEF Guards, Own!FirstLedger, Own!NoSymbols
      <4>4. QED
        BY <2>0, <3>2, <4>3
    <3>3. QED
      BY <3>1, <3>2
  <2>5. Guards(baseline', l(q))
    BY <1>1, <2>3, <2>4, ProtectAllGuards
  <2>6. /\ disk' # NoFile
        /\ Guards(baseline', disk'.ledger)
    <3>1. CASE disk' = Own!File(l(q))
      BY <2>1, <2>5, <3>1, FileFacts
    <3>2. CASE disk # NoFile /\ disk' = disk
      BY <2>0, <3>2 DEF StartupInv
    <3>3. QED
      BY <2>0, <3>1, <3>2
  <2>7. baseline'.symbols \subseteq Held(leader)
    BY <2>0, <2>2 DEF StartupInv
  <2>8. \A k \in Keys : late'[k] # <<>> => Free(baseline', k)
    BY <1>0, <1>6, <2>0 DEF StartupInv
  <2>. HIDE DEF p, o, l, first, part
  <2>9. QED
    BY <1>0, <1>3, <1>4, <1>6, <2>0, <2>3, <2>5, <2>6, <2>7, <2>8 DEF StartupInv
<1>7. QED
  BY <1>5, <1>6, Modes DEF Shape, LedgerInv

LEMMA RoundStartup ==
    ASSUME Shape, StartupInv,
           \/ Boot \/ StartRound \/ ReadLeader \/ ReadLeaderFails \/ EndRound \/ Protect
           \/ \E f \in Followers : ReadFollower(f) \/ SkipFollower(f)
    PROVE  StartupInv'
<1>0. Sound(mem) /\ round \in Rounds
  BY DEF Shape, LedgerInv, RoundInv
<1>1. CASE Boot \/ StartRound \/ ReadLeaderFails \/ EndRound \/ \E f \in Followers : SkipFollower(f)
  <2>1. UNCHANGED <<baseline, leader, ledgerVars, task, late>>
    BY <1>1 DEF Boot, StartRound, ReadLeaderFails, EndRound, SkipFollower, vars, history
  <2>2. round'.plan \subseteq round.plan /\ (round'.plan # {} => round'.at = round.at)
    BY <1>0, <1>1, RestTyped
    DEF Boot, StartRound, ReadLeaderFails, EndRound, SkipFollower, Rounds, Resting, NoRound
  <2>3. QED
    BY <2>1, <2>2, StartupMoves DEF StartupInv, ledgerVars
<1>2. CASE ReadLeader
  <2>. DEFINE l == Own!ObserveLeader(mem, Held(leader))
  <2>1. /\ round.pc = "leader" /\ UNCHANGED <<late, leader, history>>
        /\ \/ /\ Saved(l) /\ UNCHANGED task
              /\ \E e : round' = [round EXCEPT !.pc = "follower", !.lead = leader,
                                               !.leadEquity = e, !.todo = Followers]
           \/ SaveFails(l)
    BY <1>2 DEF ReadLeader
  <2>2. Sound(l)
    BY <1>0, HeldTyped, ObserveLeaderIsSound
  <2>3. up
    BY <2>1 DEF Shape, RoundInv
  <2>4. Guards(baseline, l)
    BY <1>0, <2>3, HeldTyped, ObserveLeaderGuards DEF StartupInv
  <2>. HIDE DEF l
  <2>5. round'.plan = {} /\ UNCHANGED baseline
    BY <1>0, <2>1, RestTyped DEF Shape, RoundInv, Rounds, SaveFails, history
  <2>6. \A k \in Keys : task'[k] = task[k] \/ task'[k] = NoTask
    BY <2>1 DEF SaveFails, NoTasks
  <2>7. QED
    BY <2>1, <2>2, <2>4, <2>5, <2>6, MethodStartup
<1>3. CASE \E f \in Followers : ReadFollower(f)
  <2>0. PICK f \in Followers : ReadFollower(f)
    BY <1>3
  <2>. DEFINE l == Own!ObserveFollower(mem, f, HeldBy(f), Held(round.lead))
  <2>1. /\ round.pc = "follower" /\ UNCHANGED <<late, leader, history>>
        /\ \/ /\ Saved(l) /\ UNCHANGED task
              /\ \E e : round' = [round EXCEPT !.pc = "protect", !.at = f, !.snap = HeldBy(f),
                                               !.equity = e, !.todo = @ \ {f}]
           \/ SaveFails(l)
    BY <2>0 DEF ReadFollower
  <2>2. Sound(l)
    BY <1>0, HeldTyped, SoundMethods
  <2>3. up
    BY <2>1 DEF Shape, RoundInv
  <2>4. Guards(baseline, l)
    BY <1>0, <2>3, HeldTyped, MethodsGuard DEF StartupInv
  <2>. HIDE DEF l
  <2>5. round'.plan = {} /\ UNCHANGED baseline
    BY <1>0, <2>1, RestTyped DEF Shape, RoundInv, Rounds, SaveFails, history
  <2>6. \A k \in Keys : task'[k] = task[k] \/ task'[k] = NoTask
    BY <2>1 DEF SaveFails, NoTasks
  <2>7. QED
    BY <2>1, <2>2, <2>4, <2>5, <2>6, MethodStartup
<1>4. CASE Protect
  <2>. DEFINE l == Own!ProtectUnmanaged(mem, round.at, round.snap)
  <2>1. /\ round.pc = "protect" /\ UNCHANGED <<late, leader, history>>
        /\ \/ /\ Saved(l) /\ UNCHANGED task
              /\ round' = [round EXCEPT !.pc = "plan", !.left = RoundSymbols(l)]
           \/ SaveFails(l)
    BY <1>4 DEF Protect
  <2>2. round.at \in Followers /\ round.snap \in SUBSET Symbols /\ up
    BY <2>1 DEF Shape, RoundInv, Rounds
  <2>3. Sound(l) /\ Guards(baseline, l)
    BY <1>0, <2>2, SoundMethods, MethodsGuard DEF StartupInv
  <2>. HIDE DEF l
  <2>5. round'.plan = {} /\ UNCHANGED baseline
    BY <1>0, <2>1, RestTyped DEF Shape, RoundInv, Rounds, SaveFails, history
  <2>6. \A k \in Keys : task'[k] = task[k] \/ task'[k] = NoTask
    BY <2>1 DEF SaveFails, NoTasks
  <2>7. QED
    BY <2>1, <2>3, <2>5, <2>6, MethodStartup
<1>5. QED
  BY <1>1, <1>2, <1>3, <1>4

(* What is managed, or may be claimed, is free of the baseline.            *)
LEMMA PlanStartup == ASSUME Shape, StartupInv, NEW s \in Symbols, PlanSymbol(s) PROVE StartupInv'
<1>. DEFINE l == PlanLedger(s)
<1>1. /\ round.pc = "plan" /\ round.at \in Followers /\ round \in Rounds /\ up /\ Sound(mem)
      /\ UNCHANGED <<late, leader, baseline>>
  BY PlanCases DEF Shape, RoundInv, LedgerInv, history
<1>2. \A k \in Keys : task'[k] = task[k] \/ task'[k] = NoTask
  BY PlanCases DEF SaveFails, NoTasks
<1>3. CASE round' = [round EXCEPT !.left = @ \ {s}] /\ UNCHANGED <<task, ledgerVars>>
  <2>1. round'.plan = round.plan /\ round'.at = round.at
    BY <1>1, <1>3 DEF Rounds
  <2>2. QED
    BY <1>1, <1>3, <2>1, StartupMoves DEF StartupInv, ledgerVars
<1>4. CASE /\ Sound(l)
           /\ \/ ~preserve \/ s \in mem.managed[round.at]
              \/ ~Own!ClaimRefused(mem, round.at, s)
           /\ \/ /\ Saved(l)
                 /\ \/ round' = [round EXCEPT !.left = @ \ {s}]
                    \/ round' = [round EXCEPT !.left = @ \ {s}, !.plan = @ \cup {s}]
              \/ SaveFails(l)
  <2>1. Guards(baseline, mem)
    BY <1>1 DEF StartupInv
  <2>2. Guards(baseline, l)
    BY <1>1, <1>4, <2>1, MethodsGuard DEF PlanLedger, StartupInv
  <2>3. Free(baseline, <<round.at, s>>)
    <3>1. CASE ~preserve
      BY <3>1, NothingGuarded DEF StartupInv
    <3>2. CASE s \in mem.managed[round.at]
      <4>1. s \notin mem.protected[round.at]
        BY <1>1, <3>2 DEF Sound, Own!LoadAccepts
      <4>2. QED
        BY <1>1, <2>1, <3>2, <4>1 DEF Guards, Free
    <3>3. CASE ~Own!ClaimRefused(mem, round.at, s)
      BY <2>1, <3>3 DEF Guards, Free, Own!ClaimRefused
    <3>4. QED
      BY <1>4, <3>1, <3>2, <3>3
  <2>4. \/ round'.plan = {}
        \/ round'.at = round.at /\ round'.plan \subseteq round.plan \cup {s}
    BY <1>1, <1>4, RestTyped DEF SaveFails, Rounds
  <2>5. \A q \in round'.plan : Free(baseline, <<round'.at, q>>)
    BY <2>3, <2>4 DEF StartupInv
  <2>. HIDE DEF l
  <2>6. QED
    BY <1>1, <1>2, <1>4, <2>2, <2>5, MethodStartup
<1>5. QED
  BY <1>3, <1>4, PlanCases

LEMMA CollectStartup == ASSUME Shape, StartupInv, NEW s \in Symbols, Collect(s) PROVE StartupInv'
<1>. DEFINE l == AfterResult(s, task[<<round.at, s>>].result)
<1>1. /\ round.pc = "wait" /\ round.at \in Followers /\ round \in Rounds /\ up /\ Sound(mem)
      /\ UNCHANGED <<late, leader, baseline>> /\ Sound(l)
      /\ \/ /\ Saved(l)
            /\ round' = [round EXCEPT !.plan = @ \ {s},
                             !.pc = IF round.plan = {s} THEN "follower" ELSE "wait"]
         \/ SaveFails(l)
  BY CollectCases DEF Shape, RoundInv, LedgerInv, history
<1>2. Guards(baseline, l)
  BY <1>1, MethodsGuard DEF AfterResult, StartupInv
<1>3. round'.plan = {} \/ (round'.at = round.at /\ round'.plan \subseteq round.plan)
  <2>1. CASE SaveFails(l)
    BY <2>1, RestTyped DEF SaveFails
  <2>2. CASE round' = [round EXCEPT !.plan = @ \ {s},
                             !.pc = IF round.plan = {s} THEN "follower" ELSE "wait"]
    <3>. DEFINE x == IF round.plan = {s} THEN "follower" ELSE "wait"
    <3>. HIDE DEF x
    <3>1. round' = [round EXCEPT !.plan = round.plan \ {s}, !.pc = x]
      BY <2>2 DEF x
    <3>2. QED
      BY <1>1, <3>1 DEF Rounds
  <2>3. QED
    BY <1>1, <2>1, <2>2
<1>4. \A k \in Keys : task'[k] = task[k] \/ task'[k] = NoTask
  BY CollectLocal
<1>. HIDE DEF l
<1>5. QED
  BY <1>1, <1>2, <1>3, <1>4, MethodStartup DEF StartupInv

LEMMA OthersStartup ==
    ASSUME Shape, StartupInv,
           \/ Crash \/ Gather \/ UNCHANGED allVars
           \/ \E s \in Symbols : LeaderTrade(s)
           \/ \E k \in Keys : FollowerUserTrades(k) \/ ReconcileStep(k)
    PROVE  StartupInv'
<1>1. CASE Crash
  <2>1. ASSUME NEW k \in Keys
        PROVE  /\ late'[k] # <<>> => late[k] # <<>> \/ task[k].pc # "idle"
               /\ task'[k].pc = "idle"
    <3>1. task[k].pc = "idle" => ~Live(task[k].order)
      BY IdleHasNoOrder
    <3>2. QED
      BY <1>1, <3>1, NoTaskTyped DEF Crash, NoTasks
  <2>2. UNCHANGED <<baseline, leader, preserve, disk>> /\ ~up' /\ round'.plan = {}
    BY <1>1, RestTyped DEF Crash, history
  <2>3. QED
    BY <2>1, <2>2, StartupMoves DEF StartupInv
<1>2. CASE Gather
  <2>1. UNCHANGED <<baseline, leader, ledgerVars, late>>
    BY <1>2 DEF Gather, history
  <2>2. round'.plan = round.plan /\ round'.at = round.at
    BY <1>2 DEF Gather, Shape, RoundInv, Rounds
  <2>3. ASSUME NEW k \in Keys, task'[k].pc # "idle"
        PROVE  Free(baseline, k)
    <3>1. k[1] = round.at /\ k[2] \in round.plan
      BY <1>2, <2>3, GatherCalls, NoTaskTyped
    <3>2. k = <<round.at, k[2]>>
      BY <3>1 DEF Keys
    <3>3. QED
      BY <3>1, <3>2 DEF StartupInv
  <2>4. QED
    BY <2>1, <2>2, <2>3, StartupMoves DEF StartupInv, ledgerVars
<1>3. CASE \E s \in Symbols : LeaderTrade(s)
  <2>1. PICK s \in Symbols, p \in LeaderPositions :
            /\ leader' = [leader EXCEPT ![s] = p]
            /\ baseline' = [baseline EXCEPT !.symbols = IF p = 0 THEN @ \ {s} ELSE @]
            /\ UNCHANGED <<vars, ledgerVars, round>>
    BY <1>3 DEF LeaderTrade
  <2>2. /\ leader \in [Symbols -> LeaderPositions]
        /\ baseline \in [keys : SUBSET Keys, symbols : SUBSET Symbols]
    BY DEF Shape, LeaderInv, StartupInv
  <2>3. /\ baseline' \in [keys : SUBSET Keys, symbols : SUBSET Symbols]
        /\ baseline'.keys = baseline.keys /\ baseline'.symbols \subseteq baseline.symbols
        /\ p = 0 => s \notin baseline'.symbols
    BY <2>1, <2>2
  <2>4. baseline'.symbols \subseteq Held(leader')
    BY <2>1, <2>2, <2>3 DEF Held, StartupInv
  <2>5. /\ \A l : Guards(baseline, l) => Guards(baseline', l)
        /\ \A k : Free(baseline, k) => Free(baseline', k)
    BY <2>3 DEF Guards, Free
  <2>6. baseline = Nothing => baseline' = Nothing
    BY <2>3 DEF Nothing
  <2>7. QED
    BY <2>1, <2>3, <2>4, <2>5, <2>6 DEF StartupInv, vars, ledgerVars
<1>4. CASE UNCHANGED allVars \/ \E k \in Keys : FollowerUserTrades(k)
  <2>1. UNCHANGED <<baseline, leader, ledgerVars, task, late, round>>
    BY <1>4 DEF FollowerUserTrades, UserTrade, allVars, appVars, vars, history
  <2>2. QED
    BY <2>1, StartupMoves DEF StartupInv, ledgerVars
<1>5. CASE \E k \in Keys : ReconcileStep(k)
  <2>1. PICK k \in Keys : ReconcileStep(k)
    BY <1>5
  <2>2. /\ UNCHANGED <<baseline, leader, ledgerVars, round>>
        /\ \A j \in Keys : task'[j].pc # "idle" \/ late'[j] # <<>> =>
              late[j] # <<>> \/ task[j].pc # "idle"
    BY <2>1, StepLocal
  <2>3. QED
    BY <2>2, StartupMoves DEF StartupInv, ledgerVars
<1>6. QED
  BY <1>1, <1>2, <1>3, <1>4, <1>5

LEMMA NextStartup == Shape /\ StartupInv /\ [SystemNext]_allVars => StartupInv'
BY StartUpStartup, RoundStartup, PlanStartup, CollectStartup, OthersStartup
DEF SystemNext, RoundStep

LEMMA InitStartup == SystemInit => StartupInv
<1>. SUFFICES ASSUME SystemInit PROVE StartupInv
  OBVIOUS
<1>1. /\ task = NoTasks /\ late = [k \in Keys |-> <<>>] /\ baseline = Nothing
      /\ disk = NoFile /\ ~up /\ round.plan = {}
  BY RestTyped DEF SystemInit, Init, NoTasks, Nothing
<1>2. QED
  BY <1>1, NothingGuarded, NoTaskTyped DEF StartupInv, NoTasks

(* An order executes only for a call, or for a call whose process died or  *)
(* did not wait.                                                           *)
LEMMA TradesOfCalls ==
    ASSUME Shape, NEW k \in Keys, Trades(k)
    PROVE  task[k].pc # "idle" \/ late[k] # <<>>
<1>1. CASE Execute(k)
  BY <1>1, OrderInHand DEF Execute, Shape
<1>2. CASE ResolveLate(k)
  <2>1. PICK i \in DOMAIN late[k] : TRUE
    BY <1>2 DEF ResolveLate
  <2>2. QED
    BY <2>1
<1>3. QED
  BY <1>1, <1>2 DEF Trades

(* Positions held, and symbols led, when the program is first started are  *)
(* never traded by it: through every crash at any write, every restart,    *)
(* every failed write and every order that outlives its process.           *)
THEOREM StartupPositionsAreUntouched == SystemSpec => StartupPositionsUntouched
<1>1. Shape /\ StartupInv /\ [SystemNext]_allVars =>
          [\A k \in Keys : Trades(k) =>
              k \notin baseline.keys /\ k[2] \notin baseline.symbols]_allVars
  BY TradesOfCalls DEF StartupInv, Free
<1>2. QED
  BY <1>1, InitStartup, NextStartup, SystemShape, PTL DEF SystemSpec, StartupPositionsUntouched

-----------------------------------------------------------------------------
(* New risk is on the leader's side.                                       *)

(* What has a target has it on the leader's side, or at zero.              *)
LEMMA TargetSide ==
    ASSUME NEW position \in Int, NEW leaderEquity \in Int, NEW equity \in Int,
           ~TargetFails(position, leaderEquity, equity)
    PROVE  /\ Target(position, leaderEquity, equity) > 0 => position > 0
           /\ Target(position, leaderEquity, equity) < 0 => position < 0
<1>1. /\ FixedMargin \in Nat /\ CopyRatio \in Nat /\ LeaderLeverage \in Nat
      /\ FixedLeverage \in Nat /\ MaxLeverage \in Nat
  BY TargetAssumption
<1>2. Leverage(position) \in Nat
  BY <1>1 DEF Leverage
<1>3. ASSUME NEW a \in Nat, NEW b \in Nat PROVE a * b \in Nat
  OBVIOUS
<1>4. ASSUME NEW a \in Nat, NEW b \in Int, b > 0 PROVE a \div b \in Nat
  BY <1>4
<1>5. ASSUME NEW n \in Nat, position # 0
      PROVE  TargetNotional(n, position, leaderEquity, equity) \in Nat
  <2>1. CASE CopyMode = "fixed"
    <3>1. FixedMargin * Leverage(position) \in Nat
      BY <1>1, <1>2, <1>3
    <3>2. QED
      BY <2>1, <3>1 DEF TargetNotional
  <2>2. CASE CopyMode # "fixed"
    <3>1. CopyMode = "ratio"
      BY <2>2, TargetAssumption
    <3>2. leaderEquity > 0 /\ equity \in Nat
      BY <1>5, <3>1 DEF TargetFails
    <3>3. equity * n * CopyRatio \in Nat
      BY <1>1, <1>3, <3>2
    <3>4. (equity * n * CopyRatio) \div leaderEquity \in Nat
      BY <1>4, <3>2, <3>3
    <3>5. QED
      BY <2>2, <3>4 DEF TargetNotional
  <2>3. QED
    BY <2>1, <2>2
<1>6. CASE position > 0
  <2>1. Target(position, leaderEquity, equity) \in Nat
    BY <1>5, <1>6 DEF Target
  <2>2. QED
    BY <1>6, <2>1
<1>7. CASE position < 0
  <2>1. PICK n \in Nat : Target(position, leaderEquity, equity) = -n
    BY <1>5, <1>7 DEF Target
  <2>2. QED
    BY <1>7, <2>1
<1>8. CASE position = 0
  BY <1>8 DEF Target
<1>9. QED
  BY <1>6, <1>7, <1>8

(* An order that enlarges a position does so on the side of its target,    *)
(* wherever a user has moved the position meanwhile.                       *)
LEMMA GrowthSide ==
    ASSUME NEW t \in Tasks, NEW order \in Orders, order.delta = OrderFor(t).delta,
           order.reduce = OrderFor(t).reduce, Acting(t),
           NEW p \in Int, NEW x \in Outcomes(order, p), Abs(x) > Abs(p)
    PROVE  (t.target > 0 /\ x > 0) \/ (t.target < 0 /\ x < 0)
<1>1. t.target \in Int /\ t.actual \in Int /\ x \in Int
  BY OutcomeTyped DEF Tasks
<1>2. ~order.reduce
  <2>1. SUFFICES ASSUME order.reduce PROVE FALSE
    OBVIOUS
  <2>2. Abs(x) <= Abs(p)
    BY <2>1, ReduceOutcome
  <2>3. QED
    BY <1>1, <2>2 DEF Abs
<1>3. ~(t.action = "CLOSE" \/ t.leg = "flip_close") /\ t.action # "REDUCE"
  BY <1>2 DEF OrderFor
<1>4. t.target # 0
  BY <1>1, <1>3 DEF Acting, Classify
<1>5. PICK size \in Nat : order.delta = (IF t.target < 0 THEN -1 ELSE 1) * size
  <2>1. OrderFor(t).delta = (IF t.target < 0 THEN -1 ELSE 1) * IncreaseQuantity(Missing(t))
    BY <1>3 DEF OrderFor
  <2>2. Missing(t) \in Nat
    BY <1>1 DEF Missing, Abs
  <2>3. IncreaseQuantity(Missing(t)) \in Nat
    BY <2>2, QuantityBounds
  <2>4. QED
    BY <2>1, <2>3
<1>6. PICK q \in 1..Executable(order, p) : x = p + (IF order.delta < 0 THEN -q ELSE q)
  BY OutcomeSize
<1>7. Executable(order, p) = Abs(order.delta) /\ order.delta \in Int
  BY <1>2 DEF Executable, Orders
<1>8. q \in Nat /\ q >= 1 /\ q <= Abs(order.delta)
  BY <1>6, <1>7 DEF Abs
<1>9. CASE t.target > 0
  <2>1. order.delta = size
    BY <1>1, <1>5, <1>9
  <2>2. x = p + q
    BY <1>6, <2>1
  <2>3. QED
    BY <1>8, <1>9, <2>2 DEF Abs
<1>10. CASE t.target < 0
  <2>1. order.delta = -size
    BY <1>1, <1>5, <1>10
  <2>2. x = p - q
    BY <1>6, <1>7, <1>8, <2>1 DEF Abs
  <2>3. QED
    BY <1>8, <1>10, <2>2 DEF Abs
<1>11. QED
  BY <1>1, <1>4, <1>9, <1>10

(* While the process runs no order is live but those its calls wait for,   *)
(* when no order outlives its answer.                                      *)
WaitedFor == round.pc # "down" => \A k \in Keys : late[k] = <<>>

LEMMA NextWaitedFor ==
    ASSUME ~OrdersOutliveAnswers, Shape, WaitedFor, [SystemNext]_allVars
    PROVE  WaitedFor'
<1>1. CASE Boot
  BY <1>1 DEF Boot, WaitedFor
<1>2. CASE Crash
  BY <1>2, RestTyped DEF Crash, WaitedFor
<1>3. CASE \E k \in Keys : ReconcileStep(k)
  <2>1. PICK k \in Keys : ReconcileStep(k)
    BY <1>3
  <2>2. UNCHANGED round
    BY <2>1 DEF ReconcileStep
  <2>3. late' = late \/ ResolveLate(k)
    BY <2>1 DEF ReconcileStep, TaskStep, Acquire, ReadInitial, ReadActual, CheckRisk, Submit,
          Answered, Raised, Lost, Verify, VerifyFlat, FlipRisk, FinalRead, FailedRead, ApiFails,
          Execute, Reject, Expire, LetGo, StaysLive
  <2>4. ResolveLate(k) => late[k] # <<>>
    <3>1. SUFFICES ASSUME ResolveLate(k) PROVE late[k] # <<>>
      OBVIOUS
    <3>2. PICK i \in DOMAIN late[k] : TRUE
      BY <3>1 DEF ResolveLate
    <3>3. QED
      BY <3>2
  <2>5. QED
    BY <2>2, <2>3, <2>4 DEF WaitedFor
<1>4. CASE (\E k \in Keys : FollowerUserTrades(k)) \/ (\E s \in Symbols : LeaderTrade(s))
           \/ UNCHANGED allVars
  BY <1>4 DEF FollowerUserTrades, UserTrade, LeaderTrade, WaitedFor, allVars, appVars, vars
<1>5. CASE /\ RoundStep
           /\ ~Boot
  <2>1. UNCHANGED late
    BY <1>5, PlanCases, CollectCases DEF RoundStep, StartUp, StartUpDies, StartRound, ReadLeader,
       ReadLeaderFails, ReadFollower, SkipFollower, EndRound, Protect, Gather, vars
  <2>2. round.pc = "down" => round'.pc = "down"
    BY <1>5, PlanCases, CollectCases DEF RoundStep, StartUp, StartUpDies, StartRound, ReadLeader,
       ReadLeaderFails, ReadFollower, SkipFollower, EndRound, Protect, Gather
  <2>3. QED
    BY <2>1, <2>2 DEF WaitedFor
<1>6. QED
  BY <1>1, <1>2, <1>3, <1>4, <1>5 DEF SystemNext

(* Every call has the target its round computed.                           *)
CalledAsPlanned == \A k \in Keys : task[k].pc # "idle" => task[k].target = PlannedTarget(k[2])

LEMMA NextAsPlanned ==
    ASSUME Shape, CalledAsPlanned, [SystemNext]_allVars
    PROVE  CalledAsPlanned'
<1>0. round \in Rounds /\ NoTask.pc = "idle"
  BY NoTaskTyped DEF Shape, RoundInv
<1>1. CASE task' = NoTasks
  BY <1>0, <1>1 DEF CalledAsPlanned, NoTasks
<1>2. CASE UNCHANGED <<task, round>>
  BY <1>2 DEF CalledAsPlanned, PlannedTarget
<1>3. CASE Gather
  <2>1. /\ round'.lead = round.lead /\ round'.leadEquity = round.leadEquity
        /\ round'.equity = round.equity
    BY <1>0, <1>3 DEF Gather, Rounds
  <2>2. ASSUME NEW k \in Keys, task'[k].pc # "idle"
        PROVE  task'[k].target = PlannedTarget(k[2])
    BY <1>0, <1>3, <2>2, GatherCalls
  <2>3. QED
    BY <2>1, <2>2 DEF CalledAsPlanned, PlannedTarget
<1>4. CASE \E s \in Symbols : Collect(s)
  <2>1. PICK s \in Symbols : Collect(s)
    BY <1>4
  <2>2. \/ task' = NoTasks
        \/ round' = [round EXCEPT !.plan = @ \ {s},
                              !.pc = IF round.plan = {s} THEN "follower" ELSE "wait"]
    BY <2>1, CollectCases DEF SaveFails
  <2>3. CASE round' = [round EXCEPT !.plan = @ \ {s},
                              !.pc = IF round.plan = {s} THEN "follower" ELSE "wait"]
    <3>1. /\ round'.lead = round.lead /\ round'.leadEquity = round.leadEquity
          /\ round'.equity = round.equity
      BY <1>0, <2>3 DEF Rounds
    <3>2. \A j \in Keys : task'[j] = task[j] \/ task'[j] = NoTask
      BY <2>1, CollectLocal
    <3>3. QED
      BY <1>0, <3>1, <3>2 DEF CalledAsPlanned, PlannedTarget
  <2>4. QED
    BY <1>1, <2>2, <2>3
<1>5. CASE \E k \in Keys : ReconcileStep(k)
  <2>1. PICK k \in Keys : ReconcileStep(k)
    BY <1>5
  <2>2. /\ UNCHANGED round
        /\ \A j \in Keys : \/ task'[j] = task[j]
                           \/ task[j].pc # "idle" /\ task'[j].target = task[j].target
    BY <2>1, StepLocal
  <2>3. QED
    BY <2>2 DEF CalledAsPlanned, PlannedTarget
<1>6. CASE \/ Boot \/ StartUp \/ StartUpDies \/ StartRound \/ ReadLeader \/ ReadLeaderFails
           \/ \E f \in Followers : ReadFollower(f) \/ SkipFollower(f)
           \/ EndRound \/ Protect \/ \E s \in Symbols : PlanSymbol(s)
  <2>1. round.pc # "wait" /\ (task' = task \/ task' = NoTasks)
    BY <1>6 DEF Boot, StartUp, StartUpDies, StartRound, ReadLeader, ReadLeaderFails,
          ReadFollower, SkipFollower, EndRound, Protect, PlanSymbol, vars, SaveFails
  <2>2. QED
    BY <1>1, <2>1, IdleTasks
<1>7. CASE Crash
  BY <1>1, <1>7 DEF Crash
<1>8. CASE \/ UNCHANGED allVars \/ (\E s \in Symbols : LeaderTrade(s))
           \/ (\E k \in Keys : FollowerUserTrades(k))
  <2>1. UNCHANGED <<task, round>>
    BY <1>8 DEF LeaderTrade, FollowerUserTrades, UserTrade, allVars, appVars, vars
  <2>2. QED
    BY <1>2, <2>1
<1>9. QED
  BY <1>3, <1>4, <1>5, <1>6, <1>7, <1>8 DEF SystemNext, RoundStep

LEMMA SideKept ==
    ASSUME Shape, WaitedFor, CalledAsPlanned, NEW k \in Keys, Trades(k),
           Abs(pos'[k]) > Abs(pos[k]), round.pc # "down"
    PROVE  pos'[k] * round.lead[k[2]] > 0
<1>1. Execute(k)
  <2>1. late[k] = <<>>
    BY DEF WaitedFor
  <2>2. ~ResolveLate(k)
    BY <2>1 DEF ResolveLate
  <2>3. QED
    BY <2>2 DEF Trades
<1>2. /\ task[k] \in Tasks /\ pos[k] \in Int /\ task[k].pc \in {"sent", "verify"}
      /\ Acting(task[k]) /\ task[k].order \in Orders
      /\ task[k].order.delta = OrderFor(task[k]).delta
      /\ task[k].order.reduce = OrderFor(task[k]).reduce
  BY <1>1, StepFacts, OrderInHand DEF Execute, Shape
<1>3. pos'[k] \in Outcomes(task[k].order, pos[k])
  BY <1>1 DEF Execute, Shape, IInv, Typed
<1>4. \/ task[k].target > 0 /\ pos'[k] > 0
      \/ task[k].target < 0 /\ pos'[k] < 0
  BY <1>2, <1>3, GrowthSide
<1>5. k[2] \in round.plan /\ round.lead[k[2]] \in Int /\ round.leadEquity \in Int
      /\ round.equity \in Int
      /\ ~TargetFails(round.lead[k[2]], round.leadEquity, round.equity)
  BY <1>2, NoTaskTyped DEF Shape, RoundInv, Rounds, Keys
<1>6. task[k].target = Target(round.lead[k[2]], round.leadEquity, round.equity)
  BY <1>2 DEF CalledAsPlanned, PlannedTarget
<1>7. \/ round.lead[k[2]] > 0 /\ pos'[k] > 0
      \/ round.lead[k[2]] < 0 /\ pos'[k] < 0
  BY <1>4, <1>5, <1>6, TargetSide
<1>8. pos'[k] \in Int
  BY <1>2, <1>3, OutcomeTyped
<1>9. QED
  BY <1>5, <1>7, <1>8

(* Without orders that outlive their answers every increase of a position  *)
(* is on the side the leader was on when the round read it: no sizing mode,*)
(* equity, flip, retry, failed write or trade of a user in between turns   *)
(* one the wrong way.                                                      *)
THEOREM RiskOnTheLeadersSide ==
    ASSUME ~OrdersOutliveAnswers
    PROVE  SystemSpec => SideOfTheLeader
<1>1. SystemInit => WaitedFor /\ CalledAsPlanned
  BY NoTaskTyped DEF SystemInit, Init, WaitedFor, CalledAsPlanned
<1>2. Shape /\ WaitedFor /\ CalledAsPlanned /\ [SystemNext]_allVars =>
          WaitedFor' /\ CalledAsPlanned'
  BY NextWaitedFor, NextAsPlanned
<1>3. Shape /\ WaitedFor /\ CalledAsPlanned /\ [SystemNext]_allVars =>
          [\A k \in Keys :
             Trades(k) /\ Abs(pos'[k]) > Abs(pos[k]) /\ round.pc # "down" =>
                 pos'[k] * round.lead[k[2]] > 0]_allVars
  BY SideKept
<1>4. QED
  BY <1>1, <1>2, <1>3, SystemShape, PTL DEF SystemSpec, SideOfTheLeader

-----------------------------------------------------------------------------
(* What a call reports is true when the round reads it: while the process  *)
(* runs, users stay away from a round and no order outlives its answer.    *)
UndisturbedCalls == round.pc # "down" => IInv({"alone"})

LEMMA UserBetweenRounds ==
    ASSUME Shape, UndisturbedCalls, WaitedFor, round.pc = "idle", NEW k \in Keys, UserTrade(k)
    PROVE  IInv({"alone"})'
<1>1. IInv({})' /\ IInv({"alone"})
  BY UserTradeInv DEF Shape, UndisturbedCalls
<1>2. task = NoTasks /\ UNCHANGED <<late, task, cool, traded, killSwitch>>
  BY IdleTasks DEF UserTrade
<1>3. ASSUME NEW j \in Keys PROVE KeyInv({"alone"}, j)'
  <2>1. pos'[j] \in Int /\ traded'[j] \in BOOLEAN /\ task'[j] = NoTask
    BY <1>1, <1>2 DEF IInv, Typed, NoTasks
  <2>2. TaskInv({"alone"}, task'[j], pos'[j], traded'[j])
    BY <2>1, RestInv, NoTaskTyped
  <2>3. LateInv({"alone"}, late[j])' /\ CoolInv(cool[j])'
    BY <1>1, <1>2 DEF IInv, KeyInv, LateInv, CoolInv
  <2>4. QED
    BY <2>2, <2>3 DEF KeyInv, TaskInv
<1>4. QED
  BY <1>1, <1>3 DEF IInv

LEMMA NextUndisturbedCalls ==
    ASSUME ~OrdersOutliveAnswers, ~UsersTradeMidRound,
           Shape, WaitedFor, UndisturbedCalls, [SystemNext]_allVars
    PROVE  UndisturbedCalls'
<1>1. CASE Boot
  BY <1>1, BootCalls DEF UndisturbedCalls
<1>2. CASE Crash \/ StartUpDies
  BY <1>2, RestTyped DEF Crash, StartUpDies, UndisturbedCalls
<1>3. CASE \E k \in Keys : ReconcileStep(k)
  BY <1>3, CallStepInv DEF UndisturbedCalls, ReconcileStep
<1>4. CASE \E k \in Keys : FollowerUserTrades(k)
  BY <1>4, UserBetweenRounds DEF FollowerUserTrades, UndisturbedCalls
<1>5. CASE (\E s \in Symbols : LeaderTrade(s)) \/ UNCHANGED allVars
  <2>1. UNCHANGED <<vars, round>>
    BY <1>5 DEF LeaderTrade, allVars, appVars
  <2>2. QED
    BY <2>1, UnchangedCalls DEF UndisturbedCalls
<1>6. CASE Gather \/ \E s \in Symbols : Collect(s)
  <2>1. IInv({"alone"})
    BY <1>6 DEF UndisturbedCalls, Gather, Collect
  <2>2. QED
    BY <1>6, <2>1, GatherInv, CollectInv DEF UndisturbedCalls
<1>7. CASE \/ StartUp \/ StartRound \/ ReadLeader \/ ReadLeaderFails \/ EndRound \/ Protect
           \/ \E f \in Followers : ReadFollower(f) \/ SkipFollower(f)
           \/ \E s \in Symbols : PlanSymbol(s)
  <2>1. /\ round.pc # "down" /\ UNCHANGED <<pos, late, cool, traded, killSwitch>>
        /\ Fault \/ UNCHANGED faults
        /\ task' = task \/ task' = NoTasks
    BY <1>7 DEF StartUp, StartRound, ReadLeader, ReadLeaderFails, ReadFollower, SkipFollower,
          EndRound, Protect, PlanSymbol, vars, SaveFails
  <2>2. IInv({"alone"}) /\ IInv({})
    BY <2>1 DEF UndisturbedCalls, Shape
  <2>3. faults' \in 0..MaxFaults /\ traded' \in [Keys -> BOOLEAN]
    BY <2>1, <2>2, FaultTyped DEF IInv, Typed
  <2>4. IInv({"alone"})'
    BY <2>1, <2>2, <2>3, CallsDropped
  <2>5. QED
    BY <2>4 DEF UndisturbedCalls
<1>8. QED
  BY <1>1, <1>2, <1>3, <1>4, <1>5, <1>6, <1>7 DEF SystemNext, RoundStep

(* So no order of a round takes a position past the planned target, or     *)
(* through zero, in both modes and on a disk that may fail: what a user did*)
(* before the round, or what a crash left half done, is where a call begins.*)
THEOREM RoundsStayWithinPlan ==
    ASSUME ~OrdersOutliveAnswers, ~UsersTradeMidRound
    PROVE  SystemSpec => OrdersStayWithinPlan
<1>1. SystemInit => WaitedFor /\ CalledAsPlanned /\ UndisturbedCalls
  BY NoTaskTyped, RestTyped
  DEF SystemInit, Init, WaitedFor, CalledAsPlanned, UndisturbedCalls
<1>2. Shape /\ WaitedFor /\ CalledAsPlanned /\ UndisturbedCalls /\ [SystemNext]_allVars =>
          WaitedFor' /\ CalledAsPlanned' /\ UndisturbedCalls'
  BY NextWaitedFor, NextAsPlanned, NextUndisturbedCalls
<1>3. ASSUME WaitedFor, CalledAsPlanned, UndisturbedCalls,
             NEW k \in Keys, Trades(k), round.pc = "wait"
      PROVE  /\ pos[k] * pos'[k] >= 0
             /\ Abs(pos'[k]) > Abs(pos[k]) =>
                    /\ pos'[k] * PlannedTarget(k[2]) > 0
                    /\ Abs(pos'[k]) <= Abs(PlannedTarget(k[2]))
  <2>1. late[k] = <<>>
    BY <1>3 DEF WaitedFor
  <2>2. Execute(k)
    BY <1>3, <2>1 DEF Trades, ResolveLate
  <2>3. IInv({"alone"}) /\ Alone({"alone"})
    BY <1>3 DEF UndisturbedCalls, Alone
  <2>4. /\ pos[k] * pos'[k] >= 0
        /\ \/ Abs(pos'[k]) <= Abs(pos[k])
           \/ pos'[k] * task[k].target > 0 /\ Abs(pos'[k]) <= Abs(task[k].target)
    BY <2>2, <2>3, ExecuteMoves
  <2>5. Abs(pos[k]) \in Int /\ Abs(pos'[k]) \in Int
    <3>1. pos[k] \in Int /\ task[k].order \in Orders
      BY <2>3 DEF IInv, Typed, Tasks
    <3>2. pos'[k] \in Outcomes(task[k].order, pos[k])
      BY <2>2, <2>3 DEF Execute, IInv, Typed
    <3>3. pos'[k] \in Int
      BY <3>1, <3>2, OutcomeTyped
    <3>4. QED
      BY <3>1, <3>3 DEF Abs
  <2>6. task[k].target = PlannedTarget(k[2])
    <3>1. task[k].pc # "idle"
      BY <2>2, <2>3, OrderInHand DEF Execute
    <3>2. QED
      BY <1>3, <3>1 DEF CalledAsPlanned
  <2>. HIDE DEF PlannedTarget
  <2>7. QED
    BY <2>4, <2>5, <2>6
<1>4. WaitedFor /\ CalledAsPlanned /\ UndisturbedCalls =>
          [\A k \in Keys :
             Trades(k) /\ round.pc = "wait" =>
                 /\ pos[k] * pos'[k] >= 0
                 /\ Abs(pos'[k]) > Abs(pos[k]) =>
                        /\ pos'[k] * PlannedTarget(k[2]) > 0
                        /\ Abs(pos'[k]) <= Abs(PlannedTarget(k[2]))]_allVars
  BY <1>3
<1>5. QED
  BY <1>1, <1>2, <1>4, SystemShape, PTL DEF SystemSpec, OrdersStayWithinPlan
==============================================================================
