----------------------------- MODULE PerpMirror ------------------------------
(***************************************************************************)
(* The copy-trading process: the reconciliation round of                   *)
(* PerpMirrorApp.full_reconcile (perpmirror/app.py) composed with the      *)
(* ownership ledger and its file (PositionOwnership), the sizes of the     *)
(* targets (TargetCalculator), the per-symbol calls of reconcile           *)
(* (Reconciler), the leader's account, the users of the follower accounts  *)
(* and a process that may die and start again.                             *)
(*                                                                         *)
(* Rounds never overlap: the coalescer runs one at a time and              *)
(* full_reconcile holds a lock.  Between two awaits the round runs alone,  *)
(* but every change of the ledger is a step of its own, because it writes  *)
(* the state file and the process may die after each write.                *)
(*                                                                         *)
(* A definition whose name has an underscore is a mutant: the definition   *)
(* that follows it, with a mistake the code could have made.               *)
(***************************************************************************)
EXTENDS Reconciler, TargetCalculator

CONSTANTS
    PreserveModes,      \* values preserve_existing_positions may have
    DiskMayFail,        \* writing the state file may fail
    NoFile,             \* the state file does not exist
    Supported,          \* keys whose follower exchange lists the symbol
    LeaderPositions,    \* positions the leader may take
    LeaderEquities,     \* equities the leader's account may report
    FollowerEquities,   \* equities a follower's account may report
    UsersTradeMidRound, \* users trade while a round runs, not only between two
    MaxLeaderMoves      \* bound on the leader's trades

ASSUME PerpMirrorAssumption ==
    /\ PreserveModes \cup {DiskMayFail, UsersTradeMidRound} \subseteq BOOLEAN
    /\ Supported \subseteq Keys
    /\ LeaderPositions \cup LeaderEquities \cup FollowerEquities \subseteq Int
    /\ MaxLeaderMoves \in Nat

VARIABLES
    preserve,      \* preserve_existing_positions: copy new positions only
    up, mem, disk, \* the ledger (PositionOwnership)
    leader,        \* leader[s]: the leader's position
    round,         \* where the round is and what it has read
    moves,         \* trades the leader still makes
    made,          \* history: keys whose position only the program built
    emptied,       \* history: keys whose position the program itself closed
    baseline,      \* history: keys held, symbols led, at the first start
    closed,        \* history: keys whose position a user closed, leader not flat since
    paused         \* history: those of them that were marked observed

ledgerVars == <<preserve, up, mem, disk>>
history == <<made, emptied, baseline, closed, paused>>
appVars == <<ledgerVars, leader, round, moves, history>>
allVars == <<vars, appVars>>

Own == INSTANCE PositionOwnership WITH Persist <- TRUE

ASSUME SystemNoFileAssumption == NoFile \notin Own!Files

Held(positions) == {s \in Symbols : positions[s] # 0}
HeldBy(f) == Held(Account(f))

NoRound == [pc |-> "down", lead |-> [s \in Symbols |-> 0], todo |-> {},
            at |-> "none", snap |-> {}, left |-> {}, plan |-> {},
            leadEquity |-> 0, equity |-> 0]

Resting == [NoRound EXCEPT !.pc = "idle"]

NoTasks == [k \in Keys |-> NoTask]

Saved_InMemoryOnly(l) ==
    IF preserve THEN mem' = l /\ UNCHANGED <<up, disk, preserve>> ELSE UNCHANGED ledgerVars

(* A ledger method's outcome: written, or the write failed and the         *)
(* exception ends the round (the coalescer logs it).                       *)
Saved(l) ==
    IF preserve THEN Own!Written(l) /\ UNCHANGED preserve ELSE UNCHANGED ledgerVars

SaveFails(l) ==
    /\ preserve /\ l # mem
    /\ Own!WriteFails(l) /\ UNCHANGED preserve
    /\ Fault
    /\ round' = Resting /\ task' = NoTasks

-----------------------------------------------------------------------------
(* Start-up: the leader's positions are read, then the followers'; the     *)
(* ledger is loaded or created.  The kill switch may have been changed.    *)
Boot ==
    /\ round.pc = "down"
    /\ OrdersOutliveAnswers \/ \A k \in Keys : late[k] = <<>>
    /\ round' = [NoRound EXCEPT !.pc = "boot", !.lead = leader]
    /\ killSwitch' \in KillSwitches
    /\ UNCHANGED <<pos, late, task, cool, traded, faults>>
    /\ UNCHANGED <<ledgerVars, leader, moves, history>>

FirstStart ==
    baseline' = IF disk = NoFile /\ preserve
                THEN [keys |-> {k \in Keys : pos[k] # 0}, symbols |-> Held(round.lead) \cap Held(leader)]
                ELSE baseline

StartUp ==
    /\ round.pc = "boot"
    /\ IF preserve
       THEN Own!Initialize(Held(round.lead), [f \in Followers |-> HeldBy(f)])
       ELSE up' = TRUE /\ UNCHANGED <<mem, disk>>
    /\ FirstStart
    /\ round' = Resting
    /\ UNCHANGED <<vars, preserve, leader, moves, made, emptied, closed, paused>>

StartUpDies ==
    /\ round.pc = "boot" /\ preserve
    /\ \E done \in SUBSET Followers :
          Own!InitializeInterrupted(Held(round.lead), [f \in Followers |-> HeldBy(f)], done)
    /\ Fault
    /\ FirstStart
    /\ round' = NoRound
    /\ UNCHANGED <<pos, late, task, cool, traded, killSwitch, preserve>>
    /\ UNCHANGED <<leader, moves, made, emptied, closed, paused>>

-----------------------------------------------------------------------------
(* A round.  A trigger (interval, leader event, reconnection) starts it.   *)
StartRound ==
    /\ round.pc = "idle"
    /\ round' = [Resting EXCEPT !.pc = "leader"]
    /\ UNCHANGED <<vars, ledgerVars, leader, moves, history>>

ReadLeader ==
    LET l == Own!ObserveLeader(mem, Held(leader))
    IN  /\ round.pc = "leader"
        /\ UNCHANGED <<pos, late, cool, traded, killSwitch, leader, moves, history>>
        /\ \/ /\ Saved(l)
              /\ \E e \in LeaderEquities :
                    round' = [round EXCEPT !.pc = "follower", !.lead = leader,
                                           !.leadEquity = e, !.todo = Followers]
              /\ UNCHANGED <<task, faults>>
           \/ SaveFails(l)

(* The leader cannot be read: the round ends.                              *)
ReadLeaderFails ==
    /\ round.pc = "leader"
    /\ Fault
    /\ round' = Resting
    /\ UNCHANGED <<pos, late, task, cool, traded, killSwitch, ledgerVars, leader, moves, history>>

(* One follower after another.  What disappeared while the leader still    *)
(* holds it is suspended.                                                  *)
ReadFollower(f) ==
    LET l == Own!ObserveFollower(mem, f, HeldBy(f), Held(round.lead))
    IN  /\ round.pc = "follower" /\ f \in round.todo
        /\ UNCHANGED <<pos, late, cool, traded, killSwitch, leader, moves, history>>
        /\ \/ /\ Saved(l)
              /\ \E e \in FollowerEquities :
                    round' = [round EXCEPT !.pc = "protect", !.at = f, !.snap = HeldBy(f),
                                           !.equity = e, !.todo = @ \ {f}]
              /\ UNCHANGED <<task, faults>>
           \/ SaveFails(l)

(* FOLLOWER_SNAPSHOT_FAILED: the round goes on with the next follower.     *)
SkipFollower(f) ==
    /\ round.pc = "follower" /\ f \in round.todo
    /\ Fault
    /\ round' = [round EXCEPT !.todo = @ \ {f}]
    /\ UNCHANGED <<pos, late, task, cool, traded, killSwitch, ledgerVars, leader, moves, history>>

EndRound ==
    /\ round.pc = "follower" /\ round.todo = {}
    /\ round' = Resting
    /\ UNCHANGED <<vars, ledgerVars, leader, moves, history>>

RoundSymbols_LeaderOnly(l) == Held(round.lead)

(* The symbols the round looks at for the follower at hand.                *)
RoundSymbols(l) ==
    IF preserve
    THEN Own!CandidateSymbols(l, round.at, Held(round.lead))
    ELSE Held(round.lead) \cup round.snap

(* protect_unmanaged, then the choice of symbols.                          *)
Protect ==
    LET l == Own!ProtectUnmanaged(mem, round.at, round.snap)
    IN  /\ round.pc = "protect"
        /\ UNCHANGED <<pos, late, cool, traded, killSwitch, leader, moves, history>>
        /\ \/ /\ Saved(l)
              /\ round' = [round EXCEPT !.pc = "plan", !.left = RoundSymbols(l)]
              /\ UNCHANGED <<task, faults>>
           \/ SaveFails(l)

PlannedTarget(s) == Target(round.lead[s], round.leadEquity, round.equity)

(* One symbol of the plan.  An unmanaged symbol is claimed before its      *)
(* target is computed; when that fails (TARGET_FAILED) the claim stays.  No*)
(* candidate is one that claim refuses.                                    *)
PlanSymbol(s) ==
    LET f == round.at
        unsupported == round.lead[s] # 0 /\ <<f, s>> \notin Supported
        managed == ~preserve \/ s \in mem.managed[f]
        skipped == unsupported \/ (~managed /\ round.lead[s] = 0)
        l == IF managed THEN mem ELSE Own!Claim(mem, f, s)
        failed == TargetFails(round.lead[s], round.leadEquity, round.equity)
    IN  /\ round.pc = "plan" /\ s \in round.left
        /\ UNCHANGED <<pos, late, cool, traded, killSwitch, leader, moves, history>>
        /\ \/ /\ skipped
              /\ round' = [round EXCEPT !.left = @ \ {s}]
              /\ UNCHANGED <<task, faults, ledgerVars>>
           \/ /\ ~skipped
              /\ managed \/ ~Own!ClaimRefused(mem, f, s)
              /\ \/ /\ Saved(l) /\ UNCHANGED <<task, faults>>
                    /\ round' = [round EXCEPT !.left = @ \ {s},
                                              !.plan = IF failed THEN @ ELSE @ \cup {s}]
                 \/ SaveFails(l)

Gather_NotAwaited ==
    /\ round.pc = "plan" /\ round.left = {}
    /\ round' = [round EXCEPT !.pc = "follower"]
    /\ task' = [k \in Keys |->
                  IF k[1] = round.at /\ k[2] \in round.plan
                  THEN [NoTask EXCEPT !.pc = "queued", !.target = PlannedTarget(k[2])]
                  ELSE task[k]]
    /\ traded' = [k \in Keys |-> traded[k] /\ ~(k[1] = round.at /\ k[2] \in round.plan)]
    /\ UNCHANGED <<pos, late, cool, killSwitch, faults, ledgerVars, leader, moves, history>>

Gather_LeadersSize ==
    /\ round.pc = "plan" /\ round.left = {}
    /\ round' = [round EXCEPT !.pc = IF round.plan = {} THEN "follower" ELSE "wait"]
    /\ task' = [k \in Keys |->
                  IF k[1] = round.at /\ k[2] \in round.plan
                  THEN [NoTask EXCEPT !.pc = "queued", !.target = round.lead[k[2]]]
                  ELSE task[k]]
    /\ traded' = [k \in Keys |-> traded[k] /\ ~(k[1] = round.at /\ k[2] \in round.plan)]
    /\ UNCHANGED <<pos, late, cool, killSwitch, faults, ledgerVars, leader, moves, history>>

(* asyncio.gather: every planned symbol's reconcile is called.             *)
Gather ==
    /\ round.pc = "plan" /\ round.left = {}
    /\ round' = [round EXCEPT !.pc = IF round.plan = {} THEN "follower" ELSE "wait"]
    /\ task' = [k \in Keys |->
                  IF k[1] = round.at /\ k[2] \in round.plan
                  THEN [NoTask EXCEPT !.pc = "queued", !.target = PlannedTarget(k[2])]
                  ELSE task[k]]
    /\ traded' = [k \in Keys |-> traded[k] /\ ~(k[1] = round.at /\ k[2] \in round.plan)]
    /\ UNCHANGED <<pos, late, cool, killSwitch, faults, ledgerVars, leader, moves, history>>

AfterResult_LeaderFlat(s, r) ==
    IF round.lead[s] = 0 THEN Own!Release(mem, round.at, s)
    ELSE IF r.final > 0 THEN Own!MarkObserved(mem, round.at, s)
    ELSE mem

(* A live position is marked observed, a closed one whose leader is flat   *)
(* is released.                                                            *)
AfterResult(s, r) ==
    IF r.final > 0 THEN Own!MarkObserved(mem, round.at, s)
    ELSE IF round.lead[s] = 0 /\ r.success /\ r.final = 0
    THEN Own!Release(mem, round.at, s)
    ELSE mem

(* All results are in; they are handled one after another: the ledger      *)
(* first, then the result is published.                                    *)
Collect(s) ==
    LET k == <<round.at, s>>
        r == task[k].result
        l == AfterResult(s, r)
    IN  /\ round.pc = "wait" /\ s \in round.plan
        /\ \A q \in round.plan : At(<<round.at, q>>, "done")
        /\ UNCHANGED <<pos, late, cool, killSwitch, leader, moves, history>>
        /\ \/ /\ Saved(l)
              /\ task' = [task EXCEPT ![k] = NoTask]
              /\ traded' = [traded EXCEPT ![k] = @ /\ ~ShouldNotify(r)]
              /\ round' = [round EXCEPT !.plan = @ \ {s},
                              !.pc = IF round.plan = {s} THEN "follower" ELSE "wait"]
              /\ UNCHANGED faults
           \/ SaveFails(l) /\ UNCHANGED traded

(* The process dies.  An order it had sent, or its rest, is still live.    *)
Crash ==
    /\ round.pc # "down"
    /\ Fault
    /\ up' = FALSE /\ mem' = Own!Blank
    /\ round' = NoRound
    /\ late' = [k \in Keys |-> IF Live(task[k].order)
                   THEN Append(late[k], [task[k].order EXCEPT !.state = "sent"]) ELSE late[k]]
    /\ task' = NoTasks
    /\ cool' = [k \in Keys |-> NoCooldown]
    /\ traded' = [k \in Keys |-> FALSE]
    /\ UNCHANGED <<pos, killSwitch, preserve, disk, leader, moves, history>>

-----------------------------------------------------------------------------
(* The program's own trades: a position it opens from flat is its own.  One*)
(* opened by an order of a dead process is no longer closed by its owner.  *)
Built(k) ==
    LET opened == pos[k] = 0 /\ pos'[k] # 0
        ended == pos[k] # 0 /\ pos'[k] = 0
    IN  /\ made' = IF opened THEN made \cup {k} ELSE IF ended THEN made \ {k} ELSE made
        /\ emptied' = IF opened THEN emptied \ {k}
                      ELSE IF ended THEN emptied \cup {k} ELSE emptied
        /\ closed' = IF opened /\ round.pc = "down" THEN closed \ {k} ELSE closed
        /\ paused' = paused \cap closed'

ReconcileStep(k) ==
    /\ Acquire(k) \/ TaskStep(k) \/ Execute(k) \/ Reject(k) \/ ResolveLate(k) \/ Expire(k)
    /\ Built(k)
    /\ UNCHANGED <<ledgerVars, leader, round, moves, baseline>>

(* The leader trades.  A symbol it leaves is no longer part of the first   *)
(* start's baseline and no longer suspended.                               *)
LeaderTrade(s) ==
    /\ moves > 0 /\ moves' = moves - 1
    /\ \E p \in LeaderPositions \ {leader[s]} :
          /\ leader' = [leader EXCEPT ![s] = p]
          /\ baseline' = [baseline EXCEPT !.symbols = IF p = 0 THEN @ \ {s} ELSE @]
          /\ closed' = IF p = 0 THEN closed \ (Followers \X {s}) ELSE closed
          /\ paused' = paused \cap closed'
    /\ UNCHANGED <<vars, ledgerVars, round, made, emptied>>

(* The ledger the process has, or the next one will load.                  *)
Ledger == Own!View

(* A user trades in a follower account: any symbol the program does not    *)
(* manage, and of a managed one only the close (a manual close or a        *)
(* liquidation); the README forbids the rest.                              *)
FollowerUserTrades(k) ==
    /\ UsersTradeMidRound \/ round.pc \in {"down", "idle"}
    /\ UserTrade(k)
    /\ preserve /\ k[2] \in Ledger.managed[k[1]] => pos'[k] = 0
    /\ made' = made \ {k} /\ emptied' = emptied \ {k}
    /\ closed' = IF pos'[k] = 0 /\ k \in made /\ leader[k[2]] # 0
                 THEN closed \cup {k} ELSE closed
    /\ paused' = IF k[2] \in Ledger.observed[k[1]] THEN paused \cup (closed' \cap {k}) ELSE paused
    /\ UNCHANGED <<ledgerVars, leader, round, moves, baseline>>

SystemInit ==
    /\ Init
    /\ preserve \in PreserveModes
    /\ up = FALSE /\ mem = Own!Blank /\ disk = NoFile
    /\ leader \in [Symbols -> LeaderPositions]
    /\ round = NoRound
    /\ moves = MaxLeaderMoves
    /\ made = {} /\ emptied = {} /\ closed = {} /\ paused = {}
    /\ baseline = [keys |-> {}, symbols |-> {}]

RoundStep ==
    \/ Boot \/ StartUp \/ StartUpDies
    \/ StartRound \/ ReadLeader \/ ReadLeaderFails
    \/ \E f \in Followers : ReadFollower(f) \/ SkipFollower(f)
    \/ EndRound \/ Protect
    \/ \E s \in Symbols : PlanSymbol(s) \/ Collect(s)
    \/ Gather

SystemNext ==
    \/ RoundStep
    \/ \E k \in Keys : ReconcileStep(k)
    \/ Crash
    \/ \E s \in Symbols : LeaderTrade(s)
    \/ \E k \in Keys : FollowerUserTrades(k)

SystemSpec == SystemInit /\ [][SystemNext]_allVars

(* Rounds are triggered for ever and every request is answered; the leader,*)
(* the users and the faults are under no obligation.                       *)
FairSystemSpec ==
    /\ SystemSpec
    /\ WF_allVars(RoundStep)
    /\ \A k \in Keys :
          /\ SF_allVars(Acquire(k) /\ ReconcileStep(k))
          /\ WF_allVars(TaskStep(k) /\ ReconcileStep(k))
          /\ WF_allVars((Execute(k) \/ Reject(k) \/ ResolveLate(k)) /\ ReconcileStep(k))
          /\ WF_allVars(Expire(k) /\ ReconcileStep(k))

-----------------------------------------------------------------------------
RoundPcs == {"down", "boot", "idle", "leader", "follower", "protect", "plan", "wait"}

SystemTypeOK ==
    /\ TypeOK
    /\ Own!TypeOK
    /\ preserve \in PreserveModes
    /\ leader \in [Symbols -> LeaderPositions]
    /\ round.pc \in RoundPcs
    /\ up <=> round.pc \notin {"down", "boot"}
    /\ round.pc # "wait" => task = NoTasks
    /\ moves \in 0..MaxLeaderMoves

(* An order of the program executes for k in this step.                    *)
Trades(k) == pos'[k] # pos[k] /\ (Execute(k) \/ ResolveLate(k))

(* What the follower held, and what the leader led, when the program was   *)
(* first started is left alone: the follower's position for ever, the      *)
(* leader's symbol until the leader is flat -- through every restart.      *)
StartupPositionsUntouched ==
    [][\A k \in Keys : Trades(k) =>
         k \notin baseline.keys /\ k[2] \notin baseline.symbols]_allVars

(* A position closed by somebody else between two rounds, once it was      *)
(* marked observed, is not rebuilt before the leader is flat: in no later  *)
(* round and after no restart.  (An order of the round in which the process*)
(* died is decided while it is down.)                                      *)
SuspensionHolds ==
    [][\A k \in Keys : Trades(k) /\ round.pc # "down" => k \notin paused]_allVars

(* The program trades no position but its own: an order executes on a      *)
(* position only if the program alone built that position.                 *)
OnlyOwnPositions == [][\A k \in Keys : Trades(k) /\ pos[k] # 0 => k \in made]_allVars

(* The program takes on risk only on the side the leader was on when the   *)
(* round read it: no sizing, flip or late result turns a position the      *)
(* wrong way.  (An order that outlives its process is decided while down.) *)
SideOfTheLeader ==
    [][\A k \in Keys :
         Trades(k) /\ Abs(pos'[k]) > Abs(pos[k]) /\ round.pc # "down" =>
             pos'[k] * round.lead[k[2]] > 0]_allVars

(* Whatever a round meets -- chunks, partial fills, lost answers, retries, *)
(* users who moved the position before it -- no order takes a position past*)
(* the target the round planned, or through zero, while the round waits for*)
(* its calls.                                                              *)
OrdersStayWithinPlan ==
    [][\A k \in Keys :
         Trades(k) /\ round.pc = "wait" =>
             /\ pos[k] * pos'[k] >= 0
             /\ Abs(pos'[k]) > Abs(pos[k]) =>
                    /\ pos'[k] * PlannedTarget(k[2]) > 0
                    /\ Abs(pos'[k]) <= Abs(PlannedTarget(k[2]))]_allVars

(* A position the program built stays its own until it is closed: between  *)
(* two rounds, and in the file after a crash, its symbol is managed.       *)
OwnPositionsManaged ==
    round.pc \in {"down", "idle"} =>
        \A k \in made : pos[k] # 0 => k[2] \in Ledger.managed[k[1]]

(* Whatever the round does with its ledger, the process with its crashes   *)
(* and restarts moves every symbol of every follower along the cycle of    *)
(* statuses only.                                                          *)
StatusesFollowCycle == Own!FollowsCycle

(* Unless the process dies, every executed order is published in its round.*)
EveryTradeNotified == round.pc = "idle" => \A k \in Keys : ~traded[k]

(* A symbol is suspended only when somebody else closed the position.      *)
SuspendedOnlyByOthers ==
    [][\A k \in Keys :
         k[2] \in Ledger'.suspended[k[1]] \ Ledger.suspended[k[1]] => k \notin emptied]_allVars

(* The symbols a round would trade for follower f.                         *)
Copied(f) ==
    IF preserve THEN Own!CandidateSymbols(Ledger, f, Held(leader)) ELSE Symbols

(* Self-healing: after the last fault, user trade and leader trade, every  *)
(* position that is copied comes to its target and stays there (with one   *)
(* equity for each account, or sizes that do not depend on it).            *)
EventuallyCopied ==
    \A k \in Supported, e \in LeaderEquities, q \in FollowerEquities :
        <>[](k[2] \in Copied(k[1]) => Classify(Target(leader[k[2]], e, q), pos[k]) = "NOOP")
==============================================================================
