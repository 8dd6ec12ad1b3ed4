---------------------- MODULE PerpMirrorOwnershipProofs ----------------------
(***************************************************************************)
(* Proofs about what the program owns: the ledger, through its file and    *)
(* every restart, knows which positions the program has built and which    *)
(* somebody else has closed.                                               *)
(***************************************************************************)
EXTENDS PerpMirrorProofs

(* New-position-only mode, a state file that can be written, and no order  *)
(* that outlives its answer.                                               *)
Durable ==
    /\ PreserveModes \subseteq {TRUE}
    /\ ~DiskMayFail
    /\ ~OrdersOutliveAnswers

(* The same, and users trade between rounds only.  README.md names the     *)
(* theorems that TLC refutes when one of these conditions is dropped.      *)
Undisturbed == Durable /\ ~UsersTradeMidRound

(* The file is what memory is.  What the program alone has built is open   *)
(* and managed, and so is whatever is planned, called or still live; and a *)
(* call that succeeded in leaving a position flat left none it has built.  *)
KnownInv ==
    /\ up => disk = Own!File(mem)
    /\ \A k \in Keys : k \in made => pos[k] # 0 /\ k[2] \in Ledger.managed[k[1]]
    /\ \A k \in Keys : task[k].pc # "idle" \/ late[k] # <<>> => k[2] \in Ledger.managed[k[1]]
    /\ \A s \in round.plan : s \in Ledger.managed[round.at]
    /\ \A k \in Keys : At(k, "done") /\ task[k].result.success /\ task[k].result.final = 0 =>
          k \notin made

(* The round has the follower's positions as they are.                     *)
Seen == \A s \in Symbols : s \in round.snap <=> pos[<<round.at, s>>] # 0

Covered ==
    \A s \in Symbols : pos[<<round.at, s>>] # 0 =>
        \/ s \in Ledger.managed[round.at] \/ s \in Ledger.protected[round.at]
        \/ s \in Ledger.suspended[round.at]

(* What is open and managed has been built by the program alone; between   *)
(* the snapshot of the follower and its plan every position it holds is    *)
(* accounted for.                                                          *)
SeenInv ==
    /\ \A k \in Keys : pos[k] # 0 /\ k[2] \in Ledger.managed[k[1]] => k \in made
    /\ round.pc \in {"protect", "plan"} => Seen
    /\ round.pc = "plan" => Covered

(* Most steps keep the one for itself, and the other with its help.        *)
OwnKept == KnownInv' /\ (SeenInv => SeenInv')

OwnInv == KnownInv /\ SeenInv

-----------------------------------------------------------------------------
(* The ledger the process has, or the next one will load.                  *)

LEMMA Preserving == ASSUME Durable, Shape PROVE preserve
BY DEF Durable, Shape, LedgerInv

LEMMA LedgerSound ==
    ASSUME Shape
    PROVE  /\ Sound(Ledger) /\ (up => Ledger = mem)
           /\ ~up /\ disk # NoFile => Ledger = disk.ledger
           /\ ~up /\ disk = NoFile => Ledger = Own!Blank
BY BlankIsSound, FileFacts DEF Shape, LedgerInv, Ledger, Own!View

LEMMA LedgerStays == ASSUME UNCHANGED ledgerVars PROVE Ledger' = Ledger
BY DEF ledgerVars, Ledger, Own!View

(* A method's result is the ledger from now on, also for the next process. *)
LEMMA LedgerSaved ==
    ASSUME Durable, Shape, KnownInv, up, NEW l, Sound(l), Saved(l) \/ SaveFails(l)
    PROVE  /\ Saved(l) /\ Ledger = mem /\ Ledger' = l /\ mem' = l
           /\ up' /\ disk' = Own!File(l)
<1>1. Saved(l)
  BY DEF SaveFails, Own!WriteFails, Durable
<1>2. up' = up /\ mem' = l
  BY <1>1, Preserving, SavedLedger DEF Shape
<1>3. disk' = Own!File(l)
  BY <1>1, Preserving DEF Saved, Own!Written, KnownInv
<1>4. QED
  BY <1>1, <1>2, <1>3 DEF Ledger, Own!View

LEMMA LedgerSurvives == ASSUME Shape, KnownInv, Crash PROVE Ledger' = Ledger
BY FileFacts DEF Crash, Ledger, Own!View, KnownInv, Shape, LedgerInv

LEMMA LedgerStarts ==
    ASSUME Durable, Shape, StartUp \/ StartUpDies
    PROVE  /\ Ledger'.managed = Ledger.managed /\ Ledger'.observed = Ledger.observed
           /\ Ledger'.suspended = Ledger.suspended
           /\ up' => disk' = Own!File(mem')
<1>. DEFINE p == [f \in Followers |-> HeldBy(f)]
            o == Own!Opened(Held(round.lead), p)
            l(q) == Own!ProtectAll(o, q)
            part(done) == [f \in Followers |-> IF f \in done THEN p[f] ELSE {}]
<1>1. Sound(o) /\ p \in Own!SymbolSets /\ \A done \in SUBSET Followers : part(done) \in Own!SymbolSets
  BY HeldTyped, OpenedSound, UncoveredTyped DEF Shape
<1>2. \A q \in Own!SymbolSets : Sound(l(q))
  BY <1>1, ProtectAllKeepsSound
<1>3. ~up
  BY DEF StartUp, StartUpDies, Shape, RoundInv
<1>4. o.managed = Ledger.managed /\ o.observed = Ledger.observed /\ o.suspended = Ledger.suspended
  <2>1. CASE disk = NoFile
    BY <1>3, <2>1 DEF Own!Opened, Ledger, Own!View, Own!Blank, Own!FirstLedger
  <2>2. CASE disk # NoFile
    BY <1>3, <2>2 DEF Own!Opened, Ledger, Own!View
  <2>3. QED
    BY <2>1, <2>2
<1>5. \A q : /\ l(q).managed = o.managed /\ l(q).observed = o.observed
             /\ l(q).suspended = o.suspended
  BY <1>1 DEF Own!ProtectAll, Sound, Own!Ledgers
<1>6. CASE StartUp
  <2>1. Own!Initialize(Held(round.lead), p)
    BY <1>6, Preserving DEF StartUp
  <2>2. /\ up' /\ mem' = l(p)
        /\ disk' = IF disk = NoFile \/ disk.version = 1 \/ mem' # disk.ledger
                   THEN Own!File(l(p)) ELSE disk
    BY <2>1 DEF Own!Initialize
  <2>3. disk' = Own!File(mem')
    BY <2>2 DEF Shape, LedgerInv
  <2>4. Ledger' = l(p)
    BY <2>2 DEF Ledger, Own!View
  <2>. HIDE DEF o, l, p, part
  <2>5. QED
    BY <1>4, <1>5, <2>3, <2>4
<1>7. CASE StartUpDies
  <2>1. PICK done \in SUBSET Followers : Own!InitializeInterrupted(Held(round.lead), p, done)
    BY <1>7 DEF StartUpDies
  <2>2. disk' = Own!File(l(part(done))) /\ ~up'
    BY <1>3, <2>1 DEF Own!InitializeInterrupted
  <2>3. Sound(l(part(done)))
    BY <1>1, <1>2
  <2>4. Ledger' = l(part(done))
    BY <2>2, <2>3, FileFacts DEF Ledger, Own!View
  <2>. HIDE DEF o, l, p, part
  <2>5. QED
    BY <1>4, <1>5, <2>2, <2>4
<1>8. QED
  BY <1>6, <1>7

-----------------------------------------------------------------------------
(* The program knows its own positions.                                    *)

(* A call that succeeds has read what it reports in the step that ends it. *)
LEMMA SuccessIsRead ==
    ASSUME IInv({}), NEW k \in Keys, Acquire(k) \/ TaskStep(k) \/ Execute(k) \/ Reject(k),
           task'[k].pc = "done", task'[k].result.success
    PROVE  UNCHANGED pos /\ task'[k].result.final = Abs(pos[k])
<1>0. /\ task \in [Keys -> Tasks] /\ task[k] \in Tasks
      /\ task[k].order.state = "sent" => task[k].pc \in {"sent", "verify"}
  BY StepFacts, OrderInHand DEF IInv, Typed
<1>1. ASSUME NEW u, task' = [task EXCEPT ![k] = u] PROVE u.pc = "done" /\ u.result.success
  BY <1>0, <1>1
<1>2. \A pc : pc # "done" => ~Goto(k, pc)
  BY <1>0 DEF Goto, Tasks
<1>3. ~ExecutionFailed(k) /\ ~AfterOrder(k)
  BY <1>0 DEF ExecutionFailed, AfterOrder, Tasks
<1>4. ASSUME NEW r, Finish(k, r) PROVE r.success /\ task'[k].result = r
  BY <1>0, <1>4, NoTaskTyped DEF Finish, NoTask
<1>5. \A a, f, x, n : ~Finish(k, Result(a, f, FALSE, x, n))
  BY <1>4 DEF Result
<1>6. CASE ReadActual(k)
  <2>1. UNCHANGED pos /\ \/ \E a, f, x, n : Finish(k, Result(a, f, FALSE, x, n))
                         \/ \E a, x, n : Finish(k, Result(a, Abs(pos[k]), TRUE, x, n))
                         \/ task' = [task EXCEPT ![k].pc = "risk",
                                       ![k].action = Classify(task[k].target, pos[k]),
                                       ![k].actual = pos[k]]
    BY <1>6 DEF ReadActual
  <2>2. ~(task' = [task EXCEPT ![k].pc = "risk",
                     ![k].action = Classify(task[k].target, pos[k]), ![k].actual = pos[k]])
    <3>. DEFINE u == [task[k] EXCEPT !.pc = "risk", !.action = Classify(task[k].target, pos[k]),
                                     !.actual = pos[k]]
    <3>1. u.pc = "risk"
      BY <1>0 DEF Tasks
    <3>2. ASSUME task' = [task EXCEPT ![k].pc = "risk",
                            ![k].action = Classify(task[k].target, pos[k]), ![k].actual = pos[k]]
          PROVE  task' = [task EXCEPT ![k] = u]
      BY <3>2
    <3>. HIDE DEF u
    <3>3. QED
      BY <1>1, <3>1, <3>2
  <2>3. PICK a, x, n : Finish(k, Result(a, Abs(pos[k]), TRUE, x, n))
    BY <1>5, <2>1, <2>2
  <2>4. task'[k].result.final = Abs(pos[k])
    BY <1>4, <2>3 DEF Result
  <2>5. QED
    BY <2>1, <2>4
<1>7. CASE FinalRead(k)
  BY <1>4, <1>7 DEF FinalRead, Result
<1>8. ~CheckRisk(k)
  <2>1. CheckRisk(k) => \/ \E a, f, x, n : Finish(k, Result(a, f, FALSE, x, n))
                        \/ \E leg : task' = [task EXCEPT ![k].pc = "submit", ![k].leg = leg]
    BY DEF CheckRisk
  <2>2. ASSUME NEW leg PROVE task' # [task EXCEPT ![k].pc = "submit", ![k].leg = leg]
    <3>. DEFINE u == [task[k] EXCEPT !.pc = "submit", !.leg = leg]
    <3>1. u.pc = "submit"
      BY <1>0 DEF Tasks
    <3>2. ASSUME task' = [task EXCEPT ![k].pc = "submit", ![k].leg = leg]
          PROVE  task' = [task EXCEPT ![k] = u]
      BY <3>2
    <3>. HIDE DEF u
    <3>3. QED
      BY <1>1, <3>1, <3>2
  <2>3. QED
    BY <1>5, <2>1, <2>2
<1>9. ~Submit(k)
  <2>1. Submit(k) => \/ Goto(k, "failed")
                     \/ \E o : task' = [task EXCEPT ![k].pc = "sent", ![k].order = o]
    BY DEF Submit
  <2>2. ASSUME NEW o PROVE task' # [task EXCEPT ![k].pc = "sent", ![k].order = o]
    <3>. DEFINE u == [task[k] EXCEPT !.pc = "sent", !.order = o]
    <3>1. u.pc = "sent"
      BY <1>0 DEF Tasks
    <3>2. ASSUME task' = [task EXCEPT ![k].pc = "sent", ![k].order = o]
          PROVE  task' = [task EXCEPT ![k] = u]
      BY <3>2
    <3>. HIDE DEF u
    <3>3. QED
      BY <1>1, <3>1, <3>2
  <2>3. QED
    BY <1>2, <2>1, <2>2
<1>10. ~FlipRisk(k)
  <2>1. FlipRisk(k) => \/ \E a, f, x, n : Finish(k, Result(a, f, FALSE, x, n))
                       \/ task' = [task EXCEPT ![k].pc = "submit", ![k].leg = "flip_open",
                                               ![k].actual = 0]
    BY DEF FlipRisk
  <2>2. task' # [task EXCEPT ![k].pc = "submit", ![k].leg = "flip_open", ![k].actual = 0]
    <3>. DEFINE u == [task[k] EXCEPT !.pc = "submit", !.leg = "flip_open", !.actual = 0]
    <3>1. u.pc = "submit"
      BY <1>0 DEF Tasks
    <3>2. ASSUME task' = [task EXCEPT ![k].pc = "submit", ![k].leg = "flip_open",
                                      ![k].actual = 0]
          PROVE  task' = [task EXCEPT ![k] = u]
      BY <3>2
    <3>. HIDE DEF u
    <3>3. QED
      BY <1>1, <3>1, <3>2
  <2>3. QED
    BY <1>5, <2>1, <2>2
<1>11. ~Acquire(k) /\ ~ReadInitial(k) /\ ~Lost(k) /\ ~VerifyFlat(k) /\ ~FailedRead(k) /\ ~ApiFails(k)
  BY <1>2, <1>3, <1>5 DEF Acquire, ReadInitial, Lost, VerifyFlat, FailedRead, ApiFails
<1>12. ~Answered(k) /\ ~Raised(k) /\ ~Verify(k)
  BY <1>3 DEF Answered, Raised, Verify
<1>13. ~Execute(k) /\ ~Reject(k)
  <2>1. \A o : task' # [task EXCEPT ![k] = [task[k] EXCEPT !.order = o]] \/ task[k].pc = "done"
    BY <1>0 DEF Tasks
  <2>2. task[k].pc # "done" \/ ~(Execute(k) \/ Reject(k))
    BY <1>0 DEF Execute, Reject
  <2>3. QED
    BY <2>1, <2>2, OrderReplaced
<1>14. QED
  BY <1>6, <1>7, <1>8, <1>9, <1>10, <1>11, <1>12, <1>13 DEF TaskStep

(* A step that neither trades nor changes what is managed.                 *)
LEMMA SameOwn ==
    ASSUME Shape, KnownInv, UNCHANGED <<pos, late, made>>, Ledger'.managed = Ledger.managed,
           up' => disk' = Own!File(mem'),
           \A k \in Keys : task'[k] = task[k] \/ task'[k] = NoTask,
           round'.plan = {} \/ (round'.plan = round.plan /\ round'.at = round.at),
           SeenInv /\ round'.pc \in {"protect", "plan"} => Seen',
           SeenInv /\ round'.pc = "plan" => Covered'
    PROVE  OwnKept
<1>1. \A k \in Keys : k \in made' => pos'[k] # 0 /\ k[2] \in Ledger'.managed[k[1]]
  BY DEF KnownInv
<1>2. \A k \in Keys : task'[k].pc # "idle" \/ late'[k] # <<>> => k[2] \in Ledger'.managed[k[1]]
  BY NoTaskTyped DEF KnownInv
<1>3. \A s \in round'.plan : s \in Ledger'.managed[round'.at]
  BY DEF KnownInv
<1>4. \A k \in Keys : task'[k].pc = "done" => task'[k] = task[k]
  BY NoTaskTyped
<1>5. KnownInv'
  BY <1>1, <1>2, <1>3, <1>4 DEF KnownInv, At
<1>6. SeenInv => SeenInv'
  BY DEF SeenInv
<1>7. QED
  BY <1>5, <1>6 DEF OwnKept

(* What a call has reported stays true when the program builds no more.    *)
LEMMA DoneStays ==
    ASSUME KnownInv, made' \subseteq made,
           \A k \in Keys : task'[k] = task[k] \/ task'[k].pc # "done"
    PROVE  \A k \in Keys :
              (At(k, "done") /\ task[k].result.success /\ task[k].result.final = 0)' => k \notin made'
BY DEF KnownInv, At

LEMMA HeldMeans == \A f : \A s \in Symbols : s \in HeldBy(f) <=> pos[<<f, s>>] # 0
BY DEF HeldBy, Held, Account

LEMMA StartOwn ==
    ASSUME Durable, Shape, KnownInv,
           \/ Boot \/ StartUp \/ StartUpDies \/ StartRound \/ ReadLeader \/ ReadLeaderFails
           \/ EndRound \/ \E f \in Followers : SkipFollower(f)
    PROVE  OwnKept
<1>0. round \in Rounds /\ task = NoTasks
  BY IdleTasks DEF Shape, RoundInv, Boot, StartUp, StartUpDies, StartRound, ReadLeader,
        ReadLeaderFails, EndRound, SkipFollower
<1>1. UNCHANGED <<pos, late, made>> /\ \A k \in Keys : task'[k] = task[k] \/ task'[k] = NoTask
  BY <1>0 DEF Boot, StartUp, StartUpDies, StartRound, ReadLeader, ReadLeaderFails, EndRound,
        SkipFollower, vars, history, SaveFails
<1>2. CASE Boot \/ StartRound \/ ReadLeaderFails \/ EndRound \/ \E f \in Followers : SkipFollower(f)
  <2>1. UNCHANGED ledgerVars
    BY <1>2 DEF Boot, StartRound, ReadLeaderFails, EndRound, SkipFollower
  <2>2. /\ round'.plan = {} \/ (round'.plan = round.plan /\ round'.at = round.at)
        /\ round'.pc \in {"boot", "leader", "idle", "follower"}
    BY <1>0, <1>2, RestTyped DEF Boot, StartRound, ReadLeaderFails, EndRound, SkipFollower, Rounds,
          Resting, NoRound
  <2>3. Ledger' = Ledger /\ (up' => disk' = Own!File(mem'))
    BY <2>1, LedgerStays DEF KnownInv, ledgerVars
  <2>4. QED
    BY <1>1, <2>2, <2>3, SameOwn
<1>3. CASE StartUp \/ StartUpDies
  <2>1. round'.plan = {} /\ round'.pc \in {"idle", "down"}
    BY <1>3, RestTyped DEF StartUp, StartUpDies
  <2>2. QED
    BY <1>1, <1>3, <2>1, LedgerStarts, SameOwn
<1>4. CASE ReadLeader
  <2>. DEFINE l == Own!ObserveLeader(mem, Held(leader))
  <2>1. up /\ Sound(l)
    BY <1>4, HeldTyped, ObserveLeaderIsSound DEF ReadLeader, Shape, RoundInv, LedgerInv
  <2>2. /\ Saved(l) \/ SaveFails(l)
        /\ \/ \E e : round' = [round EXCEPT !.pc = "follower", !.lead = leader,
                                            !.leadEquity = e, !.todo = Followers]
           \/ round' = Resting
        /\ round.pc = "leader"
    BY <1>4 DEF ReadLeader, SaveFails
  <2>3. l.managed = mem.managed
    BY DEF Own!ObserveLeader, Shape, LedgerInv, Sound, Own!Ledgers
  <2>. HIDE DEF l
  <2>4. Ledger'.managed = Ledger.managed /\ disk' = Own!File(mem')
    BY <2>1, <2>2, <2>3, LedgerSaved
  <2>5. round'.plan = {} /\ round'.pc \in {"idle", "follower"}
    BY <1>0, <2>2, RestTyped DEF Shape, RoundInv, Rounds
  <2>6. QED
    BY <1>1, <2>4, <2>5, SameOwn
<1>5. QED
  BY <1>2, <1>3, <1>4

(* What has disappeared is not held, so nothing the program built is lost. *)
LEMMA ReadFollowerOwn ==
    ASSUME Durable, Shape, WaitedFor, KnownInv, NEW f \in Followers, ReadFollower(f)
    PROVE  OwnKept
<1>. DEFINE l == Own!ObserveFollower(mem, f, HeldBy(f), Held(round.lead))
<1>1. /\ round.pc = "follower" /\ UNCHANGED <<pos, late, made>> /\ round \in Rounds /\ up
      /\ mem \in Own!Ledgers
  BY DEF ReadFollower, history, Shape, RoundInv, LedgerInv, Sound
<1>2. Sound(l)
  BY HeldTyped, SoundMethods DEF Shape, LedgerInv
<1>3. ~SaveFails(l)
  BY DEF SaveFails, Own!WriteFails, Durable
<1>4. /\ Saved(l) /\ UNCHANGED task
      /\ \E e : round' = [round EXCEPT !.pc = "protect", !.at = f, !.snap = HeldBy(f),
                                       !.equity = e, !.todo = @ \ {f}]
  BY <1>3 DEF ReadFollower
<1>. HIDE DEF l
<1>5. Ledger = mem /\ Ledger' = l /\ up' /\ disk' = Own!File(mem')
  BY <1>1, <1>2, <1>4, LedgerSaved
<1>6. /\ round'.pc = "protect" /\ round'.at = f /\ round'.snap = HeldBy(f) /\ round'.plan = {}
  BY <1>1, <1>4 DEF Rounds, Shape, RoundInv
<1>7. /\ \A g \in Followers : l.managed[g] \subseteq mem.managed[g]
      /\ \A g \in Followers, s \in Symbols :
            s \in mem.managed[g] \ l.managed[g] => g = f /\ s \notin HeldBy(f)
  BY <1>1 DEF l, Own!ObserveFollower, Own!Disappeared, Own!Ledgers, Own!SymbolSets
<1>8. \A k \in Keys : task'[k].pc = "idle" /\ late'[k] = <<>>
  BY <1>1, <1>4, IdleTasks, NoTaskTyped DEF WaitedFor, NoTasks
<1>9. Seen'
  BY <1>1, <1>6, HeldMeans DEF Seen
<1>10. ASSUME NEW k \in Keys, k \in made
      PROVE  pos'[k] # 0 /\ k[2] \in Ledger'.managed[k[1]]
  <2>1. k[1] \in Followers /\ k[2] \in Symbols /\ k = <<k[1], k[2]>>
    BY DEF Keys
  <2>2. pos[k] # 0 => k[2] \in HeldBy(k[1])
    BY <2>1, HeldMeans
  <2>3. pos[k] # 0 /\ k[2] \in mem.managed[k[1]]
    BY <1>5, <1>10 DEF KnownInv
  <2>4. QED
    BY <1>1, <1>5, <1>7, <2>1, <2>2, <2>3
<1>11. \A s \in round'.plan : s \in Ledger'.managed[round'.at]
  BY <1>6
<1>12. KnownInv'
  BY <1>1, <1>5, <1>8, <1>10, <1>11 DEF KnownInv, At
<1>13. SeenInv => \A k \in Keys : pos'[k] # 0 /\ k[2] \in Ledger'.managed[k[1]] => k \in made'
  BY <1>1, <1>5, <1>7 DEF SeenInv, Keys
<1>14. QED
  BY <1>6, <1>9, <1>12, <1>13 DEF OwnKept, SeenInv

LEMMA ProtectOwn ==
    ASSUME Durable, Shape, KnownInv, Protect
    PROVE  OwnKept
<1>. DEFINE l == Own!ProtectUnmanaged(mem, round.at, round.snap)
<1>1. /\ round.pc = "protect" /\ UNCHANGED <<pos, late, made>> /\ round \in Rounds /\ up
      /\ mem \in Own!Ledgers /\ round.at \in Followers
  BY DEF Protect, history, Shape, RoundInv, LedgerInv, Sound
<1>2. Sound(l)
  BY <1>1, SoundMethods DEF Shape, LedgerInv, Rounds
<1>3. ~SaveFails(l)
  BY DEF SaveFails, Own!WriteFails, Durable
<1>4. /\ Saved(l) /\ UNCHANGED task
      /\ round' = [round EXCEPT !.pc = "plan", !.left = RoundSymbols(l)]
  BY <1>3 DEF Protect
<1>. HIDE DEF l
<1>5. Ledger = mem /\ Ledger' = l /\ up' /\ disk' = Own!File(mem')
  BY <1>1, <1>2, <1>4, LedgerSaved
<1>6. /\ round'.pc = "plan" /\ round'.at = round.at /\ round'.snap = round.snap
      /\ round'.plan = {}
  BY <1>1, <1>4 DEF Rounds, Shape, RoundInv
<1>7. /\ l.managed = mem.managed
      /\ \A s \in round.snap : \/ s \in l.managed[round.at] \/ s \in l.protected[round.at]
                               \/ s \in l.suspended[round.at]
  BY <1>1 DEF l, Own!ProtectUnmanaged, Own!Discovered, Own!Ledgers, Own!SymbolSets
<1>8. SeenInv => Seen' /\ Covered'
  BY <1>1, <1>5, <1>6, <1>7 DEF SeenInv, Seen, Covered
<1>9. QED
  BY <1>1, <1>4, <1>5, <1>6, <1>7, <1>8, SameOwn

(* A claim is only for a symbol the follower does not hold.                *)
LEMMA PlanOwn ==
    ASSUME Durable, Shape, KnownInv, NEW s \in Symbols, PlanSymbol(s)
    PROVE  OwnKept
<1>. DEFINE f == round.at
            l == PlanLedger(s)
<1>1. /\ round.pc = "plan" /\ UNCHANGED <<pos, late, made>> /\ round \in Rounds /\ up
      /\ mem \in Own!Ledgers /\ f \in Followers /\ task = NoTasks /\ preserve
  BY PlanCases, IdleTasks, Preserving DEF history, Shape, RoundInv, LedgerInv, Sound
<1>2. Ledger = mem /\ (SeenInv => Seen /\ Covered)
  BY <1>1, LedgerSound DEF SeenInv
<1>3. CASE round' = [round EXCEPT !.left = @ \ {s}] /\ UNCHANGED <<task, ledgerVars>>
  <2>1. /\ round'.plan = round.plan /\ round'.at = f /\ round'.pc = "plan"
        /\ round'.snap = round.snap
    BY <1>1, <1>3 DEF Rounds
  <2>2. Ledger' = Ledger /\ (up' => disk' = Own!File(mem'))
    BY <1>3, LedgerStays DEF ledgerVars, KnownInv
  <2>3. SeenInv => Seen' /\ Covered'
    BY <1>1, <1>2, <2>1, <2>2 DEF Seen, Covered
  <2>4. QED
    BY <1>1, <1>3, <2>1, <2>2, <2>3, SameOwn
<1>4. CASE /\ Sound(l) /\ Saved(l) /\ UNCHANGED task
           /\ s \in mem.managed[f] \/ ~Own!ClaimRefused(mem, f, s)
           /\ \/ round' = [round EXCEPT !.left = @ \ {s}]
              \/ round' = [round EXCEPT !.left = @ \ {s}, !.plan = @ \cup {s}]
  <2>1. Ledger' = l /\ up' /\ disk' = Own!File(mem')
    BY <1>1, <1>4, LedgerSaved
  <2>2. /\ round'.plan \subseteq round.plan \cup {s} /\ round'.at = f /\ round'.pc = "plan"
        /\ round'.snap = round.snap
    BY <1>1, <1>4 DEF Rounds
  <2>3. /\ \A g \in Followers : mem.managed[g] \subseteq l.managed[g]
        /\ s \in l.managed[f]
        /\ l.protected = mem.protected /\ l.suspended = mem.suspended
        /\ \A g \in Followers, q \in Symbols :
              q \in l.managed[g] \ mem.managed[g] =>
                  g = f /\ q = s /\ ~Own!ClaimRefused(mem, f, s) /\ s \notin mem.managed[f]
    BY <1>1, <1>4 DEF PlanLedger, Own!Claim, Own!Ledgers, Own!SymbolSets
  <2>4. SeenInv /\ ~Own!ClaimRefused(mem, f, s) /\ s \notin mem.managed[f] =>
            pos[<<f, s>>] = 0
    BY <1>2 DEF Covered, Own!ClaimRefused
  <2>. HIDE DEF l
  <2>5. ASSUME NEW k \in Keys
        PROVE  /\ k \in made' => pos'[k] # 0 /\ k[2] \in Ledger'.managed[k[1]]
               /\ SeenInv /\ pos'[k] # 0 /\ k[2] \in Ledger'.managed[k[1]] => k \in made'
    <3>1. k[1] \in Followers /\ k[2] \in Symbols /\ k = <<k[1], k[2]>>
      BY DEF Keys
    <3>2. SeenInv /\ k[2] \in l.managed[k[1]] \ mem.managed[k[1]] => pos[k] = 0
      BY <2>3, <2>4, <3>1
    <3>3. /\ k \in made => pos[k] # 0 /\ k[2] \in mem.managed[k[1]]
          /\ SeenInv /\ pos[k] # 0 /\ k[2] \in mem.managed[k[1]] => k \in made
      BY <1>2 DEF KnownInv, SeenInv
    <3>4. QED
      BY <1>1, <2>1, <2>3, <3>1, <3>2, <3>3
  <2>6. \A k \in Keys : task'[k].pc # "idle" \/ late'[k] # <<>> => k[2] \in Ledger'.managed[k[1]]
    <3>1. \A k \in Keys : k[1] \in Followers
      BY DEF Keys
    <3>2. QED
      BY <1>1, <1>2, <1>4, <2>1, <2>3, <3>1 DEF KnownInv
  <2>7. \A q \in round'.plan : q \in Ledger'.managed[round'.at]
    BY <1>1, <1>2, <2>1, <2>2, <2>3 DEF KnownInv
  <2>8. SeenInv => Seen' /\ Covered'
    BY <1>1, <1>2, <2>1, <2>2, <2>3 DEF Seen, Covered
  <2>9. KnownInv'
    BY <1>1, <1>4, <2>1, <2>5, <2>6, <2>7, DoneStays DEF KnownInv
  <2>10. QED
    BY <2>5, <2>8, <2>9 DEF OwnKept, SeenInv
<1>5. ~SaveFails(l)
  BY DEF SaveFails, Own!WriteFails, Durable
<1>6. QED
  BY <1>1, <1>3, <1>4, <1>5, PlanCases


(* Calls are for what is planned.                                          *)
LEMMA GatherOwn ==
    ASSUME Shape, KnownInv, Gather
    PROVE  OwnKept
<1>1. /\ UNCHANGED <<pos, late, made, ledgerVars>> /\ round.pc = "plan" /\ round \in Rounds
      /\ round' = [round EXCEPT !.pc = IF round.plan = {} THEN "follower" ELSE "wait"]
  BY DEF Gather, history, Shape, RoundInv
<1>2. /\ round'.plan = round.plan /\ round'.at = round.at
      /\ round'.pc \notin {"protect", "plan"}
  BY <1>1 DEF Rounds
<1>3. Ledger' = Ledger /\ (up' => disk' = Own!File(mem'))
  BY <1>1, LedgerStays DEF KnownInv, ledgerVars
<1>4. ASSUME NEW k \in Keys, task'[k].pc # "idle" \/ late'[k] # <<>>
      PROVE  k[2] \in Ledger'.managed[k[1]]
  BY <1>1, <1>3, <1>4, GatherCalls, NoTaskTyped DEF KnownInv
<1>5. \A k \in Keys : task'[k].pc # "done"
  BY <1>1, GatherCalls, NoTaskTyped
<1>6. KnownInv'
  BY <1>1, <1>2, <1>3, <1>4, <1>5 DEF KnownInv, At
<1>7. QED
  BY <1>1, <1>2, <1>3, <1>6 DEF OwnKept, SeenInv

(* A symbol is released when its call has succeeded and found the follower *)
(* flat in it: whatever a user has opened since, the program has built none*)
(* of it.                                                                  *)
LEMMA CollectOwn ==
    ASSUME Durable, Shape, WaitedFor, KnownInv, NEW s \in Symbols, Collect(s)
    PROVE  OwnKept
<1>. DEFINE k == <<round.at, s>>
            l == AfterResult(s, task[k].result)
<1>1. /\ k \in Keys /\ round.at \in Followers /\ round.pc = "wait" /\ s \in round.plan
      /\ task[k].pc = "done" /\ UNCHANGED <<pos, late, made>> /\ Sound(l)
      /\ round \in Rounds /\ up /\ mem \in Own!Ledgers
  BY CollectCases DEF history, Shape, RoundInv, LedgerInv, Sound
<1>2. ~SaveFails(l)
  BY DEF SaveFails, Own!WriteFails, Durable
<1>3. /\ Saved(l) /\ task' = [task EXCEPT ![k] = NoTask]
      /\ round' = [round EXCEPT !.plan = @ \ {s},
                                !.pc = IF round.plan = {s} THEN "follower" ELSE "wait"]
  BY <1>2, CollectCases
<1>4. /\ \A g \in Followers : l.managed[g] \subseteq mem.managed[g]
      /\ \A g \in Followers, q \in Symbols : q \in mem.managed[g] \ l.managed[g] =>
            /\ g = round.at /\ q = s
            /\ task[k].result.success /\ task[k].result.final = 0
  BY <1>1 DEF AfterResult, Own!MarkObserved, Own!Release, Own!Ledgers, Own!SymbolSets
<1>5. task[k].result.success /\ task[k].result.final = 0 => k \notin made
  BY <1>1 DEF KnownInv, At
<1>. HIDE DEF l
<1>6. Ledger = mem /\ Ledger' = l /\ up' /\ disk' = Own!File(mem')
  BY <1>1, <1>3, LedgerSaved
<1>7. /\ round'.plan = round.plan \ {s} /\ round'.at = round.at
      /\ round'.pc \notin {"protect", "plan"}
  BY <1>1, <1>3 DEF Rounds
<1>8. /\ task'[k].pc = "idle" /\ late'[k] = <<>>
      /\ \A j \in Keys : j # k => task'[j] = task[j]
  <2>1. task \in [Keys -> Tasks]
    BY DEF Shape, IInv, Typed
  <2>2. QED
    BY <1>1, <1>3, <2>1, NoTaskTyped DEF WaitedFor
<1>9. ASSUME NEW j \in Keys
      PROVE  /\ j \in made' => pos'[j] # 0 /\ j[2] \in Ledger'.managed[j[1]]
             /\ task'[j].pc # "idle" \/ late'[j] # <<>> => j[2] \in Ledger'.managed[j[1]]
             /\ SeenInv /\ pos'[j] # 0 /\ j[2] \in Ledger'.managed[j[1]] => j \in made'
  <2>1. j[1] \in Followers /\ j[2] \in Symbols /\ (j[1] = round.at /\ j[2] = s => j = k)
    BY DEF Keys
  <2>2. /\ j \in made => pos[j] # 0 /\ j[2] \in mem.managed[j[1]]
        /\ task[j].pc # "idle" \/ late[j] # <<>> => j[2] \in mem.managed[j[1]]
        /\ SeenInv /\ pos[j] # 0 /\ j[2] \in mem.managed[j[1]] => j \in made
    BY <1>6 DEF KnownInv, SeenInv
  <2>3. j[2] \in mem.managed[j[1]] \ l.managed[j[1]] => j = k /\ k \notin made
    BY <1>4, <1>5, <2>1
  <2>4. l.managed[j[1]] \subseteq mem.managed[j[1]]
    BY <1>4, <2>1
  <2>. HIDE DEF k
  <2>5. QED
    BY <1>1, <1>6, <1>8, <2>2, <2>3, <2>4
<1>10. \A q \in round'.plan : q \in Ledger'.managed[round'.at]
  <2>1. \A q \in round.plan : q \in Symbols /\ q \in mem.managed[round.at]
    BY <1>1, <1>6 DEF KnownInv, Rounds
  <2>2. QED
    BY <1>1, <1>4, <1>6, <1>7, <2>1
<1>11. \A j \in Keys : task'[j] = task[j] \/ task'[j].pc # "done"
  BY <1>8
<1>12. KnownInv'
  BY <1>1, <1>6, <1>9, <1>10, <1>11, DoneStays DEF KnownInv
<1>13. QED
  BY <1>7, <1>9, <1>12 DEF OwnKept, SeenInv

(* Only the follower's managed symbols are traded, so what the program     *)
(* opens is its own.                                                       *)
LEMMA CallStepOwn ==
    ASSUME Shape, WaitedFor, KnownInv, NEW k \in Keys, ReconcileStep(k)
    PROVE  OwnKept
<1>1. /\ \A j \in Keys : j # k => task'[j] = task[j] /\ pos'[j] = pos[j] /\ late'[j] = late[j]
      /\ \/ task[k].pc # "idle" /\ task'[k].pc # "idle"
         \/ UNCHANGED task /\ late[k] # <<>>
         \/ UNCHANGED <<task, pos, late>>
      /\ UNCHANGED <<ledgerVars, round>>
  BY StepLocal
<1>2. Ledger' = Ledger /\ (up' => disk' = Own!File(mem'))
  BY <1>1, LedgerStays DEF KnownInv, ledgerVars
<1>3. \A j \in Keys : task'[j].pc # "idle" \/ late'[j] # <<>> => j[2] \in Ledger'.managed[j[1]]
  BY <1>1, <1>2 DEF KnownInv
<1>4. pos'[k] # pos[k] => k[2] \in Ledger.managed[k[1]]
  BY <1>1 DEF KnownInv
<1>5. made' = IF pos[k] = 0 /\ pos'[k] # 0 THEN made \cup {k}
              ELSE IF pos[k] # 0 /\ pos'[k] = 0 THEN made \ {k} ELSE made
  BY DEF ReconcileStep, Built
<1>6. /\ k \in made => pos[k] # 0 /\ k[2] \in Ledger.managed[k[1]]
      /\ SeenInv /\ pos[k] # 0 /\ k[2] \in Ledger.managed[k[1]] => k \in made
  BY DEF KnownInv, SeenInv
<1>7. /\ k \in made' => pos'[k] # 0 /\ k[2] \in Ledger'.managed[k[1]]
      /\ SeenInv /\ pos'[k] # 0 /\ k[2] \in Ledger'.managed[k[1]] => k \in made'
  <2>1. CASE pos[k] = 0 /\ pos'[k] # 0
    BY <1>2, <1>4, <1>5, <2>1
  <2>2. CASE pos[k] # 0 /\ pos'[k] = 0
    BY <1>5, <2>2
  <2>3. CASE pos[k] = 0 <=> pos'[k] = 0
    BY <1>2, <1>5, <1>6, <2>3
  <2>4. QED
    BY <2>1, <2>2, <2>3
<1>8. ASSUME NEW j \in Keys, j # k
      PROVE  /\ j \in made' => pos'[j] # 0 /\ j[2] \in Ledger'.managed[j[1]]
             /\ SeenInv /\ pos'[j] # 0 /\ j[2] \in Ledger'.managed[j[1]] => j \in made'
             /\ task'[j] = task[j] /\ (j \in made' <=> j \in made)
  BY <1>1, <1>2, <1>5, <1>8 DEF KnownInv, SeenInv
<1>9. At(k, "done")' /\ task'[k].result.success /\ task'[k].result.final = 0 => k \notin made'
  <2>1. SUFFICES ASSUME task'[k].pc = "done", task'[k].result.success, task'[k].result.final = 0
                 PROVE  k \notin made'
    BY DEF At
  <2>2. CASE Acquire(k) \/ TaskStep(k) \/ Execute(k) \/ Reject(k)
    <3>1. UNCHANGED pos /\ Abs(pos[k]) = 0 /\ pos[k] \in Int
      BY <2>1, <2>2, SuccessIsRead DEF Shape, IInv, Typed
    <3>2. pos[k] = 0
      BY <3>1 DEF Abs
    <3>3. QED
      BY <1>5, <1>6, <3>1, <3>2
  <2>3. CASE Expire(k)
    BY <1>5, <2>1, <2>3 DEF Expire, KnownInv, At
  <2>4. CASE ResolveLate(k)
    <3>1. task[k].pc = "done" /\ late[k] # <<>>
      BY <2>1, <2>4 DEF ResolveLate
    <3>2. round.pc # "down"
      BY <3>1, IdleTasks, NoTaskTyped DEF NoTasks
    <3>3. QED
      BY <3>1, <3>2 DEF WaitedFor
  <2>5. QED
    BY <2>2, <2>3, <2>4 DEF ReconcileStep
<1>10. \A s \in round'.plan : s \in Ledger'.managed[round'.at]
  BY <1>1, <1>2 DEF KnownInv
<1>11. KnownInv'
  <2>1. ASSUME NEW j \in Keys
        PROVE  (At(j, "done") /\ task[j].result.success /\ task[j].result.final = 0)' =>
                   j \notin made'
    BY <1>8, <1>9 DEF KnownInv, At
  <2>2. QED
    BY <1>2, <1>3, <1>7, <1>8, <1>10, <2>1 DEF KnownInv
<1>12. SeenInv => SeenInv'
  <2>1. round.pc \in {"protect", "plan"} => UNCHANGED pos
    BY <1>1, IdleTasks, NoTaskTyped DEF WaitedFor, NoTasks
  <2>2. SeenInv => /\ round'.pc \in {"protect", "plan"} => Seen'
                   /\ round'.pc = "plan" => Covered'
    BY <1>1, <1>2, <2>1 DEF SeenInv, Seen, Covered
  <2>3. QED
    BY <1>7, <1>8, <2>2 DEF SeenInv
<1>13. QED
  BY <1>11, <1>12 DEF OwnKept

(* What a user moves is no longer the program's alone; between two rounds, *)
(* of what it has built, a user closes, and no more.                       *)
LEMMA UserOwn ==
    ASSUME Durable, Shape, KnownInv, NEW k \in Keys, FollowerUserTrades(k)
    PROVE  KnownInv' /\ (~UsersTradeMidRound /\ SeenInv => SeenInv')
<1>1. /\ UNCHANGED <<late, task, ledgerVars, round>> /\ made' = made \ {k}
      /\ k[2] \in Ledger.managed[k[1]] => pos'[k] = 0
      /\ \E p : pos' = [pos EXCEPT ![k] = p]
      /\ UsersTradeMidRound \/ round.pc \in {"down", "idle"}
  BY Preserving DEF FollowerUserTrades, UserTrade
<1>2. pos \in [Keys -> Int]
  BY DEF Shape, IInv, Typed
<1>3. Ledger' = Ledger /\ (up' => disk' = Own!File(mem'))
  BY <1>1, LedgerStays DEF KnownInv, ledgerVars
<1>4. \A j \in Keys : j \in made' => pos'[j] # 0 /\ j[2] \in Ledger'.managed[j[1]]
  BY <1>1, <1>2, <1>3 DEF KnownInv
<1>5. SeenInv => \A j \in Keys : pos'[j] # 0 /\ j[2] \in Ledger'.managed[j[1]] => j \in made'
  BY <1>1, <1>2, <1>3 DEF SeenInv
<1>6. KnownInv'
  BY <1>1, <1>3, <1>4, DoneStays DEF KnownInv
<1>7. QED
  BY <1>1, <1>5, <1>6 DEF SeenInv

LEMMA CrashOwn ==
    ASSUME Shape, KnownInv, Crash
    PROVE  OwnKept
<1>1. /\ UNCHANGED <<pos, made>> /\ ~up' /\ task' = NoTasks
      /\ round'.plan = {} /\ round'.pc = "down"
  BY RestTyped DEF Crash, history
<1>2. ASSUME NEW k \in Keys, late'[k] # <<>>
      PROVE  late[k] # <<>> \/ task[k].pc # "idle"
  <2>1. task[k].pc = "idle" => ~Live(task[k].order)
    BY IdleHasNoOrder
  <2>2. QED
    BY <1>2, <2>1 DEF Crash
<1>3. \A k \in Keys : task'[k].pc = "idle"
  BY <1>1, NoTaskTyped DEF NoTasks
<1>4. QED
  <2>1. KnownInv'
    BY <1>1, <1>2, <1>3, LedgerSurvives DEF KnownInv, At
  <2>2. SeenInv => SeenInv'
    BY <1>1, LedgerSurvives DEF SeenInv
  <2>3. QED
    BY <2>1, <2>2 DEF OwnKept

LEMMA NextOwn ==
    ASSUME Durable, Shape, WaitedFor, KnownInv, [SystemNext]_allVars
    PROVE  KnownInv' /\ (~UsersTradeMidRound /\ SeenInv => SeenInv')
<1>1. CASE UNCHANGED allVars \/ \E s \in Symbols : LeaderTrade(s)
  <2>1. UNCHANGED <<pos, late, task, made, ledgerVars, round>>
    BY <1>1 DEF LeaderTrade, allVars, appVars, vars, history
  <2>2. Ledger' = Ledger /\ (up' => disk' = Own!File(mem'))
    BY <2>1, LedgerStays DEF KnownInv, ledgerVars
  <2>3. SeenInv => /\ round'.pc \in {"protect", "plan"} => Seen'
                   /\ round'.pc = "plan" => Covered'
    BY <2>1, <2>2 DEF SeenInv, Seen, Covered
  <2>4. OwnKept
    BY <2>1, <2>2, <2>3, SameOwn
  <2>5. QED
    BY <2>4 DEF OwnKept
<1>2. CASE RoundStep
  <2>1. OwnKept
    BY <1>2, StartOwn, ReadFollowerOwn, ProtectOwn, PlanOwn, GatherOwn, CollectOwn DEF RoundStep
  <2>2. QED
    BY <2>1 DEF OwnKept
<1>3. CASE Crash \/ \E k \in Keys : ReconcileStep(k)
  <2>1. OwnKept
    BY <1>3, CallStepOwn, CrashOwn
  <2>2. QED
    BY <2>1 DEF OwnKept
<1>4. QED
  BY <1>1, <1>2, <1>3, UserOwn DEF SystemNext

LEMMA InitOwn == SystemInit => OwnInv /\ WaitedFor
<1>. SUFFICES ASSUME SystemInit PROVE OwnInv /\ WaitedFor
  OBVIOUS
<1>1. /\ task = NoTasks /\ late = [k \in Keys |-> <<>>] /\ made = {} /\ ~up
      /\ disk = NoFile /\ round.plan = {} /\ round.pc = "down"
  BY RestTyped DEF SystemInit, Init, NoTasks
<1>2. Ledger = Own!Blank
  BY <1>1 DEF Ledger, Own!View
<1>3. \A k \in Keys : k[2] \notin Ledger.managed[k[1]]
  BY <1>2 DEF Own!Blank, Own!FirstLedger, Own!NoSymbols, Keys
<1>4. KnownInv
  BY <1>1, <1>3, NoTaskTyped DEF KnownInv, NoTasks, At
<1>5. SeenInv
  BY <1>1, <1>3 DEF SeenInv
<1>6. QED
  BY <1>1, <1>4, <1>5 DEF OwnInv, WaitedFor

(* The histories are of keys; a pause is of a closed position.             *)
HistoryInv == made \subseteq Keys /\ closed \subseteq Keys /\ paused \subseteq closed

LEMMA NextHistory ==
    ASSUME Shape, HistoryInv, [SystemNext]_allVars
    PROVE  HistoryInv'
<1>1. CASE RoundStep \/ Crash \/ UNCHANGED allVars
  <2>1. UNCHANGED <<made, closed, paused>>
    BY <1>1, PlanCases, CollectCases DEF RoundStep, Boot, StartUp, StartUpDies, StartRound,
       ReadLeader, ReadLeaderFails, ReadFollower, SkipFollower, EndRound, Protect, Gather, Crash,
       allVars, appVars, history
  <2>2. QED
    BY <2>1 DEF HistoryInv
<1>2. CASE \E s \in Symbols : LeaderTrade(s)
  BY <1>2 DEF LeaderTrade, HistoryInv
<1>3. CASE \E k \in Keys : FollowerUserTrades(k)
  BY <1>3 DEF FollowerUserTrades, HistoryInv
<1>4. CASE \E k \in Keys : ReconcileStep(k)
  BY <1>4 DEF ReconcileStep, Built, HistoryInv
<1>5. QED
  BY <1>1, <1>2, <1>3, <1>4 DEF SystemNext

LEMMA InitHistory == SystemInit => HistoryInv
BY DEF SystemInit, HistoryInv

LEMMA KnownInvariance ==
    ASSUME Durable
    PROVE  SystemSpec => [](WaitedFor /\ HistoryInv /\ KnownInv)
<1>1. Shape /\ WaitedFor /\ HistoryInv /\ KnownInv /\ [SystemNext]_allVars =>
          WaitedFor' /\ HistoryInv' /\ KnownInv'
  BY NextWaitedFor, NextHistory, NextOwn DEF Durable
<1>2. SystemInit => KnownInv
  BY InitOwn DEF OwnInv
<1>3. QED
  BY <1>1, <1>2, InitOwn, InitHistory, SystemShape, PTL DEF SystemSpec

LEMMA OwnInvariance ==
    ASSUME Undisturbed
    PROVE  SystemSpec => [](WaitedFor /\ HistoryInv /\ OwnInv)
<1>1. Shape /\ WaitedFor /\ HistoryInv /\ OwnInv /\ [SystemNext]_allVars =>
          WaitedFor' /\ HistoryInv' /\ OwnInv'
  BY NextWaitedFor, NextHistory, NextOwn DEF Undisturbed, Durable, OwnInv
<1>2. QED
  BY <1>1, InitOwn, InitHistory, SystemShape, PTL DEF SystemSpec

(* A position the program built is managed until it is closed: through     *)
(* every round, crash and restart the file knows it, also while users trade*)
(* in the middle of a round.                                               *)
THEOREM BuiltPositionsAreManaged ==
    ASSUME Durable
    PROVE  SystemSpec => []OwnPositionsManaged
<1>1. HistoryInv /\ KnownInv => OwnPositionsManaged
  BY DEF HistoryInv, KnownInv, OwnPositionsManaged
<1>2. QED
  BY <1>1, KnownInvariance, PTL

(* The program trades a position only if it alone has built it: calls are  *)
(* for managed symbols, and what is held in one is the program's.          *)
THEOREM OthersPositionsAreLeftAlone ==
    ASSUME Undisturbed
    PROVE  SystemSpec => OnlyOwnPositions
<1>1. Shape /\ OwnInv /\ [SystemNext]_allVars =>
          [\A k \in Keys : Trades(k) /\ pos[k] # 0 => k \in made]_allVars
  BY TradesOfCalls DEF OwnInv, KnownInv, SeenInv
<1>2. QED
  BY <1>1, OwnInvariance, SystemShape, PTL DEF SystemSpec, OnlyOwnPositions

-----------------------------------------------------------------------------
(* What somebody else closed stays closed.                                 *)

Suspended(k) == k[2] \in Ledger.suspended[k[1]]
Observed(k) == k[2] \in Ledger.observed[k[1]]

Reading == {"follower", "protect", "plan", "wait"}

(* A pause is in the ledger, as a suspension or as a mark the next round   *)
(* turns into one: that round has read the leader as not flat, and from the*)
(* follower's snapshot on the suspension is in force.                      *)
SuspInv ==
    /\ \A k \in closed : leader[k[2]] # 0
    /\ \A k \in paused : Suspended(k) \/ (Observed(k) /\ pos[k] = 0)
    /\ round.pc \in Reading => \A k \in paused : round.lead[k[2]] # 0
    /\ round.pc \in Reading \ {"follower"} =>
          \A k \in paused : k[1] = round.at => Suspended(k)

(* A step that leaves the pauses in the ledger and in the round.           *)
LEMMA SameSusp ==
    ASSUME SuspInv, UNCHANGED <<pos, leader, closed, paused>>,
           Ledger'.suspended = Ledger.suspended, Ledger'.observed = Ledger.observed,
           \/ round'.pc \notin Reading
           \/ /\ round'.lead = round.lead /\ round.pc \in Reading
              /\ \/ round'.pc = "follower"
                 \/ round'.at = round.at /\ round.pc # "follower"
    PROVE  SuspInv'
<1>1. \A k : (Suspended(k)' <=> Suspended(k)) /\ (Observed(k)' <=> Observed(k))
  BY DEF Suspended, Observed
<1>2. \A k \in closed' : leader'[k[2]] # 0
  BY DEF SuspInv
<1>3. \A k \in paused' : Suspended(k)' \/ (Observed(k)' /\ pos'[k] = 0)
  BY <1>1 DEF SuspInv
<1>4. round'.pc \in Reading => \A k \in paused' : round'.lead[k[2]] # 0
  BY DEF SuspInv
<1>5. round'.pc \in Reading \ {"follower"} =>
          \A k \in paused' : k[1] = round'.at => Suspended(k)'
  BY <1>1 DEF SuspInv, Reading
<1>6. QED
  BY <1>2, <1>3, <1>4, <1>5 DEF SuspInv

LEMMA StartSusp ==
    ASSUME Undisturbed, Shape, OwnInv, SuspInv,
           \/ Boot \/ StartUp \/ StartUpDies \/ StartRound \/ ReadLeaderFails \/ EndRound \/ Gather
           \/ Crash \/ Protect \/ \E f \in Followers : SkipFollower(f)
    PROVE  SuspInv'
<1>0. round \in Rounds
  BY DEF Shape, RoundInv
<1>1. UNCHANGED <<pos, leader, closed, paused>>
  BY DEF Boot, StartUp, StartUpDies, StartRound, ReadLeaderFails, EndRound, Gather, Crash,
        Protect, SkipFollower, vars, history
<1>2. CASE Boot \/ StartRound \/ ReadLeaderFails \/ EndRound \/ Crash
  <2>1. Ledger' = Ledger
    BY <1>2, LedgerStays, LedgerSurvives DEF OwnInv, Boot, StartRound, ReadLeaderFails, EndRound
  <2>2. round'.pc \notin Reading
    BY <1>2, RestTyped DEF Boot, StartRound, ReadLeaderFails, EndRound, Crash, Reading, Resting,
          NoRound
  <2>3. QED
    BY <1>1, <2>1, <2>2, SameSusp
<1>3. CASE StartUp \/ StartUpDies
  <2>1. round'.pc \notin Reading
    BY <1>3, RestTyped DEF StartUp, StartUpDies, Reading
  <2>2. QED
    BY <1>1, <1>3, <2>1, LedgerStarts, SameSusp DEF OwnInv, Undisturbed
<1>4. CASE Gather \/ \E f \in Followers : SkipFollower(f)
  <2>1. Ledger' = Ledger
    BY <1>4, LedgerStays DEF Gather, SkipFollower
  <2>2. /\ round'.lead = round.lead /\ round.pc \in Reading
        /\ \/ round'.pc = "follower"
           \/ round'.at = round.at /\ round.pc # "follower"
    BY <1>0, <1>4 DEF Gather, SkipFollower, Rounds, Reading
  <2>3. QED
    BY <1>1, <2>1, <2>2, SameSusp
<1>5. CASE Protect
  <2>. DEFINE l == Own!ProtectUnmanaged(mem, round.at, round.snap)
  <2>1. Sound(l) /\ up /\ l.suspended = mem.suspended /\ l.observed = mem.observed
    BY <1>0, <1>5, SoundMethods DEF Protect, Shape, RoundInv, LedgerInv, Rounds, Sound,
          Own!Ledgers, Own!ProtectUnmanaged
  <2>2. ~SaveFails(l)
    BY DEF SaveFails, Own!WriteFails, Undisturbed, Durable
  <2>3. /\ Saved(l) /\ round.pc = "protect"
        /\ round' = [round EXCEPT !.pc = "plan", !.left = RoundSymbols(l)]
    BY <1>5, <2>2 DEF Protect
  <2>. HIDE DEF l
  <2>4. Ledger = mem /\ Ledger' = l
    BY <2>1, <2>3, LedgerSaved DEF OwnInv, Undisturbed
  <2>5. round'.lead = round.lead /\ round.pc \in Reading /\ round'.at = round.at
    BY <1>0, <2>3 DEF Rounds, Reading
  <2>6. QED
    BY <1>1, <2>1, <2>3, <2>4, <2>5, SameSusp
<1>6. QED
  BY <1>2, <1>3, <1>4, <1>5

(* What is suspended stays so while the leader is not flat.                *)
LEMMA ReadLeaderSusp ==
    ASSUME Undisturbed, Shape, OwnInv, HistoryInv, SuspInv, ReadLeader
    PROVE  SuspInv'
<1>. DEFINE l == Own!ObserveLeader(mem, Held(leader))
<1>1. /\ UNCHANGED <<pos, leader, closed, paused>> /\ up /\ Sound(l)
      /\ round \in Rounds /\ mem \in Own!Ledgers
  BY HeldTyped, ObserveLeaderIsSound DEF ReadLeader, history, Shape, RoundInv, LedgerInv, Sound
<1>2. ~SaveFails(l)
  BY DEF SaveFails, Own!WriteFails, Undisturbed, Durable
<1>3. /\ Saved(l)
      /\ \E e : round' = [round EXCEPT !.pc = "follower", !.lead = leader,
                                       !.leadEquity = e, !.todo = Followers]
  BY <1>2 DEF ReadLeader
<1>4. \A k \in paused : k \in Keys /\ leader[k[2]] # 0
  BY DEF HistoryInv, SuspInv
<1>5. /\ l.observed = mem.observed
      /\ \A f \in Followers : l.suspended[f] = mem.suspended[f] \cap Held(leader)
  BY <1>1 DEF Own!ObserveLeader, Own!Ledgers
<1>. HIDE DEF l
<1>6. Ledger = mem /\ Ledger' = l
  BY <1>1, <1>3, LedgerSaved DEF OwnInv, Undisturbed
<1>7. round'.pc = "follower" /\ round'.lead = leader
  BY <1>1, <1>3 DEF Rounds
<1>8. ASSUME NEW k \in paused
      PROVE  Suspended(k)' \/ (Observed(k)' /\ pos'[k] = 0)
  <2>1. k[1] \in Followers /\ k[2] \in Held(leader)
    BY <1>4 DEF Keys, Held
  <2>2. Suspended(k) \/ (Observed(k) /\ pos[k] = 0)
    BY DEF SuspInv
  <2>3. QED
    BY <1>1, <1>5, <1>6, <2>1, <2>2 DEF Suspended, Observed
<1>9. QED
  BY <1>1, <1>4, <1>7, <1>8 DEF SuspInv, Reading

(* A mark whose position is gone becomes a suspension.                     *)
LEMMA ReadFollowerSusp ==
    ASSUME Undisturbed, Shape, OwnInv, HistoryInv, SuspInv, NEW f \in Followers, ReadFollower(f)
    PROVE  SuspInv'
<1>. DEFINE l == Own!ObserveFollower(mem, f, HeldBy(f), Held(round.lead))
<1>1. /\ round.pc = "follower" /\ UNCHANGED <<pos, leader, closed, paused>>
      /\ round \in Rounds /\ up /\ mem \in Own!Ledgers
  BY DEF ReadFollower, history, Shape, RoundInv, LedgerInv, Sound
<1>2. Sound(l)
  BY HeldTyped, SoundMethods DEF Shape, LedgerInv
<1>3. ~SaveFails(l)
  BY DEF SaveFails, Own!WriteFails, Undisturbed, Durable
<1>4. /\ Saved(l)
      /\ \E e : round' = [round EXCEPT !.pc = "protect", !.at = f, !.snap = HeldBy(f),
                                       !.equity = e, !.todo = @ \ {f}]
  BY <1>3 DEF ReadFollower
<1>5. /\ \A g \in Followers : mem.suspended[g] \subseteq l.suspended[g]
      /\ \A g \in Followers : g # f => l.observed[g] = mem.observed[g]
      /\ \A s \in mem.observed[f] : s \notin HeldBy(f) /\ s \in Held(round.lead) =>
            s \in l.suspended[f]
  BY <1>1 DEF Own!ObserveFollower, Own!Disappeared, Own!Ledgers, Own!SymbolSets
<1>. HIDE DEF l
<1>6. Ledger = mem /\ Ledger' = l
  BY <1>1, <1>2, <1>4, LedgerSaved DEF OwnInv, Undisturbed
<1>7. round'.pc = "protect" /\ round'.lead = round.lead /\ round'.at = f
  BY <1>1, <1>4 DEF Rounds
<1>8. ASSUME NEW k \in paused
      PROVE  /\ Suspended(k)' \/ (Observed(k)' /\ pos'[k] = 0)
             /\ k[1] = f => Suspended(k)'
  <2>1. /\ k[1] \in Followers /\ k[2] \in Symbols /\ k = <<k[1], k[2]>>
        /\ k[2] \in Held(round.lead)
    BY <1>1 DEF HistoryInv, SuspInv, Reading, Keys, Held
  <2>2. Suspended(k) \/ (Observed(k) /\ pos[k] = 0)
    BY DEF SuspInv
  <2>3. Suspended(k) => Suspended(k)'
    BY <1>5, <1>6, <2>1 DEF Suspended
  <2>4. CASE k[1] = f /\ Observed(k) /\ pos[k] = 0
    <3>1. k[2] \notin HeldBy(f)
      BY <2>1, <2>4, HeldMeans
    <3>2. Suspended(k)'
      BY <1>5, <1>6, <2>1, <2>4, <3>1 DEF Suspended, Observed
    <3>3. QED
      BY <3>2
  <2>5. CASE k[1] # f /\ Observed(k) /\ pos[k] = 0
    BY <1>1, <1>5, <1>6, <2>1, <2>5 DEF Observed
  <2>6. QED
    BY <2>2, <2>3, <2>4, <2>5
<1>9. \A k \in paused : round'.lead[k[2]] # 0
  BY <1>1, <1>7 DEF SuspInv, Reading
<1>10. QED
  BY <1>1, <1>7, <1>8, <1>9 DEF SuspInv, Reading

LEMMA PlanSusp ==
    ASSUME Undisturbed, Shape, OwnInv, SuspInv, NEW s \in Symbols, PlanSymbol(s)
    PROVE  SuspInv'
<1>. DEFINE l == PlanLedger(s)
<1>1. /\ round.pc = "plan" /\ UNCHANGED <<pos, leader, closed, paused>>
      /\ round \in Rounds /\ up /\ mem \in Own!Ledgers
  BY PlanCases DEF history, Shape, RoundInv, LedgerInv, Sound
<1>2. ~SaveFails(l)
  BY DEF SaveFails, Own!WriteFails, Undisturbed, Durable
<1>3. /\ UNCHANGED ledgerVars \/ (Sound(l) /\ Saved(l))
      /\ \/ round' = [round EXCEPT !.left = @ \ {s}]
         \/ round' = [round EXCEPT !.left = @ \ {s}, !.plan = @ \cup {s}]
  BY <1>2, PlanCases
<1>4. l.suspended = mem.suspended /\ l.observed = mem.observed
  BY <1>1 DEF PlanLedger, Own!Claim, Own!Ledgers
<1>. HIDE DEF l
<1>5. Ledger'.suspended = Ledger.suspended /\ Ledger'.observed = Ledger.observed
  BY <1>1, <1>3, <1>4, LedgerSaved, LedgerStays DEF OwnInv, Undisturbed
<1>6. round'.lead = round.lead /\ round'.at = round.at
  BY <1>1, <1>3 DEF Rounds
<1>7. QED
  BY <1>1, <1>5, <1>6, SameSusp DEF Reading

(* The follower at hand is paused by suspensions only, which no result     *)
(* ends.                                                                   *)
LEMMA CollectSusp ==
    ASSUME Undisturbed, Shape, OwnInv, HistoryInv, SuspInv, NEW s \in Symbols, Collect(s)
    PROVE  SuspInv'
<1>. DEFINE l == AfterResult(s, task[<<round.at, s>>].result)
<1>1. /\ round.at \in Followers /\ round.pc = "wait" /\ Sound(l)
      /\ UNCHANGED <<pos, leader, closed, paused>> /\ round \in Rounds /\ up
      /\ mem \in Own!Ledgers
  BY CollectCases DEF history, Shape, RoundInv, LedgerInv, Sound
<1>2. ~SaveFails(l)
  BY DEF SaveFails, Own!WriteFails, Undisturbed, Durable
<1>3. /\ Saved(l)
      /\ round' = [round EXCEPT !.plan = @ \ {s},
                                !.pc = IF round.plan = {s} THEN "follower" ELSE "wait"]
  BY <1>2, CollectCases
<1>4. /\ l.suspended = mem.suspended
      /\ \A g \in Followers : g # round.at => l.observed[g] = mem.observed[g]
  BY <1>1 DEF AfterResult, Own!MarkObserved, Own!Release, Own!Ledgers, Own!SymbolSets
<1>. HIDE DEF l
<1>5. Ledger = mem /\ Ledger' = l
  BY <1>1, <1>3, LedgerSaved DEF OwnInv, Undisturbed
<1>6. /\ round'.lead = round.lead /\ round'.at = round.at /\ round'.pc \in Reading
  BY <1>1, <1>3 DEF Rounds, Reading
<1>7. ASSUME NEW k \in paused
      PROVE  /\ Suspended(k)' \/ (Observed(k)' /\ pos'[k] = 0)
             /\ k[1] = round'.at => Suspended(k)'
  <2>1. k[1] \in Followers
    BY DEF HistoryInv, Keys
  <2>2. /\ Suspended(k) \/ (Observed(k) /\ pos[k] = 0)
        /\ k[1] = round.at => Suspended(k)
    BY <1>1 DEF SuspInv, Reading
  <2>3. QED
    BY <1>1, <1>4, <1>5, <1>6, <2>1, <2>2 DEF Suspended, Observed
<1>8. \A k \in paused : round'.lead[k[2]] # 0
  BY <1>1, <1>6 DEF SuspInv, Reading
<1>9. QED
  BY <1>1, <1>7, <1>8 DEF SuspInv

(* While the process runs, a paused key is not traded.                     *)
LEMMA PausedRests ==
    ASSUME Shape, WaitedFor, OwnInv, HistoryInv, SuspInv, NEW k \in paused, round.pc # "down"
    PROVE  task[k].pc = "idle" /\ late[k] = <<>>
<1>1. k \in Keys
  BY DEF HistoryInv
<1>2. late[k] = <<>>
  BY <1>1 DEF WaitedFor
<1>3. SUFFICES ASSUME task[k].pc # "idle" PROVE FALSE
  BY <1>2
<1>4. round.pc = "wait" /\ k[1] = round.at /\ k[2] \in Ledger.managed[k[1]]
  BY <1>1, <1>3, NoTaskTyped DEF Shape, RoundInv, OwnInv, KnownInv, SeenInv
<1>5. Suspended(k)
  BY <1>4 DEF SuspInv, Reading
<1>6. QED
  BY <1>1, <1>4, <1>5, LedgerSound DEF Suspended, Sound, Own!LoadAccepts, Keys

LEMMA CallStepSusp ==
    ASSUME Shape, WaitedFor, OwnInv, HistoryInv, SuspInv, NEW k \in Keys, ReconcileStep(k)
    PROVE  SuspInv'
<1>1. /\ \A j \in Keys : j # k => pos'[j] = pos[j]
      /\ task[k].pc # "idle" \/ late[k] # <<>> \/ UNCHANGED pos
      /\ UNCHANGED <<ledgerVars, round, leader>>
  BY StepLocal
<1>2. /\ closed' \subseteq closed /\ paused' = paused \cap closed'
      /\ round.pc = "down" /\ pos[k] = 0 /\ pos'[k] # 0 => k \notin closed'
  BY DEF ReconcileStep, Built
<1>3. Ledger' = Ledger
  BY <1>1, LedgerStays
<1>4. ASSUME NEW j \in paused'
      PROVE  Suspended(j)' \/ (Observed(j)' /\ pos'[j] = 0)
  <2>1. j \in Keys /\ j \in paused /\ j \in closed'
    BY <1>2 DEF HistoryInv
  <2>2. Suspended(j) \/ (Observed(j) /\ pos[j] = 0)
    BY <2>1 DEF SuspInv
  <2>3. pos[j] = 0 => pos'[j] = 0
    <3>1. CASE round.pc = "down"
      BY <1>1, <1>2, <2>1, <3>1
    <3>2. CASE round.pc # "down"
      BY <1>1, <2>1, <3>2, PausedRests
    <3>3. QED
      BY <3>1, <3>2
  <2>4. QED
    BY <1>3, <2>2, <2>3 DEF Suspended, Observed
<1>5. QED
  BY <1>1, <1>2, <1>3, <1>4 DEF SuspInv, Suspended

(* Somebody else closes: what is marked observed is paused.                *)
LEMMA UserSusp ==
    ASSUME Undisturbed, Shape, HistoryInv, SuspInv, NEW k \in Keys, FollowerUserTrades(k)
    PROVE  SuspInv'
<1>1. /\ UNCHANGED <<ledgerVars, round, leader>>
      /\ k[2] \in Ledger.managed[k[1]] => pos'[k] = 0
      /\ \A j \in Keys : j # k => pos'[j] = pos[j]
      /\ round.pc \in {"down", "idle"}
  BY Preserving DEF FollowerUserTrades, UserTrade, Undisturbed, Shape, IInv, Typed
<1>2. /\ closed' = closed \/ (closed' = closed \cup {k} /\ leader[k[2]] # 0)
      /\ paused' = IF Observed(k) THEN paused \cup (closed' \cap {k}) ELSE paused
  BY DEF FollowerUserTrades, Observed
<1>3. Ledger' = Ledger
  BY <1>1, LedgerStays
<1>4. Observed(k) => pos'[k] = 0
  BY <1>1, LedgerSound DEF Observed, Sound, Own!LoadAccepts, Keys
<1>5. ASSUME NEW j \in paused'
      PROVE  Suspended(j)' \/ (Observed(j)' /\ pos'[j] = 0)
  <2>1. CASE j = k
    BY <1>2, <1>3, <1>4, <2>1 DEF Suspended, Observed, SuspInv
  <2>2. CASE j # k
    <3>1. j \in paused /\ j \in Keys
      BY <1>2, <2>2 DEF HistoryInv
    <3>2. QED
      BY <1>1, <1>3, <2>2, <3>1 DEF Suspended, Observed, SuspInv
  <2>3. QED
    BY <2>1, <2>2
<1>6. round'.pc \notin Reading
  BY <1>1 DEF Reading
<1>7. \A j \in closed' : leader'[j[2]] # 0
  BY <1>1, <1>2 DEF SuspInv
<1>8. QED
  BY <1>5, <1>6, <1>7 DEF SuspInv

(* A leader that becomes flat ends the pauses of its symbol.               *)
LEMMA LeaderSusp ==
    ASSUME Shape, HistoryInv, SuspInv, NEW s \in Symbols, LeaderTrade(s)
    PROVE  SuspInv'
<1>1. PICK p \in LeaderPositions :
          /\ leader' = [leader EXCEPT ![s] = p]
          /\ closed' = IF p = 0 THEN closed \ (Followers \X {s}) ELSE closed
  BY DEF LeaderTrade
<1>2. UNCHANGED <<pos, ledgerVars, round>> /\ paused' = paused \cap closed'
  BY DEF LeaderTrade, vars
<1>3. leader \in [Symbols -> LeaderPositions]
  BY DEF Shape, LeaderInv
<1>4. ASSUME NEW k \in closed'
      PROVE  leader'[k[2]] # 0
  <2>1. k \in closed /\ k[1] \in Followers /\ k[2] \in Symbols /\ k = <<k[1], k[2]>>
    BY <1>1 DEF HistoryInv, Keys
  <2>2. p = 0 => k[2] # s
    BY <1>1, <2>1
  <2>3. QED
    BY <1>1, <1>3, <2>1, <2>2 DEF SuspInv
<1>5. Ledger' = Ledger
  BY <1>2, LedgerStays
<1>6. QED
  BY <1>2, <1>4, <1>5 DEF SuspInv, Suspended, Observed

LEMMA NextSusp ==
    ASSUME Undisturbed, Shape, WaitedFor, OwnInv, HistoryInv, SuspInv, [SystemNext]_allVars
    PROVE  SuspInv'
<1>1. CASE RoundStep \/ Crash
  BY <1>1, StartSusp, ReadLeaderSusp, ReadFollowerSusp, PlanSusp, CollectSusp DEF RoundStep
<1>2. CASE UNCHANGED allVars
  <2>1. UNCHANGED <<pos, leader, closed, paused, ledgerVars, round>>
    BY <1>2 DEF allVars, appVars, vars, history
  <2>2. Ledger' = Ledger
    BY <2>1, LedgerStays
  <2>3. QED
    BY <2>1, <2>2 DEF SuspInv, Suspended, Observed
<1>3. QED
  BY <1>1, <1>2, CallStepSusp, UserSusp, LeaderSusp DEF SystemNext

(* A position that somebody else closed between two rounds, after the      *)
(* program marked it observed, is not rebuilt before the leader is flat: in*)
(* no later round, after no crash and after no restart.                    *)
THEOREM ClosedPositionsStayClosed ==
    ASSUME Undisturbed
    PROVE  SystemSpec => SuspensionHolds
<1>1. SystemInit => SuspInv
  BY RestTyped DEF SystemInit, SuspInv, Reading
<1>2. /\ Shape /\ WaitedFor /\ HistoryInv /\ OwnInv /\ SuspInv /\ [SystemNext]_allVars
      => SuspInv'
  BY NextSusp
<1>3. Shape /\ WaitedFor /\ HistoryInv /\ OwnInv /\ SuspInv /\ [SystemNext]_allVars =>
          [\A k \in Keys : Trades(k) /\ round.pc # "down" => k \notin paused]_allVars
  BY TradesOfCalls, PausedRests
<1>4. QED
  BY <1>1, <1>2, <1>3, OwnInvariance, SystemShape, PTL DEF SystemSpec, SuspensionHolds

-----------------------------------------------------------------------------
(* The round uses its ledger as the ledger's own specification allows.     *)

(* A process that is down has no ledger.                                   *)
Forgotten == ~up => mem = Own!Blank

LEMMA MethodStep ==
    ASSUME Shape, preserve, NEW l, Saved(l) \/ SaveFails(l)
    PROVE  Own!Update(l) /\ up' = up
BY DEF Saved, SaveFails, Own!Update, Own!Written, Own!WriteFails

(* Every step of the round at a ledger method is that method's step.       *)
LEMMA MethodSteps ==
    ASSUME Shape, preserve,
           \/ ReadLeader \/ Protect \/ \E f \in Followers : ReadFollower(f)
           \/ \E s \in Symbols : PlanSymbol(s) \/ Collect(s)
    PROVE  (Own!Next \/ UNCHANGED Own!vars) /\ up' = up
<1>1. CASE ReadLeader
  <2>. DEFINE l == Own!ObserveLeader(mem, Held(leader))
  <2>1. Own!Update(l) /\ up' = up
    BY <1>1, MethodStep DEF ReadLeader
  <2>2. QED
    BY <2>1, HeldTyped DEF Own!Next, Own!ObserveLeaderStep
<1>2. CASE Protect
  <2>. DEFINE l == Own!ProtectUnmanaged(mem, round.at, round.snap)
  <2>1. Own!Update(l) /\ up' = up
    BY <1>2, MethodStep DEF Protect
  <2>2. round.at \in Followers /\ round.snap \in SUBSET Symbols
    BY <1>2 DEF Protect, Shape, RoundInv, Rounds
  <2>3. QED
    BY <2>1, <2>2 DEF Own!Next, Own!ProtectUnmanagedStep
<1>3. ASSUME NEW f \in Followers, ReadFollower(f)
      PROVE  (Own!Next \/ UNCHANGED Own!vars) /\ up' = up
  <2>. DEFINE l == Own!ObserveFollower(mem, f, HeldBy(f), Held(round.lead))
  <2>1. Own!Update(l) /\ up' = up
    BY <1>3, MethodStep DEF ReadFollower
  <2>2. QED
    BY <2>1, HeldTyped DEF Own!Next, Own!ObserveFollowerStep
<1>4. ASSUME NEW l, Own!Update(l), l = mem
      PROVE  UNCHANGED Own!vars \/ Own!WriteFails(mem)
  BY <1>4 DEF Own!Update, Own!Written, Own!vars
<1>5. Own!WriteFails(mem) => UNCHANGED Own!vars
  BY DEF Own!WriteFails, Own!vars
<1>6. ASSUME NEW s \in Symbols, PlanSymbol(s)
      PROVE  (Own!Next \/ UNCHANGED Own!vars) /\ up' = up
  <2>. DEFINE l == PlanLedger(s)
  <2>1. /\ round.at \in Followers
        /\ \/ UNCHANGED ledgerVars
           \/ /\ Saved(l) \/ SaveFails(l)
              /\ s \in mem.managed[round.at] \/ ~Own!ClaimRefused(mem, round.at, s)
    BY <1>6, PlanCases
  <2>2. CASE UNCHANGED ledgerVars
    BY <2>2 DEF ledgerVars, Own!vars
  <2>3. CASE /\ Saved(l) \/ SaveFails(l)
             /\ s \in mem.managed[round.at] \/ ~Own!ClaimRefused(mem, round.at, s)
    <3>1. Own!Update(l) /\ up' = up
      BY <2>3, MethodStep
    <3>2. CASE l = mem
      BY <1>4, <1>5, <3>1, <3>2
    <3>3. CASE l # mem
      <4>1. l = Own!Claim(mem, round.at, s) /\ s \notin mem.managed[round.at]
        BY <3>3 DEF PlanLedger
      <4>2. ~Own!ClaimRefused(mem, round.at, s)
        BY <2>3, <4>1
      <4>3. QED
        BY <2>1, <3>1, <4>1, <4>2 DEF Own!Next, Own!ClaimStep
    <3>4. QED
      BY <3>2, <3>3
  <2>4. QED
    BY <2>1, <2>2, <2>3
<1>7. ASSUME NEW s \in Symbols, Collect(s)
      PROVE  (Own!Next \/ UNCHANGED Own!vars) /\ up' = up
  <2>. DEFINE r == task[<<round.at, s>>].result
              l == AfterResult(s, r)
  <2>1. round.at \in Followers /\ (Saved(l) \/ SaveFails(l))
    BY <1>7, CollectCases
  <2>2. Own!Update(l) /\ up' = up
    BY <2>1, MethodStep
  <2>3. CASE l = mem
    BY <1>4, <1>5, <2>2, <2>3
  <2>4. CASE l = Own!MarkObserved(mem, round.at, s)
    BY <2>1, <2>2, <2>4 DEF Own!Next, Own!MarkObservedStep
  <2>5. CASE l = Own!Release(mem, round.at, s)
    BY <2>1, <2>2, <2>5 DEF Own!Next, Own!ReleaseStep
  <2>6. QED
    BY <2>3, <2>4, <2>5 DEF AfterResult
<1>8. QED
  BY <1>1, <1>2, <1>3, <1>6, <1>7

LEMMA SystemLedgerStep ==
    ASSUME PreserveModes \subseteq {TRUE}, Shape, Forgotten, [SystemNext]_allVars
    PROVE  (Own!Next \/ UNCHANGED Own!vars) /\ Forgotten'
<1>0. preserve
  BY DEF Shape, LedgerInv
<1>1. CASE StartUp
  <2>1. Own!Initialize(Held(round.lead), [f \in Followers |-> HeldBy(f)])
    BY <1>0, <1>1 DEF StartUp
  <2>2. up'
    BY <2>1 DEF Own!Initialize
  <2>3. QED
    BY <2>1, <2>2, HeldTyped DEF Own!Next, Own!Start, Forgotten
<1>2. CASE StartUpDies
  <2>1. PICK done \in SUBSET Followers : Own!InitializeInterrupted(
                Held(round.lead), [f \in Followers |-> HeldBy(f)], done)
    BY <1>2 DEF StartUpDies
  <2>2. UNCHANGED <<up, mem>>
    BY <2>1 DEF Own!InitializeInterrupted
  <2>3. QED
    BY <2>1, <2>2, HeldTyped DEF Own!Next, Own!Start, Forgotten
<1>3. CASE \/ ReadLeader \/ Protect \/ \E f \in Followers : ReadFollower(f)
           \/ \E s \in Symbols : PlanSymbol(s) \/ Collect(s)
  <2>1. up
    BY <1>3 DEF ReadLeader, Protect, ReadFollower, PlanSymbol, Collect, Shape, RoundInv
  <2>2. QED
    BY <1>0, <1>3, <2>1, MethodSteps DEF Forgotten
<1>4. CASE Crash
  BY <1>4 DEF Crash, Forgotten, Own!Next, Own!Crash, Own!vars, Shape, LedgerInv
<1>5. CASE \/ Boot \/ StartRound \/ ReadLeaderFails \/ EndRound \/ Gather \/ UNCHANGED allVars
           \/ \E f \in Followers : SkipFollower(f)
           \/ \E k \in Keys : ReconcileStep(k) \/ FollowerUserTrades(k)
           \/ \E s \in Symbols : LeaderTrade(s)
  <2>1. UNCHANGED ledgerVars
    BY <1>5 DEF Boot, StartRound, ReadLeaderFails, EndRound, Gather, SkipFollower, ReconcileStep,
          FollowerUserTrades, LeaderTrade, allVars, appVars
  <2>2. QED
    BY <2>1 DEF ledgerVars, Own!vars, Forgotten
<1>6. QED
  BY <1>1, <1>2, <1>3, <1>4, <1>5 DEF SystemNext, RoundStep

(* The composed system, seen through its ledger and file, is a             *)
(* PositionOwnership: whatever is proved of the ledger under arbitrary     *)
(* calls holds of the ledger a round uses.                                 *)
THEOREM SystemImplementsOwnership ==
    ASSUME PreserveModes \subseteq {TRUE}
    PROVE  SystemSpec => Own!Spec
<1>1. SystemInit => Own!Init /\ Forgotten
  BY DEF SystemInit, Own!Init, Forgotten
<1>2. Shape /\ Forgotten /\ [SystemNext]_allVars => [Own!Next]_Own!vars /\ Forgotten'
  BY SystemLedgerStep
<1>3. QED
  BY <1>1, <1>2, SystemShape, PTL DEF SystemSpec, Own!Spec

-----------------------------------------------------------------------------
(* The statuses of the symbols at every follower follow the cycle.  The    *)
(* theorem about the ledger alone is cited through this instance, whose    *)
(* definitions are those of Own.                                           *)
Led == INSTANCE PositionOwnershipRefinement WITH Persist <- TRUE

LEMMA SameState ==
    /\ Led!vars = Own!vars
    /\ Led!View = Own!View
    /\ Led!Init <=> Own!Init
BY DEF Led!vars, Own!vars, Led!View, Own!View, Led!Init, Own!Init, Led!Blank, Own!Blank,
       Led!FirstLedger, Own!FirstLedger, Led!NoSymbols, Own!NoSymbols, Led!Loaded, Own!Loaded,
       Led!FromVersion1, Own!FromVersion1, Led!SymbolSets, Own!SymbolSets

LEMMA SameSteps == Led!Next <=> Own!Next
BY DEF Led!Next, Own!Next, Led!Start, Own!Start, Led!ObserveLeaderStep, Own!ObserveLeaderStep,
       Led!ObserveFollowerStep, Own!ObserveFollowerStep, Led!MarkObservedStep,
       Own!MarkObservedStep, Led!ProtectUnmanagedStep, Own!ProtectUnmanagedStep,
       Led!ClaimStep, Own!ClaimStep, Led!ReleaseStep, Own!ReleaseStep, Led!Crash, Own!Crash,
       Led!Initialize, Own!Initialize, Led!InitializeInterrupted, Own!InitializeInterrupted,
       Led!LoadAccepts, Own!LoadAccepts, Led!Opened, Own!Opened, Led!ProtectAll,
       Own!ProtectAll, Led!Discovered, Own!Discovered, Led!FirstLedger, Own!FirstLedger,
       Led!NoSymbols, Own!NoSymbols, Led!Loaded, Own!Loaded, Led!FromVersion1,
       Own!FromVersion1, Led!Blank, Own!Blank, Led!SymbolSets, Own!SymbolSets,
       Led!ObserveLeader, Own!ObserveLeader, Led!ObserveFollower, Own!ObserveFollower,
       Led!Disappeared, Own!Disappeared, Led!MarkObserved, Own!MarkObserved,
       Led!ProtectUnmanaged, Own!ProtectUnmanaged, Led!Claim, Own!Claim, Led!ClaimRefused,
       Own!ClaimRefused, Led!Release, Own!Release, Led!Update, Own!Update, Led!Written,
       Own!Written, Led!WriteFails, Own!WriteFails, Led!File, Own!File

LEMMA SameCycle ==
    /\ Led!Cycle!CycleInit <=> Own!Cycle!CycleInit
    /\ [Led!Cycle!CycleNext]_(Led!Cycle!cycleVars) <=> [Own!Cycle!CycleNext]_(Own!Cycle!cycleVars)
<1>. USE DEF Led!StatusOf, Own!StatusOf, Led!View, Own!View, Led!Blank, Own!Blank,
             Led!FirstLedger, Own!FirstLedger, Led!NoSymbols, Own!NoSymbols, Led!Loaded,
             Own!Loaded, Led!FromVersion1, Own!FromVersion1
<1>1. Led!Cycle!CycleInit <=> Own!Cycle!CycleInit
  BY DEF Led!Cycle!CycleInit, Own!Cycle!CycleInit, Led!Cycle!Status, Own!Cycle!Status
<1>2. [Led!Cycle!CycleNext]_(Led!Cycle!cycleVars) <=> [Own!Cycle!CycleNext]_(Own!Cycle!cycleVars)
  BY DEF Led!Cycle!CycleNext, Own!Cycle!CycleNext, Led!Cycle!cycleVars, Own!Cycle!cycleVars,
         Led!Cycle!Begin, Own!Cycle!Begin, Led!Cycle!LeaderFlat, Own!Cycle!LeaderFlat,
         Led!Cycle!FollowerStep, Own!Cycle!FollowerStep, Led!Cycle!Restart,
         Own!Cycle!Restart, Led!Cycle!Allowed, Own!Cycle!Allowed
<1>3. QED
  BY <1>1, <1>2

(* In the running program, with its rounds, results, users, crashes and    *)
(* restarts, a symbol's owner changes only along the cycle: what is        *)
(* protected stays so, and what a user closed is not copied again before   *)
(* the leader is seen flat.                                                *)
THEOREM StatusesFollowTheCycle ==
    ASSUME PreserveModes \subseteq {TRUE}, ~DiskMayFail
    PROVE  SystemSpec => StatusesFollowCycle
<1>1. Led!NoFileAssumption
  BY SystemNoFileAssumption
  DEF Led!NoFileAssumption, Own!Files, Led!Ledgers, Own!Ledgers, Led!SymbolSets, Own!SymbolSets
<1>2. Led!PersistAssumption
  BY PerpMirrorAssumption DEF Led!PersistAssumption
<1>3. Led!Spec => Led!FollowsCycle
  BY <1>1, <1>2, Led!LedgerFollowsCycle
<1>4. Own!Spec => Led!Spec
  <2>1. [Own!Next]_Own!vars => [Led!Next]_Led!vars
    BY SameSteps DEF Own!vars, Led!vars
  <2>2. QED
    BY <2>1, SameState, PTL DEF Own!Spec, Led!Spec
<1>5. Led!FollowsCycle => StatusesFollowCycle
  BY SameCycle, PTL
  DEF Led!FollowsCycle, Led!Cycle!CycleSpec, Own!FollowsCycle, Own!Cycle!CycleSpec,
      StatusesFollowCycle
<1>6. SystemSpec => Own!Spec
  BY SystemImplementsOwnership
<1>7. QED
  BY <1>3, <1>4, <1>5, <1>6
==============================================================================
