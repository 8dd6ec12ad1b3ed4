--------------------- MODULE PositionOwnershipRefinement ---------------------
(***************************************************************************)
(* PositionOwnership implements CopyCycle while the state file can be      *)
(* written: for every set of followers and symbols, every step of the      *)
(* ledger, of its crashes and of its restarts is a step of the cycle of    *)
(* statuses, or leaves every status as it is.                              *)
(***************************************************************************)
EXTENDS PositionOwnershipProofs

(* The abstract state of a ledger.                                         *)
StatusFn(l) == [f \in Followers |-> [s \in Symbols |-> StatusOf(l, f, s)]]

(* One follower's methods move the statuses of its own symbols only.       *)
FollowerMoves(l, m, f) ==
    /\ m.blocked = l.blocked
    /\ \A s \in Symbols :
          StatusOf(m, f, s) \in Cycle!Allowed(StatusOf(l, f, s), s \in l.blocked)
    /\ \A g \in Followers \ {f} : \A s \in Symbols : StatusOf(m, g, s) = StatusOf(l, g, s)

LEMMA ObserveFollowerMoves ==
    ASSUME NEW l, Sound(l), NEW f \in Followers,
           NEW current \in SUBSET Symbols, NEW ls \in SUBSET Symbols
    PROVE  FollowerMoves(l, ObserveFollower(l, f, current, ls), f)
<1>. DEFINE m == ObserveFollower(l, f, current, ls)
<1>1. /\ m.blocked = l.blocked
      /\ m.protected = l.protected
      /\ m.managed[f] = l.managed[f] \ Disappeared(l, f, current, ls)
      /\ m.observed[f] = (l.observed[f] \cup (l.managed[f] \cap current))
                            \ Disappeared(l, f, current, ls)
      /\ m.suspended[f] = l.suspended[f] \cup Disappeared(l, f, current, ls)
      /\ \A g \in Followers \ {f} :
            /\ m.managed[g] = l.managed[g]
            /\ m.observed[g] = l.observed[g]
            /\ m.suspended[g] = l.suspended[g]
  BY DEF Sound, Ledgers, SymbolSets, ObserveFollower, Disappeared
<1>2. ASSUME NEW s \in Symbols
      PROVE  StatusOf(m, f, s) \in Cycle!Allowed(StatusOf(l, f, s), s \in l.blocked)
  <2>. DEFINE gone == Disappeared(l, f, current, ls)
  <2>1. /\ gone \subseteq l.observed[f]
        /\ l.observed[f] \subseteq l.managed[f]
        /\ l.managed[f] \cap l.protected[f] = {}
        /\ l.suspended[f] \cap (l.protected[f] \cup l.managed[f]) = {}
    BY DEF Sound, LoadAccepts, Disappeared
  <2>2. CASE s \in gone
    <3>1. StatusOf(l, f, s) = "live" /\ StatusOf(m, f, s) = "suspended"
      <4>. HIDE DEF m
      <4>1. s \in l.observed[f] /\ s \notin l.protected[f] /\ s \notin l.suspended[f]
        BY <2>1, <2>2
      <4>2. s \notin m.protected[f] /\ s \in m.suspended[f]
        BY <1>1, <2>2, <4>1
      <4>3. QED
        BY <4>1, <4>2 DEF StatusOf
    <3>2. QED
      BY <3>1 DEF Cycle!Allowed
  <2>3. CASE s \notin gone
    <3>1. \/ StatusOf(m, f, s) = StatusOf(l, f, s)
          \/ StatusOf(l, f, s) = "claimed" /\ StatusOf(m, f, s) = "live"
      <4>. HIDE DEF m
      <4>1. /\ s \in m.protected[f] <=> s \in l.protected[f]
            /\ s \in m.suspended[f] <=> s \in l.suspended[f]
            /\ s \in m.managed[f] <=> s \in l.managed[f]
            /\ s \in m.observed[f] <=> s \in l.observed[f] \/ s \in l.managed[f] \cap current
        BY <1>1, <2>3
      <4>2. QED
        BY <2>1, <4>1 DEF StatusOf
    <3>2. QED
      BY <3>1 DEF Cycle!Allowed
  <2>4. QED
    BY <2>2, <2>3
<1>3. ASSUME NEW g \in Followers \ {f}, NEW s \in Symbols
      PROVE  StatusOf(m, g, s) = StatusOf(l, g, s)
  BY <1>1 DEF StatusOf
<1>4. QED
  BY <1>1, <1>2, <1>3 DEF FollowerMoves

LEMMA MarkObservedMoves ==
    ASSUME NEW l, Sound(l), NEW f \in Followers, NEW s \in Symbols
    PROVE  FollowerMoves(l, MarkObserved(l, f, s), f)
BY DEF Sound, Ledgers, SymbolSets, LoadAccepts, FollowerMoves, StatusOf,
       MarkObserved, Cycle!Allowed

LEMMA ProtectUnmanagedMoves ==
    ASSUME NEW l, Sound(l), NEW f \in Followers, NEW current \in SUBSET Symbols
    PROVE  FollowerMoves(l, ProtectUnmanaged(l, f, current), f)
BY DEF Sound, Ledgers, SymbolSets, LoadAccepts, FollowerMoves, StatusOf,
       ProtectUnmanaged, Discovered, Cycle!Allowed

LEMMA ClaimMoves ==
    ASSUME NEW l, Sound(l), NEW f \in Followers, NEW s \in Symbols,
           ~ClaimRefused(l, f, s)
    PROVE  FollowerMoves(l, Claim(l, f, s), f)
BY DEF Sound, Ledgers, SymbolSets, LoadAccepts, FollowerMoves, StatusOf,
       Claim, ClaimRefused, Cycle!Allowed

LEMMA ReleaseMoves ==
    ASSUME NEW l, Sound(l), NEW f \in Followers, NEW s \in Symbols
    PROVE  FollowerMoves(l, Release(l, f, s), f)
BY DEF Sound, Ledgers, SymbolSets, LoadAccepts, FollowerMoves, StatusOf,
       Release, Cycle!Allowed

LEMMA ObserveLeaderMoves ==
    ASSUME NEW l, Sound(l), NEW current \in SUBSET Symbols, NEW f \in Followers,
           NEW s \in Symbols
    PROVE  StatusOf(ObserveLeader(l, current), f, s) =
              IF s \in Symbols \ current /\ StatusOf(l, f, s) = "suspended"
              THEN "free" ELSE StatusOf(l, f, s)
BY DEF Sound, Ledgers, SymbolSets, LoadAccepts, StatusOf, ObserveLeader

LEMMA ProtectAllMoves ==
    ASSUME NEW l, Sound(l), NEW current \in SymbolSets, NEW f \in Followers,
           NEW s \in Symbols
    PROVE  /\ ProtectAll(l, current).blocked = l.blocked
           /\ StatusOf(ProtectAll(l, current), f, s) \in {StatusOf(l, f, s)} \cup
                (IF StatusOf(l, f, s) = "free" THEN {"protected"} ELSE {})
BY DEF Sound, Ledgers, SymbolSets, LoadAccepts, StatusOf, ProtectAll, Discovered

LEMMA FirstLedgerMoves ==
    ASSUME NEW b \in SUBSET Symbols, NEW p \in SymbolSets, NEW f \in Followers,
           NEW s \in Symbols
    PROVE  StatusOf(FirstLedger(b, p), f, s) \in {"free", "protected"}
BY DEF SymbolSets, StatusOf, FirstLedger, NoSymbols

-----------------------------------------------------------------------------
(* Every initial state and every step of the ledger is one of the cycle.   *)

LEMMA InitRefines == Init => Cycle!CycleInit
<1>. SUFFICES ASSUME Init PROVE Cycle!CycleInit
  OBVIOUS
<1>1. Inv
  BY InitInv
<1>2. Sound(View) /\ (~up /\ disk = NoFile => View = Blank)
  BY <1>1, BlankSound DEF View, Inv
<1>3. View.blocked \in SUBSET Symbols
  BY <1>2 DEF Sound, Ledgers
<1>4. \A l : \A f \in Followers, s \in Symbols : StatusOf(l, f, s) \in Cycle!Status
  BY DEF StatusOf, Cycle!Status
<1>5. /\ Blank.blocked = {}
      /\ \A f \in Followers, s \in Symbols : StatusOf(Blank, f, s) = "free"
  BY DEF Blank, FirstLedger, NoSymbols, StatusOf
<1>6. ~up
  BY DEF Init
<1>7. QED
  BY <1>2, <1>3, <1>4, <1>5, <1>6 DEF Cycle!CycleInit

LEMMA UpdateView ==
    ASSUME Inv, NEW l, Sound(l), Update(l)
    PROVE  View = mem /\ View' = l /\ up /\ up'
BY DEF Update, Written, WriteFails, View

(* An update by a follower's method is a FollowerStep.                     *)
LEMMA FollowerStepRefines ==
    ASSUME Inv, NEW l, Sound(l), Update(l),
           NEW f \in Followers, FollowerMoves(mem, l, f)
    PROVE  Cycle!FollowerStep
<1>1. View = mem /\ View' = l /\ up /\ up'
  BY UpdateView
<1>2. QED
  BY <1>1 DEF Cycle!FollowerStep, FollowerMoves

LEMMA LeaderStepRefines ==
    ASSUME Inv, NEW current \in SUBSET Symbols, Update(ObserveLeader(mem, current))
    PROVE  Cycle!LeaderFlat
<1>1. Sound(mem) /\ Sound(ObserveLeader(mem, current))
  BY ObserveLeaderSound DEF Inv
<1>2. View = mem /\ View' = ObserveLeader(mem, current) /\ up /\ up'
  BY <1>1, UpdateView
<1>3. ObserveLeader(mem, current).blocked = mem.blocked \ (Symbols \ current)
  BY <1>1 DEF Sound, Ledgers, ObserveLeader
<1>4. \A f \in Followers, s \in Symbols :
         StatusOf(ObserveLeader(mem, current), f, s) =
              IF s \in Symbols \ current /\ StatusOf(mem, f, s) = "suspended"
              THEN "free" ELSE StatusOf(mem, f, s)
  BY <1>1, ObserveLeaderMoves
<1>. DEFINE flat == Symbols \ current
<1>5. View.blocked' = View.blocked \ flat
  BY <1>2, <1>3
<1>6. StatusFn(View') = [f \in Followers |-> [s \in Symbols |->
                           IF s \in flat /\ StatusFn(View)[f][s] = "suspended"
                           THEN "free" ELSE StatusFn(View)[f][s]]]
  BY <1>2, <1>4 DEF StatusFn
<1>7. QED
  BY <1>2, <1>5, <1>6 DEF Cycle!LeaderFlat, StatusFn

(* Opening the ledger and protecting some symbols: the first start when    *)
(* there was no file, a restart when there was one.                        *)
LEMMA OpenRefines ==
    ASSUME Inv, ~up, up' \/ disk' # NoFile,
           NEW ls \in SUBSET Symbols, NEW current \in SymbolSets,
           NEW part \in SymbolSets,
           View' = ProtectAll(Opened(ls, current), part)
    PROVE  Cycle!CycleNext
<1>1. Sound(Opened(ls, current))
  BY OpenedSound
<1>2. \A f \in Followers, s \in Symbols :
          StatusOf(View', f, s) \in {StatusOf(Opened(ls, current), f, s)} \cup
             (IF StatusOf(Opened(ls, current), f, s) = "free" THEN {"protected"} ELSE {})
  BY <1>1, ProtectAllMoves
<1>3. View'.blocked = Opened(ls, current).blocked /\ View'.blocked \in SUBSET Symbols
  <2>1. Sound(View')
    BY <1>1, ProtectAllSound
  <2>2. QED
    BY <1>1, <2>1, ProtectAllMoves DEF Sound, Ledgers, ProtectAll
<1>4. CASE disk = NoFile
  <2>1. \A f \in Followers, s \in Symbols :
           StatusOf(Opened(ls, current), f, s) \in {"free", "protected"}
    BY <1>4, FirstLedgerMoves DEF Opened
  <2>2. \A f \in Followers, s \in Symbols : StatusOf(View', f, s) \in {"free", "protected"}
    BY <1>2, <2>1
  <2>3. QED
    BY <1>3, <1>4, <2>2 DEF Cycle!CycleNext, Cycle!Begin
<1>5. CASE disk # NoFile
  <2>1. Opened(ls, current) = View
    BY <1>5 DEF Opened, View
  <2>2. QED
    BY <1>2, <1>3, <1>5, <2>1 DEF Cycle!CycleNext, Cycle!Restart
<1>6. QED
  BY <1>4, <1>5

LEMMA StartRefines ==
    ASSUME Inv, Start
    PROVE  Cycle!CycleNext
<1>0. ~up
  BY DEF Start, Initialize, InitializeInterrupted
<1>1. PICK ls \in SUBSET Symbols, current \in SymbolSets :
           \/ Initialize(ls, current)
           \/ \E done \in SUBSET Followers :
                 InitializeInterrupted(ls, current, done)
  BY DEF Start
<1>2. CASE Initialize(ls, current)
  <2>1. up' /\ View' = ProtectAll(Opened(ls, current), current)
    BY <1>2 DEF Initialize, View
  <2>2. QED
    BY <1>0, <2>1, OpenRefines
<1>3. ASSUME NEW done \in SUBSET Followers, InitializeInterrupted(ls, current, done)
      PROVE  Cycle!CycleNext
  <2>. DEFINE part == [f \in Followers |-> IF f \in done THEN current[f] ELSE {}]
              l == ProtectAll(Opened(ls, current), part)
  <2>1. part \in SymbolSets
    BY DEF SymbolSets
  <2>2. Sound(l)
    BY <2>1, OpenedSound, ProtectAllSound
  <2>3. ~up' /\ disk' = File(l)
    BY <1>3 DEF InitializeInterrupted
  <2>4. disk' # NoFile /\ View' = l
    BY <2>2, <2>3, FileSound DEF View
  <2>5. QED
    BY <1>0, <2>1, <2>4, OpenRefines
<1>4. QED
  BY <1>1, <1>2, <1>3

LEMMA CrashRefines ==
    ASSUME Inv, FileFollowsMemory, Crash
    PROVE  UNCHANGED Cycle!cycleVars
<1>1. disk' = File(mem) /\ ~up' /\ up /\ disk = File(mem)
  BY DEF Crash, FileFollowsMemory
<1>2. disk' # NoFile /\ View' = mem /\ View = mem
  BY <1>1, FileSound DEF View, Inv
<1>3. QED
  BY <1>1, <1>2 DEF Cycle!cycleVars

LEMMA StepRefines ==
    ASSUME Inv, FileFollowsMemory, [Next]_vars
    PROVE  [Cycle!CycleNext]_(Cycle!cycleVars)
<1>0. Sound(mem)
  BY DEF Inv
<1>1. CASE Start
  BY <1>1, StartRefines
<1>2. CASE ObserveLeaderStep
  BY <1>2, LeaderStepRefines DEF ObserveLeaderStep, Cycle!CycleNext
<1>3. CASE ObserveFollowerStep
  BY <1>0, <1>3, ObserveFollowerSound, ObserveFollowerMoves, FollowerStepRefines
  DEF ObserveFollowerStep, Cycle!CycleNext
<1>4. CASE MarkObservedStep
  BY <1>0, <1>4, MarkObservedSound, MarkObservedMoves, FollowerStepRefines
  DEF MarkObservedStep, Cycle!CycleNext
<1>5. CASE ProtectUnmanagedStep
  BY <1>0, <1>5, ProtectUnmanagedSound, ProtectUnmanagedMoves, FollowerStepRefines
  DEF ProtectUnmanagedStep, Cycle!CycleNext
<1>6. CASE ClaimStep
  BY <1>0, <1>6, ClaimSound, ClaimMoves, FollowerStepRefines
  DEF ClaimStep, Cycle!CycleNext
<1>7. CASE ReleaseStep
  BY <1>0, <1>7, ReleaseSound, ReleaseMoves, FollowerStepRefines
  DEF ReleaseStep, Cycle!CycleNext
<1>8. CASE Crash
  BY <1>8, CrashRefines
<1>9. CASE UNCHANGED vars
  BY <1>9 DEF vars, Cycle!cycleVars, View, StatusOf
<1>10. QED
  BY <1>1, <1>2, <1>3, <1>4, <1>5, <1>6, <1>7, <1>8, <1>9 DEF Next

(* While the state file can be written, the ledger follows the cycle: no   *)
(* symbol of any follower changes owner in another way, in any order of    *)
(* calls, crashes and restarts.                                            *)
THEOREM LedgerFollowsCycle ==
    ASSUME Persist, ~DiskMayFail
    PROVE  Spec => FollowsCycle
<1>1. Spec => [](Inv /\ FileFollowsMemory)
  BY Invariant, RestartFindsLedger, PTL
<1>2. Inv /\ FileFollowsMemory /\ [Next]_vars => [Cycle!CycleNext]_(Cycle!cycleVars)
  BY StepRefines
<1>3. QED
  BY <1>1, <1>2, InitRefines, PTL DEF Spec, FollowsCycle, Cycle!CycleSpec
==============================================================================
