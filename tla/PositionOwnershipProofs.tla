----------------------- MODULE PositionOwnershipProofs -----------------------
(***************************************************************************)
(* Proofs about the persisted ledger, for every set of followers and       *)
(* symbols, every sequence of calls, crashes, restarts and failed writes.  *)
(***************************************************************************)
EXTENDS PositionOwnership, TLAPS

(* A ledger that _load accepts.                                            *)
Sound(l) == l \in Ledgers /\ LoadAccepts(l)

-----------------------------------------------------------------------------
(* Every method takes a sound ledger to a sound ledger.                    *)

LEMMA FirstLedgerSound ==
    ASSUME NEW b \in SUBSET Symbols, NEW p \in SymbolSets
    PROVE  Sound(FirstLedger(b, p))
BY DEF Sound, FirstLedger, LoadAccepts, Ledgers, SymbolSets, NoSymbols

LEMMA FromVersion1Sound ==
    ASSUME NEW l \in Ledgers, \A f \in Followers : l.protected[f] \cap l.managed[f] = {}
    PROVE  Sound(FromVersion1(l))
BY DEF Sound, FromVersion1, LoadAccepts, Ledgers, SymbolSets, NoSymbols

LEMMA ObserveLeaderSound ==
    ASSUME NEW l, Sound(l), NEW current \in SUBSET Symbols
    PROVE  Sound(ObserveLeader(l, current))
BY DEF Sound, ObserveLeader, LoadAccepts, Ledgers, SymbolSets

LEMMA ObserveFollowerSound ==
    ASSUME NEW l, Sound(l), NEW f \in Followers,
           NEW current \in SUBSET Symbols, NEW leaderSymbols \in SUBSET Symbols
    PROVE  Sound(ObserveFollower(l, f, current, leaderSymbols))
BY DEF Sound, ObserveFollower, Disappeared, LoadAccepts, Ledgers, SymbolSets

LEMMA MarkObservedSound ==
    ASSUME NEW l, Sound(l), NEW f \in Followers, NEW s \in Symbols
    PROVE  Sound(MarkObserved(l, f, s))
BY DEF Sound, MarkObserved, LoadAccepts, Ledgers, SymbolSets

LEMMA ProtectUnmanagedSound ==
    ASSUME NEW l, Sound(l), NEW f \in Followers, NEW current \in SUBSET Symbols
    PROVE  Sound(ProtectUnmanaged(l, f, current))
BY DEF Sound, ProtectUnmanaged, Discovered, LoadAccepts, Ledgers, SymbolSets

LEMMA ProtectAllSound ==
    ASSUME NEW l, Sound(l), NEW current \in SymbolSets
    PROVE  Sound(ProtectAll(l, current))
BY DEF Sound, ProtectAll, Discovered, LoadAccepts, Ledgers, SymbolSets

LEMMA ClaimSound ==
    ASSUME NEW l, Sound(l), NEW f \in Followers, NEW s \in Symbols,
           ~ClaimRefused(l, f, s)
    PROVE  Sound(Claim(l, f, s))
BY DEF Sound, Claim, ClaimRefused, LoadAccepts, Ledgers, SymbolSets

LEMMA ReleaseSound ==
    ASSUME NEW l, Sound(l), NEW f \in Followers, NEW s \in Symbols
    PROVE  Sound(Release(l, f, s))
BY DEF Sound, Release, LoadAccepts, Ledgers, SymbolSets

-----------------------------------------------------------------------------
(* The inductive invariant: memory and file hold sound ledgers.            *)
Inv ==
    /\ up \in BOOLEAN
    /\ Sound(mem)
    /\ disk \in Files \cup {NoFile}
    /\ disk # NoFile => Sound(Loaded(disk))

LEMMA BlankSound == Sound(Blank)
<1>1. NoSymbols \in SymbolSets
  BY DEF NoSymbols, SymbolSets
<1>2. QED
  BY <1>1, FirstLedgerSound DEF Blank

LEMMA FileSound ==
    ASSUME NEW l, Sound(l)
    PROVE  /\ File(l) \in Files
           /\ File(l) # NoFile
           /\ Loaded(File(l)) = l
BY NoFileAssumption DEF File, Files, Loaded, Sound

LEMMA InitInv == Init => Inv
<1>. SUFFICES ASSUME Init PROVE Inv
  OBVIOUS
<1>1. up \in BOOLEAN /\ Sound(mem)
  BY BlankSound DEF Init
<1>2. CASE disk = NoFile
  BY <1>1, <1>2 DEF Inv
<1>3. ASSUME NEW b \in SUBSET Symbols, NEW p \in SymbolSets, NEW m \in SymbolSets,
             \A f \in Followers : p[f] \cap m[f] = {},
             disk = [version |-> 1,
                     ledger |-> [FirstLedger(b, p) EXCEPT !.managed = m]]
      PROVE  Inv
  <2>. DEFINE l == [FirstLedger(b, p) EXCEPT !.managed = m]
  <2>1. l \in Ledgers /\ l.protected = p /\ l.managed = m
    BY DEF FirstLedger, Ledgers, NoSymbols, SymbolSets
  <2>2. Sound(FromVersion1(l))
    BY <1>3, <2>1, FromVersion1Sound
  <2>3. disk \in Files /\ Loaded(disk) = FromVersion1(l)
    BY <1>3, <2>1 DEF Files, Loaded
  <2>4. QED
    BY <1>1, <2>2, <2>3 DEF Inv
<1>4. QED
  BY <1>2, <1>3 DEF Init

(* Whatever ledger a method computes, its outcome keeps the invariant.     *)
LEMMA UpdateInv ==
    ASSUME Inv, NEW l, Sound(l), Update(l)
    PROVE  Inv'
<1>1. up' \in BOOLEAN /\ Sound(mem')
  BY DEF Update, Written, WriteFails, Inv
<1>2. CASE disk' = File(l)
  BY <1>1, <1>2, FileSound DEF Inv
<1>3. CASE disk' = disk
  BY <1>1, <1>3 DEF Inv, Files, Loaded, FromVersion1
<1>4. QED
  BY <1>2, <1>3 DEF Update, Written, WriteFails

LEMMA OpenedSound ==
    ASSUME Inv, NEW ls \in SUBSET Symbols, NEW current \in SymbolSets
    PROVE  Sound(Opened(ls, current))
BY FirstLedgerSound DEF Opened, Inv

LEMMA StartInv == Inv /\ Start => Inv'
<1>. SUFFICES ASSUME Inv, NEW ls \in SUBSET Symbols, NEW current \in SymbolSets,
                     \/ Initialize(ls, current)
                     \/ \E done \in SUBSET Followers :
                           InitializeInterrupted(ls, current, done)
              PROVE  Inv'
  BY DEF Start
<1>1. Sound(Opened(ls, current))
  BY OpenedSound
<1>2. CASE Initialize(ls, current)
  <2>1. Sound(mem') /\ up' = TRUE
    BY <1>1, <1>2, ProtectAllSound DEF Initialize
  <2>2. disk' = disk \/ disk' = File(mem')
    BY <1>2 DEF Initialize
  <2>3. QED
    BY <2>1, <2>2, FileSound DEF Inv
<1>3. ASSUME NEW done \in SUBSET Followers, InitializeInterrupted(ls, current, done)
      PROVE  Inv'
  <2>. DEFINE part == [f \in Followers |-> IF f \in done THEN current[f] ELSE {}]
  <2>1. part \in SymbolSets
    BY DEF SymbolSets
  <2>2. Sound(ProtectAll(Opened(ls, current), part))
    BY <1>1, <2>1, ProtectAllSound
  <2>3. QED
    BY <1>3, <2>2, FileSound DEF InitializeInterrupted, Inv
<1>4. QED
  BY <1>2, <1>3

LEMMA StepInv == Inv /\ [Next]_vars => Inv'
<1>. SUFFICES ASSUME Inv, [Next]_vars PROVE Inv'
  OBVIOUS
<1>0. Sound(mem)
  BY DEF Inv
<1>1. CASE Start
  BY <1>1, StartInv
<1>2. CASE ObserveLeaderStep
  BY <1>0, <1>2, ObserveLeaderSound, UpdateInv DEF ObserveLeaderStep
<1>3. CASE ObserveFollowerStep
  BY <1>0, <1>3, ObserveFollowerSound, UpdateInv DEF ObserveFollowerStep
<1>4. CASE MarkObservedStep
  BY <1>0, <1>4, MarkObservedSound, UpdateInv DEF MarkObservedStep
<1>5. CASE ProtectUnmanagedStep
  BY <1>0, <1>5, ProtectUnmanagedSound, UpdateInv DEF ProtectUnmanagedStep
<1>6. CASE ClaimStep
  BY <1>0, <1>6, ClaimSound, UpdateInv DEF ClaimStep
<1>7. CASE ReleaseStep
  BY <1>0, <1>7, ReleaseSound, UpdateInv DEF ReleaseStep
<1>8. CASE Crash
  BY <1>8, BlankSound DEF Crash, Inv
<1>9. CASE UNCHANGED vars
  BY <1>9 DEF vars, Inv
<1>10. QED
  BY <1>1, <1>2, <1>3, <1>4, <1>5, <1>6, <1>7, <1>8, <1>9 DEF Next

LEMMA Invariant == Spec => []Inv
BY InitInv, StepInv, PTL DEF Spec

-----------------------------------------------------------------------------
(* Memory and file always have the shape the code declares.                *)
THEOREM TypeCorrect == Spec => []TypeOK
<1>1. Inv => TypeOK
  BY DEF Inv, Sound, TypeOK
<1>2. QED
  BY Invariant, <1>1, PTL

(* No sequence of calls, crashes, restarts and failed writes makes a       *)
(* symbol belong to two owners, or leaves a file the next start refuses.   *)
THEOREM OwnersDisjoint == Spec => []LedgerOK
<1>1. Inv => LedgerOK
  BY DEF Inv, Sound, LedgerOK
<1>2. QED
  BY Invariant, <1>1, PTL

-----------------------------------------------------------------------------
(* While every write succeeds the file is never behind memory.             *)
LEMMA FileStep ==
    ASSUME Persist, ~DiskMayFail, Inv, FileFollowsMemory, [Next]_vars
    PROVE  FileFollowsMemory'
<1>1. ASSUME NEW l, Update(l)
      PROVE  FileFollowsMemory'
  BY <1>1 DEF Update, Written, WriteFails, FileFollowsMemory
<1>2. CASE Start
  <2>1. PICK ls \in SUBSET Symbols, current \in SymbolSets :
             \/ Initialize(ls, current)
             \/ \E done \in SUBSET Followers :
                   InitializeInterrupted(ls, current, done)
    BY <1>2 DEF Start
  <2>2. CASE Initialize(ls, current)
    <3>1. disk' = File(mem') \/
          (disk' = disk /\ disk # NoFile /\ disk.version # 1 /\ mem' = disk.ledger)
      BY <2>2 DEF Initialize
    <3>2. ASSUME disk # NoFile, disk.version # 1
          PROVE  disk = [version |-> 2, ledger |-> disk.ledger]
      BY <3>2 DEF Inv, Files
    <3>3. QED
      BY <3>1, <3>2 DEF FileFollowsMemory, File
  <2>3. ASSUME NEW done \in SUBSET Followers, InitializeInterrupted(ls, current, done)
        PROVE  FileFollowsMemory'
    BY <2>3 DEF InitializeInterrupted, FileFollowsMemory
  <2>4. QED
    BY <2>1, <2>2, <2>3
<1>3. CASE Crash
  BY <1>3 DEF Crash, FileFollowsMemory
<1>4. CASE UNCHANGED vars
  BY <1>4 DEF vars, FileFollowsMemory
<1>5. QED
  BY <1>1, <1>2, <1>3, <1>4
  DEF Next, ObserveLeaderStep, ObserveFollowerStep, MarkObservedStep,
      ProtectUnmanagedStep, ClaimStep, ReleaseStep

(* Killed at any moment, the process finds the ledger it had: every method *)
(* writes whatever it changed.                                             *)
THEOREM RestartFindsLedger ==
    ASSUME Persist, ~DiskMayFail
    PROVE  Spec => []FileFollowsMemory
<1>1. Init => FileFollowsMemory
  BY DEF Init, FileFollowsMemory
<1>2. Inv /\ FileFollowsMemory /\ [Next]_vars => FileFollowsMemory'
  BY FileStep
<1>3. QED
  BY <1>1, <1>2, Invariant, PTL DEF Spec

-----------------------------------------------------------------------------
(* Protection only grows, in memory and in the file.                       *)
Grows(l, m) == \A f \in Followers : l.protected[f] \subseteq m.protected[f]

LEMMA MethodsGrow ==
    ASSUME NEW l \in Ledgers
    PROVE  /\ \A current \in SUBSET Symbols : Grows(l, ObserveLeader(l, current))
           /\ \A f \in Followers :
                 /\ \A current, ls \in SUBSET Symbols :
                       Grows(l, ObserveFollower(l, f, current, ls))
                 /\ \A current \in SUBSET Symbols :
                       Grows(l, ProtectUnmanaged(l, f, current))
                 /\ \A s \in Symbols :
                       /\ Grows(l, MarkObserved(l, f, s))
                       /\ Grows(l, Claim(l, f, s))
                       /\ Grows(l, Release(l, f, s))
BY DEF Grows, Ledgers, SymbolSets, ObserveLeader, ObserveFollower, MarkObserved,
       ProtectUnmanaged, Claim, Release

LEMMA ProtectAllGrows ==
    ASSUME NEW l \in Ledgers, NEW current \in SymbolSets
    PROVE  Grows(l, ProtectAll(l, current))
BY DEF Grows, Ledgers, SymbolSets, ProtectAll

(* Memory protects whatever the file protects.                             *)
Covers == up /\ disk # NoFile => Grows(disk.ledger, mem)

LEMMA UpdateCovers ==
    ASSUME Inv, Covers, NEW l \in Ledgers, Grows(mem, l), Update(l)
    PROVE  Covers' /\ (disk # NoFile => Grows(disk.ledger, disk'.ledger))
<1>1. disk # NoFile => Grows(disk.ledger, l)
  BY DEF Covers, Grows, Update, Written, WriteFails
<1>2. CASE disk' = disk
  BY <1>1, <1>2 DEF Covers, Grows, Update, Written, WriteFails
<1>3. CASE disk' = File(l)
  BY <1>1, <1>3 DEF Covers, Grows, Update, Written, WriteFails, File
<1>4. QED
  BY <1>2, <1>3 DEF Update, Written, WriteFails

LEMMA LoadedProtects == disk # NoFile => Loaded(disk).protected = disk.ledger.protected
BY DEF Loaded, FromVersion1

LEMMA StartCovers ==
    ASSUME Inv, Start
    PROVE  Covers' /\ (disk # NoFile => Grows(disk.ledger, disk'.ledger))
<1>1. PICK ls \in SUBSET Symbols, current \in SymbolSets :
           \/ Initialize(ls, current)
           \/ \E done \in SUBSET Followers :
                 InitializeInterrupted(ls, current, done)
  BY DEF Start
<1>2. ASSUME NEW part \in SymbolSets, disk # NoFile
      PROVE  Grows(disk.ledger, ProtectAll(Opened(ls, current), part))
  <2>1. Opened(ls, current) = Loaded(disk) /\ Loaded(disk) \in Ledgers
    BY <1>2 DEF Opened, Inv, Sound
  <2>2. Grows(Loaded(disk), ProtectAll(Opened(ls, current), part))
    BY <2>1, ProtectAllGrows
  <2>3. QED
    BY <1>2, <2>2, LoadedProtects DEF Grows
<1>3. CASE Initialize(ls, current)
  <2>1. disk # NoFile => Grows(disk.ledger, mem')
    BY <1>2, <1>3 DEF Initialize
  <2>2. disk' = disk \/ disk' = File(mem')
    BY <1>3 DEF Initialize
  <2>3. QED
    BY <2>1, <2>2 DEF Covers, Grows, File
<1>4. ASSUME NEW done \in SUBSET Followers, InitializeInterrupted(ls, current, done)
      PROVE  Covers' /\ (disk # NoFile => Grows(disk.ledger, disk'.ledger))
  <2>. DEFINE part == [f \in Followers |-> IF f \in done THEN current[f] ELSE {}]
  <2>1. part \in SymbolSets
    BY DEF SymbolSets
  <2>2. ~up' /\ disk'.ledger = ProtectAll(Opened(ls, current), part)
    BY <1>4 DEF InitializeInterrupted, File
  <2>3. QED
    BY <1>2, <2>1, <2>2 DEF Covers
<1>5. QED
  BY <1>1, <1>3, <1>4

LEMMA StepCovers ==
    ASSUME Inv, Covers, [Next]_vars
    PROVE  Covers' /\ (disk # NoFile => Grows(disk.ledger, disk'.ledger))
<1>0. mem \in Ledgers /\ Sound(mem)
  BY DEF Inv, Sound
<1>1. CASE Start
  BY <1>1, StartCovers
<1>2. CASE ObserveLeaderStep
  BY <1>0, <1>2, ObserveLeaderSound, MethodsGrow, UpdateCovers DEF ObserveLeaderStep, Sound
<1>3. CASE ObserveFollowerStep
  BY <1>0, <1>3, ObserveFollowerSound, MethodsGrow, UpdateCovers DEF ObserveFollowerStep, Sound
<1>4. CASE MarkObservedStep
  BY <1>0, <1>4, MarkObservedSound, MethodsGrow, UpdateCovers DEF MarkObservedStep, Sound
<1>5. CASE ProtectUnmanagedStep
  BY <1>0, <1>5, ProtectUnmanagedSound, MethodsGrow, UpdateCovers
  DEF ProtectUnmanagedStep, Sound
<1>6. CASE ClaimStep
  BY <1>0, <1>6, ClaimSound, MethodsGrow, UpdateCovers DEF ClaimStep, Sound
<1>7. CASE ReleaseStep
  BY <1>0, <1>7, ReleaseSound, MethodsGrow, UpdateCovers DEF ReleaseStep, Sound
<1>8. CASE Crash
  BY <1>8 DEF Crash, Covers, Grows
<1>9. CASE UNCHANGED vars
  BY <1>9 DEF vars, Covers, Grows
<1>10. QED
  BY <1>1, <1>2, <1>3, <1>4, <1>5, <1>6, <1>7, <1>8, <1>9 DEF Next

(* A protected symbol stays protected in the file, whatever is called and  *)
(* whatever fails.                                                         *)
THEOREM ProtectionPermanent == Spec => ProtectedForever
<1>1. Init => Covers
  BY DEF Init, Covers
<1>2. Inv /\ Covers /\ [Next]_vars => Covers'
  BY StepCovers
<1>3. Inv /\ Covers /\ [Next]_vars =>
        [disk # NoFile =>
           \A f \in Followers :
              disk.ledger.protected[f] \subseteq disk'.ledger.protected[f]]_vars
  BY StepCovers DEF Grows
<1>4. QED
  BY <1>1, <1>2, <1>3, Invariant, PTL DEF Spec, ProtectedForever
==============================================================================
