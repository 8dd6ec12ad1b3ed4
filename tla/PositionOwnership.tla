-------------------------- MODULE PositionOwnership --------------------------
(***************************************************************************)
(* The persisted ledger: PositionOwnership of                              *)
(* perpmirror/monitoring/ownership.py with its state file, used by a       *)
(* process that may be killed and started again at any time.               *)
(*                                                                         *)
(* Every method runs without an await, so it is one action.  It changes    *)
(* the ledger in memory first and writes the whole ledger afterwards       *)
(* (temporary file, then rename, so a reader sees the old or the new file  *)
(* and nothing between).  The snapshots a method is given are arbitrary:   *)
(* what the caller passes, and in which order, is the concern of the       *)
(* module that composes this one with the reconciliation round.            *)
(*                                                                         *)
(* A definition whose name has an underscore is a mutant: the definition   *)
(* that follows it, with a mistake the code could have made.               *)
(***************************************************************************)
EXTENDS OwnershipLedger

CONSTANTS
    Persist,     \* persist_changes: FALSE in a dry run
    DiskMayFail, \* writing the state file may raise OSError
    NoFile       \* the state file does not exist

ASSUME PersistAssumption == Persist \in BOOLEAN /\ DiskMayFail \in BOOLEAN
ASSUME NoFileAssumption ==
    NoFile \notin [version : {1, 2}, ledger : Ledgers]

VARIABLES
    up,    \* initialized: the process runs and has its ledger
    mem,   \* the ledger in memory
    disk   \* the state file

vars == <<up, mem, disk>>

Files == [version : {1, 2}, ledger : Ledgers]
File_UnknownVersion(l) == [version |-> 3, ledger |-> l]
File(l) == [version |-> 2, ledger |-> l]

(* The ledger _load reads from a file.                                     *)
Loaded(file) ==
    IF file.version = 1 THEN FromVersion1(file.ledger) ELSE file.ledger

Blank == FirstLedger({}, NoSymbols)

TypeOK ==
    /\ up \in BOOLEAN
    /\ mem \in Ledgers
    /\ disk \in Files \cup {NoFile}

(* Before the first start there is no file, or one that version 1 of the   *)
(* program left, which knows no observed and no suspended symbols.         *)
Init ==
    /\ up = FALSE
    /\ mem = Blank
    /\ \/ disk = NoFile
       \/ \E b \in SUBSET Symbols, p, m \in SymbolSets :
             /\ \A f \in Followers : p[f] \cap m[f] = {}
             /\ disk = [version |-> 1,
                        ledger |-> [FirstLedger(b, p) EXCEPT !.managed = m]]

-----------------------------------------------------------------------------
(* The ledger the process starts from: read, or created.                   *)
Opened(leaderSymbols, current) ==
    IF disk = NoFile THEN FirstLedger(leaderSymbols, current) ELSE Loaded(disk)

Initialize_NoMigration(leaderSymbols, current) ==
    /\ ~up
    /\ LoadAccepts(Opened(leaderSymbols, current))
    /\ up' = TRUE
    /\ mem' = ProtectAll(Opened(leaderSymbols, current), current)
    /\ disk' = IF Persist /\ (disk = NoFile \/ mem' # disk.ledger)
               THEN File(mem') ELSE disk

Initialize(leaderSymbols, current) ==
    /\ ~up
    /\ LoadAccepts(Opened(leaderSymbols, current))
    /\ up' = TRUE
    /\ mem' = ProtectAll(Opened(leaderSymbols, current), current)
    /\ disk' = IF Persist /\ (disk = NoFile \/ disk.version = 1 \/ mem' # disk.ledger)
               THEN File(mem') ELSE disk

(* Start-up writes up to once per follower; the process may die after any  *)
(* of these writes, with the symbols of only some followers protected.     *)
InitializeInterrupted(leaderSymbols, current, done) ==
    /\ ~up /\ Persist
    /\ LoadAccepts(Opened(leaderSymbols, current))
    /\ disk' = File(ProtectAll(Opened(leaderSymbols, current),
                      [f \in Followers |-> IF f \in done THEN current[f] ELSE {}]))
    /\ UNCHANGED <<up, mem>>

(* A method's outcome: memory is changed, then the file, unless the write  *)
(* fails.  Nothing is written when nothing changed.                        *)
Written(l) ==
    /\ up /\ UNCHANGED up
    /\ mem' = l
    /\ disk' = IF Persist /\ l # mem THEN File(l) ELSE disk

WriteFails(l) ==
    /\ Persist /\ DiskMayFail
    /\ up /\ mem' = l
    /\ UNCHANGED <<up, disk>>

Update(l) == Written(l) \/ WriteFails(l)

ObserveLeaderStep == \E current \in SUBSET Symbols : Update(ObserveLeader(mem, current))

ObserveFollowerStep ==
    \E f \in Followers, current, leaderSymbols \in SUBSET Symbols :
        Update(ObserveFollower(mem, f, current, leaderSymbols))

MarkObservedStep ==
    \E f \in Followers, s \in Symbols : Update(MarkObserved(mem, f, s))

ProtectUnmanagedStep ==
    \E f \in Followers, current \in SUBSET Symbols :
        Update(ProtectUnmanaged(mem, f, current))

ClaimStep ==
    \E f \in Followers, s \in Symbols :
        ~ClaimRefused(mem, f, s) /\ Update(Claim(mem, f, s))

ReleaseStep ==
    \E f \in Followers, s \in Symbols : Update(Release(mem, f, s))

Crash ==
    /\ up
    /\ up' = FALSE
    /\ mem' = Blank
    /\ UNCHANGED disk

Start ==
    \E leaderSymbols \in SUBSET Symbols, current \in SymbolSets :
        \/ Initialize(leaderSymbols, current)
        \/ \E done \in SUBSET Followers :
              InitializeInterrupted(leaderSymbols, current, done)

Next ==
    \/ Start
    \/ ObserveLeaderStep
    \/ ObserveFollowerStep
    \/ MarkObservedStep
    \/ ProtectUnmanagedStep
    \/ ClaimStep
    \/ ReleaseStep
    \/ Crash

Spec == Init /\ [][Next]_vars

-----------------------------------------------------------------------------
(* A symbol is protected or managed or suspended, never two of them, and   *)
(* what is observed is managed: in memory, and in the file, so that _load  *)
(* never rejects a file the program itself wrote ("a symbol is either      *)
(* protected or managed, never both", PositionOwnership's docstring).      *)
LedgerOK ==
    /\ LoadAccepts(mem)
    /\ disk # NoFile => LoadAccepts(Loaded(disk))

(* The file is never behind memory: killed at any moment, the process      *)
(* finds on its next start the ledger it had.  Every method must therefore *)
(* write whatever it changed.                                              *)
FileFollowsMemory == up => disk = File(mem)

(* What the file once protects it protects for ever, whatever fails.       *)
ProtectedForever ==
    [][disk # NoFile =>
         \A f \in Followers :
            disk.ledger.protected[f] \subseteq disk'.ledger.protected[f]]_vars

-----------------------------------------------------------------------------
(* The refinement of CopyCycle: the ledger the running process has, or the *)
(* one it would load.                                                      *)
View == IF up THEN mem ELSE IF disk = NoFile THEN Blank ELSE Loaded(disk)

StatusOf(l, f, s) ==
    IF s \in l.protected[f] THEN "protected"
    ELSE IF s \in l.suspended[f] THEN "suspended"
    ELSE IF s \in l.observed[f] THEN "live"
    ELSE IF s \in l.managed[f] THEN "claimed"
    ELSE "free"

Cycle == INSTANCE CopyCycle WITH
            started <- up \/ disk # NoFile,
            blocked <- View.blocked,
            status  <- [f \in Followers |-> [s \in Symbols |-> StatusOf(View, f, s)]]

(* The ledger with its file, its crashes and its restarts follows the      *)
(* cycle of statuses: in particular a suspended symbol is not copied again *)
(* before the leader is seen flat, across any number of restarts.          *)
FollowsCycle == Cycle!CycleSpec
==============================================================================
