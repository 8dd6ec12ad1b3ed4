--------------------------- MODULE OwnershipLedger ---------------------------
(***************************************************************************)
(* The symbol-ownership ledger of new-position-only copy mode, as values   *)
(* and operators: perpmirror/monitoring/ownership.py without its file.     *)
(*                                                                         *)
(* A ledger holds the leader symbols that are blocked until the leader is  *)
(* seen flat and, for every follower, four sets of symbols: protected      *)
(* (never traded), managed (claimed by the program), observed (managed and *)
(* seen as a live position) and suspended (closed by somebody else, not    *)
(* copied until the leader is seen flat).                                  *)
(*                                                                         *)
(* A definition whose name has an underscore is a mutant: the definition   *)
(* that follows it, with a mistake the code could have made.               *)
(***************************************************************************)
EXTENDS Integers, FiniteSets

CONSTANTS
    Followers,  \* follower account ids
    Symbols     \* normalized symbols

SymbolSets == [Followers -> SUBSET Symbols]

Ledgers == [blocked   : SUBSET Symbols,
            protected : SymbolSets,
            managed   : SymbolSets,
            observed  : SymbolSets,
            suspended : SymbolSets]

NoSymbols == [f \in Followers |-> {}]

(* The ledger created when no state file exists: what the leader holds is  *)
(* blocked, what a follower holds is protected.                            *)
FirstLedger_NothingBlocked(leaderSymbols, followerSymbols) ==
    [blocked |-> {}, protected |-> followerSymbols, managed |-> NoSymbols,
     observed |-> NoSymbols, suspended |-> NoSymbols]

FirstLedger(leaderSymbols, followerSymbols) ==
    [blocked   |-> leaderSymbols,
     protected |-> followerSymbols,
     managed   |-> NoSymbols,
     observed  |-> NoSymbols,
     suspended |-> NoSymbols]

(* A leader snapshot: blocked and suspended symbols the leader no longer   *)
(* holds become eligible for its next position.                            *)
ObserveLeader_AllReleased(l, current) ==
    IF l.blocked \subseteq current THEN l ELSE [l EXCEPT !.blocked = {}]

ObserveLeader(l, current) ==
    [l EXCEPT !.blocked   = @ \cap current,
              !.suspended = [f \in Followers |-> l.suspended[f] \cap current]]

(* Observed positions of f that are gone while the leader leg is open.     *)
Disappeared(l, f, current, leaderSymbols) ==
    (l.observed[f] \ current) \cap leaderSymbols

ObserveFollower_StillManaged(l, f, current, leaderSymbols) ==
    LET gone == Disappeared(l, f, current, leaderSymbols)
    IN  [l EXCEPT !.observed[f]  = (@ \cup (l.managed[f] \cap current)) \ gone,
                  !.suspended[f] = @ \cup gone]

ObserveFollower_NotSuspended(l, f, current, leaderSymbols) ==
    LET gone == Disappeared(l, f, current, leaderSymbols)
    IN  [l EXCEPT !.managed[f]   = @ \ gone,
                  !.observed[f]  = (@ \cup (l.managed[f] \cap current)) \ gone]

ObserveFollower(l, f, current, leaderSymbols) ==
    LET gone == Disappeared(l, f, current, leaderSymbols)
        seen == l.managed[f] \cap current
    IN  [l EXCEPT !.managed[f]   = @ \ gone,
                  !.observed[f]  = (@ \cup seen) \ gone,
                  !.suspended[f] = @ \cup gone]

MarkObserved(l, f, s) ==
    [l EXCEPT !.observed[f] = @ \cup ({s} \cap l.managed[f])]

(* Positions of f the program does not manage and has not suspended.       *)
Discovered(l, f, current) ==
    current \ (l.managed[f] \cup l.protected[f] \cup l.suspended[f])

ProtectUnmanaged_Replaces(l, f, current) ==
    [l EXCEPT !.protected[f] = Discovered(l, f, current)]

ProtectUnmanaged_Skipped(l, f, current) == l

ProtectUnmanaged(l, f, current) ==
    [l EXCEPT !.protected[f] = @ \cup Discovered(l, f, current)]

(* Start-up runs protect_unmanaged for every follower.                     *)
ProtectAll(l, current) ==
    [l EXCEPT !.protected =
        [f \in Followers |-> @[f] \cup Discovered(l, f, current[f])]]

CandidateSymbols(l, f, leaderSymbols) ==
    l.managed[f] \cup
    ((leaderSymbols \ l.blocked) \ (l.protected[f] \cup l.suspended[f]))

(* claim() raises UnsafeOperation exactly for these symbols.               *)
ClaimRefused_Blocked(l, f, s) == s \in l.protected[f] \cup l.suspended[f]

ClaimRefused(l, f, s) ==
    s \in l.protected[f] \cup l.suspended[f] \cup l.blocked

Claim(l, f, s) == [l EXCEPT !.managed[f] = @ \cup {s}]

Release(l, f, s) ==
    IF s \in l.managed[f]
    THEN [l EXCEPT !.managed[f] = @ \ {s}, !.observed[f] = @ \ {s}]
    ELSE l

(* A version 1 file has neither observed nor suspended symbols: whatever   *)
(* it manages may have been live, so it counts as observed.                *)
FromVersion1(l) == [l EXCEPT !.observed = l.managed, !.suspended = NoSymbols]

(* The consistency test a state file must pass to be loaded.               *)
LoadAccepts(l) ==
    \A f \in Followers :
        /\ l.protected[f] \cap l.managed[f] = {}
        /\ l.suspended[f] \cap (l.protected[f] \cup l.managed[f]) = {}
        /\ l.observed[f] \subseteq l.managed[f]
==============================================================================
