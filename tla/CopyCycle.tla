------------------------------ MODULE CopyCycle ------------------------------
(***************************************************************************)
(* What the ownership ledger promises, without its sets, its file and its  *)
(* process: for every follower and symbol one status, and the few ways in  *)
(* which a status may change.                                              *)
(*                                                                         *)
(*        protected <-- free --> claimed --> live --> suspended            *)
(*                       ^ ^--------'----------'          |                *)
(*                       '----------- leader flat --------'                *)
(***************************************************************************)
EXTENDS Integers

CONSTANTS
    Followers,  \* follower account ids
    Symbols     \* normalized symbols

VARIABLES
    started,    \* the ledger exists
    blocked,    \* symbols the leader held at the first start, not flat since
    status      \* the status of every symbol at every follower

cycleVars == <<started, blocked, status>>

Status == {"free", "protected", "claimed", "live", "suspended"}

CycleInit ==
    /\ started \in BOOLEAN
    /\ blocked \in SUBSET Symbols
    /\ status \in [Followers -> [Symbols -> Status]]
    /\ ~started => /\ blocked = {}
                   /\ \A f \in Followers, s \in Symbols : status[f][s] = "free"

(* The statuses that a step of one follower may give a symbol.             *)
Allowed(from, isBlocked) ==
    {from} \cup
    CASE from = "free"      -> IF isBlocked THEN {"protected"}
                                            ELSE {"protected", "claimed"}
      [] from = "claimed"   -> {"live", "free"}
      [] from = "live"      -> {"suspended", "free"}
      [] OTHER              -> {}

(* The first start: symbols become blocked or protected, none is managed.  *)
Begin ==
    /\ ~started /\ started'
    /\ blocked' \subseteq Symbols
    /\ \A f \in Followers, s \in Symbols : status'[f][s] \in {"free", "protected"}

(* The leader is seen without some symbols: for every follower at once     *)
(* these are no longer blocked and no longer suspended.                    *)
LeaderFlat ==
    \E flat \in SUBSET Symbols :
        /\ started /\ UNCHANGED started
        /\ blocked' = blocked \ flat
        /\ status' = [f \in Followers |-> [s \in Symbols |->
                        IF s \in flat /\ status[f][s] = "suspended"
                        THEN "free" ELSE status[f][s]]]

(* One follower's symbols advance; nothing else changes.                   *)
FollowerStep ==
    \E f \in Followers :
        /\ started /\ UNCHANGED <<started, blocked>>
        /\ \A s \in Symbols :
              status'[f][s] \in Allowed(status[f][s], s \in blocked)
        /\ \A g \in Followers \ {f} : status'[g] = status[g]

(* A restart may only protect free symbols.                                *)
Restart ==
    /\ started /\ UNCHANGED <<started, blocked>>
    /\ \A f \in Followers, s \in Symbols :
          status'[f][s] \in {status[f][s]} \cup
                            (IF status[f][s] = "free" THEN {"protected"} ELSE {})

CycleNext == Begin \/ LeaderFlat \/ FollowerStep \/ Restart

CycleSpec == CycleInit /\ [][CycleNext]_cycleVars
==============================================================================
