------------------------------ MODULE Coalescer ------------------------------
(***************************************************************************)
(* ReconcileCoalescer (perpmirror/monitoring/coalescer.py): its task waits *)
(* for an event, clears it, sleeps the debounce time, clears it again and  *)
(* runs the callback, a full reconciliation.                               *)
(*                                                                         *)
(* A definition whose name has an underscore is a mutant: the definition   *)
(* that follows it, with a mistake the code could have made.               *)
(***************************************************************************)
EXTENDS Integers

CONSTANTS
    Debounce,   \* debounce_seconds > 0
    MaxChanges, \* bound on changes of the leader's account
    MaxFaults   \* bound on failed reads and broken connections, together

ASSUME CoalescerAssumption ==
    Debounce \in BOOLEAN /\ MaxChanges \in Nat /\ MaxFaults \in Nat

VARIABLES
    event,   \* the coalescer's _event
    pc,      \* where the coalescer's task is; "off" before start()
    closing, \* where PerpMirrorApp.close is
    world,   \* version of the leader's account
    read,    \* version the last round read
    missed,  \* history: version a round failed to read with no trigger pending
    faults   \* reads and connections that may still fail

roundVars == <<read, missed, faults>>
coalescerVars == <<event, pc, closing, world, roundVars>>

(* app._stop is set; so is the coalescer's _stopped, but for the time      *)
(* before close.                                                           *)
AppStopped == closing # "no"
Stopped == closing \notin {"no", "requested"}

CoalescerInit ==
    /\ event = FALSE /\ pc = "off" /\ closing = "no"
    /\ world = 0 /\ read = 0 /\ missed = 0 /\ faults = MaxFaults

(* start(), unless run has ended before.                                   *)
StartCoalescer == pc' = "wait" /\ UNCHANGED <<event, closing, world, roundVars>>

(* trigger(), by whoever calls it.                                         *)
Trigger == event' = TRUE

Wake_AppStopped ==
    /\ pc = "wait" /\ event
    /\ IF AppStopped THEN pc' = "ended" /\ UNCHANGED event
       ELSE pc' = (IF Debounce THEN "debounce" ELSE "callback") /\ event' = FALSE
    /\ UNCHANGED <<closing, world, roundVars>>

(* The event is set: the task wakes, ends if it was stopped, else clears   *)
(* the event.                                                              *)
Wake ==
    /\ pc = "wait" /\ event
    /\ IF Stopped THEN pc' = "ended" /\ UNCHANGED event
       ELSE pc' = (IF Debounce THEN "debounce" ELSE "callback") /\ event' = FALSE
    /\ UNCHANGED <<closing, world, roundVars>>

Debounced ==
    /\ pc = "debounce"
    /\ pc' = "callback" /\ event' = FALSE
    /\ UNCHANGED <<closing, world, roundVars>>

(* while not _stopped.                                                     *)
NextPc == IF Stopped THEN "ended" ELSE "wait"

(* full_reconcile: nothing once the app stops, otherwise the leader's      *)
(* equity and positions are read, and then the accounts reconciled.        *)
BeginRound ==
    /\ pc = "callback"
    /\ IF AppStopped THEN pc' = NextPc /\ UNCHANGED read
       ELSE pc' = "reconciling" /\ read' = world
    /\ UNCHANGED <<event, closing, world, missed, faults>>

(* One of the reads raises, its retries exhausted.  The exception is only  *)
(* logged, and the event, cleared before the round, stays cleared.         *)
ReadFails ==
    /\ pc = "callback" /\ ~AppStopped
    /\ faults > 0 /\ faults' = faults - 1
    /\ pc' = NextPc
    /\ missed' = IF event THEN missed ELSE world
    /\ UNCHANGED <<event, closing, world, read>>

(* The round ends or raises; the exception is logged.                      *)
FinishRound ==
    /\ pc = "reconciling"
    /\ pc' = NextPc
    /\ UNCHANGED <<event, closing, world, roundVars>>

CoalescerStep == Wake \/ Debounced \/ BeginRound \/ ReadFails \/ FinishRound

-----------------------------------------------------------------------------
(* request_stop sets app._stop.                                            *)
RequestStop ==
    /\ closing = "no" /\ closing' = "requested"
    /\ UNCHANGED <<event, pc, world, roundVars>>

StopCoalescer_FlagOnly ==
    /\ ~Stopped /\ closing' = "stopping"
    /\ UNCHANGED <<event, pc, world, roundVars>>

(* close sets app._stop and calls coalescer.stop(): flag and event are set,*)
(* then the task, if there is one, is awaited.                             *)
StopCoalescer ==
    /\ ~Stopped /\ closing' = "stopping"
    /\ event' = TRUE
    /\ UNCHANGED <<pc, world, roundVars>>

CloseClients_NotAwaited ==
    /\ closing = "stopping" /\ closing' \in {"closed", "broken"}
    /\ UNCHANGED <<event, pc, world, roundVars>>

(* The task has ended: the other tasks are cancelled, the clients closed.  *)
(* One that raises ends close, and with it the process.                    *)
CloseClients ==
    /\ closing = "stopping" /\ pc \in {"off", "ended"}
    /\ closing' \in {"closed", "broken"}
    /\ UNCHANGED <<event, pc, world, roundVars>>

-----------------------------------------------------------------------------
CoalescerTypeOK ==
    /\ event \in BOOLEAN
    /\ pc \in {"off", "wait", "debounce", "callback", "reconciling", "ended"}
    /\ closing \in {"no", "requested", "stopping", "closed", "broken"}
    /\ world \in 0..MaxChanges /\ read \in 0..world
    /\ missed \in 0..world /\ faults \in 0..MaxFaults
    /\ pc = "ended" => Stopped
==============================================================================
