---------------------------- MODULE AppLifecycle -----------------------------
(***************************************************************************)
(* PerpMirrorApp.run and close (perpmirror/app.py) with the tasks they     *)
(* start and end: start-up, an optional first round, then the stream and   *)
(* the interval trigger the coalescer (LeaderStream, Coalescer), rounds    *)
(* publish cards, the worker posts them (NotificationWorker); close ends   *)
(* the coalescer, the exchange clients and the notifications in that order.*)
(*                                                                         *)
(* A definition whose name has an underscore is a mutant: the definition   *)
(* that follows it, with a mistake the code could have made.               *)
(***************************************************************************)
EXTENDS LeaderStream, NotificationWorker

VARIABLE phase \* where run is
lifecycleVars == <<phase, coalescerVars, streamVars, workerVars>>

backgroundVars == <<coalescerVars, streamVars>>

LifecycleInit ==
    /\ phase = "start" /\ CoalescerInit /\ StreamInit /\ WorkerInit

-----------------------------------------------------------------------------
(* run.  Its start-up (checks, ownership, the card with the accounts) asks *)
(* the exchanges, and any failure of it ends run; so does --check-config.  *)
StartUpEnds ==
    /\ phase = "start" /\ phase' = "returned"
    /\ UNCHANGED <<backgroundVars, workerVars>>

(* The start-up card, then the first round, if it is wanted: nothing once  *)
(* a stop was requested, and nothing catches what its reads may raise.     *)
StartUp ==
    /\ phase = "start"
    /\ Publish
    /\ \/ ~AppStopped /\ phase' = "first_round" /\ read' = world
       \/ phase' \in {"ready", "returned"} /\ UNCHANGED read
    /\ UNCHANGED <<event, pc, closing, world, missed, faults, streamVars>>

(* The first round ends; it may raise, or be all there is to do (--once).  *)
FirstRoundEnds ==
    /\ phase = "first_round" /\ phase' \in {"ready", "returned"}
    /\ UNCHANGED <<backgroundVars, workerVars>>

(* The tasks are created.                                                  *)
StartTasks ==
    /\ phase = "ready" /\ phase' = "running"
    /\ StartCoalescer /\ StartStream
    /\ UNCHANGED workerVars

(* A stop requested at any moment is noticed here.                         *)
RunReturns ==
    /\ phase = "running" /\ AppStopped
    /\ phase' = "returned"
    /\ UNCHANGED <<backgroundVars, workerVars>>

RunStep == StartUpEnds \/ StartUp \/ FirstRoundEnds \/ StartTasks \/ RunReturns

(* A round publishes its cards while it runs.                              *)
RoundPublishes ==
    /\ pc = "reconciling" \/ phase = "first_round"
    /\ Publish
    /\ UNCHANGED <<phase, backgroundVars>>

-----------------------------------------------------------------------------
(* close follows run, however run ended.                                   *)
CloseCoalescer == phase = "returned" /\ StopCoalescer /\ UNCHANGED <<streamVars, workerVars>>

CloseTasks ==
    /\ CloseClients
    /\ link' = "off" /\ inbox' = FALSE
    /\ UNCHANGED <<fixedStream, known, early, workerVars>>

StopNotifications_WithTheCoalescer ==
    /\ closing \in {"stopping", "closed"}
    /\ Stop
    /\ UNCHANGED backgroundVars

(* close calls notifications.stop() after everything else.                 *)
StopNotifications ==
    /\ closing = "closed"
    /\ Stop
    /\ UNCHANGED backgroundVars

CloseStep == (CloseCoalescer \/ CloseTasks \/ StopNotifications) /\ UNCHANGED phase

CoalescerRuns == CoalescerStep /\ UNCHANGED <<phase, streamVars, workerVars>>

StreamRuns == StreamStep /\ UNCHANGED <<phase, workerVars>>

IntervalPasses == Interval /\ UNCHANGED <<phase, workerVars>>

(* The worker's task; it dies with a process whose close has raised.       *)
WorkerRuns ==
    /\ closing # "broken"
    /\ WorkerStep \/ Joined \/ CloseNotifier
    /\ UNCHANGED <<phase, backgroundVars>>

LifecycleNext ==
    \/ RunStep \/ RoundPublishes \/ CloseStep
    \/ CoalescerRuns \/ StreamRuns \/ IntervalPasses \/ WorkerRuns
    \/ (Change \/ Disconnect) /\ UNCHANGED <<phase, workerVars>>
    \/ RequestStop /\ UNCHANGED <<phase, streamVars, workerVars>>

(* The event loop runs every ready task; a request, a connection or a post *)
(* succeeds, fails or times out, and a connection that keeps failing is    *)
(* tried again until it succeeds.  Nothing obliges the leader, the network *)
(* or a request to stop.                                                   *)
Spec ==
    /\ LifecycleInit /\ [][LifecycleNext]_lifecycleVars
    /\ WF_lifecycleVars(RunStep)
    /\ WF_lifecycleVars(CoalescerRuns)
    /\ WF_lifecycleVars(StreamRuns)
    /\ WF_lifecycleVars(IntervalPasses)
    /\ WF_lifecycleVars(WorkerRuns)
    /\ WF_lifecycleVars(CloseStep)

-----------------------------------------------------------------------------
LifecycleTypeOK ==
    /\ CoalescerTypeOK /\ StreamTypeOK /\ WorkerTypeOK
    /\ phase \in {"start", "first_round", "ready", "running", "returned"}
    /\ pc # "off" => phase \in {"running", "returned"}
    /\ link # "off" => pc # "off" /\ closing \in {"no", "requested", "stopping"}

(* The clients are closed only when no round uses them, and none begins    *)
(* afterwards.                                                             *)
NoRoundAfterClose ==
    closing = "closed" => pc \in {"off", "ended"} /\ phase = "returned"

(* Closing the program loses no card: once the notifier is closed, every   *)
(* card of a round, of the start-up and of the first round was handled.    *)
DrainedBeforeClose ==
    stopping \in {"await", "closed"} => \A c \in 1..published : Finished(c)

(* A request to stop always ends the program: during start-up, a debounce, *)
(* a round, a backoff, or a wait for a trigger that never comes.  Unless a *)
(* client's close raises, the notifications are drained first.             *)
StopCompletes ==
    closing = "requested" ~> stopping = "closed" \/ closing = "broken"
==============================================================================
