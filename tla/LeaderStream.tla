---------------------------- MODULE LeaderStream -----------------------------
(***************************************************************************)
(* What triggers the coalescer: connect_private_ws of the Binance and OKX  *)
(* adapters (perpmirror/exchanges/binance.py, okx.py), which follows the   *)
(* leader's account through a connection that may break at any moment, and *)
(* the periodic task of PerpMirrorApp (perpmirror/app.py).                 *)
(*                                                                         *)
(* The leader's account is a version number.  A change made while the      *)
(* stream is live becomes a message; messages not read when the connection *)
(* breaks are lost.                                                        *)
(*                                                                         *)
(* A definition whose name has an underscore is a mutant: the definition   *)
(* that follows it, with a mistake the code could have made.               *)
(***************************************************************************)
EXTENDS Coalescer

CONSTANT Exchanges \* exchanges the leader may be on: "binance", "okx"

ASSUME StreamAssumption == Exchanges \subseteq {"binance", "okx"}

VARIABLES
    exchange, \* the leader's exchange
    interval, \* the interval passes while the program runs
    link,     \* the connection; "off" while its task does not run
    inbox,    \* a message has arrived and was not read yet
    known,    \* connected_once
    early     \* history: version before the first connection to Binance

streamVars == <<exchange, interval, link, inbox, known, early>>

fixedStream == <<exchange, interval>>

StreamInit ==
    /\ exchange \in Exchanges /\ interval \in BOOLEAN
    /\ link = "off" /\ inbox = FALSE /\ known = FALSE
    /\ early = 0

(* The leader trades (what it does once close has begun concerns nobody).  *)
(* Nobody watches OKX before its subscription either, but there the answer *)
(* to the subscription will count as an event.                             *)
Change ==
    /\ ~Stopped /\ world < MaxChanges /\ world' = world + 1
    /\ inbox' = (inbox \/ link = "live")
    /\ early' = IF exchange = "binance" /\ ~known THEN world' ELSE early
    /\ UNCHANGED <<event, pc, closing, roundVars, fixedStream, link, known>>

(* The task is created with the other tasks of run.                        *)
StartStream == link' = "down" /\ UNCHANGED <<fixedStream, inbox, known, early>>

Connect_Silently ==
    /\ link = "down"
    /\ link' = IF exchange = "okx" THEN "asked" ELSE "live"
    /\ known' = TRUE
    /\ UNCHANGED <<event, pc, closing, world, roundVars, fixedStream, inbox, early>>

(* Connected: Binance's stream is live at once; OKX's, after the login, is *)
(* asked for its channels.  The state is reported: "connected" the first   *)
(* time, "reconnected", which triggers, from then on.                      *)
Connect ==
    /\ link = "down"
    /\ link' = IF exchange = "okx" THEN "asked" ELSE "live"
    /\ known' = TRUE
    /\ IF known THEN Trigger ELSE UNCHANGED event
    /\ UNCHANGED <<pc, closing, world, roundVars, fixedStream, inbox, early>>

(* OKX answers the subscription.  A confirmation names the channel and is  *)
(* a message like any other; an error names none and is passed over, the   *)
(* connection stays.                                                       *)
Subscribed ==
    /\ link = "asked"
    /\ \/ link' = "live" /\ inbox' = TRUE
       \/ link' = "deaf" /\ UNCHANGED inbox
    /\ UNCHANGED <<event, pc, closing, world, roundVars, fixedStream, known, early>>

(* A message is read: on_event.                                            *)
Receive ==
    /\ link = "live" /\ inbox
    /\ inbox' = FALSE /\ Trigger
    /\ UNCHANGED <<pc, closing, world, roundVars, fixedStream, link, known, early>>

(* The connection breaks, is closed, or its listen key expires; what was   *)
(* not read is gone.  The loop connects again, at once or after a backoff. *)
Disconnect ==
    /\ link \in {"asked", "live", "deaf"}
    /\ ~Stopped /\ faults > 0 /\ faults' = faults - 1
    /\ link' = "down" /\ inbox' = FALSE
    /\ UNCHANGED <<event, pc, closing, world, read, missed, fixedStream, known, early>>

StreamStep == Connect \/ Subscribed \/ Receive

(* The interval passes: _periodic_loop triggers.                           *)
Interval ==
    /\ interval /\ link # "off" /\ ~AppStopped
    /\ Trigger
    /\ UNCHANGED <<pc, closing, world, roundVars, streamVars>>

-----------------------------------------------------------------------------
StreamTypeOK ==
    /\ exchange \in Exchanges /\ interval \in BOOLEAN
    /\ link \in {"off", "down", "asked", "live", "deaf"}
    /\ inbox \in BOOLEAN /\ (inbox => link = "live")
    /\ known \in BOOLEAN /\ early \in 0..world

(* No change of the leader is missed: a later round reads it, whatever the *)
(* coalescer was doing when it was told and whenever the connection broke  *)
(* ("a trigger during callback stays set and causes a fresh full           *)
(* snapshot", "reconnection must immediately fetch authoritative REST      *)
(* snapshots").  Three kinds of changes wait for the interval, and without *)
(* it for the next trigger: one made before the first connection to        *)
(* Binance, which reports no reconnection; any while OKX has refused the   *)
(* subscription; and one whose round could not read the leader while no    *)
(* trigger was pending, for such a round is not repeated.  A trigger that  *)
(* comes during the failing round is kept.                                 *)
ChangesRead ==
    \A v \in 1..MaxChanges :
        world >= v ~> \/ read >= v \/ AppStopped
                      \/ ~interval /\ (v <= early \/ v <= missed \/ link = "deaf")
==============================================================================
