------------------------- MODULE NotificationWorker --------------------------
(***************************************************************************)
(* NotificationWorker (perpmirror/notifications/worker.py) with            *)
(* FeishuNotifier.send_card (perpmirror/notifications/feishu.py): cards    *)
(* are put into a bounded queue without waiting, one task takes them out   *)
(* and posts each to the webhook, again after a transient error, as plain  *)
(* text after a rejected card; stop() drains the queue.                    *)
(*                                                                         *)
(* A card is its number in the order of publication.                       *)
(*                                                                         *)
(* A definition whose name has an underscore is a mutant: the definition   *)
(* that follows it, with a mistake the code could have made.               *)
(***************************************************************************)
EXTENDS Integers, Sequences, FiniteSets

CONSTANTS
    MaxCards,   \* bound on the cards published
    QueueSize,  \* queue_size
    MaxRetries  \* max_retries: how often a card is tried

ASSUME NotificationAssumption ==
    MaxCards \in Nat /\ {QueueSize, MaxRetries} \subseteq Nat \ {0}

Cards == 1..MaxCards
None == 0 \* the queue's end marker, and no card in hand

VARIABLES
    queue,     \* the queue
    published, \* how many cards were published
    doing,     \* where the task is
    card,      \* the card in hand
    attempt,   \* attempts made for it
    dropped,   \* cards refused because the queue was full
    status,    \* status[c]: history, what the last post of card c came to
    stopping   \* where stop() is

workerVars == <<queue, published, doing, card, attempt, dropped, status, stopping>>

(* What becomes of a post.  After a "transient" error (a timeout, 429, 5xx)*)
(* nobody knows whether Feishu took it.                                    *)
Replies == {"accepted", "transient", "rejected", "unavailable"}

WorkerInit ==
    /\ queue = <<>> /\ published = 0
    /\ doing = "get" /\ card = None /\ attempt = 0
    /\ dropped = {} /\ status = [c \in Cards |-> "open"]
    /\ stopping = "no"

(* publish(): put_nowait, or the card is dropped.                          *)
Publish ==
    /\ published < MaxCards
    /\ published' = published + 1
    /\ IF Len(queue) < QueueSize
       THEN queue' = Append(queue, published') /\ UNCHANGED dropped
       ELSE dropped' = dropped \cup {published'} /\ UNCHANGED queue
    /\ UNCHANGED <<doing, card, attempt, status, stopping>>

Get ==
    /\ doing = "get" /\ queue # <<>>
    /\ card' = Head(queue) /\ queue' = Tail(queue) /\ attempt' = 0
    /\ doing' = IF card' = None THEN "ended" ELSE "card"
    /\ UNCHANGED <<published, dropped, status, stopping>>

(* The card is done with: delivered, given up or refused (task_done).      *)
Done == doing' = "get" /\ card' = None /\ UNCHANGED attempt

TryAgain_OneLess ==
    \/ /\ attempt + 2 < MaxRetries
       /\ doing' = "backoff" /\ attempt' = attempt + 1 /\ UNCHANGED card
    \/ attempt + 2 >= MaxRetries /\ Done

(* A transient error: the backoff, or the last attempt has failed.         *)
TryAgain ==
    \/ /\ attempt + 1 < MaxRetries
       /\ doing' = "backoff" /\ attempt' = attempt + 1 /\ UNCHANGED card
    \/ attempt + 1 >= MaxRetries /\ Done

After_NoBreak(reply) ==
    \/ reply \in {"accepted", "transient"} /\ TryAgain
    \/ /\ reply = "rejected" /\ doing = "card"
       /\ doing' = "text" /\ UNCHANGED <<card, attempt>>
    \/ reply = "rejected" /\ doing = "text" /\ Done
    \/ reply = "unavailable" /\ Done

(* The reply decides what is next.                                         *)
After(reply) ==
    \/ reply = "accepted" /\ Done
    \/ reply = "transient" /\ TryAgain
    \/ /\ reply = "rejected" /\ doing = "card"
       /\ doing' = "text" /\ UNCHANGED <<card, attempt>>
    \/ reply = "rejected" /\ doing = "text" /\ Done
    \/ reply = "unavailable" /\ Done

(* A card is accepted, or settled: nothing is left to try.                 *)
CameTo(reply) ==
    IF reply = "accepted" THEN "accepted"
    ELSE IF \/ reply = "unavailable"
            \/ reply = "rejected" /\ doing = "text"
            \/ reply = "transient" /\ attempt + 1 = MaxRetries
    THEN "settled"
    ELSE "open"

(* One POST, of the interactive card or of its plain text.                 *)
Post ==
    /\ doing \in {"card", "text"}
    /\ \E reply \in Replies :
          /\ status' = [status EXCEPT ![card] = CameTo(reply)]
          /\ After(reply)
    /\ UNCHANGED <<queue, published, dropped, stopping>>

BackoffEnds ==
    /\ doing = "backoff" /\ doing' = "card"
    /\ UNCHANGED <<queue, published, card, attempt, dropped, status, stopping>>

-----------------------------------------------------------------------------
(* stop(): queue.join(), then the end marker, then the task is awaited and *)
(* the notifier closed.                                                    *)
Stop ==
    /\ stopping = "no" /\ stopping' = "join"
    /\ UNCHANGED <<queue, published, doing, card, attempt, dropped, status>>

(* The queue is empty and its last card done with: the join returns.       *)
Joined ==
    /\ stopping = "join" /\ queue = <<>> /\ card = None
    /\ queue' = <<None>> /\ stopping' = "await"
    /\ UNCHANGED <<published, doing, card, attempt, dropped, status>>

CloseNotifier ==
    /\ stopping = "await" /\ doing = "ended"
    /\ stopping' = "closed"
    /\ UNCHANGED <<queue, published, doing, card, attempt, dropped, status>>

WorkerStep == Get \/ Post \/ BackoffEnds

-----------------------------------------------------------------------------
WorkerTypeOK ==
    /\ queue \in Seq(Cards \cup {None}) /\ Len(queue) <= QueueSize
    /\ published \in 0..MaxCards
    /\ doing \in {"get", "card", "text", "backoff", "ended"}
    /\ card \in Cards \cup {None}
    /\ attempt \in 0..MaxRetries
    /\ dropped \subseteq Cards
    /\ status \in [Cards -> {"open", "accepted", "settled"}]
    /\ stopping \in {"no", "join", "await", "closed"}

Finished(c) ==
    /\ c <= published /\ c # card
    /\ \A i \in DOMAIN queue : queue[i] # c

(* A card leaves the worker only accepted, or after every attempt the      *)
(* configuration grants, or after its plain text too was refused, or       *)
(* because the channel itself is unavailable, or dropped at a full queue.  *)
NoCardLost ==
    \A c \in Cards : Finished(c) /\ c \notin dropped => status[c] # "open"

(* A card seen to be accepted is not posted again, and no card is posted   *)
(* after a later one.                                                      *)
NoRepeatAfterDelivery ==
    [][Post => /\ status[card] # "accepted"
               /\ \A c \in Cards : status[c] # "open" => c <= card]_workerVars
==============================================================================
