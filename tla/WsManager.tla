----------------------------- MODULE WsManager -----------------------------
(***************************************************************************)
(* The websocket of one exchange: WebSocketManager with the subscriptions  *)
(* of the private interface that owns it (PrivateBaseWebsocket).           *)
(*                                                                         *)
(* Three tasks share its state: the connection loop connects, resubscribes *)
(* and starts the reader, the reader fills a bounded queue, the message    *)
(* loop empties it.  Callers subscribe and close.  A task is what its pc   *)
(* says it awaits; close cancels all of them and waits for their end.      *)
(*                                                                         *)
(* The server is external: a connection attempt succeeds or fails, an open *)
(* socket may die at any moment, and what the library had received by then *)
(* can still be read.                                                      *)
(*                                                                         *)
(* Left out: authentication (every exchange's _auth returns True), the     *)
(* length of the backoff, the heartbeat and listen key tasks, unsubscribe  *)
(* (without a caller), metrics.  State ERROR is left before the next await *)
(* and never seen.                                                         *)
(***************************************************************************)
EXTENDS Naturals, Sequences

CONSTANTS
    Channels,    \* the channels a caller may subscribe to
    Capacity,    \* max_pending_messages
    DropCount,   \* a tenth of it, what an overflow drops
    MaxAttempts, \* max_reconnect_attempts
    MaxMessages  \* bound: how many messages arrive

ASSUME CapacityAssumption == Capacity \in Nat \ {0}
ASSUME DropAssumption == DropCount \in 1..Capacity
ASSUME AttemptsAssumption == MaxAttempts \in Nat
ASSUME MessagesAssumption == MaxMessages \in Nat

VARIABLES
    initialized,     \* _initialized
    shouldReconnect, \* _should_reconnect
    connectionState, \* connection_state
    socket,          \* _websocket: none, open or dead
    attempts,        \* reconnect_attempts of the connection loop
    loop,            \* what the connection loop awaits
    reader,          \* what the reader awaits; ended or failed until the loop sees it
    msgLoop,         \* what the message loop awaits
    closing,         \* has close been called, has it returned
    queue,           \* _message_queue
    received,        \* (history) how many messages were put into it
    subscriptions,   \* subscriptions
    resent,          \* the channels that _resubscribe_all has done
    sending,         \* the channels whose subscribe awaits its send
    subscribed       \* the server: the channels it sends on the open socket

connection == <<initialized, shouldReconnect, connectionState, socket, attempts, loop>>
messages   == <<msgLoop, queue, received>>
channels   == <<subscriptions, resent, sending, subscribed>>
vars       == <<connection, reader, closing, messages, channels>>

TypeOK ==
    /\ initialized \in BOOLEAN
    /\ shouldReconnect \in BOOLEAN
    /\ connectionState \in {"DISCONNECTED", "CONNECTING", "CONNECTED", "RECONNECTING"}
    /\ socket \in {"none", "open", "dead"}
    /\ attempts \in 0..(MaxAttempts + 1)
    /\ loop \in {"none", "start", "connecting", "resubscribing", "reading", "backoff", "done"}
    /\ reader \in {"none", "start", "recv", "ended", "failed"}
    /\ msgLoop \in {"none", "start", "get", "handling", "done"}
    /\ closing \in {"no", "stopping", "closed"}
    /\ queue \in Seq(1..MaxMessages)
    /\ Len(queue) <= Capacity
    /\ received \in 0..MaxMessages
    /\ subscriptions \subseteq Channels
    /\ resent \subseteq Channels
    /\ sending \subseteq Channels
    /\ subscribed \subseteq Channels

Init ==
    /\ initialized = FALSE
    /\ shouldReconnect = TRUE
    /\ connectionState = "DISCONNECTED"
    /\ socket = "none"
    /\ attempts = 0
    /\ loop = "none" /\ reader = "none" /\ msgLoop = "none"
    /\ closing = "no"
    /\ queue = << >> /\ received = 0
    /\ subscriptions = {} /\ resent = {} /\ sending = {} /\ subscribed = {}

IsConnected == connectionState = "CONNECTED" /\ socket = "open"

\* A manager whose tasks were shut down never starts one again: a later
\* initialize fails and closes it once more.
Initialize ==
    /\ ~initialized
    /\ closing = "no"
    /\ initialized' = TRUE
    /\ shouldReconnect' = TRUE
    /\ loop' = "start"
    /\ msgLoop' = "start"
    /\ UNCHANGED <<connectionState, socket, attempts, reader, closing,
                   queue, received, channels>>

-----------------------------------------------------------------------------
(* The connection loop. *)

Terminate == loop' = "done" /\ connectionState' = "DISCONNECTED"

\* The head of the while loop.
Iterate ==
    IF shouldReconnect
    THEN loop' = "connecting" /\ connectionState' = "CONNECTING"
    ELSE Terminate

\* Mutant: every error counts as the first.
HandleConnectionErrorForgets ==
    /\ loop' = "backoff"
    /\ connectionState' = "RECONNECTING"
    /\ UNCHANGED <<attempts, shouldReconnect>>

\* The exception handler of the loop, with _handle_connection_error.
HandleConnectionError ==
    \/ /\ ~shouldReconnect
       /\ Terminate
       /\ UNCHANGED <<attempts, shouldReconnect>>
    \/ /\ shouldReconnect
       /\ attempts < MaxAttempts
       /\ loop' = "backoff"
       /\ connectionState' = "RECONNECTING"
       /\ attempts' = attempts + 1
       /\ UNCHANGED shouldReconnect
    \/ /\ shouldReconnect
       /\ attempts >= MaxAttempts
       /\ shouldReconnect' = FALSE
       /\ attempts' = attempts + 1
       /\ Terminate

LoopStarts ==
    /\ loop = "start"
    /\ closing = "no"
    /\ Iterate
    /\ UNCHANGED <<initialized, shouldReconnect, socket, attempts,
                   reader, closing, messages, channels>>

\* Even a cancelled loop may get here: connect_method may be waiting for the
\* end of the old heartbeat, where safe_cancel_task swallows the cancellation.
ConnectSucceeds ==
    /\ loop = "connecting"
    /\ socket' = "open"
    /\ connectionState' = "CONNECTED"
    /\ loop' = "resubscribing"
    /\ resent' = {} /\ sending' = {} /\ subscribed' = {}
    /\ UNCHANGED <<initialized, shouldReconnect, attempts,
                   reader, closing, messages, subscriptions>>

ConnectFails ==
    /\ loop = "connecting"
    /\ HandleConnectionError
    /\ UNCHANGED <<initialized, socket, reader, closing, messages, channels>>

\* _resubscribe_all, called by the connection handler for state CONNECTED.
ResubscribeChannel(ch) ==
    /\ loop = "resubscribing"
    /\ socket = "open"
    /\ ch \in subscriptions \ resent
    /\ resent' = resent \union {ch}
    /\ subscribed' = subscribed \union {ch}
    /\ UNCHANGED <<connection, reader, closing, messages, subscriptions, sending>>

\* Mutant: the loop does not wait for the resubscription.
ResubscribedAtOnce ==
    /\ loop = "resubscribing"
    /\ closing = "no"
    /\ attempts' = 0
    /\ reader' = "start"
    /\ loop' = "reading"
    /\ UNCHANGED <<initialized, shouldReconnect, connectionState, socket,
                   closing, messages, channels>>

\* An error of the handler is logged, and the loop goes on to start the
\* reader.  After close no task can be started.
Resubscribed ==
    /\ loop = "resubscribing"
    /\ subscriptions \subseteq resent \/ socket = "dead"
    /\ attempts' = 0
    /\ IF closing = "no"
       THEN /\ reader' = "start"
            /\ loop' = "reading"
            /\ UNCHANGED connectionState
       ELSE Terminate /\ UNCHANGED reader
    /\ UNCHANGED <<initialized, shouldReconnect, socket, closing, messages, channels>>

\* The reader returned: the next connection follows without a delay.
ReaderReturned ==
    /\ loop = "reading"
    /\ reader = "ended"
    /\ reader' = "none"
    /\ Iterate
    /\ UNCHANGED <<initialized, shouldReconnect, socket, attempts,
                   closing, messages, channels>>

ReaderRaised ==
    /\ loop = "reading"
    /\ reader = "failed"
    /\ reader' = "none"
    /\ HandleConnectionError
    /\ UNCHANGED <<initialized, socket, closing, messages, channels>>

BackoffEnds ==
    /\ loop = "backoff"
    /\ closing = "no"
    /\ Iterate
    /\ UNCHANGED <<initialized, shouldReconnect, socket, attempts,
                   reader, closing, messages, channels>>

-----------------------------------------------------------------------------
(* The reader. *)

\* Its while loop.
ReadOn == reader' = IF IsConnected THEN "recv" ELSE "ended"

ReaderStarts ==
    /\ reader = "start"
    /\ closing = "no"
    /\ ReadOn
    /\ UNCHANGED <<connection, closing, messages, channels>>

\* Mutant: an overflow drops the newest messages.
RoomAtTheBack(q) == IF Len(q) = Capacity THEN SubSeq(q, 1, Len(q) - DropCount) ELSE q

\* Mutant: the queue is full one message later.
RoomForOneMore(q) == IF Len(q) > Capacity THEN SubSeq(q, DropCount + 1, Len(q)) ELSE q

\* An overflow drops the oldest messages.
Room(q) == IF Len(q) = Capacity THEN SubSeq(q, DropCount + 1, Len(q)) ELSE q

\* recv returns a message, also one that came before the socket died.
OnRawMessage ==
    /\ reader = "recv"
    /\ closing = "no"
    /\ received < MaxMessages
    /\ received' = received + 1
    /\ queue' = Append(Room(queue), received + 1)
    /\ ReadOn
    /\ UNCHANGED <<connection, closing, msgLoop, channels>>

\* recv raises.  The error handler calls the connection handler with the old
\* state, which resubscribes on the dead socket and raises again.
OnReaderError ==
    /\ reader = "recv"
    /\ closing = "no"
    /\ socket = "dead"
    /\ reader' = IF subscriptions = {} THEN "ended" ELSE "failed"
    /\ UNCHANGED <<connection, closing, messages, channels>>

-----------------------------------------------------------------------------
(* The message loop. *)

GetNext == msgLoop' = IF shouldReconnect THEN "get" ELSE "done"

MessageLoopStarts ==
    /\ msgLoop = "start"
    /\ closing = "no"
    /\ GetNext
    /\ UNCHANGED <<connection, reader, closing, queue, received, channels>>

ProcessMessage ==
    /\ msgLoop = "get"
    /\ queue # << >>
    /\ queue' = Tail(queue)
    /\ msgLoop' = "handling"
    /\ UNCHANGED <<connection, reader, closing, received, channels>>

\* Mutant: an error of the handler ends the loop.
MessageHandledOrFailed ==
    /\ msgLoop = "handling"
    /\ closing = "no"
    /\ msgLoop' = "done" \/ GetNext
    /\ UNCHANGED <<connection, reader, closing, queue, received, channels>>

\* The handler returned, or raised: the loop goes on alike.
MessageHandled ==
    /\ msgLoop = "handling"
    /\ closing = "no"
    /\ GetNext
    /\ UNCHANGED <<connection, reader, closing, queue, received, channels>>

\* Nothing came in time: the loop looks at the flag.
GetTimesOut ==
    /\ msgLoop = "get"
    /\ closing = "no"
    /\ queue = << >>
    /\ ~shouldReconnect
    /\ msgLoop' = "done"
    /\ UNCHANGED <<connection, reader, closing, queue, received, channels>>

-----------------------------------------------------------------------------
(* The callers and the server. *)

\* The channel is recorded first, and sent if the socket is connected.
Subscribe(ch) ==
    /\ ch \notin subscriptions
    /\ subscriptions' = subscriptions \union {ch}
    /\ sending' = IF IsConnected THEN sending \union {ch} ELSE sending
    /\ UNCHANGED <<connection, reader, closing, messages, resent, subscribed>>

SubscribeSent(ch) ==
    /\ ch \in sending
    /\ sending' = sending \ {ch}
    /\ subscribed' = subscribed \union {ch}
    /\ UNCHANGED <<connection, reader, closing, messages, subscriptions, resent>>

\* The sends that wait raise.
SocketDies ==
    /\ socket = "open"
    /\ socket' = "dead"
    /\ sending' = {} /\ subscribed' = {}
    /\ UNCHANGED <<initialized, shouldReconnect, connectionState, attempts, loop,
                   reader, closing, messages, subscriptions, resent>>

-----------------------------------------------------------------------------
(* close *)

Close ==
    /\ closing = "no"
    /\ closing' = "stopping"
    /\ shouldReconnect' = FALSE
    /\ queue' = << >>
    /\ UNCHANGED <<initialized, connectionState, socket, attempts, loop,
                   reader, msgLoop, received, channels>>

\* A task that never ran, or sleeps in the exception handler, just ends; a
\* cancelled connection attempt ends the loop.  A loop that waits for the reader
\* goes on when that ends.
LoopCancelled ==
    /\ closing = "stopping"
    /\ \/ loop \in {"start", "backoff"} /\ loop' = "done" /\ UNCHANGED connectionState
       \/ loop \in {"connecting", "resubscribing"} /\ Terminate
    /\ UNCHANGED <<initialized, shouldReconnect, socket, attempts,
                   reader, closing, messages, channels>>

\* Mutant: the cancelled reader takes it for an error of the connection.
ReaderCancelledGoesOn ==
    /\ closing = "stopping"
    /\ reader \in {"start", "recv"}
    /\ ReadOn
    /\ UNCHANGED <<connection, closing, messages, channels>>

\* The reader swallows its cancellation and returns.
ReaderCancelled ==
    /\ closing = "stopping"
    /\ reader \in {"start", "recv"}
    /\ reader' = "ended"
    /\ UNCHANGED <<connection, closing, messages, channels>>

MessageLoopCancelled ==
    /\ closing = "stopping"
    /\ msgLoop \in {"start", "get", "handling"}
    /\ msgLoop' = "done"
    /\ UNCHANGED <<connection, reader, closing, queue, received, channels>>

Closed ==
    /\ closing = "stopping"
    /\ loop \in {"none", "done"} /\ msgLoop \in {"none", "done"}
    /\ closing' = "closed"
    /\ initialized' = FALSE
    /\ connectionState' = "DISCONNECTED"
    /\ socket' = "none"
    /\ sending' = {} /\ subscribed' = {}
    /\ UNCHANGED <<shouldReconnect, attempts, loop, reader, messages,
                   subscriptions, resent>>

-----------------------------------------------------------------------------
LoopStep ==
    \/ LoopStarts \/ ConnectSucceeds \/ ConnectFails
    \/ (\E ch \in Channels : ResubscribeChannel(ch)) \/ Resubscribed
    \/ ReaderReturned \/ ReaderRaised \/ BackoffEnds \/ LoopCancelled

ReaderStep == ReaderStarts \/ OnReaderError \/ ReaderCancelled

MessageLoopStep ==
    \/ MessageLoopStarts \/ ProcessMessage \/ MessageHandled
    \/ GetTimesOut \/ MessageLoopCancelled

Next ==
    \/ Initialize \/ LoopStep \/ ReaderStep \/ MessageLoopStep
    \/ OnRawMessage \/ SocketDies \/ Close \/ Closed
    \/ \E ch \in Channels : Subscribe(ch) \/ SubscribeSent(ch)

Spec == Init /\ [][Next]_vars

(***************************************************************************)
(* Connecting and closing have timeouts, the backoff is finite, a dead     *)
(* socket is noticed by recv, handlers return.  Nothing is assumed of the  *)
(* server, the callers, or the socket of a subscription.                   *)
(***************************************************************************)
Fairness ==
    /\ WF_vars(LoopStep)
    /\ WF_vars(ReaderStep)
    /\ WF_vars(MessageLoopStep)
    /\ WF_vars(Closed)

FairSpec == Spec /\ Fairness

-----------------------------------------------------------------------------
(* Properties. *)

Feed == INSTANCE LossyFeed WITH pending <- queue, closed <- closing # "no"

(***************************************************************************)
(* Through reconnections, overflows and close, the message loop sees a     *)
(* feed: messages in the order they came, none twice, and an overflow      *)
(* loses only the oldest.                                                  *)
(***************************************************************************)
ImplementsFeed == Feed!Spec

(***************************************************************************)
(* While the reader waits on an open socket, every channel a caller ever   *)
(* subscribed to is subscribed there or just being sent, whenever the      *)
(* call crossed a reconnection.                                            *)
(***************************************************************************)
SubscriptionsAreLive ==
    reader \in {"start", "recv"} /\ socket = "open" =>
        subscriptions \subseteq subscribed \union sending

(***************************************************************************)
(* A manager that is started connects, or gives up: it never loops or      *)
(* waits for ever between two connections.                                 *)
(***************************************************************************)
ConnectsOrGivesUp ==
    loop \in {"start", "connecting", "backoff"} ~> loop = "reading" \/ ~shouldReconnect

(***************************************************************************)
(* As long as reconnection is on, the message loop takes every message     *)
(* that waits, unless an overflow drops it: what OrderStore assumes of its *)
(* order handler.                                                          *)
(***************************************************************************)
QueueIsServed ==
    \A n \in 1..MaxMessages :
        (\E i \in 1..Len(queue) : queue[i] = n)
            ~> (~shouldReconnect \/ \A i \in 1..Len(queue) : queue[i] # n)

(***************************************************************************)
(* close returns, with every task ended, whatever they awaited when it was *)
(* called and although the reader and a connection attempt may swallow     *)
(* their cancellation.                                                     *)
(***************************************************************************)
CloseReturns == closing = "stopping" ~> closing = "closed"
=============================================================================
