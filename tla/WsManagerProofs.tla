-------------------------- MODULE WsManagerProofs --------------------------
(* Theorems about WsManager. *)
EXTENDS WsManager, TLAPS

USE CapacityAssumption, DropAssumption, AttemptsAssumption, MessagesAssumption

-----------------------------------------------------------------------------
(* Type correctness. *)

\* An overflow leaves room for one more message and keeps the last ones.
LEMMA RoomFacts ==
    ASSUME NEW q \in Seq(1..MaxMessages), Len(q) <= Capacity
    PROVE  /\ Room(q) \in Seq(1..MaxMessages)
           /\ Len(Room(q)) < Capacity
<1>1. CASE Len(q) = Capacity
  <2>1. Room(q) = SubSeq(q, DropCount + 1, Len(q))
    BY <1>1 DEF Room
  <2>2. Len(SubSeq(q, DropCount + 1, Len(q))) = Capacity - DropCount
    BY <1>1
  <2>3. SubSeq(q, DropCount + 1, Len(q)) \in Seq(1..MaxMessages)
    BY <1>1
  <2>4. QED
    BY <2>1, <2>2, <2>3
<1>2. CASE Len(q) # Capacity
  BY <1>2 DEF Room
<1>3. QED
  BY <1>1, <1>2

\* The parts of the type invariant.
ControlTypes ==
    /\ initialized \in BOOLEAN
    /\ shouldReconnect \in BOOLEAN
    /\ connectionState \in {"DISCONNECTED", "CONNECTING", "CONNECTED", "RECONNECTING"}
    /\ socket \in {"none", "open", "dead"}
    /\ attempts \in 0..(MaxAttempts + 1)
    /\ loop \in {"none", "start", "connecting", "resubscribing", "reading", "backoff", "done"}
    /\ reader \in {"none", "start", "recv", "ended", "failed"}
    /\ msgLoop \in {"none", "start", "get", "handling", "done"}
    /\ closing \in {"no", "stopping", "closed"}

FeedTypes ==
    /\ queue \in Seq(1..MaxMessages)
    /\ Len(queue) <= Capacity
    /\ received \in 0..MaxMessages

ChannelTypes ==
    /\ subscriptions \subseteq Channels
    /\ resent \subseteq Channels
    /\ sending \subseteq Channels
    /\ subscribed \subseteq Channels

\* While it reconnects the loop has not used up its attempts, and it has made
\* none before it is started.
AttemptsLeft ==
    /\ ~initialized /\ closing = "no" => loop = "none" /\ attempts = 0
    /\ shouldReconnect /\ loop \in {"none", "start", "connecting", "reading", "backoff"}
          => attempts <= MaxAttempts

TypeInv == ControlTypes /\ FeedTypes /\ ChannelTypes /\ AttemptsLeft

LEMMA ErrorStep ==
    ASSUME TypeInv, HandleConnectionError, loop \in {"connecting", "reading"}
    PROVE  /\ shouldReconnect' \in BOOLEAN
           /\ connectionState' \in {"DISCONNECTED", "RECONNECTING"}
           /\ attempts' \in 0..(MaxAttempts + 1)
           /\ loop' \in {"backoff", "done"}
           /\ loop' = "backoff" => attempts' <= MaxAttempts
<1>1. /\ shouldReconnect \in BOOLEAN
      /\ attempts \in 0..(MaxAttempts + 1)
      /\ shouldReconnect => attempts <= MaxAttempts
  BY DEF TypeInv, ControlTypes, AttemptsLeft
<1>2. CASE /\ ~shouldReconnect
           /\ Terminate
           /\ UNCHANGED <<attempts, shouldReconnect>>
  BY <1>1, <1>2 DEF Terminate
<1>3. CASE /\ shouldReconnect
           /\ attempts < MaxAttempts
           /\ loop' = "backoff"
           /\ connectionState' = "RECONNECTING"
           /\ attempts' = attempts + 1
           /\ UNCHANGED shouldReconnect
  BY <1>1, <1>3
<1>4. CASE /\ shouldReconnect
           /\ attempts >= MaxAttempts
           /\ shouldReconnect' = FALSE
           /\ attempts' = attempts + 1
           /\ Terminate
  <2>1. attempts' \in 0..(MaxAttempts + 1)
    <3>1. attempts \in Nat /\ attempts <= MaxAttempts /\ attempts' = attempts + 1
      BY <1>1, <1>4
    <3>2. QED
      BY <3>1
  <2>2. shouldReconnect' \in BOOLEAN
    BY <1>4
  <2>3. QED
    BY <1>4, <2>1, <2>2 DEF Terminate
<1>5. QED
  BY <1>2, <1>3, <1>4 DEF HandleConnectionError

LEMMA TypeStep ==
    ASSUME TypeInv, [Next]_vars
    PROVE  TypeInv'
<1> USE DEF TypeInv, connection, messages, channels
<1>1. ASSUME Initialize PROVE TypeInv'
  <2>1. ControlTypes'
    BY <1>1 DEF Initialize, ControlTypes
  <2>2. AttemptsLeft'
    BY <1>1 DEF Initialize, ControlTypes, AttemptsLeft
  <2>3. FeedTypes'
    BY <1>1 DEF Initialize, FeedTypes
  <2>4. ChannelTypes'
    BY <1>1 DEF Initialize, ChannelTypes
  <2>5. QED
    BY <2>1, <2>2, <2>3, <2>4
<1>2. ASSUME LoopStarts PROVE TypeInv'
  <2>1. ControlTypes'
    BY <1>2 DEF LoopStarts, Iterate, Terminate, ControlTypes
  <2>2. AttemptsLeft'
    BY <1>2 DEF LoopStarts, Iterate, Terminate, ControlTypes, AttemptsLeft
  <2>3. FeedTypes'
    BY <1>2 DEF LoopStarts, FeedTypes
  <2>4. ChannelTypes'
    BY <1>2 DEF LoopStarts, ChannelTypes
  <2>5. QED
    BY <2>1, <2>2, <2>3, <2>4
<1>3. ASSUME ConnectSucceeds PROVE TypeInv'
  <2>1. ControlTypes'
    BY <1>3 DEF ConnectSucceeds, ControlTypes
  <2>2. AttemptsLeft'
    BY <1>3 DEF ConnectSucceeds, ControlTypes, AttemptsLeft
  <2>3. FeedTypes'
    BY <1>3 DEF ConnectSucceeds, FeedTypes
  <2>4. ChannelTypes'
    BY <1>3 DEF ConnectSucceeds, ChannelTypes
  <2>5. QED
    BY <2>1, <2>2, <2>3, <2>4
<1>4. ASSUME ConnectFails PROVE TypeInv'
  <2>1. loop \in {"connecting", "reading"} /\ HandleConnectionError
    BY <1>4 DEF ConnectFails
  <2>2. ControlTypes' /\ AttemptsLeft'
    BY <1>4, <2>1, ErrorStep DEF ConnectFails, ControlTypes, AttemptsLeft
  <2>3. FeedTypes'
    BY <1>4 DEF ConnectFails, FeedTypes
  <2>4. ChannelTypes'
    BY <1>4 DEF ConnectFails, ChannelTypes
  <2>5. QED
    BY <2>1, <2>2, <2>3, <2>4
<1>5. ASSUME NEW ch \in Channels, ResubscribeChannel(ch) PROVE TypeInv'
  <2>1. ControlTypes'
    BY <1>5 DEF ResubscribeChannel, ControlTypes
  <2>2. AttemptsLeft'
    BY <1>5 DEF ResubscribeChannel, ControlTypes, AttemptsLeft
  <2>3. FeedTypes'
    BY <1>5 DEF ResubscribeChannel, FeedTypes
  <2>4. ChannelTypes'
    BY <1>5 DEF ResubscribeChannel, ChannelTypes
  <2>5. QED
    BY <2>1, <2>2, <2>3, <2>4
<1>6. ASSUME Resubscribed PROVE TypeInv'
  <2>1. ControlTypes'
    BY <1>6 DEF Resubscribed, Terminate, ControlTypes
  <2>2. AttemptsLeft'
    BY <1>6 DEF Resubscribed, Terminate, ControlTypes, AttemptsLeft
  <2>3. FeedTypes'
    BY <1>6 DEF Resubscribed, FeedTypes
  <2>4. ChannelTypes'
    BY <1>6 DEF Resubscribed, ChannelTypes
  <2>5. QED
    BY <2>1, <2>2, <2>3, <2>4
<1>7. ASSUME ReaderReturned PROVE TypeInv'
  <2>1. ControlTypes'
    BY <1>7 DEF ReaderReturned, Iterate, Terminate, ControlTypes
  <2>2. AttemptsLeft'
    BY <1>7 DEF ReaderReturned, Iterate, Terminate, ControlTypes, AttemptsLeft
  <2>3. FeedTypes'
    BY <1>7 DEF ReaderReturned, FeedTypes
  <2>4. ChannelTypes'
    BY <1>7 DEF ReaderReturned, ChannelTypes
  <2>5. QED
    BY <2>1, <2>2, <2>3, <2>4
<1>8. ASSUME ReaderRaised PROVE TypeInv'
  <2>1. loop \in {"connecting", "reading"} /\ HandleConnectionError
    BY <1>8 DEF ReaderRaised
  <2>2. ControlTypes' /\ AttemptsLeft'
    BY <1>8, <2>1, ErrorStep DEF ReaderRaised, ControlTypes, AttemptsLeft
  <2>3. FeedTypes'
    BY <1>8 DEF ReaderRaised, FeedTypes
  <2>4. ChannelTypes'
    BY <1>8 DEF ReaderRaised, ChannelTypes
  <2>5. QED
    BY <2>1, <2>2, <2>3, <2>4
<1>9. ASSUME BackoffEnds PROVE TypeInv'
  <2>1. ControlTypes'
    BY <1>9 DEF BackoffEnds, Iterate, Terminate, ControlTypes
  <2>2. AttemptsLeft'
    BY <1>9 DEF BackoffEnds, Iterate, Terminate, ControlTypes, AttemptsLeft
  <2>3. FeedTypes'
    BY <1>9 DEF BackoffEnds, FeedTypes
  <2>4. ChannelTypes'
    BY <1>9 DEF BackoffEnds, ChannelTypes
  <2>5. QED
    BY <2>1, <2>2, <2>3, <2>4
<1>10. ASSUME LoopCancelled PROVE TypeInv'
  <2>1. ControlTypes'
    BY <1>10 DEF LoopCancelled, Terminate, ControlTypes
  <2>2. AttemptsLeft'
    BY <1>10 DEF LoopCancelled, Terminate, ControlTypes, AttemptsLeft
  <2>3. FeedTypes'
    BY <1>10 DEF LoopCancelled, FeedTypes
  <2>4. ChannelTypes'
    BY <1>10 DEF LoopCancelled, ChannelTypes
  <2>5. QED
    BY <2>1, <2>2, <2>3, <2>4
<1>11. ASSUME ReaderStarts PROVE TypeInv'
  <2>1. ControlTypes'
    BY <1>11 DEF ReaderStarts, ReadOn, ControlTypes
  <2>2. AttemptsLeft'
    BY <1>11 DEF ReaderStarts, ReadOn, ControlTypes, AttemptsLeft
  <2>3. FeedTypes'
    BY <1>11 DEF ReaderStarts, FeedTypes
  <2>4. ChannelTypes'
    BY <1>11 DEF ReaderStarts, ChannelTypes
  <2>5. QED
    BY <2>1, <2>2, <2>3, <2>4
<1>12. ASSUME OnReaderError PROVE TypeInv'
  <2>1. ControlTypes'
    BY <1>12 DEF OnReaderError, ControlTypes
  <2>2. AttemptsLeft'
    BY <1>12 DEF OnReaderError, ControlTypes, AttemptsLeft
  <2>3. FeedTypes'
    BY <1>12 DEF OnReaderError, FeedTypes
  <2>4. ChannelTypes'
    BY <1>12 DEF OnReaderError, ChannelTypes
  <2>5. QED
    BY <2>1, <2>2, <2>3, <2>4
<1>13. ASSUME ReaderCancelled PROVE TypeInv'
  <2>1. ControlTypes'
    BY <1>13 DEF ReaderCancelled, ControlTypes
  <2>2. AttemptsLeft'
    BY <1>13 DEF ReaderCancelled, ControlTypes, AttemptsLeft
  <2>3. FeedTypes'
    BY <1>13 DEF ReaderCancelled, FeedTypes
  <2>4. ChannelTypes'
    BY <1>13 DEF ReaderCancelled, ChannelTypes
  <2>5. QED
    BY <2>1, <2>2, <2>3, <2>4
<1>14. ASSUME MessageLoopStarts PROVE TypeInv'
  <2>1. ControlTypes'
    BY <1>14 DEF MessageLoopStarts, GetNext, ControlTypes
  <2>2. AttemptsLeft'
    BY <1>14 DEF MessageLoopStarts, GetNext, ControlTypes, AttemptsLeft
  <2>3. FeedTypes'
    BY <1>14 DEF MessageLoopStarts, FeedTypes
  <2>4. ChannelTypes'
    BY <1>14 DEF MessageLoopStarts, ChannelTypes
  <2>5. QED
    BY <2>1, <2>2, <2>3, <2>4
<1>15. ASSUME ProcessMessage PROVE TypeInv'
  <2>1. ControlTypes'
    BY <1>15 DEF ProcessMessage, ControlTypes
  <2>2. AttemptsLeft'
    BY <1>15 DEF ProcessMessage, ControlTypes, AttemptsLeft
  <2>3. FeedTypes'
    BY <1>15 DEF ProcessMessage, FeedTypes
  <2>4. ChannelTypes'
    BY <1>15 DEF ProcessMessage, ChannelTypes
  <2>5. QED
    BY <2>1, <2>2, <2>3, <2>4
<1>16. ASSUME MessageHandled PROVE TypeInv'
  <2>1. ControlTypes'
    BY <1>16 DEF MessageHandled, GetNext, ControlTypes
  <2>2. AttemptsLeft'
    BY <1>16 DEF MessageHandled, GetNext, ControlTypes, AttemptsLeft
  <2>3. FeedTypes'
    BY <1>16 DEF MessageHandled, FeedTypes
  <2>4. ChannelTypes'
    BY <1>16 DEF MessageHandled, ChannelTypes
  <2>5. QED
    BY <2>1, <2>2, <2>3, <2>4
<1>17. ASSUME GetTimesOut PROVE TypeInv'
  <2>1. ControlTypes'
    BY <1>17 DEF GetTimesOut, ControlTypes
  <2>2. AttemptsLeft'
    BY <1>17 DEF GetTimesOut, ControlTypes, AttemptsLeft
  <2>3. FeedTypes'
    BY <1>17 DEF GetTimesOut, FeedTypes
  <2>4. ChannelTypes'
    BY <1>17 DEF GetTimesOut, ChannelTypes
  <2>5. QED
    BY <2>1, <2>2, <2>3, <2>4
<1>18. ASSUME MessageLoopCancelled PROVE TypeInv'
  <2>1. ControlTypes'
    BY <1>18 DEF MessageLoopCancelled, ControlTypes
  <2>2. AttemptsLeft'
    BY <1>18 DEF MessageLoopCancelled, ControlTypes, AttemptsLeft
  <2>3. FeedTypes'
    BY <1>18 DEF MessageLoopCancelled, FeedTypes
  <2>4. ChannelTypes'
    BY <1>18 DEF MessageLoopCancelled, ChannelTypes
  <2>5. QED
    BY <2>1, <2>2, <2>3, <2>4
<1>19. ASSUME OnRawMessage PROVE TypeInv'
  <2>1. ControlTypes'
    BY <1>19 DEF OnRawMessage, ReadOn, ControlTypes
  <2>2. AttemptsLeft'
    BY <1>19 DEF OnRawMessage, ReadOn, ControlTypes, AttemptsLeft
  <2>3. FeedTypes'
    BY <1>19, RoomFacts DEF OnRawMessage, FeedTypes
  <2>4. ChannelTypes'
    BY <1>19 DEF OnRawMessage, ChannelTypes
  <2>5. QED
    BY <2>1, <2>2, <2>3, <2>4
<1>20. ASSUME SocketDies PROVE TypeInv'
  <2>1. ControlTypes'
    BY <1>20 DEF SocketDies, ControlTypes
  <2>2. AttemptsLeft'
    BY <1>20 DEF SocketDies, ControlTypes, AttemptsLeft
  <2>3. FeedTypes'
    BY <1>20 DEF SocketDies, FeedTypes
  <2>4. ChannelTypes'
    BY <1>20 DEF SocketDies, ChannelTypes
  <2>5. QED
    BY <2>1, <2>2, <2>3, <2>4
<1>21. ASSUME Close PROVE TypeInv'
  <2>1. ControlTypes'
    BY <1>21, ZenonT(60) DEF Close, ControlTypes
  <2>2. AttemptsLeft'
    BY <1>21 DEF Close, ControlTypes, AttemptsLeft
  <2>3. FeedTypes'
    BY <1>21 DEF Close, FeedTypes
  <2>4. ChannelTypes'
    BY <1>21 DEF Close, ChannelTypes
  <2>5. QED
    BY <2>1, <2>2, <2>3, <2>4
<1>22. ASSUME Closed PROVE TypeInv'
  <2>1. ControlTypes'
    BY <1>22 DEF Closed, ControlTypes
  <2>2. AttemptsLeft'
    BY <1>22 DEF Closed, ControlTypes, AttemptsLeft
  <2>3. FeedTypes'
    BY <1>22 DEF Closed, FeedTypes
  <2>4. ChannelTypes'
    BY <1>22 DEF Closed, ChannelTypes
  <2>5. QED
    BY <2>1, <2>2, <2>3, <2>4
<1>23. ASSUME NEW ch \in Channels, Subscribe(ch) PROVE TypeInv'
  <2>1. ControlTypes'
    BY <1>23 DEF Subscribe, ControlTypes
  <2>2. AttemptsLeft'
    BY <1>23 DEF Subscribe, ControlTypes, AttemptsLeft
  <2>3. FeedTypes'
    BY <1>23 DEF Subscribe, FeedTypes
  <2>4. ChannelTypes'
    BY <1>23 DEF Subscribe, ChannelTypes
  <2>5. QED
    BY <2>1, <2>2, <2>3, <2>4
<1>24. ASSUME NEW ch \in Channels, SubscribeSent(ch) PROVE TypeInv'
  <2>1. ControlTypes'
    BY <1>24 DEF SubscribeSent, ControlTypes
  <2>2. AttemptsLeft'
    BY <1>24 DEF SubscribeSent, ControlTypes, AttemptsLeft
  <2>3. FeedTypes'
    BY <1>24 DEF SubscribeSent, FeedTypes
  <2>4. ChannelTypes'
    BY <1>24 DEF SubscribeSent, ChannelTypes
  <2>5. QED
    BY <2>1, <2>2, <2>3, <2>4
<1>25. CASE UNCHANGED vars
  BY <1>25 DEF vars, ControlTypes, FeedTypes, ChannelTypes, AttemptsLeft
<1>26. QED
  BY <1>1, <1>2, <1>3, <1>4, <1>5, <1>6, <1>7, <1>8, <1>9, <1>10, <1>11, <1>12, <1>13, <1>14,
     <1>15, <1>16, <1>17, <1>18, <1>19, <1>20, <1>21, <1>22, <1>23, <1>24, <1>25 DEF Next,
     LoopStep, ReaderStep, MessageLoopStep

LEMMA TypeInit == Init => TypeInv
<1>1. Init => ControlTypes
  <2>1. Init => initialized \in BOOLEAN /\ shouldReconnect \in BOOLEAN
    BY ZenonT(30) DEF Init
  <2>2. Init => attempts \in 0..(MaxAttempts + 1)
    BY DEF Init
  <2>3. QED
    BY <2>1, <2>2 DEF Init, ControlTypes
<1>2. Init => FeedTypes
  BY DEF Init, FeedTypes
<1>3. Init => ChannelTypes
  BY DEF Init, ChannelTypes
<1>4. Init => AttemptsLeft
  BY DEF Init, AttemptsLeft
<1>5. QED
  BY <1>1, <1>2, <1>3, <1>4 DEF TypeInv

(***************************************************************************)
(* Every variable keeps its type: in particular the queue never holds more *)
(* than max_pending_messages, and no more than max_reconnect_attempts + 1  *)
(* errors are counted in a row.                                            *)
(***************************************************************************)
THEOREM TypeCorrect == Spec => []TypeOK
<1>1. Init => TypeInv
  BY TypeInit
<1>2. TypeInv /\ [Next]_vars => TypeInv'
  BY TypeStep
<1>3. TypeInv => TypeOK
  BY DEF TypeInv, ControlTypes, FeedTypes, ChannelTypes, TypeOK
<1>4. QED
  BY <1>1, <1>2, <1>3, PTL DEF Spec

-----------------------------------------------------------------------------
(* The manager implements the feed. *)

\* What an overflow loses, and what of it remains.
LEMMA RoomIsSuffix ==
    ASSUME NEW q \in Seq(1..MaxMessages), Len(q) <= Capacity
    PROVE  \E lost \in 0..Len(q) :
              /\ (lost = 0) = (Len(q) < Capacity)
              /\ Room(q) = SubSeq(q, lost + 1, Len(q))
<1>1. CASE Len(q) = Capacity
  <2>1. DropCount \in 0..Len(q) /\ DropCount # 0
    BY <1>1
  <2>2. Room(q) = SubSeq(q, DropCount + 1, Len(q))
    BY <1>1 DEF Room
  <2>3. QED
    BY <1>1, <2>1, <2>2
<1>2. CASE Len(q) < Capacity
  <2>1. Room(q) = q
    BY <1>2 DEF Room
  <2>2. q = SubSeq(q, 0 + 1, Len(q))
    BY SMTT(20)
  <2>3. QED
    BY <1>2, <2>1, <2>2, SMTT(20)
<1>3. QED
  BY <1>1, <1>2

LEMMA FeedStep ==
    ASSUME TypeInv, [Next]_vars
    PROVE  [Feed!Next]_Feed!vars
<1> USE DEF connection, messages, channels
<1>1. queue \in Seq(1..MaxMessages) /\ Len(queue) <= Capacity
  BY DEF TypeInv, FeedTypes
<1>2. CASE OnRawMessage
  <2>1. PICK lost \in 0..Len(queue) :
           /\ (lost = 0) = (Len(queue) < Capacity)
           /\ Room(queue) = SubSeq(queue, lost + 1, Len(queue))
    BY <1>1, RoomIsSuffix
  <2>2. /\ closing = "no"
        /\ received' = received + 1
        /\ queue' = Append(Room(queue), received + 1)
        /\ closing' = closing
    BY <1>2 DEF OnRawMessage
  <2>3. Feed!Receive
    BY <2>1, <2>2 DEF Feed!Receive
  <2>4. QED
    BY <2>3 DEF Feed!Next
<1>3. CASE ProcessMessage
  <2>1. Feed!Take
    BY <1>3 DEF ProcessMessage, Feed!Take
  <2>2. QED
    BY <2>1 DEF Feed!Next
<1>4. CASE Close
  <2>1. Feed!Close
    BY <1>4 DEF Close, Feed!Close
  <2>2. QED
    BY <2>1 DEF Feed!Next
<1>5. CASE Closed
  <2>1. (closing # "no") /\ (closing' # "no")
    BY <1>5 DEF Closed
  <2>2. UNCHANGED <<received, queue>>
    BY <1>5 DEF Closed
  <2>3. QED
    BY <2>1, <2>2 DEF Feed!vars
<1>6. CASE Initialize \/ LoopStep \/ ReaderStep
  <2>1. UNCHANGED <<received, queue, closing>>
    BY <1>6 DEF Initialize, LoopStep, ReaderStep, LoopStarts, ConnectSucceeds,
       ConnectFails, ResubscribeChannel, Resubscribed, ReaderReturned,
       ReaderRaised, BackoffEnds, LoopCancelled, ReaderStarts, OnReaderError,
       ReaderCancelled
  <2>2. QED
    BY <2>1 DEF Feed!vars
<1>7. CASE \/ MessageLoopStarts \/ MessageHandled \/ GetTimesOut
           \/ MessageLoopCancelled \/ SocketDies
           \/ (\E ch \in Channels : Subscribe(ch) \/ SubscribeSent(ch))
           \/ UNCHANGED vars
  <2>1. UNCHANGED <<received, queue, closing>>
    BY <1>7 DEF MessageLoopStarts, MessageHandled, GetTimesOut,
       MessageLoopCancelled, SocketDies, Subscribe, SubscribeSent, vars
  <2>2. QED
    BY <2>1 DEF Feed!vars
<1>8. QED
  BY <1>2, <1>3, <1>4, <1>5, <1>6, <1>7 DEF Next, MessageLoopStep

(***************************************************************************)
(* The manager implements LossyFeed: through reconnections, overflows and  *)
(* close, messages are handled in order, none twice, and an overflow       *)
(* never loses the newest.                                                 *)
(***************************************************************************)
THEOREM FeedImplemented == Spec => ImplementsFeed
<1>1. Init => TypeInv /\ Feed!Init
  BY TypeInit DEF Init, Feed!Init
<1>2. TypeInv /\ [Next]_vars => TypeInv' /\ [Feed!Next]_Feed!vars
  BY TypeStep, FeedStep
<1>3. QED
  BY <1>1, <1>2, PTL DEF Spec, ImplementsFeed, Feed!Spec

-----------------------------------------------------------------------------
(* Subscriptions. *)

\* The reader runs only while the connection loop waits for it, and from the
\* moment the socket is open a subscriber sees it connected; what was sent
\* again is subscribed while the socket stays open.
SubscriptionInv ==
    /\ SubscriptionsAreLive
    /\ reader # "none" => loop = "reading"
    /\ loop \in {"resubscribing", "reading"} => connectionState = "CONNECTED"
    /\ loop = "resubscribing" /\ socket = "open" => resent \subseteq subscribed

LEMMA SubscriptionStep ==
    ASSUME AttemptsLeft, SubscriptionInv, [Next]_vars
    PROVE  SubscriptionInv'
<1> USE DEF SubscriptionInv, SubscriptionsAreLive, connection, messages, channels
<1>1. ASSUME Initialize PROVE SubscriptionInv'
  BY <1>1 DEF Initialize, AttemptsLeft
<1>2. ASSUME LoopStarts PROVE SubscriptionInv'
  BY <1>2 DEF LoopStarts, Iterate, Terminate
<1>3. ASSUME ConnectSucceeds PROVE SubscriptionInv'
  BY <1>3 DEF ConnectSucceeds
<1>4. ASSUME ConnectFails PROVE SubscriptionInv'
  BY <1>4 DEF ConnectFails, HandleConnectionError, Terminate
<1>5. ASSUME NEW ch \in Channels, ResubscribeChannel(ch) PROVE SubscriptionInv'
  BY <1>5 DEF ResubscribeChannel
<1>6. ASSUME Resubscribed PROVE SubscriptionInv'
  BY <1>6 DEF Resubscribed, Terminate
<1>7. ASSUME ReaderReturned PROVE SubscriptionInv'
  BY <1>7 DEF ReaderReturned, Iterate, Terminate
<1>8. ASSUME ReaderRaised PROVE SubscriptionInv'
  BY <1>8 DEF ReaderRaised, HandleConnectionError, Terminate
<1>9. ASSUME BackoffEnds PROVE SubscriptionInv'
  BY <1>9 DEF BackoffEnds, Iterate, Terminate
<1>10. ASSUME LoopCancelled PROVE SubscriptionInv'
  BY <1>10 DEF LoopCancelled, Terminate
<1>11. ASSUME ReaderStarts PROVE SubscriptionInv'
  BY <1>11 DEF ReaderStarts, ReadOn
<1>12. ASSUME OnReaderError PROVE SubscriptionInv'
  BY <1>12 DEF OnReaderError
<1>13. ASSUME ReaderCancelled PROVE SubscriptionInv'
  BY <1>13 DEF ReaderCancelled
<1>14. ASSUME MessageLoopStarts PROVE SubscriptionInv'
  BY <1>14 DEF MessageLoopStarts, GetNext
<1>15. ASSUME ProcessMessage PROVE SubscriptionInv'
  BY <1>15 DEF ProcessMessage
<1>16. ASSUME MessageHandled PROVE SubscriptionInv'
  BY <1>16 DEF MessageHandled, GetNext
<1>17. ASSUME GetTimesOut PROVE SubscriptionInv'
  BY <1>17 DEF GetTimesOut
<1>18. ASSUME MessageLoopCancelled PROVE SubscriptionInv'
  BY <1>18 DEF MessageLoopCancelled
<1>19. ASSUME OnRawMessage PROVE SubscriptionInv'
  BY <1>19 DEF OnRawMessage, ReadOn
<1>20. ASSUME SocketDies PROVE SubscriptionInv'
  BY <1>20 DEF SocketDies
<1>21. ASSUME Close PROVE SubscriptionInv'
  BY <1>21 DEF Close
<1>22. ASSUME Closed PROVE SubscriptionInv'
  BY <1>22 DEF Closed
<1>23. ASSUME NEW ch \in Channels, Subscribe(ch) PROVE SubscriptionInv'
  BY <1>23 DEF Subscribe, IsConnected
<1>24. ASSUME NEW ch \in Channels, SubscribeSent(ch) PROVE SubscriptionInv'
  BY <1>24 DEF SubscribeSent
<1>25. CASE UNCHANGED vars
  BY <1>25 DEF vars
<1>26. QED
  BY <1>1, <1>2, <1>3, <1>4, <1>5, <1>6, <1>7, <1>8, <1>9, <1>10, <1>11, <1>12, <1>13, <1>14,
     <1>15, <1>16, <1>17, <1>18, <1>19, <1>20, <1>21, <1>22, <1>23, <1>24, <1>25 DEF Next,
     LoopStep, ReaderStep, MessageLoopStep

(***************************************************************************)
(* Whatever subscribe calls, lost connections and reconnections cross: on  *)
(* an open socket that is read, every recorded channel is subscribed or    *)
(* being sent.                                                             *)
(***************************************************************************)
THEOREM SubscriptionsKept == Spec => []SubscriptionsAreLive
<1>1. Init => TypeInv /\ SubscriptionInv
  BY TypeInit DEF Init, SubscriptionInv, SubscriptionsAreLive
<1>2. TypeInv /\ SubscriptionInv /\ [Next]_vars => TypeInv' /\ SubscriptionInv'
  BY TypeStep, SubscriptionStep DEF TypeInv
<1>3. SubscriptionInv => SubscriptionsAreLive
  BY DEF SubscriptionInv
<1>4. QED
  BY <1>1, <1>2, <1>3, PTL DEF Spec
=============================================================================
