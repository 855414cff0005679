----------------------------- MODULE OrderStore -----------------------------
(***************************************************************************)
(* The order store of a private exchange composite: the dictionary _orders *)
(* of BasePrivateComposite on a spot account, which is written             *)
(*                                                                         *)
(*   - by the websocket order channel (_order_handler),                    *)
(*   - by the answer of every REST call of a coroutine (place, cancel,     *)
(*     fetch, fetch from trades), and                                      *)
(*   - by the reload of the open orders (_load_open_orders),               *)
(*                                                                         *)
(* all through _update_order, which stores what it is given: the last      *)
(* writer wins, whatever its age.                                          *)
(*                                                                         *)
(* The exchange is external.  An order there is open or done and has       *)
(* filled a part of its quantity; quantities are counted in units of the   *)
(* smallest fill.  The exchange answers a REST call at one instant and the *)
(* coroutine resumes with the answer at a later one: in between the        *)
(* websocket and the other coroutines run.                                 *)
(*                                                                         *)
(* Left out: prices and fees, the events published to the subscribers, the *)
(* balances (a store of the same kind, see README), the exchanges'         *)
(* message formats.                                                        *)
(***************************************************************************)
EXTENDS Naturals, Sequences

CONSTANTS
    Orders,    \* the order ids
    Callers,   \* the coroutines that call the composite
    Qty,       \* the quantity of an order, in units of the smallest fill
    Exchanges, \* the exchanges the composite may be configured for
    MaxDrops,  \* bound: how often the websocket connection is lost
    None       \* no order, no answer

Snapshot == [done : BOOLEAN, filled : 0..Qty]

ASSUME QtyAssumption == Qty \in Nat \ {0}
ASSUME ExchangesAssumption == Exchanges \subseteq {"MEXC", "GATEIO"}
ASSUME DropsAssumption == MaxDrops \in Nat
ASSUME NoneAssumption == None \notin Snapshot /\ None \notin Nat

NewOrder == [done |-> FALSE, filled |-> 0]

\* The states in which the exchange accepts an order: matched at once in part
\* or in whole, and finished if the rest may not wait.
Accepted == {s \in Snapshot : s.filled = Qty => s.done}

MaybeSnapshot == Snapshot \union {None}
OrderTable == [Orders -> MaybeSnapshot]
Updates == [id : Orders, order : Snapshot]

NoOrders == [o \in Orders |-> None]

(***************************************************************************)
(* What a coroutine waits for.  "...Query" is a request the exchange has   *)
(* not answered yet; the other requests are answered as they are sent,     *)
(* because the coroutine reads nothing of the store between the two.       *)
(***************************************************************************)
Idle          == [op |-> "idle"]
IdleCalls     == {Idle}
PlaceAnswers  == [op : {"placed"}, id : Orders, reply : Snapshot]
MarketAnswers == [op : {"marketPlaced"}, id : Orders]
CancelAnswers == [op : {"canceled"}, id : Orders, reply : MaybeSnapshot]
OrderQueries  == [op : {"orderQuery", "tradesQuery"}, id : Orders]
OrderAnswers  == [op : {"orderAnswer"}, id : Orders, reply : MaybeSnapshot]
TradesAnswers == [op : {"tradesAnswer"}, id : Orders,
                  reply : (0..Qty) \union {None}]
LoadQueries   == [op : {"loadQuery"}, prev : OrderTable]
LoadAnswers   == [op : {"loadAnswer"}, prev : OrderTable, open : OrderTable]
LoadTrades    == [op : {"loadTrades"}, prev : OrderTable, open : OrderTable,
                  id : Orders, reply : (0..Qty) \union {None}]

Calls == UNION {IdleCalls, PlaceAnswers, MarketAnswers, CancelAnswers,
                OrderQueries, OrderAnswers, TradesAnswers,
                LoadQueries, LoadAnswers, LoadTrades}

VARIABLES
    exchange, \* config.exchange_enum
    truth,  \* the exchange: the state of every order, None before it exists
    wsUp,   \* the private websocket is connected and subscribed
    drops,  \* how often it was lost
    feed,   \* order updates sent by the exchange, not handled yet
    store,  \* self._orders
    call    \* what each coroutine waits for

vars == <<exchange, truth, wsUp, drops, feed, store, call>>

TypeOK ==
    /\ exchange \in Exchanges
    /\ truth \in OrderTable
    /\ wsUp \in BOOLEAN
    /\ drops \in 0..MaxDrops
    /\ feed \in Seq(Updates)
    /\ store \in OrderTable
    /\ call \in [Callers -> Calls]

IsMexc == exchange = "MEXC"

IsOpen(o) == truth[o] # None /\ ~truth[o].done
IsDone(o) == truth[o] # None /\ truth[o].done

(***************************************************************************)
(* Nothing is known and nothing is connected.  Orders of an earlier run of *)
(* the program may still be open on the exchange.                          *)
(***************************************************************************)
Init ==
    /\ exchange \in Exchanges
    /\ truth \in [Orders -> {None, NewOrder}]
    /\ wsUp = FALSE
    /\ drops = 0
    /\ feed = << >>
    /\ store = NoOrders
    /\ call = [c \in Callers |-> Idle]

-----------------------------------------------------------------------------
(* The exchange and the connection to it. *)

\* The exchange changes order o to s and tells the websocket, if it is up.
Change(o, s) ==
    /\ truth' = [truth EXCEPT ![o] = s]
    /\ feed' = IF wsUp THEN Append(feed, [id |-> o, order |-> s]) ELSE feed

Fill(o) ==
    /\ IsOpen(o)
    /\ Change(o, [done |-> truth[o].filled + 1 = Qty,
                  filled |-> truth[o].filled + 1])
    /\ UNCHANGED <<exchange, wsUp, drops, store, call>>

\* Expiry, the exchange's own cancellation, or the user's from elsewhere.
Expire(o) ==
    /\ IsOpen(o)
    /\ Change(o, [truth[o] EXCEPT !.done = TRUE])
    /\ UNCHANGED <<exchange, wsUp, drops, store, call>>

\* What was received stays in the queue of the websocket manager; what was
\* still under way is lost.
WsDrop ==
    /\ wsUp
    /\ drops < MaxDrops
    /\ wsUp' = FALSE
    /\ drops' = drops + 1
    /\ \E n \in 0..Len(feed) : feed' = SubSeq(feed, 1, n)
    /\ UNCHANGED <<exchange, truth, store, call>>

\* The connection handler resubscribes and does nothing else: the refresh of
\* the composite (_on_websocket_connected, connection_loss) has no caller.
WsConnect ==
    /\ ~wsUp
    /\ wsUp' = TRUE
    /\ UNCHANGED <<exchange, truth, drops, feed, store, call>>

-----------------------------------------------------------------------------
(* The composite. *)

UpdateOrder(o, s) == store' = [store EXCEPT ![o] = s]
RemoveOrder(o)    == store' = [store EXCEPT ![o] = None]
WaitFor(c, k)     == call' = [call EXCEPT ![c] = k]

\* Mutant: an update that brings no new fill is dropped.
OrderHandlerSkipsUnfilled ==
    /\ feed # << >>
    /\ LET m == Head(feed)
       IN  IF store[m.id] # None /\ store[m.id].filled = m.order.filled
           THEN UNCHANGED store
           ELSE UpdateOrder(m.id, m.order)
    /\ feed' = Tail(feed)
    /\ UNCHANGED <<exchange, truth, wsUp, drops, call>>

OrderHandler ==
    /\ feed # << >>
    /\ UpdateOrder(Head(feed).id, Head(feed).order)
    /\ feed' = Tail(feed)
    /\ UNCHANGED <<exchange, truth, wsUp, drops, call>>

\* The exchange accepts the order and answers with it as it was at that moment.
PlaceLimitOrder(c, o) ==
    /\ call[c] = Idle
    /\ truth[o] = None
    /\ \E a \in Accepted :
          /\ Change(o, a)
          /\ WaitFor(c, [op |-> "placed", id |-> o, reply |-> a])
    /\ UNCHANGED <<exchange, wsUp, drops, store>>

PlaceMarketOrder(c, o) ==
    /\ call[c] = Idle
    /\ truth[o] = None
    /\ \E a \in Accepted : Change(o, a)
    /\ WaitFor(c, [op |-> "marketPlaced", id |-> o])
    /\ UNCHANGED <<exchange, wsUp, drops, store>>

\* The request of fetch_order: from the trades on MEXC, from the order elsewhere.
FetchQuery(o) == [op |-> IF IsMexc THEN "tradesQuery" ELSE "orderQuery", id |-> o]

\* Mutant: the order leaves the store before the exchange has answered.
FetchOrderRemovesFirst(c, o) ==
    /\ call[c] = Idle
    /\ truth[o] # None
    /\ WaitFor(c, FetchQuery(o))
    /\ RemoveOrder(o)
    /\ UNCHANGED <<exchange, truth, wsUp, drops, feed>>

FetchOrder(c, o) ==
    /\ call[c] = Idle
    /\ truth[o] # None
    /\ WaitFor(c, FetchQuery(o))
    /\ UNCHANGED <<exchange, truth, wsUp, drops, feed, store>>

\* The exchange cancels an open order.  Of a finished one Gate.io says that it
\* is closed (OrderCancelledOrFilled): its client asks for the order and returns
\* it, or none.  Or the exchange knows the order no more (OrderNotFoundError),
\* which is all that MEXC says.
CancelOrder(c, o) ==
    /\ call[c] = Idle
    /\ \/ /\ IsOpen(o)
          /\ Change(o, [truth[o] EXCEPT !.done = TRUE])
          /\ WaitFor(c, [op |-> "canceled", id |-> o,
                         reply |-> [truth[o] EXCEPT !.done = TRUE]])
       \/ /\ IsDone(o)
          /\ \/ /\ ~IsMexc
                /\ \/ WaitFor(c, [op |-> "canceled", id |-> o, reply |-> truth[o]])
                   \/ WaitFor(c, [op |-> "orderAnswer", id |-> o, reply |-> None])
             \/ WaitFor(c, [op |-> "canceled", id |-> o, reply |-> None])
          /\ UNCHANGED <<truth, feed>>
    /\ UNCHANGED <<exchange, wsUp, drops, store>>

\* prev_open_orders is taken before the request is sent.
LoadOpenOrders(c) ==
    /\ call[c] = Idle
    /\ WaitFor(c, [op   |-> "loadQuery",
                   prev |-> [o \in Orders |->
                               IF store[o] # None /\ ~store[o].done
                               THEN store[o] ELSE None]])
    /\ UNCHANGED <<exchange, truth, wsUp, drops, feed, store>>

-----------------------------------------------------------------------------
(* The exchange answers a query with what is true now.  A finished order it *)
(* may no longer know.                                                     *)

AnswerOrderQuery(c) ==
    /\ call[c].op = "orderQuery"
    /\ LET o == call[c].id
       IN  \E s \in {truth[o], None} :
              /\ s = None => IsDone(o)
              /\ WaitFor(c, [op |-> "orderAnswer", id |-> o, reply |-> s])
    /\ UNCHANGED <<exchange, truth, wsUp, drops, feed, store>>

AnswerTradesQuery(c) ==
    /\ call[c].op = "tradesQuery"
    /\ LET o == call[c].id
       IN  \E n \in {truth[o].filled, None} :
              /\ n = None => IsDone(o)
              /\ WaitFor(c, [op |-> "tradesAnswer", id |-> o, reply |-> n])
    /\ UNCHANGED <<exchange, truth, wsUp, drops, feed, store>>

OpenOrders == [o \in Orders |-> IF IsOpen(o) THEN truth[o] ELSE None]

\* Gate.io's client answers a request for all symbols with no order at all.
AnswerLoadQuery(c) ==
    /\ call[c].op = "loadQuery"
    /\ \E open \in {OpenOrders} \union (IF IsMexc THEN {} ELSE {NoOrders}) :
          WaitFor(c, [op |-> "loadAnswer", prev |-> call[c].prev, open |-> open])
    /\ UNCHANGED <<exchange, truth, wsUp, drops, feed, store>>

-----------------------------------------------------------------------------
(* A coroutine resumes with the answer. *)

PlaceReturns(c) ==
    /\ call[c].op = "placed"
    /\ UpdateOrder(call[c].id, call[c].reply)
    /\ WaitFor(c, Idle)
    /\ UNCHANGED <<exchange, truth, wsUp, drops, feed>>

\* ensure=True: the answer of the placement is dropped, the order is fetched.
MarketReturns(c) ==
    /\ call[c].op = "marketPlaced"
    /\ WaitFor(c, FetchQuery(call[c].id))
    /\ UNCHANGED <<exchange, truth, wsUp, drops, feed, store>>

CancelReturns(c) ==
    /\ call[c].op = "canceled"
    /\ LET o == call[c].id
       IN  IF call[c].reply # None
           THEN UpdateOrder(o, call[c].reply) /\ WaitFor(c, Idle)
           ELSE RemoveOrder(o) /\ WaitFor(c, FetchQuery(o))
    /\ UNCHANGED <<exchange, truth, wsUp, drops, feed>>

\* Without an order: MEXC's client raises OrderNotFoundError, and the order is
\* removed; Gate.io's returns None, and the store stays as it is.
FetchOrderRest(c) ==
    /\ call[c].op = "orderAnswer"
    /\ IF call[c].reply # None THEN UpdateOrder(call[c].id, call[c].reply)
       ELSE IF IsMexc THEN RemoveOrder(call[c].id) ELSE UNCHANGED store
    /\ WaitFor(c, Idle)
    /\ UNCHANGED <<exchange, truth, wsUp, drops, feed>>

\* Mutant: every trade is counted twice.
TradesToOrderTwice(n) == [done |-> TRUE, filled |-> 2 * n]

\* Whatever the order's status, its trades add up to a filled order.
TradesToOrder(n) == [done |-> TRUE, filled |-> n]

FetchOrderFromTrades(c) ==
    /\ call[c].op = "tradesAnswer"
    /\ LET o == call[c].id
           n == call[c].reply
       IN  \/ /\ n = None
              /\ RemoveOrder(o)
              /\ WaitFor(c, Idle)
           \/ /\ n # None /\ n > 0
              /\ UpdateOrder(o, TradesToOrder(n))
              /\ WaitFor(c, Idle)
           \/ /\ n = 0
              /\ WaitFor(c, IF store[o] # None THEN Idle
                            ELSE [op |-> "orderQuery", id |-> o])
              /\ UNCHANGED store
    /\ UNCHANGED <<exchange, truth, wsUp, drops, feed>>

\* Mutant: an order that was open before and is not in the answer counts as filled.
ReloadedAsFilled(table, open, prev) ==
    [o \in Orders |-> IF open[o] # None THEN open[o]
                      ELSE IF prev[o] # None THEN [done |-> TRUE, filled |-> Qty]
                      ELSE table[o]]

\* The orders that were open before and are not in the answer are published
\* again, as they were before.
Reloaded(table, open, prev) ==
    [o \in Orders |-> IF open[o] # None THEN open[o]
                      ELSE IF prev[o] # None THEN prev[o] ELSE table[o]]

LoadReturns(c) ==
    /\ call[c].op = "loadAnswer"
    /\ ~IsMexc \/ \A o \in Orders : call[c].open[o] = None
    /\ store' = Reloaded(store, call[c].open, call[c].prev)
    /\ WaitFor(c, Idle)
    /\ UNCHANGED <<exchange, truth, wsUp, drops, feed>>

\* On MEXC the loop awaits the trades of one order of the answer after the other.
\* An order that finished meanwhile may not be found.
LoadNextTrades(c) ==
    /\ IsMexc
    /\ call[c].op = "loadAnswer"
    /\ \E o \in Orders :
          /\ call[c].open[o] # None
          /\ \E n \in {truth[o].filled, None} :
                /\ n = None => IsDone(o)
                /\ WaitFor(c, [op |-> "loadTrades", prev |-> call[c].prev,
                               open |-> call[c].open, id |-> o, reply |-> n])
    /\ UNCHANGED <<exchange, truth, wsUp, drops, feed, store>>

\* Without trades the order is taken from the store, or from the answer; one
\* that is not found leaves the store before that.
LoadTradesReturn(c) ==
    /\ call[c].op = "loadTrades"
    /\ LET o     == call[c].id
           n     == call[c].reply
           prev  == [call[c].prev EXCEPT ![o] = None]
           open  == [call[c].open EXCEPT ![o] = None]
           table == [store EXCEPT ![o] = IF n # None /\ n > 0 THEN TradesToOrder(n)
                                         ELSE IF n # None /\ store[o] # None THEN store[o]
                                         ELSE call[c].open[o]]
       IN  IF \E p \in Orders : open[p] # None
           THEN /\ store' = table
                /\ WaitFor(c, [op |-> "loadAnswer", prev |-> prev, open |-> open])
           ELSE /\ store' = Reloaded(table, open, prev)
                /\ WaitFor(c, Idle)
    /\ UNCHANGED <<exchange, truth, wsUp, drops, feed>>

\* Any other exception: the request or its answer is lost, the store stays.
CallFails(c) ==
    /\ call[c] # Idle
    /\ WaitFor(c, Idle)
    /\ UNCHANGED <<exchange, truth, wsUp, drops, feed, store>>

-----------------------------------------------------------------------------
Answer(c) ==
    AnswerOrderQuery(c) \/ AnswerTradesQuery(c) \/ AnswerLoadQuery(c)

Resume(c) ==
    \/ PlaceReturns(c) \/ MarketReturns(c) \/ CancelReturns(c)
    \/ FetchOrderRest(c) \/ FetchOrderFromTrades(c)
    \/ LoadReturns(c) \/ LoadNextTrades(c) \/ LoadTradesReturn(c)

Next ==
    \/ \E o \in Orders : Fill(o) \/ Expire(o)
    \/ WsDrop \/ WsConnect \/ OrderHandler
    \/ \E c \in Callers, o \in Orders :
          \/ PlaceLimitOrder(c, o) \/ PlaceMarketOrder(c, o)
          \/ FetchOrder(c, o) \/ CancelOrder(c, o)
    \/ \E c \in Callers :
          LoadOpenOrders(c) \/ Answer(c) \/ Resume(c) \/ CallFails(c)

Spec == Init /\ [][Next]_vars

\* The message loop never stops taking updates, and a REST call has a timeout.
Fairness ==
    /\ WF_vars(OrderHandler)
    /\ \A c \in Callers : WF_vars(Answer(c) \/ Resume(c) \/ CallFails(c))

FairSpec == Spec /\ Fairness

-----------------------------------------------------------------------------
(* Properties. *)

\* What the program may know of an order: no more fills than there are; that
\* it is done only with its final fill (on MEXC, once anything was traded);
\* and that it is open only while something is left to fill.
Genuine(o, s) ==
    /\ truth[o] # None
    /\ s.filled <= truth[o].filled
    /\ s.done => s = truth[o] \/ (IsMexc /\ s.filled > 0)
    /\ ~s.done => s.filled < Qty

(***************************************************************************)
(* Everything in the store is a state the order really had: no writer of   *)
(* _update_order, alone or overtaken by the others, invents a fill, and    *)
(* (MEXC's aggregated trades aside) what the store calls done is done.     *)
(***************************************************************************)
StoreIsGenuine == \A o \in Orders : store[o] # None => Genuine(o, store[o])

\* The same of what is under way: queued updates, answers, and the copies a
\* reload holds.
AnswerIsGenuine(k) ==
    /\ k.op \in {"placed", "canceled", "orderAnswer"} /\ k.reply # None
          => Genuine(k.id, k.reply)
    /\ k.op \in {"tradesAnswer", "loadTrades"} /\ k.reply # None
          => k.reply <= truth[k.id].filled
    /\ k.op \in {"tradesQuery", "tradesAnswer", "loadTrades"} => IsMexc
    /\ k.op \in {"marketPlaced", "canceled", "orderQuery", "tradesQuery",
                 "tradesAnswer", "loadTrades"}
          => truth[k.id] # None
    /\ k.op \in {"canceled", "orderAnswer", "tradesAnswer", "loadTrades"} /\ k.reply = None
          => IsDone(k.id)
    /\ k.op \in {"loadQuery", "loadAnswer", "loadTrades"}
          => \A o \in Orders : k.prev[o] # None => Genuine(o, k.prev[o])
    /\ k.op \in {"loadAnswer", "loadTrades"}
          => \A o \in Orders : k.open[o] # None => Genuine(o, k.open[o])
    /\ k.op = "loadTrades" => k.open[k.id] # None

FeedIsGenuine == \A i \in 1..Len(feed) : Genuine(feed[i].id, feed[i].order)
AnswersAreGenuine == \A c \in Callers : AnswerIsGenuine(call[c])

\* The exchange finishes an order with its last fill.
OpenHasRest == \A o \in Orders : IsOpen(o) => truth[o].filled < Qty

AllIsGenuine ==
    /\ StoreIsGenuine
    /\ FeedIsGenuine
    /\ AnswersAreGenuine
    /\ OpenHasRest

(***************************************************************************)
(* remove_order takes only finished orders out of the store: a caller that *)
(* looks an open order up never misses it once it was stored, even when    *)
(* cancels and fetches of several coroutines cross.                        *)
(***************************************************************************)
RemovedOnlyWhenDone ==
    [][\A o \in Orders : store[o] # None /\ store'[o] = None => IsDone(o)]_vars

LoadInFlight == \E c \in Callers : call[c].op \in {"loadQuery", "loadAnswer", "loadTrades"}

CallInFlight(o) ==
    \E c \in Callers : /\ call[c].op \notin {"idle", "loadQuery", "loadAnswer"}
                       /\ call[c].id = o

\* The final update of o was received, and no REST call is about to overwrite it.
FinalUpdateQueued(o) ==
    /\ IsDone(o)
    /\ \E i \in 1..Len(feed) : feed[i] = [id |-> o, order |-> truth[o]]
    /\ ~CallInFlight(o)

(***************************************************************************)
(* The final websocket update of an order reaches the store, unless it is  *)
(* lost with the connection or a reload is under way when it arrives.      *)
(***************************************************************************)
FinalUpdateLands ==
    \A o \in Orders :
        FinalUpdateQueued(o) ~> \/ store[o] = None \/ store[o].done
                               \/ ~wsUp \/ LoadInFlight

(***************************************************************************)
(* Completed orders are "static", and _orders is the "single source of     *)
(* truth for all orders": an order whose final update was received is      *)
(* finished in the store (or gone from it) from some time on, for good.    *)
(***************************************************************************)
FinalUpdateLasts ==
    \A o \in Orders :
        (/\ IsDone(o)
         /\ \E i \in 1..Len(feed) : feed[i] = [id |-> o, order |-> truth[o]])
        ~> [](store[o] = None \/ store[o].done)

(***************************************************************************)
(* A reload publishes the orders that finished while the connection was    *)
(* down: an order that was open before, is missing from the exchange's     *)
(* answer and has finished there is finished in the store.                 *)
(***************************************************************************)
ReloadPublishesFinished ==
    [][\A c \in Callers : \A o \in Orders :
         /\ LoadReturns(c)
         /\ call[c].prev[o] # None
         /\ call[c].open[o] = None
         /\ IsDone(o)
         => store'[o] # None /\ store'[o].done]_vars

(***************************************************************************)
(* fetch_order gets the "current status of an order": an order the store   *)
(* calls done is done on the exchange.                                     *)
(***************************************************************************)
DoneMeansDone == \A o \in Orders : store[o] # None /\ store[o].done => IsDone(o)
=============================================================================
