-------------------------- MODULE OrderStoreProofs --------------------------
(***************************************************************************)
(* Proofs about OrderStore, for every set of orders and of coroutines,     *)
(* every quantity and every exchange: type correctness, that nothing in    *)
(* the store is ahead of the exchange (StoreIsGenuine), that no open order *)
(* leaves it, and that PositionManager finds in it what it expects.        *)
(***************************************************************************)
EXTENDS OrderStore, SequenceTheorems, TLAPS

USE QtyAssumption, ExchangesAssumption, DropsAssumption, NoneAssumption

(***************************************************************************)
(* Type correctness.                                                       *)
(***************************************************************************)
LEMMA NewOrderType == NewOrder \in Snapshot
BY DEF NewOrder, Snapshot

LEMMA AcceptedType ==
    ASSUME NEW a \in Accepted
    PROVE  a \in Snapshot /\ (a.done \/ a.filled < Qty)
BY DEF Accepted, Snapshot

LEMMA SnapshotFields ==
    ASSUME NEW s \in Snapshot
    PROVE  /\ s.done \in BOOLEAN
           /\ s.filled \in 0..Qty
           /\ s # None
BY DEF Snapshot

LEMMA TradesToOrderType ==
    ASSUME NEW n \in 0..Qty
    PROVE  TradesToOrder(n) \in Snapshot
BY DEF TradesToOrder, Snapshot

LEMMA FinishedSnapshot ==
    ASSUME NEW s \in Snapshot
    PROVE  /\ [s EXCEPT !.done = TRUE] \in Snapshot
           /\ [s EXCEPT !.done = TRUE].done
           /\ [s EXCEPT !.done = TRUE].filled = s.filled
BY DEF Snapshot

\* A change of the exchange keeps the types of the exchange and of the feed.
LEMMA ChangeType ==
    ASSUME TypeOK, NEW o \in Orders, NEW s \in Snapshot, Change(o, s)
    PROVE  truth' \in OrderTable /\ feed' \in Seq(Updates)
<1>1. truth' \in OrderTable
  BY DEF TypeOK, Change, OrderTable, MaybeSnapshot
<1>2. [id |-> o, order |-> s] \in Updates
  BY DEF Updates
<1>3. feed' \in Seq(Updates)
  BY <1>2, AppendProperties DEF TypeOK, Change
<1>4. QED
  BY <1>1, <1>3

LEMMA WaitForType ==
    ASSUME TypeOK, NEW c \in Callers, NEW k \in Calls, WaitFor(c, k)
    PROVE  call' \in [Callers -> Calls]
BY DEF TypeOK, WaitFor

LEMMA UpdateType ==
    ASSUME TypeOK, NEW o \in Orders, NEW s \in MaybeSnapshot, UpdateOrder(o, s)
    PROVE  store' \in OrderTable
BY DEF TypeOK, UpdateOrder, OrderTable

LEMMA RemoveType ==
    ASSUME TypeOK, NEW o \in Orders, RemoveOrder(o)
    PROVE  store' \in OrderTable
BY DEF TypeOK, RemoveOrder, OrderTable, MaybeSnapshot

\* The shape of a call follows from its op.
LEMMA CallShape ==
    ASSUME NEW k \in Calls
    PROVE  /\ k.op = "placed" => k \in PlaceAnswers
           /\ k.op = "marketPlaced" => k \in MarketAnswers
           /\ k.op = "canceled" => k \in CancelAnswers
           /\ k.op \in {"orderQuery", "tradesQuery"} => k \in OrderQueries
           /\ k.op = "orderAnswer" => k \in OrderAnswers
           /\ k.op = "tradesAnswer" => k \in TradesAnswers
           /\ k.op = "loadQuery" => k \in LoadQueries
           /\ k.op = "loadAnswer" => k \in LoadAnswers
           /\ k.op = "loadTrades" => k \in LoadTrades
BY DEF Calls, IdleCalls, Idle, PlaceAnswers, MarketAnswers, CancelAnswers,
       OrderQueries, OrderAnswers, TradesAnswers, LoadQueries, LoadAnswers,
       LoadTrades

\* Every record the actions build for a call is one.
LEMMA CallTypes ==
    /\ Idle \in Calls
    /\ \A o \in Orders :
          /\ FetchQuery(o) \in Calls
          /\ [op |-> "marketPlaced", id |-> o] \in Calls
          /\ [op |-> "orderQuery", id |-> o] \in Calls
    /\ \A o \in Orders, s \in Snapshot : [op |-> "placed", id |-> o, reply |-> s] \in Calls
    /\ \A o \in Orders, s \in MaybeSnapshot :
          /\ [op |-> "canceled", id |-> o, reply |-> s] \in Calls
          /\ [op |-> "orderAnswer", id |-> o, reply |-> s] \in Calls
    /\ \A o \in Orders, n \in (0..Qty) \union {None} :
          [op |-> "tradesAnswer", id |-> o, reply |-> n] \in Calls
    /\ \A p \in OrderTable : [op |-> "loadQuery", prev |-> p] \in Calls
    /\ \A p, t \in OrderTable : [op |-> "loadAnswer", prev |-> p, open |-> t] \in Calls
    /\ \A p, t \in OrderTable, o \in Orders, n \in (0..Qty) \union {None} :
          [op |-> "loadTrades", prev |-> p, open |-> t, id |-> o, reply |-> n] \in Calls
BY DEF Calls, IdleCalls, Idle, PlaceAnswers, MarketAnswers, CancelAnswers,
       OrderQueries, OrderAnswers, TradesAnswers, LoadQueries, LoadAnswers,
       LoadTrades, FetchQuery

\* One step for every action: the handlers, the exchange's answers, the
\* coroutines that resume.
LEMMA TypeStep ==
    ASSUME TypeOK, AllIsGenuine, [Next]_vars
    PROVE  TypeOK'
<1> USE CallTypes, NewOrderType
<1>1. ASSUME NEW o \in Orders, Fill(o) PROVE TypeOK'
  <2>1. truth[o] \in Snapshot /\ truth[o].filled < Qty
    BY <1>1 DEF TypeOK, Fill, IsOpen, OrderTable, MaybeSnapshot,
                AllIsGenuine, OpenHasRest
  <2>2. [done |-> truth[o].filled + 1 = Qty, filled |-> truth[o].filled + 1] \in Snapshot
    BY <2>1, SnapshotFields DEF Snapshot
  <2>3. QED
    BY <1>1, <2>2, ChangeType DEF Fill, TypeOK
<1>2. ASSUME NEW o \in Orders, Expire(o) PROVE TypeOK'
  <2>1. [truth[o] EXCEPT !.done = TRUE] \in Snapshot
    BY <1>2 DEF TypeOK, Expire, IsOpen, OrderTable, MaybeSnapshot, Snapshot
  <2>2. QED
    BY <1>2, <2>1, ChangeType DEF Expire, TypeOK
<1>3. CASE WsDrop
  <2>1. ASSUME NEW n \in 0..Len(feed) PROVE SubSeq(feed, 1, n) \in Seq(Updates)
    BY SubSeqProperties DEF TypeOK
  <2>2. feed' \in Seq(Updates)
    BY <1>3, <2>1 DEF WsDrop
  <2>3. drops' \in 0..MaxDrops
    BY <1>3 DEF WsDrop, TypeOK
  <2>4. QED
    BY <1>3, <2>2, <2>3 DEF WsDrop, TypeOK
<1>4. CASE WsConnect
  BY <1>4 DEF WsConnect, TypeOK
<1>5. CASE OrderHandler
  <2>1. Head(feed) \in Updates /\ Tail(feed) \in Seq(Updates)
    BY <1>5, HeadTailProperties DEF OrderHandler, TypeOK
  <2>2. Head(feed).id \in Orders /\ Head(feed).order \in MaybeSnapshot
    BY <2>1 DEF Updates, MaybeSnapshot
  <2>3. store' \in OrderTable
    BY <1>5, <2>2, UpdateType DEF OrderHandler
  <2>4. QED
    BY <1>5, <2>1, <2>3 DEF OrderHandler, TypeOK
<1>6. ASSUME NEW c \in Callers, NEW o \in Orders, PlaceLimitOrder(c, o) PROVE TypeOK'
  BY <1>6, AcceptedType, ChangeType, WaitForType DEF PlaceLimitOrder, TypeOK
<1>7. ASSUME NEW c \in Callers, NEW o \in Orders, PlaceMarketOrder(c, o) PROVE TypeOK'
  BY <1>7, AcceptedType, ChangeType, WaitForType DEF PlaceMarketOrder, TypeOK
<1>8. ASSUME NEW c \in Callers, NEW o \in Orders, FetchOrder(c, o) PROVE TypeOK'
  BY <1>8, WaitForType DEF FetchOrder, TypeOK
<1>9. ASSUME NEW c \in Callers, NEW o \in Orders, CancelOrder(c, o) PROVE TypeOK'
  <2>1. IsOpen(o) => [truth[o] EXCEPT !.done = TRUE] \in Snapshot
    BY DEF TypeOK, IsOpen, OrderTable, MaybeSnapshot, Snapshot
  <2>2. ~(IsOpen(o) /\ IsDone(o))
    BY DEF IsOpen, IsDone
  <2>3. CASE IsOpen(o)
    BY <1>9, <2>1, <2>2, <2>3, ChangeType, WaitForType DEF CancelOrder, TypeOK, MaybeSnapshot
  <2>4. CASE ~IsOpen(o)
    <3>1. PICK op \in {"canceled", "orderAnswer"}, s \in {truth[o], None} :
            WaitFor(c, [op |-> op, id |-> o, reply |-> s])
      BY <1>9, <2>4 DEF CancelOrder
    <3>2. s \in MaybeSnapshot
      BY DEF TypeOK, OrderTable, MaybeSnapshot
    <3>3. [op |-> op, id |-> o, reply |-> s] \in Calls
      BY <3>1, <3>2
    <3>4. QED
      BY <1>9, <2>4, <3>1, <3>3, WaitForType DEF CancelOrder, TypeOK
  <2>5. QED
    BY <2>3, <2>4
<1>10. ASSUME NEW c \in Callers, LoadOpenOrders(c) PROVE TypeOK'
  <2>1. [o \in Orders |-> IF store[o] # None /\ ~store[o].done THEN store[o] ELSE None]
          \in OrderTable
    BY DEF TypeOK, OrderTable, MaybeSnapshot
  <2>2. QED
    BY <1>10, <2>1, WaitForType DEF LoadOpenOrders, TypeOK
<1>11. ASSUME NEW c \in Callers, AnswerOrderQuery(c) PROVE TypeOK'
  <2>1. call[c].id \in Orders
    BY <1>11, CallShape DEF AnswerOrderQuery, TypeOK, OrderQueries
  <2>2. truth[call[c].id] \in MaybeSnapshot /\ None \in MaybeSnapshot
    BY <2>1 DEF TypeOK, OrderTable, MaybeSnapshot
  <2>3. QED
    BY <1>11, <2>1, <2>2, WaitForType DEF AnswerOrderQuery, TypeOK
<1>12. ASSUME NEW c \in Callers, AnswerTradesQuery(c) PROVE TypeOK'
  <2>1. call[c].id \in Orders
    BY <1>12, CallShape DEF AnswerTradesQuery, TypeOK, OrderQueries
  <2>2. truth[call[c].id] \in Snapshot
    BY <1>12, <2>1 DEF AnswerTradesQuery, AllIsGenuine, AnswersAreGenuine,
                       AnswerIsGenuine, TypeOK, OrderTable, MaybeSnapshot
  <2>3. truth[call[c].id].filled \in 0..Qty
    BY <2>2, SnapshotFields
  <2>4. QED
    BY <1>12, <2>1, <2>3, WaitForType DEF AnswerTradesQuery, TypeOK
<1>13. ASSUME NEW c \in Callers, AnswerLoadQuery(c) PROVE TypeOK'
  <2>1. call[c].prev \in OrderTable
    BY <1>13, CallShape DEF AnswerLoadQuery, TypeOK, LoadQueries
  <2>2. OpenOrders \in OrderTable /\ NoOrders \in OrderTable
    BY DEF OpenOrders, NoOrders, TypeOK, OrderTable, MaybeSnapshot
  <2>3. QED
    BY <1>13, <2>1, <2>2, WaitForType DEF AnswerLoadQuery, TypeOK
<1>14. ASSUME NEW c \in Callers, PlaceReturns(c) PROVE TypeOK'
  <2>1. call[c].id \in Orders /\ call[c].reply \in MaybeSnapshot
    BY <1>14, CallShape DEF PlaceReturns, TypeOK, PlaceAnswers, MaybeSnapshot
  <2>2. QED
    BY <1>14, <2>1, UpdateType, WaitForType DEF PlaceReturns, TypeOK
<1>15. ASSUME NEW c \in Callers, MarketReturns(c) PROVE TypeOK'
  <2>1. call[c].id \in Orders
    BY <1>15, CallShape DEF MarketReturns, TypeOK, MarketAnswers
  <2>2. QED
    BY <1>15, <2>1, WaitForType DEF MarketReturns, TypeOK
<1>16. ASSUME NEW c \in Callers, CancelReturns(c) PROVE TypeOK'
  <2>1. call[c].id \in Orders /\ call[c].reply \in MaybeSnapshot
    BY <1>16, CallShape DEF CancelReturns, TypeOK, CancelAnswers
  <2>2. QED
    BY <1>16, <2>1, UpdateType, RemoveType, WaitForType DEF CancelReturns, TypeOK
<1>17. ASSUME NEW c \in Callers, FetchOrderRest(c) PROVE TypeOK'
  <2>1. call[c].id \in Orders /\ call[c].reply \in MaybeSnapshot
    BY <1>17, CallShape DEF FetchOrderRest, TypeOK, OrderAnswers
  <2>2. QED
    BY <1>17, <2>1, UpdateType, RemoveType, WaitForType DEF FetchOrderRest, TypeOK
<1>18. ASSUME NEW c \in Callers, FetchOrderFromTrades(c) PROVE TypeOK'
  <2>1. call[c].id \in Orders /\ call[c].reply \in (0..Qty) \union {None}
    BY <1>18, CallShape DEF FetchOrderFromTrades, TypeOK, TradesAnswers
  <2>2. call[c].reply # None => TradesToOrder(call[c].reply) \in MaybeSnapshot
    BY <2>1 DEF TradesToOrder, MaybeSnapshot, Snapshot
  <2>3. QED
    BY <1>18, <2>1, <2>2, UpdateType, RemoveType, WaitForType
    DEF FetchOrderFromTrades, TypeOK
<1>19. ASSUME NEW c \in Callers, LoadReturns(c) PROVE TypeOK'
  <2>1. call[c].prev \in OrderTable /\ call[c].open \in OrderTable
    BY <1>19, CallShape DEF LoadReturns, TypeOK, LoadAnswers
  <2>2. Reloaded(store, call[c].open, call[c].prev) \in OrderTable
    BY <2>1 DEF TypeOK, OrderTable, Reloaded
  <2>3. QED
    BY <1>19, <2>2, WaitForType DEF LoadReturns, TypeOK
<1>20. ASSUME NEW c \in Callers, LoadNextTrades(c) PROVE TypeOK'
  <2>1. call[c].prev \in OrderTable /\ call[c].open \in OrderTable
    BY <1>20, CallShape DEF LoadNextTrades, TypeOK, LoadAnswers
  <2>2. PICK o, n :
          /\ o \in Orders
          /\ n \in {truth[o].filled, None}
          /\ call[c].open[o] # None
          /\ WaitFor(c, [op |-> "loadTrades", prev |-> call[c].prev,
                         open |-> call[c].open, id |-> o, reply |-> n])
    BY <1>20 DEF LoadNextTrades
  <2>3. truth[o] \in Snapshot
    BY <1>20, <2>2 DEF LoadNextTrades, AllIsGenuine, AnswersAreGenuine, Genuine,
                       AnswerIsGenuine, TypeOK, OrderTable, MaybeSnapshot
  <2>4. truth[o].filled \in 0..Qty
    BY <2>3, SnapshotFields
  <2>5. QED
    BY <1>20, <2>1, <2>2, <2>4, WaitForType DEF LoadNextTrades, TypeOK
<1>21. ASSUME NEW c \in Callers, LoadTradesReturn(c) PROVE TypeOK'
  <2> DEFINE o     == call[c].id
             n     == call[c].reply
             prev  == [call[c].prev EXCEPT ![o] = None]
             open  == [call[c].open EXCEPT ![o] = None]
             kept  == IF n # None /\ n > 0 THEN TradesToOrder(n)
                      ELSE IF n # None /\ store[o] # None THEN store[o]
                      ELSE call[c].open[o]
             table == [store EXCEPT ![o] = kept]
  <2>1. /\ call[c].prev \in OrderTable
        /\ call[c].open \in OrderTable
        /\ o \in Orders
        /\ n \in (0..Qty) \union {None}
    BY <1>21, CallShape DEF LoadTradesReturn, TypeOK, LoadTrades
  <2>2. prev \in OrderTable /\ open \in OrderTable
    BY <2>1 DEF OrderTable, MaybeSnapshot
  <2>3. kept \in MaybeSnapshot
    BY <2>1 DEF TypeOK, OrderTable, TradesToOrder, MaybeSnapshot, Snapshot
  <2>4. table \in OrderTable
    BY <2>1, <2>3 DEF TypeOK, OrderTable
  <2>5. Reloaded(table, open, prev) \in OrderTable
    BY <2>2, <2>4 DEF OrderTable, Reloaded
  <2>6. \/ store' = table /\ WaitFor(c, [op |-> "loadAnswer", prev |-> prev, open |-> open])
        \/ store' = Reloaded(table, open, prev) /\ WaitFor(c, Idle)
    BY <1>21 DEF LoadTradesReturn
  <2> HIDE DEF prev, open, table
  <2>7. QED
    BY <1>21, <2>2, <2>4, <2>5, <2>6, WaitForType DEF LoadTradesReturn, TypeOK
<1>22. ASSUME NEW c \in Callers, CallFails(c) PROVE TypeOK'
  BY <1>22, WaitForType DEF CallFails, TypeOK
<1>23. CASE UNCHANGED vars
  BY <1>23 DEF vars, TypeOK
<1>24. QED
  BY <1>1, <1>2, <1>3, <1>4, <1>5, <1>6, <1>7, <1>8, <1>9, <1>10, <1>11, <1>12,
     <1>13, <1>14, <1>15, <1>16, <1>17, <1>18, <1>19, <1>20, <1>21, <1>22, <1>23
  DEF Next, Answer, Resume

-----------------------------------------------------------------------------
(***************************************************************************)
(* Nothing is ahead of the exchange.                                       *)
(***************************************************************************)

\* Genuine and AnswerIsGenuine of a value, measured against the next state of
\* the exchange.
GenuineNext(o, s) ==
    /\ truth'[o] # None
    /\ s.filled <= truth'[o].filled
    /\ s.done => s = truth'[o] \/ (exchange' = "MEXC" /\ s.filled > 0)
    /\ ~s.done => s.filled < Qty

AnswerIsGenuineNext(k) ==
    /\ k.op \in {"placed", "canceled", "orderAnswer"} /\ k.reply # None
          => GenuineNext(k.id, k.reply)
    /\ k.op \in {"tradesAnswer", "loadTrades"} /\ k.reply # None
          => k.reply <= truth'[k.id].filled
    /\ k.op \in {"tradesQuery", "tradesAnswer", "loadTrades"} => exchange' = "MEXC"
    /\ k.op \in {"marketPlaced", "canceled", "orderQuery", "tradesQuery",
                 "tradesAnswer", "loadTrades"}
          => truth'[k.id] # None
    /\ k.op \in {"canceled", "orderAnswer", "tradesAnswer", "loadTrades"} /\ k.reply = None
          => truth'[k.id] # None /\ truth'[k.id].done
    /\ k.op \in {"loadQuery", "loadAnswer", "loadTrades"}
          => \A o \in Orders : k.prev[o] # None => GenuineNext(o, k.prev[o])
    /\ k.op \in {"loadAnswer", "loadTrades"}
          => \A o \in Orders : k.open[o] # None => GenuineNext(o, k.open[o])
    /\ k.op = "loadTrades" => k.open[k.id] # None

\* What a step may do to an order on the exchange: it exists from some time
\* on, its fills only grow, and once done it does not change any more.
Evolves(o) ==
    truth[o] # None =>
        /\ truth'[o] # None
        /\ truth[o].filled <= truth'[o].filled
        /\ truth[o].done => truth'[o] = truth[o]

LEMMA Evolution ==
    ASSUME TypeOK, AllIsGenuine, [Next]_vars
    PROVE  exchange' = exchange /\ \A o \in Orders : Evolves(o)
<1>1. ASSUME UNCHANGED <<exchange, truth>>
      PROVE  exchange' = exchange /\ \A o \in Orders : Evolves(o)
  BY <1>1, SnapshotFields DEF Evolves, TypeOK, OrderTable, MaybeSnapshot
<1>2. ASSUME NEW o \in Orders, NEW s \in Snapshot, Change(o, s), exchange' = exchange,
             truth[o] # None => ~truth[o].done /\ truth[o].filled <= s.filled
      PROVE  exchange' = exchange /\ \A p \in Orders : Evolves(p)
  BY <1>2, SnapshotFields DEF Evolves, Change, TypeOK, OrderTable, MaybeSnapshot
<1>3. ASSUME NEW o \in Orders, Fill(o)
      PROVE  exchange' = exchange /\ \A p \in Orders : Evolves(p)
  <2>1. truth[o] \in Snapshot /\ truth[o].filled < Qty /\ ~truth[o].done
    BY <1>3 DEF TypeOK, Fill, IsOpen, OrderTable, MaybeSnapshot,
                AllIsGenuine, OpenHasRest
  <2>2. [done |-> truth[o].filled + 1 = Qty, filled |-> truth[o].filled + 1] \in Snapshot
    BY <2>1, SnapshotFields DEF Snapshot
  <2>3. truth[o].filled <= truth[o].filled + 1
    BY <2>1, SnapshotFields
  <2>4. QED
    BY <1>2, <1>3, <2>1, <2>2, <2>3 DEF Fill
<1>4. ASSUME NEW o \in Orders, IsOpen(o), Change(o, [truth[o] EXCEPT !.done = TRUE]),
             exchange' = exchange
      PROVE  exchange' = exchange /\ \A p \in Orders : Evolves(p)
  <2>1. truth[o] \in Snapshot /\ ~truth[o].done
    BY <1>4 DEF TypeOK, IsOpen, OrderTable, MaybeSnapshot
  <2>2. /\ [truth[o] EXCEPT !.done = TRUE] \in Snapshot
        /\ truth[o].filled <= [truth[o] EXCEPT !.done = TRUE].filled
    BY <2>1, FinishedSnapshot, SnapshotFields
  <2>3. QED
    BY <1>2, <1>4, <2>1, <2>2
<1>5. ASSUME NEW o \in Orders, truth[o] = None, NEW a \in Accepted, Change(o, a),
             exchange' = exchange
      PROVE  exchange' = exchange /\ \A p \in Orders : Evolves(p)
  BY <1>2, <1>5, AcceptedType
<1>6. ASSUME NEW c \in Callers, NEW o \in Orders, CancelOrder(c, o)
      PROVE  exchange' = exchange /\ \A p \in Orders : Evolves(p)
  <2>1. CASE IsOpen(o)
    BY <1>4, <1>6, <2>1 DEF CancelOrder, IsOpen, IsDone
  <2>2. CASE ~IsOpen(o)
    BY <1>1, <1>6, <2>2 DEF CancelOrder
  <2>3. QED
    BY <2>1, <2>2
<1>7. ASSUME NEW c \in Callers, Answer(c) \/ Resume(c) \/ CallFails(c) \/ LoadOpenOrders(c)
      PROVE  UNCHANGED <<exchange, truth>>
  BY <1>7 DEF Answer, AnswerOrderQuery, AnswerTradesQuery, AnswerLoadQuery, Resume,
     PlaceReturns, MarketReturns, CancelReturns, FetchOrderRest, FetchOrderFromTrades,
     LoadReturns, LoadNextTrades, LoadTradesReturn, CallFails, LoadOpenOrders
<1>8. CASE WsDrop \/ WsConnect \/ OrderHandler \/ UNCHANGED vars
  BY <1>1, <1>8 DEF WsDrop, WsConnect, OrderHandler, vars
<1>9. QED
  BY <1>1, <1>3, <1>4, <1>5, <1>6, <1>7, <1>8
  DEF Next, Expire, PlaceLimitOrder, PlaceMarketOrder, FetchOrder

\* Hence what was genuine stays genuine.
LEMMA GenuineStable ==
    ASSUME TypeOK, exchange' = exchange, NEW o \in Orders, Evolves(o),
           NEW s \in Snapshot, Genuine(o, s), truth' \in OrderTable
    PROVE  GenuineNext(o, s)
BY SnapshotFields DEF Genuine, GenuineNext, Evolves, IsMexc, TypeOK, OrderTable,
   MaybeSnapshot

LEMMA AnswerStable ==
    ASSUME TypeOK, exchange' = exchange, \A o \in Orders : Evolves(o),
           truth' \in OrderTable, NEW k \in Calls, AnswerIsGenuine(k)
    PROVE  AnswerIsGenuineNext(k)
<1>1. \A o \in Orders, s \in Snapshot : Genuine(o, s) => GenuineNext(o, s)
  BY GenuineStable
<1>2. ASSUME NEW o \in Orders, truth[o] # None
      PROVE  /\ truth'[o] # None
             /\ \A n \in 0..Qty : n <= truth[o].filled => n <= truth'[o].filled
  BY <1>2, SnapshotFields DEF Evolves, TypeOK, OrderTable, MaybeSnapshot
<1>3. ASSUME NEW t \in OrderTable, \A o \in Orders : t[o] # None => Genuine(o, t[o])
      PROVE  \A o \in Orders : t[o] # None => GenuineNext(o, t[o])
  BY <1>1, <1>3 DEF OrderTable, MaybeSnapshot
<1>4. k.op \in {"placed", "canceled", "orderAnswer"} /\ k.reply # None
        => GenuineNext(k.id, k.reply)
  BY <1>1, CallShape DEF AnswerIsGenuine, PlaceAnswers, CancelAnswers, OrderAnswers,
     MaybeSnapshot
<1>5. k.op \in {"tradesAnswer", "loadTrades"} /\ k.reply # None
        => k.reply <= truth'[k.id].filled
  BY <1>2, CallShape DEF AnswerIsGenuine, TradesAnswers, LoadTrades
<1>6. k.op \in {"marketPlaced", "canceled", "orderQuery", "tradesQuery",
                "tradesAnswer", "loadTrades"}
        => truth'[k.id] # None
  BY <1>2, CallShape DEF AnswerIsGenuine, TradesAnswers, LoadTrades, OrderQueries,
     MarketAnswers, CancelAnswers
<1>7. k.op \in {"loadQuery", "loadAnswer", "loadTrades"}
        => \A o \in Orders : k.prev[o] # None => GenuineNext(o, k.prev[o])
  BY <1>3, CallShape DEF AnswerIsGenuine, LoadQueries, LoadAnswers, LoadTrades
<1>8. k.op \in {"loadAnswer", "loadTrades"}
        => \A o \in Orders : k.open[o] # None => GenuineNext(o, k.open[o])
  BY <1>3, CallShape DEF AnswerIsGenuine, LoadAnswers, LoadTrades
<1>9. k.op \in {"canceled", "orderAnswer", "tradesAnswer", "loadTrades"} /\ k.reply = None
        => truth'[k.id] # None /\ truth'[k.id].done
  BY CallShape DEF AnswerIsGenuine, IsDone, Evolves, CancelAnswers, OrderAnswers,
     TradesAnswers, LoadTrades
<1>10. QED
  BY <1>4, <1>5, <1>6, <1>7, <1>8, <1>9 DEF AnswerIsGenuine, AnswerIsGenuineNext, IsMexc

\* Every writer of the store writes what is genuine when it writes.
LEMMA StoreStep ==
    ASSUME TypeOK, AllIsGenuine, [Next]_vars
    PROVE  \A o \in Orders : store'[o] # None => Genuine(o, store'[o])
<1> DEFINE Kept == \A o \in Orders : store'[o] # None => Genuine(o, store'[o])
<1> USE DEF AllIsGenuine
<1>1. ASSUME UNCHANGED store PROVE Kept
  BY <1>1 DEF StoreIsGenuine
<1>2. ASSUME NEW o \in Orders, NEW s \in MaybeSnapshot, UpdateOrder(o, s),
             s # None => Genuine(o, s)
      PROVE  Kept
  BY <1>2 DEF StoreIsGenuine, UpdateOrder, TypeOK, OrderTable
<1>3. ASSUME NEW o \in Orders, RemoveOrder(o) PROVE Kept
  BY <1>3 DEF StoreIsGenuine, RemoveOrder, TypeOK, OrderTable
<1>4. CASE OrderHandler
  <2>1. Head(feed) \in Updates /\ Head(feed) = feed[1] /\ 1 \in 1..Len(feed)
    BY <1>4, HeadTailProperties DEF OrderHandler, TypeOK
  <2>2. /\ Head(feed).id \in Orders
        /\ Head(feed).order \in MaybeSnapshot
        /\ Genuine(Head(feed).id, Head(feed).order)
    BY <2>1 DEF FeedIsGenuine, Updates, MaybeSnapshot
  <2>3. QED
    BY <1>2, <1>4, <2>2 DEF OrderHandler
<1>5. ASSUME NEW c \in Callers, PlaceReturns(c) PROVE Kept
  <2>1. call[c].id \in Orders /\ call[c].reply \in MaybeSnapshot
    BY <1>5, CallShape DEF PlaceReturns, TypeOK, PlaceAnswers, MaybeSnapshot
  <2>2. QED
    BY <1>2, <1>5, <2>1 DEF PlaceReturns, AnswersAreGenuine, AnswerIsGenuine
<1>6. ASSUME NEW c \in Callers, CancelReturns(c) PROVE Kept
  <2>1. call[c].id \in Orders /\ call[c].reply \in MaybeSnapshot
    BY <1>6, CallShape DEF CancelReturns, TypeOK, CancelAnswers
  <2>2. QED
    BY <1>2, <1>3, <1>6, <2>1 DEF CancelReturns, AnswersAreGenuine, AnswerIsGenuine
<1>7. ASSUME NEW c \in Callers, FetchOrderRest(c) PROVE Kept
  <2>1. call[c].id \in Orders /\ call[c].reply \in MaybeSnapshot
    BY <1>7, CallShape DEF FetchOrderRest, TypeOK, OrderAnswers
  <2>2. QED
    BY <1>1, <1>2, <1>3, <1>7, <2>1 DEF FetchOrderRest, AnswersAreGenuine, AnswerIsGenuine
<1>8. ASSUME NEW o \in Orders, NEW n \in 0..Qty, n > 0, IsMexc, truth[o] # None,
             n <= truth[o].filled
      PROVE  TradesToOrder(n) \in MaybeSnapshot /\ Genuine(o, TradesToOrder(n))
  BY <1>8 DEF TradesToOrder, MaybeSnapshot, Snapshot, Genuine, IsMexc
<1>9. ASSUME NEW c \in Callers, FetchOrderFromTrades(c) PROVE Kept
  <2>1. call[c].id \in Orders /\ call[c].reply \in (0..Qty) \union {None}
    BY <1>9, CallShape DEF FetchOrderFromTrades, TypeOK, TradesAnswers
  <2>2. /\ IsMexc
        /\ truth[call[c].id] # None
        /\ call[c].reply # None => call[c].reply <= truth[call[c].id].filled
    BY <1>9 DEF FetchOrderFromTrades, AnswersAreGenuine, AnswerIsGenuine
  <2>3. QED
    BY <1>1, <1>2, <1>3, <1>8, <1>9, <2>1, <2>2 DEF FetchOrderFromTrades
\* A reload takes from the answer, from what was open before, or keeps.
<1>10. ASSUME NEW table, NEW open, NEW prev,
              \A o \in Orders : /\ table[o] # None => Genuine(o, table[o])
                                /\ open[o] # None => Genuine(o, open[o])
                                /\ prev[o] # None => Genuine(o, prev[o]),
              store' = Reloaded(table, open, prev)
       PROVE  Kept
  BY <1>10 DEF Reloaded
<1>11. ASSUME NEW c \in Callers, LoadReturns(c) PROVE Kept
  BY <1>10, <1>11 DEF LoadReturns, StoreIsGenuine, AnswersAreGenuine, AnswerIsGenuine
<1>12. ASSUME NEW c \in Callers, LoadTradesReturn(c) PROVE Kept
  <2> DEFINE o     == call[c].id
             n     == call[c].reply
             prev  == [call[c].prev EXCEPT ![o] = None]
             open  == [call[c].open EXCEPT ![o] = None]
             kept  == IF n # None /\ n > 0 THEN TradesToOrder(n)
                      ELSE IF n # None /\ store[o] # None THEN store[o]
                      ELSE call[c].open[o]
             table == [store EXCEPT ![o] = kept]
  <2>1. /\ call[c].prev \in OrderTable
        /\ call[c].open \in OrderTable
        /\ o \in Orders
        /\ n \in (0..Qty) \union {None}
    BY <1>12, CallShape DEF LoadTradesReturn, TypeOK, LoadTrades
  <2>2. /\ IsMexc
        /\ truth[o] # None
        /\ n # None => n <= truth[o].filled
        /\ \A p \in Orders : call[c].prev[p] # None => Genuine(p, call[c].prev[p])
        /\ \A p \in Orders : call[c].open[p] # None => Genuine(p, call[c].open[p])
    BY <1>12, <2>1 DEF LoadTradesReturn, AnswersAreGenuine, AnswerIsGenuine
  <2>3. kept # None => Genuine(o, kept)
    BY <1>8, <2>1, <2>2 DEF StoreIsGenuine
  <2>4. \A p \in Orders : /\ table[p] # None => Genuine(p, table[p])
                          /\ open[p] # None => Genuine(p, open[p])
                          /\ prev[p] # None => Genuine(p, prev[p])
    BY <2>1, <2>2, <2>3 DEF StoreIsGenuine, TypeOK, OrderTable
  <2>5. store' = table \/ store' = Reloaded(table, open, prev)
    BY <1>12 DEF LoadTradesReturn
  <2> HIDE DEF prev, open, table
  <2>6. QED
    BY <1>10, <2>4, <2>5
<1>13. ASSUME NEW c \in Callers,
              \/ Answer(c) \/ MarketReturns(c) \/ LoadNextTrades(c)
              \/ CallFails(c) \/ LoadOpenOrders(c)
       PROVE  Kept
  BY <1>1, <1>13 DEF Answer, AnswerOrderQuery, AnswerTradesQuery, AnswerLoadQuery,
     MarketReturns, LoadNextTrades, CallFails, LoadOpenOrders
<1>14. ASSUME NEW o \in Orders, Fill(o) \/ Expire(o) PROVE Kept
  BY <1>1, <1>14 DEF Fill, Expire
<1>15. ASSUME NEW c \in Callers, NEW o \in Orders,
              \/ PlaceLimitOrder(c, o) \/ PlaceMarketOrder(c, o)
              \/ FetchOrder(c, o) \/ CancelOrder(c, o)
       PROVE  Kept
  BY <1>1, <1>15 DEF PlaceLimitOrder, PlaceMarketOrder, FetchOrder, CancelOrder
<1>16. CASE WsDrop \/ WsConnect \/ UNCHANGED vars
  BY <1>1, <1>16 DEF WsDrop, WsConnect, vars
<1>17. QED
  BY <1>4, <1>5, <1>6, <1>7, <1>9, <1>11, <1>12, <1>13, <1>14, <1>15, <1>16
  DEF Next, Resume

\* An order still open after a step has a rest to fill.
LEMMA RestStep ==
    ASSUME TypeOK, AllIsGenuine, [Next]_vars
    PROVE  OpenHasRest'
<1> USE DEF AllIsGenuine, OpenHasRest, IsOpen
<1>1. ASSUME UNCHANGED truth PROVE OpenHasRest'
  BY <1>1
<1>2. ASSUME NEW o \in Orders, NEW s \in Snapshot, Change(o, s), s.done \/ s.filled < Qty
      PROVE  OpenHasRest'
  BY <1>2 DEF Change, TypeOK, OrderTable
<1>3. ASSUME NEW o \in Orders, Fill(o) PROVE OpenHasRest'
  <2>1. truth[o] \in Snapshot /\ truth[o].filled < Qty
    BY <1>3 DEF TypeOK, Fill, OrderTable, MaybeSnapshot
  <2>2. [done |-> truth[o].filled + 1 = Qty, filled |-> truth[o].filled + 1] \in Snapshot
    BY <2>1, SnapshotFields DEF Snapshot
  <2>3. truth[o].filled + 1 = Qty \/ truth[o].filled + 1 < Qty
    BY <2>1, SnapshotFields
  <2>4. QED
    BY <1>2, <1>3, <2>2, <2>3 DEF Fill
<1>4. ASSUME NEW o \in Orders, IsOpen(o), Change(o, [truth[o] EXCEPT !.done = TRUE])
      PROVE  OpenHasRest'
  <2>1. truth[o] \in Snapshot
    BY <1>4 DEF TypeOK, OrderTable, MaybeSnapshot
  <2>2. QED
    BY <1>2, <1>4, <2>1, FinishedSnapshot
<1>5. ASSUME NEW o \in Orders, NEW a \in Accepted, Change(o, a) PROVE OpenHasRest'
  BY <1>2, <1>5, AcceptedType
<1>6. ASSUME NEW c \in Callers, NEW o \in Orders, CancelOrder(c, o) PROVE OpenHasRest'
  <2>1. CASE IsOpen(o)
    BY <1>4, <1>6, <2>1 DEF CancelOrder, IsOpen, IsDone
  <2>2. CASE ~IsOpen(o)
    BY <1>1, <1>6, <2>2 DEF CancelOrder
  <2>3. QED
    BY <2>1, <2>2
<1>7. ASSUME NEW c \in Callers, Answer(c) \/ Resume(c) \/ CallFails(c) \/ LoadOpenOrders(c)
      PROVE  UNCHANGED truth
  BY <1>7 DEF Answer, AnswerOrderQuery, AnswerTradesQuery, AnswerLoadQuery, Resume,
     PlaceReturns, MarketReturns, CancelReturns, FetchOrderRest, FetchOrderFromTrades,
     LoadReturns, LoadNextTrades, LoadTradesReturn, CallFails, LoadOpenOrders
<1>8. CASE WsDrop \/ WsConnect \/ OrderHandler \/ UNCHANGED vars
  BY <1>1, <1>8 DEF WsDrop, WsConnect, OrderHandler, vars
<1>9. QED
  BY <1>1, <1>3, <1>4, <1>5, <1>6, <1>7, <1>8
  DEF Next, Expire, PlaceLimitOrder, PlaceMarketOrder, FetchOrder

\* What is true now is genuine.
LEMMA TruthIsGenuine ==
    ASSUME TypeOK, AllIsGenuine, NEW o \in Orders, truth[o] # None
    PROVE  Genuine(o, truth[o])
BY SnapshotFields
DEF Genuine, AllIsGenuine, OpenHasRest, IsOpen, TypeOK, OrderTable, MaybeSnapshot

\* The feed: what it held stays genuine, and what is appended is the truth.
LEMMA FeedStep ==
    ASSUME TypeOK, TypeOK', AllIsGenuine, [Next]_vars
    PROVE  \A i \in 1..Len(feed') : GenuineNext(feed'[i].id, feed'[i].order)
<1> DEFINE Fresh == \A i \in 1..Len(feed') : GenuineNext(feed'[i].id, feed'[i].order)
<1>1. /\ exchange' = exchange
      /\ truth' \in OrderTable
      /\ \A o \in Orders : Evolves(o)
  BY Evolution DEF TypeOK
<1>2. \A i \in 1..Len(feed) : feed[i] \in Updates
  BY ElementOfSeq DEF TypeOK
<1>3. \A i \in 1..Len(feed) : GenuineNext(feed[i].id, feed[i].order)
  <2> TAKE i \in 1..Len(feed)
  <2>1. feed[i].id \in Orders /\ feed[i].order \in Snapshot
    BY <1>2 DEF Updates
  <2>2. Genuine(feed[i].id, feed[i].order)
    BY DEF AllIsGenuine, FeedIsGenuine
  <2>3. QED
    BY <1>1, <2>1, <2>2, GenuineStable
<1>4. ASSUME UNCHANGED feed PROVE Fresh
  BY <1>3, <1>4
<1>5. ASSUME NEW o \in Orders, NEW s \in Snapshot, Change(o, s) PROVE Fresh
  <2>1. CASE wsUp
    <3>1. feed' = Append(feed, [id |-> o, order |-> s])
      BY <1>5, <2>1 DEF Change
    <3>2. GenuineNext(o, s)
      BY <1>5, RestStep, SnapshotFields
      DEF Change, GenuineNext, OpenHasRest, IsOpen, TypeOK, OrderTable
    <3>3. /\ Len(feed') = Len(feed) + 1
          /\ feed'[Len(feed) + 1] = [id |-> o, order |-> s]
          /\ \A i \in 1..Len(feed) : feed'[i] = feed[i]
      BY <3>1, AppendProperties DEF TypeOK, Updates
    <3>4. Len(feed) \in Nat
      BY LenProperties DEF TypeOK
    <3> HIDE DEF Fresh
    <3>5. ASSUME NEW i \in 1..Len(feed') PROVE GenuineNext(feed'[i].id, feed'[i].order)
      <4>1. CASE i = Len(feed) + 1
        BY <3>2, <3>3, <4>1
      <4>2. CASE i # Len(feed) + 1
        <5>1. i \in 1..Len(feed)
          BY <3>3, <3>4, <4>2
        <5>2. QED
          BY <1>3, <3>3, <5>1
      <4>3. QED
        BY <4>1, <4>2
    <3>6. QED
      BY <3>5 DEF Fresh
  <2>2. CASE ~wsUp
    BY <1>4, <1>5, <2>2 DEF Change
  <2>3. QED
    BY <2>1, <2>2 DEF TypeOK
<1>6. CASE WsDrop
  <2>1. PICK n \in 0..Len(feed) : feed' = SubSeq(feed, 1, n)
    BY <1>6 DEF WsDrop
  <2>2. Len(feed') = n /\ \A i \in 1..n : feed'[i] = feed[i]
    BY <2>1, LenProperties, SubSeqProperties DEF TypeOK
  <2>3. QED
    BY <1>3, <2>2, LenProperties DEF TypeOK
<1>7. CASE OrderHandler
  <2>1. /\ Len(feed') = Len(feed) - 1
        /\ \A i \in 1..Len(feed) - 1 : feed'[i] = feed[i + 1]
    BY <1>7, HeadTailProperties DEF OrderHandler, TypeOK
  <2>2. Len(feed) \in Nat
    BY LenProperties DEF TypeOK
  <2>3. QED
    BY <1>3, <2>1, <2>2
<1>8. ASSUME NEW o \in Orders, Fill(o) PROVE Fresh
  <2>1. truth[o] \in Snapshot /\ truth[o].filled < Qty
    BY <1>8 DEF TypeOK, Fill, IsOpen, OrderTable, MaybeSnapshot,
                AllIsGenuine, OpenHasRest
  <2>2. [done |-> truth[o].filled + 1 = Qty, filled |-> truth[o].filled + 1] \in Snapshot
    BY <2>1, SnapshotFields DEF Snapshot
  <2>3. QED
    BY <1>5, <1>8, <2>2 DEF Fill
<1>9. ASSUME NEW o \in Orders, IsOpen(o), Change(o, [truth[o] EXCEPT !.done = TRUE])
      PROVE  Fresh
  <2>1. truth[o] \in Snapshot
    BY <1>9 DEF TypeOK, IsOpen, OrderTable, MaybeSnapshot
  <2>2. QED
    BY <1>5, <1>9, <2>1, FinishedSnapshot
<1>10. ASSUME NEW c \in Callers, NEW o \in Orders, CancelOrder(c, o) PROVE Fresh
  <2>1. CASE IsOpen(o)
    BY <1>9, <1>10, <2>1 DEF CancelOrder, IsOpen, IsDone
  <2>2. CASE ~IsOpen(o)
    BY <1>4, <1>10, <2>2 DEF CancelOrder
  <2>3. QED
    BY <2>1, <2>2
<1>11. ASSUME NEW c \in Callers, Answer(c) \/ Resume(c) \/ CallFails(c) \/ LoadOpenOrders(c)
       PROVE  UNCHANGED feed
  BY <1>11 DEF Answer, AnswerOrderQuery, AnswerTradesQuery, AnswerLoadQuery, Resume,
     PlaceReturns, MarketReturns, CancelReturns, FetchOrderRest, FetchOrderFromTrades,
     LoadReturns, LoadNextTrades, LoadTradesReturn, CallFails, LoadOpenOrders
<1>12. ASSUME NEW o \in Orders, NEW a \in Accepted, Change(o, a) PROVE Fresh
  BY <1>5, <1>12, AcceptedType
<1>13. CASE WsConnect \/ UNCHANGED vars
  BY <1>4, <1>13 DEF WsConnect, vars
<1>14. QED
  BY <1>4, <1>6, <1>7, <1>8, <1>9, <1>10, <1>11, <1>12, <1>13
  DEF Next, Expire, PlaceLimitOrder, PlaceMarketOrder, FetchOrder

\* The calls: the one that moved waits for something genuine, the others did
\* not move.
LEMMA CallStep ==
    ASSUME TypeOK, TypeOK', AllIsGenuine, [Next]_vars
    PROVE  \A c \in Callers : AnswerIsGenuineNext(call'[c])
<1> DEFINE Fresh == \A c \in Callers : AnswerIsGenuineNext(call'[c])
<1>1. /\ exchange' = exchange
      /\ truth' \in OrderTable
      /\ \A o \in Orders : Evolves(o)
  BY Evolution DEF TypeOK
<1>2. \A k \in Calls : AnswerIsGenuine(k) => AnswerIsGenuineNext(k)
  BY <1>1, AnswerStable
<1>3. \A c \in Callers : call[c] \in Calls /\ AnswerIsGenuine(call[c])
  BY DEF TypeOK, AllIsGenuine, AnswersAreGenuine
<1>4. ASSUME UNCHANGED call PROVE Fresh
  BY <1>2, <1>3, <1>4
<1>5. ASSUME NEW c \in Callers, NEW k, WaitFor(c, k), AnswerIsGenuineNext(k)
      PROVE  Fresh
  BY <1>2, <1>3, <1>5 DEF WaitFor, TypeOK
<1>6. ASSUME NEW c \in Callers, NEW k \in Calls, WaitFor(c, k), AnswerIsGenuine(k)
      PROVE  Fresh
  BY <1>2, <1>5, <1>6
<1> HIDE DEF Fresh
<1> USE CallTypes
<1>7. AnswerIsGenuine(Idle)
  BY DEF AnswerIsGenuine, Idle
<1>8. ASSUME NEW o \in Orders, truth[o] # None PROVE AnswerIsGenuine(FetchQuery(o))
  BY <1>8 DEF AnswerIsGenuine, FetchQuery
<1>9. ASSUME NEW o \in Orders, NEW s \in Snapshot, Change(o, s)
      PROVE  GenuineNext(o, s)
  BY <1>9, RestStep, SnapshotFields
  DEF Change, GenuineNext, OpenHasRest, IsOpen, TypeOK, OrderTable
<1>10. ASSUME NEW c \in Callers, NEW o \in Orders, PlaceLimitOrder(c, o) PROVE Fresh
  <2>1. PICK a \in Accepted :
          Change(o, a) /\ WaitFor(c, [op |-> "placed", id |-> o, reply |-> a])
    BY <1>10 DEF PlaceLimitOrder
  <2>2. GenuineNext(o, a)
    BY <1>9, <2>1, AcceptedType
  <2>3. AnswerIsGenuineNext([op |-> "placed", id |-> o, reply |-> a])
    BY <2>2 DEF AnswerIsGenuineNext
  <2>4. QED
    BY <1>5, <2>1, <2>3
<1>11. ASSUME NEW c \in Callers, NEW o \in Orders, PlaceMarketOrder(c, o) PROVE Fresh
  <2>1. PICK a \in Accepted : Change(o, a)
    BY <1>11 DEF PlaceMarketOrder
  <2>2. truth'[o] # None
    BY <1>9, <2>1, AcceptedType DEF GenuineNext
  <2>3. AnswerIsGenuineNext([op |-> "marketPlaced", id |-> o])
    BY <2>2 DEF AnswerIsGenuineNext
  <2>4. QED
    BY <1>5, <1>11, <2>3 DEF PlaceMarketOrder
<1>12. ASSUME NEW c \in Callers, NEW o \in Orders, FetchOrder(c, o) PROVE Fresh
  BY <1>6, <1>8, <1>12 DEF FetchOrder
<1>13. ASSUME NEW c \in Callers, NEW o \in Orders, CancelOrder(c, o) PROVE Fresh
  <2> DEFINE s == [truth[o] EXCEPT !.done = TRUE]
  <2>1. CASE IsOpen(o)
    <3>1. truth[o] \in Snapshot
      BY <1>13, <2>1 DEF IsOpen, TypeOK, OrderTable, MaybeSnapshot
    <3>2. s \in Snapshot
      BY <3>1, FinishedSnapshot
    <3>3. /\ Change(o, s)
          /\ WaitFor(c, [op |-> "canceled", id |-> o, reply |-> s])
      BY <1>13, <2>1 DEF CancelOrder, IsOpen, IsDone
    <3> HIDE DEF s
    <3>4. GenuineNext(o, s)
      BY <1>9, <3>2, <3>3
    <3>5. AnswerIsGenuineNext([op |-> "canceled", id |-> o, reply |-> s])
      BY <3>2, <3>4, SnapshotFields DEF AnswerIsGenuineNext, GenuineNext
    <3>6. QED
      BY <1>5, <3>3, <3>5
  <2>2. CASE ~IsOpen(o)
    <3>1. o \in Orders /\ IsDone(o) /\ truth[o] # None
      BY <1>13, <2>2 DEF CancelOrder, IsDone
    <3>2. PICK op \in {"canceled", "orderAnswer"}, r \in {truth[o], None} :
            WaitFor(c, [op |-> op, id |-> o, reply |-> r])
      BY <1>13, <2>2 DEF CancelOrder
    <3>3. truth[o] \in Snapshot
      BY <3>1 DEF TypeOK, OrderTable, MaybeSnapshot
    <3>4. Genuine(o, truth[o])
      BY <3>1, TruthIsGenuine
    <3>5. AnswerIsGenuine([op |-> op, id |-> o, reply |-> r])
      BY <3>1, <3>2, <3>4 DEF AnswerIsGenuine
    <3>6. [op |-> op, id |-> o, reply |-> r] \in Calls
      BY <3>2, <3>3 DEF MaybeSnapshot
    <3>7. QED
      BY <1>6, <3>2, <3>5, <3>6
  <2>3. QED
    BY <2>1, <2>2
<1>14. ASSUME NEW c \in Callers, LoadOpenOrders(c) PROVE Fresh
  <2> DEFINE prev == [o \in Orders |-> IF store[o] # None /\ ~store[o].done
                                      THEN store[o] ELSE None]
  <2>1. prev \in OrderTable
    BY DEF TypeOK, OrderTable, MaybeSnapshot
  <2>2. AnswerIsGenuine([op |-> "loadQuery", prev |-> prev])
    BY DEF AnswerIsGenuine, AllIsGenuine, StoreIsGenuine
  <2>3. QED
    BY <1>6, <1>14, <2>1, <2>2 DEF LoadOpenOrders
\* What the exchange answers is the truth, or None for a finished order.
<1>15. ASSUME NEW c \in Callers, AnswerOrderQuery(c) PROVE Fresh
  <2> DEFINE o == call[c].id
  <2>1. o \in Orders /\ truth[o] # None
    BY <1>3, <1>15, CallShape DEF AnswerOrderQuery, OrderQueries, AnswerIsGenuine
  <2>2. truth[o] \in Snapshot
    BY <2>1 DEF TypeOK, OrderTable, MaybeSnapshot
  <2>3. PICK r \in {truth[o], None} :
          /\ r = None => IsDone(o)
          /\ WaitFor(c, [op |-> "orderAnswer", id |-> o, reply |-> r])
    BY <1>15 DEF AnswerOrderQuery
  <2> HIDE DEF o
  <2>4. r = truth[o] \/ (r = None /\ IsDone(o))
    BY <2>3
  <2>5. Genuine(o, truth[o])
    BY <2>1, TruthIsGenuine
  <2>6. AnswerIsGenuine([op |-> "orderAnswer", id |-> o, reply |-> r])
    BY <2>1, <2>4, <2>5 DEF AnswerIsGenuine
  <2>7. QED
    BY <1>6, <2>1, <2>2, <2>3, <2>4, <2>6 DEF MaybeSnapshot
<1>16. ASSUME NEW c \in Callers, AnswerTradesQuery(c) PROVE Fresh
  <2> DEFINE o == call[c].id
  <2>1. o \in Orders /\ truth[o] # None /\ IsMexc
    BY <1>3, <1>16, CallShape DEF AnswerTradesQuery, OrderQueries, AnswerIsGenuine
  <2>2. truth[o].filled \in 0..Qty
    BY <2>1, SnapshotFields DEF TypeOK, OrderTable, MaybeSnapshot
  <2>3. PICK n \in {truth[o].filled, None} :
          /\ n = None => IsDone(o)
          /\ WaitFor(c, [op |-> "tradesAnswer", id |-> o, reply |-> n])
    BY <1>16 DEF AnswerTradesQuery
  <2> HIDE DEF o
  <2>4. n = truth[o].filled \/ (n = None /\ IsDone(o))
    BY <2>3
  <2>5. AnswerIsGenuine([op |-> "tradesAnswer", id |-> o, reply |-> n])
    BY <2>1, <2>2, <2>4 DEF AnswerIsGenuine
  <2>6. QED
    BY <1>6, <2>1, <2>2, <2>3, <2>4, <2>5
<1>17. ASSUME NEW c \in Callers, AnswerLoadQuery(c) PROVE Fresh
  <2> DEFINE prev == call[c].prev
  <2>1. PICK open \in {OpenOrders, NoOrders} :
          WaitFor(c, [op |-> "loadAnswer", prev |-> prev, open |-> open])
    BY <1>17 DEF AnswerLoadQuery
  <2>2. prev \in OrderTable /\ open \in OrderTable
    BY <1>3, <1>17, CallShape DEF AnswerLoadQuery, LoadQueries, TypeOK, OrderTable,
       MaybeSnapshot, OpenOrders, NoOrders
  <2>3. \A o \in Orders : prev[o] # None => Genuine(o, prev[o])
    BY <1>3, <1>17 DEF AnswerLoadQuery, AnswerIsGenuine
  <2>4. \A o \in Orders : open[o] # None => Genuine(o, open[o])
    BY <2>1, TruthIsGenuine DEF IsOpen, OpenOrders, NoOrders
  <2> HIDE DEF prev
  <2>5. AnswerIsGenuine([op |-> "loadAnswer", prev |-> prev, open |-> open])
    BY <2>3, <2>4 DEF AnswerIsGenuine
  <2>6. QED
    BY <1>6, <2>1, <2>2, <2>5
\* The coroutines that resume: idle, or another request for the same order.
<1>18. ASSUME NEW c \in Callers,
              PlaceReturns(c) \/ FetchOrderRest(c) \/ LoadReturns(c) \/ CallFails(c)
       PROVE  Fresh
  BY <1>6, <1>7, <1>18 DEF PlaceReturns, FetchOrderRest, LoadReturns, CallFails
<1>19. ASSUME NEW c \in Callers, MarketReturns(c) PROVE Fresh
  BY <1>3, <1>6, <1>8, <1>19, CallShape DEF MarketReturns, AnswerIsGenuine, MarketAnswers
<1>20. ASSUME NEW c \in Callers, CancelReturns(c) PROVE Fresh
  <2>1. call[c].id \in Orders /\ truth[call[c].id] # None
    BY <1>3, <1>20, CallShape DEF CancelReturns, CancelAnswers, AnswerIsGenuine
  <2>2. WaitFor(c, Idle) \/ WaitFor(c, FetchQuery(call[c].id))
    BY <1>20 DEF CancelReturns
  <2>3. QED
    BY <1>6, <1>7, <1>8, <2>1, <2>2
<1>21. ASSUME NEW c \in Callers, FetchOrderFromTrades(c) PROVE Fresh
  <2>1. call[c].id \in Orders /\ truth[call[c].id] # None
    BY <1>3, <1>21, CallShape DEF FetchOrderFromTrades, TradesAnswers, AnswerIsGenuine
  <2>2. \/ WaitFor(c, Idle)
        \/ WaitFor(c, [op |-> "orderQuery", id |-> call[c].id])
    BY <1>21 DEF FetchOrderFromTrades
  <2>3. AnswerIsGenuine([op |-> "orderQuery", id |-> call[c].id])
    BY <2>1 DEF AnswerIsGenuine
  <2>4. QED
    BY <1>6, <1>7, <2>1, <2>2, <2>3
<1>22. ASSUME NEW c \in Callers, LoadNextTrades(c) PROVE Fresh
  <2>1. /\ call[c].prev \in OrderTable
        /\ call[c].open \in OrderTable
        /\ \A p \in Orders : call[c].prev[p] # None => Genuine(p, call[c].prev[p])
        /\ \A p \in Orders : call[c].open[p] # None => Genuine(p, call[c].open[p])
    BY <1>3, <1>22, CallShape DEF LoadNextTrades, LoadAnswers, AnswerIsGenuine
  <2>2. PICK o \in Orders :
          /\ call[c].open[o] # None
          /\ \E n \in {truth[o].filled, None} :
                /\ n = None => IsDone(o)
                /\ WaitFor(c, [op |-> "loadTrades", prev |-> call[c].prev,
                               open |-> call[c].open, id |-> o, reply |-> n])
    BY <1>22 DEF LoadNextTrades
  <2>3. IsMexc /\ truth[o] # None
    BY <1>22, <2>1, <2>2 DEF LoadNextTrades, Genuine
  <2>4. truth[o].filled \in 0..Qty
    BY <2>3, SnapshotFields DEF TypeOK, OrderTable, MaybeSnapshot
  <2>5. PICK n \in {truth[o].filled, None} :
          /\ n = None => IsDone(o)
          /\ WaitFor(c, [op |-> "loadTrades", prev |-> call[c].prev,
                         open |-> call[c].open, id |-> o, reply |-> n])
    BY <2>2
  <2>6. n = truth[o].filled \/ (n = None /\ IsDone(o))
    BY <2>5
  <2>7. AnswerIsGenuine([op |-> "loadTrades", prev |-> call[c].prev,
                         open |-> call[c].open, id |-> o, reply |-> n])
    BY <2>1, <2>2, <2>3, <2>4, <2>6 DEF AnswerIsGenuine
  <2>8. QED
    BY <1>6, <2>1, <2>4, <2>5, <2>6, <2>7
<1>23. ASSUME NEW c \in Callers, LoadTradesReturn(c) PROVE Fresh
  <2> DEFINE o    == call[c].id
             prev == [call[c].prev EXCEPT ![o] = None]
             open == [call[c].open EXCEPT ![o] = None]
  <2>1. /\ call[c].prev \in OrderTable
        /\ call[c].open \in OrderTable
        /\ o \in Orders
        /\ \A p \in Orders : call[c].prev[p] # None => Genuine(p, call[c].prev[p])
        /\ \A p \in Orders : call[c].open[p] # None => Genuine(p, call[c].open[p])
    BY <1>3, <1>23, CallShape DEF LoadTradesReturn, LoadTrades, AnswerIsGenuine
  <2>2. /\ prev \in OrderTable
        /\ open \in OrderTable
        /\ \A p \in Orders : prev[p] # None => Genuine(p, prev[p])
        /\ \A p \in Orders : open[p] # None => Genuine(p, open[p])
    BY <2>1 DEF OrderTable, MaybeSnapshot
  <2>3. \/ WaitFor(c, [op |-> "loadAnswer", prev |-> prev, open |-> open])
        \/ WaitFor(c, Idle)
    BY <1>23 DEF LoadTradesReturn
  <2> HIDE DEF prev, open
  <2>4. AnswerIsGenuine([op |-> "loadAnswer", prev |-> prev, open |-> open])
    BY <2>2 DEF AnswerIsGenuine
  <2>5. QED
    BY <1>6, <1>7, <2>2, <2>3, <2>4
<1>24. ASSUME NEW o \in Orders, Fill(o) \/ Expire(o) PROVE Fresh
  BY <1>4, <1>24 DEF Fill, Expire
<1>25. ASSUME WsDrop \/ WsConnect \/ OrderHandler \/ UNCHANGED vars PROVE Fresh
  BY <1>4, <1>25 DEF WsDrop, WsConnect, OrderHandler, vars
<1>26. Fresh
  BY <1>10, <1>11, <1>12, <1>13, <1>14, <1>15, <1>16, <1>17, <1>18, <1>19, <1>20,
     <1>21, <1>22, <1>23, <1>24, <1>25
  DEF Next, Answer, Resume
<1>27. QED
  BY <1>26 DEF Fresh

-----------------------------------------------------------------------------
\* The two invariants are one inductive invariant: a trades query is only
\* well-typed because the order it asks for exists (AnswersAreGenuine).
IInv == TypeOK /\ AllIsGenuine

LEMMA InitInv == Init => IInv
<1> SUFFICES ASSUME Init PROVE IInv
  OBVIOUS
<1>1. TypeOK
  <2>1. truth \in OrderTable /\ store \in OrderTable
    BY NewOrderType DEF Init, NoOrders, OrderTable, MaybeSnapshot
  <2>2. feed \in Seq(Updates)
    BY EmptySeq DEF Init
  <2>3. call \in [Callers -> Calls]
    BY CallTypes DEF Init
  <2>4. drops \in 0..MaxDrops
    BY DEF Init
  <2>5. QED
    BY <2>1, <2>2, <2>3, <2>4 DEF Init, TypeOK
<1>2. StoreIsGenuine /\ FeedIsGenuine
  BY DEF Init, NoOrders, StoreIsGenuine, FeedIsGenuine
<1>3. AnswersAreGenuine
  BY DEF Init, AnswersAreGenuine, AnswerIsGenuine, Idle
<1>4. OpenHasRest
  BY DEF Init, OpenHasRest, IsOpen, NewOrder
<1>5. QED
  BY <1>1, <1>2, <1>3, <1>4 DEF IInv, AllIsGenuine

LEMMA NextInv == IInv /\ [Next]_vars => IInv'
<1> SUFFICES ASSUME TypeOK, AllIsGenuine, [Next]_vars PROVE TypeOK' /\ AllIsGenuine'
  BY DEF IInv
<1>1. TypeOK'
  BY TypeStep
<1>2. StoreIsGenuine'
  <2>1. \A o \in Orders : store'[o] # None => GenuineNext(o, store'[o])
    <3> TAKE o \in Orders
    <3> HAVE store'[o] # None
    <3>1. store'[o] \in Snapshot
      BY <1>1 DEF TypeOK, OrderTable, MaybeSnapshot
    <3>2. Genuine(o, store'[o])
      BY StoreStep
    <3>3. /\ exchange' = exchange
          /\ Evolves(o)
          /\ truth' \in OrderTable
      BY <1>1, Evolution DEF TypeOK
    <3>4. QED
      BY <3>1, <3>2, <3>3, GenuineStable
  <2>2. QED
    BY <2>1 DEF StoreIsGenuine, Genuine, GenuineNext, IsMexc
<1>3. FeedIsGenuine'
  BY <1>1, FeedStep DEF FeedIsGenuine, Genuine, GenuineNext, IsMexc
<1>4. AnswersAreGenuine'
  BY <1>1, CallStep DEF AnswersAreGenuine, AnswerIsGenuine, AnswerIsGenuineNext,
     Genuine, GenuineNext, IsMexc, IsDone
<1>5. OpenHasRest'
  BY RestStep
<1>6. QED
  BY <1>1, <1>2, <1>3, <1>4, <1>5 DEF AllIsGenuine

LEMMA Invariance == Spec => []IInv
BY InitInv, NextInv, PTL DEF Spec

(***************************************************************************)
(* Every variable keeps its type: in particular no writer of _orders       *)
(* stores anything but a snapshot of an order.                             *)
(***************************************************************************)
THEOREM TypeCorrect == Spec => []TypeOK
<1>1. IInv => TypeOK
  BY DEF IInv
<1>2. QED
  BY <1>1, Invariance, PTL

(***************************************************************************)
(* Store, queue and answers hold only states the orders really had, for    *)
(* any number of orders and of coroutines and any order of their steps.    *)
(***************************************************************************)
THEOREM NothingInvented == Spec => []AllIsGenuine
<1>1. IInv => AllIsGenuine
  BY DEF IInv
<1>2. QED
  BY <1>1, Invariance, PTL

\* A call is answered with None only if its order is done.
LEMMA RemovalStep ==
    ASSUME TypeOK, AllIsGenuine, [Next]_vars
    PROVE  \A o \in Orders : store[o] # None /\ store'[o] = None => IsDone(o)
<1> DEFINE Kept == \A o \in Orders : store[o] # None /\ store'[o] = None => IsDone(o)
<1> USE DEF AllIsGenuine
<1>1. ASSUME UNCHANGED store PROVE Kept
  BY <1>1
<1>2. ASSUME NEW o \in Orders, NEW s, s # None, UpdateOrder(o, s) PROVE Kept
  BY <1>2 DEF UpdateOrder, TypeOK, OrderTable
<1>3. ASSUME NEW o \in Orders, RemoveOrder(o), IsDone(o) PROVE Kept
  BY <1>3 DEF RemoveOrder, TypeOK, OrderTable
<1>4. CASE OrderHandler
  <2>1. Head(feed) \in Updates
    BY <1>4, HeadTailProperties DEF OrderHandler, TypeOK
  <2>2. Head(feed).id \in Orders /\ Head(feed).order # None
    BY <2>1 DEF Updates
  <2>3. QED
    BY <1>2, <1>4, <2>2 DEF OrderHandler
<1>5. ASSUME NEW c \in Callers, PlaceReturns(c) PROVE Kept
  <2>1. call[c].id \in Orders /\ call[c].reply # None
    BY <1>5, CallShape DEF PlaceReturns, TypeOK, PlaceAnswers
  <2>2. QED
    BY <1>2, <1>5, <2>1 DEF PlaceReturns
<1>6. ASSUME NEW c \in Callers, CancelReturns(c) PROVE Kept
  <2>1. call[c].id \in Orders
    BY <1>6, CallShape DEF CancelReturns, TypeOK, CancelAnswers
  <2>2. call[c].reply = None => IsDone(call[c].id)
    BY <1>6 DEF CancelReturns, AnswersAreGenuine, AnswerIsGenuine
  <2>3. QED
    BY <1>2, <1>3, <1>6, <2>1, <2>2 DEF CancelReturns
<1>7. ASSUME NEW c \in Callers, FetchOrderRest(c) PROVE Kept
  <2>1. call[c].id \in Orders
    BY <1>7, CallShape DEF FetchOrderRest, TypeOK, OrderAnswers
  <2>2. call[c].reply = None => IsDone(call[c].id)
    BY <1>7 DEF FetchOrderRest, AnswersAreGenuine, AnswerIsGenuine
  <2>3. CASE call[c].reply # None
    BY <1>2, <1>7, <2>1, <2>3 DEF FetchOrderRest
  <2>4. CASE call[c].reply = None
    BY <1>1, <1>3, <1>7, <2>1, <2>2, <2>4 DEF FetchOrderRest
  <2>5. QED
    BY <2>3, <2>4
<1>8. \A n \in 0..Qty : TradesToOrder(n) # None
  BY TradesToOrderType, SnapshotFields
<1>9. ASSUME NEW c \in Callers, FetchOrderFromTrades(c) PROVE Kept
  <2>1. call[c].id \in Orders /\ call[c].reply \in (0..Qty) \union {None}
    BY <1>9, CallShape DEF FetchOrderFromTrades, TypeOK, TradesAnswers
  <2>2. call[c].reply = None => IsDone(call[c].id)
    BY <1>9 DEF FetchOrderFromTrades, AnswersAreGenuine, AnswerIsGenuine
  <2>3. QED
    BY <1>1, <1>2, <1>3, <1>8, <1>9, <2>1, <2>2 DEF FetchOrderFromTrades
<1>10. ASSUME NEW c \in Callers, LoadReturns(c) PROVE Kept
  BY <1>10 DEF LoadReturns, Reloaded
<1>11. ASSUME NEW c \in Callers, LoadTradesReturn(c) PROVE Kept
  <2> DEFINE o     == call[c].id
             n     == call[c].reply
             prev  == [call[c].prev EXCEPT ![o] = None]
             open  == [call[c].open EXCEPT ![o] = None]
             kept  == IF n # None /\ n > 0 THEN TradesToOrder(n)
                      ELSE IF n # None /\ store[o] # None THEN store[o]
                      ELSE call[c].open[o]
             table == [store EXCEPT ![o] = kept]
  <2>1. o \in Orders /\ n \in (0..Qty) \union {None} /\ call[c].open[o] # None
    BY <1>11, CallShape DEF LoadTradesReturn, TypeOK, LoadTrades, AnswersAreGenuine,
       AnswerIsGenuine
  <2>2. \A p \in Orders : store[p] # None => table[p] # None
    BY <1>8, <2>1 DEF TypeOK, OrderTable
  <2>3. store' = table \/ store' = Reloaded(table, open, prev)
    BY <1>11 DEF LoadTradesReturn
  <2> HIDE DEF prev, open, table
  <2>4. QED
    BY <2>2, <2>3 DEF Reloaded
<1>12. ASSUME NEW c \in Callers,
              \/ Answer(c) \/ MarketReturns(c) \/ LoadNextTrades(c)
              \/ CallFails(c) \/ LoadOpenOrders(c)
       PROVE  Kept
  BY <1>1, <1>12 DEF Answer, AnswerOrderQuery, AnswerTradesQuery, AnswerLoadQuery,
     MarketReturns, LoadNextTrades, CallFails, LoadOpenOrders
<1>13. ASSUME NEW o \in Orders, Fill(o) \/ Expire(o) PROVE Kept
  BY <1>1, <1>13 DEF Fill, Expire
<1>14. ASSUME NEW c \in Callers, NEW o \in Orders,
              \/ PlaceLimitOrder(c, o) \/ PlaceMarketOrder(c, o)
              \/ FetchOrder(c, o) \/ CancelOrder(c, o)
       PROVE  Kept
  BY <1>1, <1>14 DEF PlaceLimitOrder, PlaceMarketOrder, FetchOrder, CancelOrder
<1>15. CASE WsDrop \/ WsConnect \/ UNCHANGED vars
  BY <1>1, <1>15 DEF WsDrop, WsConnect, vars
<1>16. QED
  BY <1>4, <1>5, <1>6, <1>7, <1>9, <1>10, <1>11, <1>12, <1>13, <1>14, <1>15
  DEF Next, Resume

(***************************************************************************)
(* remove_order never takes an open order out of the store, however the    *)
(* cancels, fetches and reloads of the coroutines interleave.              *)
(***************************************************************************)
THEOREM NoOpenOrderRemoved == Spec => RemovedOnlyWhenDone
<1>1. IInv /\ [Next]_vars
        => [\A o \in Orders : store[o] # None /\ store'[o] = None => IsDone(o)]_vars
  BY RemovalStep DEF IInv
<1>2. QED
  BY <1>1, Invariance, PTL DEF Spec, RemovedOnlyWhenDone

(***************************************************************************)
(* The store alone, as the callers of the composite read it.               *)
(***************************************************************************)
THEOREM StoreGenuine == Spec => []StoreIsGenuine
<1>1. IInv => StoreIsGenuine
  BY DEF IInv, AllIsGenuine
<1>2. QED
  BY <1>1, Invariance, PTL

(***************************************************************************)
(* Away from MEXC is_order_done never lies: an order the store calls done  *)
(* is done on the exchange.  The answers rebuilt from the trades of MEXC   *)
(* are the only way to a finished order that is still open.                *)
(***************************************************************************)
THEOREM DoneIsDoneElsewhere == Spec => [](~IsMexc => DoneMeansDone)
<1>1. IInv => (~IsMexc => DoneMeansDone)
  BY DEF IInv, AllIsGenuine, StoreIsGenuine, Genuine, DoneMeansDone, IsDone
<1>2. QED
  BY <1>1, Invariance, PTL

-----------------------------------------------------------------------------
(***************************************************************************)
(* What the position manager assumes of the store.  PositionManager has an *)
(* exchange of its own and lets sync_with_exchange read any state of       *)
(* Had(o); here the two exchanges are one.  Nothing else of the manager    *)
(* plays a part in Had.                                                    *)
(***************************************************************************)
Manager == INSTANCE PositionManager
           WITH Ops <- {}, Holding <- 0, Faults <- {"notFound"},
                side <- truth, balance <- 0, last <- None, pos <- None,
                counted <- truth, base <- None

\* What get_active_order finds in the store is what the manager reckons with.
ManagerReads ==
    \A o \in Orders : store[o] # None => truth[o] # None /\ store[o] \in Manager!Had(o)

(***************************************************************************)
(* The store keeps the contract the position manager relies on: whatever   *)
(* the websocket, the reloads and the calls of the coroutines did to an    *)
(* order of the store, get_active_order hands out a state of Had.          *)
(***************************************************************************)
THEOREM StoreServesTheManager == Spec => []ManagerReads
<1>1. IInv => ManagerReads
  <2> SUFFICES ASSUME IInv, NEW o \in Orders, store[o] # None
               PROVE  truth[o] # None /\ store[o] \in Manager!Had(o)
    BY DEF ManagerReads
  <2>1. Genuine(o, store[o])
    BY DEF IInv, AllIsGenuine, StoreIsGenuine
  <2>2. store[o] \in Manager!Snapshot
    BY DEF IInv, TypeOK, OrderTable, MaybeSnapshot, Snapshot, Manager!Snapshot
  <2>3. QED
    BY <2>1, <2>2 DEF Genuine, IsMexc, Manager!Had, Manager!IsMexc
<1>2. QED
  BY <1>1, Invariance, PTL

\* What was stored once is in the store or done.
Known(o) == store[o] # None \/ IsDone(o)

(***************************************************************************)
(* get_active_order falls back to a request only for a finished order      *)
(* (SyncFromExchange of the manager): an order that was in the store once  *)
(* is there for good, unless it is done.                                   *)
(***************************************************************************)
THEOREM MissingMeansDone ==
    ASSUME NEW o \in Orders
    PROVE  Spec => [](store[o] # None => [](store[o] = None => IsDone(o)))
<1>1. store[o] # None => Known(o)
  BY DEF Known
<1>2. Known(o) => (store[o] = None => IsDone(o))
  BY DEF Known
<1>3. ASSUME IInv, Known(o), [Next]_vars PROVE Known(o)'
  <2>1. store[o] # None /\ store'[o] = None => IsDone(o)
    BY <1>3, RemovalStep DEF IInv
  <2>2. Evolves(o)
    BY <1>3, Evolution DEF IInv
  <2>3. QED
    BY <1>3, <2>1, <2>2 DEF Known, IsDone, Evolves
<1>4. QED
  BY <1>1, <1>2, <1>3, Invariance, PTL DEF Spec

(***************************************************************************)
(* The answers of fetch_order.  f is the state of order o on the exchange  *)
(* when the request was sent: from then on nothing older is answered.      *)
(***************************************************************************)
\* Nothing that is true of o, or will be, is older than f.
NotBefore(o, f) ==
    /\ truth[o] # None
    /\ f.filled <= truth[o].filled
    /\ f.done => truth[o] = f

\* Nor is the answer that call k holds.  On MEXC the order itself is asked for
\* only when it had no trades.
FreshCall(k, o, f) ==
    k.op \in {"orderQuery", "orderAnswer", "tradesAnswer"} /\ k.id = o =>
        /\ IsMexc /\ k.op \in {"orderQuery", "orderAnswer"} => f.filled = 0
        /\ k.op = "orderAnswer" /\ k.reply # None
              => f.filled <= k.reply.filled /\ (f.done => k.reply = f)
        /\ k.op = "tradesAnswer" /\ k.reply # None => f.filled <= k.reply

Fresh(c, o, f) == NotBefore(o, f) /\ FreshCall(call[c], o, f)

\* Coroutine c is about to return from its fetch of o, and what it returns:
\* fetch_order_from_trades has no order for its caller when it has to ask for
\* the order itself.
FetchReturns(c, o) ==
    /\ call[c].op \in {"orderAnswer", "tradesAnswer"} /\ call[c].id = o
    /\ ~(call[c].op = "tradesAnswer" /\ call[c].reply = 0 /\ store[o] = None)

Fetched(c) ==
    CASE call[c].op = "orderAnswer" -> IF IsMexc THEN None ELSE call[c].reply
      [] call[c].op = "tradesAnswer" /\ call[c].reply = None -> None
      [] call[c].op = "tradesAnswer" /\ call[c].reply = 0 -> store[call[c].id]
      [] OTHER -> TradesToOrder(call[c].reply)

\* The manager reckons with what the fetch returns.
ManagerIsServed(c, o, f) ==
    FetchReturns(c, o) =>
        IF Fetched(c) = None THEN Manager!Unknown(o, f) ELSE Fetched(c) \in Manager!Since(o, f)

LEMMA FreshServes ==
    ASSUME IInv, NEW c \in Callers, NEW o \in Orders, NEW f \in Snapshot, Fresh(c, o, f)
    PROVE  ManagerIsServed(c, o, f)
<1> SUFFICES ASSUME FetchReturns(c, o)
             PROVE  IF Fetched(c) = None THEN Manager!Unknown(o, f)
                                         ELSE Fetched(c) \in Manager!Since(o, f)
  BY DEF ManagerIsServed
<1> DEFINE k == call[c]
<1>1. /\ k \in Calls /\ AnswerIsGenuine(k)
      /\ store[o] \in MaybeSnapshot
      /\ store[o] # None => Genuine(o, store[o])
      /\ f.filled \in 0..Qty /\ truth[o] # None /\ truth[o] \in Snapshot
  BY SnapshotFields DEF IInv, TypeOK, AllIsGenuine, AnswersAreGenuine, StoreIsGenuine,
     OrderTable, MaybeSnapshot, Fresh, NotBefore
<1>2. ASSUME NEW s \in Snapshot, Genuine(o, s), f.filled <= s.filled,
             f.done => s.done \/ (IsMexc /\ s.filled = 0)
      PROVE  s # None /\ s \in Manager!Since(o, f)
  BY <1>2, SnapshotFields
  DEF Genuine, IsMexc, Snapshot, Manager!Since, Manager!Had, Manager!IsMexc, Manager!Snapshot
<1>3. IsDone(o) \/ (IsMexc /\ f.filled = 0) => Manager!Unknown(o, f)
  BY DEF IsDone, IsMexc, Manager!Unknown, Manager!IsDone, Manager!IsMexc
<1>4. CASE k.op = "orderAnswer"
  <2>1. k.reply \in MaybeSnapshot
    BY <1>1, <1>4, CallShape DEF OrderAnswers
  <2>2. CASE IsMexc
    BY <1>3, <1>4, <2>2 DEF Fetched, Fresh, FreshCall, FetchReturns
  <2>3. CASE ~IsMexc /\ k.reply = None
    BY <1>1, <1>3, <1>4, <2>3 DEF Fetched, FetchReturns, AnswerIsGenuine
  <2>4. CASE ~IsMexc /\ k.reply # None
    <3>1. k.reply \in Snapshot /\ Genuine(o, k.reply)
      BY <1>1, <1>4, <2>1, <2>4 DEF AnswerIsGenuine, FetchReturns, MaybeSnapshot
    <3>2. f.filled <= k.reply.filled /\ (f.done => k.reply.done)
      BY <1>4, <2>4 DEF Fresh, FreshCall, FetchReturns
    <3>3. QED
      BY <1>2, <1>4, <2>4, <3>1, <3>2 DEF Fetched
  <2>5. QED
    BY <2>2, <2>3, <2>4
<1>5. CASE k.op = "tradesAnswer"
  <2>1. k.reply \in (0..Qty) \union {None} /\ k.id = o /\ IsMexc
    BY <1>1, <1>5, CallShape DEF TradesAnswers, FetchReturns, AnswerIsGenuine
  <2>2. CASE k.reply = None
    BY <1>1, <1>3, <1>5, <2>1, <2>2 DEF Fetched, AnswerIsGenuine
  <2>3. CASE k.reply # None /\ k.reply # 0
    <3> DEFINE s == TradesToOrder(k.reply)
    <3>1. k.reply \in 0..Qty /\ k.reply > 0 /\ k.reply <= truth[o].filled
      BY <1>1, <1>5, <2>1, <2>3 DEF AnswerIsGenuine
    <3>2. s \in Snapshot /\ s.done /\ s.filled = k.reply
      BY <3>1, TradesToOrderType DEF TradesToOrder
    <3>3. Genuine(o, s)
      BY <1>1, <2>1, <3>1, <3>2 DEF Genuine
    <3>4. f.filled <= s.filled
      BY <1>5, <2>1, <2>3, <3>2 DEF Fresh, FreshCall
    <3>5. Fetched(c) = s
      BY <1>5, <2>3 DEF Fetched
    <3> HIDE DEF s
    <3>6. QED
      BY <1>2, <3>2, <3>3, <3>4, <3>5
  <2>4. CASE k.reply = 0
    <3>1. store[o] \in Snapshot /\ Genuine(o, store[o]) /\ Fetched(c) = store[o]
      BY <1>1, <1>5, <2>1, <2>4, NoneAssumption DEF FetchReturns, Fetched, MaybeSnapshot
    <3>2. f.filled = 0
      BY <1>1, <1>5, <2>1, <2>4, NoneAssumption DEF Fresh, FreshCall
    <3>3. f.filled <= store[o].filled /\ (f.done => store[o].filled = 0)
      BY <3>1, <3>2, SnapshotFields DEF Fresh, NotBefore, Genuine
    <3>4. QED
      BY <1>2, <2>1, <3>1, <3>3
  <2>5. QED
    BY <2>2, <2>3, <2>4
<1>6. QED
  BY <1>4, <1>5 DEF FetchReturns

\* A coroutine never comes to hold an answer that is older than f.
LEMMA FreshStep ==
    ASSUME IInv, NEW c \in Callers, NEW o \in Orders, NEW f \in Snapshot, Fresh(c, o, f),
           [Next]_vars
    PROVE  Fresh(c, o, f)'
<1> USE DEF FreshCall
<1>1. exchange' = exchange /\ Evolves(o)
  BY Evolution DEF IInv
<1>2. NotBefore(o, f)'
  <2>1. truth' \in OrderTable
    BY TypeStep DEF IInv, TypeOK
  <2>2. truth[o] \in Snapshot /\ (truth'[o] # None => truth'[o] \in Snapshot)
    BY <2>1 DEF IInv, TypeOK, OrderTable, MaybeSnapshot, Fresh, NotBefore
  <2>3. QED
    BY <1>1, <2>2, SnapshotFields DEF Fresh, NotBefore, Evolves
<1>3. ASSUME FreshCall(call'[c], o, f) PROVE Fresh(c, o, f)'
  BY <1>1, <1>2, <1>3 DEF Fresh, IsMexc
<1>4. ASSUME UNCHANGED call PROVE FreshCall(call'[c], o, f)
  BY <1>4 DEF Fresh
<1>5. ASSUME NEW d \in Callers, NEW k, WaitFor(d, k), d = c => FreshCall(k, o, f)
      PROVE  FreshCall(call'[c], o, f)
  <2>1. call \in [Callers -> Calls]
    BY DEF IInv, TypeOK
  <2>2. call'[c] = IF d = c THEN k ELSE call[c]
    BY <1>5, <2>1 DEF WaitFor
  <2>3. QED
    BY <1>5, <2>2 DEF Fresh
<1>6. ASSUME NEW k, k.op \notin {"orderQuery", "orderAnswer", "tradesAnswer"}
      PROVE  FreshCall(k, o, f)
  BY <1>6
<1>7. ASSUME NEW p PROVE FreshCall(FetchQuery(p), o, f)
  BY DEF FetchQuery
<1> HIDE DEF FreshCall
<1>8. FreshCall(Idle, o, f)
  BY <1>6 DEF Idle
<1>9. ASSUME NEW d \in Callers, AnswerOrderQuery(d) PROVE FreshCall(call'[c], o, f)
  <2> DEFINE p == call[d].id
  <2>1. PICK s \in {truth[p], None} : WaitFor(d, [op |-> "orderAnswer", id |-> p, reply |-> s])
    BY <1>9 DEF AnswerOrderQuery
  <2>2. d = c => FreshCall([op |-> "orderAnswer", id |-> p, reply |-> s], o, f)
    BY <1>9, <2>1 DEF AnswerOrderQuery, Fresh, NotBefore, FreshCall
  <2> HIDE DEF p
  <2>3. QED
    BY <1>5, <2>1, <2>2
<1>10. ASSUME NEW d \in Callers, AnswerTradesQuery(d) PROVE FreshCall(call'[c], o, f)
  <2> DEFINE p == call[d].id
  <2>1. PICK n \in {truth[p].filled, None} :
          WaitFor(d, [op |-> "tradesAnswer", id |-> p, reply |-> n])
    BY <1>10 DEF AnswerTradesQuery
  <2>2. d = c => FreshCall([op |-> "tradesAnswer", id |-> p, reply |-> n], o, f)
    BY <1>10, <2>1 DEF Fresh, NotBefore, FreshCall
  <2> HIDE DEF p
  <2>3. QED
    BY <1>5, <2>1, <2>2
<1>11. ASSUME NEW d \in Callers, FetchOrderFromTrades(d) PROVE FreshCall(call'[c], o, f)
  <2> DEFINE again == [op |-> "orderQuery", id |-> call[d].id]
  <2>1. WaitFor(d, Idle) \/ (call[d].reply = 0 /\ WaitFor(d, again))
    BY <1>11 DEF FetchOrderFromTrades
  <2>2. d = c /\ call[d].reply = 0 => FreshCall(again, o, f)
    BY <1>11, NoneAssumption, SnapshotFields DEF FetchOrderFromTrades, Fresh, FreshCall
  <2> HIDE DEF again
  <2>3. QED
    BY <1>5, <1>8, <2>1, <2>2
<1>12. ASSUME NEW d \in Callers,
              \/ PlaceReturns(d) \/ FetchOrderRest(d) \/ LoadReturns(d) \/ CallFails(d)
              \/ CancelReturns(d) \/ MarketReturns(d)
       PROVE  FreshCall(call'[c], o, f)
  <2>1. WaitFor(d, Idle) \/ WaitFor(d, FetchQuery(call[d].id))
    BY <1>12 DEF PlaceReturns, FetchOrderRest, LoadReturns, CallFails, CancelReturns,
       MarketReturns
  <2>2. QED
    BY <1>5, <1>7, <1>8, <2>1
<1>13. ASSUME NEW d \in Callers, NEW p \in Orders, FetchOrder(d, p)
       PROVE  FreshCall(call'[c], o, f)
  BY <1>5, <1>7, <1>13 DEF FetchOrder
<1>14. ASSUME NEW d \in Callers, NEW p \in Orders,
              PlaceLimitOrder(d, p) \/ PlaceMarketOrder(d, p) \/ CancelOrder(d, p)
       PROVE  FreshCall(call'[c], o, f)
  <2> DEFINE none == [op |-> "orderAnswer", id |-> p, reply |-> None]
  <2>1. ASSUME NEW k, WaitFor(d, k), k.op \in {"placed", "marketPlaced", "canceled"}
        PROVE  FreshCall(call'[c], o, f)
    BY <1>5, <1>6, <2>1
  <2>2. ASSUME ~IsMexc, WaitFor(d, none) PROVE FreshCall(call'[c], o, f)
    <3>1. FreshCall(none, o, f)
      BY <2>2 DEF FreshCall
    <3> HIDE DEF none
    <3>2. QED
      BY <1>5, <2>2, <3>1
  <2>3. CASE PlaceLimitOrder(d, p)
    BY <2>1, <2>3 DEF PlaceLimitOrder
  <2>4. CASE PlaceMarketOrder(d, p)
    BY <2>1, <2>4 DEF PlaceMarketOrder
  <2>5. CASE CancelOrder(d, p)
    BY <2>1, <2>2, <2>5 DEF CancelOrder
  <2>6. QED
    BY <1>14, <2>3, <2>4, <2>5
<1>15. ASSUME NEW d \in Callers,
              \/ LoadOpenOrders(d) \/ AnswerLoadQuery(d) \/ LoadNextTrades(d)
              \/ LoadTradesReturn(d)
       PROVE  FreshCall(call'[c], o, f)
  <2>1. ASSUME NEW k, WaitFor(d, k), k.op \in {"loadQuery", "loadAnswer", "loadTrades", "idle"}
        PROVE  FreshCall(call'[c], o, f)
    BY <1>5, <1>6, <2>1
  <2>2. CASE LoadOpenOrders(d)
    BY <2>1, <2>2 DEF LoadOpenOrders
  <2>3. CASE AnswerLoadQuery(d)
    BY <2>1, <2>3 DEF AnswerLoadQuery
  <2>4. CASE LoadNextTrades(d)
    BY <2>1, <2>4 DEF LoadNextTrades
  <2>5. CASE LoadTradesReturn(d)
    BY <2>1, <2>5 DEF LoadTradesReturn, Idle
  <2>6. QED
    BY <1>15, <2>2, <2>3, <2>4, <2>5
<1>16. ASSUME NEW p \in Orders, Fill(p) \/ Expire(p) PROVE FreshCall(call'[c], o, f)
  BY <1>4, <1>16 DEF Fill, Expire
<1>17. CASE WsDrop \/ WsConnect \/ OrderHandler \/ UNCHANGED vars
  BY <1>3, <1>4, <1>17 DEF WsDrop, WsConnect, OrderHandler, vars
<1>18. QED
  BY <1>3, <1>9, <1>10, <1>11, <1>12, <1>13, <1>14, <1>15, <1>16, <1>17
  DEF Next, Answer, Resume

(***************************************************************************)
(* From the moment a coroutine sends the request of fetch_order for an     *)
(* order in state f, what it gets is what the position manager reckons     *)
(* with (Since, Unknown): no fill that was there is missing, an order that *)
(* was done comes back done (on MEXC, if it traded), and nothing comes     *)
(* back only of a finished order or, on MEXC, of one without trades.       *)
(***************************************************************************)
THEOREM FetchServesTheManager ==
    ASSUME NEW c \in Callers, NEW o \in Orders, NEW f \in Snapshot
    PROVE  Spec => [](call[c] = FetchQuery(o) /\ truth[o] = f => []ManagerIsServed(c, o, f))
<1>1. IInv /\ call[c] = FetchQuery(o) /\ truth[o] = f => Fresh(c, o, f)
  BY SnapshotFields DEF Fresh, NotBefore, FreshCall, FetchQuery
<1>2. IInv /\ Fresh(c, o, f) /\ [Next]_vars => Fresh(c, o, f)'
  BY FreshStep
<1>3. IInv /\ Fresh(c, o, f) => ManagerIsServed(c, o, f)
  BY FreshServes
<1>4. QED
  BY <1>1, <1>2, <1>3, Invariance, PTL DEF Spec
=============================================================================
