----------------------- MODULE PositionManagerProofs -----------------------
(***************************************************************************)
(* Proofs about PositionManager, for every number of orders, quantity,     *)
(* holding, exchange, fault and operation: type correctness and the ledger *)
(* of the position for every number of coroutines; that no fill is counted *)
(* twice when only one coroutine uses the manager; and that none is missed *)
(* either as long as no answer is lost.                                    *)
(***************************************************************************)
EXTENDS PositionManager, FiniteSetTheorems, TLAPS

USE QtyAssumption, HoldingAssumption, NoneAssumption

HasOrder(k) ==
    k.op \in {"placed", "marketPlaced", "canceled", "cancelFetch", "syncFetch"}

HasReply(k) == k.op \in {"placed", "marketPlaced", "canceled"}

\* The exchange: what exists has a side and, while it is open, something left
\* to fill.
ExchangeOK ==
    /\ exchange \in Exchanges
    /\ truth \in [Orders -> Snapshot \union {None}]
    /\ side \in [Orders -> MaybeSide]
    /\ balance \in Nat
    /\ \A o \in Orders : truth[o] # None => side[o] \in Sides
    /\ \A o \in Orders : IsOpen(o) => truth[o].filled < Qty

\* The manager: the tracked order exists, a quantity on the ledger has a sign,
\* and the ledger balances.
PositionOK ==
    /\ last \in [id : Orders, filled : 0..Qty] \union {None}
    /\ pos \in Positions
    /\ counted \in [Orders -> Nat]
    /\ base \in Int \union {None}
    /\ last # None => truth[last.id] # None
    /\ base # None /\ pos.qty > 0 => pos.side # None
    /\ Ledger

\* The coroutines: the orders they wait for exist.
CallsOK ==
    /\ call \in [Callers -> Calls]
    /\ \A c \in Callers : HasOrder(call[c]) => truth[call[c].id] # None

IInv == ExchangeOK /\ PositionOK /\ CallsOK

-----------------------------------------------------------------------------
(* The operators. *)

LEMMA NewOrderType == NewOrder \in Snapshot
BY DEF NewOrder, Snapshot

LEMMA SnapshotFields ==
    ASSUME NEW s \in Snapshot
    PROVE  s.done \in BOOLEAN /\ s.filled \in 0..Qty /\ s # None
BY DEF Snapshot

LEMMA SidesAreNotNone == "BUY" # None /\ "SELL" # None
BY DEF Sides

LEMMA LimitOp == LimitPlaced \in {"placed", "marketPlaced"}
BY DEF LimitPlaced

\* The shape of a call follows from its op.
LEMMA CallShape ==
    ASSUME NEW k \in Calls
    PROVE  /\ HasOrder(k) => k.id \in Orders
           /\ HasReply(k) => k.reply \in Snapshot
           /\ k.op \in {"canceled", "cancelFetch"} => k.then \in MaybeSide
           /\ k.op \in {"cancelFetch", "syncFetch"} => k.from \in Snapshot
           /\ k.op = "reprice" => k.then \in Sides
BY DEF Calls, HasOrder, HasReply, Idle

\* Every record the actions build for a call is one.
LEMMA CallTypes ==
    /\ Idle \in Calls
    /\ [op |-> "rejected"] \in Calls
    /\ \A op \in {"placed", "marketPlaced"}, o \in Orders, s \in Snapshot :
          [op |-> op, id |-> o, reply |-> s] \in Calls
    /\ \A s \in Sides : [op |-> "reprice", then |-> s] \in Calls
    /\ \A o \in Orders, s \in Snapshot : [op |-> "syncFetch", id |-> o, from |-> s] \in Calls
    /\ \A o \in Orders, s \in Snapshot, t \in MaybeSide :
          /\ [op |-> "canceled", id |-> o, reply |-> s, then |-> t] \in Calls
          /\ [op |-> "cancelFetch", id |-> o, from |-> s, then |-> t] \in Calls
BY DEF Calls, Idle

\* Position q is p after d more of side s was filled.
MovedBy(p, q, s, d) ==
    /\ q \in Positions
    /\ q.filled = [p.filled EXCEPT ![s] = @ + d]
    /\ (p.qty > 0 => p.side # None) => (q.qty > 0 => q.side # None)
    /\ (p.qty > 0 => p.side # None) =>
          Signed(q) = Signed(p) + (IF s = "BUY" THEN d ELSE 0 - d)

\* PositionData.update keeps a position a position and moves its signed
\* quantity, and its filled_amount, by exactly the new fill.
LEMMA UpdateIsExact ==
    ASSUME NEW p \in Positions, NEW s \in Sides, NEW d \in Nat
    PROVE  MovedBy(p, UpdatePosition(p, s, d), s, d)
<1> DEFINE filled == [p.filled EXCEPT ![s] = @ + d]
<1>1. /\ p.qty \in Nat /\ p.side \in MaybeSide /\ p.filled \in [Sides -> Nat]
      /\ p = [qty |-> p.qty, side |-> p.side, filled |-> p.filled]
  BY DEF Positions
<1>2. filled \in [Sides -> Nat]
  BY <1>1
<1>3. s # None /\ s \in MaybeSide /\ None \in MaybeSide /\ s \in {"BUY", "SELL"}
  BY SidesAreNotNone DEF MaybeSide, Sides
<1>4. p.side \in {"BUY", "SELL", None}
  BY <1>1 DEF MaybeSide, Sides
<1> HIDE DEF filled
<1>5. CASE d = 0
  <2>1. UpdatePosition(p, s, d) = [p EXCEPT !.filled = filled]
    BY <1>5 DEF UpdatePosition, filled
  <2>2. [p EXCEPT !.filled = filled] = [qty |-> p.qty, side |-> p.side, filled |-> filled]
    BY <1>1
  <2>3. QED
    BY <1>1, <1>2, <1>5, <2>1, <2>2 DEF MovedBy, Positions, Signed, filled
<1>6. CASE d > 0 /\ (p.qty = 0 \/ p.side = s)
  <2>1. UpdatePosition(p, s, d) = [qty |-> p.qty + d, side |-> s, filled |-> filled]
    BY <1>1, <1>6 DEF UpdatePosition, filled
  <2>2. QED
    BY <1>1, <1>2, <1>3, <1>6, <2>1, SidesAreNotNone DEF MovedBy, Positions, Signed, filled
<1>7. CASE d > 0 /\ p.qty > 0 /\ p.side # s /\ d < p.qty
  <2>1. UpdatePosition(p, s, d) = [qty |-> p.qty - d, side |-> p.side, filled |-> filled]
    BY <1>1, <1>7 DEF UpdatePosition, filled
  <2>2. QED
    BY <1>1, <1>2, <1>3, <1>4, <1>7, <2>1, SidesAreNotNone DEF MovedBy, Positions, Signed, filled
<1>8. CASE d > 0 /\ p.qty > 0 /\ p.side # s /\ d = p.qty
  <2>1. UpdatePosition(p, s, d) = [qty |-> 0, side |-> None, filled |-> filled]
    BY <1>1, <1>8 DEF UpdatePosition, filled
  <2>2. QED
    BY <1>1, <1>2, <1>3, <1>4, <1>8, <2>1, SidesAreNotNone DEF MovedBy, Positions, Signed, filled
<1>9. CASE d > 0 /\ p.qty > 0 /\ p.side # s /\ d > p.qty
  <2>1. UpdatePosition(p, s, d) = [qty |-> d - p.qty, side |-> s, filled |-> filled]
    BY <1>1, <1>9 DEF UpdatePosition, filled
  <2>2. QED
    BY <1>1, <1>2, <1>3, <1>4, <1>9, <2>1, SidesAreNotNone DEF MovedBy, Positions, Signed, filled
<1>10. QED
  BY <1>1, <1>5, <1>6, <1>7, <1>8, <1>9

\* Bought minus sold moves by the same amount.
LEMMA NetIsExact ==
    ASSUME NEW f \in [Sides -> Nat], NEW s \in Sides, NEW d \in Nat
    PROVE  LET g == [f EXCEPT ![s] = @ + d]
           IN  g["BUY"] - g["SELL"]
                  = f["BUY"] - f["SELL"] + (IF s = "BUY" THEN d ELSE 0 - d)
BY DEF Sides

-----------------------------------------------------------------------------
(* What the parts of an action do to the parts of the invariant. *)

\* No action makes an order disappear.
OrdersStay == \A o \in Orders : truth[o] # None => truth'[o] # None

LEMMA PositionKept ==
    ASSUME PositionOK, OrdersStay, UNCHANGED <<last, pos, counted, base>>
    PROVE  PositionOK'
BY DEF PositionOK, OrdersStay, Ledger, Signed

LEMMA CallsKept ==
    ASSUME CallsOK, OrdersStay, UNCHANGED call
    PROVE  CallsOK'
<1>1. \A c \in Callers : HasOrder(call[c]) => call[c].id \in Orders
  BY CallShape DEF CallsOK
<1>2. QED
  BY <1>1 DEF CallsOK, OrdersStay, HasOrder

LEMMA WaitStep ==
    ASSUME CallsOK, OrdersStay, NEW c \in Callers, NEW k \in Calls, WaitFor(c, k),
           HasOrder(k) => truth'[k.id] # None
    PROVE  CallsOK'
<1>1. call' \in [Callers -> Calls]
  BY DEF CallsOK, WaitFor
<1>2. ASSUME NEW d \in Callers, HasOrder(call'[d]) PROVE truth'[call'[d].id] # None
  <2>1. CASE d = c
    BY <1>2, <2>1 DEF CallsOK, WaitFor
  <2>2. CASE d # c
    <3>1. call'[d] = call[d] /\ call[d] \in Calls
      BY <2>2 DEF CallsOK, WaitFor
    <3>2. call[d].id \in Orders /\ truth[call[d].id] # None
      BY <1>2, <3>1, CallShape DEF CallsOK
    <3>3. QED
      BY <3>1, <3>2 DEF OrdersStay
  <2>3. QED
    BY <2>1, <2>2
<1>3. QED
  BY <1>1, <1>2 DEF CallsOK, HasOrder

LEMMA ExchangeKept ==
    ASSUME ExchangeOK, UNCHANGED env
    PROVE  ExchangeOK' /\ OrdersStay
BY DEF ExchangeOK, OrdersStay, env, IsOpen

\* What is newly filled is never negative, so that the ledger moves by it.
LEMMA CountStep ==
    ASSUME ExchangeOK, PositionOK, NEW o \in Orders, truth[o] # None,
           NEW s \in Snapshot, NEW d \in Nat, Count(o, s, d),
           UNCHANGED <<base, truth>>
    PROVE  PositionOK'
<1>1. side[o] \in Sides /\ pos \in Positions /\ pos.filled \in [Sides -> Nat]
  BY DEF ExchangeOK, PositionOK, Positions
<1>2. /\ pos' \in Positions
      /\ pos'.filled = [pos.filled EXCEPT ![side[o]] = @ + d]
      /\ (pos.qty > 0 => pos.side # None) => (pos'.qty > 0 => pos'.side # None)
      /\ (pos.qty > 0 => pos.side # None) =>
            Signed(pos') = Signed(pos) + (IF side[o] = "BUY" THEN d ELSE 0 - d)
  <2>1. pos' = UpdatePosition(pos, side[o], d)
    BY DEF Count
  <2>2. MovedBy(pos, pos', side[o], d)
    BY <1>1, <2>1, UpdateIsExact
  <2>3. QED
    BY <2>2 DEF MovedBy
<1>3. last' \in [id : Orders, filled : 0..Qty] \union {None}
      /\ (last' # None => truth'[last'.id] # None)
  BY SnapshotFields DEF Count
<1>4. counted' \in [Orders -> Nat]
  BY DEF Count, PositionOK
<1>5. base' # None /\ pos'.qty > 0 => pos'.side # None
  BY <1>2 DEF PositionOK
<1>6. ASSUME base' # None
      PROVE  Signed(pos') = base' + (pos'.filled["BUY"] - pos'.filled["SELL"])
  <2>1. pos'.filled["BUY"] - pos'.filled["SELL"]
          = pos.filled["BUY"] - pos.filled["SELL"] + (IF side[o] = "BUY" THEN d ELSE 0 - d)
    BY <1>1, <1>2, NetIsExact
  <2>2. Signed(pos) = base + (pos.filled["BUY"] - pos.filled["SELL"])
    BY <1>6 DEF PositionOK, Ledger
  <2>3. Signed(pos') = Signed(pos) + (IF side[o] = "BUY" THEN d ELSE 0 - d)
    BY <1>2, <1>6 DEF PositionOK
  <2>4. base \in Int /\ pos.filled["BUY"] \in Int /\ pos.filled["SELL"] \in Int
    BY <1>1, <1>6 DEF PositionOK, Sides
  <2>5. QED
    BY <2>1, <2>2, <2>3, <2>4
<1>7. Ledger'
  BY <1>6 DEF Ledger, Signed
<1>8. QED
  BY <1>2, <1>3, <1>4, <1>5, <1>7 DEF PositionOK

LEMMA TrackStep ==
    ASSUME ExchangeOK, PositionOK, NEW o \in Orders, truth[o] # None,
           NEW s \in Snapshot, Track(o, s), UNCHANGED truth
    PROVE  PositionOK'
<1>1. CASE LastFilled > s.filled
  BY <1>1, PositionKept DEF Track, OrdersStay
<1>2. CASE ~(LastFilled > s.filled)
  <2>1. LastFilled \in Nat /\ s.filled \in Nat
    BY SnapshotFields DEF LastFilled, PositionOK
  <2>2. s.filled - LastFilled \in Nat
    BY <1>2, <2>1
  <2>3. QED
    BY <1>2, <2>2, CountStep DEF Track
<1>3. QED
  BY <1>1, <1>2

LEMMA TrackNoneStep ==
    ASSUME PositionOK, TrackNone, UNCHANGED truth
    PROVE  PositionOK'
BY DEF PositionOK, TrackNone, Ledger, Signed

\* An order is accepted in some state; no more than is available is taken.
LEMMA SendPicks ==
    ASSUME ExchangeOK, NEW c \in Callers, NEW o \in Orders, NEW s \in Sides,
           NEW op \in {"placed", "marketPlaced"}, Send(c, o, s, op)
    PROVE  \E a \in Accepted, k \in Calls :
              /\ truth' = [truth EXCEPT ![o] = a] /\ truth'[o] = a /\ a \in Snapshot
              /\ a # None /\ balance' = balance - Taken(s, a)
              /\ WaitFor(c, k) /\ k.op = op /\ k.id = o /\ k.reply = a
<1>1. PICK a \in Accepted : /\ truth' = [truth EXCEPT ![o] = a]
                           /\ balance' = balance - Taken(s, a)
                           /\ WaitFor(c, [op |-> op, id |-> o, reply |-> a])
  BY DEF Send
<1>2. a \in Snapshot /\ truth'[o] = a
  BY <1>1 DEF Accepted, ExchangeOK
<1>3. a # None
  BY <1>2, SnapshotFields
<1> DEFINE k == [op |-> op, id |-> o, reply |-> a]
<1>4. k \in Calls /\ WaitFor(c, k) /\ k.op = op /\ k.id = o /\ k.reply = a
  BY <1>1, <1>2, CallTypes
<1> HIDE DEF k
<1>5. QED
  BY <1>1, <1>2, <1>3, <1>4

\* An order placed or seen finished keeps the exchange in order.
LEMMA SendStep ==
    ASSUME ExchangeOK, NEW c \in Callers, NEW o \in Orders, NEW s \in Sides,
           NEW op \in {"placed", "marketPlaced"}, Send(c, o, s, op)
    PROVE  ExchangeOK' /\ OrdersStay /\ truth'[o] # None
<1>1. PICK a \in Accepted : /\ truth' = [truth EXCEPT ![o] = a] /\ truth'[o] = a
                           /\ a \in Snapshot /\ a # None /\ balance' = balance - Taken(s, a)
  BY SendPicks
<1>2. truth' \in [Orders -> Snapshot \union {None}] /\ OrdersStay
  BY <1>1 DEF Send, ExchangeOK, OrdersStay
<1>3. side' \in [Orders -> MaybeSide]
  BY DEF Send, ExchangeOK, MaybeSide
<1>4. balance' \in Nat
  <2>1. a.filled \in Nat /\ a.filled <= Qty /\ balance \in Nat
    BY <1>1, SnapshotFields DEF ExchangeOK
  <2>2. IsFutures \/ s = "BUY" \/ (s = "SELL" /\ balance >= Qty)
    BY DEF Send, Sides
  <2>3. CASE IsFutures
    BY <1>1, <2>1, <2>3 DEF Taken
  <2>4. CASE ~IsFutures /\ s = "BUY"
    <3>1. Taken(s, a) = 0 - a.filled
      BY <2>4 DEF Taken
    <3>2. QED
      BY <1>1, <2>1, <3>1
  <2>5. CASE ~IsFutures /\ s = "SELL" /\ balance >= Qty
    <3>1. Taken(s, a) = IF a.done THEN a.filled ELSE Qty
      BY <2>5 DEF Taken
    <3>2. QED
      BY <1>1, <2>1, <2>5, <3>1
  <2>6. QED
    BY <2>2, <2>3, <2>4, <2>5
<1>5. \A p \in Orders : truth'[p] # None => side'[p] \in Sides
  BY <1>1 DEF Send, ExchangeOK
<1>6. \A p \in Orders : truth'[p] # None /\ ~truth'[p].done => truth'[p].filled < Qty
  <2>1. ~a.done => a.filled < Qty
    BY <1>1, SnapshotFields DEF Accepted
  <2>2. \A p \in Orders : p # o => truth'[p] = truth[p]
    BY <1>1 DEF ExchangeOK
  <2>3. QED
    BY <1>1, <2>1, <2>2 DEF ExchangeOK, IsOpen
<1>7. QED
  BY <1>1, <1>2, <1>3, <1>4, <1>5, <1>6 DEF ExchangeOK, Send, IsOpen

LEMMA FinishStep ==
    ASSUME ExchangeOK, NEW o \in Orders, IsOpen(o), Finish(o), UNCHANGED <<exchange, side>>
    PROVE  ExchangeOK' /\ OrdersStay /\ [truth[o] EXCEPT !.done = TRUE] \in Snapshot
<1>1. truth[o] \in Snapshot
  BY DEF ExchangeOK, IsOpen
<1>2. /\ [truth[o] EXCEPT !.done = TRUE] \in Snapshot
      /\ [truth[o] EXCEPT !.done = TRUE].done
  BY <1>1 DEF Snapshot
<1>3. truth' = [truth EXCEPT ![o] = [truth[o] EXCEPT !.done = TRUE]]
  BY DEF Finish
<1>4. truth' \in [Orders -> Snapshot \union {None}] /\ OrdersStay
  BY <1>2, <1>3, SnapshotFields DEF ExchangeOK, OrdersStay
<1>5. balance' \in Nat
  BY <1>1, SnapshotFields DEF Finish, Freed, ExchangeOK
<1>6. \A p \in Orders : truth'[p] # None => side'[p] \in Sides
  BY <1>3 DEF ExchangeOK, IsOpen
<1>7. \A p \in Orders : truth'[p] # None /\ ~truth'[p].done => truth'[p].filled < Qty
  BY <1>2, <1>3 DEF ExchangeOK, IsOpen
<1>8. QED
  BY <1>2, <1>4, <1>5, <1>6, <1>7 DEF ExchangeOK, IsOpen

LEMMA FillStep ==
    ASSUME ExchangeOK, NEW o \in Orders, Fill(o)
    PROVE  ExchangeOK' /\ OrdersStay
<1> DEFINE s == [done |-> truth[o].filled + 1 = Qty, filled |-> truth[o].filled + 1]
<1>1. truth[o] \in Snapshot /\ truth[o].filled < Qty
  BY DEF ExchangeOK, IsOpen, Fill
<1>2. s \in Snapshot /\ (~s.done => s.filled < Qty)
  <2>1. truth[o].filled \in 0..Qty
    BY <1>1, SnapshotFields
  <2>2. truth[o].filled + 1 \in 0..Qty
        /\ (truth[o].filled + 1 # Qty => truth[o].filled + 1 < Qty)
    BY <1>1, <2>1
  <2>3. QED
    BY <2>2 DEF Snapshot
<1>3. truth' = [truth EXCEPT ![o] = s]
  BY DEF Fill
<1> HIDE DEF s
<1>4. truth' \in [Orders -> Snapshot \union {None}] /\ OrdersStay
  BY <1>2, <1>3, SnapshotFields DEF ExchangeOK, OrdersStay
<1>5. balance' \in Nat
  BY DEF Fill, Delivered, ExchangeOK
<1>6. \A p \in Orders : truth'[p] # None => side'[p] \in Sides
  BY <1>3 DEF ExchangeOK, Fill, IsOpen
<1>7. \A p \in Orders : truth'[p] # None /\ ~truth'[p].done => truth'[p].filled < Qty
  BY <1>2, <1>3 DEF ExchangeOK, IsOpen
<1>8. QED
  BY <1>2, <1>4, <1>5, <1>6, <1>7 DEF ExchangeOK, IsOpen, Fill

\* place_order and the retry of the trailing order: accepted or refused.
LEMMA PlaceStep ==
    ASSUME IInv, NEW c \in Callers, NEW s \in Sides, NEW op \in {"placed", "marketPlaced"},
           Refuse(c, s) \/ \E o \in Orders : Send(c, o, s, op)
    PROVE  IInv'
<1>1. CASE Refuse(c, s)
  <2>1. ExchangeOK' /\ OrdersStay
    BY <1>1, ExchangeKept DEF Refuse, IInv, env
  <2>2. PositionOK'
    BY <1>1, <2>1, PositionKept DEF Refuse, IInv
  <2>3. ~HasOrder([op |-> "rejected"])
    BY DEF HasOrder
  <2>4. CallsOK'
    BY <1>1, <2>1, <2>3, WaitStep, CallTypes DEF Refuse, IInv
  <2>5. QED
    BY <2>1, <2>2, <2>4 DEF IInv
<1>2. ASSUME NEW o \in Orders, Send(c, o, s, op) PROVE IInv'
  <2>1. ExchangeOK' /\ OrdersStay /\ truth'[o] # None
    BY <1>2, SendStep DEF IInv
  <2>2. PositionOK'
    BY <1>2, <2>1, PositionKept DEF Send, IInv
  <2>3. PICK k \in Calls : WaitFor(c, k) /\ k.id = o
    BY <1>2, SendPicks DEF IInv
  <2>4. CallsOK'
    BY <2>1, <2>3, WaitStep DEF IInv
  <2>5. QED
    BY <2>1, <2>2, <2>4 DEF IInv
<1>3. QED
  BY <1>1, <1>2

\* A coroutine waits for its next answer, or stops, without a word to the
\* exchange.
LEMMA LocalStep ==
    ASSUME IInv, UNCHANGED env, PositionOK', NEW c \in Callers, NEW k \in Calls,
           WaitFor(c, k), HasOrder(k) => truth[k.id] # None
    PROVE  IInv'
<1>1. ExchangeOK' /\ OrdersStay /\ truth' = truth
  BY ExchangeKept DEF IInv, env
<1>2. CallsOK'
  BY <1>1, WaitStep DEF IInv
<1>3. QED
  BY <1>1, <1>2 DEF IInv

LEMMA AfterCancelWaits ==
    ASSUME NEW c \in Callers, NEW then \in MaybeSide, NEW s \in Snapshot,
           AfterCancel(c, then, s)
    PROVE  \E k \in Calls : WaitFor(c, k) /\ ~HasOrder(k)
<1>1. CASE then # None /\ WaitFor(c, [op |-> "reprice", then |-> then])
  <2>1. then \in Sides
    BY <1>1 DEF MaybeSide
  <2>2. [op |-> "reprice", then |-> then] \in Calls
        /\ ~HasOrder([op |-> "reprice", then |-> then])
    BY <2>1, CallTypes DEF HasOrder
  <2>3. QED
    BY <1>1, <2>2
<1>2. CASE WaitFor(c, Idle)
  BY <1>2, CallTypes DEF HasOrder, Idle
<1>3. QED
  BY <1>1, <1>2 DEF AfterCancel

\* A cancel answer that does not look done leads to a fetch.
LEMMA CancelAnswers ==
    ASSUME NEW c \in Callers, call[c] \in Calls, CancelReturns(c)
    PROVE  /\ HasOrder(call[c]) /\ HasReply(call[c]) /\ call[c].op = "canceled"
           /\ UNCHANGED env
           /\ \/ /\ LooksDone(call[c].reply)
                 /\ Track(call[c].id, call[c].reply)
                 /\ AfterCancel(c, call[c].then, call[c].reply)
              \/ \E k \in Calls : /\ k.op = "cancelFetch" /\ k.id = call[c].id
                                  /\ k.from = call[c].reply
                                  /\ MayLookOpen(call[c].reply) /\ WaitFor(c, k)
                                  /\ UNCHANGED <<last, pos, counted, base>>
<1>1. /\ call[c].op = "canceled" /\ HasOrder(call[c]) /\ HasReply(call[c])
      /\ UNCHANGED env
  BY DEF CancelReturns, HasOrder, HasReply
<1>2. call[c].id \in Orders /\ call[c].reply \in Snapshot /\ call[c].then \in MaybeSide
  BY <1>1, CallShape
<1> DEFINE k == [op |-> "cancelFetch", id |-> call[c].id, from |-> call[c].reply,
                 then |-> call[c].then]
<1>3. /\ k \in Calls /\ k.op = "cancelFetch" /\ k.id = call[c].id
      /\ k.from = call[c].reply
  BY <1>2, CallTypes
<1>4. \/ /\ LooksDone(call[c].reply)
         /\ Track(call[c].id, call[c].reply)
         /\ AfterCancel(c, call[c].then, call[c].reply)
      \/ /\ MayLookOpen(call[c].reply)
         /\ WaitFor(c, k)
         /\ UNCHANGED <<last, pos, counted, base>>
  BY DEF CancelReturns
<1> HIDE DEF k
<1>5. QED
  BY <1>1, <1>3, <1>4

-----------------------------------------------------------------------------
(* The invariant. *)

LEMMA InitHolds == Init => IInv
<1> SUFFICES ASSUME Init PROVE IInv
  OBVIOUS
<1>1. PICK held \in 0..Holding :
        /\ balance = IF IsFutures THEN 0 ELSE held
        /\ pos = [qty |-> held,
                  side |-> IF ~IsFutures THEN "BUY"
                           ELSE IF held > 0 THEN "SELL" ELSE None,
                  filled |-> [s \in Sides |-> 0]]
  BY DEF Init
<1>2. ExchangeOK
  BY <1>1 DEF Init, ExchangeOK, IsOpen, MaybeSide
<1>3. pos \in Positions /\ (pos.qty > 0 => pos.side # None)
  BY <1>1, SidesAreNotNone DEF Positions, MaybeSide, Sides
<1>4. base = Signed(pos) /\ Signed(pos) \in Int
  BY <1>3 DEF Init, Signed, Positions
<1>5. pos.filled["BUY"] = 0 /\ pos.filled["SELL"] = 0
  BY <1>1 DEF Sides
<1>6. PositionOK
  BY <1>3, <1>4, <1>5 DEF Init, PositionOK, Ledger
<1>7. CallsOK
  BY CallTypes DEF Init, CallsOK, HasOrder, Idle
<1>8. QED
  BY <1>2, <1>6, <1>7 DEF IInv

\* The states of an order a caller may see are snapshots of it.
LEMMA SeenIsSnapshot ==
    \A o \in Orders : Had(o) \subseteq Snapshot /\ \A f : Since(o, f) \subseteq Snapshot
BY DEF Had, Since

\* Whichever answer comes: an order as it was, or none.
LEMMA AnswerStep ==
    ASSUME IInv, UNCHANGED env, NEW o \in Orders, truth[o] # None,
           (\E s \in Snapshot : Track(o, s)) \/ TrackNone
    PROVE  PositionOK'
BY TrackStep, TrackNoneStep DEF IInv, env

LEMMA CancelStep ==
    ASSUME IInv, NEW c \in Callers, NEW then \in MaybeSide, last # None, SendCancel(c, then)
    PROVE  IInv'
<1> DEFINE o == last.id
<1>1. o \in Orders /\ truth[o] \in Snapshot
  BY DEF IInv, PositionOK, ExchangeOK
<1> HIDE DEF o
<1>2. CASE /\ IsOpen(o)
           /\ Finish(o)
           /\ WaitFor(c, [op |-> "canceled", id |-> o, then |-> then,
                          reply |-> [truth[o] EXCEPT !.done = TRUE]])
           /\ UNCHANGED <<exchange, side, last, pos, counted, base>>
  <2>1. ExchangeOK' /\ OrdersStay /\ [truth[o] EXCEPT !.done = TRUE] \in Snapshot
    BY <1>1, <1>2, FinishStep DEF IInv
  <2>2. PositionOK'
    BY <1>2, <2>1, PositionKept DEF IInv
  <2>3. [op |-> "canceled", id |-> o, then |-> then,
         reply |-> [truth[o] EXCEPT !.done = TRUE]] \in Calls
    BY <1>1, <2>1, CallTypes
  <2>4. truth'[o] # None
    BY <1>1, <2>1, SnapshotFields DEF OrdersStay
  <2>5. CallsOK'
    BY <1>2, <2>1, <2>3, <2>4, WaitStep DEF IInv
  <2>6. QED
    BY <2>1, <2>2, <2>5 DEF IInv
<1>3. ASSUME NEW k \in Calls, k.id = o, WaitFor(c, k),
             UNCHANGED <<exchange, truth, side, balance, last, pos, counted, base>>
      PROVE  IInv'
  <2>1. PositionOK'
    BY <1>3, PositionKept DEF IInv, OrdersStay
  <2>2. truth[k.id] # None
    BY <1>1, <1>3, SnapshotFields
  <2>3. QED
    BY <1>3, <2>1, <2>2, LocalStep DEF env
<1>4. CASE /\ WaitFor(c, [op |-> "canceled", id |-> o, then |-> then, reply |-> truth[o]])
           /\ UNCHANGED <<exchange, truth, side, balance, last, pos, counted, base>>
  BY <1>1, <1>3, <1>4, CallTypes
<1>5. CASE /\ WaitFor(c, [op |-> "cancelFetch", id |-> o, then |-> then, from |-> truth[o]])
           /\ UNCHANGED <<exchange, truth, side, balance, last, pos, counted, base>>
  BY <1>1, <1>3, <1>5, CallTypes
<1>6. QED
  BY <1>2, <1>4, <1>5 DEF SendCancel, o

\* One step for every action of the manager's coroutines.
LEMMA InvariantStep ==
    ASSUME IInv, [Next]_vars
    PROVE  IInv'
<1> USE SeenIsSnapshot, NewOrderType
<1>1. ASSUME NEW o \in Orders, Fill(o) \/ Expire(o) PROVE IInv'
  <2>1. ExchangeOK' /\ OrdersStay
    BY <1>1, FillStep, FinishStep DEF Expire, IInv
  <2>2. PositionOK' /\ CallsOK'
    BY <1>1, <2>1, PositionKept, CallsKept DEF Fill, Expire, IInv
  <2>3. QED
    BY <2>1, <2>2 DEF IInv
<1>2. ASSUME NEW c \in Callers, NEW s \in Sides, SetSide(c, s) PROVE IInv'
  <2>1. ExchangeOK' /\ OrdersStay
    BY <1>2, ExchangeKept DEF SetSide, env, IInv
  <2>2. pos' = [pos EXCEPT !.side = s] /\ pos' \in Positions /\ s # None
        /\ pos'.qty = pos.qty /\ pos'.filled = pos.filled
    BY <1>2, SidesAreNotNone DEF SetSide, IInv, PositionOK, Positions, MaybeSide, Sides
  <2>3. pos.qty = 0 => Signed(pos') = 0 /\ Signed(pos) = 0
    <3>1. ASSUME NEW p \in Positions, p.qty = 0 PROVE Signed(p) = 0
      BY <3>1 DEF Signed, Positions
    <3>2. QED
      BY <2>2, <3>1 DEF IInv, PositionOK
  <2>4. base' = IF pos.qty = 0 THEN base ELSE None
    BY <1>2 DEF SetSide
  <2>5. Ledger'
    <3>1. CASE base' = None
      BY <3>1 DEF Ledger
    <3>2. CASE base' # None
      <4>1. pos.qty = 0 /\ base' = base
        BY <2>4, <3>2
      <4>2. Signed(pos') = base' + (pos'.filled["BUY"] - pos'.filled["SELL"])
        BY <2>2, <2>3, <3>2, <4>1 DEF IInv, PositionOK, Ledger
      <4>3. QED
        BY <4>2 DEF Ledger, Signed
    <3>3. QED
      BY <3>1, <3>2
  <2>6. PositionOK'
    BY <1>2, <2>2, <2>4, <2>5 DEF SetSide, IInv, PositionOK
  <2>7. CallsOK'
    BY <1>2, <2>1, CallsKept DEF SetSide, IInv
  <2>8. QED
    BY <2>1, <2>6, <2>7 DEF IInv
<1>3. ASSUME NEW c \in Callers, NEW s \in Sides,
             PlaceMarketOrder(c, s) \/ PlaceTrailingLimitOrder(c, s)
      PROVE  IInv'
  BY <1>3, LimitOp, PlaceStep DEF PlaceMarketOrder, PlaceTrailingLimitOrder
<1>4. ASSUME NEW c \in Callers, PlaceRepriced(c) PROVE IInv'
  <2>1. call[c].then \in Sides
    BY <1>4, CallShape DEF PlaceRepriced, IInv, CallsOK
  <2>2. QED
    BY <1>4, <2>1, LimitOp, PlaceStep DEF PlaceRepriced
<1>5. ASSUME NEW c \in Callers, NEW s \in Sides, Reprice(c, s) PROVE IInv'
  BY <1>5, CancelStep DEF Reprice, MaybeSide
<1>6. ASSUME NEW c \in Callers, CancelOrder(c) PROVE IInv'
  BY <1>6, CancelStep DEF CancelOrder, MaybeSide
<1>7. ASSUME NEW c \in Callers, HasOrder(call[c])
      PROVE  /\ call[c] \in Calls /\ call[c].id \in Orders /\ truth[call[c].id] # None
             /\ HasReply(call[c]) => call[c].reply \in Snapshot
             /\ call[c].op \in {"canceled", "cancelFetch"} => call[c].then \in MaybeSide
  BY <1>7, CallShape DEF IInv, CallsOK
<1>8. Idle \in Calls /\ ~HasOrder(Idle)
  BY CallTypes DEF HasOrder, Idle
<1>9. ASSUME NEW c \in Callers, PlaceReturns(c) \/ MarketReturns(c) \/ SyncReturns(c)
      PROVE  IInv'
  <2>1. HasOrder(call[c]) /\ UNCHANGED env /\ WaitFor(c, Idle)
    BY <1>9 DEF PlaceReturns, MarketReturns, SyncReturns, HasOrder
  <2>2. (\E s \in Snapshot : Track(call[c].id, s)) \/ TrackNone
    BY <1>7, <1>9, <2>1 DEF PlaceReturns, MarketReturns, SyncReturns, HasReply
  <2>3. PositionOK'
    BY <1>7, <2>1, <2>2, AnswerStep
  <2>4. QED
    BY <1>8, <2>1, <2>3, LocalStep
<1>10. ASSUME NEW c \in Callers, CancelReturns(c) \/ CancelFetchReturns(c) PROVE IInv'
  <2>1. HasOrder(call[c]) /\ UNCHANGED env /\ call[c].op \in {"canceled", "cancelFetch"}
    BY <1>10 DEF CancelReturns, CancelFetchReturns, HasOrder
  <2>2. CASE /\ (\E s \in Snapshot : Track(call[c].id, s)) \/ TrackNone
             /\ \E s \in Snapshot : AfterCancel(c, call[c].then, s)
    <3>1. PICK k \in Calls : WaitFor(c, k) /\ ~HasOrder(k)
      BY <1>7, <2>1, <2>2, AfterCancelWaits
    <3>2. PositionOK'
      BY <1>7, <2>1, <2>2, AnswerStep
    <3>3. QED
      BY <2>1, <3>1, <3>2, LocalStep
  <2>3. CASE CancelFetchReturns(c)
    BY <1>7, <2>1, <2>2, <2>3 DEF CancelFetchReturns
  <2>4. CASE CancelReturns(c)
    <3>1. ASSUME NEW k \in Calls, k.id = call[c].id, WaitFor(c, k),
                 UNCHANGED <<last, pos, counted, base>>
          PROVE  IInv'
      <4>1. PositionOK'
        BY <2>1, <3>1, PositionKept DEF IInv, OrdersStay, env
      <4>2. QED
        BY <1>7, <2>1, <3>1, <4>1, LocalStep
    <3>2. call[c].reply \in Snapshot
      BY <1>7, <2>1, <2>4, CancelAnswers
    <3>3. QED
      BY <1>7, <2>1, <2>2, <2>4, <3>1, <3>2, CancelAnswers
  <2>5. QED
    BY <1>10, <2>3, <2>4
<1>11. ASSUME NEW c \in Callers, AdjustToBalance(c) PROVE IInv'
  <2>1. ExchangeOK' /\ OrdersStay
    BY <1>11, ExchangeKept DEF AdjustToBalance, env, IInv
  <2>2. pos' = [pos EXCEPT !.qty = balance] /\ pos' \in Positions
        /\ pos'.qty = balance /\ pos'.side = pos.side /\ pos'.filled = pos.filled
    BY <1>11 DEF AdjustToBalance, IInv, ExchangeOK, PositionOK, Positions
  <2>3. Signed(pos') \in Int /\ pos.filled["BUY"] \in Int /\ pos.filled["SELL"] \in Int
    BY <2>2 DEF Signed, Positions, IInv, PositionOK, Sides
  <2>4. base' = IF balance > 0 /\ pos.side = None THEN None
                ELSE Signed(pos') - (pos.filled["BUY"] - pos.filled["SELL"])
    BY <1>11 DEF AdjustToBalance
  <2>5. /\ base' \in Int \union {None}
        /\ base' # None /\ pos'.qty > 0 => pos'.side # None
        /\ base' # None => Signed(pos') = base' + (pos'.filled["BUY"] - pos'.filled["SELL"])
    BY <2>2, <2>3, <2>4
  <2>6. Ledger'
    BY <2>5 DEF Ledger, Signed
  <2>7. PositionOK'
    BY <1>11, <2>2, <2>5, <2>6 DEF AdjustToBalance, IInv, PositionOK
  <2>8. CallsOK'
    BY <1>8, <1>11, <2>1, WaitStep DEF AdjustToBalance, IInv
  <2>9. QED
    BY <2>1, <2>7, <2>8 DEF IInv
<1>12. ASSUME NEW c \in Callers, SyncFromStore(c) PROVE IInv'
  <2>1. UNCHANGED env /\ UNCHANGED call
    BY <1>12 DEF SyncFromStore, env
  <2>2. last.id \in Orders /\ truth[last.id] # None
    BY <1>12 DEF SyncFromStore, IInv, PositionOK
  <2>3. \E s \in Snapshot : Track(last.id, s)
    BY <1>12, <2>2 DEF SyncFromStore
  <2>4. PositionOK'
    BY <2>1, <2>2, <2>3, AnswerStep
  <2>5. ExchangeOK' /\ CallsOK'
    BY <2>1, ExchangeKept, CallsKept DEF IInv
  <2>6. QED
    BY <2>4, <2>5 DEF IInv
<1>13. ASSUME NEW c \in Callers, SyncFromExchange(c) PROVE IInv'
  <2>1. last.id \in Orders /\ truth[last.id] \in Snapshot /\ truth[last.id] # None
    BY <1>13 DEF SyncFromExchange, IInv, PositionOK, ExchangeOK
  <2>2. [op |-> "syncFetch", id |-> last.id, from |-> truth[last.id]] \in Calls
    BY <2>1, CallTypes
  <2>3. PositionOK'
    BY <1>13, PositionKept DEF SyncFromExchange, IInv, OrdersStay
  <2>4. QED
    BY <1>13, <2>1, <2>2, <2>3, LocalStep DEF SyncFromExchange, env
<1>14. ASSUME NEW c \in Callers, CallFails(c) PROVE IInv'
  <2>1. UNCHANGED env
    BY <1>14 DEF CallFails
  <2>2. CASE /\ call[c].op = "canceled"
             /\ WaitFor(c, [op |-> "cancelFetch", id |-> call[c].id,
                            from |-> call[c].reply, then |-> call[c].then])
             /\ UNCHANGED <<last, pos, counted, base>>
    <3>1. HasOrder(call[c]) /\ HasReply(call[c])
      BY <2>2 DEF HasOrder, HasReply
    <3>2. [op |-> "cancelFetch", id |-> call[c].id,
           from |-> call[c].reply, then |-> call[c].then] \in Calls
      BY <1>7, <2>2, <3>1, CallTypes
    <3>3. PositionOK'
      BY <2>1, <2>2, PositionKept DEF IInv, OrdersStay, env
    <3>4. QED
      BY <1>7, <2>1, <2>2, <3>1, <3>2, <3>3, LocalStep
  <2>3. CASE TrackNone /\ WaitFor(c, Idle)
    <3>1. PositionOK'
      BY <2>1, <2>3, TrackNoneStep DEF IInv, env
    <3>2. QED
      BY <1>8, <2>1, <2>3, <3>1, LocalStep
  <2>4. CASE WaitFor(c, Idle) /\ UNCHANGED <<last, pos, counted, base>>
    <3>1. PositionOK'
      BY <2>1, <2>4, PositionKept DEF IInv, OrdersStay, env
    <3>2. QED
      BY <1>8, <2>1, <2>4, <3>1, LocalStep
  <2>5. QED
    BY <1>14, <2>2, <2>3, <2>4 DEF CallFails
<1>15. CASE UNCHANGED vars
  <2>1. ExchangeOK' /\ OrdersStay
    BY <1>15, ExchangeKept DEF vars, env, IInv
  <2>2. PositionOK' /\ CallsOK'
    BY <1>15, <2>1, PositionKept, CallsKept DEF vars, IInv
  <2>3. QED
    BY <2>1, <2>2 DEF IInv
<1>16. QED
  BY <1>1, <1>2, <1>3, <1>4, <1>5, <1>6, <1>9, <1>10, <1>11, <1>12, <1>13, <1>14, <1>15
  DEF Next

LEMMA Invariance == Spec => []IInv
<1>1. IInv /\ [Next]_vars => IInv'
  BY InvariantStep
<1>2. QED
  BY <1>1, InitHolds, PTL DEF Spec

(***************************************************************************)
(* Type correctness: whatever answers arrive and in whatever order, the    *)
(* quantity of the position, its filled amounts and the balance never fall *)
(* below zero.                                                             *)
(***************************************************************************)
THEOREM TypeCorrect == Spec => []TypeOK
<1>1. IInv => TypeOK
  BY DEF IInv, ExchangeOK, PositionOK, CallsOK, TypeOK
<1>2. QED
  BY <1>1, Invariance, PTL

(***************************************************************************)
(* The ledger balances for every number of coroutines, whatever is lost,   *)
(* refused or counted twice: entry, reduction, close and reversal of       *)
(* PositionData.update move the position by exactly what they add to       *)
(* filled_amount.                                                          *)
(***************************************************************************)
THEOREM LedgerBalances == Spec => []Ledger
<1>1. IInv => Ledger
  BY DEF IInv, PositionOK
<1>2. QED
  BY <1>1, Invariance, PTL

-----------------------------------------------------------------------------
(* What was counted adds up, for every number of coroutines. *)

\* The filled amount of a side is what was counted of the orders of that side.
FilledOK ==
    /\ \A o \in Orders : truth[o] = None => counted[o] = 0
    /\ \A s \in Sides : /\ IsFiniteSet(Lots(s, counted))
                        /\ pos.filled[s] = Cardinality(Lots(s, counted))

LEMMA NumbersTo ==
    ASSUME NEW a \in Nat, NEW b \in Nat
    PROVE  IsFiniteSet(a + 1 .. a + b) /\ Cardinality(a + 1 .. a + b) = b
<1>1. a + 1 \in Int /\ a + b \in Int
  OBVIOUS
<1>2. /\ IsFiniteSet(a + 1 .. a + b)
      /\ Cardinality(a + 1 .. a + b)
           = IF a + 1 > a + b THEN 0 ELSE (a + b) - (a + 1) + 1
  BY <1>1, FS_Interval
<1>3. QED
  BY <1>2

LEMMA PairsWithOne ==
    ASSUME NEW o, NEW S, IsFiniteSet(S)
    PROVE  IsFiniteSet({o} \X S) /\ Cardinality({o} \X S) = Cardinality(S)
<1>1. IsFiniteSet({o}) /\ Cardinality({o}) = 1
  BY FS_Singleton
<1>2. Cardinality(S) \in Nat
  BY FS_CardinalityType
<1>3. IsFiniteSet({o} \X S) /\ Cardinality({o} \X S) = 1 * Cardinality(S)
  BY <1>1, FS_Product
<1>4. QED
  BY <1>2, <1>3

\* What one more fill adds to the lots: its numbers.
LEMMA LotsGrow ==
    ASSUME NEW o \in Orders, NEW d \in Nat, counted \in [Orders -> Nat],
           counted' = [counted EXCEPT ![o] = @ + d], side' = side,
           NEW s \in Sides, IsFiniteSet(Lots(s, counted))
    PROVE  /\ IsFiniteSet(Lots(s, counted)')
           /\ Cardinality(Lots(s, counted)')
                = Cardinality(Lots(s, counted)) + (IF side[o] = s THEN d ELSE 0)
<1> DEFINE old == Lots(s, counted)
           new == {o} \X (counted[o] + 1 .. counted[o] + d)
<1>1. counted[o] \in Nat /\ counted'[o] = counted[o] + d
  OBVIOUS
<1>2. \A p \in Orders : p # o => counted'[p] = counted[p]
  OBVIOUS
<1>3. CASE side[o] # s
  <2>1. Lots(s, counted)' = old
    BY <1>2, <1>3 DEF Lots
  <2>2. Cardinality(old) \in Nat
    BY FS_CardinalityType
  <2>3. QED
    BY <1>3, <2>1, <2>2
<1>4. CASE side[o] = s
  <2>1. Lots(s, counted)' = old \union new
    <3>1. 1 .. counted'[o] = (1 .. counted[o]) \union (counted[o] + 1 .. counted[o] + d)
      BY <1>1
    <3>2. {o} \X (1 .. counted'[o]) = ({o} \X (1 .. counted[o])) \union new
      BY <3>1
    <3>3. QED
      BY <1>2, <1>4, <3>2 DEF Lots
  <2>2. old \intersect new = {}
    <3>1. \A n \in 1 .. counted[o] : n \notin counted[o] + 1 .. counted[o] + d
      BY <1>1
    <3>2. QED
      BY <3>1 DEF Lots
  <2>3. /\ IsFiniteSet(counted[o] + 1 .. counted[o] + d)
        /\ Cardinality(counted[o] + 1 .. counted[o] + d) = d
    BY <1>1, NumbersTo
  <2>4. IsFiniteSet(new) /\ Cardinality(new) = d
    BY <2>3, PairsWithOne
  <2> HIDE DEF new
  <2>5. Cardinality(old) \in Nat
    BY FS_CardinalityType
  <2>6. Cardinality(old \intersect new) = 0
    BY <2>2, FS_EmptySet
  <2> HIDE DEF old
  <2>7. /\ IsFiniteSet(old \union new)
        /\ Cardinality(old \union new)
             = Cardinality(old) + Cardinality(new) - Cardinality(old \intersect new)
    BY <2>4, FS_Union DEF old
  <2>8. Cardinality(old \union new) = Cardinality(old) + d
    BY <2>4, <2>5, <2>6, <2>7
  <2>9. QED
    BY <1>4, <2>1, <2>7, <2>8 DEF old
<1>5. QED
  BY <1>3, <1>4

LEMMA FilledKept ==
    ASSUME FilledOK, OrdersStay, UNCHANGED <<side, counted>>, pos'.filled = pos.filled
    PROVE  FilledOK'
<1>1. \A s \in Sides : Lots(s, counted)' = Lots(s, counted)
  BY DEF Lots
<1>2. QED
  BY <1>1 DEF FilledOK, OrdersStay

\* A new order has no lots, on whichever side.
LEMMA FilledSend ==
    ASSUME IInv, FilledOK, NEW c \in Callers, NEW o \in Orders, NEW t \in Sides,
           NEW op \in {"placed", "marketPlaced"}, Send(c, o, t, op)
    PROVE  FilledOK'
<1>1. /\ counted[o] = 0 /\ counted' = counted /\ pos' = pos
      /\ side' = [side EXCEPT ![o] = t] /\ side \in [Orders -> MaybeSide]
  BY DEF Send, FilledOK, IInv, ExchangeOK
<1>2. OrdersStay
  BY SendStep DEF IInv
<1>3. 1 .. counted[o] = {}
  BY <1>1
<1>4. \A s \in Sides : Lots(s, counted)' = Lots(s, counted)
  BY <1>1, <1>3 DEF Lots
<1>5. QED
  BY <1>1, <1>2, <1>4 DEF FilledOK, OrdersStay

LEMMA FilledTrack ==
    ASSUME IInv, FilledOK, NEW o \in Orders, truth[o] # None, NEW s \in Snapshot, Track(o, s),
           UNCHANGED <<truth, side>>
    PROVE  FilledOK'
<1>1. CASE LastFilled > s.filled
  BY <1>1, FilledKept DEF Track, OrdersStay
<1>2. CASE ~(LastFilled > s.filled)
  <2> DEFINE d == s.filled - LastFilled
  <2>1. LastFilled \in Nat /\ s.filled \in Nat
    BY SnapshotFields DEF LastFilled, IInv, PositionOK
  <2>2. d \in Nat
    BY <1>2, <2>1
  <2>3. /\ pos' = UpdatePosition(pos, side[o], d)
        /\ counted' = [counted EXCEPT ![o] = @ + d]
    BY <1>2 DEF Track, Count
  <2> HIDE DEF d
  <2>4. /\ side[o] \in Sides /\ pos \in Positions /\ counted \in [Orders -> Nat]
        /\ pos.filled \in [Sides -> Nat]
    BY DEF IInv, ExchangeOK, PositionOK, Positions
  <2>5. pos'.filled = [pos.filled EXCEPT ![side[o]] = @ + d]
    BY <2>2, <2>3, <2>4, UpdateIsExact DEF MovedBy
  <2>6. ASSUME NEW t \in Sides
        PROVE  /\ IsFiniteSet(Lots(t, counted)')
               /\ pos'.filled[t] = Cardinality(Lots(t, counted)')
    <3>1. pos'.filled[t] = pos.filled[t] + (IF side[o] = t THEN d ELSE 0)
      BY <2>2, <2>4, <2>5
    <3>2. IsFiniteSet(Lots(t, counted)) /\ pos.filled[t] = Cardinality(Lots(t, counted))
      BY DEF FilledOK
    <3>3. /\ IsFiniteSet(Lots(t, counted)')
          /\ Cardinality(Lots(t, counted)')
               = Cardinality(Lots(t, counted)) + (IF side[o] = t THEN d ELSE 0)
      BY <2>2, <2>3, <2>4, <3>2, LotsGrow
    <3>4. QED
      BY <3>1, <3>2, <3>3
  <2>7. \A p \in Orders : truth'[p] = None => counted'[p] = 0
    BY <2>3, <2>4 DEF FilledOK
  <2>8. QED
    BY <2>6, <2>7 DEF FilledOK
<1>3. QED
  BY <1>1, <1>2

\* What every step does to the filled amounts: one of the three, or nothing.
LEMMA FilledStep ==
    ASSUME IInv, FilledOK, [Next]_vars
    PROVE  FilledOK'
<1> USE SeenIsSnapshot, NewOrderType
<1>1. ASSUME UNCHANGED <<side, counted>>, pos'.filled = pos.filled, UNCHANGED truth
      PROVE  FilledOK'
  BY <1>1, FilledKept DEF OrdersStay
<1>2. ASSUME NEW o \in Orders, Fill(o) \/ (IsOpen(o) /\ Finish(o)),
             UNCHANGED <<exchange, side, pos, counted>>
      PROVE  FilledOK'
  <2>1. OrdersStay
    BY <1>2, FillStep, FinishStep DEF IInv
  <2>2. QED
    BY <1>2, <2>1, FilledKept
<1>3. ASSUME NEW c \in Callers, NEW s \in Sides, NEW op \in {"placed", "marketPlaced"},
             Refuse(c, s) \/ \E o \in Orders : Send(c, o, s, op)
      PROVE  FilledOK'
  BY <1>1, <1>3, FilledSend DEF Refuse
<1>4. ASSUME NEW o \in Orders, truth[o] # None, (\E s \in Snapshot : Track(o, s)) \/ TrackNone,
             UNCHANGED env
      PROVE  FilledOK'
  BY <1>1, <1>4, FilledTrack DEF TrackNone, env
<1>5. ASSUME NEW c \in Callers, NEW then, last # None, SendCancel(c, then) PROVE FilledOK'
  <2>1. last.id \in Orders
    BY <1>5 DEF IInv, PositionOK
  <2>2. CASE /\ IsOpen(last.id) /\ Finish(last.id)
             /\ UNCHANGED <<exchange, side, last, pos, counted, base>>
    BY <1>2, <2>1, <2>2
  <2>3. CASE UNCHANGED <<exchange, truth, side, balance, last, pos, counted, base>>
    BY <1>1, <2>3
  <2>4. QED
    BY <1>5, <2>2, <2>3 DEF SendCancel
<1>6. ASSUME NEW c \in Callers, HasOrder(call[c])
      PROVE  call[c].id \in Orders /\ truth[call[c].id] # None
             /\ call[c] \in Calls
             /\ (HasReply(call[c]) => call[c].reply \in Snapshot)
  BY <1>6, CallShape DEF IInv, CallsOK
<1>7. ASSUME NEW o \in Orders, Fill(o) \/ Expire(o) PROVE FilledOK'
  BY <1>2, <1>7 DEF Fill, Expire
<1>8. ASSUME NEW c \in Callers, NEW s \in Sides,
             \/ PlaceMarketOrder(c, s) \/ PlaceTrailingLimitOrder(c, s) \/ Reprice(c, s)
             \/ SetSide(c, s)
      PROVE  FilledOK'
  <2>1. CASE SetSide(c, s)
    <3>1. pos'.filled = pos.filled
      BY <2>1 DEF SetSide, IInv, PositionOK, Positions
    <3>2. QED
      BY <1>1, <2>1, <3>1 DEF SetSide
  <2>2. QED
    BY <1>3, <1>5, <1>8, <2>1, LimitOp DEF PlaceMarketOrder, PlaceTrailingLimitOrder, Reprice
<1>9. ASSUME NEW c \in Callers, PlaceRepriced(c) PROVE FilledOK'
  <2>1. call[c].then \in Sides
    BY <1>9, CallShape DEF PlaceRepriced, IInv, CallsOK
  <2>2. QED
    BY <1>3, <1>9, <2>1, LimitOp DEF PlaceRepriced
<1>10. ASSUME NEW c \in Callers, CancelOrder(c) PROVE FilledOK'
  BY <1>5, <1>10 DEF CancelOrder
<1>11. ASSUME NEW c \in Callers,
              \/ PlaceReturns(c) \/ MarketReturns(c) \/ SyncReturns(c)
              \/ CancelReturns(c) \/ CancelFetchReturns(c)
       PROVE  FilledOK'
  <2>1. HasOrder(call[c]) /\ UNCHANGED env
    BY <1>11 DEF PlaceReturns, MarketReturns, SyncReturns, CancelReturns, CancelFetchReturns,
                 HasOrder
  <2>2. CASE (\E s \in Snapshot : Track(call[c].id, s)) \/ TrackNone
    BY <1>4, <1>6, <2>1, <2>2
  <2>3. CASE ~CancelReturns(c)
    BY <1>6, <1>11, <2>1, <2>2, <2>3
    DEF PlaceReturns, MarketReturns, SyncReturns, CancelFetchReturns, HasReply
  <2>4. CASE CancelReturns(c)
    <3>1. CASE UNCHANGED <<last, pos, counted, base>>
      BY <1>1, <2>1, <3>1 DEF env
    <3>2. QED
      BY <1>6, <2>1, <2>2, <2>4, <3>1, CancelAnswers
  <2>5. QED
    BY <2>3, <2>4
<1>12. ASSUME NEW c \in Callers, AdjustToBalance(c) PROVE FilledOK'
  <2>1. pos'.filled = pos.filled
    BY <1>12 DEF AdjustToBalance, IInv, PositionOK, Positions
  <2>2. QED
    BY <1>1, <1>12, <2>1 DEF AdjustToBalance
<1>13. ASSUME NEW c \in Callers, SyncFromStore(c) PROVE FilledOK'
  <2>1. last.id \in Orders /\ truth[last.id] # None
    BY <1>13 DEF SyncFromStore, IInv, PositionOK
  <2>2. QED
    BY <1>4, <1>13, <2>1 DEF SyncFromStore, env
<1>14. ASSUME NEW c \in Callers, SyncFromExchange(c) PROVE FilledOK'
  BY <1>1, <1>14 DEF SyncFromExchange
<1>15. ASSUME NEW c \in Callers, CallFails(c) PROVE FilledOK'
  BY <1>1, <1>15 DEF CallFails, TrackNone, env
<1>16. CASE UNCHANGED vars
  BY <1>1, <1>16 DEF vars
<1>17. QED
  BY <1>7, <1>8, <1>9, <1>10, <1>11, <1>12, <1>13, <1>14, <1>15, <1>16 DEF Next

LEMMA FilledInit == Init => FilledOK
<1> SUFFICES ASSUME Init PROVE FilledOK
  OBVIOUS
<1>1. \A s \in Sides : pos.filled[s] = 0
  BY DEF Init
<1>2. 1 .. 0 = {}
  OBVIOUS
<1>3. \A s \in Sides : Lots(s, counted) = {}
  BY <1>2 DEF Init, Lots
<1>4. QED
  BY <1>1, <1>3, FS_EmptySet DEF Init, FilledOK

LEMMA FilledInvariance == Spec => [](IInv /\ FilledOK)
<1>1. IInv /\ FilledOK /\ [Next]_vars => FilledOK'
  BY FilledStep
<1>2. QED
  BY <1>1, FilledInit, Invariance, PTL DEF Spec

(***************************************************************************)
(* filled_amount is exactly what was counted of the orders of each side,   *)
(* for every number of coroutines: update_position_with_order books on the *)
(* side of the order, never on the side of the position.                   *)
(***************************************************************************)
THEOREM FilledIsCounted ==
    Spec => [](\A s \in Sides : pos.filled[s] = Cardinality(Lots(s, counted)))
<1>1. FilledOK => \A s \in Sides : pos.filled[s] = Cardinality(Lots(s, counted))
  BY DEF FilledOK
<1>2. QED
  BY <1>1, FilledInvariance, PTL

-----------------------------------------------------------------------------
(* One coroutine. *)

\* What is counted of an order is never ahead of the exchange, nor, of the
\* tracked order, ahead of _last_order; a new order starts uncounted; and only
\* the tracked order is cancelled or looked up.
CountsOK ==
    /\ \A o \in Orders : truth[o] = None => counted[o] = 0
    /\ \A o \in Orders : truth[o] # None => counted[o] <= truth[o].filled
    /\ last # None => counted[last.id] <= last.filled

AskOK(k) ==
    /\ k.op \in {"placed", "marketPlaced"} => counted[k.id] = 0
    /\ k.op \in {"canceled", "cancelFetch", "syncFetch"} => last # None /\ last.id = k.id
    /\ HasReply(k) => k.reply.filled <= truth[k.id].filled

AsksOK == \A c \in Callers : AskOK(call[c])

CountedOK == CountsOK /\ AsksOK

OneCaller == \A c, d \in Callers : c = d

\* Fills only grow.
FillsGrow ==
    \A o \in Orders : truth[o] # None =>
        truth'[o] # None /\ truth[o].filled <= truth'[o].filled

LEMMA CountsKept ==
    ASSUME IInv, IInv', CountsOK, FillsGrow, UNCHANGED <<last, counted>>
    PROVE  CountsOK'
<1>1. \A o \in Orders : truth'[o] = None => counted'[o] = 0
  BY DEF CountsOK, FillsGrow
<1>2. ASSUME NEW o \in Orders, truth'[o] # None PROVE counted'[o] <= truth'[o].filled
  <2>1. truth'[o].filled \in Nat /\ counted[o] \in Nat
    BY <1>2, SnapshotFields DEF IInv, ExchangeOK, PositionOK
  <2>2. CASE truth[o] = None
    BY <2>1, <2>2 DEF CountsOK
  <2>3. CASE truth[o] # None
    <3>1. truth[o].filled \in Nat
      BY <2>3, SnapshotFields DEF IInv, ExchangeOK
    <3>2. QED
      BY <2>1, <2>3, <3>1 DEF CountsOK, FillsGrow
  <2>4. QED
    BY <2>2, <2>3
<1>3. QED
  BY <1>1, <1>2 DEF CountsOK

LEMMA NothingFilled ==
    ASSUME ExchangeOK, UNCHANGED truth
    PROVE  FillsGrow
<1>1. \A o \in Orders : truth[o] # None => truth[o].filled \in Nat
  BY SnapshotFields DEF ExchangeOK
<1>2. QED
  BY <1>1 DEF FillsGrow

LEMMA AskStep ==
    ASSUME OneCaller, CallsOK, NEW c \in Callers, NEW k \in Calls, WaitFor(c, k),
           k.op \in {"placed", "marketPlaced"} => counted'[k.id] = 0,
           k.op \in {"canceled", "cancelFetch", "syncFetch"}
              => last' # None /\ last'.id = k.id,
           HasReply(k) => k.reply.filled <= truth'[k.id].filled
    PROVE  AsksOK'
<1>1. \A d \in Callers : call'[d] = k
  BY DEF OneCaller, CallsOK, WaitFor
<1>2. QED
  BY <1>1 DEF AsksOK, AskOK, HasReply

\* The answer about an uncounted order, or about the tracked one.
LEMMA TrackCounts ==
    ASSUME IInv, CountsOK, NEW o \in Orders, truth[o] # None, NEW s \in Snapshot,
           s.filled <= truth[o].filled, Track(o, s), UNCHANGED truth,
           counted[o] = 0 \/ (last # None /\ last.id = o)
    PROVE  CountsOK'
<1>1. CASE LastFilled > s.filled
  BY <1>1 DEF Track, CountsOK
<1>2. CASE ~(LastFilled > s.filled)
  <2>1. LastFilled \in Nat /\ s.filled \in Nat /\ counted \in [Orders -> Nat]
    BY SnapshotFields DEF LastFilled, IInv, PositionOK
  <2>2. counted[o] <= LastFilled
    BY <2>1 DEF LastFilled, CountsOK
  <2>3. /\ counted' = [counted EXCEPT ![o] = @ + (s.filled - LastFilled)]
        /\ last' = IF LooksDone(s) THEN None ELSE [id |-> o, filled |-> s.filled]
    BY <1>2 DEF Track, Count
  <2>4. counted'[o] \in Int /\ counted'[o] <= s.filled
    BY <2>1, <2>2, <2>3
  <2>5. truth[o] \in Snapshot /\ truth[o].filled \in Nat
    BY SnapshotFields DEF IInv, ExchangeOK
  <2>6. \A p \in Orders : p # o => counted'[p] = counted[p]
    BY <2>1, <2>3
  <2>7. QED
    BY <2>1, <2>3, <2>4, <2>5, <2>6 DEF CountsOK
<1>3. QED
  BY <1>1, <1>2

LEMMA NoneCounts ==
    ASSUME CountsOK, TrackNone, UNCHANGED truth
    PROVE  CountsOK'
BY DEF CountsOK, TrackNone

\* An answer ends a call or leads to the next placement.
LEMMA EndStep ==
    ASSUME OneCaller, CallsOK, NEW c \in Callers, NEW k \in Calls, WaitFor(c, k), ~HasOrder(k)
    PROVE  AsksOK'
BY AskStep DEF HasOrder, HasReply

LEMMA SeenIsNotAhead ==
    \A o \in Orders : \A s \in Had(o) : s.filled <= truth[o].filled
BY DEF Had

LEMMA CancelAsks ==
    ASSUME IInv, IInv', CountedOK, OneCaller, NEW c \in Callers, NEW then \in MaybeSide,
           last # None, SendCancel(c, then)
    PROVE  CountedOK'
<1> DEFINE o == last.id
<1>1. o \in Orders /\ truth[o] \in Snapshot /\ truth[o].filled \in Nat
  BY SnapshotFields DEF IInv, PositionOK, ExchangeOK
<1>2. last' = last /\ counted' = counted
  BY DEF SendCancel
<1> HIDE DEF o
<1>3. CASE /\ IsOpen(o)
           /\ Finish(o)
           /\ WaitFor(c, [op |-> "canceled", id |-> o, then |-> then,
                          reply |-> [truth[o] EXCEPT !.done = TRUE]])
  <2>1. /\ [truth[o] EXCEPT !.done = TRUE] \in Snapshot
        /\ [truth[o] EXCEPT !.done = TRUE].filled = truth[o].filled
    BY <1>1 DEF Snapshot
  <2>2. truth' = [truth EXCEPT ![o] = [truth[o] EXCEPT !.done = TRUE]]
    BY <1>3 DEF Finish
  <2>3. \A p \in Orders : truth[p] # None => truth[p].filled \in Nat
    BY SnapshotFields DEF IInv, ExchangeOK
  <2>4. truth'[o].filled = truth[o].filled /\ truth'[o] # None
    BY <1>1, <2>1, <2>2, SnapshotFields DEF IInv, ExchangeOK
  <2>5. FillsGrow
    BY <1>1, <2>2, <2>3, <2>4 DEF FillsGrow, IInv, ExchangeOK
  <2>6. CountsOK'
    BY <1>2, <2>5, CountsKept DEF CountedOK
  <2> DEFINE k == [op |-> "canceled", id |-> o, then |-> then,
                   reply |-> [truth[o] EXCEPT !.done = TRUE]]
  <2>7. /\ k \in Calls /\ WaitFor(c, k)
        /\ k.op = "canceled" /\ k.id = o /\ k.reply.filled = truth[o].filled
    BY <1>1, <1>3, <2>1, CallTypes
  <2> HIDE DEF k
  <2>8. AsksOK'
    BY <1>1, <1>2, <2>4, <2>7, AskStep DEF IInv, o, HasReply
  <2>9. QED
    BY <2>6, <2>8 DEF CountedOK
<1>4. ASSUME NEW k \in Calls, k.id = o, k.op \in {"canceled", "cancelFetch"},
             k.op = "canceled" => k.reply = truth[o],
             WaitFor(c, k), UNCHANGED truth
      PROVE  CountedOK'
  <2>1. CountsOK'
    BY <1>2, <1>4, CountsKept, NothingFilled DEF CountedOK, IInv
  <2>2. AsksOK'
    BY <1>1, <1>2, <1>4, AskStep DEF IInv, o, HasReply
  <2>3. QED
    BY <2>1, <2>2 DEF CountedOK
<1>5. CASE /\ WaitFor(c, [op |-> "canceled", id |-> o, then |-> then, reply |-> truth[o]])
           /\ UNCHANGED truth
  BY <1>1, <1>4, <1>5, CallTypes
<1>6. CASE /\ WaitFor(c, [op |-> "cancelFetch", id |-> o, then |-> then, from |-> truth[o]])
           /\ UNCHANGED truth
  BY <1>1, <1>4, <1>6, CallTypes
<1>7. QED
  BY <1>3, <1>5, <1>6 DEF SendCancel, o

\* One coroutine keeps the counts right, one step for every action.
LEMMA CountedStep ==
    ASSUME IInv, IInv', CountedOK, OneCaller, [Next]_vars
    PROVE  CountedOK'
<1> USE SeenIsSnapshot, SeenIsNotAhead
<1>1. Idle \in Calls /\ ~HasOrder(Idle)
  BY CallTypes DEF HasOrder, Idle
<1>2. \A o \in Orders : truth[o] # None => truth[o].filled \in Nat
  BY SnapshotFields DEF IInv, ExchangeOK
<1>3. ASSUME NEW o \in Orders, Fill(o) \/ Expire(o) PROVE CountedOK'
  <2>1. /\ UNCHANGED <<last, counted, call>>
        /\ truth[o] \in Snapshot
        /\ \A p \in Orders : p # o => truth'[p] = truth[p]
    BY <1>3 DEF Fill, Expire, Finish, IsOpen, IInv, ExchangeOK
  <2>2. truth'[o] # None /\ truth[o].filled <= truth'[o].filled
    <3>1. CASE Fill(o)
      <4>1. truth'[o] = [done |-> truth[o].filled + 1 = Qty, filled |-> truth[o].filled + 1]
        BY <2>1, <3>1 DEF Fill, IInv, ExchangeOK
      <4>2. truth'[o].filled = truth[o].filled + 1 /\ truth[o].filled \in Nat
        BY <2>1, <4>1, SnapshotFields
      <4>3. truth'[o] # None
        BY <3>1, FillStep, <2>1, SnapshotFields DEF IInv, OrdersStay
      <4>4. QED
        BY <4>2, <4>3
    <3>2. CASE Expire(o)
      <4>1. truth'[o] = [truth[o] EXCEPT !.done = TRUE]
        BY <2>1, <3>2 DEF Expire, Finish, IInv, ExchangeOK
      <4>2. truth'[o].filled = truth[o].filled /\ truth'[o] \in Snapshot
        BY <2>1, <4>1 DEF Snapshot
      <4>3. QED
        BY <1>2, <2>1, <4>2, SnapshotFields
    <3>3. QED
      BY <1>3, <3>1, <3>2
  <2>3. FillsGrow
    BY <1>2, <2>1, <2>2 DEF FillsGrow
  <2>4. CountsOK'
    BY <2>1, <2>3, CountsKept DEF CountedOK
  <2>5. ASSUME NEW d \in Callers PROVE AskOK(call[d])'
    <3>1. AskOK(call[d]) /\ call'[d] = call[d] /\ call[d] \in Calls
      BY <2>1 DEF CountedOK, AsksOK, IInv, CallsOK
    <3>2. CASE HasReply(call[d])
      <4>1. /\ call[d].id \in Orders /\ truth[call[d].id] # None
            /\ call[d].reply.filled \in Nat
        BY <3>1, <3>2, CallShape, SnapshotFields DEF HasOrder, HasReply, IInv, CallsOK
      <4>2. truth[call[d].id].filled \in Nat /\ truth'[call[d].id].filled \in Nat
        BY <1>2, <2>3, <4>1, SnapshotFields DEF FillsGrow, IInv, ExchangeOK
      <4>3. QED
        BY <2>1, <2>3, <3>1, <3>2, <4>1, <4>2 DEF AskOK, FillsGrow, HasReply
    <3>3. CASE ~HasReply(call[d])
      BY <2>1, <3>1, <3>3 DEF AskOK, HasReply
    <3>4. QED
      BY <3>2, <3>3
  <2>6. QED
    BY <2>4, <2>5 DEF CountedOK, AsksOK
<1>4. ASSUME UNCHANGED <<truth, last, counted, call>> PROVE CountedOK'
  BY <1>4 DEF CountedOK, CountsOK, AsksOK, AskOK, HasReply
<1>5. ASSUME NEW c \in Callers, NEW k \in Calls, WaitFor(c, k), ~HasOrder(k),
             UNCHANGED <<truth, last, counted>>
      PROVE  CountedOK'
  BY <1>5, CountsKept, NothingFilled, EndStep DEF CountedOK, IInv
<1>6. ASSUME NEW c \in Callers, NEW s \in Sides, NEW op \in {"placed", "marketPlaced"},
             Refuse(c, s) \/ \E o \in Orders : Send(c, o, s, op)
      PROVE  CountedOK'
  <2>1. CASE Refuse(c, s)
    BY <1>5, <2>1, CallTypes DEF Refuse, HasOrder
  <2>2. ASSUME NEW o \in Orders, Send(c, o, s, op) PROVE CountedOK'
    <3>1. truth[o] = None /\ UNCHANGED <<last, counted>>
      BY <2>2 DEF Send
    <3>2. PICK a \in Snapshot, k \in Calls :
             /\ truth' = [truth EXCEPT ![o] = a] /\ truth'[o] = a
             /\ WaitFor(c, k) /\ k.op = op /\ k.id = o /\ k.reply = a
      BY <2>2, SendPicks DEF IInv
    <3>3. FillsGrow
      BY <1>2, <3>1, <3>2 DEF FillsGrow, IInv, ExchangeOK
    <3>4. CountsOK'
      BY <3>1, <3>3, CountsKept DEF CountedOK
    <3>5. counted'[o] = 0 /\ a.filled \in Nat
      BY <3>1, SnapshotFields DEF CountedOK, CountsOK
    <3>6. AsksOK'
      BY <3>2, <3>5, AskStep DEF IInv, HasReply
    <3>7. QED
      BY <3>4, <3>6 DEF CountedOK
  <2>3. QED
    BY <1>6, <2>1, <2>2
<1>7. ASSUME NEW c \in Callers, NEW s \in Sides,
             PlaceMarketOrder(c, s) \/ PlaceTrailingLimitOrder(c, s)
      PROVE  CountedOK'
  BY <1>6, <1>7, LimitOp DEF PlaceMarketOrder, PlaceTrailingLimitOrder
<1>8. ASSUME NEW c \in Callers, PlaceRepriced(c) PROVE CountedOK'
  <2>1. call[c].then \in Sides
    BY <1>8, CallShape DEF PlaceRepriced, IInv, CallsOK
  <2>2. QED
    BY <1>6, <1>8, <2>1, LimitOp DEF PlaceRepriced
<1>9. ASSUME NEW c \in Callers, NEW s \in Sides, Reprice(c, s) PROVE CountedOK'
  BY <1>9, CancelAsks DEF Reprice, MaybeSide
<1>10. ASSUME NEW c \in Callers, CancelOrder(c) PROVE CountedOK'
  BY <1>10, CancelAsks DEF CancelOrder, MaybeSide
<1>11. ASSUME NEW c \in Callers, HasOrder(call[c])
       PROVE  /\ call[c] \in Calls /\ call[c].id \in Orders /\ truth[call[c].id] # None
              /\ HasReply(call[c]) => call[c].reply \in Snapshot
              /\ HasReply(call[c]) => call[c].reply.filled <= truth[call[c].id].filled
              /\ call[c].op \in {"canceled", "cancelFetch"} => call[c].then \in MaybeSide
              /\ \/ counted[call[c].id] = 0
                 \/ last # None /\ last.id = call[c].id
  BY <1>11, CallShape DEF IInv, CallsOK, CountedOK, AsksOK, AskOK, HasOrder, HasReply
<1>12. ASSUME NEW c \in Callers, HasOrder(call[c]), UNCHANGED truth,
              \/ \E s \in Snapshot : /\ s.filled <= truth[call[c].id].filled
                                     /\ Track(call[c].id, s)
              \/ TrackNone
       PROVE  CountsOK'
  BY <1>11, <1>12, TrackCounts, NoneCounts DEF CountedOK
<1>13. ASSUME NEW c \in Callers, PlaceReturns(c) \/ MarketReturns(c) \/ SyncReturns(c)
       PROVE  CountedOK'
  <2>1. HasOrder(call[c]) /\ UNCHANGED truth /\ WaitFor(c, Idle)
    BY <1>13 DEF PlaceReturns, MarketReturns, SyncReturns, HasOrder, env
  <2>2. CountsOK'
    BY <1>11, <1>12, <1>13, <2>1 DEF PlaceReturns, MarketReturns, SyncReturns, Since, HasReply
  <2>3. QED
    BY <1>1, <2>1, <2>2, EndStep DEF CountedOK, IInv
<1>14. ASSUME NEW c \in Callers, CancelReturns(c) \/ CancelFetchReturns(c) PROVE CountedOK'
  <2>1. /\ HasOrder(call[c]) /\ UNCHANGED truth
        /\ call[c].op \in {"canceled", "cancelFetch"}
    BY <1>14 DEF CancelReturns, CancelFetchReturns, HasOrder, env
  <2>2. CASE /\ \/ \E s \in Snapshot : /\ s.filled <= truth[call[c].id].filled
                                       /\ Track(call[c].id, s)
                \/ TrackNone
             /\ \E s \in Snapshot : AfterCancel(c, call[c].then, s)
    <3>1. CountsOK'
      BY <1>12, <2>1, <2>2
    <3>2. PICK k \in Calls : WaitFor(c, k) /\ ~HasOrder(k)
      BY <1>11, <2>1, <2>2, AfterCancelWaits
    <3>3. QED
      BY <3>1, <3>2, EndStep DEF CountedOK, IInv
  <2>3. CASE CancelFetchReturns(c)
    BY <1>11, <2>1, <2>2, <2>3, NewOrderType DEF CancelFetchReturns, Since
  <2>4. CASE CancelReturns(c)
    <3>1. ASSUME NEW k \in Calls, k.op = "cancelFetch", k.id = call[c].id, WaitFor(c, k),
                 UNCHANGED <<last, pos, counted, base>>
          PROVE  CountedOK'
      <4>1. last' # None /\ last'.id = call[c].id
        BY <2>1, <3>1 DEF CountedOK, AsksOK, AskOK
      <4>2. AsksOK'
        BY <3>1, <4>1, AskStep DEF IInv, HasReply
      <4>3. CountsOK'
        BY <2>1, <3>1, CountsKept, NothingFilled DEF CountedOK, IInv
      <4>4. QED
        BY <4>2, <4>3 DEF CountedOK
    <3>2. call[c].reply \in Snapshot /\ call[c].reply.filled <= truth[call[c].id].filled
      BY <1>11, <2>1, <2>4, CancelAnswers
    <3>3. QED
      BY <1>11, <2>1, <2>2, <2>4, <3>1, <3>2, CancelAnswers
  <2>5. QED
    BY <1>14, <2>3, <2>4
<1>15. ASSUME NEW c \in Callers, AdjustToBalance(c) PROVE CountedOK'
  BY <1>1, <1>5, <1>15 DEF AdjustToBalance
<1>16. ASSUME NEW c \in Callers, SyncFromStore(c) PROVE CountedOK'
  <2>1. /\ UNCHANGED <<truth, call>> /\ last # None
        /\ last.id \in Orders /\ truth[last.id] # None
    BY <1>16 DEF SyncFromStore, IInv, PositionOK
  <2>2. PICK s \in Had(last.id) : Track(last.id, s)
    BY <1>16 DEF SyncFromStore
  <2>3. CountsOK'
    BY <2>1, <2>2, TrackCounts DEF CountedOK
  <2>4. \A d \in Callers : call[d] = Idle
    BY <1>16 DEF SyncFromStore, OneCaller
  <2>5. AsksOK'
    BY <2>1, <2>4 DEF AsksOK, AskOK, HasReply, Idle
  <2>6. QED
    BY <2>3, <2>5 DEF CountedOK
<1>17. ASSUME NEW c \in Callers, SyncFromExchange(c) PROVE CountedOK'
  <2> DEFINE k == [op |-> "syncFetch", id |-> last.id, from |-> truth[last.id]]
  <2>1. /\ UNCHANGED <<truth, last, counted>> /\ last # None
        /\ last.id \in Orders /\ truth[last.id] \in Snapshot
    BY <1>17 DEF SyncFromExchange, IInv, PositionOK, ExchangeOK
  <2>2. k \in Calls /\ WaitFor(c, k) /\ k.op = "syncFetch" /\ k.id = last.id
    BY <1>17, <2>1, CallTypes DEF SyncFromExchange
  <2> HIDE DEF k
  <2>3. AsksOK'
    BY <2>1, <2>2, AskStep DEF IInv, HasReply
  <2>4. CountsOK'
    BY <2>1, CountsKept, NothingFilled DEF CountedOK, IInv
  <2>5. QED
    BY <2>3, <2>4 DEF CountedOK
<1>18. ASSUME NEW c \in Callers, CallFails(c) PROVE CountedOK'
  <2>1. UNCHANGED truth
    BY <1>18 DEF CallFails, env
  <2>2. CASE /\ call[c].op = "canceled"
             /\ WaitFor(c, [op |-> "cancelFetch", id |-> call[c].id,
                            from |-> call[c].reply, then |-> call[c].then])
             /\ UNCHANGED <<last, pos, counted, base>>
    <3> DEFINE k == [op |-> "cancelFetch", id |-> call[c].id,
                     from |-> call[c].reply, then |-> call[c].then]
    <3>1. HasOrder(call[c]) /\ HasReply(call[c])
      BY <2>2 DEF HasOrder, HasReply
    <3>2. k \in Calls /\ WaitFor(c, k) /\ k.op = "cancelFetch" /\ k.id = call[c].id
      BY <1>11, <2>2, <3>1, CallTypes
    <3> HIDE DEF k
    <3>3. last' # None /\ last'.id = call[c].id
      BY <2>2 DEF CountedOK, AsksOK, AskOK
    <3>4. AsksOK'
      BY <3>2, <3>3, AskStep DEF IInv, HasReply
    <3>5. CountsOK'
      BY <2>1, <2>2, CountsKept, NothingFilled DEF CountedOK, IInv
    <3>6. QED
      BY <3>4, <3>5 DEF CountedOK
  <2>3. CASE TrackNone /\ WaitFor(c, Idle)
    BY <1>1, <2>1, <2>3, NoneCounts, EndStep DEF CountedOK, IInv
  <2>4. CASE WaitFor(c, Idle) /\ UNCHANGED <<last, pos, counted, base>>
    BY <1>1, <1>5, <2>1, <2>4
  <2>5. QED
    BY <1>18, <2>2, <2>3, <2>4 DEF CallFails
<1>19. ASSUME NEW c \in Callers, NEW s \in Sides, SetSide(c, s) PROVE CountedOK'
  BY <1>4, <1>19 DEF SetSide
<1>20. CASE UNCHANGED vars
  BY <1>4, <1>20 DEF vars
<1>21. QED
  BY <1>3, <1>7, <1>8, <1>9, <1>10, <1>13, <1>14, <1>15, <1>16, <1>17, <1>18, <1>19, <1>20
  DEF Next

LEMMA CountedInit == Init => CountedOK
BY DEF Init, CountedOK, CountsOK, AsksOK, AskOK, HasReply, Idle

\* At any time finitely many orders were placed, and so finitely many lots
\* traded: a step places at most one.
PlacedOrders == {o \in Orders : truth[o] # None}

FinitelyPlaced == IsFiniteSet(PlacedOrders)

LEMMA OneOrderMoves ==
    ASSUME IInv, [Next]_vars
    PROVE  \E o : \A p \in Orders \ {o} : truth'[p] = truth[p]
<1>1. truth \in [Orders -> Snapshot \union {None}]
  BY DEF IInv, ExchangeOK
<1>2. ASSUME NEW o, Finish(o) PROVE \A p \in Orders \ {o} : truth'[p] = truth[p]
  BY <1>1, <1>2 DEF Finish
<1>3. ASSUME NEW o, Fill(o) \/ Expire(o)
      PROVE  \A p \in Orders \ {o} : truth'[p] = truth[p]
  BY <1>1, <1>2, <1>3 DEF Fill, Expire
<1>4. ASSUME NEW c, NEW o, NEW s, NEW op, Send(c, o, s, op)
      PROVE  \A p \in Orders \ {o} : truth'[p] = truth[p]
  BY <1>1, <1>4 DEF Send
<1>5. ASSUME NEW c, NEW s, NEW op, Refuse(c, s) \/ \E o \in Orders : Send(c, o, s, op)
      PROVE  \E o : \A p \in Orders \ {o} : truth'[p] = truth[p]
  BY <1>4, <1>5 DEF Refuse
<1>6. ASSUME NEW c, NEW then, SendCancel(c, then)
      PROVE  \A p \in Orders \ {last.id} : truth'[p] = truth[p]
  BY <1>2, <1>6 DEF SendCancel
<1>7. ASSUME NEW c, NEW s,
             \/ PlaceMarketOrder(c, s) \/ PlaceTrailingLimitOrder(c, s) \/ PlaceRepriced(c)
             \/ Reprice(c, s) \/ CancelOrder(c)
      PROVE  \E o : \A p \in Orders \ {o} : truth'[p] = truth[p]
  BY <1>5, <1>6, <1>7
  DEF PlaceMarketOrder, PlaceTrailingLimitOrder, PlaceRepriced, Reprice, CancelOrder
<1>8. ASSUME NEW c, NEW s,
             \/ SetSide(c, s) \/ PlaceReturns(c) \/ MarketReturns(c) \/ AdjustToBalance(c)
             \/ CancelReturns(c) \/ CancelFetchReturns(c) \/ SyncFromStore(c)
             \/ SyncFromExchange(c) \/ SyncReturns(c) \/ CallFails(c)
      PROVE  UNCHANGED truth
  BY <1>8 DEF SetSide, PlaceReturns, MarketReturns, AdjustToBalance, CancelReturns,
     CancelFetchReturns, SyncFromStore, SyncFromExchange, SyncReturns, CallFails, env
<1>9. QED
  BY <1>3, <1>7, <1>8 DEF Next, vars, env

LEMMA FinitelyPlacedStep ==
    ASSUME IInv, FinitelyPlaced, [Next]_vars
    PROVE  FinitelyPlaced'
<1>1. PICK o : \A p \in Orders \ {o} : truth'[p] = truth[p]
  BY OneOrderMoves
<1>2. IsFiniteSet(PlacedOrders \union {o})
  BY FS_AddElement DEF FinitelyPlaced
<1>3. PlacedOrders' \in SUBSET (PlacedOrders \union {o})
  BY <1>1 DEF PlacedOrders
<1>4. IsFiniteSet(PlacedOrders')
  BY <1>2, <1>3, FS_Subset
<1>5. QED
  BY <1>4 DEF FinitelyPlaced

LEMMA FinitelyPlacedInit == Init => FinitelyPlaced
<1> SUFFICES ASSUME Init PROVE FinitelyPlaced
  OBVIOUS
<1>1. PlacedOrders = {}
  BY DEF Init, PlacedOrders
<1>2. QED
  BY <1>1, FS_EmptySet DEF FinitelyPlaced

\* What is counted of every order bounds what is filled of a side.
LEMMA CountedIsTraded ==
    ASSUME IInv, FilledOK, CountsOK, FinitelyPlaced, NEW s \in Sides
    PROVE  pos.filled[s] <= Traded(s)
<1>1. Lots(s, FilledOf) \in SUBSET (PlacedOrders \X (1..Qty))
  <2>1. ASSUME NEW o \in Orders, NEW n \in 1..FilledOf[o]
        PROVE  o \in PlacedOrders /\ n \in 1..Qty
    <3>1. truth[o] # None
      BY <2>1 DEF FilledOf
    <3>2. truth[o] \in Snapshot
      BY <3>1 DEF IInv, ExchangeOK
    <3>3. QED
      BY <2>1, <3>1, <3>2, SnapshotFields DEF FilledOf, PlacedOrders
  <2>2. QED
    BY <2>1 DEF Lots
<1>2. IsFiniteSet(1..Qty)
  BY FS_Interval
<1>3. IsFiniteSet(PlacedOrders \X (1..Qty))
  BY <1>2, FS_Product DEF FinitelyPlaced
<1>4. IsFiniteSet(Lots(s, FilledOf))
  BY <1>1, <1>3, FS_Subset
<1>5. Lots(s, counted) \in SUBSET Lots(s, FilledOf)
  <2>1. ASSUME NEW o \in Orders PROVE 1..counted[o] \subseteq 1..FilledOf[o]
    <3>1. CASE truth[o] = None
      BY <3>1 DEF FilledOK
    <3>2. CASE truth[o] # None
      <4>1. truth[o] \in Snapshot /\ counted[o] \in Nat
        BY <3>2 DEF IInv, ExchangeOK, PositionOK
      <4>2. counted[o] <= truth[o].filled /\ FilledOf[o] = truth[o].filled
        BY <3>2 DEF CountsOK, FilledOf
      <4>3. QED
        BY <4>1, <4>2, SnapshotFields
    <3>3. QED
      BY <3>1, <3>2
  <2>2. QED
    BY <2>1 DEF Lots
<1>6. Cardinality(Lots(s, counted)) <= Cardinality(Lots(s, FilledOf))
  BY <1>4, <1>5, FS_Subset
<1>7. QED
  BY <1>6 DEF FilledOK, Traded

(***************************************************************************)
(* With one coroutine no fill is counted twice, on any exchange and        *)
(* whatever is lost or refused: nothing compares the ids of the two orders *)
(* in _track_order_execution, but one that is not the tracked one was      *)
(* placed just now and has nothing counted yet.  The filled amount of a    *)
(* side is therefore never ahead of what the exchange traded on it.  Two   *)
(* coroutines break it (the run position_two_callers).                     *)
(***************************************************************************)
THEOREM NoFillCountedTwice == OneCaller => (Spec => []NoOvercount)
<1> SUFFICES ASSUME OneCaller PROVE Spec => []NoOvercount
  OBVIOUS
<1>1. IInv /\ FilledOK /\ CountedOK /\ FinitelyPlaced => NoOvercount
  BY CountedIsTraded DEF CountedOK, CountsOK, NoOvercount
<1>2. IInv /\ IInv' /\ CountedOK /\ [Next]_vars => CountedOK'
  BY CountedStep
<1>3. IInv /\ FinitelyPlaced /\ [Next]_vars => FinitelyPlaced'
  BY FinitelyPlacedStep
<1>4. QED
  BY <1>1, <1>2, <1>3, CountedInit, FinitelyPlacedInit, FilledInvariance, PTL DEF Spec

-----------------------------------------------------------------------------
(* One coroutine, no market orders, and no answer that is lost.            *)

NoMarketOrders == "market" \notin Ops
NoLostAnswers  == "timeout" \notin Faults

\* What an answer leads to: nothing, or the next placement.
LEMMA AfterCancelWaitsFor ==
    ASSUME NEW c \in Callers, NEW then, NEW s, AfterCancel(c, then, s)
    PROVE  \E k : /\ WaitFor(c, k) /\ k.op \in {"idle", "reprice"}
                  /\ k.op = "reprice" => FALSE \in IsFilled(s)
<1>1. PICK filled \in IsFilled(s) :
        WaitFor(c, IF then # None /\ ~filled THEN [op |-> "reprice", then |-> then] ELSE Idle)
  BY DEF AfterCancel
<1>2. CASE then # None /\ ~filled
  <2>1. FALSE \in IsFilled(s)
    <3>1. filled \in BOOLEAN
      BY <1>1 DEF IsFilled
    <3>2. filled = FALSE
      BY <1>2, <3>1
    <3>3. QED
      BY <1>1, <3>2
  <2>2. QED
    BY <1>1, <1>2, <2>1
<1>3. CASE ~(then # None /\ ~filled)
  <2>1. WaitFor(c, Idle)
    BY <1>1, <1>3
  <2>2. Idle.op = "idle"
    BY DEF Idle
  <2>3. QED
    BY <2>1, <2>2
<1>4. QED
  BY <1>2, <1>3

\* The trailing goes on only after an order that looks finished, if it is.
LEMMA UnfilledLooksDone ==
    ASSUME NEW s \in Snapshot, s.done, FALSE \in IsFilled(s)
    PROVE  LooksDone(s)
<1>1. CASE IsFutures /\ PartFilled(s)
  <2>1. IsFilled(s) = {TRUE}
    BY <1>1 DEF IsFilled, IsMexc, IsFutures
  <2>2. QED
    BY <2>1
<1>2. QED
  BY <1>1 DEF LooksDone

\* An order is placed when nothing is counted of one that is still tracked,
\* and only a finished order is asked about, in its last state.
FreshCall(k) ==
    /\ k.op \in {"placed", "marketPlaced", "reprice"} => LastFilled = 0
    /\ k.op \in {"canceled", "cancelFetch", "syncFetch"} => IsDone(k.id)
    /\ k.op = "canceled" => k.reply = truth[k.id]
    /\ k.op \in {"cancelFetch", "syncFetch"} => k.from = truth[k.id]

FreshCalls == \A c \in Callers : FreshCall(call[c])

FreshOK == TrackedIsCounted /\ FreshCalls

Tracked(o) == last # None /\ last.id = o

\* What one coroutine waits for, every one does.
LEMMA OneWaits ==
    ASSUME OneCaller, CallsOK, NEW c \in Callers, NEW k, WaitFor(c, k)
    PROVE  (\A d \in Callers : call'[d] = k) /\ (\A d \in Callers : call[d] = call[c])
BY DEF OneCaller, CallsOK, WaitFor

\* The tracked order is counted again, or a new one with nothing to count.
LEMMA TrackTracked ==
    ASSUME IInv, TrackedIsCounted, NEW o \in Orders, NEW s \in Snapshot, Track(o, s),
           Tracked(o) \/ (counted[o] = 0 /\ LastFilled = 0)
    PROVE  /\ TrackedIsCounted'
           /\ ~(LastFilled > s.filled) =>
                 last' = IF LooksDone(s) THEN None ELSE [id |-> o, filled |-> s.filled]
<1>1. CASE LastFilled > s.filled
  BY <1>1 DEF Track, TrackedIsCounted
<1>2. CASE ~(LastFilled > s.filled)
  <2>1. LastFilled \in Nat /\ s.filled \in Nat /\ counted \in [Orders -> Nat]
    BY SnapshotFields DEF LastFilled, IInv, PositionOK
  <2>2. counted[o] = LastFilled
    BY DEF LastFilled, TrackedIsCounted, Tracked
  <2>3. /\ counted' = [counted EXCEPT ![o] = @ + (s.filled - LastFilled)]
        /\ last' = IF LooksDone(s) THEN None ELSE [id |-> o, filled |-> s.filled]
    BY <1>2 DEF Track, Count
  <2>4. counted'[o] = s.filled
    BY <2>1, <2>2, <2>3
  <2>5. QED
    BY <2>3, <2>4 DEF TrackedIsCounted
<1>3. QED
  BY <1>1, <1>2

LEMMA FreshWait ==
    ASSUME IInv, FreshOK, OneCaller, NEW c \in Callers, NEW k, WaitFor(c, k), FreshCall(k)',
           UNCHANGED <<last, counted>>
    PROVE  FreshOK'
BY OneWaits DEF FreshOK, FreshCalls, TrackedIsCounted, IInv

\* An answer about the tracked or the new order, after which the coroutine is
\* idle, or places the next one because the answer is not filled.
LEMMA FreshAnswer ==
    ASSUME IInv, CountedOK, FreshOK, OneCaller, NEW c \in Callers, HasOrder(call[c]),
           NEW s \in Snapshot, Track(call[c].id, s), UNCHANGED env,
           NEW k, WaitFor(c, k), k.op \in {"idle", "reprice"},
           k.op = "reprice" =>
              /\ call[c].op \in {"canceled", "cancelFetch"}
              /\ s.filled = truth[call[c].id].filled
              /\ LooksDone(s) \/ s.filled = 0
    PROVE  FreshOK'
<1>1. /\ call[c].id \in Orders /\ truth[call[c].id] # None
      /\ AskOK(call[c]) /\ FreshCall(call[c])
  BY CallShape DEF IInv, CallsOK, CountedOK, AsksOK, FreshOK, FreshCalls
<1>2. PICK o \in Orders : o = call[c].id
  BY <1>1
<1>3. Tracked(o) \/ (counted[o] = 0 /\ LastFilled = 0)
  BY <1>1, <1>2 DEF HasOrder, AskOK, FreshCall, Tracked
<1>4. /\ TrackedIsCounted'
      /\ ~(LastFilled > s.filled) =>
            last' = IF LooksDone(s) THEN None ELSE [id |-> o, filled |-> s.filled]
  BY <1>2, <1>3, TrackTracked DEF FreshOK
<1>5. ASSUME k.op = "reprice" PROVE LastFilled' = 0
  <2>1. Tracked(o)
    BY <1>1, <1>2, <1>5 DEF AskOK, Tracked
  <2>2. LastFilled = counted[o] /\ counted[o] <= truth[o].filled
    BY <1>1, <1>2, <2>1 DEF LastFilled, FreshOK, TrackedIsCounted, Tracked, CountedOK, CountsOK
  <2>3. LastFilled \in Nat /\ s.filled \in Nat
    BY SnapshotFields DEF LastFilled, IInv, PositionOK
  <2>4. last' = IF LooksDone(s) THEN None ELSE [id |-> o, filled |-> s.filled]
    BY <1>2, <1>4, <1>5, <2>2, <2>3
  <2>5. CASE LooksDone(s)
    BY <2>4, <2>5 DEF LastFilled
  <2>6. CASE ~LooksDone(s)
    BY <1>5, <2>4, <2>6 DEF LastFilled
  <2>7. QED
    BY <2>5, <2>6
<1>6. FreshCall(k)'
  BY <1>5 DEF FreshCall
<1>7. QED
  BY <1>4, <1>6, OneWaits DEF FreshOK, FreshCalls, IInv

\* No order: the coroutine is idle or places the next.
LEMMA FreshNone ==
    ASSUME IInv, OneCaller, NEW c \in Callers, TrackNone, NEW k, WaitFor(c, k),
           k.op \in {"idle", "reprice"}
    PROVE  FreshOK'
<1>1. TrackedIsCounted' /\ LastFilled' = 0
  BY DEF TrackNone, TrackedIsCounted, LastFilled
<1>2. FreshCall(k)'
  BY <1>1 DEF FreshCall
<1>3. QED
  BY <1>1, <1>2, OneWaits DEF FreshOK, FreshCalls, IInv

LEMMA FreshPlace ==
    ASSUME IInv, FreshOK, OneCaller, NEW c \in Callers, NEW s \in Sides, LastFilled = 0,
           NEW op \in {"placed", "marketPlaced"},
           Refuse(c, s) \/ \E o \in Orders : Send(c, o, s, op)
    PROVE  FreshOK'
<1>1. CASE Refuse(c, s)
  <2>1. PICK k : WaitFor(c, k) /\ k.op = "rejected" /\ UNCHANGED <<last, counted>>
    BY <1>1 DEF Refuse
  <2>2. FreshCall(k)'
    BY <2>1 DEF FreshCall
  <2>3. QED
    BY <2>1, <2>2, FreshWait
<1>2. ASSUME NEW o \in Orders, Send(c, o, s, op) PROVE FreshOK'
  <2>1. UNCHANGED <<last, counted>>
    BY <1>2 DEF Send
  <2>2. PICK k : WaitFor(c, k) /\ k.op = op
    BY <1>2, SendPicks DEF IInv
  <2>3. FreshCall(k)'
    BY <2>1, <2>2 DEF FreshCall, LastFilled
  <2>4. QED
    BY <2>1, <2>2, <2>3, FreshWait
<1>3. QED
  BY <1>1, <1>2

\* The cancel finishes the order, or finds it finished.
LEMMA FreshCancel ==
    ASSUME NoLostAnswers, IInv, FreshOK, OneCaller, NEW c \in Callers,
           NEW then \in MaybeSide, last # None, SendCancel(c, then)
    PROVE  FreshOK'
<1>1. PICK o \in Orders : o = last.id /\ truth[o] \in Snapshot
  <2>1. last.id \in Orders /\ truth[last.id] \in Snapshot
    BY DEF IInv, PositionOK, ExchangeOK
  <2>2. QED
    BY <2>1
<1>2. UNCHANGED <<last, counted>>
  BY DEF SendCancel
<1>3. ASSUME NEW r, r \in Snapshot, r.done, truth'[o] = r, NEW k, WaitFor(c, k), k.id = o,
             \/ k.op = "canceled" /\ k.reply = r
             \/ k.op = "cancelFetch" /\ k.from = r
      PROVE  FreshOK'
  <2>1. r # None
    BY <1>3, SnapshotFields
  <2>2. FreshCall(k)'
    BY <1>3, <2>1 DEF FreshCall, IsDone
  <2>3. QED
    BY <1>2, <1>3, <2>2, FreshWait
<1>4. CASE /\ IsOpen(o)
           /\ Finish(o)
           /\ WaitFor(c, [op |-> "canceled", id |-> o, then |-> then,
                          reply |-> [truth[o] EXCEPT !.done = TRUE]])
  <2> DEFINE r == [truth[o] EXCEPT !.done = TRUE]
             q == [op |-> "canceled", id |-> o, then |-> then, reply |-> r]
  <2>1. r \in Snapshot /\ r.done
    BY <1>1 DEF Snapshot
  <2>2. truth'[o] = r
    BY <1>1, <1>4 DEF Finish, IInv, ExchangeOK
  <2>3. WaitFor(c, q) /\ q.id = o /\ q.op = "canceled" /\ q.reply = r
    BY <1>4
  <2> HIDE DEF q, r
  <2>4. QED
    BY <1>3, <2>1, <2>2, <2>3
<1>5. CASE /\ IsDone(o)
           /\ WaitFor(c, [op |-> "canceled", id |-> o, then |-> then, reply |-> truth[o]])
           /\ UNCHANGED truth
  <2> DEFINE q == [op |-> "canceled", id |-> o, then |-> then, reply |-> truth[o]]
  <2>1. WaitFor(c, q) /\ q.id = o /\ q.op = "canceled" /\ q.reply = truth[o]
    BY <1>5
  <2> HIDE DEF q
  <2>2. QED
    BY <1>1, <1>3, <1>5, <2>1 DEF IsDone
<1>6. CASE /\ IsDone(o)
           /\ WaitFor(c, [op |-> "cancelFetch", id |-> o, then |-> then, from |-> truth[o]])
           /\ UNCHANGED truth
  <2> DEFINE q == [op |-> "cancelFetch", id |-> o, then |-> then, from |-> truth[o]]
  <2>1. WaitFor(c, q) /\ q.id = o /\ q.op = "cancelFetch" /\ q.from = truth[o]
    BY <1>6
  <2> HIDE DEF q
  <2>2. QED
    BY <1>1, <1>3, <1>6, <2>1 DEF IsDone
<1>7. QED
  BY <1>1, <1>4, <1>5, <1>6 DEF SendCancel, NoLostAnswers

\* The fetch after a cancel answers with the last state of the order, or with
\* the unfilled order that MEXC's order store still holds.
LEMMA FetchAfterCancel ==
    ASSUME IInv, FreshOK, NEW c \in Callers, call[c].op = "cancelFetch",
           NEW s \in Since(call[c].id, call[c].from)
    PROVE  /\ s \in Snapshot
           /\ s.filled = truth[call[c].id].filled
           /\ s.done \/ (IsMexc /\ s.filled = 0)
<1>1. /\ s \in Snapshot /\ s.filled <= truth[call[c].id].filled
      /\ s.filled >= call[c].from.filled
      /\ call[c].from.done => s.done \/ (IsMexc /\ s.filled = 0)
  BY DEF Since, Had
<1>2. IsDone(call[c].id) /\ call[c].from = truth[call[c].id]
  BY DEF FreshOK, FreshCalls, FreshCall
<1>3. s.filled \in Nat /\ call[c].from.filled \in Nat
  <2>1. call[c].from \in Snapshot
    BY CallShape DEF IInv, CallsOK
  <2>2. QED
    BY <1>1, <2>1, SnapshotFields
<1>4. QED
  BY <1>1, <1>2, <1>3 DEF IsDone

\* One step for every action.
LEMMA FreshStep ==
    ASSUME NoMarketOrders, NoLostAnswers, OneCaller, IInv, CountedOK, FreshOK, [Next]_vars
    PROVE  FreshOK'
<1> USE SeenIsSnapshot
<1>1. Idle.op = "idle" /\ FreshCall(Idle)'
  BY DEF Idle, FreshCall
<1>2. \A c \in Callers : FreshCall(call[c]) /\ call[c] \in Calls
  BY DEF FreshOK, FreshCalls, IInv, CallsOK
<1>3. ASSUME NEW o \in Orders, Fill(o) \/ Expire(o) PROVE FreshOK'
  <2>1. /\ UNCHANGED <<last, counted, call>> /\ IsOpen(o)
        /\ \A p \in Orders : p # o => truth'[p] = truth[p]
    BY <1>3 DEF Fill, Expire, Finish, IInv, ExchangeOK
  <2>2. ASSUME NEW c \in Callers PROVE FreshCall(call[c])'
    <3>1. CASE call[c].op \in {"canceled", "cancelFetch", "syncFetch"}
      <4>1. IsDone(call[c].id) /\ call[c].id # o
        BY <1>2, <2>1, <3>1 DEF FreshCall, IsDone, IsOpen
      <4>2. call[c].id \in Orders
        BY <1>2, <3>1, CallShape DEF HasOrder
      <4>3. QED
        BY <1>2, <2>1, <3>1, <4>1, <4>2 DEF FreshCall, IsDone
    <3>2. CASE call[c].op \notin {"canceled", "cancelFetch", "syncFetch"}
      BY <1>2, <2>1, <3>2 DEF FreshCall, LastFilled
    <3>3. QED
      BY <3>1, <3>2
  <2>3. QED
    BY <2>1, <2>2 DEF FreshOK, TrackedIsCounted, FreshCalls
<1>4. ASSUME NEW c \in Callers, NEW s \in Sides,
             PlaceMarketOrder(c, s) \/ PlaceTrailingLimitOrder(c, s)
      PROVE  FreshOK'
  <2>1. last = None => LastFilled = 0
    BY DEF LastFilled
  <2>2. QED
    BY <1>4, <2>1, LimitOp, FreshPlace
    DEF PlaceMarketOrder, PlaceTrailingLimitOrder, NoMarketOrders
<1>5. ASSUME NEW c \in Callers, PlaceRepriced(c) PROVE FreshOK'
  <2>1. call[c].then \in Sides /\ LastFilled = 0
    BY <1>2, <1>5, CallShape DEF PlaceRepriced, FreshCall
  <2>2. QED
    BY <1>5, <2>1, LimitOp, FreshPlace DEF PlaceRepriced
<1>6. ASSUME NEW c \in Callers, NEW s \in Sides, Reprice(c, s) PROVE FreshOK'
  BY <1>6, FreshCancel DEF Reprice, MaybeSide
<1>7. ASSUME NEW c \in Callers, CancelOrder(c) PROVE FreshOK'
  BY <1>7, FreshCancel DEF CancelOrder, MaybeSide
<1>8. ASSUME NEW c \in Callers, PlaceReturns(c) \/ MarketReturns(c) \/ SyncReturns(c)
      PROVE  FreshOK'
  <2>1. HasOrder(call[c]) /\ UNCHANGED env /\ WaitFor(c, Idle)
    BY <1>8 DEF PlaceReturns, MarketReturns, SyncReturns, HasOrder
  <2>2. call[c].id \in Orders /\ (HasReply(call[c]) => call[c].reply \in Snapshot)
    BY <1>2, <2>1, CallShape
  <2>3. (\E s \in Snapshot : Track(call[c].id, s)) \/ TrackNone
    BY <1>8, <2>2 DEF PlaceReturns, MarketReturns, SyncReturns, HasReply
  <2>4. QED
    BY <1>1, <2>1, <2>3, FreshAnswer, FreshNone
<1>9. ASSUME NEW c \in Callers, CancelReturns(c) PROVE FreshOK'
  <2> DEFINE s == call[c].reply
  <2>1. /\ call[c].op = "canceled" /\ HasOrder(call[c]) /\ UNCHANGED env
        /\ s \in Snapshot /\ s = truth[call[c].id] /\ IsDone(call[c].id)
    BY <1>2, <1>9, CancelAnswers, CallShape DEF FreshCall
  <2>2. CASE LooksDone(s) /\ Track(call[c].id, s) /\ AfterCancel(c, call[c].then, s)
    <3>1. PICK k : WaitFor(c, k) /\ k.op \in {"idle", "reprice"}
      BY <2>2, AfterCancelWaitsFor
    <3>2. QED
      BY <2>1, <2>2, <3>1, FreshAnswer
  <2>3. ASSUME NEW k, k.op = "cancelFetch", k.id = call[c].id, k.from = s, WaitFor(c, k),
               UNCHANGED <<last, pos, counted, base>>
        PROVE  FreshOK'
    <3>1. FreshCall(k)'
      BY <2>1, <2>3 DEF FreshCall, IsDone, env
    <3>2. QED
      BY <2>3, <3>1, FreshWait
  <2>4. QED
    BY <1>2, <1>9, <2>2, <2>3, CancelAnswers
<1>10. ASSUME NEW c \in Callers, CancelFetchReturns(c) PROVE FreshOK'
  <2>1. call[c].op = "cancelFetch" /\ HasOrder(call[c]) /\ UNCHANGED env
    BY <1>10 DEF CancelFetchReturns, HasOrder
  <2>2. CASE TrackNone /\ AfterCancel(c, call[c].then, NewOrder)
    BY <2>2, AfterCancelWaitsFor, FreshNone
  <2>3. ASSUME NEW s \in Since(call[c].id, call[c].from), Track(call[c].id, s),
               AfterCancel(c, call[c].then, s)
        PROVE  FreshOK'
    <3>1. /\ s \in Snapshot /\ s.filled = truth[call[c].id].filled
          /\ s.done \/ s.filled = 0
      BY <2>1, FetchAfterCancel
    <3>2. PICK k : /\ WaitFor(c, k) /\ k.op \in {"idle", "reprice"}
                   /\ k.op = "reprice" => FALSE \in IsFilled(s)
      BY <2>3, AfterCancelWaitsFor
    <3>3. k.op = "reprice" => LooksDone(s) \/ s.filled = 0
      BY <3>1, <3>2, UnfilledLooksDone
    <3>4. QED
      BY <2>1, <2>3, <3>1, <3>2, <3>3, FreshAnswer
  <2>4. QED
    BY <1>10, <2>2, <2>3 DEF CancelFetchReturns
<1>11. ASSUME NEW c \in Callers, SyncFromStore(c) PROVE FreshOK'
  <2>1. PICK o \in Orders : o = last.id /\ Tracked(o)
    BY <1>11 DEF SyncFromStore, Tracked, IInv, PositionOK
  <2>2. PICK s \in Snapshot : Track(o, s)
    BY <1>11, <2>1 DEF SyncFromStore
  <2>3. TrackedIsCounted'
    BY <2>1, <2>2, TrackTracked DEF FreshOK
  <2>4. UNCHANGED call /\ \A d \in Callers : call[d] = Idle
    BY <1>11 DEF SyncFromStore, OneCaller
  <2>5. QED
    BY <1>1, <2>3, <2>4 DEF FreshOK, FreshCalls
<1>12. ASSUME NEW c \in Callers, SyncFromExchange(c) PROVE FreshOK'
  <2>1. PICK k : /\ WaitFor(c, k) /\ k.op = "syncFetch" /\ k.id = last.id
                 /\ k.from = truth[last.id]
    BY <1>12 DEF SyncFromExchange
  <2>2. IsDone(last.id) /\ UNCHANGED <<truth, last, counted>>
    BY <1>12 DEF SyncFromExchange
  <2>3. FreshCall(k)'
    BY <2>1, <2>2 DEF FreshCall, IsDone
  <2>4. QED
    BY <2>1, <2>2, <2>3, FreshWait
<1>13. ASSUME NEW c \in Callers, AdjustToBalance(c) PROVE FreshOK'
  BY <1>1, <1>13, FreshWait DEF AdjustToBalance
<1>14. ASSUME NEW c \in Callers, CallFails(c) PROVE FALSE
  BY <1>14 DEF CallFails, NoLostAnswers
<1>15. ASSUME UNCHANGED <<truth, last, counted, call>> PROVE FreshOK'
  BY <1>15 DEF FreshOK, TrackedIsCounted, FreshCalls, FreshCall, IsDone, LastFilled
<1>16. ASSUME NEW c \in Callers, NEW s \in Sides, SetSide(c, s) PROVE FreshOK'
  BY <1>15, <1>16 DEF SetSide
<1>17. CASE UNCHANGED vars
  BY <1>15, <1>17 DEF vars
<1>18. QED
  BY <1>3, <1>4, <1>5, <1>6, <1>7, <1>8, <1>9, <1>10, <1>11, <1>12, <1>13, <1>14, <1>16, <1>17
  DEF Next

LEMMA FreshInvariance ==
    NoMarketOrders /\ NoLostAnswers /\ OneCaller => (Spec => [](IInv /\ CountedOK /\ FreshOK))
<1> SUFFICES ASSUME NoMarketOrders, NoLostAnswers, OneCaller
             PROVE  Spec => [](IInv /\ CountedOK /\ FreshOK)
  OBVIOUS
<1>1. Init => FreshOK
  BY DEF Init, FreshOK, FreshCalls, FreshCall, Idle, TrackedIsCounted
<1>2. IInv /\ IInv' /\ CountedOK /\ FreshOK /\ [Next]_vars => (CountedOK /\ FreshOK)'
  BY CountedStep, FreshStep
<1>3. QED
  BY <1>1, <1>2, CountedInit, Invariance, PTL DEF Spec

(***************************************************************************)
(* As long as no answer is lost, one coroutine with the operations of a    *)
(* limit leg (those of a futures account included) holds of its tracked    *)
(* order exactly what _last_order says, on every exchange,                 *)
(* for every number of orders, and also when orders are refused or unknown *)
(* or accepted with fills: an order is placed over one that is still       *)
(* tracked only while nothing of that one is counted, so that the update   *)
(* that _track_order_execution computes next is the new fill.              *)
(***************************************************************************)
THEOREM TrackedAreCounted ==
    NoMarketOrders /\ NoLostAnswers /\ OneCaller => (Spec => []TrackedIsCounted)
<1>1. FreshOK => TrackedIsCounted
  BY DEF FreshOK
<1>2. QED
  BY <1>1, FreshInvariance, PTL

-----------------------------------------------------------------------------
(* One coroutine, undisturbed: no answer is lost, no order is unknown or a *)
(* market order, and no MEXC trade makes an open order look finished.      *)

Undisturbed ==
    /\ "timeout" \notin Faults /\ "notFound" \notin Faults
    /\ "MEXC" \notin Exchanges
    /\ "market" \notin Ops

Settled(o) == truth[o].done /\ counted[o] = truth[o].filled

Placed(o) ==
    \E c \in Callers : call[c].op \in {"placed", "marketPlaced"} /\ call[c].id = o

\* An order is placed only when none is tracked, and if it was accepted as a
\* finished one it is as it was.
ExactCall(k) ==
    /\ k.op \in {"placed", "marketPlaced", "reprice"} => last = None
    /\ k.op \in {"placed", "marketPlaced"} /\ k.reply.done => k.reply = truth[k.id]

ExactCalls == \A c \in Callers : ExactCall(call[c])

\* Every order is finished and counted, or tracked, or just placed.
Accounted == \A o \in Orders : truth[o] # None => Settled(o) \/ Tracked(o) \/ Placed(o)

ExactOK == ExactCalls /\ Accounted

\* An answer about the tracked order, or about a new one while none is
\* tracked: what the order had filled is counted.
LEMMA TrackExact ==
    ASSUME IInv, CountsOK, TrackedIsCounted, NEW o \in Orders, truth[o] # None,
           NEW s \in Snapshot, s.done => s = truth[o], Track(o, s), UNCHANGED truth,
           Tracked(o) \/ (last = None /\ counted[o] = 0)
    PROVE  /\ Settled(o)' \/ Tracked(o)'
           /\ LooksDone(s) => last' = None
           /\ \A p \in Orders : p # o => counted'[p] = counted[p] /\ ~Tracked(p)
<1>1. LastFilled \in Nat /\ s.filled \in Nat /\ counted \in [Orders -> Nat]
  BY SnapshotFields DEF LastFilled, IInv, PositionOK
<1>2. counted[o] = LastFilled /\ \A p \in Orders : p # o => ~Tracked(p)
  BY DEF TrackedIsCounted, Tracked, LastFilled
<1>3. CASE LastFilled > s.filled
  <2>1. UNCHANGED <<last, counted>> /\ LastFilled # 0
    BY <1>1, <1>3 DEF Track
  <2>2. Tracked(o)
    BY <1>2, <2>1
  <2>3. counted[o] <= truth[o].filled
    BY DEF CountsOK
  <2>4. ~LooksDone(s)
    <3>1. ASSUME LooksDone(s) PROVE FALSE
      BY <1>1, <1>2, <1>3, <2>3, <3>1 DEF LooksDone
    <3>2. QED
      BY <3>1 DEF LooksDone
  <2>5. QED
    BY <1>2, <2>1, <2>2, <2>4 DEF Tracked
<1>4. CASE ~(LastFilled > s.filled)
  <2>1. /\ counted' = [counted EXCEPT ![o] = @ + (s.filled - LastFilled)]
        /\ last' = IF LooksDone(s) THEN None ELSE [id |-> o, filled |-> s.filled]
    BY <1>4 DEF Track, Count
  <2>2. counted'[o] = s.filled /\ \A p \in Orders : p # o => counted'[p] = counted[p]
    BY <1>1, <1>2, <2>1
  <2>3. CASE LooksDone(s)
    <3>1. last' = None /\ truth'[o] = s /\ s.done
      BY <2>1, <2>3 DEF LooksDone
    <3>2. Settled(o)'
      BY <2>2, <3>1 DEF Settled
    <3>3. QED
      BY <1>2, <2>2, <3>1, <3>2
  <2>4. CASE ~LooksDone(s)
    <3>1. last' = [id |-> o, filled |-> s.filled]
      BY <2>1, <2>4
    <3>2. last' # None
      <4>1. [id |-> o, filled |-> s.filled] \in [id : Orders, filled : 0..Qty]
        BY SnapshotFields
      <4>2. QED
        BY <3>1, <4>1
    <3>3. QED
      BY <1>2, <2>2, <2>4, <3>1, <3>2 DEF Tracked
  <2>5. QED
    BY <2>3, <2>4
<1>5. QED
  BY <1>3, <1>4

\* A call that says nothing new about an order, after one that placed none.
LEMMA ExactWait ==
    ASSUME IInv, ExactOK, OneCaller, NEW c \in Callers, NEW k, WaitFor(c, k), ExactCall(k)',
           call[c].op \notin {"placed", "marketPlaced"}, UNCHANGED <<truth, last, counted>>
    PROVE  ExactOK'
<1>1. ExactCalls'
  BY OneWaits DEF ExactCalls, IInv
<1>2. \A o \in Orders : ~Placed(o)
  BY OneWaits DEF Placed, IInv
<1>3. QED
  BY <1>1, <1>2 DEF ExactOK, Accounted, Settled, Tracked

\* An answer about the tracked or the new order.
LEMMA ExactAnswer ==
    ASSUME IInv, CountedOK, FreshOK, ExactOK, OneCaller, NEW c \in Callers,
           HasOrder(call[c]), NEW k, WaitFor(c, k), k.op \in {"idle", "reprice"},
           NEW s \in Snapshot, s.done => s = truth[call[c].id],
           k.op = "reprice" => LooksDone(s),
           Track(call[c].id, s), UNCHANGED truth
    PROVE  ExactOK'
<1>0. call[c].id \in Orders /\ truth[call[c].id] # None
  BY CallShape DEF IInv, CallsOK
<1>1. PICK o \in Orders : o = call[c].id /\ truth[o] # None
  BY <1>0
<1>2. Tracked(o) \/ (last = None /\ counted[o] = 0)
  BY <1>1 DEF HasOrder, CountedOK, AsksOK, AskOK, ExactOK, ExactCalls, ExactCall, Tracked
<1>3. \A p \in Orders : p # o => ~Placed(p)
  BY <1>1, OneWaits DEF Placed, IInv
<1>4. /\ Settled(o)' \/ Tracked(o)'
      /\ LooksDone(s) => last' = None
      /\ \A p \in Orders : p # o => counted'[p] = counted[p] /\ ~Tracked(p)
  <2>1. Track(o, s) /\ (s.done => s = truth[o])
    BY <1>1
  <2>2. QED
    BY <1>1, <1>2, <2>1, TrackExact DEF FreshOK, CountedOK
<1>5. ExactCalls'
  <2>1. ExactCall(k)'
    BY <1>4 DEF ExactCall
  <2>2. QED
    BY <2>1, OneWaits DEF ExactCalls, IInv
<1>6. Accounted'
  BY <1>1, <1>3, <1>4 DEF ExactOK, Accounted, Settled
<1>7. QED
  BY <1>5, <1>6 DEF ExactOK

\* The exchange accepts an order while none is tracked, or refuses it.
LEMMA ExactPlace ==
    ASSUME IInv, ExactOK, OneCaller, NEW c \in Callers, NEW s \in Sides,
           NEW op \in {"placed", "marketPlaced"},
           call[c].op \notin {"placed", "marketPlaced"}, last = None,
           Refuse(c, s) \/ \E o \in Orders : Send(c, o, s, op)
    PROVE  ExactOK'
<1>1. CASE Refuse(c, s)
  <2>1. PICK k : /\ WaitFor(c, k) /\ k.op = "rejected"
                 /\ UNCHANGED <<truth, last, counted>>
    BY <1>1 DEF Refuse
  <2>2. ExactCall(k)'
    BY <2>1 DEF ExactCall
  <2>3. QED
    BY <2>1, <2>2, ExactWait
<1>2. ASSUME NEW o \in Orders, Send(c, o, s, op) PROVE ExactOK'
  <2>1. UNCHANGED <<last, counted>>
    BY <1>2 DEF Send
  <2>2. PICK a \in Accepted, k \in Calls :
          /\ truth' = [truth EXCEPT ![o] = a] /\ truth'[o] = a
          /\ WaitFor(c, k) /\ k.op = op /\ k.id = o /\ k.reply = a
    BY <1>2, SendPicks DEF IInv
  <2>3. \A p \in Orders : p # o => truth'[p] = truth[p]
    BY <2>2 DEF IInv, ExchangeOK
  <2>4. ExactCall(k)'
    BY <2>1, <2>2 DEF ExactCall
  <2>5. ExactCalls'
    BY <2>2, <2>4, OneWaits DEF ExactCalls, IInv
  <2>6. Placed(o)'
    BY <2>2, OneWaits DEF Placed, IInv
  <2>7. \A p \in Orders : ~Placed(p) /\ ~Tracked(p)
    BY <2>1, <2>2, OneWaits DEF Placed, Tracked, IInv
  <2>8. Accounted'
    BY <2>1, <2>3, <2>6, <2>7 DEF ExactOK, Accounted, Settled
  <2>9. QED
    BY <2>5, <2>8 DEF ExactOK
<1>3. QED
  BY <1>1, <1>2

\* The cancel finishes the order, or finds it finished.
LEMMA ExactCancel ==
    ASSUME NoLostAnswers, IInv, ExactOK, OneCaller, NEW c \in Callers,
           NEW then \in MaybeSide, call[c] = Idle, last # None, SendCancel(c, then)
    PROVE  ExactOK'
<1>1. PICK o \in Orders : o = last.id /\ Tracked(o)
  <2>1. last.id \in Orders /\ Tracked(last.id)
    BY DEF IInv, PositionOK, Tracked
  <2>2. QED
    BY <2>1
<1>2. UNCHANGED <<last, counted>>
  BY DEF SendCancel
<1>3. \A p \in Orders : p # o => truth'[p] = truth[p]
  BY <1>1 DEF SendCancel, Finish, IInv, ExchangeOK
<1>4. PICK k : WaitFor(c, k) /\ k.op \in {"canceled", "cancelFetch"}
  BY DEF SendCancel
<1>5. call[c].op = "idle"
  BY DEF Idle
<1>6. ExactCalls'
  BY <1>4, OneWaits DEF ExactCalls, ExactCall, IInv
<1>7. \A p \in Orders : ~Placed(p)
  BY <1>4, <1>5, OneWaits DEF Placed, IInv
<1>8. Accounted'
  BY <1>1, <1>2, <1>3, <1>7 DEF ExactOK, Accounted, Settled, Tracked
<1>9. QED
  BY <1>6, <1>8 DEF ExactOK

\* Undisturbed, one coroutine accounts for every order, one step for every
\* action.
LEMMA ExactStep ==
    ASSUME Undisturbed, OneCaller, IInv, CountedOK, FreshOK, ExactOK, [Next]_vars
    PROVE  ExactOK'
<1>1. ~IsMexc
  BY DEF Undisturbed, IsMexc, IInv, ExchangeOK
<1>2. \A o \in Orders : \A s \in Had(o) : s \in Snapshot /\ (s.done => s = truth[o])
  BY <1>1 DEF Had
<1>3. \A o \in Orders : \A f : \A s \in Since(o, f) :
        s \in Snapshot /\ (s.done => s = truth[o])
  BY <1>2 DEF Since
<1>4. \A o \in Orders : \A f : ~Unknown(o, f)
  BY <1>1 DEF Unknown, Undisturbed
<1>5. Idle.op = "idle" /\ ExactCall(Idle)'
  BY DEF Idle, ExactCall
<1>6. \A c \in Callers : ExactCall(call[c]) /\ FreshCall(call[c]) /\ call[c] \in Calls
  BY DEF ExactOK, ExactCalls, FreshOK, FreshCalls, IInv, CallsOK
<1>7. ASSUME NEW o \in Orders, Fill(o) \/ Expire(o) PROVE ExactOK'
  <2>1. /\ UNCHANGED <<last, counted, call>> /\ IsOpen(o)
        /\ \A p \in Orders : p # o => truth'[p] = truth[p]
    BY <1>7 DEF Fill, Expire, Finish, IInv, ExchangeOK
  <2>2. ~Settled(o) /\ truth[o] # None
    BY <2>1, SnapshotFields DEF Settled, IsOpen
  <2>3. Accounted'
    BY <2>1, <2>2 DEF ExactOK, Accounted, Settled, Tracked, Placed
  <2>4. ASSUME NEW c \in Callers PROVE ExactCall(call[c])'
    <3>1. CASE /\ call[c].op \in {"placed", "marketPlaced"} /\ call[c].reply.done
      <4>1. call[c].reply = truth[call[c].id]
        BY <1>6, <3>1 DEF ExactCall
      <4>2. call[c].id # o
        BY <2>1, <3>1, <4>1 DEF IsOpen
      <4>3. call[c].id \in Orders
        BY <1>6, <3>1, CallShape DEF HasOrder
      <4>4. QED
        BY <1>6, <2>1, <4>1, <4>2, <4>3 DEF ExactCall
    <3>2. CASE ~(call[c].op \in {"placed", "marketPlaced"} /\ call[c].reply.done)
      BY <1>6, <2>1, <3>2 DEF ExactCall
    <3>3. QED
      BY <3>1, <3>2
  <2>5. QED
    BY <2>1, <2>3, <2>4 DEF ExactOK, ExactCalls
<1>8. ASSUME NEW c \in Callers, NEW s \in Sides,
             PlaceMarketOrder(c, s) \/ PlaceTrailingLimitOrder(c, s)
      PROVE  ExactOK'
  BY <1>5, <1>8, LimitOp, ExactPlace
  DEF PlaceMarketOrder, PlaceTrailingLimitOrder, Undisturbed
<1>9. ASSUME NEW c \in Callers, PlaceRepriced(c) PROVE ExactOK'
  <2>1. call[c].op = "reprice" /\ call[c].then \in Sides /\ last = None
    BY <1>6, <1>9, CallShape DEF PlaceRepriced, ExactCall
  <2>2. QED
    BY <1>9, <2>1, LimitOp, ExactPlace DEF PlaceRepriced
<1>10. ASSUME NEW c \in Callers, NEW s \in Sides, Reprice(c, s) PROVE ExactOK'
  BY <1>10, ExactCancel DEF Reprice, MaybeSide, Undisturbed, NoLostAnswers
<1>11. ASSUME NEW c \in Callers, CancelOrder(c) PROVE ExactOK'
  BY <1>11, ExactCancel DEF CancelOrder, MaybeSide, Undisturbed, NoLostAnswers
<1>12. ASSUME NEW c \in Callers, PlaceReturns(c) \/ MarketReturns(c) \/ SyncReturns(c)
       PROVE  ExactOK'
  <2>1. HasOrder(call[c]) /\ UNCHANGED truth /\ WaitFor(c, Idle)
    BY <1>12 DEF PlaceReturns, MarketReturns, SyncReturns, HasOrder, env
  <2>2. call[c].id \in Orders /\ (HasReply(call[c]) => call[c].reply \in Snapshot)
    BY <1>6, <2>1, CallShape
  <2>3. CASE PlaceReturns(c)
    <3>1. /\ call[c].reply \in Snapshot /\ Track(call[c].id, call[c].reply)
          /\ call[c].reply.done => call[c].reply = truth[call[c].id]
      BY <1>6, <2>2, <2>3 DEF PlaceReturns, HasReply, ExactCall
    <3>2. QED
      BY <1>5, <2>1, <3>1, ExactAnswer
  <2>4. CASE MarketReturns(c) \/ SyncReturns(c)
    <3>1. PICK s \in Snapshot : Track(call[c].id, s) /\ (s.done => s = truth[call[c].id])
      BY <1>3, <1>4, <2>2, <2>4 DEF MarketReturns, SyncReturns
    <3>2. QED
      BY <1>5, <2>1, <3>1, ExactAnswer
  <2>5. QED
    BY <1>12, <2>1, <2>3, <2>4
<1>13. ASSUME NEW c \in Callers, CancelReturns(c) PROVE ExactOK'
  <2> DEFINE s == call[c].reply
  <2>1. /\ call[c].op = "canceled" /\ HasOrder(call[c]) /\ UNCHANGED truth
        /\ s \in Snapshot /\ s = truth[call[c].id]
    BY <1>6, <1>13, CancelAnswers, CallShape DEF FreshCall, env
  <2>2. CASE LooksDone(s) /\ Track(call[c].id, s) /\ AfterCancel(c, call[c].then, s)
    <3>1. PICK k : WaitFor(c, k) /\ k.op \in {"idle", "reprice"}
      BY <2>2, AfterCancelWaitsFor
    <3>2. QED
      BY <2>1, <2>2, <3>1, ExactAnswer
  <2>3. ASSUME NEW k, k.op = "cancelFetch", WaitFor(c, k), UNCHANGED <<last, pos, counted, base>>
        PROVE  ExactOK'
    BY <2>1, <2>3, ExactWait DEF ExactCall
  <2>4. QED
    BY <1>6, <1>13, <2>2, <2>3, CancelAnswers
<1>14. ASSUME NEW c \in Callers, CancelFetchReturns(c) PROVE ExactOK'
  <2>1. /\ call[c].op = "cancelFetch" /\ HasOrder(call[c]) /\ UNCHANGED truth
        /\ call[c].id \in Orders
    BY <1>6, <1>14, CallShape DEF CancelFetchReturns, HasOrder, env
  <2>2. PICK s \in Since(call[c].id, call[c].from) :
          Track(call[c].id, s) /\ AfterCancel(c, call[c].then, s)
    BY <1>4, <1>14, <2>1 DEF CancelFetchReturns
  <2>3. s \in Snapshot /\ s.done /\ s = truth[call[c].id]
    BY <1>1, <1>3, <2>1, FetchAfterCancel
  <2>4. PICK k : /\ WaitFor(c, k) /\ k.op \in {"idle", "reprice"}
                 /\ k.op = "reprice" => FALSE \in IsFilled(s)
    BY <2>2, AfterCancelWaitsFor
  <2>5. k.op = "reprice" => LooksDone(s)
    BY <2>3, <2>4, UnfilledLooksDone
  <2>6. QED
    BY <2>1, <2>2, <2>3, <2>4, <2>5, ExactAnswer
<1>15. ASSUME NEW c \in Callers, SyncFromStore(c) PROVE ExactOK'
  <2>1. last.id \in Orders /\ truth[last.id] # None
    BY <1>15 DEF SyncFromStore, IInv, PositionOK
  <2>2. PICK o \in Orders : o = last.id /\ Tracked(o) /\ truth[o] # None
    BY <1>15, <2>1 DEF SyncFromStore, Tracked
  <2>3. PICK s \in Snapshot : Track(o, s) /\ (s.done => s = truth[o])
    BY <1>2, <1>15, <2>2 DEF SyncFromStore
  <2>4. UNCHANGED <<truth, call>> /\ \A d \in Callers : call[d] = Idle
    BY <1>15 DEF SyncFromStore, OneCaller
  <2>5. /\ Settled(o)' \/ Tracked(o)'
        /\ \A p \in Orders : p # o => counted'[p] = counted[p] /\ ~Tracked(p)
    BY <2>2, <2>3, <2>4, TrackExact DEF FreshOK, CountedOK
  <2>6. ExactCalls'
    BY <1>5, <2>4 DEF ExactCalls
  <2>7. Accounted'
    BY <1>5, <2>4, <2>5 DEF ExactOK, Accounted, Settled, Placed
  <2>8. QED
    BY <2>6, <2>7 DEF ExactOK
<1>16. ASSUME NEW c \in Callers, SyncFromExchange(c) PROVE ExactOK'
  <2>1. PICK k : /\ WaitFor(c, k) /\ k.op = "syncFetch"
                 /\ UNCHANGED <<truth, last, counted>>
    BY <1>16 DEF SyncFromExchange
  <2>2. ExactCall(k)'
    BY <2>1 DEF ExactCall
  <2>3. QED
    BY <1>5, <1>16, <2>1, <2>2, ExactWait DEF SyncFromExchange
<1>17. ASSUME NEW c \in Callers, AdjustToBalance(c) PROVE ExactOK'
  BY <1>5, <1>17, ExactWait DEF AdjustToBalance
<1>18. ASSUME UNCHANGED <<truth, last, counted, call>> PROVE ExactOK'
  BY <1>18 DEF ExactOK, ExactCalls, ExactCall, Accounted, Settled, Tracked, Placed
<1>19. ASSUME NEW c \in Callers, NEW s \in Sides, SetSide(c, s) PROVE ExactOK'
  BY <1>18, <1>19 DEF SetSide
<1>20. ASSUME NEW c \in Callers, CallFails(c) PROVE FALSE
  BY <1>20 DEF CallFails, Undisturbed
<1>21. CASE UNCHANGED vars
  BY <1>18, <1>21 DEF vars
<1>22. QED
  BY <1>7, <1>8, <1>9, <1>10, <1>11, <1>12, <1>13, <1>14, <1>15, <1>16, <1>17, <1>19,
     <1>20, <1>21 DEF Next

LEMMA ExactInit == Init => ExactOK
BY DEF Init, ExactOK, ExactCalls, ExactCall, Idle, Accounted

LEMMA ExactInvariance == Undisturbed /\ OneCaller => (Spec => []ExactOK)
<1> SUFFICES ASSUME Undisturbed, OneCaller PROVE Spec => []ExactOK
  OBVIOUS
<1>1. Spec => [](IInv /\ CountedOK /\ FreshOK)
  BY FreshInvariance DEF Undisturbed, NoMarketOrders, NoLostAnswers
<1>2. IInv /\ CountedOK /\ FreshOK /\ ExactOK /\ [Next]_vars => ExactOK'
  BY ExactStep
<1>3. QED
  BY <1>1, <1>2, ExactInit, PTL DEF Spec

(***************************************************************************)
(* Undisturbed, a manager at rest without a tracked order has finished and *)
(* fully counted every order it placed, through any number of rounds of    *)
(* place_trailing_limit_order: no fill that races a cancel, and none that  *)
(* a stale read of the order store missed, is lost.  Its position is where *)
(* it started plus all that the exchange bought minus all that it sold.    *)
(* On a futures account that holds of managers whose orders ended filled   *)
(* or empty: one that ended part-filled is tracked for ever.               *)
(***************************************************************************)
THEOREM SettledAreExact == Undisturbed /\ OneCaller => (Spec => []SettledIsExact)
<1> SUFFICES ASSUME Undisturbed, OneCaller PROVE Spec => []SettledIsExact
  OBVIOUS
<1>1. ASSUME IInv, FilledOK, ExactOK, AtRest
      PROVE  /\ \A o \in Orders : truth[o] # None =>
                  truth[o].done /\ counted[o] = truth[o].filled
             /\ base # None => Signed(pos) = base + (Traded("BUY") - Traded("SELL"))
  <2>1. ASSUME NEW o \in Orders, truth[o] # None
        PROVE  truth[o].done /\ counted[o] = truth[o].filled
    BY <1>1, <2>1 DEF AtRest, ExactOK, Accounted, Settled, Tracked, Placed, Idle
  <2>2. counted = FilledOf
    BY <1>1, <2>1 DEF FilledOf, FilledOK, IInv, PositionOK
  <2>3. \A s \in Sides : pos.filled[s] = Traded(s)
    BY <1>1, <2>2 DEF FilledOK, Traded
  <2>4. pos.filled["BUY"] = Traded("BUY") /\ pos.filled["SELL"] = Traded("SELL")
    BY <2>3 DEF Sides
  <2>5. base # None => Signed(pos) = base + (Traded("BUY") - Traded("SELL"))
    BY <1>1, <2>4 DEF IInv, PositionOK, Ledger
  <2>6. QED
    BY <2>1, <2>5
<1>2. IInv /\ FilledOK /\ ExactOK => SettledIsExact
  BY <1>1 DEF SettledIsExact
<1>3. Spec => []ExactOK
  BY ExactInvariance
<1>4. QED
  BY <1>2, <1>3, FilledInvariance, PTL
=============================================================================
