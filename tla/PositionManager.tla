-------------------------- MODULE PositionManager --------------------------
(***************************************************************************)
(* One position on one exchange: PositionManager tracks the order it       *)
(* placed last (_last_order) and adds what is newly filled of it to its    *)
(* PositionData.  Every answer of the composite (placed, cancelled,        *)
(* fetched, looked up in the order store) goes through                     *)
(* _track_order_execution.  The coroutines that use one manager (the step  *)
(* of the strategy, the fill callback of the other leg, pause or stop)     *)
(* interleave at every REST call.                                          *)
(*                                                                         *)
(* Of the composite the module uses what is proved of OrderStore: an       *)
(* answer is a state the order really had, and not older than the request  *)
(* (Had, Since, Unknown: StoreServesTheManager, FetchServesTheManager),    *)
(* MEXC's aggregated trades look filled, and only a finished order is ever *)
(* missing from the order store (MissingMeansDone).  That is proved for    *)
(* spot accounts, and assumed for the futures account, whose composite has *)
(* the same store.                                                         *)
(*                                                                         *)
(* Quantities are counted in units of the smallest fill; every order is    *)
(* for Qty of them.  Left out: prices, fees, the PNL tracker, the saving   *)
(* of the context, the fill callback (which calls other managers).         *)
(***************************************************************************)
EXTENDS Integers, FiniteSets

CONSTANTS
    Orders,    \* the order ids
    Callers,   \* the coroutines that use the manager
    Ops,       \* the operations they use
    Qty,       \* the quantity of an order
    Holding,   \* bound: the most the account holds when the manager starts
    Exchanges, \* the exchanges the position may be on
    Faults,    \* what may go wrong outside
    None       \* no order, no side, no answer

Sides    == {"BUY", "SELL"}
Snapshot == [done : BOOLEAN, filled : 0..Qty]

ASSUME QtyAssumption == Qty \in Nat \ {0}
ASSUME HoldingAssumption == Holding \in Nat
ASSUME OpsAssumption == Ops \subseteq {"sync", "cancel", "trail", "market", "setSide"}
ASSUME ExchangesAssumption == Exchanges \subseteq {"MEXC", "GATEIO", "GATEIO_FUTURES"}
ASSUME FaultsAssumption == Faults \subseteq {"timeout", "notFound", "margin"}
ASSUME NoneAssumption ==
    None \notin Snapshot \union Sides \union Int \union [id : Orders, filled : 0..Qty]

NewOrder == [done |-> FALSE, filled |-> 0]

(***************************************************************************)
(* What a coroutine waits for.  "then" is the side of the order that       *)
(* place_trailing_limit_order places after its cancel, None for a plain    *)
(* cancel.  "from" is the state of the order when the request was sent:    *)
(* the answer is not older.                                                *)
(***************************************************************************)
Idle == [op |-> "idle"]

MaybeSide == Sides \union {None}

Calls == UNION {
    {Idle},
    [op : {"placed", "marketPlaced"}, id : Orders, reply : Snapshot],
    [op : {"canceled"}, id : Orders, reply : Snapshot, then : MaybeSide],
    [op : {"cancelFetch"}, id : Orders, from : Snapshot, then : MaybeSide],
    [op : {"syncFetch"}, id : Orders, from : Snapshot],
    [op : {"reprice"}, then : Sides],
    [op : {"rejected"}] }

VARIABLES
    exchange, \* _exchange.exchange_enum
    truth,    \* the exchange: the state of every order, None before it exists
    side,     \* the side of every order
    balance,  \* the exchange: the available balance of the base asset
    last,     \* _last_order: its id and its filled quantity
    pos,      \* _position: qty, side, filled_amount
    call,     \* what each coroutine waits for
    counted,  \* (history) how much of each order went into the position
    base      \* (history) the position before the counted fills, None if lost

env  == <<exchange, truth, side, balance>>
vars == <<exchange, truth, side, balance, last, pos, call, counted, base>>

Positions == [qty : Nat, side : MaybeSide, filled : [Sides -> Nat]]

TypeOK ==
    /\ exchange \in Exchanges
    /\ truth \in [Orders -> Snapshot \union {None}]
    /\ side \in [Orders -> MaybeSide]
    /\ balance \in Nat
    /\ last \in [id : Orders, filled : 0..Qty] \union {None}
    /\ pos \in Positions
    /\ call \in [Callers -> Calls]
    /\ counted \in [Orders -> Nat]
    /\ base \in Int \union {None}

IsMexc    == exchange = "MEXC"
IsFutures == exchange = "GATEIO_FUTURES"

IsOpen(o) == truth[o] # None /\ ~truth[o].done
IsDone(o) == truth[o] # None /\ truth[o].done

\* The position as one number: negative when short.
Signed(p) == IF p.side = "SELL" THEN 0 - p.qty ELSE p.qty

(***************************************************************************)
(* initialize has loaded the balance of a spot account, or the position of *)
(* a futures account (its side is the hedge's; without one it is reset),   *)
(* and cancelled the open orders it did not place.                         *)
(***************************************************************************)
Init ==
    /\ exchange \in Exchanges
    /\ truth = [o \in Orders |-> None]
    /\ side = [o \in Orders |-> None]
    /\ \E held \in 0..Holding :
          /\ balance = IF IsFutures THEN 0 ELSE held
          /\ pos = [qty    |-> held,
                    side   |-> IF ~IsFutures THEN "BUY"
                               ELSE IF held > 0 THEN "SELL" ELSE None,
                    filled |-> [s \in Sides |-> 0]]
    /\ base = Signed(pos)
    /\ last = None
    /\ call = [c \in Callers |-> Idle]
    /\ counted = [o \in Orders |-> 0]

-----------------------------------------------------------------------------
(* The exchange. *)

\* The base asset that an order frees or brings: a spot sell locks its
\* quantity when it is placed, a spot buy delivers what is filled.
Freed(o)     == IF IsFutures \/ side[o] = "BUY" THEN 0 ELSE Qty - truth[o].filled
Delivered(o) == IF IsFutures \/ side[o] = "SELL" THEN 0 ELSE 1

Fill(o) ==
    /\ IsOpen(o)
    /\ truth' = [truth EXCEPT ![o] = [done |-> @.filled + 1 = Qty, filled |-> @.filled + 1]]
    /\ balance' = balance + Delivered(o)
    /\ UNCHANGED <<exchange, side, last, pos, call, counted, base>>

Finish(o) ==
    /\ truth' = [truth EXCEPT ![o].done = TRUE]
    /\ balance' = balance + Freed(o)

Expire(o) ==
    /\ IsOpen(o)
    /\ Finish(o)
    /\ UNCHANGED <<exchange, side, last, pos, call, counted, base>>

\* The states in which the exchange accepts an order: matched at once in part
\* or in whole, and finished if the rest may not wait.
Accepted == {s \in Snapshot : s.filled = Qty => s.done}

\* The states of o the order store may hold.
Had(o) ==
    {s \in Snapshot :
        /\ s.filled <= truth[o].filled
        /\ IF s.done THEN s = truth[o] \/ (IsMexc /\ s.filled > 0)
                     ELSE s.filled < Qty}

\* The states of o a request sent in state "from" is answered with.  Of an
\* order without trades fetch_order gives, on MEXC, what the order store holds:
\* it may not have heard of the end of the order yet.
Since(o, from) ==
    {s \in Had(o) :
        /\ s.filled >= from.filled
        /\ from.done => s.done \/ (IsMexc /\ s.filled = 0)}

\* fetch_order gives None: the exchange no longer knows the order, or
\* (MEXC) it has no trades and is not in the order store.
Unknown(o, from) ==
    \/ IsDone(o) /\ "notFound" \in Faults
    \/ IsMexc /\ from.filled = 0

PartFilled(s) == 0 < s.filled /\ s.filled < Qty

\* is_order_done of the order the exchange reports in state s: the rest of a
\* finished futures order leaves it PARTIALLY_FILLED, which is not done.
LooksDone(s) == s.done /\ ~(IsFutures /\ PartFilled(s))

\* MEXC too may report a part-filled cancelled order so: PARTIALLY_CANCELED is
\* not among the REST statuses it maps.
MayLookOpen(s) == ~LooksDone(s) \/ (IsMexc /\ PartFilled(s))

\* What Order.is_filled may say of it: Gate.io calls a part-filled order NEW or
\* CANCELED, its futures account PARTIALLY_FILLED once it is finished, and MEXC
\* has statuses of both kinds.
IsFilled(s) ==
    IF PartFilled(s) /\ IsMexc THEN BOOLEAN
    ELSE {s.filled = Qty \/ (PartFilled(s) /\ IsFutures /\ s.done)}

-----------------------------------------------------------------------------
(* The position. *)

\* Mutant: an order larger than the position reverses it in full.
UpdatePositionReversesInFull(p, s, qty) ==
    LET filled == [p.filled EXCEPT ![s] = @ + qty]
    IN  IF qty <= 0 \/ p.qty = qty THEN [p EXCEPT !.filled = filled]
        ELSE IF p.side = s THEN [p EXCEPT !.qty = @ + qty, !.filled = filled]
        ELSE [qty |-> qty, side |-> s, filled |-> filled]

\* Mutant: an exit never reverses the position.
UpdatePositionNeverReverses(p, s, qty) ==
    LET filled == [p.filled EXCEPT ![s] = @ + qty]
    IN  IF qty <= 0 THEN [p EXCEPT !.filled = filled]
        ELSE IF p.qty = 0 THEN [qty |-> qty, side |-> s, filled |-> filled]
        ELSE [p EXCEPT !.qty = IF p.side = s THEN @ + qty ELSE @ - qty,
                       !.filled = filled]

\* PositionData.update: entry, addition, reduction, close, reversal.
UpdatePosition(p, s, qty) ==
    LET filled == [p.filled EXCEPT ![s] = @ + qty]
    IN  CASE qty <= 0      -> [p EXCEPT !.filled = filled]
          [] qty > 0 /\ (p.qty = 0 \/ p.side = s)
                           -> [qty |-> p.qty + qty, side |-> s, filled |-> filled]
          [] qty > 0 /\ p.qty > 0 /\ p.side # s /\ qty < p.qty
                           -> [qty |-> p.qty - qty, side |-> p.side, filled |-> filled]
          [] qty > 0 /\ p.qty > 0 /\ p.side # s /\ qty = p.qty
                           -> [qty |-> 0, side |-> None, filled |-> filled]
          [] qty > 0 /\ p.qty > 0 /\ p.side # s /\ qty > p.qty
                           -> [qty |-> qty - p.qty, side |-> s, filled |-> filled]

LastFilled == IF last = None THEN 0 ELSE last.filled

\* Count d more of order o, seen in state s, and keep it as the last order
\* unless it looks done.
Count(o, s, d) ==
    /\ pos' = UpdatePosition(pos, side[o], d)
    /\ counted' = [counted EXCEPT ![o] = @ + d]
    /\ last' = IF LooksDone(s) THEN None ELSE [id |-> o, filled |-> s.filled]

\* Mutant: a finished order is forgotten before its new fill is computed.
TrackClearsFirst(o, s) ==
    /\ IF LastFilled > s.filled
       THEN UNCHANGED <<last, pos, counted>>
       ELSE Count(o, s, s.filled - (IF LooksDone(s) THEN 0 ELSE LastFilled))
    /\ UNCHANGED base

\* Mutant: every update is counted in full.
TrackIgnoresLast(o, s) ==
    /\ IF LastFilled > s.filled THEN UNCHANGED <<last, pos, counted>>
       ELSE Count(o, s, s.filled)
    /\ UNCHANGED base

\* _track_order_execution: an update that is behind the last one is skipped.
\* Nothing compares the ids of the two orders.
Track(o, s) ==
    /\ IF LastFilled > s.filled THEN UNCHANGED <<last, pos, counted>>
       ELSE Count(o, s, s.filled - LastFilled)
    /\ UNCHANGED base

TrackNone == last' = None /\ UNCHANGED <<pos, counted, base>>

WaitFor(c, k) == call' = [call EXCEPT ![c] = k]

-----------------------------------------------------------------------------
(* place_order *)

\* The base asset that an order of side s takes, or brings, as it is accepted
\* in state a.
Taken(s, a) ==
    CASE IsFutures                -> 0
      [] ~IsFutures /\ s = "BUY"  -> 0 - a.filled
      [] ~IsFutures /\ s = "SELL" -> IF a.done THEN a.filled ELSE Qty

\* The exchange accepts order o of side s, in one of the states it may be in.
Send(c, o, s, op) ==
    /\ truth[o] = None
    /\ IsFutures \/ s = "BUY" \/ balance >= Qty
    /\ \E a \in Accepted :
          /\ truth' = [truth EXCEPT ![o] = a]
          /\ balance' = balance - Taken(s, a)
          /\ WaitFor(c, [op |-> op, id |-> o, reply |-> a])
    /\ side' = [side EXCEPT ![o] = s]
    /\ UNCHANGED <<exchange, last, pos, counted, base>>

\* InsufficientBalanceError: the base asset is short, or the quote asset is.
Refuse(c, s) ==
    /\ \/ ~IsFutures /\ s = "SELL" /\ balance < Qty
       \/ (IsFutures \/ s = "BUY") /\ "margin" \in Faults
    /\ WaitFor(c, [op |-> "rejected"])
    /\ UNCHANGED <<exchange, truth, side, balance, last, pos, counted, base>>

PlaceMarketOrder(c, s) ==
    /\ "market" \in Ops
    /\ call[c] = Idle
    /\ Refuse(c, s) \/ \E o \in Orders : Send(c, o, s, "marketPlaced")

\* place_limit_order of a futures composite places a market order, fill-or-kill,
\* and fetches it.  Nothing here relies on the exchange filling it or killing it
\* as a whole: it is accepted, filled and finished as any other order.
LimitPlaced == IF IsFutures THEN "marketPlaced" ELSE "placed"

\* Without an order to watch, place_trailing_limit_order places one.
PlaceTrailingLimitOrder(c, s) ==
    /\ "trail" \in Ops
    /\ call[c] = Idle
    /\ last = None
    /\ Refuse(c, s) \/ \E o \in Orders : Send(c, o, s, LimitPlaced)

\* It places another after the cancel of the one the price moved away from.
PlaceRepriced(c) ==
    /\ call[c].op = "reprice"
    /\ LET s == call[c].then
       IN  Refuse(c, s) \/ \E o \in Orders : Send(c, o, s, LimitPlaced)

\* The answer of the placement is tracked as it came, with its fill.
PlaceReturns(c) ==
    /\ call[c].op = "placed"
    /\ Track(call[c].id, call[c].reply)
    /\ WaitFor(c, Idle)
    /\ UNCHANGED env

\* The composite fetches a market order after it has placed it.
MarketReturns(c) ==
    /\ call[c].op = "marketPlaced"
    /\ LET o == call[c].id
       IN  \/ \E s \in Since(o, call[c].reply) : Track(o, s)
           \/ Unknown(o, call[c].reply) /\ TrackNone
    /\ WaitFor(c, Idle)
    /\ UNCHANGED env

\* The handler of InsufficientBalanceError takes the balance for the position.
\* A quantity without a side has no sign: the ledger ends.
AdjustToBalance(c) ==
    /\ call[c].op = "rejected"
    /\ pos' = [pos EXCEPT !.qty = balance]
    /\ base' = IF balance > 0 /\ pos.side = None THEN None
               ELSE Signed(pos') - (pos.filled["BUY"] - pos.filled["SELL"])
    /\ WaitFor(c, Idle)
    /\ UNCHANGED <<exchange, truth, side, balance, last, counted>>

-----------------------------------------------------------------------------
(* cancel_order, alone or as the first half of place_trailing_limit_order *)

\* The exchange cancels an open order.  Of a finished one Gate.io's spot client
\* returns the state; the others fail or find none, and the order is fetched.
\* So it is when Gate.io finds none, and when the request is lost.
SendCancel(c, then) ==
    LET o == last.id
    IN  \/ /\ IsOpen(o)
           /\ Finish(o)
           /\ WaitFor(c, [op |-> "canceled", id |-> o, then |-> then,
                          reply |-> [truth[o] EXCEPT !.done = TRUE]])
           /\ UNCHANGED <<exchange, side, last, pos, counted, base>>
        \/ /\ IsDone(o)
           /\ exchange = "GATEIO"
           /\ WaitFor(c, [op |-> "canceled", id |-> o, then |-> then,
                          reply |-> truth[o]])
           /\ UNCHANGED <<exchange, truth, side, balance, last, pos, counted, base>>
        \/ /\ \/ "timeout" \in Faults
              \/ IsDone(o) /\ (exchange # "GATEIO" \/ "notFound" \in Faults)
           /\ WaitFor(c, [op |-> "cancelFetch", id |-> o, then |-> then,
                          from |-> truth[o]])
           /\ UNCHANGED <<exchange, truth, side, balance, last, pos, counted, base>>

CancelOrder(c) ==
    /\ "cancel" \in Ops
    /\ call[c] = Idle
    /\ last # None
    /\ SendCancel(c, None)

Reprice(c, s) ==
    /\ "trail" \in Ops
    /\ call[c] = Idle
    /\ last # None
    /\ SendCancel(c, s)

\* place_trailing_limit_order stops at an order that is_filled, and replaces
\* every other one.
AfterCancel(c, then, s) ==
    \E filled \in IsFilled(s) :
        WaitFor(c, IF then # None /\ ~filled THEN [op |-> "reprice", then |-> then]
                   ELSE Idle)

\* An answer that does not look done is dropped, and the order fetched.
CancelReturns(c) ==
    /\ call[c].op = "canceled"
    /\ LET o == call[c].id
           s == call[c].reply
       IN  \/ /\ LooksDone(s)
              /\ Track(o, s)
              /\ AfterCancel(c, call[c].then, s)
           \/ /\ MayLookOpen(s)
              /\ WaitFor(c, [op |-> "cancelFetch", id |-> o, from |-> s,
                             then |-> call[c].then])
              /\ UNCHANGED <<last, pos, counted, base>>
    /\ UNCHANGED env

CancelFetchReturns(c) ==
    /\ call[c].op = "cancelFetch"
    /\ LET o == call[c].id
       IN  \/ \E s \in Since(o, call[c].from) :
                 Track(o, s) /\ AfterCancel(c, call[c].then, s)
           \/ /\ Unknown(o, call[c].from)
              /\ TrackNone
              /\ AfterCancel(c, call[c].then, NewOrder)
    /\ UNCHANGED env

-----------------------------------------------------------------------------
(* sync_with_exchange *)

\* get_active_order finds the order in the store: no request, no waiting.
SyncFromStore(c) ==
    /\ "sync" \in Ops
    /\ call[c] = Idle
    /\ last # None
    /\ \E s \in Had(last.id) : Track(last.id, s)
    /\ UNCHANGED <<exchange, truth, side, balance, call>>

\* A finished order may have left the store.
SyncFromExchange(c) ==
    /\ "sync" \in Ops
    /\ call[c] = Idle
    /\ last # None
    /\ IsDone(last.id)
    /\ WaitFor(c, [op |-> "syncFetch", id |-> last.id, from |-> truth[last.id]])
    /\ UNCHANGED <<exchange, truth, side, balance, last, pos, counted, base>>

SyncReturns(c) ==
    /\ call[c].op = "syncFetch"
    /\ LET o == call[c].id
       IN  \/ \E s \in Since(o, call[c].from) : Track(o, s)
           \/ Unknown(o, call[c].from) /\ TrackNone
    /\ WaitFor(c, Idle)
    /\ UNCHANGED env

-----------------------------------------------------------------------------
\* The strategy turns a leg around when its setup changes.
SetSide(c, s) ==
    /\ "setSide" \in Ops
    /\ call[c] = Idle
    /\ pos.side # s
    /\ pos' = [pos EXCEPT !.side = s]
    /\ base' = IF pos.qty = 0 THEN base ELSE None
    /\ UNCHANGED <<exchange, truth, side, balance, last, call, counted>>

\* An answer is lost.  A lost cancel answer leads to a fetch; a lookup that
\* fails counts as an order that does not exist; the others leave all as it is.
CallFails(c) ==
    /\ "timeout" \in Faults
    /\ \/ /\ call[c].op = "canceled"
          /\ WaitFor(c, [op |-> "cancelFetch", id |-> call[c].id,
                         from |-> call[c].reply, then |-> call[c].then])
          /\ UNCHANGED <<last, pos, counted, base>>
       \/ /\ call[c].op = "syncFetch"
          /\ TrackNone
          /\ WaitFor(c, Idle)
       \/ /\ call[c].op \in {"placed", "marketPlaced", "cancelFetch", "reprice", "rejected"}
          /\ WaitFor(c, Idle)
          /\ UNCHANGED <<last, pos, counted, base>>
    /\ UNCHANGED env

Next ==
    \/ \E o \in Orders : Fill(o) \/ Expire(o)
    \/ \E c \in Callers, s \in Sides :
          \/ PlaceMarketOrder(c, s) \/ PlaceTrailingLimitOrder(c, s)
          \/ Reprice(c, s) \/ SetSide(c, s)
    \/ \E c \in Callers :
          \/ PlaceRepriced(c) \/ PlaceReturns(c) \/ MarketReturns(c) \/ AdjustToBalance(c)
          \/ CancelOrder(c) \/ CancelReturns(c) \/ CancelFetchReturns(c)
          \/ SyncFromStore(c) \/ SyncFromExchange(c) \/ SyncReturns(c)
          \/ CallFails(c)

Spec == Init /\ [][Next]_vars

-----------------------------------------------------------------------------
(* Properties. *)

\* The lots of the orders of side s, of order o amount[o], each by its number.
Lots(s, amount) == UNION {{o} \X (1..amount[o]) : o \in {p \in Orders : side[p] = s}}

FilledOf == [o \in Orders |-> IF truth[o] = None THEN 0 ELSE truth[o].filled]

\* What the exchange has bought, or sold, for the manager.
Traded(s) == Cardinality(Lots(s, FilledOf))

(***************************************************************************)
(* No fill is counted twice: of every order the position holds at most     *)
(* what the exchange filled, whatever order the answers arrive in and even *)
(* when a new order is placed over one that is still tracked; and so the   *)
(* filled amount of a side is never ahead of what the exchange traded.     *)
(***************************************************************************)
NoOvercount ==
    /\ \A o \in Orders :
          IF truth[o] = None THEN counted[o] = 0 ELSE counted[o] <= truth[o].filled
    /\ \A s \in Sides : pos.filled[s] <= Traded(s)

(***************************************************************************)
(* The position is where it started plus the bought minus the sold         *)
(* quantity, through every entry, reduction, close and reversal: the       *)
(* out-of-order check never lets filled_amount fall.                       *)
(***************************************************************************)
Ledger ==
    base # None =>
        Signed(pos) = base + (pos.filled["BUY"] - pos.filled["SELL"])

(***************************************************************************)
(* What the position holds of the tracked order is what _last_order says,  *)
(* so the next update adds exactly the new fill.                           *)
(***************************************************************************)
TrackedIsCounted == last # None => counted[last.id] = last.filled

AtRest == last = None /\ \A c \in Callers : call[c] = Idle

(***************************************************************************)
(* When no call fails, a manager that is at rest without a tracked order   *)
(* has finished and fully counted every order it ever placed, and its      *)
(* position is where it started plus what the exchange bought minus what   *)
(* it sold: late cancels and stale reads of the store lose no fill.  (Of a *)
(* futures order that ends part-filled the manager never lets go: it is    *)
(* not at rest then.)                                                      *)
(***************************************************************************)
SettledIsExact ==
    AtRest =>
        /\ \A o \in Orders : truth[o] # None =>
             truth[o].done /\ counted[o] = truth[o].filled
        /\ base # None => Signed(pos) = base + (Traded("BUY") - Traded("SELL"))
=============================================================================
