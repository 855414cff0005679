----------------------------- MODULE Collector -----------------------------
(***************************************************************************)
(* The data collector: the handlers that put market data into a cache      *)
(* (CollectorWebSocketManager), the scheduler that saves the cache         *)
(* (SnapshotScheduler), and what the database module does with a batch.    *)
(*                                                                         *)
(* A record is a quote (book ticker), a trade or a funding rate as an      *)
(* exchange publishes it.  publish() makes a task of every handler; a task *)
(* that need not wait for the database runs in the order of publication,   *)
(* so that its delivery is one step.                                       *)
(*                                                                         *)
(* The lists of the cache are sets here.  A list differs from its set only *)
(* in which of two trades with one key is the first; that is left open.    *)
(* The snapshots of quotes and rates carry the time of their handling, so  *)
(* that no two of them share a key of their tables.                        *)
(*                                                                         *)
(* The table of known symbols in memory is loaded at the start and kept up *)
(* with every symbol that is created: it is the table of the database.     *)
(***************************************************************************)
EXTENDS Naturals

CONSTANTS
    Quotes, Trades, Rates, \* what the exchanges publish
    MarketOf,   \* the exchange and the symbol of a record
    SymbolOf,   \* the symbol of a market; markets of several exchanges share it
    PriceOf,    \* the prices of a quote
    StampOf,    \* the millisecond of a trade
    Identified, \* the trades with a trade_id: those of MEXC have none
    MaxAgain,   \* bound: how often trades are delivered once more
    MaxFaults   \* bound: failures of the database and crashes

ASSUME BoundsAssumption == MaxAgain \in Nat /\ MaxFaults \in Nat
ASSUME RecordsAssumption ==
    /\ Quotes \cap Trades = {} /\ Quotes \cap Rates = {} /\ Trades \cap Rates = {}
    /\ Identified \subseteq Trades

Records == Quotes \cup Trades \cup Rates
Markets == {MarketOf[r] : r \in Records}
Stamps  == {StampOf[t] : t \in Trades}

VARIABLES
    phase,     \* of the process
    symbols,   \* the markets with a row among the symbols
    creating,  \* the records whose handler waits for that row
    last,      \* cache.last_book_ticker
    cached,    \* the three lists of the cache
    turn,      \* the list that _save_data is at
    inserting, \* the transaction of that list
    batch,     \* what the transaction inserts
    seen,      \* _trade_timestamp_cache
    old,       \* the milliseconds more than ten minutes ago
    rows,      \* trade_snapshots: the number of rows of each key
    stored,    \* the records in the database
    again,     \* how many trades were delivered once more
    faults,    \* how many faults there were
    arrived,   \* (history) the records whose handler was started
    skipped,   \* (history) the quotes that were taken for unchanged
    forgotten, \* (history) how often a key was removed from seen
    failed,    \* (history) the process lost a transaction
    calm       \* (history) nothing happened that may lose a record

handlers == <<symbols, creating, last, skipped, arrived>>
table    == <<rows, stored>>
dedup    == <<seen, forgotten>>
saver    == <<turn, inserting, batch>>
vars     == <<phase, handlers, cached, saver, dedup, table, old, again, faults, failed, calm>>

-----------------------------------------------------------------------------
(* Helpers *)

\* The key of a trade, as the set of the trades that have it: without an
\* identifier those of one market and one millisecond.
KeyOf(t) ==
    IF t \in Identified THEN {t}
    ELSE {u \in Trades \ Identified : MarketOf[u] = MarketOf[t] /\ StampOf[u] = StampOf[t]}

KeysOf(S) == {KeyOf(t) : t \in S \cap Trades}
Keys      == KeysOf(Trades)

\* The list of the cache that a block of _save_data is about.
Listed(k) == IF k = "quotes" THEN Quotes ELSE IF k = "trades" THEN Trades ELSE Rates

After(k) == IF k = "quotes" THEN "trades" ELSE IF k = "trades" THEN "rates" ELSE "sleep"

\* Mutant: DataCache.clear() after each block.
ClearedAll(k) == {}

Cleared(k) == cached \ Listed(k)

TypeOK ==
    /\ phase \in {"down", "connecting", "running", "stopping"}
    /\ symbols \subseteq Markets
    /\ creating \subseteq Records
    /\ last \subseteq Quotes
    /\ cached \subseteq Records
    /\ turn \in {"sleep", "quotes", "trades", "rates"}
    /\ inserting \in {"no", "open", "committed"}
    /\ batch \subseteq Records
    /\ inserting = "no" <=> batch = {}
    /\ inserting # "no" => phase = "running" /\ turn # "sleep" /\ batch \subseteq Listed(turn)
    /\ seen \subseteq Keys
    /\ old \subseteq Stamps
    /\ rows \in [Keys -> Nat]
    /\ stored \subseteq Records
    /\ again \in 0..MaxAgain
    /\ faults \in 0..MaxFaults
    /\ arrived \subseteq Records
    /\ skipped \subseteq Quotes
    /\ forgotten \in [Keys -> Nat]
    /\ failed \in BOOLEAN
    /\ calm \in BOOLEAN

Init ==
    /\ phase = "down"
    /\ symbols = {}
    /\ creating = {} /\ last = {} /\ cached = {}
    /\ turn = "sleep" /\ inserting = "no" /\ batch = {}
    /\ seen = {} /\ old = {}
    /\ rows = [k \in Keys |-> 0]
    /\ stored = {}
    /\ again = 0 /\ faults = 0
    /\ arrived = {} /\ skipped = {}
    /\ forgotten = [k \in Keys |-> 0]
    /\ failed = FALSE
    /\ calm = TRUE

Fault == faults < MaxFaults /\ faults' = faults + 1

-----------------------------------------------------------------------------
(* The handlers *)

\* The last quote of each symbol after one more.
LastOf(S, q) == {p \in S : SymbolOf[MarketOf[p]] # SymbolOf[MarketOf[q]]} \cup {q}

NoChange(q) == \E p \in last : /\ SymbolOf[MarketOf[p]] = SymbolOf[MarketOf[q]]
                               /\ PriceOf[p] = PriceOf[q]

\* The rest of a handler once the symbol is known.
Handle(r) ==
    /\ IF r \in Quotes
       THEN IF NoChange(r)
            THEN skipped' = skipped \cup {r} /\ UNCHANGED <<last, cached>>
            ELSE /\ last' = LastOf(last, r)
                 /\ cached' = cached \cup {r}
                 /\ UNCHANGED skipped
       ELSE cached' = cached \cup {r} /\ UNCHANGED <<last, skipped>>
    /\ calm' = (calm /\ ~(inserting # "no" /\ r \in Listed(turn)))

\* A quote or a rate is published once, a trade perhaps again; the loop for
\* the rates starts with the scheduler.
Deliver(r) ==
    /\ phase \in {"connecting", "running", "stopping"}
    /\ r \in Rates => phase = "running"
    /\ r \notin creating
    /\ IF r \in arrived
       THEN r \in Trades /\ again < MaxAgain /\ again' = again + 1
       ELSE UNCHANGED again
    /\ arrived' = arrived \cup {r}
    /\ IF MarketOf[r] \in symbols
       THEN Handle(r) /\ UNCHANGED creating
       ELSE creating' = creating \cup {r} /\ UNCHANGED <<cached, last, skipped, calm>>
    /\ UNCHANGED <<phase, symbols, saver, dedup, table, old, faults, failed>>

SymbolCreated(r) ==
    /\ r \in creating
    /\ MarketOf[r] \notin symbols
    /\ creating' = creating \ {r}
    /\ symbols' = symbols \cup {MarketOf[r]}
    /\ Handle(r)
    /\ UNCHANGED <<phase, arrived, saver, dedup, table, old, again, faults, failed>>

\* Another handler was faster and the row is not unique, or the database
\* fails: the record is dropped.
SymbolFails(r) ==
    /\ r \in creating
    /\ \/ MarketOf[r] \in symbols /\ UNCHANGED faults
       \/ Fault
    /\ creating' = creating \ {r}
    /\ calm' = FALSE
    /\ UNCHANGED <<phase, symbols, last, skipped, arrived, cached, saver, dedup, table,
                   old, again, failed>>

-----------------------------------------------------------------------------
(* _save_data *)

Wake ==
    /\ phase = "running"
    /\ turn = "sleep"
    /\ turn' = "quotes"
    /\ UNCHANGED <<phase, handlers, cached, inserting, batch, dedup, table, old, again, faults,
                   failed, calm>>

\* An empty list.
NothingToSave ==
    /\ phase = "running"
    /\ turn # "sleep" /\ inserting = "no"
    /\ cached \cap Listed(turn) = {}
    /\ turn' = After(turn)
    /\ UNCHANGED <<phase, handlers, cached, inserting, batch, dedup, table, old, again, faults,
                   failed, calm>>

Insert(S) == batch' = S /\ inserting' = "open" /\ UNCHANGED <<turn, cached>>

StartQuotesOrRates ==
    /\ phase = "running"
    /\ turn \in {"quotes", "rates"} /\ inserting = "no"
    /\ cached \cap Listed(turn) # {}
    /\ Insert(cached \cap Listed(turn))
    /\ UNCHANGED <<phase, handlers, dedup, table, old, again, faults, failed, calm>>

\* The keys that _cleanup_trade_timestamp_cache removes.
Aged == {k \in seen : \E t \in k : StampOf[t] \in old}

\* Mutant: only trades with an identifier are remembered.
IdentifiedKeys(S) == KeysOf(S \cap Identified)

\* The keys that _is_duplicate_trade_timestamp adds.
Marks(S) == KeysOf(S)

Fresh == {t \in cached \cap Trades : KeyOf(t) \notin seen \ Aged}

\* Mutant: the loop over the batch returns after its first trade.
OneOfAll(S) == {{t} : t \in S}

\* One trade of each key, the first in the list.
OnePerKey(S) ==
    {F \in SUBSET S : /\ KeysOf(F) = KeysOf(S)
                      /\ \A t, u \in F : KeyOf(t) = KeyOf(u) => t = u}

\* The known trades are filtered out; with nothing left the list is cleared
\* without a transaction.
StartTrades ==
    /\ phase = "running"
    /\ turn = "trades" /\ inserting = "no"
    /\ cached \cap Trades # {}
    /\ seen' = (seen \ Aged) \cup Marks(Fresh)
    /\ forgotten' = [k \in Keys |-> IF k \in Aged THEN forgotten[k] + 1 ELSE forgotten[k]]
    /\ IF Fresh = {}
       THEN cached' = Cleared(turn) /\ turn' = After(turn) /\ UNCHANGED <<inserting, batch>>
       ELSE \E F \in OnePerKey(Fresh) : Insert(F)
    /\ UNCHANGED <<phase, handlers, table, old, again, faults, failed, calm>>

\* The unique constraint of trade_snapshots; without an identifier no two
\* rows are equal to it.
Conflict == \E t \in batch \cap Identified : rows[KeyOf(t)] > 0

Commit ==
    /\ inserting = "open"
    /\ ~Conflict
    /\ inserting' = "committed"
    /\ rows' = [k \in Keys |-> IF k \in KeysOf(batch) THEN rows[k] + 1 ELSE rows[k]]
    /\ stored' = stored \cup batch
    /\ UNCHANGED <<phase, handlers, cached, turn, batch, dedup, old, again, faults, failed, calm>>

BlockEnds ==
    /\ cached' = Cleared(turn)
    /\ turn' = After(turn)
    /\ inserting' = "no"
    /\ batch' = {}

Saved ==
    /\ inserting = "committed"
    /\ BlockEnds
    /\ UNCHANGED <<phase, handlers, dedup, table, old, again, faults, failed, calm>>

\* The transaction is rolled back, or something fails after its end; the list
\* is cleared all the same.
InsertFails ==
    /\ inserting # "no"
    /\ \/ inserting = "open" /\ Conflict /\ UNCHANGED faults
       \/ Fault
    /\ BlockEnds
    /\ failed' = TRUE
    /\ calm' = FALSE
    /\ UNCHANGED <<phase, handlers, dedup, table, old, again>>

Saver == Wake \/ NothingToSave \/ StartQuotesOrRates \/ StartTrades \/ Commit \/ Saved \/ InsertFails

-----------------------------------------------------------------------------
(* The process *)

Start ==
    /\ phase = "down"
    /\ phase' = "connecting"
    /\ UNCHANGED <<handlers, cached, saver, dedup, table, old, again, faults, failed, calm>>

\* The scheduler saves before it first sleeps.
Initialized ==
    /\ phase = "connecting"
    /\ phase' = "running"
    /\ turn' = "quotes"
    /\ UNCHANGED <<handlers, cached, inserting, batch, dedup, table, old, again, faults, failed, calm>>

\* initialize() raises, or a signal cancels the scheduler, in a transaction
\* perhaps; nothing is saved from here on.
Stop ==
    /\ phase \in {"connecting", "running"}
    /\ phase' = "stopping"
    /\ turn' = "sleep" /\ inserting' = "no" /\ batch' = {}
    /\ failed' = (failed \/ inserting # "no")
    /\ UNCHANGED <<handlers, cached, dedup, table, old, again, faults, calm>>

\* Mutant: a transaction outlives its process.
ForgetAllButInsert ==
    /\ phase' = "down"
    /\ creating' = {} /\ last' = {} /\ cached' = {}
    /\ turn' = "sleep" /\ UNCHANGED <<inserting, batch>>
    /\ seen' = {}
    /\ forgotten' = [k \in Keys |-> IF k \in seen THEN forgotten[k] + 1 ELSE forgotten[k]]
    /\ failed' = FALSE
    /\ calm' = (calm /\ cached = {} /\ creating = {})
    /\ UNCHANGED <<symbols, skipped, arrived, table, old, again>>

\* Nothing is left but the database.
Forget ==
    /\ phase' = "down"
    /\ creating' = {} /\ last' = {} /\ cached' = {}
    /\ turn' = "sleep" /\ inserting' = "no" /\ batch' = {}
    /\ seen' = {}
    /\ forgotten' = [k \in Keys |-> IF k \in seen THEN forgotten[k] + 1 ELSE forgotten[k]]
    /\ failed' = FALSE
    /\ calm' = (calm /\ cached = {} /\ creating = {})
    /\ UNCHANGED <<symbols, skipped, arrived, table, old, again>>

\* close() clears the cache without a last save, and the process ends.
Close == phase = "stopping" /\ Forget /\ UNCHANGED faults

Crash == phase # "down" /\ Fault /\ Forget

\* Ten minutes pass.
Age(s) ==
    /\ s \in Stamps \ old
    /\ old' = old \cup {s}
    /\ UNCHANGED <<phase, handlers, cached, saver, dedup, table, again, faults, failed, calm>>

-----------------------------------------------------------------------------
Next ==
    \/ \E r \in Records : Deliver(r) \/ SymbolCreated(r) \/ SymbolFails(r)
    \/ Saver
    \/ Start \/ Initialized \/ Stop \/ Close \/ Crash
    \/ \E s \in Stamps : Age(s)

Spec == Init /\ [][Next]_vars

-----------------------------------------------------------------------------
(* Properties *)

\* A trade is stored at most once for each time that its key is remembered:
\* one that is delivered again makes a second row only after ten minutes or a
\* restart (insert_trade_snapshots_batch and its cache of keys).
RowsExplained == \A k \in Keys : rows[k] <= 1 + forgotten[k]

\* A key that makes a trade a duplicate has its row in the database or in the
\* transaction under way, unless a transaction of the process was lost: the
\* keys are remembered before the insert and are not taken back.
SeenIsStored ==
    ~failed => \A k \in seen : rows[k] > 0 \/ (inserting = "open" /\ k \in KeysOf(batch))

\* Without failures, a stop with a full cache, or a record that arrives while
\* the list it belongs to is being saved, every record is waiting, in the
\* cache, in the database, or one of those that the code leaves out: a quote
\* taken for unchanged or a trade whose key has a row.
CalmLosesNothing ==
    calm => \A r \in arrived : \/ r \in creating \cup cached \cup stored \cup skipped
                               \/ r \in Trades /\ rows[KeyOf(r)] > 0
=============================================================================
