-------------------------- MODULE CollectorProofs --------------------------
(* Theorems about Collector. *)
EXTENDS Collector, TLAPS

USE BoundsAssumption, RecordsAssumption

-----------------------------------------------------------------------------
(* The inductive invariant *)

InFlight(k) == inserting = "open" /\ k \in KeysOf(batch)

\* A row, or the transaction that makes it, belongs to a key that was
\* forgotten or is remembered.
RowsBound ==
    \A k \in Keys : rows[k] + (IF InFlight(k) THEN 1 ELSE 0)
                        <= forgotten[k] + (IF k \in seen THEN 1 ELSE 0)

\* What is inserted is remembered, and once committed it is there.
BatchMarked ==
    /\ KeysOf(batch) \subseteq seen
    /\ inserting = "committed" => /\ batch \subseteq stored
                                  /\ \A k \in KeysOf(batch) : rows[k] > 0

\* A transaction is lost in a running process only, and never quietly.
LossNoticed ==
    /\ phase \in {"down", "connecting"} => ~failed
    /\ calm /\ phase = "running" => ~failed

\* Nothing slipped into a list that is being saved.
SaveIsWhole ==
    calm /\ inserting # "no" =>
        \A r \in cached \cap Listed(turn) : r \in batch \/ (r \in Trades /\ KeyOf(r) \in seen)

Inv ==
    /\ TypeOK
    /\ RowsBound
    /\ BatchMarked
    /\ SeenIsStored
    /\ LossNoticed
    /\ SaveIsWhole
    /\ CalmLosesNothing

-----------------------------------------------------------------------------
(* Keys and lists *)

LEMMA KeysOfIsKeys == \A S : KeysOf(S) \subseteq Keys
  BY DEF KeysOf, Keys

LEMMA KeysOfMember == \A S : \A t \in S \cap Trades : KeyOf(t) \in KeysOf(S) /\ KeyOf(t) \in Keys
  BY DEF KeysOf, Keys

LEMMA KeysOfEmpty == KeysOf({}) = {}
  BY DEF KeysOf

\* Quotes and rates have no keys.
LEMMA NoKeys ==
    ASSUME NEW S, S \cap Trades = {}
    PROVE  KeysOf(S) = {}
  BY DEF KeysOf

LEMMA FreshKeys == KeysOf(Fresh) \cap (seen \ Aged) = {}
<1>1. \A t \in Fresh : KeyOf(t) \notin seen \ Aged
  BY DEF Fresh
<1>2. QED
  BY <1>1 DEF KeysOf

\* A handler leaves the types as they are.
HandlerTypes ==
    /\ last \subseteq Quotes /\ skipped \subseteq Quotes
    /\ cached \subseteq Records
    /\ calm \in BOOLEAN

LEMMA HandleTypes ==
    ASSUME HandlerTypes, NEW r \in Records, Handle(r)
    PROVE  HandlerTypes'
<1>1. CASE r \in Quotes /\ NoChange(r)
  BY <1>1 DEF Handle, HandlerTypes
<1>2. CASE r \in Quotes /\ ~NoChange(r)
  BY <1>2 DEF Handle, HandlerTypes, LastOf
<1>3. CASE r \notin Quotes
  BY <1>3 DEF Handle, HandlerTypes
<1>4. QED
  BY <1>1, <1>2, <1>3

LEMMA FaultTypes ==
    ASSUME TypeOK, Fault \/ UNCHANGED faults
    PROVE  faults' \in 0..MaxFaults
  BY DEF TypeOK, Fault

LEMMA InvInit ==
    ASSUME Init
    PROVE  Inv
<1>1. TypeOK
  <2>1. /\ [k \in Keys |-> 0] \in [Keys -> Nat]
        /\ 0 \in 0..MaxAgain /\ 0 \in 0..MaxFaults
    OBVIOUS
  <2>2. QED
    BY <2>1 DEF Init, TypeOK
<1>2. RowsBound
  <2>1. \A k \in Keys : rows[k] = 0 /\ forgotten[k] = 0 /\ ~InFlight(k)
    BY DEF Init, InFlight
  <2>2. seen = {}
    BY DEF Init
  <2>3. QED
    BY <2>1, <2>2 DEF RowsBound
<1>3. BatchMarked
  BY KeysOfEmpty DEF Init, BatchMarked
<1>4. SeenIsStored /\ LossNoticed /\ SaveIsWhole /\ CalmLosesNothing
  BY DEF Init, SeenIsStored, LossNoticed, SaveIsWhole, CalmLosesNothing
<1>5. QED
  BY <1>1, <1>2, <1>3, <1>4 DEF Inv

-----------------------------------------------------------------------------
(* Types *)

\* Every step keeps the types.
LEMMA TypeStep ==
    ASSUME TypeOK, [Next]_vars
    PROVE  TypeOK'
<1> USE DEF handlers, table, dedup, saver
<1>1. ASSUME NEW r \in Records, Deliver(r) PROVE TypeOK'
  <2>1. HandlerTypes
    BY DEF TypeOK, HandlerTypes
  <2>2. HandlerTypes'
    BY <1>1, <2>1, HandleTypes DEF Deliver, HandlerTypes
  <2>3. again' \in 0..MaxAgain
    BY <1>1 DEF Deliver, TypeOK
  <2>4. creating' \subseteq Records /\ arrived' \subseteq Records
    BY <1>1 DEF Deliver, TypeOK
  <2>5. QED
    BY <1>1, <2>2, <2>3, <2>4 DEF Deliver, TypeOK, HandlerTypes
<1>2. ASSUME NEW r \in Records, SymbolCreated(r) PROVE TypeOK'
  <2>1. HandlerTypes'
    BY <1>2, HandleTypes DEF SymbolCreated, TypeOK, HandlerTypes
  <2>2. MarketOf[r] \in Markets
    BY DEF Markets
  <2>3. QED
    BY <1>2, <2>1, <2>2 DEF SymbolCreated, TypeOK, HandlerTypes
<1>3. ASSUME NEW r \in Records, SymbolFails(r) PROVE TypeOK'
  <2>1. faults' \in 0..MaxFaults
    BY <1>3, FaultTypes DEF SymbolFails
  <2>2. QED
    BY <1>3, <2>1 DEF SymbolFails, TypeOK
<1>4. ASSUME Wake PROVE TypeOK'
  BY <1>4 DEF Wake, TypeOK
<1>5. ASSUME NothingToSave PROVE TypeOK'
  BY <1>5 DEF NothingToSave, After, TypeOK
<1>6. ASSUME StartQuotesOrRates PROVE TypeOK'
  BY <1>6 DEF StartQuotesOrRates, Insert, TypeOK
<1>7. ASSUME StartTrades PROVE TypeOK'
  <2>1. seen' \subseteq Keys
    BY <1>7, KeysOfIsKeys DEF StartTrades, Marks, TypeOK
  <2>2. forgotten' \in [Keys -> Nat]
    BY <1>7 DEF StartTrades, TypeOK
  <2>3. CASE Fresh = {}
    BY <1>7, <2>1, <2>2, <2>3 DEF StartTrades, Cleared, After, TypeOK
  <2>4. CASE Fresh # {}
    <3>1. PICK F \in OnePerKey(Fresh) : Insert(F)
      BY <1>7, <2>4 DEF StartTrades
    <3>2. F \subseteq Fresh /\ KeysOf(F) = KeysOf(Fresh) /\ Fresh \subseteq Trades
      BY <3>1 DEF OnePerKey, Fresh
    <3>3. F # {}
      BY <2>4, <3>2, KeysOfEmpty, KeysOfMember
    <3>4. QED
      BY <1>7, <2>1, <2>2, <3>1, <3>2, <3>3
      DEF StartTrades, Insert, Listed, Records, TypeOK
  <2>5. QED
    BY <2>3, <2>4
<1>8. ASSUME Commit PROVE TypeOK'
  BY <1>8 DEF Commit, TypeOK
<1>9. ASSUME Saved PROVE TypeOK'
  BY <1>9 DEF Saved, BlockEnds, Cleared, After, TypeOK
<1>10. ASSUME InsertFails PROVE TypeOK'
  <2>1. faults' \in 0..MaxFaults
    BY <1>10, FaultTypes DEF InsertFails
  <2>2. QED
    BY <1>10, <2>1 DEF InsertFails, BlockEnds, Cleared, After, TypeOK
<1>11. ASSUME Start PROVE TypeOK'
  BY <1>11 DEF Start, TypeOK
<1>12. ASSUME Initialized PROVE TypeOK'
  BY <1>12 DEF Initialized, TypeOK
<1>13. ASSUME Stop PROVE TypeOK'
  BY <1>13 DEF Stop, TypeOK
<1>14. ASSUME Forget, faults' \in 0..MaxFaults PROVE TypeOK'
  <2>1. forgotten' \in [Keys -> Nat]
    BY <1>14 DEF Forget, TypeOK
  <2>2. calm' \in BOOLEAN
    BY <1>14 DEF Forget, TypeOK
  <2>3. QED
    BY <1>14, <2>1, <2>2 DEF Forget, TypeOK
<1>15. ASSUME NEW s \in Stamps, Age(s) PROVE TypeOK'
  BY <1>15 DEF Age, TypeOK
<1>16. ASSUME UNCHANGED vars PROVE TypeOK'
  BY <1>16 DEF vars, TypeOK
<1>17. Close => faults' \in 0..MaxFaults /\ Forget
  BY DEF Close, TypeOK
<1>18. Crash => faults' \in 0..MaxFaults /\ Forget
  BY DEF Crash, Fault, TypeOK
<1>19. QED
  BY <1>1, <1>2, <1>3, <1>4, <1>5, <1>6, <1>7, <1>8, <1>9, <1>10, <1>11, <1>12, <1>13, <1>14,
     <1>15, <1>16, <1>17, <1>18
  DEF Next, Saver

-----------------------------------------------------------------------------
(* Rows and keys *)

\* The steps that touch neither the transaction nor the keys.
KeysUntouched == UNCHANGED <<inserting, batch, seen, forgotten, rows, stored, failed>>

LEMMA SaverSteps ==
    ASSUME [Next]_vars
    PROVE  \/ StartQuotesOrRates \/ StartTrades \/ Commit \/ Saved \/ InsertFails
           \/ Stop \/ Forget
           \/ KeysUntouched
<1> USE DEF handlers, table, dedup, saver, KeysUntouched
<1>1. \A r \in Records : Deliver(r) \/ SymbolCreated(r) \/ SymbolFails(r) => KeysUntouched
  BY DEF Deliver, SymbolCreated, SymbolFails
<1>2. Wake \/ NothingToSave \/ Start \/ Initialized => KeysUntouched
  BY DEF Wake, NothingToSave, Start, Initialized
<1>3. \A s \in Stamps : Age(s) => KeysUntouched
  BY DEF Age
<1>4. UNCHANGED vars => KeysUntouched
  BY DEF vars
<1>5. QED
  BY <1>1, <1>2, <1>3, <1>4 DEF Next, Saver, Close, Crash

\* The start of a trade batch: what is fresh is remembered, and no more of it
\* than one trade of each key is inserted.
LEMMA StartedTrades ==
    ASSUME TypeOK, StartTrades
    PROVE  /\ KeysOf(batch') = KeysOf(Fresh)
           /\ seen' = (seen \ Aged) \cup KeysOf(Fresh)
           /\ inserting = "no"
           /\ Fresh # {} => inserting' = "open" /\ cached' = cached /\ turn' = "trades"
           /\ Fresh = {} => inserting' = "no" /\ cached' = cached \ Trades
<1>1. inserting = "no" /\ batch = {} /\ turn = "trades"
  BY DEF StartTrades, TypeOK
<1>2. CASE Fresh = {}
  BY <1>1, <1>2 DEF StartTrades, Marks, Cleared, Listed
<1>3. CASE Fresh # {}
  <2>1. PICK F \in OnePerKey(Fresh) : Insert(F)
    BY <1>3 DEF StartTrades
  <2>2. QED
    BY <1>1, <1>3, <2>1 DEF StartTrades, Marks, OnePerKey, Insert
<1>4. QED
  BY <1>2, <1>3

LEMMA BoundStep ==
    ASSUME TypeOK, RowsBound, BatchMarked, [Next]_vars
    PROVE  RowsBound'
<1> USE DEF handlers, table, dedup, saver
<1> DEFINE Fly(k)  == IF InFlight(k) THEN 1 ELSE 0
           Mark(k) == IF k \in seen THEN 1 ELSE 0
<1>1. SUFFICES ASSUME NEW k \in Keys
               PROVE  rows'[k] + Fly(k)' <= forgotten'[k] + Mark(k)'
  BY DEF RowsBound
<1>2. /\ rows[k] \in Nat /\ forgotten[k] \in Nat
      /\ rows[k] + Fly(k) <= forgotten[k] + Mark(k)
  BY DEF RowsBound, TypeOK
<1>3. Fly(k) \in {0, 1} /\ Mark(k) \in {0, 1}
  OBVIOUS
<1>4. CASE StartQuotesOrRates
  <2>1. KeysOf(batch') = {}
    <3>1. batch' \cap Trades = {}
      BY <1>4 DEF StartQuotesOrRates, Insert, Listed
    <3>2. QED
      BY <3>1, NoKeys
  <2>2. Fly(k)' = 0
    BY <2>1 DEF InFlight
  <2>3. QED
    BY <1>2, <1>3, <1>4, <2>2 DEF StartQuotesOrRates
<1>5. CASE StartTrades
  <2>1. Fly(k) = 0 /\ rows' = rows
    BY <1>5 DEF StartTrades, InFlight
  <2>2. forgotten'[k] = IF k \in Aged THEN forgotten[k] + 1 ELSE forgotten[k]
    BY <1>5 DEF StartTrades
  <2>3. seen' = (seen \ Aged) \cup KeysOf(Fresh) /\ KeysOf(batch') = KeysOf(Fresh)
    BY <1>5, StartedTrades
  <2>4. CASE k \in KeysOf(Fresh)
    <3>1. Mark(k)' = 1 /\ Fly(k)' \in {0, 1}
      BY <2>3, <2>4
    <3>2. k \in Aged \/ Mark(k) = 0
      BY <2>4, FreshKeys
    <3>3. QED
      BY <1>2, <1>3, <2>1, <2>2, <3>1, <3>2
  <2>5. CASE k \notin KeysOf(Fresh)
    <3>1. Fly(k)' = 0
      BY <2>3, <2>5 DEF InFlight
    <3>2. k \in Aged \/ Mark(k)' = Mark(k)
      BY <2>3, <2>5
    <3>3. Mark(k)' \in {0, 1}
      OBVIOUS
    <3>4. QED
      BY <1>2, <1>3, <2>1, <2>2, <3>1, <3>2, <3>3
  <2>6. QED
    BY <2>4, <2>5
<1>6. CASE Commit
  <2>1. Fly(k)' = 0 /\ Mark(k)' = Mark(k) /\ forgotten' = forgotten
    BY <1>6 DEF Commit, InFlight
  <2>2. rows'[k] = rows[k] + Fly(k)
    BY <1>2, <1>6 DEF Commit, InFlight
  <2>3. QED
    BY <1>2, <1>3, <2>1, <2>2
<1>7. CASE Saved \/ InsertFails
  <2>1. Fly(k)' = 0 /\ Mark(k)' = Mark(k) /\ forgotten' = forgotten /\ rows' = rows
    BY <1>7 DEF Saved, InsertFails, BlockEnds, InFlight
  <2>2. QED
    BY <1>2, <1>3, <2>1
<1>8. CASE Stop
  <2>1. Fly(k)' = 0 /\ Mark(k)' = Mark(k) /\ forgotten' = forgotten /\ rows' = rows
    BY <1>8 DEF Stop, InFlight
  <2>2. QED
    BY <1>2, <1>3, <2>1
<1>9. CASE Forget
  <2>1. Fly(k)' = 0 /\ Mark(k)' = 0 /\ rows' = rows
    BY <1>9 DEF Forget, InFlight
  <2>2. forgotten'[k] = forgotten[k] + Mark(k)
    BY <1>2, <1>9 DEF Forget
  <2>3. QED
    BY <1>2, <1>3, <2>1, <2>2
<1>10. CASE KeysUntouched
  <2>1. Fly(k)' = Fly(k) /\ Mark(k)' = Mark(k) /\ forgotten' = forgotten /\ rows' = rows
    BY <1>10 DEF KeysUntouched, InFlight, KeysOf
  <2>2. QED
    BY <1>2, <2>1
<1>11. QED
  BY SaverSteps, <1>4, <1>5, <1>6, <1>7, <1>8, <1>9, <1>10

LEMMA MarkedStep ==
    ASSUME TypeOK, BatchMarked, [Next]_vars
    PROVE  BatchMarked'
<1> USE DEF handlers, table, dedup, saver
<1>1. CASE StartQuotesOrRates
  <2>1. batch' \cap Trades = {} /\ inserting' = "open"
    BY <1>1 DEF StartQuotesOrRates, Insert, Listed
  <2>2. QED
    BY <2>1, NoKeys DEF BatchMarked
<1>2. CASE StartTrades
  <2>1. KeysOf(batch') \subseteq seen' /\ inserting' # "committed"
    BY <1>2, StartedTrades
  <2>2. QED
    BY <2>1 DEF BatchMarked
<1>3. CASE Commit
  <2>1. batch' = batch /\ seen' = seen /\ stored' = stored \cup batch
    BY <1>3 DEF Commit
  <2>2. ASSUME NEW k \in KeysOf(batch)
        PROVE  rows'[k] > 0
    <3>1. k \in Keys /\ rows[k] \in Nat
      BY <2>2, KeysOfIsKeys DEF TypeOK
    <3>2. rows'[k] = rows[k] + 1
      BY <1>3, <2>2, <3>1 DEF Commit
    <3>3. QED
      BY <3>1, <3>2
  <2>3. QED
    BY <2>1, <2>2 DEF BatchMarked
<1>4. CASE Saved \/ InsertFails \/ Stop \/ Forget
  <2>1. batch' = {} /\ inserting' = "no"
    BY <1>4 DEF Saved, InsertFails, Stop, Forget, BlockEnds
  <2>2. QED
    BY <2>1, KeysOfEmpty DEF BatchMarked
<1>5. CASE KeysUntouched
  BY <1>5 DEF KeysUntouched, BatchMarked, KeysOf
<1>6. QED
  BY SaverSteps, <1>1, <1>2, <1>3, <1>4, <1>5

LEMMA SeenStep ==
    ASSUME TypeOK, BatchMarked, SeenIsStored, [Next]_vars
    PROVE  SeenIsStored'
<1> USE DEF handlers, table, dedup, saver
<1>1. SUFFICES ASSUME ~failed', NEW k \in seen'
               PROVE  rows'[k] > 0 \/ (inserting' = "open" /\ k \in KeysOf(batch'))
  BY DEF SeenIsStored
<1>2. CASE StartQuotesOrRates
  <2>1. ~failed /\ k \in seen /\ rows' = rows /\ inserting = "no"
    BY <1>1, <1>2 DEF StartQuotesOrRates
  <2>2. QED
    BY <2>1 DEF SeenIsStored
<1>3. CASE StartTrades
  <2>1. ~failed /\ rows' = rows /\ inserting = "no"
    BY <1>1, <1>3 DEF StartTrades
  <2>2. CASE k \in seen
    BY <2>1, <2>2 DEF SeenIsStored
  <2>3. CASE k \in KeysOf(Fresh)
    <3>1. Fresh # {}
      BY <2>3, KeysOfEmpty
    <3>2. QED
      BY <1>3, <2>3, <3>1, StartedTrades
  <2>4. QED
    BY <1>1, <1>3, <2>2, <2>3, StartedTrades
<1>4. CASE Commit
  <2>1. ~failed /\ k \in seen /\ seen \subseteq Keys
    BY <1>1, <1>4 DEF Commit, TypeOK
  <2>2. rows[k] > 0 \/ k \in KeysOf(batch)
    BY <2>1 DEF SeenIsStored
  <2>3. /\ rows[k] \in Nat
        /\ rows'[k] = IF k \in KeysOf(batch) THEN rows[k] + 1 ELSE rows[k]
    BY <1>4, <2>1 DEF Commit, TypeOK
  <2>4. QED
    BY <2>2, <2>3
<1>5. CASE Saved
  BY <1>1, <1>5 DEF Saved, SeenIsStored
<1>6. CASE InsertFails
  BY <1>1, <1>6 DEF InsertFails
<1>7. CASE Stop
  BY <1>1, <1>7 DEF Stop, SeenIsStored
<1>8. CASE Forget
  BY <1>1, <1>8 DEF Forget
<1>9. CASE KeysUntouched
  BY <1>1, <1>9 DEF KeysUntouched, SeenIsStored, KeysOf
<1>10. QED
  BY SaverSteps, <1>2, <1>3, <1>4, <1>5, <1>6, <1>7, <1>8, <1>9

-----------------------------------------------------------------------------
(* What a calm run keeps *)

LEMMA LossStep ==
    ASSUME TypeOK, LossNoticed, [Next]_vars
    PROVE  LossNoticed'
<1> USE DEF handlers, table, dedup, saver
<1>1. CASE Start
  BY <1>1 DEF Start, LossNoticed
<1>2. CASE Initialized
  BY <1>2 DEF Initialized, LossNoticed
<1>3. CASE Stop
  BY <1>3 DEF Stop, LossNoticed
<1>4. CASE InsertFails
  <2>1. phase' = "running" /\ ~calm'
    BY <1>4 DEF InsertFails, TypeOK
  <2>2. QED
    BY <2>1 DEF LossNoticed
<1>5. CASE Forget
  BY <1>5 DEF Forget, LossNoticed
<1>6. CASE phase' = phase /\ failed' = failed /\ (calm' => calm)
  BY <1>6 DEF LossNoticed
<1>7. \A r \in Records : Deliver(r) \/ SymbolCreated(r) \/ SymbolFails(r) =>
                            phase' = phase /\ failed' = failed /\ (calm' => calm)
  BY DEF Deliver, SymbolCreated, SymbolFails, Handle
<1>8. Wake \/ NothingToSave \/ StartQuotesOrRates \/ StartTrades \/ Commit \/ Saved =>
                            phase' = phase /\ failed' = failed /\ (calm' => calm)
  BY DEF Wake, NothingToSave, StartQuotesOrRates, StartTrades, Commit, Saved
<1>9. \A s \in Stamps : Age(s) => phase' = phase /\ failed' = failed /\ (calm' => calm)
  BY DEF Age
<1>10. UNCHANGED vars => phase' = phase /\ failed' = failed /\ (calm' => calm)
  BY DEF vars
<1>11. QED
  BY <1>1, <1>2, <1>3, <1>4, <1>5, <1>6, <1>7, <1>8, <1>9, <1>10 DEF Next, Saver, Close, Crash

\* Once a handler is through, its record is in the cache or was skipped, and
\* nothing that was in either is gone; a list that is being saved gets
\* nothing new while the run is calm.
LEMMA HandleKeeps ==
    ASSUME NEW r \in Records, Handle(r)
    PROVE  /\ r \in cached' \cup skipped'
           /\ cached \subseteq cached' /\ cached' \subseteq cached \cup {r}
           /\ skipped \subseteq skipped'
           /\ calm' => calm /\ ~(inserting # "no" /\ r \in Listed(turn))
<1>1. CASE r \in Quotes /\ NoChange(r)
  BY <1>1 DEF Handle
<1>2. CASE r \in Quotes /\ ~NoChange(r)
  BY <1>2 DEF Handle
<1>3. CASE r \notin Quotes
  BY <1>3 DEF Handle
<1>4. QED
  BY <1>1, <1>2, <1>3

LEMMA WholeStep ==
    ASSUME TypeOK, SaveIsWhole, [Next]_vars
    PROVE  SaveIsWhole'
<1> USE DEF handlers, table, dedup, saver
<1>1. SUFFICES ASSUME calm', inserting' # "no", NEW r \in cached' \cap Listed(turn)'
               PROVE  r \in batch' \/ (r \in Trades /\ KeyOf(r) \in seen')
  BY DEF SaveIsWhole, Listed
<1>2. ASSUME NEW q \in Records, Handle(q), UNCHANGED <<saver, dedup>>
      PROVE  r \in batch' \/ (r \in Trades /\ KeyOf(r) \in seen')
  <2>1. calm /\ inserting # "no" /\ r \in Listed(turn)
    BY <1>1, <1>2, HandleKeeps DEF Listed
  <2>2. r # q /\ r \in cached
    BY <1>1, <1>2, <2>1, HandleKeeps
  <2>3. QED
    BY <1>2, <2>1, <2>2 DEF SaveIsWhole
<1>3. CASE /\ UNCHANGED <<cached, turn, batch, seen>>
           /\ (calm' => calm) /\ (inserting' # "no" => inserting # "no")
  BY <1>1, <1>3 DEF SaveIsWhole, Listed
<1>4. ASSUME NEW q \in Records, Deliver(q) PROVE r \in batch' \/ (r \in Trades /\ KeyOf(r) \in seen')
  <2>1. CASE MarketOf[q] \in symbols
    BY <1>2, <1>4, <2>1 DEF Deliver
  <2>2. CASE MarketOf[q] \notin symbols
    BY <1>3, <1>4, <2>2 DEF Deliver
  <2>3. QED
    BY <2>1, <2>2
<1>5. ASSUME NEW q \in Records, SymbolCreated(q)
      PROVE  r \in batch' \/ (r \in Trades /\ KeyOf(r) \in seen')
  BY <1>2, <1>5 DEF SymbolCreated
<1>6. ASSUME NEW q \in Records, SymbolFails(q)
      PROVE  r \in batch' \/ (r \in Trades /\ KeyOf(r) \in seen')
  BY <1>1, <1>6 DEF SymbolFails
<1>7. CASE StartQuotesOrRates
  <2>1. r \in cached \cap Listed(turn)
    BY <1>1, <1>7 DEF StartQuotesOrRates, Insert, Listed
  <2>2. QED
    BY <1>7, <2>1 DEF StartQuotesOrRates, Insert
<1>8. CASE StartTrades
  <2>1. Fresh # {} /\ r \in cached \cap Trades
    BY <1>1, <1>8, StartedTrades DEF Listed
  <2>2. seen' = (seen \ Aged) \cup KeysOf(Fresh)
    BY <1>8, StartedTrades
  <2>3. CASE KeyOf(r) \in seen \ Aged
    BY <2>1, <2>2, <2>3
  <2>4. CASE KeyOf(r) \notin seen \ Aged
    <3>1. r \in Fresh \cap Trades
      BY <2>1, <2>4 DEF Fresh
    <3>2. KeyOf(r) \in KeysOf(Fresh)
      BY <3>1, KeysOfMember
    <3>3. QED
      BY <2>1, <2>2, <3>2
  <2>5. QED
    BY <2>3, <2>4
<1>9. CASE Wake \/ NothingToSave \/ Initialized
  <2>1. inserting' = "no"
    BY <1>9 DEF Wake, NothingToSave, Initialized, TypeOK
  <2>2. QED
    BY <1>1, <2>1
<1>10. CASE Saved \/ InsertFails \/ Stop \/ Forget
  <2>1. inserting' = "no"
    BY <1>10 DEF Saved, InsertFails, BlockEnds, Stop, Forget
  <2>2. QED
    BY <1>1, <2>1
<1>11. CASE Commit
  BY <1>3, <1>11 DEF Commit
<1>12. CASE Start
  BY <1>3, <1>12 DEF Start
<1>13. ASSUME NEW s \in Stamps, Age(s) PROVE r \in batch' \/ (r \in Trades /\ KeyOf(r) \in seen')
  BY <1>3, <1>13 DEF Age
<1>14. CASE UNCHANGED vars
  BY <1>3, <1>14 DEF vars
<1>15. QED
  BY <1>4, <1>5, <1>6, <1>7, <1>8, <1>9, <1>10, <1>11, <1>12, <1>13, <1>14
  DEF Next, Saver, Close, Crash

LEMMA CalmStep ==
    ASSUME Inv, [Next]_vars
    PROVE  CalmLosesNothing'
<1> USE DEF handlers, table, dedup, saver
<1> DEFINE Row(r)  == r \in Trades /\ rows[KeyOf(r)] > 0
           Kept(r) == r \in creating \cup cached \cup stored \cup skipped \/ Row(r)
<1>1. SUFFICES ASSUME calm', NEW r \in arrived' PROVE Kept(r)'
  BY DEF CalmLosesNothing
<1>2. TypeOK /\ SeenIsStored /\ LossNoticed /\ SaveIsWhole /\ BatchMarked
  BY DEF Inv
<1>3. calm /\ r \in arrived => Kept(r)
  BY DEF Inv, CalmLosesNothing
<1>4. CASE /\ UNCHANGED <<creating, cached, stored, skipped, rows>>
           /\ (calm' => calm) /\ r \in arrived
  BY <1>1, <1>3, <1>4
<1>5. ASSUME NEW q \in Records, Deliver(q) PROVE Kept(r)'
  <2>1. arrived' = arrived \cup {q} /\ stored' = stored /\ rows' = rows
    BY <1>5 DEF Deliver
  <2>2. CASE MarketOf[q] \in symbols
    <3>1. Handle(q) /\ creating' = creating
      BY <1>5, <2>2 DEF Deliver
    <3>2. CASE r = q
      BY <3>1, <3>2, HandleKeeps
    <3>3. CASE r # q
      BY <1>1, <1>3, <2>1, <3>1, <3>3, HandleKeeps
    <3>4. QED
      BY <3>2, <3>3
  <2>3. CASE MarketOf[q] \notin symbols
    <3>1. creating' = creating \cup {q} /\ UNCHANGED <<cached, skipped, calm>>
      BY <1>5, <2>3 DEF Deliver
    <3>2. QED
      BY <1>1, <1>3, <2>1, <3>1
  <2>4. QED
    BY <2>2, <2>3
<1>6. ASSUME NEW q \in Records, SymbolCreated(q) PROVE Kept(r)'
  <2>1. /\ arrived' = arrived /\ stored' = stored /\ rows' = rows
        /\ Handle(q) /\ creating' = creating \ {q}
    BY <1>6 DEF SymbolCreated
  <2>2. CASE r = q
    BY <2>1, <2>2, HandleKeeps
  <2>3. CASE r # q
    BY <1>1, <1>3, <2>1, <2>3, HandleKeeps
  <2>4. QED
    BY <2>2, <2>3
<1>7. ASSUME NEW q \in Records, SymbolFails(q) PROVE Kept(r)'
  BY <1>1, <1>7 DEF SymbolFails
<1>8. CASE StartTrades
  <2>1. calm /\ Kept(r)
    BY <1>1, <1>3, <1>8 DEF StartTrades
  <2>2. UNCHANGED <<creating, stored, skipped, rows>> /\ phase = "running" /\ inserting = "no"
    BY <1>8 DEF StartTrades
  <2>3. CASE r \in cached'
    BY <2>3
  <2>4. CASE r \notin cached' /\ r \in cached
    <3>1. Fresh = {} /\ r \in Trades
      BY <1>2, <1>8, <2>4, StartedTrades
    <3>2. KeyOf(r) \in seen
      BY <2>4, <3>1 DEF Fresh
    <3>3. ~failed
      BY <1>2, <2>1, <2>2 DEF LossNoticed
    <3>4. QED
      BY <1>2, <2>2, <3>1, <3>2, <3>3 DEF SeenIsStored
  <2>5. CASE r \notin cached
    BY <2>1, <2>2, <2>5
  <2>6. QED
    BY <2>3, <2>4, <2>5
<1>9. CASE Saved
  <2>1. calm /\ Kept(r)
    BY <1>1, <1>3, <1>9 DEF Saved
  <2>2. /\ UNCHANGED <<creating, stored, skipped, rows>>
        /\ inserting = "committed" /\ cached' = cached \ Listed(turn)
    BY <1>9 DEF Saved, BlockEnds, Cleared
  <2>3. phase = "running" /\ ~failed
    BY <1>2, <2>1, <2>2 DEF TypeOK, LossNoticed
  <2>4. CASE r \in cached \cap Listed(turn)
    <3>1. r \in batch \/ (r \in Trades /\ KeyOf(r) \in seen)
      BY <1>2, <2>1, <2>2, <2>4 DEF SaveIsWhole
    <3>2. CASE r \in batch
      BY <1>2, <2>2, <3>2 DEF BatchMarked
    <3>3. CASE r \in Trades /\ KeyOf(r) \in seen
      BY <1>2, <2>2, <2>3, <3>3 DEF SeenIsStored
    <3>4. QED
      BY <3>1, <3>2, <3>3
  <2>5. CASE r \notin cached \cap Listed(turn)
    BY <2>1, <2>2, <2>5
  <2>6. QED
    BY <2>4, <2>5
<1>10. CASE Commit
  <2>1. calm /\ Kept(r) /\ UNCHANGED <<creating, cached, skipped>> /\ stored \subseteq stored'
    BY <1>1, <1>3, <1>10 DEF Commit
  <2>2. ASSUME Row(r) PROVE Row(r)'
    <3>1. KeyOf(r) \in Keys /\ rows[KeyOf(r)] \in Nat
      BY <1>2, <2>2 DEF TypeOK, Keys, KeysOf
    <3>2. rows'[KeyOf(r)] = rows[KeyOf(r)] + 1 \/ rows'[KeyOf(r)] = rows[KeyOf(r)]
      BY <1>10, <3>1 DEF Commit
    <3>3. QED
      BY <2>2, <3>1, <3>2
  <2>3. QED
    BY <2>1, <2>2
<1>11. CASE Forget
  <2>1. /\ calm /\ cached = {} /\ creating = {} /\ r \in arrived
        /\ UNCHANGED <<stored, skipped, rows>>
    BY <1>1, <1>11 DEF Forget
  <2>2. QED
    BY <1>3, <2>1
<1>12. CASE InsertFails
  BY <1>1, <1>12 DEF InsertFails
<1>13. CASE StartQuotesOrRates
  BY <1>1, <1>4, <1>13 DEF StartQuotesOrRates, Insert
<1>14. CASE Wake \/ NothingToSave \/ Start \/ Initialized \/ Stop
  BY <1>1, <1>4, <1>14 DEF Wake, NothingToSave, Start, Initialized, Stop
<1>15. ASSUME NEW s \in Stamps, Age(s) PROVE Kept(r)'
  BY <1>1, <1>4, <1>15 DEF Age
<1>16. CASE UNCHANGED vars
  BY <1>1, <1>4, <1>16 DEF vars
<1>17. QED
  BY <1>5, <1>6, <1>7, <1>8, <1>9, <1>10, <1>11, <1>12, <1>13, <1>14, <1>15, <1>16
  DEF Next, Saver, Close, Crash

-----------------------------------------------------------------------------
(* The theorems *)

LEMMA Invariance == Spec => []Inv
<1>1. Init => Inv
  BY InvInit
<1>2. Inv /\ [Next]_vars => Inv'
  <2> SUFFICES ASSUME Inv, [Next]_vars PROVE Inv'
    OBVIOUS
  <2>1. TypeOK' /\ RowsBound' /\ BatchMarked' /\ SeenIsStored' /\ LossNoticed' /\ SaveIsWhole'
    BY TypeStep, BoundStep, MarkedStep, SeenStep, LossStep, WholeStep DEF Inv
  <2>2. CalmLosesNothing'
    BY CalmStep
  <2>3. QED
    BY <2>1, <2>2 DEF Inv
<1>3. QED
  BY <1>1, <1>2, PTL DEF Spec

\* Every state of the collector has its type: only a running process has a
\* transaction open, and it inserts records of the list whose turn it is.
THEOREM TypeCorrect == Spec => []TypeOK
<1>1. Inv => TypeOK
  BY DEF Inv
<1>2. QED
  BY <1>1, Invariance, PTL

\* However often trades are delivered again, a key gets at most one row for
\* each time that insert_trade_snapshots_batch remembers it.
THEOREM SecondRowsAreExplained == Spec => []RowsExplained
<1>1. Inv => RowsExplained
  <2> SUFFICES ASSUME Inv, NEW k \in Keys PROVE rows[k] <= 1 + forgotten[k]
    BY DEF RowsExplained
  <2> DEFINE Fly  == IF InFlight(k) THEN 1 ELSE 0
             Mark == IF k \in seen THEN 1 ELSE 0
  <2>1. rows[k] \in Nat /\ forgotten[k] \in Nat /\ rows[k] + Fly <= forgotten[k] + Mark
    BY DEF Inv, TypeOK, RowsBound
  <2>2. Fly \in {0, 1} /\ Mark \in {0, 1}
    OBVIOUS
  <2>3. QED
    BY <2>1, <2>2
<1>2. QED
  BY <1>1, Invariance, PTL

\* What the cache of keys takes for a duplicate is in the database or on its
\* way there, as long as the process lost no transaction.
THEOREM SeenHasRows == Spec => []SeenIsStored
<1>1. Inv => SeenIsStored
  BY DEF Inv
<1>2. QED
  BY <1>1, Invariance, PTL

\* A calm collector loses no record between the websocket and the database.
THEOREM NothingLostWhenCalm == Spec => []CalmLosesNothing
<1>1. Inv => CalmLosesNothing
  BY DEF Inv
<1>2. QED
  BY <1>1, Invariance, PTL
=============================================================================
