--------------------------- MODULE AssetTransfer ---------------------------
(***************************************************************************)
(* The cycle of CrossExchangeArbitrageTask: buy base on the source         *)
(* exchange, withdraw it to dest, sell it there, withdraw the proceeds to  *)
(* source; with AssetTransferModule, which submits the withdrawals and     *)
(* follows them, the monitor that asks it, the context that the manager    *)
(* saves after a step, crashes and restarts.                               *)
(*                                                                         *)
(* Base comes in lots.  Quote amounts, prices and fees are left out, so    *)
(* that a purchase is refused for lack of quote at any time.  The exchange *)
(* accounts belong to the task alone.  Orders are market orders            *)
(* (use_market), and the trading signal may allow either side at any time. *)
(* The hedge order that ends a step is left out: what it is computed from  *)
(* is the subject of ExposureIsOwned.                                      *)
(*                                                                         *)
(* A withdrawal and a deposit have the statuses that the code tells apart: *)
(* in progress, completed, failed, and held for those that are none of     *)
(* these (manual review, cancelled, locked).                               *)
(***************************************************************************)
EXTENDS Naturals, FiniteSets

CONSTANTS
    Total,          \* total_quantity, in lots
    MaxWithdrawals, \* bound: the withdrawals there are
    MaxFaults       \* bound: crashes, failing calls and refusals

ASSUME BoundsAssumption ==
    Total \in Nat \ {0} /\ MaxWithdrawals \in Nat \ {0} /\ MaxFaults \in Nat

VARIABLES
    pc,      \* where the task is: between the steps, or at an await of one
    role,    \* current_role
    pos,     \* positions['source'] and ['dest']
    request, \* transfer_request: its withdrawal and the statuses it has seen
    flag,    \* should_save_flag
    monitor, \* what _update_transfer_status asks next
    sending, \* the withdrawal whose answer the step awaits, 0 for none
    saved,   \* the context on disk
    base,    \* the base that is available on an exchange
    chain,   \* the withdrawals, with their deposits, as the exchanges know them
    credited,\* (history) the withdrawals that were credited
    givenUp, \* (history) those that were given up
    lost,    \* (history) those whose answer or context was lost
    strayed, \* (history) something of the context was lost or given up
    faults   \* how many faults there were

context  == <<role, pos, request>>
exchange == <<base, chain>>
history  == <<credited, givenUp, lost, strayed>>
vars     == <<pc, context, flag, monitor, sending, saved, exchange, history, faults>>

Ids      == 1..MaxWithdrawals
Roles    == {"source", "dest"}
Statuses == {"unknown", "progress", "held", "completed", "failed"}

NoRequest == [id |-> 0, withdrawal |-> "unknown", deposit |-> "unknown", tx |-> FALSE]
NoPosition == [qty |-> 0, acc |-> 0, target |-> 0]

Requests  == [id : 0..MaxWithdrawals, withdrawal : Statuses, deposit : Statuses, tx : BOOLEAN]
Positions == [Roles -> [qty : Nat, acc : Nat, target : Nat]]

TypeOK ==
    /\ pc \in {"down", "loading", "restoring", "idle", "crediting", "initiating", "submitting",
               "answering", "trading", "hedging", "stepped"}
    /\ role \in Roles \union {"none"}
    /\ pos \in Positions
    /\ request \in Requests
    /\ flag \in BOOLEAN
    /\ monitor \in {"off", "withdrawal", "deposit"}
    /\ sending \in 0..MaxWithdrawals
    /\ saved \in [role : Roles \union {"none"}, pos : Positions, request : Requests]
    /\ base \in [Roles -> Nat]
    /\ chain \in [Ids -> [from : Roles, qty : Nat, withdrawal : Statuses, deposit : Statuses,
                          sent : BOOLEAN, trouble : BOOLEAN]]
    /\ credited \subseteq Ids /\ givenUp \subseteq Ids
    /\ lost \subseteq Ids
    /\ strayed \in BOOLEAN
    /\ faults \in 0..MaxFaults

Init ==
    /\ pc = "down"
    /\ role = "none"
    /\ pos = [r \in Roles |-> NoPosition]
    /\ request = NoRequest
    /\ flag = FALSE
    /\ monitor = "off"
    /\ sending = 0
    /\ saved = [role |-> role, pos |-> pos, request |-> request]
    /\ base = [r \in Roles |-> 0]
    /\ chain = [i \in Ids |-> [from |-> "source", qty |-> 0, withdrawal |-> "unknown",
                               deposit |-> "unknown", sent |-> FALSE, trouble |-> FALSE]]
    /\ credited = {} /\ givenUp = {}
    /\ lost = {}
    /\ strayed = FALSE
    /\ faults = 0

Other(r) == IF r = "source" THEN "dest" ELSE "source"

Fault == faults < MaxFaults /\ faults' = faults + 1

-----------------------------------------------------------------------------
(* TransferRequest and Position *)

HasRequest == request.id # 0

\* Mutant: only the withdrawal counts.
WithdrawalInProgress == request.withdrawal \in {"progress", "unknown"}

InProgress ==
    {request.withdrawal, request.deposit} \intersect {"progress", "unknown"} # {}

\* Mutant: either side is enough.
EitherCompleted == "completed" \in {request.withdrawal, request.deposit}

Completed == request.withdrawal = "completed" /\ request.deposit = "completed"

\* A request for base leaves from the source.
Leaves(i) == chain[i].from

Remaining(p) == IF p.acc < p.target THEN p.target - p.acc ELSE 0

\* Mutant: the first lot is enough.
IsStarted(p) == p.acc > 0 /\ p.target > 0

IsFulfilled(p) == Remaining(p) = 0 /\ p.target > 0

Reset(target) == [NoPosition EXCEPT !.target = target]

\* What the hedge is computed from.
Exposure ==
    pos["source"].qty + pos["dest"].qty
        + IF HasRequest /\ Leaves(request.id) = "source" THEN chain[request.id].qty ELSE 0

ClearRequest ==
    /\ request' = NoRequest
    /\ monitor' = "off"
    /\ flag' = TRUE

-----------------------------------------------------------------------------
(* start *)

\* The task is made of the context that was saved.
Start ==
    /\ pc = "down"
    /\ pc' = "loading"
    /\ role' = saved.role
    /\ pos' = saved.pos
    /\ request' = saved.request
    /\ UNCHANGED <<flag, monitor, sending, saved, exchange, history, faults>>

\* _load_initial_balances for the roles in rs: a balance of nothing leaves the
\* position as it is.
Loaded(rs) ==
    [r \in Roles |-> IF r \in rs /\ base[r] > 0 THEN [pos[r] EXCEPT !.qty = base[r]] ELSE pos[r]]

\* The role is guessed unless it is set, and its target set anew.
LoadedRole(r) ==
    IF r # "none" THEN r
    ELSE IF Loaded(Roles)["dest"].qty > Loaded(Roles)["source"].qty THEN "dest" ELSE "source"

Lesser(m, n) == IF m < n THEN m ELSE n

LoadedPositions(r) ==
    [Loaded(Roles) EXCEPT
        ![r].target = IF r = "dest" THEN Lesser(Total, base["dest"]) ELSE Total]

\* An active transfer is brought up to date before the task is active.
Load ==
    /\ pc = "loading"
    /\ role' = LoadedRole(role)
    /\ pos' = LoadedPositions(role')
    /\ IF HasRequest
       THEN pc' = "restoring" /\ monitor' = "withdrawal"
       ELSE pc' = "idle" /\ UNCHANGED monitor
    /\ UNCHANGED <<request, flag, sending, saved, exchange, history, faults>>

-----------------------------------------------------------------------------
(* update_transfer_request, from start and from the monitor *)

\* The exchange has answered, or the error was logged.
Asks(answer) ==
    \/ request' = answer /\ UNCHANGED faults
    \/ Fault /\ UNCHANGED request

\* Mutant: the transaction is not noted.
AskStatusOnly ==
    /\ monitor = "withdrawal"
    /\ InProgress \/ pc = "restoring"
    /\ monitor' = "deposit"
    /\ IF request.withdrawal \in {"progress", "unknown"}
       THEN Asks([request EXCEPT !.withdrawal = chain[request.id].withdrawal])
       ELSE UNCHANGED <<request, faults>>
    /\ UNCHANGED <<pc, role, pos, flag, sending, saved, exchange, history>>

AskWithdrawal ==
    /\ monitor = "withdrawal"
    /\ InProgress \/ pc = "restoring"
    /\ monitor' = "deposit"
    /\ IF request.withdrawal \in {"progress", "unknown"}
       THEN Asks([request EXCEPT !.withdrawal = chain[request.id].withdrawal,
                                 !.tx = chain[request.id].sent])
       ELSE UNCHANGED <<request, faults>>
    /\ UNCHANGED <<pc, role, pos, flag, sending, saved, exchange, history>>

\* A deposit is found by the transaction of the withdrawal.
AskDeposit ==
    /\ monitor = "deposit"
    /\ monitor' = "withdrawal"
    /\ IF request.deposit \in {"progress", "unknown"} /\ request.tx
             /\ chain[request.id].deposit # "unknown"
       THEN Asks([request EXCEPT !.deposit = chain[request.id].deposit])
       ELSE UNCHANGED <<request, faults>>
    /\ pc' = IF pc = "restoring" THEN "idle" ELSE pc
    /\ UNCHANGED <<role, pos, flag, sending, saved, exchange, history>>

-----------------------------------------------------------------------------
(* A step: _manage_transfer_between_exchanges *)

WaitForTransfer ==
    /\ pc = "idle"
    /\ HasRequest /\ InProgress
    /\ pc' = "stepped"
    /\ UNCHANGED <<context, flag, monitor, sending, saved, exchange, history, faults>>

\* The role changes before the balances are loaded.
HandleCompleted ==
    /\ pc = "idle"
    /\ HasRequest /\ Completed
    /\ role' = Other(Leaves(request.id))
    /\ pc' = "crediting"
    /\ UNCHANGED <<pos, request, flag, monitor, sending, saved, exchange, history, faults>>

\* Mutant: what has arrived is added to what is there.
CreditAdds ==
    /\ pc = "crediting"
    /\ pos' = IF role = "dest"
              THEN [Loaded(Roles) EXCEPT
                        !["dest"] = [qty |-> @.qty + chain[request.id].qty, acc |-> 0,
                                     target |-> chain[request.id].qty]]
              ELSE [r \in Roles |-> Reset(IF r = "source" THEN Total ELSE 0)]
    /\ ClearRequest
    /\ credited' = credited \union {request.id}
    /\ pc' = "trading"
    /\ UNCHANGED <<role, sending, saved, exchange, givenUp, lost, strayed, faults>>

\* A bought lot is sold on dest; a new cycle begins on source.
Credit ==
    /\ pc = "crediting"
    /\ pos' = IF role = "dest"
              THEN [Loaded(Roles) EXCEPT !["dest"] = [qty |-> chain[request.id].qty, acc |-> 0,
                                                      target |-> chain[request.id].qty]]
              ELSE [r \in Roles |-> Reset(IF r = "source" THEN Total ELSE 0)]
    /\ ClearRequest
    /\ credited' = credited \union {request.id}
    /\ pc' = "trading"
    /\ UNCHANGED <<role, sending, saved, exchange, givenUp, lost, strayed, faults>>

\* The balances could not be loaded: the transfer stays, the step goes on.
CreditFails ==
    /\ pc = "crediting"
    /\ \E rs \in {{}, {"source"}} : pos' = Loaded(rs)
    /\ pc' = "trading"
    /\ Fault
    /\ UNCHANGED <<role, request, flag, monitor, sending, saved, exchange, history>>

GiveUp ==
    /\ pc = "idle"
    /\ HasRequest /\ ~InProgress /\ ~Completed
    /\ ClearRequest
    /\ givenUp' = givenUp \union {request.id}
    /\ strayed' = TRUE
    /\ pc' = "trading"
    /\ UNCHANGED <<role, pos, sending, saved, exchange, credited, lost, faults>>

NothingToTransfer ==
    /\ pc = "idle"
    /\ ~HasRequest
    /\ ~IsFulfilled(pos[role])
    /\ pc' = "trading"
    /\ UNCHANGED <<context, flag, monitor, sending, saved, exchange, history, faults>>

Initiate ==
    /\ pc = "idle"
    /\ ~HasRequest
    /\ IsFulfilled(pos[role])
    /\ pc' = "initiating"
    /\ UNCHANGED <<context, flag, monitor, sending, saved, exchange, history, faults>>

\* Mutant: the balance is not asked for.
AmountOfPosition == IF role = "source" THEN pos["source"].qty ELSE 0

\* What leaves: of the base no more than the exchange has.
Amount == IF role = "source" THEN Lesser(pos["source"].qty, base["source"]) ELSE 0

Unused == {i \in Ids : chain[i].withdrawal = "unknown"}

\* The withdrawal is validated, its address found.
Submit ==
    /\ pc = "initiating"
    /\ role = "source" => Amount > 0
    /\ Unused # {}
    /\ pc' = "submitting"
    /\ UNCHANGED <<context, flag, monitor, sending, saved, exchange, history, faults>>

\* Nothing was withdrawn, as always at the bound: the step goes on.
SubmitFails ==
    /\ \/ /\ pc = "initiating"
          /\ Unused = {} \/ (role = "source" /\ Amount = 0)
          /\ UNCHANGED faults
       \/ pc \in {"initiating", "submitting"} /\ Fault
    /\ pc' = "trading"
    /\ UNCHANGED <<context, flag, monitor, sending, saved, exchange, history>>

\* The exchange executes the withdrawal.
Execute ==
    /\ pc = "submitting"
    /\ \E i \in Unused :
         /\ \A j \in Unused : i <= j
         /\ chain' = [chain EXCEPT ![i].from = role, ![i].qty = Amount,
                                   ![i].withdrawal = "progress"]
         /\ sending' = i
    /\ base' = IF role = "source" THEN [base EXCEPT !["source"] = @ - Amount] ELSE base
    /\ pc' = "answering"
    /\ UNCHANGED <<context, flag, monitor, saved, history, faults>>

\* Mutant: no save is asked for.
AnsweredUnsaved ==
    /\ pc = "answering"
    /\ request' = [id |-> sending, withdrawal |-> "progress", deposit |-> "progress",
                   tx |-> FALSE]
    /\ pos' = [pos EXCEPT ![role] = Reset(0)]
    /\ monitor' = "withdrawal"
    /\ sending' = 0
    /\ pc' = "stepped"
    /\ UNCHANGED <<role, flag, saved, exchange, history, faults>>

\* The request is in the context, the position is gone from it.
Answered ==
    /\ pc = "answering"
    /\ request' = [id |-> sending, withdrawal |-> "progress", deposit |-> "progress",
                   tx |-> FALSE]
    /\ pos' = [pos EXCEPT ![role] = Reset(0)]
    /\ flag' = TRUE
    /\ monitor' = "withdrawal"
    /\ sending' = 0
    /\ pc' = "stepped"
    /\ UNCHANGED <<role, saved, exchange, history, faults>>

\* The exchange has executed what the step takes for an error.
AnswerLost ==
    /\ pc = "answering"
    /\ lost' = lost \union {sending}
    /\ strayed' = TRUE
    /\ sending' = 0
    /\ pc' = "trading"
    /\ Fault
    /\ UNCHANGED <<context, flag, monitor, saved, exchange, credited, givenUp>>

-----------------------------------------------------------------------------
(* The rest of the step, and the save of the manager *)

\* The signal does not allow to trade, or the order is not placed.
NoTrade ==
    /\ pc = "trading"
    /\ pc' = "hedging"
    /\ UNCHANGED <<context, flag, monitor, sending, saved, exchange, history, faults>>

\* A lot of base changes hands; the task hears of it or not.
Fills(r, b, qty) ==
    /\ base' = [base EXCEPT ![r] = b]
    /\ \/ /\ pos' = [pos EXCEPT ![r].qty = qty, ![r].acc = @ + 1]
          /\ flag' = TRUE
          /\ UNCHANGED <<strayed, faults>>
       \/ /\ strayed' = TRUE
          /\ Fault
          /\ UNCHANGED <<pos, flag>>
    /\ UNCHANGED <<role, request, monitor, sending, saved, chain, credited, givenUp, lost>>

Buy ==
    /\ pc = "trading" /\ role = "source"
    /\ Remaining(pos["source"]) > 0
    /\ Fills("source", base["source"] + 1, pos["source"].qty + 1)
    /\ pc' = "hedging"

\* Whoever sells from a position of nothing opens one.
Sell ==
    /\ pc = "trading" /\ role = "dest"
    /\ Remaining(pos["dest"]) > 0
    /\ base["dest"] > 0
    /\ Fills("dest", base["dest"] - 1, IF pos["dest"].qty > 0 THEN pos["dest"].qty - 1 ELSE 1)
    /\ pc' = "hedging"

\* InsufficientBalanceError: the position passes for fulfilled.
Refused ==
    /\ pc = "trading"
    /\ Remaining(pos[role]) > 0
    /\ IF role = "dest" THEN base["dest"] = 0 /\ UNCHANGED faults ELSE Fault
    /\ pos' = [pos EXCEPT ![role].acc = pos[role].target]
    /\ pc' = "hedging"
    /\ UNCHANGED <<role, request, flag, monitor, sending, saved, exchange, history>>

\* _rebalance_hedge
Rebalance ==
    /\ pc = "hedging"
    /\ pc' = "stepped"
    /\ UNCHANGED <<context, flag, monitor, sending, saved, exchange, history, faults>>

Save ==
    /\ pc = "stepped"
    /\ saved' = IF flag THEN [role |-> role, pos |-> pos, request |-> request] ELSE saved
    /\ flag' = FALSE
    /\ pc' = "idle"
    /\ UNCHANGED <<context, monitor, sending, exchange, history, faults>>

-----------------------------------------------------------------------------
(* Crashes and the exchanges *)

Crash ==
    /\ pc # "down"
    /\ pc' = "down"
    /\ role' = "none"
    /\ pos' = [r \in Roles |-> NoPosition]
    /\ request' = NoRequest
    /\ flag' = FALSE
    /\ monitor' = "off"
    /\ sending' = 0
    /\ lost' = lost \union ({request.id, sending} \ {0, saved.request.id})
    /\ strayed' = TRUE
    /\ Fault
    /\ UNCHANGED <<saved, exchange, credited, givenUp>>

task == <<pc, context, flag, monitor, sending, saved>>

\* The transaction goes out; it may have been held before.
Send(i) ==
    /\ chain[i].withdrawal \in {"progress", "held"} /\ ~chain[i].sent
    /\ chain' = [chain EXCEPT ![i].withdrawal = "progress", ![i].sent = TRUE]
    /\ UNCHANGED <<task, base, history, faults>>

WithdrawalCompletes(i) ==
    /\ chain[i].withdrawal = "progress" /\ chain[i].sent
    /\ chain' = [chain EXCEPT ![i].withdrawal = "completed"]
    /\ UNCHANGED <<task, base, history, faults>>

\* It is held, or fails and the funds are back.
WithdrawalInTrouble(i, status) ==
    /\ chain[i].withdrawal \in {"progress", "held"} \ {status} /\ ~chain[i].sent
    /\ chain' = [chain EXCEPT ![i].withdrawal = status, ![i].trouble = TRUE]
    /\ base' = IF status = "failed" THEN [base EXCEPT ![chain[i].from] = @ + chain[i].qty]
                                    ELSE base
    /\ Fault
    /\ UNCHANGED <<task, history>>

DepositAppears(i) ==
    /\ chain[i].sent /\ chain[i].deposit = "unknown"
    /\ chain' = [chain EXCEPT ![i].deposit = "progress"]
    /\ UNCHANGED <<task, base, history, faults>>

DepositCompletes(i) ==
    /\ chain[i].deposit \in {"progress", "held"}
    /\ chain' = [chain EXCEPT ![i].deposit = "completed"]
    /\ base' = [base EXCEPT ![Other(chain[i].from)] = @ + chain[i].qty]
    /\ UNCHANGED <<task, history, faults>>

DepositInTrouble(i, status) ==
    /\ chain[i].deposit \in {"progress", "held"} \ {status}
    /\ chain' = [chain EXCEPT ![i].deposit = status, ![i].trouble = TRUE]
    /\ Fault
    /\ UNCHANGED <<task, base, history>>

Step ==
    \/ WaitForTransfer \/ HandleCompleted \/ Credit \/ GiveUp \/ NothingToTransfer \/ Initiate
    \/ Submit \/ Execute \/ Answered \/ NoTrade \/ Buy \/ Sell \/ Refused \/ Rebalance \/ Save

Fails == CreditFails \/ SubmitFails \/ AnswerLost \/ Crash

Monitor == AskWithdrawal \/ AskDeposit

Exchange ==
    \E i \in Ids :
        \/ Send(i) \/ WithdrawalCompletes(i) \/ DepositAppears(i) \/ DepositCompletes(i)
        \/ \E status \in {"held", "failed"} :
             WithdrawalInTrouble(i, status) \/ DepositInTrouble(i, status)

Next == Start \/ Load \/ Step \/ Fails \/ Monitor \/ Exchange

Spec == Init /\ [][Next]_vars

\* Whoever runs the task starts it again; the event loop runs what can run.
FairSpec ==
    /\ Spec
    /\ WF_vars(Start \/ Load \/ Step \/ SubmitFails)
    /\ WF_vars(Monitor)

-----------------------------------------------------------------------------
(* Properties *)

\* A withdrawal of base that has not come back and has not arrived.
OnItsWay(i) ==
    /\ chain[i].from = "source" /\ chain[i].withdrawal \notin {"unknown", "failed"}
    /\ chain[i].deposit # "completed"

\* The lots of base that are on their way, each by its withdrawal and its number.
LotsOnTheirWay == UNION {{i} \X (1..chain[i].qty) : i \in {j \in Ids : OnItsWay(j)}}

Owned == base["source"] + base["dest"] + Cardinality(LotsOnTheirWay)

\* Whenever the hedge is rebalanced it is computed from what the task owns, on
\* both exchanges and between them: no lot is missing and none counted twice
\* while a transfer is begun, under way or credited, whichever calls fail.
\* Restarts, lost answers and transfers given up are excepted.
ExposureIsOwned == pc = "hedging" /\ ~strayed => Exposure = Owned

\* A withdrawal that the exchange has executed is in the context, and on disk
\* after the step, until it is credited or given up.  Only a lost answer or a
\* crash before the save loses it.
TransferIsTracked ==
    \A i \in Ids \ (Unused \union credited \union givenUp \union lost) :
        \/ pc = "answering" /\ sending = i
        \/ /\ pc = "down" \/ request.id = i
           /\ flag \/ saved.request.id = i

\* When a withdrawal is out, nothing of the base is left behind on the exchange
\* that it leaves, however much was bought or sold, and whichever calls failed.
\* Restarts, lost answers and transfers given up are excepted.
NothingLeftBehind ==
    pc = "answering" /\ ~strayed /\ chain[sending].withdrawal # "failed" => base[role] = 0

\* A transfer that was neither held nor failed on an exchange is not given up.
GivenUpHadTrouble == \A i \in givenUp : chain[i].trouble

\* What is credited has been paid out and has arrived, also when a transfer is
\* credited again after a restart.
CreditedHasArrived ==
    [][credited' # credited \/ (pc = "crediting" /\ pc' = "trading" /\ request'.id = 0)
         => /\ chain[request.id].withdrawal = "completed"
            /\ chain[request.id].deposit = "completed"]_vars

\* A transfer that completes on both exchanges without trouble is credited,
\* unless it was lost.
ArrivedIsCredited ==
    \A i \in Ids :
        /\ chain[i].withdrawal = "completed" /\ chain[i].deposit = "completed"
        /\ ~chain[i].trouble
        ~> i \in credited \union lost
=============================================================================
