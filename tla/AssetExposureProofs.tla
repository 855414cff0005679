------------------------ MODULE AssetExposureProofs ------------------------
(***************************************************************************)
(* Theorems about AssetTransfer: what the hedge is computed from, and what *)
(* a withdrawal leaves behind.                                             *)
(***************************************************************************)
EXTENDS AssetTransferProofs, FiniteSetTheorems

-----------------------------------------------------------------------------
(* The inductive invariant *)

\* Nothing of withdrawal i is on its way, and nothing will be.
Settled(i) ==
    \/ chain[i].withdrawal \in {"unknown", "failed"}
    \/ chain[i].deposit = "completed"

\* Only a transaction that went out has a deposit, and it is never taken back.
ChainIsSound ==
    \A i \in Ids :
        /\ chain[i].sent => chain[i].withdrawal \in {"progress", "completed"}
        /\ chain[i].deposit # "unknown" => chain[i].sent

\* The withdrawal that the task is at, 0 for none.
Current == IF pc = "answering" THEN sending ELSE request.id

OthersAreSettled == \A i \in Ids \ {Current} : Settled(i)

\* Before the first load the task owns nothing.
Untouched ==
    /\ role = "none" /\ ~HasRequest
    /\ pos = [r \in Roles |-> NoPosition]
    /\ saved = [role |-> role, pos |-> pos, request |-> request]
    /\ base = [r \in Roles |-> 0]

\* Between two transfers the positions are the balances, all on one exchange;
\* what is to be sold is no more than what remains to do.
Between ==
    /\ pos[Other(role)] = NoPosition
    /\ \A r \in Roles : base[r] = pos[r].qty
    /\ role = "dest" => pos["dest"].qty <= Remaining(pos["dest"])

\* While withdrawal i is current everything is where i has it.
Carried(i) ==
    /\ chain[i].withdrawal # "unknown"
    /\ chain[i].from = "dest" => chain[i].qty = 0
    /\ base[chain[i].from] = IF chain[i].withdrawal = "failed" THEN chain[i].qty ELSE 0
    /\ base[Other(chain[i].from)] = IF chain[i].deposit = "completed" THEN chain[i].qty ELSE 0

\* What the positions hold in each phase.
Holdings ==
    /\ pc \in {"down", "loading"} => Untouched
    /\ pc \notin {"down", "loading"} /\ Current = 0 => Between
    /\ Current # 0 => Carried(Current)
    /\ pc = "answering" => chain[sending].from = role /\ pos[Other(role)] = NoPosition
    /\ HasRequest => pos = [r \in Roles |-> NoPosition]
    /\ pc = "crediting" => role = Other(chain[request.id].from)
    /\ pc \in {"initiating", "submitting"} => IsFulfilled(pos[role])

Accounts == ~strayed => OthersAreSettled /\ Holdings

AccountsInv == ChainIsSound /\ Accounts

LEMMA AccountsInit ==
    ASSUME Init
    PROVE  AccountsInv
  BY DEF Init, AccountsInv, ChainIsSound, Accounts, OthersAreSettled, Settled, Holdings, Untouched,
         Current, HasRequest, NoRequest

-----------------------------------------------------------------------------
(* The withdrawals *)

\* Every step keeps ChainIsSound.
LEMMA ChainStep ==
    ASSUME TypeOK, Phases, ChainIsSound, [Next]_vars
    PROVE  ChainIsSound'
<1>1. CASE UNCHANGED chain
  BY <1>1 DEF ChainIsSound
<1>2. ASSUME Execute PROVE ChainIsSound'
  BY <1>2 DEF Execute, Unused, ChainIsSound, TypeOK
<1>3. ASSUME NEW i \in Ids, Send(i) PROVE ChainIsSound'
  BY <1>3 DEF Send, ChainIsSound, TypeOK
<1>4. ASSUME NEW i \in Ids, WithdrawalCompletes(i) PROVE ChainIsSound'
  BY <1>4 DEF WithdrawalCompletes, ChainIsSound, TypeOK
<1>5. ASSUME NEW i \in Ids, DepositAppears(i) PROVE ChainIsSound'
  BY <1>5 DEF DepositAppears, ChainIsSound, TypeOK
<1>6. ASSUME NEW i \in Ids, DepositCompletes(i) PROVE ChainIsSound'
  BY <1>6 DEF DepositCompletes, ChainIsSound, TypeOK
<1>7. ASSUME NEW i \in Ids, NEW status \in {"held", "failed"}, WithdrawalInTrouble(i, status)
      PROVE  ChainIsSound'
  BY <1>7 DEF WithdrawalInTrouble, ChainIsSound, TypeOK
<1>8. ASSUME NEW i \in Ids, NEW status \in {"held", "failed"}, DepositInTrouble(i, status)
      PROVE  ChainIsSound'
  BY <1>8 DEF DepositInTrouble, ChainIsSound, TypeOK
<1>9. CASE Start \/ Load \/ Monitor \/ Fails
  BY <1>1, <1>9 DEF Start, Load, Monitor, AskWithdrawal, AskDeposit, Fails, CreditFails,
         SubmitFails, AnswerLost, Crash, exchange
<1>10. CASE Step /\ ~Execute
  BY <1>1, <1>10 DEF Step, WaitForTransfer, HandleCompleted, Credit, GiveUp, NothingToTransfer,
         Initiate, Submit, Answered, NoTrade, Buy, Sell, Fills, Refused, Rebalance, Save, exchange
<1>11. CASE Exchange
  BY <1>3, <1>4, <1>5, <1>6, <1>7, <1>8, <1>11 DEF Exchange
<1>12. QED
  BY <1>1, <1>2, <1>9, <1>10, <1>11 DEF Next, vars, exchange

\* A settled withdrawal stays settled, and no lot of it moves.
LEMMA SettledStays ==
    ASSUME TypeOK, ChainIsSound, NEW i \in Ids, Settled(i),
           NEW j \in Ids,
           \/ Send(j) \/ WithdrawalCompletes(j) \/ DepositAppears(j) \/ DepositCompletes(j)
           \/ \E status \in {"held", "failed"} :
                WithdrawalInTrouble(j, status) \/ DepositInTrouble(j, status)
    PROVE  Settled(i)' /\ (i = j => UNCHANGED base)
<1>1. ASSUME Send(j) PROVE Settled(i)' /\ (i = j => UNCHANGED base)
  BY <1>1 DEF Send, Settled, ChainIsSound, TypeOK
<1>2. ASSUME WithdrawalCompletes(j) PROVE Settled(i)' /\ (i = j => UNCHANGED base)
  BY <1>2 DEF WithdrawalCompletes, Settled, ChainIsSound, TypeOK
<1>3. ASSUME DepositAppears(j) PROVE Settled(i)' /\ (i = j => UNCHANGED base)
  BY <1>3 DEF DepositAppears, Settled, ChainIsSound, TypeOK
<1>4. ASSUME DepositCompletes(j) PROVE Settled(i)' /\ (i = j => UNCHANGED base)
  BY <1>4 DEF DepositCompletes, Settled, ChainIsSound, TypeOK
<1>5. ASSUME NEW status \in {"held", "failed"}, WithdrawalInTrouble(j, status)
      PROVE  Settled(i)' /\ (i = j => UNCHANGED base)
  BY <1>5 DEF WithdrawalInTrouble, Settled, ChainIsSound, TypeOK
<1>6. ASSUME NEW status \in {"held", "failed"}, DepositInTrouble(j, status)
      PROVE  Settled(i)' /\ (i = j => UNCHANGED base)
  BY <1>6 DEF DepositInTrouble, Settled, ChainIsSound, TypeOK
<1>7. QED
  BY <1>1, <1>2, <1>3, <1>4, <1>5, <1>6

\* The withdrawal that the task is at keeps its lots in sight.
LEMMA CarriedStays ==
    ASSUME TypeOK, ChainIsSound, NEW i \in Ids, Carried(i),
           \/ Send(i) \/ WithdrawalCompletes(i) \/ DepositAppears(i) \/ DepositCompletes(i)
           \/ \E status \in {"held", "failed"} :
                WithdrawalInTrouble(i, status) \/ DepositInTrouble(i, status)
    PROVE  Carried(i)'
<1>1. /\ chain[i].from \in Roles /\ chain[i].qty \in Nat
      /\ Other(chain[i].from) \in Roles /\ Other(chain[i].from) # chain[i].from
  BY DEF TypeOK, Roles, Other
<1>2. ASSUME Send(i) PROVE Carried(i)'
  BY <1>2 DEF Send, Carried, ChainIsSound, TypeOK, Other
<1>3. ASSUME WithdrawalCompletes(i) PROVE Carried(i)'
  BY <1>3 DEF WithdrawalCompletes, Carried, ChainIsSound, TypeOK, Other
<1>4. ASSUME DepositAppears(i) PROVE Carried(i)'
  BY <1>4 DEF DepositAppears, Carried, ChainIsSound, TypeOK, Other
<1>5. ASSUME DepositCompletes(i) PROVE Carried(i)'
  BY <1>1, <1>5 DEF DepositCompletes, Carried, ChainIsSound, TypeOK, Other
<1>6. ASSUME NEW status \in {"held", "failed"}, WithdrawalInTrouble(i, status)
      PROVE  Carried(i)'
  BY <1>1, <1>6 DEF WithdrawalInTrouble, Carried, ChainIsSound, TypeOK, Other
<1>7. ASSUME NEW status \in {"held", "failed"}, DepositInTrouble(i, status)
      PROVE  Carried(i)'
  BY <1>7 DEF DepositInTrouble, Carried, ChainIsSound, TypeOK, Other
<1>8. QED
  BY <1>2, <1>3, <1>4, <1>5, <1>6, <1>7

\* What the exchanges do keeps the accounts.
LEMMA ExchangeStep ==
    ASSUME TypeOK, Phases, ChainIsSound, Accounts, Exchange
    PROVE  Accounts'
<1> SUFFICES ASSUME ~strayed'
             PROVE  OthersAreSettled' /\ Holdings'
  BY DEF Accounts
<1>1. PICK j \in Ids :
        \/ Send(j) \/ WithdrawalCompletes(j) \/ DepositAppears(j) \/ DepositCompletes(j)
        \/ \E status \in {"held", "failed"} :
             WithdrawalInTrouble(j, status) \/ DepositInTrouble(j, status)
  BY DEF Exchange
<1>2. UNCHANGED <<task, history>>
  BY <1>1 DEF Send, WithdrawalCompletes, DepositAppears, DepositCompletes, WithdrawalInTrouble,
         DepositInTrouble
<1>3. OthersAreSettled /\ Holdings
  BY <1>2 DEF Accounts, history
<1>4. UNCHANGED Current /\ Current \in 0..MaxWithdrawals
  BY <1>2 DEF task, context, Current, TypeOK, Requests
<1>5. OthersAreSettled'
  BY <1>1, <1>3, <1>4, SettledStays DEF OthersAreSettled
<1>6. \A i \in Ids : chain'[i].from = chain[i].from /\ chain'[i].qty = chain[i].qty
                       /\ (i # j => chain'[i] = chain[i])
  BY <1>1 DEF Send, WithdrawalCompletes, DepositAppears, DepositCompletes, WithdrawalInTrouble,
         DepositInTrouble, TypeOK
<1>7. j # Current => UNCHANGED base
  BY <1>1, <1>3, SettledStays DEF OthersAreSettled
<1>8. Current # 0 => Current \in Ids
  BY <1>4 DEF Ids
<1>9. Current # 0 => Carried(Current)'
  <2> SUFFICES ASSUME Current # 0
               PROVE  Carried(Current)'
    OBVIOUS
  <2>1. CASE j = Current
    BY <1>1, <1>3, <1>4, <2>1, CarriedStays DEF Holdings
  <2>2. CASE j # Current
    BY <1>3, <1>4, <1>6, <1>7, <1>8, <2>2 DEF Holdings, Carried
  <2>3. QED
    BY <2>1, <2>2
<1>10. pc \in {"down", "loading"} => Current = 0 /\ base' = base
  BY <1>3, <1>7 DEF Holdings, Untouched, HasRequest, Current, Ids
<1>11. pc \in {"down", "loading"} => Untouched'
  BY <1>2, <1>3, <1>10 DEF Holdings, Untouched, task, context, HasRequest
<1>12. pc \notin {"down", "loading"} /\ Current = 0 => Between'
  BY <1>2, <1>3, <1>7 DEF Holdings, Between, task, context, Ids
<1>13. pc = "answering" => sending \in Ids
  BY DEF Phases, TypeOK, Ids
<1>14. pc = "crediting" => request.id \in Ids
  BY DEF Phases, HasRequest, TypeOK, Requests, Ids
<1>15. QED
  BY <1>2, <1>3, <1>4, <1>5, <1>6, <1>9, <1>11, <1>12, <1>13, <1>14
  DEF Holdings, task, context, HasRequest

-----------------------------------------------------------------------------
(* The steps of the task *)

\* Loading the balances of an untouched account changes but the role's target.
LEMMA LoadKeepsAccounts ==
    ASSUME TypeOK, Phases, Accounts, Load
    PROVE  Accounts'
<1> SUFFICES ASSUME ~strayed
             PROVE  OthersAreSettled' /\ Holdings'
  BY DEF Accounts, Load, history
<1>1. OthersAreSettled /\ Untouched
  BY DEF Accounts, Load, Holdings
<1>2. Loaded(Roles) = pos
  BY <1>1 DEF Untouched, Loaded, Roles
<1>3. role' = "source"
  BY <1>1, <1>2 DEF Load, LoadedRole, Untouched, NoPosition, Roles
<1>4. pos' = [pos EXCEPT !["source"].target = Total]
  BY <1>2, <1>3 DEF Load, LoadedPositions
<1>5. pos'["dest"] = NoPosition /\ pos'["source"].qty = 0
  BY <1>1, <1>4 DEF Untouched, NoPosition, Roles
<1>6. /\ pc' = "idle" /\ request' = request /\ base' = base /\ chain' = chain
      /\ request.id = 0
  BY <1>1 DEF Load, Untouched, HasRequest, exchange
<1>7. Current' = 0 /\ Current = 0
  BY <1>6 DEF Current, Load
<1>8. OthersAreSettled'
  BY <1>1, <1>6, <1>7 DEF OthersAreSettled, Settled
<1>9. Between'
  BY <1>1, <1>3, <1>5, <1>6 DEF Untouched, Between, Other, Roles, NoPosition
<1>10. QED
  BY <1>6, <1>7, <1>8, <1>9 DEF Holdings, HasRequest

\* A completed transfer is credited with the lots that have arrived.
LEMMA CreditKeepsAccounts ==
    ASSUME TypeOK, Phases, RequestsHaveSeen, ChainIsSound, Accounts, Credit
    PROVE  Accounts'
<1> SUFFICES ASSUME ~strayed
             PROVE  OthersAreSettled' /\ Holdings'
  BY DEF Accounts, Credit
<1> DEFINE i == request.id
<1>1. /\ i \in Ids /\ Current = i
      /\ chain[i].withdrawal = "completed" /\ chain[i].deposit = "completed"
  BY DEF Credit, Phases, HasRequest, Completed, RequestsHaveSeen, Seen, TypeOK, Requests, Ids,
         Current
<1>2. /\ OthersAreSettled /\ Carried(i) /\ role = Other(chain[i].from)
      /\ pos = [r \in Roles |-> NoPosition]
  BY <1>1 DEF Accounts, Holdings, Credit, HasRequest, Ids
<1>3. /\ pc' = "trading" /\ request' = NoRequest /\ role' = role
      /\ base' = base /\ chain' = chain /\ Current' = 0
  BY DEF Credit, ClearRequest, exchange, Current, NoRequest
<1>4. OthersAreSettled'
  BY <1>1, <1>2, <1>3 DEF OthersAreSettled, Settled
<1>5. chain[i].qty \in Nat /\ chain[i].from \in Roles
  BY <1>1 DEF TypeOK
<1>6. CASE role = "dest"
  <2>1. chain[i].from = "source" /\ base["source"] = 0 /\ base["dest"] = chain[i].qty
    BY <1>1, <1>2, <1>5, <1>6 DEF Carried, Other, Roles
  <2>2. Loaded(Roles)["source"] = NoPosition
    BY <1>2, <2>1 DEF Loaded, Roles
  <2>3. pos' = [Loaded(Roles) EXCEPT !["dest"] = [qty |-> chain[i].qty, acc |-> 0,
                                                  target |-> chain[i].qty]]
    BY <1>6 DEF Credit
  <2>4. Loaded(Roles) \in Positions
    BY LoadedType
  <2>5. /\ pos'["source"] = NoPosition
        /\ pos'["dest"] = [qty |-> chain[i].qty, acc |-> 0, target |-> chain[i].qty]
    BY <2>2, <2>3, <2>4 DEF Positions, Roles
  <2>6. Between'
    BY <1>3, <1>5, <1>6, <2>1, <2>5 DEF Between, Other, Roles, Remaining, NoPosition
  <2>7. QED
    BY <1>3, <1>4, <2>6 DEF Holdings, HasRequest, NoRequest
<1>7. CASE role = "source"
  <2>1. chain[i].from = "dest" /\ base["source"] = 0 /\ base["dest"] = 0
    BY <1>1, <1>2, <1>5, <1>7 DEF Carried, Other, Roles
  <2>2. pos' = [r \in Roles |-> Reset(IF r = "source" THEN Total ELSE 0)]
    BY <1>7 DEF Credit
  <2>3. pos'["source"].qty = 0 /\ pos'["dest"] = NoPosition
    BY <2>2 DEF Reset, NoPosition, Roles
  <2>4. Between'
    BY <1>3, <1>7, <2>1, <2>3 DEF Between, Other, Roles, NoPosition
  <2>5. QED
    BY <1>3, <1>4, <2>4 DEF Holdings, HasRequest, NoRequest
<1>8. QED
  BY <1>2, <1>5, <1>6, <1>7 DEF Other

\* The balances that are loaded when the credit fails are nothing.
LEMMA CreditFailsKeepsAccounts ==
    ASSUME TypeOK, Phases, RequestsHaveSeen, ChainIsSound, Accounts, CreditFails
    PROVE  Accounts'
<1> SUFFICES ASSUME ~strayed
             PROVE  OthersAreSettled' /\ Holdings'
  BY DEF Accounts, CreditFails, history
<1> DEFINE i == request.id
<1>1. /\ i \in Ids /\ Current = i /\ HasRequest
      /\ chain[i].withdrawal = "completed" /\ chain[i].deposit = "completed"
  BY DEF CreditFails, Phases, HasRequest, Completed, RequestsHaveSeen, Seen, TypeOK, Requests,
         Ids, Current
<1>2. /\ OthersAreSettled /\ Carried(i)
      /\ pos = [r \in Roles |-> NoPosition]
  BY <1>1 DEF Accounts, Holdings, CreditFails, HasRequest, Ids
<1>3. /\ pc' = "trading" /\ request' = request /\ role' = role
      /\ base' = base /\ chain' = chain /\ Current' = Current
  BY DEF CreditFails, exchange, Current
<1>4. base["source"] = 0
  BY <1>1, <1>2 DEF Carried, Other, TypeOK, Roles
<1>5. pos' = pos
  BY <1>2, <1>4 DEF CreditFails, Loaded, Roles
<1>6. QED
  BY <1>1, <1>2, <1>3, <1>5 DEF Holdings, OthersAreSettled, Settled, Carried, HasRequest, Ids

\* A withdrawal takes what there is, and leaves alone.
LEMMA ExecuteKeepsAccounts ==
    ASSUME TypeOK, Phases, ChainIsSound, Accounts, Execute
    PROVE  Accounts'
<1> SUFFICES ASSUME ~strayed
             PROVE  OthersAreSettled' /\ Holdings'
  BY DEF Accounts, Execute, history
<1>1. PICK i \in Unused :
        /\ chain' = [chain EXCEPT ![i].from = role, ![i].qty = Amount,
                                  ![i].withdrawal = "progress"]
        /\ sending' = i
  BY DEF Execute
<1>2. /\ pc = "submitting" /\ pc' = "answering" /\ role \in Roles /\ role' = role
      /\ pos' = pos /\ request' = request /\ request.id = 0 /\ ~HasRequest
  BY DEF Execute, context, Phases, HasRequest
<1>3. i \in Ids /\ i # 0 /\ Current' = i /\ Current = 0
  BY <1>1, <1>2 DEF Unused, Current, Ids
<1>4. OthersAreSettled /\ Between /\ IsFulfilled(pos[role])
  BY <1>2, <1>3 DEF Accounts, Holdings
<1>5. OthersAreSettled'
  <2>1. \A j \in Ids \ {i} : chain'[j] = chain[j]
    BY <1>1 DEF TypeOK
  <2>2. QED
    BY <1>3, <1>4, <2>1 DEF OthersAreSettled, Settled, Ids
<1>6. /\ pos \in Positions /\ base \in [Roles -> Nat] /\ Amount \in Nat
  BY AmountType DEF TypeOK
<1>7. base'["source"] = 0 /\ base'["dest"] = 0 /\ (role = "dest" => Amount = 0)
  <2>1. CASE role = "source"
    <3>1. Amount = base["source"] /\ base["dest"] = 0
      BY <1>2, <1>4, <1>6, <2>1 DEF Amount, Lesser, Between, Other, NoPosition, Roles, Positions
    <3>2. base' = [base EXCEPT !["source"] = @ - Amount]
      BY <2>1 DEF Execute
    <3>3. QED
      BY <1>6, <2>1, <3>1, <3>2 DEF Roles
  <2>2. CASE role = "dest"
    <3>1. Amount = 0 /\ base' = base
      BY <2>2 DEF Amount, Execute
    <3>2. pos["dest"].qty = 0
      BY <1>4, <1>6, <2>2 DEF Between, IsFulfilled, Positions, Roles
    <3>3. base["dest"] = 0 /\ base["source"] = 0
      BY <1>4, <2>2, <3>2 DEF Between, Other, NoPosition, Roles
    <3>4. QED
      BY <1>6, <3>1, <3>3 DEF Roles
  <2>3. QED
    BY <1>2, <2>1, <2>2 DEF Roles
<1>8. /\ chain'[i].from = role /\ chain'[i].qty = Amount /\ chain'[i].withdrawal = "progress"
      /\ chain'[i].deposit = "unknown"
  BY <1>1, <1>3 DEF Unused, ChainIsSound, TypeOK
<1>9. Carried(i)'
  BY <1>2, <1>7, <1>8 DEF Carried, Other, Roles
<1>10. pos'[Other(role)] = NoPosition
  BY <1>2, <1>4 DEF Between
<1>11. QED
  BY <1>1, <1>2, <1>3, <1>5, <1>8, <1>9, <1>10 DEF Holdings, HasRequest

\* The answer makes the withdrawal the request, and the position nothing.
LEMMA AnsweredKeepsAccounts ==
    ASSUME TypeOK, Phases, Accounts, Answered
    PROVE  Accounts'
<1> SUFFICES ASSUME ~strayed
             PROVE  OthersAreSettled' /\ Holdings'
  BY DEF Accounts, Answered, history
<1> PICK i : i = sending
  OBVIOUS
<1>1. /\ pc = "answering" /\ pc' = "stepped" /\ request'.id = i /\ role' = role
      /\ base' = base /\ chain' = chain /\ i # 0 /\ role \in Roles
  BY DEF Answered, exchange, Phases
<1>2. Current = i /\ Current' = i
  BY <1>1 DEF Current
<1>3. OthersAreSettled /\ Carried(i) /\ pos[Other(role)] = NoPosition
  BY <1>1, <1>2 DEF Accounts, Holdings
<1>4. pos' = [r \in Roles |-> NoPosition]
  BY <1>1, <1>3 DEF Answered, Reset, NoPosition, TypeOK, Positions, Roles, Other
<1>5. OthersAreSettled'
  BY <1>1, <1>2, <1>3 DEF OthersAreSettled, Settled
<1>6. Carried(i)'
  BY <1>1, <1>3 DEF Carried
<1>7. QED
  BY <1>1, <1>2, <1>4, <1>5, <1>6 DEF Holdings, Carried

\* A fill that the task hears of changes the position with the balance.
LEMMA FillsKeepAccounts ==
    ASSUME TypeOK, Phases, Accounts, Buy \/ Sell
    PROVE  Accounts'
<1> SUFFICES ASSUME ~strayed'
             PROVE  OthersAreSettled' /\ Holdings'
  BY DEF Accounts
<1>1. /\ pc = "trading" /\ pc' = "hedging" /\ role' = role /\ request' = request
      /\ chain' = chain /\ Remaining(pos[role]) > 0 /\ role \in Roles
  BY DEF Buy, Sell, Fills, Roles
<1>2. ~strayed
  BY DEF Buy, Sell, Fills
<1>3. Current = request.id /\ Current' = Current /\ OthersAreSettled /\ Holdings
  BY <1>1, <1>2 DEF Current, Accounts
<1>4. request.id = 0
  BY <1>1, <1>3 DEF Holdings, HasRequest, NoPosition, Remaining
<1>5. Between
  BY <1>1, <1>3, <1>4 DEF Holdings
<1>6. pos \in Positions /\ base \in [Roles -> Nat]
  BY DEF TypeOK
<1>7. CASE Buy
  <2>1. /\ role = "source" /\ base' = [base EXCEPT !["source"] = base["source"] + 1]
        /\ pos' = [pos EXCEPT !["source"].qty = pos["source"].qty + 1, !["source"].acc = @ + 1]
    BY <1>2, <1>7 DEF Buy, Fills
  <2>2. Between'
    BY <1>1, <1>5, <1>6, <2>1 DEF Between, Positions, Roles, Other
  <2>3. QED
    BY <1>1, <1>3, <1>4, <2>2 DEF Holdings, HasRequest, OthersAreSettled, Settled
<1>8. CASE Sell
  <2>1. /\ role = "dest" /\ base["dest"] > 0
        /\ base' = [base EXCEPT !["dest"] = base["dest"] - 1]
        /\ pos' = [pos EXCEPT !["dest"].qty = IF pos["dest"].qty > 0 THEN pos["dest"].qty - 1 ELSE 1,
                              !["dest"].acc = @ + 1]
    BY <1>2, <1>8 DEF Sell, Fills
  <2>2. pos["dest"].qty > 0
    BY <1>5, <2>1 DEF Between, Roles
  <2>3. Between'
    BY <1>1, <1>5, <1>6, <2>1, <2>2 DEF Between, Positions, Roles, Other, Remaining
  <2>4. QED
    BY <1>1, <1>3, <1>4, <2>3 DEF Holdings, HasRequest, OthersAreSettled, Settled
<1>9. QED
  BY <1>7, <1>8

\* A refusal ends the sale only when there is nothing left to sell.
LEMMA RefusedKeepsAccounts ==
    ASSUME TypeOK, Phases, Accounts, Refused
    PROVE  Accounts'
<1> SUFFICES ASSUME ~strayed
             PROVE  OthersAreSettled' /\ Holdings'
  BY DEF Accounts, Refused, history
<1>1. /\ pc = "trading" /\ pc' = "hedging" /\ role' = role /\ request' = request
      /\ chain' = chain /\ base' = base /\ Remaining(pos[role]) > 0 /\ role \in Roles
      /\ pos' = [pos EXCEPT ![role].acc = pos[role].target]
      /\ role = "dest" => base["dest"] = 0
  BY DEF Refused, exchange, Phases
<1>2. Current = request.id /\ Current' = Current /\ OthersAreSettled /\ Holdings
  BY <1>1 DEF Current, Accounts
<1>3. request.id = 0
  BY <1>1, <1>2 DEF Holdings, HasRequest, NoPosition, Remaining
<1>4. Between
  BY <1>1, <1>2, <1>3 DEF Holdings
<1>5. Between'
  BY <1>1, <1>4 DEF Between, TypeOK, Positions, Roles, Other, Remaining
<1>6. QED
  BY <1>1, <1>2, <1>3, <1>5 DEF Holdings, HasRequest, OthersAreSettled, Settled

\* Every step keeps the accounts.
LEMMA AccountsStep ==
    ASSUME TypeOK, Phases, RequestsHaveSeen, AccountsInv, [Next]_vars
    PROVE  AccountsInv'
<1>1. ChainIsSound /\ Accounts
  BY DEF AccountsInv
<1>2. ChainIsSound'
  BY <1>1, ChainStep
<1>3. ASSUME Start PROVE Accounts'
  BY <1>1, <1>3 DEF Start, exchange, history, Accounts, Holdings, Untouched, OthersAreSettled,
         Settled, Current, HasRequest, NoRequest, Phases, Carried, Between
<1>4. ASSUME Load PROVE Accounts'
  BY <1>1, <1>4, LoadKeepsAccounts
<1>5. ASSUME AskWithdrawal PROVE Accounts'
  <2>1. request'.id = request.id
    BY <1>5 DEF AskWithdrawal, Asks, TypeOK, Requests
  <2>2. QED
    BY <1>1, <1>5, <2>1 DEF AskWithdrawal, exchange, history, Accounts, Holdings, Untouched,
           OthersAreSettled, Settled, Current, HasRequest, Phases, Carried, Between
<1>6. ASSUME AskDeposit PROVE Accounts'
  <2>1. request'.id = request.id /\ request.id # 0
    BY <1>6 DEF AskDeposit, Asks, TypeOK, Requests, Phases, HasRequest
  <2>2. QED
    BY <1>1, <1>6, <2>1 DEF AskDeposit, exchange, history, Accounts, Holdings, Untouched,
           OthersAreSettled, Settled, Current, HasRequest, Phases, Carried, Between
<1>7. ASSUME HandleCompleted PROVE Accounts'
  BY <1>1, <1>7 DEF HandleCompleted, exchange, history, Accounts, Holdings, OthersAreSettled,
         Settled, Current, HasRequest, Carried, Leaves
<1>8. ASSUME Credit PROVE Accounts'
  BY <1>1, <1>8, CreditKeepsAccounts
<1>9. ASSUME CreditFails PROVE Accounts'
  BY <1>1, <1>9, CreditFailsKeepsAccounts
<1>10. ASSUME Initiate PROVE Accounts'
  BY <1>1, <1>10 DEF Initiate, context, exchange, history, Accounts, Holdings, OthersAreSettled,
         Settled, Current, HasRequest, Carried, Between
<1>11. ASSUME Submit PROVE Accounts'
  BY <1>1, <1>11 DEF Submit, context, exchange, history, Accounts, Holdings, OthersAreSettled,
         Settled, Current, HasRequest, Carried, Between
<1>12. ASSUME Execute PROVE Accounts'
  BY <1>1, <1>12, ExecuteKeepsAccounts
<1>13. ASSUME Answered PROVE Accounts'
  BY <1>1, <1>13, AnsweredKeepsAccounts
<1>14. ASSUME Buy \/ Sell PROVE Accounts'
  BY <1>1, <1>14, FillsKeepAccounts
<1>15. ASSUME Refused PROVE Accounts'
  BY <1>1, <1>15, RefusedKeepsAccounts
<1>16. ASSUME WaitForTransfer \/ NothingToTransfer \/ SubmitFails \/ NoTrade \/ Rebalance \/ Save
       PROVE  Accounts'
  <2>1. /\ UNCHANGED <<context, sending, exchange, history>>
        /\ {pc, pc'} \intersect {"down", "loading", "answering"} = {}
        /\ pc' \notin {"crediting", "initiating", "submitting"}
    BY <1>16 DEF WaitForTransfer, NothingToTransfer, SubmitFails, NoTrade, Rebalance, Save, exchange
  <2>2. QED
    BY <1>1, <2>1 DEF context, exchange, history, Accounts, Holdings, OthersAreSettled, Settled,
           Current, HasRequest, Carried, Between
<1>17. ASSUME GiveUp \/ AnswerLost \/ Crash PROVE Accounts'
  BY <1>17 DEF GiveUp, AnswerLost, Crash, Accounts
<1>18. ASSUME Exchange PROVE Accounts'
  BY <1>1, <1>18, ExchangeStep
<1>19. ASSUME UNCHANGED vars PROVE Accounts'
  BY <1>1, <1>19 DEF vars, context, exchange, history, Accounts, Holdings, Untouched,
         OthersAreSettled, Settled, Current, HasRequest, Carried, Between
<1>20. QED
  BY <1>2, <1>3, <1>4, <1>5, <1>6, <1>7, <1>8, <1>9, <1>10, <1>11, <1>12, <1>13, <1>14, <1>15,
     <1>16, <1>17, <1>18, <1>19
  DEF AccountsInv, Next, Step, Fails, Monitor

\* The accounts are right at any time.
LEMMA AccountsHold == Spec => [](Inv /\ AccountsInv)
<1>1. Inv /\ AccountsInv /\ [Next]_vars => AccountsInv'
  BY AccountsStep DEF Inv
<1>2. QED
  BY <1>1, AccountsInit, Invariance, PTL DEF Spec

-----------------------------------------------------------------------------
(* What is on its way *)

\* The lots of the only withdrawal on its way are counted.
LEMMA LotsOfOne ==
    ASSUME TypeOK, NEW i \in Ids, \A j \in Ids \ {i} : ~OnItsWay(j)
    PROVE  Cardinality(LotsOnTheirWay) = IF OnItsWay(i) THEN chain[i].qty ELSE 0
<1>1. chain[i].qty \in Nat
  BY DEF TypeOK
<1>2. CASE OnItsWay(i)
  <2>1. LotsOnTheirWay = {i} \X (1..chain[i].qty)
    BY <1>2 DEF LotsOnTheirWay
  <2>2. IsFiniteSet(1..chain[i].qty) /\ Cardinality(1..chain[i].qty) = chain[i].qty
    <3> DEFINE q == chain[i].qty
    <3>1. q \in Nat
      BY <1>1
    <3> HIDE DEF q
    <3>2. IsFiniteSet(1..q) /\ Cardinality(1..q) = IF 1 > q THEN 0 ELSE q - 1 + 1
      BY <3>1, FS_Interval
    <3>3. Cardinality(1..q) = q
      BY <3>1, <3>2
    <3>4. QED
      BY <3>2, <3>3 DEF q
  <2>3. IsFiniteSet({i}) /\ Cardinality({i}) = 1
    BY FS_Singleton
  <2>4. Cardinality({i} \X (1..chain[i].qty)) = 1 * chain[i].qty
    BY <2>2, <2>3, FS_Product
  <2>5. QED
    BY <1>1, <1>2, <2>1, <2>4
<1>3. CASE ~OnItsWay(i)
  <2>1. LotsOnTheirWay = {}
    BY <1>3 DEF LotsOnTheirWay
  <2>2. QED
    BY <1>3, <2>1, FS_EmptySet
<1>4. QED
  BY <1>2, <1>3

-----------------------------------------------------------------------------
(* The theorems *)

\* The hedge is computed from all the base that the task owns, on both exchanges
\* and between them, and from nothing else (_rebalance_hedge), whichever calls
\* failed, unless the context was lost, a fill missed or a transfer given up.
THEOREM HedgeIsComputedFromWhatIsOwned == Spec => []ExposureIsOwned
<1>1. ASSUME Inv, AccountsInv, pc = "hedging", ~strayed
      PROVE  Exposure = Owned
  <2>1. TypeOK /\ ChainIsSound /\ OthersAreSettled /\ Holdings /\ Current = request.id
    BY <1>1 DEF Inv, AccountsInv, Accounts, Current
  <2>2. \A j \in Ids : Settled(j) => ~OnItsWay(j)
    BY DEF Settled, OnItsWay
  <2>3. request.id \in 0..MaxWithdrawals /\ role \in Roles
    BY <1>1, <2>1 DEF TypeOK, Requests, Inv, Phases
  <2>4. /\ base["source"] \in Nat /\ base["dest"] \in Nat
        /\ pos["source"].qty \in Nat /\ pos["dest"].qty \in Nat
    BY <2>1 DEF TypeOK, Positions, Roles
  <2>5. CASE request.id = 0
    <3>1. 1 \in Ids /\ \A j \in Ids : ~OnItsWay(j)
      BY <2>1, <2>2, <2>5, BoundsAssumption DEF OthersAreSettled, Ids
    <3>2. Cardinality(LotsOnTheirWay) = 0
      BY <2>1, <3>1, LotsOfOne
    <3>3. base["source"] = pos["source"].qty /\ base["dest"] = pos["dest"].qty
      BY <1>1, <2>1, <2>5 DEF Holdings, Between, Roles
    <3>4. Exposure = pos["source"].qty + pos["dest"].qty
      BY <2>4, <2>5 DEF Exposure, HasRequest
    <3>5. QED
      BY <2>4, <3>2, <3>3, <3>4 DEF Owned
  <2>6. CASE request.id # 0
    <3> DEFINE i == request.id
    <3>1. i \in Ids /\ \A j \in Ids \ {i} : ~OnItsWay(j)
      BY <2>1, <2>2, <2>3, <2>6 DEF OthersAreSettled, Ids
    <3>2. Cardinality(LotsOnTheirWay) = IF OnItsWay(i) THEN chain[i].qty ELSE 0
      BY <2>1, <3>1, LotsOfOne
    <3>3. Carried(i) /\ pos = [r \in Roles |-> NoPosition]
      BY <2>1, <2>6 DEF Holdings, HasRequest
    <3>4. chain[i].qty \in Nat /\ chain[i].from \in Roles
      BY <2>1, <3>1 DEF TypeOK
    <3>5. Exposure = IF chain[i].from = "source" THEN chain[i].qty ELSE 0
      BY <2>6, <3>3, <3>4 DEF Exposure, HasRequest, Leaves, NoPosition, Roles
    <3>6. chain[i].withdrawal = "failed" => chain[i].deposit # "completed"
      BY <2>1, <3>1 DEF ChainIsSound
    <3>7. QED
      BY <3>2, <3>3, <3>4, <3>5, <3>6 DEF Owned, Carried, OnItsWay, Other, Roles
  <2>7. QED
    BY <2>5, <2>6
<1>2. Inv /\ AccountsInv => ExposureIsOwned
  BY <1>1 DEF ExposureIsOwned
<1>3. QED
  BY <1>2, AccountsHold, PTL

\* Whenever a withdrawal is out and was not refused, the exchange that it leaves
\* is empty of base (initiate_transfer withdraws the lesser of the position and
\* the balance, and the role changes only when the position is done).
THEOREM WithdrawalsLeaveNothing == Spec => []NothingLeftBehind
<1>1. ASSUME Inv, AccountsInv, pc = "answering", ~strayed, chain[sending].withdrawal # "failed"
      PROVE  base[role] = 0
  <2>1. Current = sending /\ Current # 0
    BY <1>1 DEF Current, Inv, Phases
  <2>2. Carried(sending) /\ chain[sending].from = role
    BY <1>1, <2>1 DEF AccountsInv, Accounts, Holdings
  <2>3. QED
    BY <1>1, <2>2 DEF Carried
<1>2. Inv /\ AccountsInv => NothingLeftBehind
  BY <1>1 DEF NothingLeftBehind
<1>3. QED
  BY <1>2, AccountsHold, PTL

=============================================================================
