------------------------ MODULE AssetTransferProofs ------------------------
(* Theorems about AssetTransfer. *)
EXTENDS AssetTransfer, TLAPS

USE BoundsAssumption

-----------------------------------------------------------------------------
(* The inductive invariant *)

\* What is known of the task at each of its awaits.
Phases ==
    /\ pc \notin {"down", "loading"} => role \in Roles
    /\ pc = "down" => ~flag
    /\ pc \in {"down", "loading"} => monitor = "off"
    /\ monitor # "off" => HasRequest
    /\ pc = "restoring" => HasRequest
    /\ pc \in {"initiating", "submitting", "answering"} => ~HasRequest
    /\ pc = "crediting" => HasRequest /\ Completed
    /\ pc = "answering" <=> sending # 0

\* What a request has seen of its withdrawal and of its deposit is still so.
Seen(r) ==
    r.id # 0 =>
        /\ r.withdrawal = "completed" => chain[r.id].withdrawal = "completed"
        /\ r.deposit = "completed" => chain[r.id].deposit = "completed"
        /\ {r.withdrawal, r.deposit} \intersect {"held", "failed"} # {} => chain[r.id].trouble

RequestsHaveSeen == Seen(request) /\ Seen(saved.request)

TroubleIsNoted ==
    \A i \in Ids :
        {chain[i].withdrawal, chain[i].deposit} \intersect {"held", "failed"} # {}
            => chain[i].trouble

Inv ==
    /\ TypeOK
    /\ Phases
    /\ RequestsHaveSeen
    /\ TroubleIsNoted
    /\ TransferIsTracked
    /\ GivenUpHadTrouble

LEMMA InvInit ==
    ASSUME Init
    PROVE  Inv
<1>1. TypeOK
  <2>1. pos \in Positions /\ request \in Requests
    BY DEF Init, Positions, Roles, Requests, Statuses, NoPosition, NoRequest
  <2>2. chain \in [Ids -> [from : Roles, qty : Nat, withdrawal : Statuses, deposit : Statuses,
                           sent : BOOLEAN, trouble : BOOLEAN]]
    BY DEF Init, Roles, Statuses
  <2>3. base \in [Roles -> Nat] /\ faults \in 0..MaxFaults /\ sending \in 0..MaxWithdrawals
    BY DEF Init
  <2>4. saved \in [role : Roles \union {"none"}, pos : Positions, request : Requests]
    BY <2>1 DEF Init
  <2>5. QED
    BY <2>1, <2>2, <2>3, <2>4 DEF Init, TypeOK
<1>2. Phases
  BY DEF Init, Phases, HasRequest, NoRequest
<1>3. RequestsHaveSeen
  BY DEF Init, RequestsHaveSeen, Seen, NoRequest
<1>4. TroubleIsNoted /\ TransferIsTracked /\ GivenUpHadTrouble
  BY DEF Init, TroubleIsNoted, TransferIsTracked, GivenUpHadTrouble, Unused
<1>5. QED
  BY <1>1, <1>2, <1>3, <1>4 DEF Inv

-----------------------------------------------------------------------------
(* Types *)

\* Loading the balances leaves positions.
LEMMA LoadedType ==
    ASSUME TypeOK, NEW rs
    PROVE  Loaded(rs) \in Positions
  BY DEF TypeOK, Loaded, Positions, Roles

\* What is withdrawn is there.
LEMMA AmountType ==
    ASSUME TypeOK
    PROVE  Amount \in Nat /\ (role = "source" => Amount <= base["source"])
  BY DEF TypeOK, Amount, Lesser, Positions, Roles

\* Every step keeps the types.
LEMMA TypeStep ==
    ASSUME TypeOK, Phases, [Next]_vars
    PROVE  TypeOK'
<1>1. ASSUME Start PROVE TypeOK'
  BY <1>1 DEF Start, exchange, history, TypeOK
<1>2. ASSUME Load PROVE TypeOK'
  <2>1. role' \in Roles
    BY <1>2 DEF Load, LoadedRole, TypeOK, Roles
  <2>2. pos' \in Positions
    BY <1>2, <2>1, LoadedType DEF Load, LoadedPositions, Positions, Roles, Lesser, TypeOK
  <2>3. QED
    BY <1>2, <2>1, <2>2 DEF Load, TypeOK, exchange, history
<1>3. ASSUME AskWithdrawal PROVE TypeOK'
  <2>1. request.id \in Ids
    BY <1>3 DEF AskWithdrawal, Phases, HasRequest, TypeOK, Requests, Ids
  <2>2. chain[request.id].withdrawal \in Statuses /\ chain[request.id].sent \in BOOLEAN
    BY <2>1 DEF TypeOK
  <2>3. [request EXCEPT !.withdrawal = chain[request.id].withdrawal,
                        !.tx = chain[request.id].sent] \in Requests
    BY <2>2 DEF TypeOK, Requests
  <2>4. request' \in {request, [request EXCEPT !.withdrawal = chain[request.id].withdrawal,
                                             !.tx = chain[request.id].sent]}
    BY <1>3 DEF AskWithdrawal, Asks
  <2>5. request' \in Requests
    BY <2>3, <2>4 DEF TypeOK
  <2>6. faults' \in 0..MaxFaults
    BY <1>3 DEF AskWithdrawal, Asks, Fault, TypeOK
  <2>7. QED
    BY <1>3, <2>5, <2>6 DEF AskWithdrawal, TypeOK, exchange, history
<1>4. ASSUME AskDeposit PROVE TypeOK'
  <2>1. request.id \in Ids
    BY <1>4 DEF AskDeposit, Phases, HasRequest, TypeOK, Requests, Ids
  <2>2. request' \in Requests
    BY <1>4, <2>1 DEF AskDeposit, Asks, TypeOK, Requests
  <2>3. faults' \in 0..MaxFaults
    BY <1>4 DEF AskDeposit, Asks, Fault, TypeOK
  <2>4. QED
    BY <1>4, <2>2, <2>3 DEF AskDeposit, TypeOK, exchange, history
<1>5. ASSUME WaitForTransfer PROVE TypeOK'
  BY <1>5 DEF WaitForTransfer, context, exchange, history, TypeOK
<1>6. ASSUME HandleCompleted PROVE TypeOK'
  BY <1>6 DEF HandleCompleted, Other, Roles, exchange, history, TypeOK
<1>7. ASSUME Credit PROVE TypeOK'
  <2>1. request.id \in Ids
    BY <1>7 DEF Credit, Phases, HasRequest, TypeOK, Requests, Ids
  <2>2. pos' \in Positions
    BY <1>7, <2>1, LoadedType DEF Credit, TypeOK, Positions, Roles, Reset, NoPosition
  <2>3. request' \in Requests
    BY <1>7 DEF Credit, ClearRequest, NoRequest, Requests, Statuses
  <2>4. QED
    BY <1>7, <2>1, <2>2, <2>3 DEF Credit, ClearRequest, TypeOK, exchange
<1>8. ASSUME CreditFails PROVE TypeOK'
  BY <1>8, LoadedType DEF CreditFails, Fault, TypeOK, exchange, history
<1>9. ASSUME GiveUp PROVE TypeOK'
  <2>1. request.id \in Ids
    BY <1>9 DEF GiveUp, HasRequest, TypeOK, Requests, Ids
  <2>2. request' \in Requests
    BY <1>9 DEF GiveUp, ClearRequest, NoRequest, Requests, Statuses
  <2>3. QED
    BY <1>9, <2>1, <2>2 DEF GiveUp, ClearRequest, TypeOK, exchange
<1>10. ASSUME NothingToTransfer PROVE TypeOK'
  BY <1>10 DEF NothingToTransfer, context, exchange, history, TypeOK
<1>11. ASSUME Initiate PROVE TypeOK'
  BY <1>11 DEF Initiate, context, exchange, history, TypeOK
<1>12. ASSUME Submit PROVE TypeOK'
  BY <1>12 DEF Submit, context, exchange, history, TypeOK
<1>13. ASSUME SubmitFails PROVE TypeOK'
  BY <1>13 DEF SubmitFails, context, exchange, history, Fault, TypeOK
<1>14. ASSUME Execute PROVE TypeOK'
  <2>1. role \in Roles
    BY <1>14 DEF Execute, Phases
  <2>2. chain' \in [Ids -> [from : Roles, qty : Nat, withdrawal : Statuses, deposit : Statuses,
                            sent : BOOLEAN, trouble : BOOLEAN]]
    BY <1>14, <2>1, AmountType DEF Execute, TypeOK, Statuses, Unused
  <2>3. base' \in [Roles -> Nat]
    BY <1>14, AmountType DEF Execute, TypeOK, Roles
  <2>4. sending' \in 0..MaxWithdrawals
    BY <1>14 DEF Execute, Unused, Ids
  <2>5. QED
    BY <1>14, <2>2, <2>3, <2>4 DEF Execute, TypeOK, context, history
<1>15. ASSUME Answered PROVE TypeOK'
  <2>1. request' \in Requests
    BY <1>15 DEF Answered, TypeOK, Requests, Statuses
  <2>2. pos' \in Positions
    BY <1>15 DEF Answered, TypeOK, Positions, Reset, NoPosition
  <2>3. QED
    BY <1>15, <2>1, <2>2 DEF Answered, TypeOK, exchange, history
<1>16. ASSUME AnswerLost PROVE TypeOK'
  <2>1. sending \in Ids
    BY <1>16 DEF AnswerLost, Phases, TypeOK, Ids
  <2>2. QED
    BY <1>16, <2>1 DEF AnswerLost, Fault, TypeOK, context, exchange
<1>17. ASSUME NoTrade PROVE TypeOK'
  BY <1>17 DEF NoTrade, context, exchange, history, TypeOK
<1>18. ASSUME Buy PROVE TypeOK'
  <2>1. base' \in [Roles -> Nat]
    BY <1>18 DEF Buy, Fills, TypeOK, Roles
  <2>2. pos["source"] \in [qty : Nat, acc : Nat, target : Nat]
    BY DEF TypeOK, Positions, Roles
  <2>3. pos' \in Positions
    BY <1>18, <2>2 DEF Buy, Fills, TypeOK, Positions
  <2>4. faults' \in 0..MaxFaults
    BY <1>18 DEF Buy, Fills, Fault, TypeOK
  <2>5. strayed' \in BOOLEAN /\ flag' \in BOOLEAN
    BY <1>18, Zenon DEF Buy, Fills, TypeOK
  <2>6. UNCHANGED <<role, request, monitor, sending, saved, chain, credited, givenUp, lost>>
    BY <1>18 DEF Buy, Fills
  <2>7. pc' = "hedging"
    BY <1>18 DEF Buy
  <2>8. QED
    BY <2>1, <2>3, <2>4, <2>5, <2>6, <2>7 DEF TypeOK
<1>19. ASSUME Sell PROVE TypeOK'
  <2>1. base' \in [Roles -> Nat]
    BY <1>19 DEF Sell, Fills, TypeOK, Roles
  <2>2. pos["dest"] \in [qty : Nat, acc : Nat, target : Nat]
    BY DEF TypeOK, Positions, Roles
  <2>3. pos' \in Positions
    BY <1>19, <2>2 DEF Sell, Fills, TypeOK, Positions
  <2>4. faults' \in 0..MaxFaults
    BY <1>19 DEF Sell, Fills, Fault, TypeOK
  <2>5. strayed' \in BOOLEAN /\ flag' \in BOOLEAN
    BY <1>19, Zenon DEF Sell, Fills, TypeOK
  <2>6. UNCHANGED <<role, request, monitor, sending, saved, chain, credited, givenUp, lost>>
    BY <1>19 DEF Sell, Fills
  <2>7. pc' = "hedging"
    BY <1>19 DEF Sell
  <2>8. QED
    BY <2>1, <2>3, <2>4, <2>5, <2>6, <2>7 DEF TypeOK
<1>20. ASSUME Refused PROVE TypeOK'
  <2>1. pos' \in Positions
    BY <1>20 DEF Refused, Phases, TypeOK, Positions, Roles
  <2>2. QED
    BY <1>20, <2>1 DEF Refused, Fault, TypeOK, exchange, history
<1>21. ASSUME Rebalance PROVE TypeOK'
  BY <1>21 DEF Rebalance, context, exchange, history, TypeOK
<1>22. ASSUME Save PROVE TypeOK'
  <2>1. saved' \in [role : Roles \union {"none"}, pos : Positions, request : Requests]
    BY <1>22 DEF Save, TypeOK
  <2>2. QED
    BY <1>22, <2>1 DEF Save, TypeOK, context, exchange, history
<1>23. ASSUME Crash PROVE TypeOK'
  <2>1. request' \in Requests /\ pos' \in Positions
    BY <1>23 DEF Crash, NoRequest, NoPosition, Requests, Positions, Statuses
  <2>2. {request.id, sending} \ {0, saved.request.id} \subseteq Ids
    BY DEF TypeOK, Requests, Ids
  <2>3. lost' \subseteq Ids
    BY <1>23, <2>2 DEF Crash, TypeOK
  <2>4. faults' \in 0..MaxFaults
    BY <1>23 DEF Crash, Fault, TypeOK
  <2>5. sending' \in 0..MaxWithdrawals
    BY <1>23 DEF Crash
  <2>6. UNCHANGED <<saved, base, chain, credited, givenUp>>
    BY <1>23 DEF Crash, exchange
  <2>7. role' = "none" /\ flag' = FALSE /\ monitor' = "off" /\ strayed' = TRUE /\ pc' = "down"
    BY <1>23 DEF Crash
  <2>8. QED
    BY <2>1, <2>3, <2>4, <2>5, <2>6, <2>7 DEF TypeOK
<1>24. ASSUME NEW i \in Ids, Send(i) PROVE TypeOK'
  <2>1. chain' \in [Ids -> [from : Roles, qty : Nat, withdrawal : Statuses, deposit : Statuses,
                            sent : BOOLEAN, trouble : BOOLEAN]]
    BY <1>24 DEF Send, TypeOK, Statuses
  <2>2. QED
    BY <1>24, <2>1 DEF Send, TypeOK, task, context, history
<1>25. ASSUME NEW i \in Ids, WithdrawalCompletes(i) PROVE TypeOK'
  <2>1. chain' \in [Ids -> [from : Roles, qty : Nat, withdrawal : Statuses, deposit : Statuses,
                            sent : BOOLEAN, trouble : BOOLEAN]]
    BY <1>25 DEF WithdrawalCompletes, TypeOK, Statuses
  <2>2. QED
    BY <1>25, <2>1 DEF WithdrawalCompletes, TypeOK, task, context, history
<1>26. ASSUME NEW i \in Ids, NEW status \in {"held", "failed"}, WithdrawalInTrouble(i, status)
      PROVE  TypeOK'
  <2>1. status \in Statuses
    BY <1>26 DEF Statuses
  <2>2. chain[i] \in [from : Roles, qty : Nat, withdrawal : Statuses, deposit : Statuses,
                       sent : BOOLEAN, trouble : BOOLEAN]
    BY DEF TypeOK
  <2>3. [chain[i] EXCEPT !.withdrawal = status, !.trouble = TRUE] \in
           [from : Roles, qty : Nat, withdrawal : Statuses, deposit : Statuses,
           sent : BOOLEAN, trouble : BOOLEAN]
    BY <2>1, <2>2
  <2>4. chain' = [chain EXCEPT ![i] = [chain[i] EXCEPT !.withdrawal = status, !.trouble = TRUE]]
    BY <1>26 DEF WithdrawalInTrouble, TypeOK
  <2>5. chain' \in [Ids -> [from : Roles, qty : Nat, withdrawal : Statuses, deposit : Statuses,
                            sent : BOOLEAN, trouble : BOOLEAN]]
    BY <2>3, <2>4 DEF TypeOK
  <2>6. base' \in [Roles -> Nat]
    BY <1>26 DEF WithdrawalInTrouble, TypeOK, Roles, Other
  <2>7. QED
    BY <1>26, <2>5, <2>6 DEF WithdrawalInTrouble, Fault, TypeOK, task, context, history
<1>27. ASSUME NEW i \in Ids, DepositAppears(i) PROVE TypeOK'
  <2>1. chain' \in [Ids -> [from : Roles, qty : Nat, withdrawal : Statuses, deposit : Statuses,
                            sent : BOOLEAN, trouble : BOOLEAN]]
    BY <1>27 DEF DepositAppears, TypeOK, Statuses
  <2>2. QED
    BY <1>27, <2>1 DEF DepositAppears, TypeOK, task, context, history
<1>28. ASSUME NEW i \in Ids, DepositCompletes(i) PROVE TypeOK'
  <2>1. chain' \in [Ids -> [from : Roles, qty : Nat, withdrawal : Statuses, deposit : Statuses,
                            sent : BOOLEAN, trouble : BOOLEAN]]
    BY <1>28 DEF DepositCompletes, TypeOK, Statuses
  <2>2. base' \in [Roles -> Nat]
    BY <1>28 DEF DepositCompletes, TypeOK, Roles, Other
  <2>3. QED
    BY <1>28, <2>1, <2>2 DEF DepositCompletes, Fault, TypeOK, task, context, history
<1>29. ASSUME NEW i \in Ids, NEW status \in {"held", "failed"}, DepositInTrouble(i, status)
      PROVE  TypeOK'
  <2>1. status \in Statuses
    BY <1>29 DEF Statuses
  <2>2. chain[i] \in [from : Roles, qty : Nat, withdrawal : Statuses, deposit : Statuses,
                       sent : BOOLEAN, trouble : BOOLEAN]
    BY DEF TypeOK
  <2>3. [chain[i] EXCEPT !.deposit = status, !.trouble = TRUE] \in
           [from : Roles, qty : Nat, withdrawal : Statuses, deposit : Statuses,
           sent : BOOLEAN, trouble : BOOLEAN]
    BY <2>1, <2>2
  <2>4. chain' = [chain EXCEPT ![i] = [chain[i] EXCEPT !.deposit = status, !.trouble = TRUE]]
    BY <1>29 DEF DepositInTrouble, TypeOK
  <2>5. chain' \in [Ids -> [from : Roles, qty : Nat, withdrawal : Statuses, deposit : Statuses,
                            sent : BOOLEAN, trouble : BOOLEAN]]
    BY <2>3, <2>4 DEF TypeOK
  <2>6. base' \in [Roles -> Nat]
    BY <1>29 DEF DepositInTrouble, TypeOK, Roles, Other
  <2>7. QED
    BY <1>29, <2>5, <2>6 DEF DepositInTrouble, Fault, TypeOK, task, context, history
<1>30. ASSUME UNCHANGED vars PROVE TypeOK'
  BY <1>30 DEF vars, context, exchange, history, TypeOK
<1>31. QED
  BY <1>1, <1>2, <1>3, <1>4, <1>5, <1>6, <1>7, <1>8, <1>9, <1>10, <1>11, <1>12, <1>13, <1>14,
     <1>15, <1>16, <1>17, <1>18, <1>19, <1>20, <1>21, <1>22, <1>23, <1>24, <1>25, <1>26,
     <1>27, <1>28, <1>29, <1>30
  DEF Next, Step, Fails, Monitor, Exchange

-----------------------------------------------------------------------------
(* Every step keeps the rest *)

\* The task is where its program is.
LEMMA PhaseStep ==
    ASSUME TypeOK, Phases, [Next]_vars
    PROVE  Phases'
<1>1. ASSUME Start PROVE Phases'
  BY <1>1 DEF Start, exchange, history, TypeOK, Phases, HasRequest, Completed, Roles, Requests
<1>2. ASSUME Load PROVE Phases'
  BY <1>2 DEF Load, exchange, history, HasRequest, LoadedRole, TypeOK, Phases, Completed,
              Roles, Requests
<1>3. ASSUME AskWithdrawal PROVE Phases'
  BY <1>3 DEF AskWithdrawal, exchange, history, Asks, InProgress, TypeOK, Phases, HasRequest,
              Completed, Roles, Requests
<1>4. ASSUME AskDeposit PROVE Phases'
  BY <1>4 DEF AskDeposit, exchange, history, Asks, TypeOK, Phases, HasRequest, Completed,
              Roles, Requests
<1>5. ASSUME WaitForTransfer PROVE Phases'
  BY <1>5 DEF WaitForTransfer, context, exchange, history, HasRequest, InProgress, TypeOK,
              Phases, Completed, Roles, Requests
<1>6. ASSUME HandleCompleted PROVE Phases'
  BY <1>6 DEF HandleCompleted, exchange, history, HasRequest, Completed, Other, TypeOK,
              Phases, Roles, Requests
<1>7. ASSUME Credit PROVE Phases'
  BY <1>7 DEF Credit, exchange, ClearRequest, NoRequest, TypeOK, Phases, HasRequest,
              Completed, Roles, Requests
<1>8. ASSUME CreditFails PROVE Phases'
  BY <1>8 DEF CreditFails, exchange, history, TypeOK, Phases, HasRequest, Completed, Roles,
              Requests
<1>9. ASSUME GiveUp PROVE Phases'
  BY <1>9 DEF GiveUp, exchange, ClearRequest, HasRequest, Completed, InProgress, NoRequest,
              TypeOK, Phases, Roles, Requests
<1>10. ASSUME NothingToTransfer PROVE Phases'
  BY <1>10 DEF NothingToTransfer, context, exchange, history, HasRequest, TypeOK, Phases,
               Completed, Roles, Requests
<1>11. ASSUME Initiate PROVE Phases'
  BY <1>11 DEF Initiate, context, exchange, history, HasRequest, TypeOK, Phases, Completed,
               Roles, Requests
<1>12. ASSUME Submit PROVE Phases'
  BY <1>12 DEF Submit, context, exchange, history, Unused, Ids, TypeOK, Phases, HasRequest,
               Completed, Roles, Requests
<1>13. ASSUME SubmitFails PROVE Phases'
  BY <1>13 DEF SubmitFails, context, exchange, history, Unused, Ids, TypeOK, Phases,
               HasRequest, Completed, Roles, Requests
<1>14. ASSUME Execute PROVE Phases'
  BY <1>14 DEF Execute, context, history, Unused, Ids, TypeOK, Phases, HasRequest, Completed,
               Roles, Requests
<1>15. ASSUME Answered PROVE Phases'
  BY <1>15 DEF Answered, exchange, history, TypeOK, Phases, HasRequest, Completed, Roles,
               Requests
<1>16. ASSUME AnswerLost PROVE Phases'
  BY <1>16 DEF AnswerLost, context, exchange, TypeOK, Phases, HasRequest, Completed, Roles,
               Requests
<1>17. ASSUME NoTrade PROVE Phases'
  BY <1>17 DEF NoTrade, context, exchange, history, TypeOK, Phases, HasRequest, Completed,
               Roles, Requests
<1>18. ASSUME Buy PROVE Phases'
  BY <1>18 DEF Buy, Fills, TypeOK, Phases, HasRequest, Completed, Roles, Requests
<1>19. ASSUME Sell PROVE Phases'
  BY <1>19 DEF Sell, Fills, TypeOK, Phases, HasRequest, Completed, Roles, Requests
<1>20. ASSUME Refused PROVE Phases'
  BY <1>20 DEF Refused, exchange, history, TypeOK, Phases, HasRequest, Completed, Roles,
               Requests
<1>21. ASSUME Rebalance PROVE Phases'
  BY <1>21 DEF Rebalance, context, exchange, history, TypeOK, Phases, HasRequest, Completed,
               Roles, Requests
<1>22. ASSUME Save PROVE Phases'
  BY <1>22 DEF Save, context, exchange, history, TypeOK, Phases, HasRequest, Completed, Roles,
               Requests
<1>23. ASSUME Crash PROVE Phases'
  BY <1>23 DEF Crash, exchange, NoRequest, TypeOK, Phases, HasRequest, Completed, Roles,
               Requests
<1>24. ASSUME NEW i \in Ids, Send(i) PROVE Phases'
  BY <1>24 DEF Send, history, task, context, TypeOK, Phases, HasRequest, Completed, Roles,
               Requests
<1>25. ASSUME NEW i \in Ids, WithdrawalCompletes(i) PROVE Phases'
  BY <1>25 DEF WithdrawalCompletes, history, task, context, TypeOK, Phases, HasRequest,
               Completed, Roles, Requests
<1>26. ASSUME NEW i \in Ids, NEW status \in {"held", "failed"}, WithdrawalInTrouble(i, status)
      PROVE  Phases'
  BY <1>26 DEF WithdrawalInTrouble, history, task, context, TypeOK, Phases, HasRequest,
               Completed, Roles, Requests
<1>27. ASSUME NEW i \in Ids, DepositAppears(i) PROVE Phases'
  BY <1>27 DEF DepositAppears, history, task, context, TypeOK, Phases, HasRequest, Completed,
               Roles, Requests
<1>28. ASSUME NEW i \in Ids, DepositCompletes(i) PROVE Phases'
  BY <1>28 DEF DepositCompletes, history, task, Other, context, TypeOK, Phases, HasRequest,
               Completed, Roles, Requests
<1>29. ASSUME NEW i \in Ids, NEW status \in {"held", "failed"}, DepositInTrouble(i, status)
      PROVE  Phases'
  BY <1>29 DEF DepositInTrouble, history, task, context, TypeOK, Phases, HasRequest,
               Completed, Roles, Requests
<1>30. ASSUME UNCHANGED vars PROVE Phases'
  BY <1>30 DEF vars, context, exchange, history, TypeOK, Phases, HasRequest, Completed, Roles,
               Requests
<1>31. QED
  BY <1>1, <1>2, <1>3, <1>4, <1>5, <1>6, <1>7, <1>8, <1>9, <1>10, <1>11, <1>12, <1>13, <1>14,
     <1>15, <1>16, <1>17, <1>18, <1>19, <1>20, <1>21, <1>22, <1>23, <1>24, <1>25, <1>26,
     <1>27, <1>28, <1>29, <1>30
  DEF Next, Step, Fails, Monitor, Exchange

\* A status that ends a transfer does not change any more.
LEMMA SeenStep ==
    ASSUME TypeOK, Phases, RequestsHaveSeen, TroubleIsNoted, [Next]_vars
    PROVE  RequestsHaveSeen'
<1>1. ASSUME Start PROVE RequestsHaveSeen'
  BY <1>1 DEF Start, exchange, history, TypeOK, Phases, HasRequest, RequestsHaveSeen,
              TroubleIsNoted, Seen, Requests, Ids
<1>2. ASSUME Load PROVE RequestsHaveSeen'
  BY <1>2 DEF Load, exchange, history, HasRequest, TypeOK, Phases, RequestsHaveSeen,
              TroubleIsNoted, Seen, Requests, Ids
<1>3. ASSUME AskWithdrawal PROVE RequestsHaveSeen'
  <2>1. request.id \in Ids /\ request \in Requests
    BY <1>3 DEF AskWithdrawal, Phases, HasRequest, TypeOK, Requests, Ids
  <2>2. /\ request'.id = request.id /\ request'.deposit = request.deposit
        /\ request'.withdrawal \in {request.withdrawal, chain[request.id].withdrawal}
    BY <1>3, <2>1 DEF AskWithdrawal, Asks, Requests
  <2>3. saved' = saved /\ chain' = chain
    BY <1>3 DEF AskWithdrawal, exchange
  <2>4. Seen(request)'
    BY <2>1, <2>2, <2>3 DEF RequestsHaveSeen, TroubleIsNoted, Seen
  <2>5. QED
    BY <2>3, <2>4 DEF RequestsHaveSeen, Seen
<1>4. ASSUME AskDeposit PROVE RequestsHaveSeen'
  BY <1>4 DEF AskDeposit, exchange, history, Asks, TypeOK, Phases, HasRequest,
              RequestsHaveSeen, TroubleIsNoted, Seen, Requests, Ids
<1>5. ASSUME WaitForTransfer PROVE RequestsHaveSeen'
  BY <1>5 DEF WaitForTransfer, context, exchange, history, HasRequest, InProgress, TypeOK,
              Phases, RequestsHaveSeen, TroubleIsNoted, Seen, Requests, Ids
<1>6. ASSUME HandleCompleted PROVE RequestsHaveSeen'
  BY <1>6 DEF HandleCompleted, exchange, history, HasRequest, Completed, TypeOK, Phases,
              RequestsHaveSeen, TroubleIsNoted, Seen, Requests, Ids
<1>7. ASSUME Credit PROVE RequestsHaveSeen'
  BY <1>7 DEF Credit, exchange, ClearRequest, NoRequest, TypeOK, Phases, HasRequest,
              RequestsHaveSeen, TroubleIsNoted, Seen, Requests, Ids
<1>8. ASSUME CreditFails PROVE RequestsHaveSeen'
  BY <1>8 DEF CreditFails, exchange, history, TypeOK, Phases, HasRequest, RequestsHaveSeen,
              TroubleIsNoted, Seen, Requests, Ids
<1>9. ASSUME GiveUp PROVE RequestsHaveSeen'
  BY <1>9 DEF GiveUp, exchange, ClearRequest, HasRequest, Completed, InProgress, NoRequest,
              TypeOK, Phases, RequestsHaveSeen, TroubleIsNoted, Seen, Requests, Ids
<1>10. ASSUME NothingToTransfer PROVE RequestsHaveSeen'
  BY <1>10 DEF NothingToTransfer, context, exchange, history, HasRequest, TypeOK, Phases,
               RequestsHaveSeen, TroubleIsNoted, Seen, Requests, Ids
<1>11. ASSUME Initiate PROVE RequestsHaveSeen'
  BY <1>11 DEF Initiate, context, exchange, history, HasRequest, TypeOK, Phases,
               RequestsHaveSeen, TroubleIsNoted, Seen, Requests, Ids
<1>12. ASSUME Submit PROVE RequestsHaveSeen'
  BY <1>12 DEF Submit, context, exchange, history, Unused, TypeOK, Phases, HasRequest,
               RequestsHaveSeen, TroubleIsNoted, Seen, Requests, Ids
<1>13. ASSUME SubmitFails PROVE RequestsHaveSeen'
  BY <1>13 DEF SubmitFails, context, exchange, history, Unused, TypeOK, Phases, HasRequest,
               RequestsHaveSeen, TroubleIsNoted, Seen, Requests, Ids
<1>14. ASSUME Execute PROVE RequestsHaveSeen'
  BY <1>14 DEF Execute, context, history, Unused, TypeOK, Phases, HasRequest,
               RequestsHaveSeen, TroubleIsNoted, Seen, Requests, Ids
<1>15. ASSUME Answered PROVE RequestsHaveSeen'
  BY <1>15 DEF Answered, exchange, history, TypeOK, Phases, HasRequest, RequestsHaveSeen,
               TroubleIsNoted, Seen, Requests, Ids
<1>16. ASSUME AnswerLost PROVE RequestsHaveSeen'
  BY <1>16 DEF AnswerLost, context, exchange, TypeOK, Phases, HasRequest, RequestsHaveSeen,
               TroubleIsNoted, Seen, Requests, Ids
<1>17. ASSUME NoTrade PROVE RequestsHaveSeen'
  BY <1>17 DEF NoTrade, context, exchange, history, TypeOK, Phases, HasRequest,
               RequestsHaveSeen, TroubleIsNoted, Seen, Requests, Ids
<1>18. ASSUME Buy PROVE RequestsHaveSeen'
  BY <1>18 DEF Buy, Fills, TypeOK, Phases, HasRequest, RequestsHaveSeen, TroubleIsNoted, Seen,
               Requests, Ids
<1>19. ASSUME Sell PROVE RequestsHaveSeen'
  BY <1>19 DEF Sell, Fills, TypeOK, Phases, HasRequest, RequestsHaveSeen, TroubleIsNoted,
               Seen, Requests, Ids
<1>20. ASSUME Refused PROVE RequestsHaveSeen'
  BY <1>20 DEF Refused, exchange, history, TypeOK, Phases, HasRequest, RequestsHaveSeen,
               TroubleIsNoted, Seen, Requests, Ids
<1>21. ASSUME Rebalance PROVE RequestsHaveSeen'
  BY <1>21 DEF Rebalance, context, exchange, history, TypeOK, Phases, HasRequest,
               RequestsHaveSeen, TroubleIsNoted, Seen, Requests, Ids
<1>22. ASSUME Save PROVE RequestsHaveSeen'
  BY <1>22 DEF Save, context, exchange, history, TypeOK, Phases, HasRequest, RequestsHaveSeen,
               TroubleIsNoted, Seen, Requests, Ids
<1>23. ASSUME Crash PROVE RequestsHaveSeen'
  BY <1>23 DEF Crash, exchange, NoRequest, TypeOK, Phases, HasRequest, RequestsHaveSeen,
               TroubleIsNoted, Seen, Requests, Ids
<1>24. ASSUME NEW i \in Ids, Send(i) PROVE RequestsHaveSeen'
  <2>1. request' = request /\ saved' = saved
    BY <1>24 DEF Send, task, context
  <2>2. \A j \in Ids : /\ chain[j].withdrawal = "completed" => chain'[j].withdrawal = "completed"
                       /\ chain[j].deposit = "completed" => chain'[j].deposit = "completed"
                       /\ chain[j].trouble => chain'[j].trouble
    BY <1>24 DEF Send, TypeOK
  <2>3. /\ request.id # 0 => request.id \in Ids
        /\ saved.request.id # 0 => saved.request.id \in Ids
    BY DEF TypeOK, Requests, Ids
  <2>4. Seen(request)'
    BY <2>1, <2>2, <2>3 DEF RequestsHaveSeen, Seen
  <2>5. Seen(saved.request)'
    BY <2>1, <2>2, <2>3 DEF RequestsHaveSeen, Seen
  <2>6. QED
    BY <2>4, <2>5 DEF RequestsHaveSeen
<1>25. ASSUME NEW i \in Ids, WithdrawalCompletes(i) PROVE RequestsHaveSeen'
  <2>1. request' = request /\ saved' = saved
    BY <1>25 DEF WithdrawalCompletes, task, context
  <2>2. \A j \in Ids : /\ chain[j].withdrawal = "completed" => chain'[j].withdrawal = "completed"
                       /\ chain[j].deposit = "completed" => chain'[j].deposit = "completed"
                       /\ chain[j].trouble => chain'[j].trouble
    BY <1>25 DEF WithdrawalCompletes, TypeOK
  <2>3. /\ request.id # 0 => request.id \in Ids
        /\ saved.request.id # 0 => saved.request.id \in Ids
    BY DEF TypeOK, Requests, Ids
  <2>4. Seen(request)'
    BY <2>1, <2>2, <2>3 DEF RequestsHaveSeen, Seen
  <2>5. Seen(saved.request)'
    BY <2>1, <2>2, <2>3 DEF RequestsHaveSeen, Seen
  <2>6. QED
    BY <2>4, <2>5 DEF RequestsHaveSeen
<1>26. ASSUME NEW i \in Ids, NEW status \in {"held", "failed"}, WithdrawalInTrouble(i, status)
      PROVE  RequestsHaveSeen'
  <2>1. request' = request /\ saved' = saved
    BY <1>26 DEF WithdrawalInTrouble, task, context
  <2>2. \A j \in Ids : /\ chain[j].withdrawal = "completed" => chain'[j].withdrawal = "completed"
                       /\ chain[j].deposit = "completed" => chain'[j].deposit = "completed"
                       /\ chain[j].trouble => chain'[j].trouble
    BY <1>26 DEF WithdrawalInTrouble, TypeOK
  <2>3. /\ request.id # 0 => request.id \in Ids
        /\ saved.request.id # 0 => saved.request.id \in Ids
    BY DEF TypeOK, Requests, Ids
  <2>4. Seen(request)'
    BY <2>1, <2>2, <2>3 DEF RequestsHaveSeen, Seen
  <2>5. Seen(saved.request)'
    BY <2>1, <2>2, <2>3 DEF RequestsHaveSeen, Seen
  <2>6. QED
    BY <2>4, <2>5 DEF RequestsHaveSeen
<1>27. ASSUME NEW i \in Ids, DepositAppears(i) PROVE RequestsHaveSeen'
  <2>1. request' = request /\ saved' = saved
    BY <1>27 DEF DepositAppears, task, context
  <2>2. \A j \in Ids : /\ chain[j].withdrawal = "completed" => chain'[j].withdrawal = "completed"
                       /\ chain[j].deposit = "completed" => chain'[j].deposit = "completed"
                       /\ chain[j].trouble => chain'[j].trouble
    BY <1>27 DEF DepositAppears, TypeOK
  <2>3. /\ request.id # 0 => request.id \in Ids
        /\ saved.request.id # 0 => saved.request.id \in Ids
    BY DEF TypeOK, Requests, Ids
  <2>4. Seen(request)'
    BY <2>1, <2>2, <2>3 DEF RequestsHaveSeen, Seen
  <2>5. Seen(saved.request)'
    BY <2>1, <2>2, <2>3 DEF RequestsHaveSeen, Seen
  <2>6. QED
    BY <2>4, <2>5 DEF RequestsHaveSeen
<1>28. ASSUME NEW i \in Ids, DepositCompletes(i) PROVE RequestsHaveSeen'
  <2>1. request' = request /\ saved' = saved
    BY <1>28 DEF DepositCompletes, task, context
  <2>2. \A j \in Ids : /\ chain[j].withdrawal = "completed" => chain'[j].withdrawal = "completed"
                       /\ chain[j].deposit = "completed" => chain'[j].deposit = "completed"
                       /\ chain[j].trouble => chain'[j].trouble
    BY <1>28 DEF DepositCompletes, TypeOK
  <2>3. /\ request.id # 0 => request.id \in Ids
        /\ saved.request.id # 0 => saved.request.id \in Ids
    BY DEF TypeOK, Requests, Ids
  <2>4. Seen(request)'
    BY <2>1, <2>2, <2>3 DEF RequestsHaveSeen, Seen
  <2>5. Seen(saved.request)'
    BY <2>1, <2>2, <2>3 DEF RequestsHaveSeen, Seen
  <2>6. QED
    BY <2>4, <2>5 DEF RequestsHaveSeen
<1>29. ASSUME NEW i \in Ids, NEW status \in {"held", "failed"}, DepositInTrouble(i, status)
      PROVE  RequestsHaveSeen'
  <2>1. request' = request /\ saved' = saved
    BY <1>29 DEF DepositInTrouble, task, context
  <2>2. \A j \in Ids : /\ chain[j].withdrawal = "completed" => chain'[j].withdrawal = "completed"
                       /\ chain[j].deposit = "completed" => chain'[j].deposit = "completed"
                       /\ chain[j].trouble => chain'[j].trouble
    BY <1>29 DEF DepositInTrouble, TypeOK
  <2>3. /\ request.id # 0 => request.id \in Ids
        /\ saved.request.id # 0 => saved.request.id \in Ids
    BY DEF TypeOK, Requests, Ids
  <2>4. Seen(request)'
    BY <2>1, <2>2, <2>3 DEF RequestsHaveSeen, Seen
  <2>5. Seen(saved.request)'
    BY <2>1, <2>2, <2>3 DEF RequestsHaveSeen, Seen
  <2>6. QED
    BY <2>4, <2>5 DEF RequestsHaveSeen
<1>30. ASSUME UNCHANGED vars PROVE RequestsHaveSeen'
  BY <1>30 DEF vars, context, exchange, history, TypeOK, Phases, HasRequest, RequestsHaveSeen,
               TroubleIsNoted, Seen, Requests, Ids
<1>31. QED
  BY <1>1, <1>2, <1>3, <1>4, <1>5, <1>6, <1>7, <1>8, <1>9, <1>10, <1>11, <1>12, <1>13, <1>14,
     <1>15, <1>16, <1>17, <1>18, <1>19, <1>20, <1>21, <1>22, <1>23, <1>24, <1>25, <1>26,
     <1>27, <1>28, <1>29, <1>30
  DEF Next, Step, Fails, Monitor, Exchange

\* Trouble is not forgotten.
LEMMA TroubleStep ==
    ASSUME TypeOK, TroubleIsNoted, [Next]_vars
    PROVE  TroubleIsNoted'
<1>1. ASSUME Start PROVE TroubleIsNoted'
  BY <1>1 DEF Start, exchange, history, TypeOK, TroubleIsNoted
<1>2. ASSUME Load PROVE TroubleIsNoted'
  BY <1>2 DEF Load, exchange, history, TypeOK, TroubleIsNoted
<1>3. ASSUME AskWithdrawal PROVE TroubleIsNoted'
  BY <1>3 DEF AskWithdrawal, exchange, history, TypeOK, TroubleIsNoted
<1>4. ASSUME AskDeposit PROVE TroubleIsNoted'
  BY <1>4 DEF AskDeposit, exchange, history, TypeOK, TroubleIsNoted
<1>5. ASSUME WaitForTransfer PROVE TroubleIsNoted'
  BY <1>5 DEF WaitForTransfer, context, exchange, history, TypeOK, TroubleIsNoted
<1>6. ASSUME HandleCompleted PROVE TroubleIsNoted'
  BY <1>6 DEF HandleCompleted, exchange, history, TypeOK, TroubleIsNoted
<1>7. ASSUME Credit PROVE TroubleIsNoted'
  BY <1>7 DEF Credit, exchange, TypeOK, TroubleIsNoted
<1>8. ASSUME CreditFails PROVE TroubleIsNoted'
  BY <1>8 DEF CreditFails, exchange, history, TypeOK, TroubleIsNoted
<1>9. ASSUME GiveUp PROVE TroubleIsNoted'
  BY <1>9 DEF GiveUp, exchange, TypeOK, TroubleIsNoted
<1>10. ASSUME NothingToTransfer PROVE TroubleIsNoted'
  BY <1>10 DEF NothingToTransfer, context, exchange, history, TypeOK, TroubleIsNoted
<1>11. ASSUME Initiate PROVE TroubleIsNoted'
  BY <1>11 DEF Initiate, context, exchange, history, TypeOK, TroubleIsNoted
<1>12. ASSUME Submit PROVE TroubleIsNoted'
  BY <1>12 DEF Submit, context, exchange, history, Unused, TypeOK, TroubleIsNoted
<1>13. ASSUME SubmitFails PROVE TroubleIsNoted'
  BY <1>13 DEF SubmitFails, context, exchange, history, Unused, TypeOK, TroubleIsNoted
<1>14. ASSUME Execute PROVE TroubleIsNoted'
  BY <1>14 DEF Execute, context, history, Unused, TypeOK, TroubleIsNoted
<1>15. ASSUME Answered PROVE TroubleIsNoted'
  BY <1>15 DEF Answered, exchange, history, TypeOK, TroubleIsNoted
<1>16. ASSUME AnswerLost PROVE TroubleIsNoted'
  BY <1>16 DEF AnswerLost, context, exchange, TypeOK, TroubleIsNoted
<1>17. ASSUME NoTrade PROVE TroubleIsNoted'
  BY <1>17 DEF NoTrade, context, exchange, history, TypeOK, TroubleIsNoted
<1>18. ASSUME Buy PROVE TroubleIsNoted'
  BY <1>18 DEF Buy, Fills, TypeOK, TroubleIsNoted
<1>19. ASSUME Sell PROVE TroubleIsNoted'
  BY <1>19 DEF Sell, Fills, TypeOK, TroubleIsNoted
<1>20. ASSUME Refused PROVE TroubleIsNoted'
  BY <1>20 DEF Refused, exchange, history, TypeOK, TroubleIsNoted
<1>21. ASSUME Rebalance PROVE TroubleIsNoted'
  BY <1>21 DEF Rebalance, context, exchange, history, TypeOK, TroubleIsNoted
<1>22. ASSUME Save PROVE TroubleIsNoted'
  BY <1>22 DEF Save, context, exchange, history, TypeOK, TroubleIsNoted
<1>23. ASSUME Crash PROVE TroubleIsNoted'
  BY <1>23 DEF Crash, exchange, TypeOK, TroubleIsNoted
<1>24. ASSUME NEW i \in Ids, Send(i) PROVE TroubleIsNoted'
  BY <1>24 DEF Send, history, task, context, TypeOK, TroubleIsNoted
<1>25. ASSUME NEW i \in Ids, WithdrawalCompletes(i) PROVE TroubleIsNoted'
  BY <1>25 DEF WithdrawalCompletes, history, task, context, TypeOK, TroubleIsNoted
<1>26. ASSUME NEW i \in Ids, NEW status \in {"held", "failed"}, WithdrawalInTrouble(i, status)
      PROVE  TroubleIsNoted'
  BY <1>26 DEF WithdrawalInTrouble, history, task, context, TypeOK, TroubleIsNoted
<1>27. ASSUME NEW i \in Ids, DepositAppears(i) PROVE TroubleIsNoted'
  BY <1>27 DEF DepositAppears, history, task, context, TypeOK, TroubleIsNoted
<1>28. ASSUME NEW i \in Ids, DepositCompletes(i) PROVE TroubleIsNoted'
  BY <1>28 DEF DepositCompletes, history, task, context, TypeOK, TroubleIsNoted
<1>29. ASSUME NEW i \in Ids, NEW status \in {"held", "failed"}, DepositInTrouble(i, status)
      PROVE  TroubleIsNoted'
  BY <1>29 DEF DepositInTrouble, history, task, context, TypeOK, TroubleIsNoted
<1>30. ASSUME UNCHANGED vars PROVE TroubleIsNoted'
  BY <1>30 DEF vars, context, exchange, history, TypeOK, TroubleIsNoted
<1>31. QED
  BY <1>1, <1>2, <1>3, <1>4, <1>5, <1>6, <1>7, <1>8, <1>9, <1>10, <1>11, <1>12, <1>13, <1>14,
     <1>15, <1>16, <1>17, <1>18, <1>19, <1>20, <1>21, <1>22, <1>23, <1>24, <1>25, <1>26,
     <1>27, <1>28, <1>29, <1>30
  DEF Next, Step, Fails, Monitor, Exchange

\* Nothing is lost of a transfer, and nothing of it but on disk.
LEMMA TrackedStep ==
    ASSUME TypeOK, Phases, TransferIsTracked, [Next]_vars
    PROVE  TransferIsTracked'
<1>1. ASSUME Start PROVE TransferIsTracked'
  BY <1>1 DEF Start, exchange, history, TypeOK, Phases, HasRequest, TransferIsTracked, Unused,
              Requests, Ids
<1>2. ASSUME Load PROVE TransferIsTracked'
  BY <1>2 DEF Load, exchange, history, HasRequest, TypeOK, Phases, TransferIsTracked, Unused,
              Requests, Ids
<1>3. ASSUME AskWithdrawal PROVE TransferIsTracked'
  <2>1. request \in Requests
    BY DEF TypeOK
  <2>2. request'.id = request.id
    BY <1>3, <2>1 DEF AskWithdrawal, Asks, Requests
  <2>3. QED
    BY <1>3, <2>2 DEF AskWithdrawal, exchange, history, TransferIsTracked, Unused
<1>4. ASSUME AskDeposit PROVE TransferIsTracked'
  BY <1>4 DEF AskDeposit, exchange, history, Asks, TypeOK, Phases, HasRequest,
              TransferIsTracked, Unused, Requests, Ids
<1>5. ASSUME WaitForTransfer PROVE TransferIsTracked'
  BY <1>5 DEF WaitForTransfer, context, exchange, history, HasRequest, TypeOK, Phases,
              TransferIsTracked, Unused, Requests, Ids
<1>6. ASSUME HandleCompleted PROVE TransferIsTracked'
  BY <1>6 DEF HandleCompleted, exchange, history, HasRequest, TypeOK, Phases,
              TransferIsTracked, Unused, Requests, Ids
<1>7. ASSUME Credit PROVE TransferIsTracked'
  BY <1>7 DEF Credit, exchange, ClearRequest, NoRequest, TypeOK, Phases, HasRequest,
              TransferIsTracked, Unused, Requests, Ids
<1>8. ASSUME CreditFails PROVE TransferIsTracked'
  BY <1>8 DEF CreditFails, exchange, history, TypeOK, Phases, HasRequest, TransferIsTracked,
              Unused, Requests, Ids
<1>9. ASSUME GiveUp PROVE TransferIsTracked'
  BY <1>9 DEF GiveUp, exchange, ClearRequest, HasRequest, NoRequest, TypeOK, Phases,
              TransferIsTracked, Unused, Requests, Ids
<1>10. ASSUME NothingToTransfer PROVE TransferIsTracked'
  BY <1>10 DEF NothingToTransfer, context, exchange, history, HasRequest, TypeOK, Phases,
               TransferIsTracked, Unused, Requests, Ids
<1>11. ASSUME Initiate PROVE TransferIsTracked'
  BY <1>11 DEF Initiate, context, exchange, history, HasRequest, TypeOK, Phases,
               TransferIsTracked, Unused, Requests, Ids
<1>12. ASSUME Submit PROVE TransferIsTracked'
  BY <1>12 DEF Submit, context, exchange, history, Unused, TypeOK, Phases, HasRequest,
               TransferIsTracked, Requests, Ids
<1>13. ASSUME SubmitFails PROVE TransferIsTracked'
  BY <1>13 DEF SubmitFails, context, exchange, history, Unused, TypeOK, Phases, HasRequest,
               TransferIsTracked, Requests, Ids
<1>14. ASSUME Execute PROVE TransferIsTracked'
  BY <1>14 DEF Execute, context, history, Unused, TypeOK, Phases, HasRequest,
               TransferIsTracked, Requests, Ids
<1>15. ASSUME Answered PROVE TransferIsTracked'
  BY <1>15 DEF Answered, exchange, history, TypeOK, Phases, HasRequest, TransferIsTracked,
               Unused, Requests, Ids
<1>16. ASSUME AnswerLost PROVE TransferIsTracked'
  BY <1>16 DEF AnswerLost, context, exchange, TypeOK, Phases, HasRequest, TransferIsTracked,
               Unused, Requests, Ids
<1>17. ASSUME NoTrade PROVE TransferIsTracked'
  BY <1>17 DEF NoTrade, context, exchange, history, TypeOK, Phases, HasRequest,
               TransferIsTracked, Unused, Requests, Ids
<1>18. ASSUME Buy PROVE TransferIsTracked'
  BY <1>18 DEF Buy, Fills, TypeOK, Phases, HasRequest, TransferIsTracked, Unused, Requests,
               Ids
<1>19. ASSUME Sell PROVE TransferIsTracked'
  BY <1>19 DEF Sell, Fills, TypeOK, Phases, HasRequest, TransferIsTracked, Unused, Requests,
               Ids
<1>20. ASSUME Refused PROVE TransferIsTracked'
  BY <1>20 DEF Refused, exchange, history, TypeOK, Phases, HasRequest, TransferIsTracked,
               Unused, Requests, Ids
<1>21. ASSUME Rebalance PROVE TransferIsTracked'
  BY <1>21 DEF Rebalance, context, exchange, history, TypeOK, Phases, HasRequest,
               TransferIsTracked, Unused, Requests, Ids
<1>22. ASSUME Save PROVE TransferIsTracked'
  BY <1>22 DEF Save, context, exchange, history, TypeOK, Phases, HasRequest,
               TransferIsTracked, Unused, Requests, Ids
<1>23. ASSUME Crash PROVE TransferIsTracked'
  BY <1>23 DEF Crash, exchange, NoRequest, TypeOK, Phases, HasRequest, TransferIsTracked,
               Unused, Requests, Ids
<1>24. ASSUME NEW i \in Ids, Send(i) PROVE TransferIsTracked'
  <2>1. UNCHANGED <<pc, request, flag, sending, saved, credited, givenUp, lost>>
    BY <1>24 DEF Send, task, context, history
  <2>2. \A j \in Ids : chain'[j].withdrawal # "unknown" => chain[j].withdrawal # "unknown"
    BY <1>24 DEF Send, TypeOK
  <2>3. QED
    BY <2>1, <2>2 DEF TransferIsTracked, Unused
<1>25. ASSUME NEW i \in Ids, WithdrawalCompletes(i) PROVE TransferIsTracked'
  <2>1. UNCHANGED <<pc, request, flag, sending, saved, credited, givenUp, lost>>
    BY <1>25 DEF WithdrawalCompletes, task, context, history
  <2>2. \A j \in Ids : chain'[j].withdrawal # "unknown" => chain[j].withdrawal # "unknown"
    BY <1>25 DEF WithdrawalCompletes, TypeOK
  <2>3. QED
    BY <2>1, <2>2 DEF TransferIsTracked, Unused
<1>26. ASSUME NEW i \in Ids, NEW status \in {"held", "failed"}, WithdrawalInTrouble(i, status)
      PROVE  TransferIsTracked'
  <2>1. UNCHANGED <<pc, request, flag, sending, saved, credited, givenUp, lost>>
    BY <1>26 DEF WithdrawalInTrouble, task, context, history
  <2>2. \A j \in Ids : chain'[j].withdrawal # "unknown" => chain[j].withdrawal # "unknown"
    BY <1>26 DEF WithdrawalInTrouble, TypeOK
  <2>3. QED
    BY <2>1, <2>2 DEF TransferIsTracked, Unused
<1>27. ASSUME NEW i \in Ids, DepositAppears(i) PROVE TransferIsTracked'
  <2>1. UNCHANGED <<pc, request, flag, sending, saved, credited, givenUp, lost>>
    BY <1>27 DEF DepositAppears, task, context, history
  <2>2. \A j \in Ids : chain'[j].withdrawal # "unknown" => chain[j].withdrawal # "unknown"
    BY <1>27 DEF DepositAppears, TypeOK
  <2>3. QED
    BY <2>1, <2>2 DEF TransferIsTracked, Unused
<1>28. ASSUME NEW i \in Ids, DepositCompletes(i) PROVE TransferIsTracked'
  <2>1. UNCHANGED <<pc, request, flag, sending, saved, credited, givenUp, lost>>
    BY <1>28 DEF DepositCompletes, task, context, history
  <2>2. \A j \in Ids : chain'[j].withdrawal # "unknown" => chain[j].withdrawal # "unknown"
    BY <1>28 DEF DepositCompletes, TypeOK
  <2>3. QED
    BY <2>1, <2>2 DEF TransferIsTracked, Unused
<1>29. ASSUME NEW i \in Ids, NEW status \in {"held", "failed"}, DepositInTrouble(i, status)
      PROVE  TransferIsTracked'
  <2>1. UNCHANGED <<pc, request, flag, sending, saved, credited, givenUp, lost>>
    BY <1>29 DEF DepositInTrouble, task, context, history
  <2>2. \A j \in Ids : chain'[j].withdrawal # "unknown" => chain[j].withdrawal # "unknown"
    BY <1>29 DEF DepositInTrouble, TypeOK
  <2>3. QED
    BY <2>1, <2>2 DEF TransferIsTracked, Unused
<1>30. ASSUME UNCHANGED vars PROVE TransferIsTracked'
  BY <1>30 DEF vars, context, exchange, history, TypeOK, Phases, HasRequest,
               TransferIsTracked, Unused, Requests, Ids
<1>31. QED
  BY <1>1, <1>2, <1>3, <1>4, <1>5, <1>6, <1>7, <1>8, <1>9, <1>10, <1>11, <1>12, <1>13, <1>14,
     <1>15, <1>16, <1>17, <1>18, <1>19, <1>20, <1>21, <1>22, <1>23, <1>24, <1>25, <1>26,
     <1>27, <1>28, <1>29, <1>30
  DEF Next, Step, Fails, Monitor, Exchange

\* What is given up has seen trouble.
LEMMA GivenUpStep ==
    ASSUME TypeOK, Phases, RequestsHaveSeen, GivenUpHadTrouble, [Next]_vars
    PROVE  GivenUpHadTrouble'
<1>1. ASSUME Start PROVE GivenUpHadTrouble'
  BY <1>1 DEF Start, exchange, history, TypeOK, RequestsHaveSeen, GivenUpHadTrouble, Seen,
              Requests, Ids, Statuses
<1>2. ASSUME Load PROVE GivenUpHadTrouble'
  BY <1>2 DEF Load, exchange, history, HasRequest, TypeOK, RequestsHaveSeen,
              GivenUpHadTrouble, Seen, Requests, Ids, Statuses
<1>3. ASSUME AskWithdrawal PROVE GivenUpHadTrouble'
  BY <1>3 DEF AskWithdrawal, exchange, history, InProgress, TypeOK, RequestsHaveSeen,
              GivenUpHadTrouble, Seen, Requests, Ids, Statuses
<1>4. ASSUME AskDeposit PROVE GivenUpHadTrouble'
  BY <1>4 DEF AskDeposit, exchange, history, TypeOK, RequestsHaveSeen, GivenUpHadTrouble,
              Seen, Requests, Ids, Statuses
<1>5. ASSUME WaitForTransfer PROVE GivenUpHadTrouble'
  BY <1>5 DEF WaitForTransfer, context, exchange, history, HasRequest, InProgress, TypeOK,
              RequestsHaveSeen, GivenUpHadTrouble, Seen, Requests, Ids, Statuses
<1>6. ASSUME HandleCompleted PROVE GivenUpHadTrouble'
  BY <1>6 DEF HandleCompleted, exchange, history, HasRequest, Completed, TypeOK,
              RequestsHaveSeen, GivenUpHadTrouble, Seen, Requests, Ids, Statuses
<1>7. ASSUME Credit PROVE GivenUpHadTrouble'
  BY <1>7 DEF Credit, exchange, ClearRequest, TypeOK, RequestsHaveSeen, GivenUpHadTrouble,
              Seen, Requests, Ids, Statuses
<1>8. ASSUME CreditFails PROVE GivenUpHadTrouble'
  BY <1>8 DEF CreditFails, exchange, history, TypeOK, RequestsHaveSeen, GivenUpHadTrouble,
              Seen, Requests, Ids, Statuses
<1>9. ASSUME GiveUp PROVE GivenUpHadTrouble'
  BY <1>9 DEF GiveUp, exchange, ClearRequest, HasRequest, Completed, InProgress, TypeOK,
              RequestsHaveSeen, GivenUpHadTrouble, Seen, Requests, Ids, Statuses
<1>10. ASSUME NothingToTransfer PROVE GivenUpHadTrouble'
  BY <1>10 DEF NothingToTransfer, context, exchange, history, HasRequest, TypeOK,
               RequestsHaveSeen, GivenUpHadTrouble, Seen, Requests, Ids, Statuses
<1>11. ASSUME Initiate PROVE GivenUpHadTrouble'
  BY <1>11 DEF Initiate, context, exchange, history, HasRequest, TypeOK, RequestsHaveSeen,
               GivenUpHadTrouble, Seen, Requests, Ids, Statuses
<1>12. ASSUME Submit PROVE GivenUpHadTrouble'
  BY <1>12 DEF Submit, context, exchange, history, Unused, TypeOK, RequestsHaveSeen,
               GivenUpHadTrouble, Seen, Requests, Ids, Statuses
<1>13. ASSUME SubmitFails PROVE GivenUpHadTrouble'
  BY <1>13 DEF SubmitFails, context, exchange, history, Unused, TypeOK, RequestsHaveSeen,
               GivenUpHadTrouble, Seen, Requests, Ids, Statuses
<1>14. ASSUME Execute PROVE GivenUpHadTrouble'
  <2>1. givenUp' = givenUp
    BY <1>14 DEF Execute, history
  <2>2. \A j \in Ids : chain[j].trouble => chain'[j].trouble
    BY <1>14 DEF Execute, Unused, TypeOK
  <2>3. QED
    BY <2>1, <2>2 DEF GivenUpHadTrouble, TypeOK
<1>15. ASSUME Answered PROVE GivenUpHadTrouble'
  BY <1>15 DEF Answered, exchange, history, TypeOK, RequestsHaveSeen, GivenUpHadTrouble, Seen,
               Requests, Ids, Statuses
<1>16. ASSUME AnswerLost PROVE GivenUpHadTrouble'
  BY <1>16 DEF AnswerLost, context, exchange, TypeOK, RequestsHaveSeen, GivenUpHadTrouble,
               Seen, Requests, Ids, Statuses
<1>17. ASSUME NoTrade PROVE GivenUpHadTrouble'
  BY <1>17 DEF NoTrade, context, exchange, history, TypeOK, RequestsHaveSeen,
               GivenUpHadTrouble, Seen, Requests, Ids, Statuses
<1>18. ASSUME Buy PROVE GivenUpHadTrouble'
  BY <1>18 DEF Buy, Fills, TypeOK, RequestsHaveSeen, GivenUpHadTrouble, Seen, Requests, Ids,
               Statuses
<1>19. ASSUME Sell PROVE GivenUpHadTrouble'
  BY <1>19 DEF Sell, Fills, TypeOK, RequestsHaveSeen, GivenUpHadTrouble, Seen, Requests, Ids,
               Statuses
<1>20. ASSUME Refused PROVE GivenUpHadTrouble'
  BY <1>20 DEF Refused, exchange, history, TypeOK, RequestsHaveSeen, GivenUpHadTrouble, Seen,
               Requests, Ids, Statuses
<1>21. ASSUME Rebalance PROVE GivenUpHadTrouble'
  BY <1>21 DEF Rebalance, context, exchange, history, TypeOK, RequestsHaveSeen,
               GivenUpHadTrouble, Seen, Requests, Ids, Statuses
<1>22. ASSUME Save PROVE GivenUpHadTrouble'
  BY <1>22 DEF Save, context, exchange, history, TypeOK, RequestsHaveSeen, GivenUpHadTrouble,
               Seen, Requests, Ids, Statuses
<1>23. ASSUME Crash PROVE GivenUpHadTrouble'
  BY <1>23 DEF Crash, exchange, TypeOK, RequestsHaveSeen, GivenUpHadTrouble, Seen, Requests,
               Ids, Statuses
<1>24. ASSUME NEW i \in Ids, Send(i) PROVE GivenUpHadTrouble'
  BY <1>24 DEF Send, history, task, context, TypeOK, RequestsHaveSeen, GivenUpHadTrouble,
               Seen, Requests, Ids, Statuses
<1>25. ASSUME NEW i \in Ids, WithdrawalCompletes(i) PROVE GivenUpHadTrouble'
  BY <1>25 DEF WithdrawalCompletes, history, task, context, TypeOK, RequestsHaveSeen,
               GivenUpHadTrouble, Seen, Requests, Ids, Statuses
<1>26. ASSUME NEW i \in Ids, NEW status \in {"held", "failed"}, WithdrawalInTrouble(i, status)
      PROVE  GivenUpHadTrouble'
  BY <1>26 DEF WithdrawalInTrouble, history, task, context, TypeOK, RequestsHaveSeen,
               GivenUpHadTrouble, Seen, Requests, Ids, Statuses
<1>27. ASSUME NEW i \in Ids, DepositAppears(i) PROVE GivenUpHadTrouble'
  BY <1>27 DEF DepositAppears, history, task, context, TypeOK, RequestsHaveSeen,
               GivenUpHadTrouble, Seen, Requests, Ids, Statuses
<1>28. ASSUME NEW i \in Ids, DepositCompletes(i) PROVE GivenUpHadTrouble'
  BY <1>28 DEF DepositCompletes, history, task, context, TypeOK, RequestsHaveSeen,
               GivenUpHadTrouble, Seen, Requests, Ids, Statuses
<1>29. ASSUME NEW i \in Ids, NEW status \in {"held", "failed"}, DepositInTrouble(i, status)
      PROVE  GivenUpHadTrouble'
  BY <1>29 DEF DepositInTrouble, history, task, context, TypeOK, RequestsHaveSeen,
               GivenUpHadTrouble, Seen, Requests, Ids, Statuses
<1>30. ASSUME UNCHANGED vars PROVE GivenUpHadTrouble'
  BY <1>30 DEF vars, context, exchange, history, TypeOK, RequestsHaveSeen, GivenUpHadTrouble,
               Seen, Requests, Ids, Statuses
<1>31. QED
  BY <1>1, <1>2, <1>3, <1>4, <1>5, <1>6, <1>7, <1>8, <1>9, <1>10, <1>11, <1>12, <1>13, <1>14,
     <1>15, <1>16, <1>17, <1>18, <1>19, <1>20, <1>21, <1>22, <1>23, <1>24, <1>25, <1>26,
     <1>27, <1>28, <1>29, <1>30
  DEF Next, Step, Fails, Monitor, Exchange

LEMMA InvStep ==
    ASSUME Inv, [Next]_vars
    PROVE  Inv'
<1>1. TypeOK /\ Phases /\ RequestsHaveSeen /\ TroubleIsNoted
  BY DEF Inv
<1>2. TransferIsTracked /\ GivenUpHadTrouble
  BY DEF Inv
<1>3. TypeOK' /\ Phases'
  BY <1>1, TypeStep, PhaseStep
<1>4. RequestsHaveSeen' /\ TroubleIsNoted'
  BY <1>1, SeenStep, TroubleStep
<1>5. TransferIsTracked' /\ GivenUpHadTrouble'
  BY <1>1, <1>2, TrackedStep, GivenUpStep
<1>6. QED
  BY <1>3, <1>4, <1>5 DEF Inv

LEMMA Invariance == Spec => []Inv
<1>1. Init => Inv
  BY InvInit
<1>2. Inv /\ [Next]_vars => Inv'
  BY InvStep
<1>3. QED
  BY <1>1, <1>2, PTL DEF Spec

-----------------------------------------------------------------------------
(* The theorems *)

\* The state is well typed, whatever the size of the position and the bounds;
\* in particular no more base is withdrawn than there is.
THEOREM TypeCorrect == Spec => []TypeOK
<1>1. Inv => TypeOK
  BY DEF Inv
<1>2. QED
  BY <1>1, Invariance, PTL

\* An executed withdrawal is in the context, and on disk after the step, until
\* it is credited or given up, but for a lost answer and for a crash in between.
THEOREM TransfersAreTracked == Spec => []TransferIsTracked
<1>1. Inv => TransferIsTracked
  BY DEF Inv
<1>2. QED
  BY <1>1, Invariance, PTL

\* No transfer is given up without trouble on an exchange.
THEOREM NoneIsGivenUpWithoutTrouble == Spec => []GivenUpHadTrouble
<1>1. Inv => GivenUpHadTrouble
  BY DEF Inv
<1>2. QED
  BY <1>1, Invariance, PTL

\* Whatever is credited was paid out and has arrived.
THEOREM OnlyArrivalsAreCredited == Spec => CreditedHasArrived
<1> DEFINE Arrival ==
        credited' # credited \/ (pc = "crediting" /\ pc' = "trading" /\ request'.id = 0)
          => /\ chain[request.id].withdrawal = "completed"
             /\ chain[request.id].deposit = "completed"
<1>1. ASSUME Inv, [Next]_vars
      PROVE  [Arrival]_vars
  <2>1. TypeOK /\ Phases /\ Seen(request)
    BY <1>1 DEF Inv, RequestsHaveSeen
  <2>2. ASSUME pc = "crediting"
        PROVE  /\ chain[request.id].withdrawal = "completed"
               /\ chain[request.id].deposit = "completed"
    BY <2>1, <2>2 DEF Phases, Seen, Completed, HasRequest
  <2>3. ASSUME credited' # credited
        PROVE  pc = "crediting"
    BY <1>1, <2>3 DEF Next, Step, Fails, Monitor, Exchange, vars, context, exchange, history, task,
         Start, Load, AskWithdrawal, AskDeposit, WaitForTransfer, HandleCompleted, Credit,
         CreditFails, GiveUp, NothingToTransfer, Initiate, Submit, SubmitFails, Execute, Answered,
         AnswerLost, NoTrade, Buy, Sell, Fills, Refused, Rebalance, Save, Crash, Send,
         WithdrawalCompletes, WithdrawalInTrouble, DepositAppears, DepositCompletes,
         DepositInTrouble
  <2>4. QED
    BY <2>2, <2>3
<1>2. QED
  BY <1>1, Invariance, PTL DEF Spec, CreditedHasArrived
=============================================================================
