---------------------------- MODULE AtLeastOnce ----------------------------
(***************************************************************************)
(* What the REST client promises the caller of a request that changes the  *)
(* exchange's state: a call that succeeds took effect, no call takes       *)
(* effect more often than it can be sent, and an error says nothing: the   *)
(* request may have taken effect, also after the error was raised.         *)
(***************************************************************************)
EXTENDS Naturals

CONSTANTS
    Placements, \* the requests that change the exchange's state
    MaxEffects  \* how often one call can be sent

VARIABLES
    result,     \* what the call returned: none while it runs
    executed    \* how often the exchange has executed it

vars == <<result, executed>>

Init ==
    /\ result = [p \in Placements |-> "none"]
    /\ executed = [p \in Placements |-> 0]

Execute(p) ==
    /\ executed[p] < MaxEffects
    /\ executed' = [executed EXCEPT ![p] = @ + 1]
    /\ UNCHANGED result

Succeed(p) ==
    /\ result[p] = "none"
    /\ result' = [result EXCEPT ![p] = "ok"]
    /\ executed[p] < MaxEffects
    /\ executed' = [executed EXCEPT ![p] = @ + 1]

Fail(p) ==
    /\ result[p] = "none"
    /\ result' = [result EXCEPT ![p] = "error"]
    /\ UNCHANGED executed

Next == \E p \in Placements : Execute(p) \/ Succeed(p) \/ Fail(p)

Spec == Init /\ [][Next]_vars
=============================================================================
