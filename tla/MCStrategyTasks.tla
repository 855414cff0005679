-------------------------- MODULE MCStrategyTasks --------------------------
(***************************************************************************)
(* StrategyTasks for TLC: two tasks of different types on one symbol; the  *)
(* type of one is known to recovery.                                       *)
(***************************************************************************)
EXTENDS StrategyTasks

CONSTANTS known, unknown, symbol

MCTasks    == {known, unknown}
MCSymbolOf == [t \in MCTasks |-> symbol]

\* The file of the other task is never read again.
MCMaxVersion == [t \in MCTasks |-> IF t = known THEN 2 ELSE 1]
=============================================================================
