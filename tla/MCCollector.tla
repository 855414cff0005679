---------------------------- MODULE MCCollector ----------------------------
(***************************************************************************)
(* Collector for TLC: one symbol on two exchanges.  The trades of mexc     *)
(* have no identifier and share a millisecond; the one of gate has one.    *)
(***************************************************************************)
EXTENDS Collector, TLC

CONSTANTS quote, echo, deal, twin, trade, rate, mexc, gate, symbol

MCMarketOf == [r \in {quote, deal, twin} |-> mexc] @@ [r \in {echo, trade, rate} |-> gate]
MCSymbolOf == [m \in {mexc, gate} |-> symbol]
MCPriceOf  == [q \in {quote, echo} |-> 1]
MCStampOf  == [t \in {deal, twin, trade} |-> 1]
=============================================================================
