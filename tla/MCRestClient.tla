---------------------------- MODULE MCRestClient ----------------------------
(***************************************************************************)
(* RestClient for TLC: an order and a query on a listed endpoint with one  *)
(* permit, and a call of an endpoint that is not listed, compete for two   *)
(* global permits.                                                         *)
(***************************************************************************)
EXTENDS RestClient

CONSTANTS order, query, ticker, orders, tickers

MCCalls      == {order, query, ticker}
MCEndpointOf == [c \in MCCalls |-> IF c = ticker THEN tickers ELSE orders]
=============================================================================
