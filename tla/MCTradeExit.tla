---------------------------- MODULE MCTradeExit -----------------------------
(***************************************************************************)
(* TLC model of TradeExit: the leader and a second instance, a position of *)
(* two units so that protective orders can fill in parts.                  *)
(***************************************************************************)
EXTENDS TradeExit
=============================================================================
