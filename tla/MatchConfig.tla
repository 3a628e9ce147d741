---------------------------- MODULE MatchConfig -----------------------------
(***************************************************************************)
(* What the engine and its matcher are configured with (asceswap-matcher,  *)
(* MatchConfig).                                                           *)
(***************************************************************************)
EXTENDS Integers

CONSTANT MaxMakerOrders     \* MatchConfig::max_maker_orders

\* CONTRACT_MAX_MAKER_ORDERS, and no configuration of zero makers.
ASSUME MakersAssumption == MaxMakerOrders \in 1..32
=============================================================================
