------------------------------ MODULE MCKeeper ------------------------------
(***************************************************************************)
(* The keeper with three targets, of which the second one ends, any of     *)
(* them broken.                                                            *)
(***************************************************************************)
EXTENDS Keeper

MCEndOf == <<None, 2, None>>
=============================================================================
