--------------------------- MODULE OrderValidation --------------------------
(***************************************************************************)
(* validate_order (asceswap-validation, validator.rs): may this signed     *)
(* order be used, given what the caller says about the world?  The context *)
(* comes with the request: the caller supplies the current time, the       *)
(* amount already filled on chain, the cancellation flag and the maker's   *)
(* epoch.                                                                  *)
(***************************************************************************)
EXTENDS OrderMath

CONSTANT None       \* an absent Option

ASSUME NoneAssumption == None \notin Nat /\ None \notin Orders

SignatureChecks == {"Unchecked", "Valid", "Invalid"}

ContextType ==
    [expectedHash : Orders \cup {None}, filled : Nat, cancelled : BOOLEAN,
     makerEpoch : Nat, now : Nat, feeRate : Nat,
     signature : SignatureChecks, requireSignature : BOOLEAN]

MaxExchangeFeeRate == 1000

\* As validate_order and the matcher's filter both test it.
OrderExpired(o, now) ==
    Terms[o].expiration # 0 /\ now > Terms[o].expiration

\* An accepted order has something left to fill: RemainingClaim > 0 is both
\* the Overfill and the NoRemainingClaim check.
Accepts(o, context) ==
    /\ ValidBasic(o)
    /\ context.expectedHash \in {o, None}
    /\ ~OrderExpired(o, context.now)
    /\ ~context.cancelled
    /\ Terms[o].epoch = context.makerEpoch
    /\ context.feeRate <= MaxExchangeFeeRate
    /\ context.feeRate <= Terms[o].maxFeeRate
    /\ RemainingClaim(o, context.filled) > 0
    /\ context.signature # "Invalid"
    /\ context.requireSignature => context.signature = "Valid"
=============================================================================
