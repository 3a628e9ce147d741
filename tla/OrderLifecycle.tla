--------------------------- MODULE OrderLifecycle ---------------------------
(***************************************************************************)
(* The life of an order record (asceswap-state, lifecycle.rs): the states  *)
(* of OrderState and the transitions that OrderLifecycle::transition_to    *)
(* accepts.  Every other transition is refused with                        *)
(* InvalidOrderTransition and leaves the state alone.                      *)
(***************************************************************************)

OrderStates ==
    { "Received", "Validating", "Rejected", "Open", "PartiallyFilled",
      "Reserved", "Submitted", "Filled", "Expired", "SoftCancelled",
      "CancelPending", "Cancelled", "EpochInvalidated", "Inactive" }

\* Available for matching; the only states a reservation may lock.
AvailableStates == {"Open", "PartiallyFilled"}

\* Locked by a reservation: in the middle of an off-chain match.
LockedStates == {"Reserved", "Submitted"}

AllowedTransitions ==
    {<<"Received", "Validating">>}
        \cup ({"Validating"} \X {"Rejected", "Open", "Reserved", "Inactive"})
        \cup (AvailableStates \X
                {"Reserved", "Expired", "SoftCancelled", "CancelPending",
                 "Cancelled", "EpochInvalidated", "Inactive"})
        \cup (LockedStates \X {"Open", "PartiallyFilled", "Inactive"})
        \cup {<<"Open", "PartiallyFilled">>, <<"PartiallyFilled", "Filled">>,
              <<"Reserved", "Submitted">>, <<"Submitted", "Filled">>,
              <<"CancelPending", "Cancelled">>, <<"Inactive", "Open">>}

IsAllowedTransition(from, to) == <<from, to>> \in AllowedTransitions
=============================================================================
