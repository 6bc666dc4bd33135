---------------------------- MODULE MCLifecycle ----------------------------
(* Values of the constants of RequestLifecycle for model checking.          *)
EXTENDS RequestLifecycle

\* One gate on intake and one on promotion, as an administrator would set them.
MCGates == {<<"validated", Intake>>, <<"promotion_pending", Freshness>>}
NoGates == {}

\* Sessions are assigned anywhere but on top of another one's awaiting_input.
AnywhereButAwaitingInput == RequestStatus \ {"awaiting_input"}
Nowhere == {}
==============================================================================
