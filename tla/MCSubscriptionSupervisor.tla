---------------------- MODULE MCSubscriptionSupervisor ----------------------
(* TLC instance of SubscriptionSupervisor. *)
EXTENDS SubscriptionSupervisor
=============================================================================
