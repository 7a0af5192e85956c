-------------------------- MODULE MCProfileService --------------------------
(***************************************************************************)
(* TLC instance of ProfileService: two requests that overlap, one import,  *)
(* two relays, an account that is started twice.                           *)
(***************************************************************************)
EXTENDS ProfileService
=============================================================================
