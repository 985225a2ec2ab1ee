---------------------------- MODULE MCRateLimits ----------------------------
(***************************************************************************)
(* Instances of RateLimits for TLC.                                        *)
(***************************************************************************)
EXTENDS RateLimits
=============================================================================
