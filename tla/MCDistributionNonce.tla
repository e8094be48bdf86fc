-------------------------- MODULE MCDistributionNonce --------------------------
(***************************************************************************)
(* Three chips of up to three cores over 12 nonces: shares that divide      *)
(* evenly, left-over nonces, chips without cores and a range that ends at   *)
(* the last nonce there is, where uint32_t wraps.                           *)
(***************************************************************************)
EXTENDS DistributionNonce
=============================================================================
