------------------------------ MODULE MCBringup ------------------------------
(* Boards of up to three chips with two cores each, one failed transfer or   *)
(* late BIST, and two tests in a row of those that are repeated.           *)
EXTENDS Bringup
=============================================================================
