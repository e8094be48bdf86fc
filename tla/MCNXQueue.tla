------------------------------ MODULE MCNXQueue ------------------------------
(* Two threads and three elements, on rings of none, one and three slots,   *)
(* and on one asked for with more slots than there are.                     *)
EXTENDS NXQueue
=============================================================================
