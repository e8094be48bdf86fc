------------------------------ MODULE MCJobLoops ------------------------------
(* Two chips with a FIFO of two jobs, job ids of five values, one or four   *)
(* works and two failed transfers.                                          *)
EXTENDS JobLoops
=============================================================================
