----------------------------- MODULE MCEnableChip -----------------------------
(***************************************************************************)
(* Two chips, one failing transfer, and enough jobs and enable commands to  *)
(* run a chip dry, to enable it again with jobs left and to fill its FIFO.  *)
(***************************************************************************)
EXTENDS EnableChip
=============================================================================
