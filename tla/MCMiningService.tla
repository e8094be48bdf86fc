---------------------------- MODULE MCMiningService ----------------------------
(***************************************************************************)
(* Two services, so that a new one meets the threads of an old one, and one *)
(* failing call.                                                            *)
(***************************************************************************)
EXTENDS MiningService
=============================================================================
