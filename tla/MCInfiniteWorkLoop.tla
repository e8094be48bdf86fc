-------------------------- MODULE MCInfiniteWorkLoop --------------------------
(* The instance of InfiniteWorkLoop that TLC checks. *)
EXTENDS InfiniteWorkLoop
=============================================================================
