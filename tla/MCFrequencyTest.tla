--------------------------- MODULE MCFrequencyTest ---------------------------
(* Two chips, FIFOs of two jobs; one chip finds golden nonces, and one      *)
(* READ_RESULT of a session may fail.                                         *)
EXTENDS FrequencyTest
=============================================================================
