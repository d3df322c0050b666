--------------------------- MODULE MCBatchClient ----------------------------
(* Values for the constants of BatchClient; the bounds are in the           *)
(* configurations.                                                          *)
EXTENDS BatchClient
=============================================================================
