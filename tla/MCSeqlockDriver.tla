--------------------------- MODULE MCSeqlockDriver ---------------------------
(* A sequence number of two bits, so that it goes full circle under a read. *)
EXTENDS SeqlockDriver
=============================================================================
