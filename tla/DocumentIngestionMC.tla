------------------------- MODULE DocumentIngestionMC -------------------------
(* A text of three chunks, for a full batch and a rest, and one of a single chunk. *)
EXTENDS DocumentIngestion, TLC

CONSTANTS long, short
Texts == {long, short}
Chunked == (long :> 3) @@ (short :> 1)
=============================================================================
