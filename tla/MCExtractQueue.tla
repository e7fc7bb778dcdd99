--------------------------- MODULE MCExtractQueue ---------------------------
(* An instance of ExtractQueue for TLC. *)
EXTENDS ExtractQueue

CONSTANTS a1, a2, r1, r2
=============================================================================
