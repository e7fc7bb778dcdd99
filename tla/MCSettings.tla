----------------------------- MODULE MCSettings -----------------------------
(* An instance of Settings for TLC. *)
EXTENDS Settings

CONSTANTS v0, v1
=============================================================================
