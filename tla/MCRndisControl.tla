--------------------------- MODULE MCRndisControl ---------------------------
(* The control channel for TLC. *)
EXTENDS RndisControl
=============================================================================
