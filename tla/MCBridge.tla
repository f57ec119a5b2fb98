------------------------------ MODULE MCBridge ------------------------------
(* Bridge with the two units a session needs: a session that has one can     *)
(* find the other taken, and may give one back while it still has the other. *)
EXTENDS Bridge

CONSTANTS u1, u2

MCNames == {u1, u2}
=============================================================================
