---------------------------- MODULE MCPublication ----------------------------
(* Publication with two requests and two intents.                           *)
EXTENDS Publication

CONSTANTS p1, p2, i1, i2
=============================================================================
