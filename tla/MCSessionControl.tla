-------------------------- MODULE MCSessionControl --------------------------
(* SessionControl on two handlers, a persistent and an ephemeral intent.    *)
EXTENDS SessionControl, TLC

CONSTANTS h1, h2, persistent, ephemeral

MCHandlers == {h1, h2}
MCIntents == {persistent, ephemeral}
MCPersistent == {persistent}
Symmetry == Permutations(MCHandlers)
=============================================================================
