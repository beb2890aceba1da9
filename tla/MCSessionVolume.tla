--------------------------- MODULE MCSessionVolume ---------------------------
(* SessionVolume on a session that is continued once.                       *)
EXTENDS SessionVolume
=============================================================================
