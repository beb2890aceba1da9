--------------------------- MODULE SessionService ----------------------------
(***************************************************************************)
(* What the session controller promises its callers about one session: it  *)
(* only ever takes the steps of SessionRules.  There are no requests, rows,*)
(* Jobs or faults here.  SessionControl implements this machine; the steps *)
(* are those by which WorkflowControl lets the sessions of a run change.   *)
(***************************************************************************)
EXTENDS SessionRules

VARIABLES
  session,   \* the latest task and the pending deletion
  ephemeral  \* the session has no storage of its own

Init == session = NoSession /\ ephemeral \in BOOLEAN

\* A session keeps its kind for as long as it exists.
Next ==
  /\ session' \in Sessions /\ Becomes(session, session', IF session = NoSession THEN ephemeral' ELSE ephemeral)
  /\ ephemeral' \in BOOLEAN
  /\ session # NoSession /\ session' # NoSession => ephemeral' = ephemeral

Spec == Init /\ [][Next]_<<session, ephemeral>>
=============================================================================
