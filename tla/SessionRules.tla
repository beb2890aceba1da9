---------------------------- MODULE SessionRules -----------------------------
(***************************************************************************)
(* A session as a caller of the session controller sees it: the state of   *)
(* its latest task and the deletion that is pending, and what these can    *)
(* become in one step.  SessionService is the machine that takes these     *)
(* steps; SessionControl implements it and WorkflowControl relies on it.   *)
(***************************************************************************)

\* "recorded" and "readded" are the initial and a later task that is in SQL
\* and has no Job yet; "active" and "again" are the same tasks with one.
\* "continued" is the completion of a later task.
TaskUnlaunched == {"recorded", "readded"}
TaskActive     == {"active", "again"}
TaskResults    == {"completed", "continued", "blocked", "failed"}
TaskOver       == TaskResults \cup {"canceled"}
TaskStates     == {"none"} \cup TaskUnlaunched \cup TaskActive \cup TaskOver
Deletions      == {"compute", "storage"}

Sessions  == [task : TaskStates, deletion : {"none"} \cup Deletions]
NoSession == [task |-> "none", deletion |-> "none"]

-----------------------------------------------------------------------------
(* What a session s can become in one step.                                *)

\* The state of the latest task, by where it was.  A task that has no Job does
\* not end, and one that is over stays so until another one is added.
TaskMoves ==
  ({"recorded"} \X {"active"}) \cup ({"readded"} \X {"again"})
  \cup ({"active"} \X {"completed", "blocked", "failed"})
  \cup ({"again"}  \X {"continued", "blocked", "failed"})

Records(s, t) == s = NoSession /\ t = [s EXCEPT !.task = "recorded"]
Moves(s, t)    == <<s.task, t.task>> \in TaskMoves /\ t.deletion = s.deletion
Readds(s, t)  == s.task \in TaskOver /\ s.deletion = "none" /\ t = [s EXCEPT !.task = "readded"]
Marks(s, t)   == s.task # "none" /\ s.deletion = "none" /\ t.deletion # "none" /\ t.task = s.task
Cancels(s, t) == s.task \in TaskActive /\ s.deletion # "none" /\ t = [s EXCEPT !.task = "canceled"]

\* The end of a deletion: a destroyed or ephemeral session is gone.
Finishes(s, t, ephemeral) ==
  /\ s.task \in TaskOver /\ s.deletion # "none"
  /\ t = IF ephemeral \/ s.deletion = "storage" THEN NoSession ELSE [s EXCEPT !.deletion = "none"]

Becomes(s, t, ephemeral) ==
  \/ Records(s, t) \/ Moves(s, t) \/ Marks(s, t) \/ Cancels(s, t)
  \/ Readds(s, t) /\ ~ephemeral
  \/ Finishes(s, t, ephemeral)
=============================================================================
