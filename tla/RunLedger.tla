------------------------------ MODULE RunLedger ------------------------------
(***************************************************************************)
(* What the durable row of a workflow run promises to a client that polls  *)
(* it: which changes it can ever go through.  There is no reconciler, no   *)
(* mutex and no session here; WorkflowControl implements this ledger by    *)
(* the row it writes.                                                      *)
(***************************************************************************)
EXTENDS Integers, FiniteSets

CONSTANTS NumSteps, Definitions, NoDefinition, Graph

VARIABLE run

Steps      == 1..NumSteps
Failures   == {"blocked", "failed", "canceled", "skipped"}
Unfinished == {"pending", "starting", "running"}
Terminal   == {"completed", "blocked", "failed", "canceled"}
Rules      == Graph[run.definition]
Some(step, states) == \E s \in Steps : step[s] \in states

Absent == [state |-> "none", cancel |-> FALSE, definition |-> NoDefinition,
           step |-> [s \in Steps |-> "pending"], cleaned |-> {}]

Init == run = Absent

Open ==
  /\ run.state = "none"
  /\ \E d \in Definitions : run' = [Absent EXCEPT !.state = "pending", !.definition = d]

\* A step advances, and what is over stays as it is.
Advances(from, to) ==
  \/ from = to
  \/ from = "pending" /\ to \in {"starting", "skipped"}
  \/ from = "starting" /\ to \in {"running", "completed", "blocked", "failed"}
  \/ from = "running" /\ to \in {"completed", "blocked", "failed"}

Verdict(step) ==
  IF Some(step, Unfinished) THEN "running"
  ELSE IF Some(step, {"failed"}) THEN "failed"
  ELSE IF Some(step, {"blocked"}) THEN "blocked"
  ELSE IF Some(step, {"canceled"}) THEN "canceled" ELSE "completed"

\* While nobody has asked to cancel: steps start after all their dependencies
\* and within the limit, are skipped after a failed one, and the run's state is
\* the verdict on its steps.
Progress ==
  LET new == run'.step IN
  /\ run.state \in {"pending", "running"} /\ ~run.cancel
  /\ \A s \in Steps :
       /\ Advances(run.step[s], new[s])
       /\ run.step[s] = "pending" /\ new[s] = "starting" =>
            \A d \in Rules.after[s] : new[d] = "completed"
       /\ run.step[s] = "pending" /\ new[s] = "skipped" =>
            \E d \in Rules.after[s] : new[d] \in Failures
  /\ Cardinality({s \in Steps : new[s] \in {"starting", "running"}}) <= Rules.parallelism
  /\ run' = [run EXCEPT !.step = new, !.state = Verdict(new)]

\* A run that is being deleted can still be marked, to no effect.
RequestCancel ==
  /\ run.state \in {"pending", "running", "deleting"}
  /\ run' = [run EXCEPT !.cancel = TRUE]

\* A requested cancellation ends the run; results that exist stand.
Cancel ==
  /\ run.state \in {"pending", "running"} /\ run.cancel
  /\ run' = [run EXCEPT !.state = "canceled",
                        !.step = [s \in Steps |-> IF run.step[s] \in Unfinished THEN "canceled"
                                                  ELSE run.step[s]]]

\* Completed steps are cleaned up, except the publishable one.
Clean ==
  /\ run.state \notin {"none", "deleting"}
  /\ run.cleaned \subseteq run'.cleaned
  /\ \A s \in run'.cleaned : run.step[s] = "completed" /\ s # Rules.publishable
  /\ run' = [run EXCEPT !.cleaned = run'.cleaned]

\* Only a run that is over is deleted.
BeginDeletion == run.state \in Terminal /\ run' = [run EXCEPT !.state = "deleting"]
Remove        == run.state = "deleting" /\ run' = Absent

Next == Open \/ Progress \/ RequestCancel \/ Cancel \/ Clean \/ BeginDeletion \/ Remove

Spec == Init /\ [][Next]_run
=============================================================================
