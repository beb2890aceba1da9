--------------------------- MODULE WorkflowControl ---------------------------
(***************************************************************************)
(* The workflow controller of dyne: internal/workflow/control.go and its   *)
(* SQL repository (internal/storage/workflow.go).                          *)
(*                                                                         *)
(* One run name is modelled.  Its clients (Start, Cancel, Delete) and the  *)
(* reconciler take the controller's mutex, read the run's row, and make    *)
(* one call per step to the repository or to the session controller; the   *)
(* local copy of the run that they carry from call to call is explicit.    *)
(*                                                                         *)
(* A step's session is what SessionControl lets a caller see of it: one    *)
(* operation is one step here, with every outcome it can have, the partial *)
(* ones included.  A task ends on its own at any time; that the session's  *)
(* rows learn of it when they are next read makes no difference to callers.*)
(*                                                                         *)
(* Abstracted: the prompts, outputs and change metadata of a step (it has  *)
(* a result or not), and names: steps are numbered in the order of their   *)
(* names, in which the code visits them.                                   *)
(***************************************************************************)
EXTENDS Integers, FiniteSets, SessionRules, WorkflowRules

CONSTANTS
  NumSteps,     \* steps of a workflow, numbered in name order
  Definitions,  \* the configured workflows, each with its request inputs
  NoDefinition,
  Graph,        \* what each definition says
  Clients,      \* concurrent HTTP request handlers
  Reconciler,   \* the goroutine that runs ReconcileAll every two seconds
  Free,         \* the mutex's owner when nobody holds it
  MaxFaults,    \* bound: failed calls, lost replies and crashes
  MaxMeddling   \* bound: requests that clients make for a step's own session

Steps == 1..NumSteps
Procs == Clients \cup {Reconciler}

\* Definitions are those that WorkflowCatalog accepts.
ASSUME WorkflowAssumption ==
  /\ NumSteps \in Nat \ {0}
  /\ NoDefinition \notin Definitions
  /\ NoStep \notin Steps
  /\ \A d \in Definitions : WellFormed(Steps, Graph[d])
  /\ Reconciler \notin Clients
  /\ Free \notin Procs
  /\ MaxFaults \in Nat /\ MaxMeddling \in Nat

VARIABLES
  run,      \* SQL row of the run
  sessions, \* its steps' sessions: the latest task and the pending deletion
  lock,     \* holder of the controller's mutex, or Free
  server,   \* "up" or "down"
  proc,     \* volatile state of every handler and of the reconciler
  faults,   \* faults so far
  meddling  \* requests for a step's own session so far

environment == <<lock, server, proc, faults, meddling>>
vars == <<run, sessions, environment>>

-----------------------------------------------------------------------------
(* Runs and their rows *)

StepActive     == {"starting", "running"}
StepFailures   == {"blocked", "failed", "canceled", "skipped"}
StepTerminal   == StepFailures \cup {"completed"}
StepStates     == {"pending"} \cup StepActive \cup StepTerminal
TerminalStates == {"completed", "blocked", "failed", "canceled"}
RunStates      == {"none", "pending", "running", "deleting"} \cup TerminalStates

NoRun == [state |-> "none", cancel |-> FALSE, definition |-> NoDefinition,
          step |-> [s \in Steps |-> "pending"], cleaned |-> {}]
Runs  == [state : RunStates, cancel : BOOLEAN, definition : Definitions \cup {NoDefinition},
          step : [Steps -> StepStates], cleaned : SUBSET Steps]

Terminal(row)     == row.state \in TerminalStates
Rules(row)        == Graph[row.definition]
Publishable(row)  == Rules(row).publishable
Among(row, states) == {s \in Steps : row.step[s] \in states}

\* Mutant of Uncleaned: a step that still runs is cleaned up too.
UncleanedEarly(row) ==
  {s \in Among(row, {"running", "completed"}) : s # Publishable(row) /\ s \notin row.cleaned}

\* needsCleanup, step by step.
Uncleaned(row) ==
  {s \in Among(row, {"completed"}) : s # Publishable(row) /\ s \notin row.cleaned}

\* The first of some steps in name order.
First(steps) == CHOOSE s \in steps : \A t \in steps : s <= t

-----------------------------------------------------------------------------
(* Scheduling: what scheduleReadySteps and deriveRunState make of a run.   *)

\* Mutant of Decision: a dependency that has not completed skips the step.
DecisionSkipsEarly(row, new, s) ==
  LET after == Rules(row).after[s] IN
  IF row.step[s] # "pending" THEN row.step[s]
  ELSE IF \E d \in after : row.step[d] # "completed" THEN "skipped" ELSE "starting"

\* Mutant of Decision: the limit counts the steps of this pass only.
DecisionForgetsRunning(row, new, s) ==
  LET soFar(t) == IF t < s THEN new[t] ELSE row.step[t]
      after    == Rules(row).after[s]
      begun    == {t \in Steps : t < s /\ new[t] = "starting" /\ row.step[t] = "pending"}
  IN  IF row.step[s] # "pending" THEN row.step[s]
      ELSE IF \E d \in after : soFar(d) \in StepFailures THEN "skipped"
      ELSE IF (\A d \in after : soFar(d) = "completed") /\ Cardinality(begun) < Rules(row).parallelism
           THEN "starting"
           ELSE "pending"

\* The decision about step s, once the steps before it in name order have
\* their new state: a failed dependency skips it, completed ones and a free
\* place start it.
Decision(row, new, s) ==
  LET soFar(t) == IF t < s THEN new[t] ELSE row.step[t]
      after    == Rules(row).after[s]
      begun    == {t \in Steps : t < s /\ new[t] = "starting" /\ row.step[t] = "pending"}
      active   == Cardinality(Among(row, StepActive)) + Cardinality(begun)
  IN  IF row.step[s] # "pending" THEN row.step[s]
      ELSE IF \E d \in after : soFar(d) \in StepFailures THEN "skipped"
      ELSE IF (\A d \in after : soFar(d) = "completed") /\ active < Rules(row).parallelism
           THEN "starting"
           ELSE "pending"

\* What one pass over the steps can make of them: pending ones begin, are
\* skipped, or stay pending.
Passes(row) ==
  {[s \in Steps |-> IF row.step[s] = "pending" THEN fate[s] ELSE row.step[s]] :
     fate \in [Among(row, {"pending"}) -> {"pending", "starting", "skipped"}]}

\* What it does make of them.  The set has one element: every decision depends
\* on earlier steps only.
Schedule(row) == {new \in Passes(row) : \A s \in Steps : new[s] = Decision(row, new, s)}

\* Mutant of Derived: the last step's state is the run's.
DerivedFromLast(row) ==
  IF Among(row, {"pending"} \cup StepActive) # {} THEN "running" ELSE row.step[NumSteps]

\* deriveRunState: running while a step is not over, then the worst result.
Derived(row) ==
  IF Among(row, {"pending"} \cup StepActive) # {} THEN "running"
  ELSE IF Among(row, {"failed"}) # {} THEN "failed"
  ELSE IF Among(row, {"blocked"}) # {} THEN "blocked"
  ELSE IF Among(row, {"canceled"}) # {} THEN "canceled"
  ELSE "completed"

-----------------------------------------------------------------------------
(* Sessions, as SessionRules lets a caller see them, and what the calls of *)
(* the session controller make of them.                                    *)

Ephemeral(row, s) == s \in Rules(row).ephemeral

\* Mutant of Started: starting a session runs its task again.
StartedAgain(session) == [session EXCEPT !.task = "active"]

\* session.Start: a new session's row, then its Job.  When it fails, either or
\* both may exist; starting a session again launches it unless it is over.
Started(session) ==
  [session EXCEPT !.task = IF @ \in {"none", "recorded"} THEN "active"
                           ELSE IF @ = "readded" THEN "again" ELSE @]
StartFailed(session) ==
  {session, Started(session)}
    \cup (IF session.task = "none" THEN {[session EXCEPT !.task = "recorded"]} ELSE {})

\* session.Delete and session.Destroy.  A pending deletion of the other kind
\* refuses; a task without a Job cannot be observed, which fails the deletion
\* once it is marked; what else fails leaves some prefix of mark, cancellation
\* and completion behind.
Refuses(session, kind)  == session.deletion \notin {"none", kind}
Marked(session, kind)   == [session EXCEPT !.deletion = kind]
Canceled(session, kind) ==
  [task |-> IF session.task \in TaskActive THEN "canceled" ELSE session.task, deletion |-> kind]
Deleted(session, kind, ephemeral) ==
  IF kind = "storage" \/ ephemeral THEN NoSession ELSE [Canceled(session, kind) EXCEPT !.deletion = "none"]

DeleteSucceeds(session, kind) == session.task \notin TaskUnlaunched /\ ~Refuses(session, kind)
DeleteFailed(session, kind, ephemeral) ==
  IF session.task = "none" \/ Refuses(session, kind) THEN {session}
  ELSE IF session.task \in TaskUnlaunched THEN {session, Marked(session, kind)}
  ELSE {session, Marked(session, kind), Canceled(session, kind), Deleted(session, kind, ephemeral)}

-----------------------------------------------------------------------------
(* Processes: the operation, the place of the next call, the local copy of *)
(* the run, the row it was read from, the steps still to visit, and        *)
(* whether the copy has changed.                                           *)

Calls      == {"load", "create", "start", "status", "artifacts", "cancel", "save", "clean",
               "savecleaned", "savecancel", "savedeleting", "destroy", "remove"}
Operations == {"start", "cancel", "delete", "reconcile"}
Idle   == [pc |-> "idle", op |-> "none", definition |-> NoDefinition, copy |-> NoRun,
           base |-> NoRun, todo |-> {}, changed |-> FALSE]
Locals == [pc : Calls \cup {"idle", "lock"}, op : Operations \cup {"none"},
           definition : Definitions \cup {NoDefinition}, copy : Runs, base : Runs,
           todo : SUBSET Steps, changed : BOOLEAN]

At(p, place)    == proc[p].pc = place
Goto(p, place)  == [proc[p] EXCEPT !.pc = place]
Step(p, local)  == proc' = [proc EXCEPT ![p] = local] /\ UNCHANGED lock

\* Return: the deferred unlock runs and the copy is gone.
Done(p) ==
  /\ proc' = [proc EXCEPT ![p] = Idle]
  /\ lock' = IF lock = p THEN Free ELSE lock

Fault == faults < MaxFaults /\ faults' = faults + 1
Reply(p, local) == (Step(p, local) /\ UNCHANGED faults) \/ (Fault /\ Done(p))
ReplyLast(p)    == Done(p) /\ (UNCHANGED faults \/ Fault)

\* Where the reconciler goes next.
CleanNext(local) ==
  IF Uncleaned(local.copy) # {} THEN [local EXCEPT !.pc = "clean"]
  ELSE IF local.changed THEN [local EXCEPT !.pc = "savecleaned"] ELSE Idle
CancelNext(local) ==
  IF Among(local.copy, StepActive) # {} THEN [local EXCEPT !.pc = "cancel"]
  ELSE [local EXCEPT !.pc = "savecancel"]

Go(p, local) == IF local = Idle THEN Done(p) ELSE Step(p, local)

\* Every step visited: schedule, derive, and save if anything changed.
Conclude(p, local) ==
  \E new \in Schedule(local.copy) :
    LET scheduled == [local.copy EXCEPT !.step = new]
        derived   == [scheduled EXCEPT !.state = Derived(scheduled)]
    IN  IF local.changed \/ new # local.copy.step
        THEN Step(p, [local EXCEPT !.pc = "save", !.copy = derived, !.changed = FALSE])
        ELSE Done(p)

\* observeRunningSteps visits the running steps of the copy in name order.
Observe(p, local, todo) ==
  IF todo # {} THEN Step(p, [local EXCEPT !.pc = "status", !.todo = todo]) ELSE Conclude(p, local)

\* startPersistedSteps visits the starting steps before that.
StartOrObserve(p, local) ==
  IF Among(local.copy, {"starting"}) # {} THEN Step(p, [local EXCEPT !.pc = "start"])
  ELSE Observe(p, local, Among(local.copy, {"running"}))

-----------------------------------------------------------------------------
Init ==
  /\ run = NoRun
  /\ sessions = [s \in Steps |-> NoSession]
  /\ lock = Free
  /\ server = "up"
  /\ proc = [p \in Procs |-> Idle]
  /\ faults = 0 /\ meddling = 0

\* A client asks for an operation; ReconcileAll asks for the run's
\* reconciliation unless the row it lists says there is nothing to do.
Request(c, op, definition) ==
  /\ server = "up" /\ At(c, "idle")
  /\ definition \in Definitions <=> op = "start"
  /\ proc' = [proc EXCEPT ![c] = [Idle EXCEPT !.pc = "lock", !.op = op, !.definition = definition]]
  /\ UNCHANGED <<run, sessions, lock, server, faults, meddling>>

\* Mutant of Tick: a run that is over is never visited again.
TickUnfinishedOnly ==
  /\ server = "up" /\ At(Reconciler, "idle")
  /\ run.state \in {"pending", "running"}
  /\ proc' = [proc EXCEPT ![Reconciler] = [Idle EXCEPT !.pc = "lock", !.op = "reconcile"]]
  /\ UNCHANGED <<run, sessions, lock, server, faults, meddling>>

Tick ==
  /\ server = "up" /\ At(Reconciler, "idle")
  /\ run.state \notin {"none", "deleting"}
  /\ Terminal(run) => Uncleaned(run) # {}
  /\ proc' = [proc EXCEPT ![Reconciler] = [Idle EXCEPT !.pc = "lock", !.op = "reconcile"]]
  /\ UNCHANGED <<run, sessions, lock, server, faults, meddling>>

\* Mutant of Acquire: an operation that does not wait for the mutex.
AcquireUnlocked(p) ==
  /\ At(p, "lock")
  /\ lock' = p
  /\ proc' = [proc EXCEPT ![p] = Goto(p, "load")]
  /\ UNCHANGED <<run, sessions, server, faults, meddling>>

Acquire(p) ==
  /\ At(p, "lock") /\ lock = Free
  /\ lock' = p
  /\ proc' = [proc EXCEPT ![p] = Goto(p, "load")]
  /\ UNCHANGED <<run, sessions, server, faults, meddling>>

-----------------------------------------------------------------------------
(* Every operation first reads the row. *)

\* Start: an existing run is returned or conflicts; Cancel: a run that is over
\* stays as it is; Delete: only a run that is over, or one whose deletion has
\* begun; Reconcile: by the state of the run.
LoadStart(p, read) ==
  IF run.state = "none" THEN Step(p, [read EXCEPT !.pc = "create"]) ELSE Done(p)
LoadCancel(p, read) ==
  IF run.state = "none" \/ Terminal(run) THEN Done(p)
  ELSE Step(p, [read EXCEPT !.pc = "save", !.copy.cancel = TRUE])
LoadDelete(p, read) ==
  IF Terminal(run) THEN Step(p, [read EXCEPT !.pc = "savedeleting", !.copy.state = "deleting"])
  ELSE IF run.state = "deleting" THEN Step(p, [read EXCEPT !.pc = "destroy", !.todo = Steps])
  ELSE Done(p)
LoadReconcile(p, read) ==
  IF run.state \in {"none", "deleting"} THEN Done(p)
  ELSE IF Terminal(run) THEN Go(p, CleanNext(read))
  ELSE IF run.cancel THEN Step(p, CancelNext(read))
  ELSE StartOrObserve(p, read)

Load(p) ==
  /\ At(p, "load")
  /\ LET read == [proc[p] EXCEPT !.copy = run, !.base = run]
     IN  \/ read.op = "start"     /\ LoadStart(p, read)
         \/ read.op = "cancel"    /\ LoadCancel(p, read)
         \/ read.op = "delete"    /\ LoadDelete(p, read)
         \/ read.op = "reconcile" /\ LoadReconcile(p, read)
  /\ UNCHANGED <<run, sessions, server, faults, meddling>>

\* Create inserts the run and the snapshots of its agents in one transaction.
Create(c) ==
  /\ At(c, "create")
  /\ run' = IF run.state = "none"
            THEN [NoRun EXCEPT !.state = "pending", !.definition = proc[c].definition]
            ELSE run
  /\ ReplyLast(c)
  /\ UNCHANGED <<sessions, server, meddling>>

\* Update writes the copy when the row is still the one that was read: its
\* version counts the updates since.  What follows a conflict is left out: it
\* needs a second server (see SavesAreCurrent).
Update(p, copy, local) ==
  /\ \/ run = proc[p].base /\ run' = copy /\ Go(p, local) /\ UNCHANGED faults
     \/ run = proc[p].base /\ run' = copy /\ Fault /\ Done(p)
     \/ run # proc[p].base /\ Done(p) /\ UNCHANGED <<run, faults>>
  /\ UNCHANGED <<sessions, server, meddling>>

\* Cancel's request is all it writes; the reconciler goes on to clean up.
Save(p) ==
  /\ At(p, "save")
  /\ LET saved == [proc[p] EXCEPT !.base = proc[p].copy, !.changed = FALSE]
     IN  Update(p, proc[p].copy, IF proc[p].op = "cancel" THEN Idle ELSE CleanNext(saved))

-----------------------------------------------------------------------------
(* Reconcile: start, observe, schedule *)

\* A change is handed over by a source step that has retained one; a step
\* that others take a change from completes only with a retained change.
HandedOver(row, s) ==
  LET source == Rules(row).source[s] IN source # NoStep => row.step[source] = "completed"

StartStep(p) ==
  /\ At(p, "start")
  /\ LET copy == proc[p].copy
         s    == First(Among(copy, {"starting"}))
     IN  \/ /\ HandedOver(copy, s)
            /\ sessions' = [sessions EXCEPT ![s] = Started(@)]
            /\ StartOrObserve(p, [proc[p] EXCEPT !.copy.step[s] = "running", !.changed = TRUE])
            /\ UNCHANGED faults
         \/ /\ HandedOver(copy, s)
            /\ \E outcome \in StartFailed(sessions[s]) : sessions' = [sessions EXCEPT ![s] = outcome]
            /\ Fault /\ Done(p)
         \/ ~HandedOver(copy, s) /\ Done(p) /\ UNCHANGED <<sessions, faults>>
  /\ UNCHANGED <<run, server, meddling>>

\* Mutant of Finished: the pass forgets that it has something to save.
FinishedUnsaved(p, s, result) ==
  Observe(p, [proc[p] EXCEPT !.copy.step[s] = result], proc[p].todo \ {s})

\* The step's copy gets its result; the scan goes on after it.
Finished(p, s, result) ==
  Observe(p, [proc[p] EXCEPT !.copy.step[s] = result, !.changed = TRUE], proc[p].todo \ {s})

\* Status: a session without a row or without a Job is an error, which ends
\* the pass and forgets what it has found.
StatusOf(p) ==
  /\ At(p, "status")
  /\ LET s    == First(proc[p].todo)
         task == sessions[s].task
     IN  \/ task \in {"none"} \cup TaskUnlaunched /\ Done(p)
         \/ task \in TaskActive /\ Observe(p, proc[p], proc[p].todo \ {s})
         \/ task \in {"failed", "canceled"} /\ Finished(p, s, "failed")
         \/ task \in TaskResults \ {"failed"} /\ Step(p, Goto(p, "artifacts"))
  /\ UNCHANGED <<run, sessions, server, faults, meddling>>

\* Artifacts reads the session again.  A task added by a client reports pull
\* request metadata, which only a publishable step may complete with; a failed
\* task may or may not have an outcome to read.
ArtifactsOf(p) ==
  /\ At(p, "artifacts")
  /\ LET s    == First(proc[p].todo)
         task == sessions[s].task
     IN  \/ task \in TaskActive \cup TaskUnlaunched \cup {"none", "canceled", "failed"} /\ Done(p)
         \/ task = "failed" /\ Finished(p, s, "failed")
         \/ task \in {"completed", "blocked"} /\ Finished(p, s, task)
         \/ /\ task = "continued"
            /\ Finished(p, s, IF s = Publishable(proc[p].copy) THEN "completed" ELSE "failed")
  /\ UNCHANGED <<run, sessions, server, faults, meddling>>

-----------------------------------------------------------------------------
(* Reconcile: cancel, clean up; Delete.  A session is deleted, or the call *)
(* fails and the operation with it.                                        *)

Remove(p, s, kind, local) ==
  LET ephemeral == Ephemeral(proc[p].copy, s) IN
  /\ \/ /\ DeleteSucceeds(sessions[s], kind)
        /\ sessions' = [sessions EXCEPT ![s] = Deleted(@, kind, ephemeral)]
        /\ Step(p, local) /\ UNCHANGED faults
     \/ /\ Fault /\ Done(p)
        /\ \E outcome \in DeleteFailed(sessions[s], kind, ephemeral) :
             sessions' = [sessions EXCEPT ![s] = outcome]
     \/ /\ ~DeleteSucceeds(sessions[s], kind) /\ Done(p) /\ UNCHANGED faults
        /\ sessions' = [sessions EXCEPT ![s] = IF Refuses(@, kind) THEN @ ELSE Marked(@, kind)]
  /\ UNCHANGED <<run, server, meddling>>

\* Mutant of CancelStep: only the steps known to run are deleted.
CancelRunningOnly(p) ==
  /\ At(p, "cancel")
  /\ \E s \in Among(proc[p].copy, StepActive) :
       LET next == CancelNext([proc[p] EXCEPT !.copy.step[s] = "canceled"])
       IN  IF proc[p].copy.step[s] = "running" THEN Remove(p, s, "compute", next)
           ELSE Step(p, next) /\ UNCHANGED <<run, sessions, server, faults, meddling>>

\* reconcileCancellation visits the steps in no particular order.
CancelStep(p) ==
  /\ At(p, "cancel")
  /\ \E s \in Among(proc[p].copy, StepActive) :
       Remove(p, s, "compute", CancelNext([proc[p] EXCEPT !.copy.step[s] = "canceled"]))

SaveCanceled(p) ==
  /\ At(p, "savecancel")
  /\ LET canceled == [s \in Steps |-> IF proc[p].copy.step[s] = "pending" THEN "canceled"
                                      ELSE proc[p].copy.step[s]]
     IN  Update(p, [proc[p].copy EXCEPT !.state = "canceled", !.step = canceled], Idle)

\* Mutant of CleanStep: cleaning a step destroys its storage.
CleanDestroys(p) ==
  /\ At(p, "clean")
  /\ \E s \in Uncleaned(proc[p].copy) :
       Remove(p, s, "storage",
              CleanNext([proc[p] EXCEPT !.copy.cleaned = @ \cup {s}, !.changed = TRUE]))

\* cleanupCompletedSteps, in no particular order either: the session of a
\* completed step loses its compute.
CleanStep(p) ==
  /\ At(p, "clean")
  /\ \E s \in Uncleaned(proc[p].copy) :
       Remove(p, s, "compute",
              CleanNext([proc[p] EXCEPT !.copy.cleaned = @ \cup {s}, !.changed = TRUE]))

SaveCleaned(p) == At(p, "savecleaned") /\ Update(p, proc[p].copy, Idle)

SaveDeleting(c) ==
  /\ At(c, "savedeleting")
  /\ Update(c, proc[c].copy, [proc[c] EXCEPT !.pc = "destroy", !.base = proc[c].copy, !.todo = Steps])

\* Mutant of DestroyStep: a session that was cleaned up is taken to be gone.
DestroySkipsCleaned(c) ==
  /\ At(c, "destroy")
  /\ LET s    == First(proc[c].todo)
         left == proc[c].todo \ {s}
         next == [proc[c] EXCEPT !.todo = left, !.pc = IF left = {} THEN "remove" ELSE "destroy"]
     IN  IF s \in proc[c].copy.cleaned
         THEN Step(c, next) /\ UNCHANGED <<run, sessions, server, faults, meddling>>
         ELSE Remove(c, s, "storage", next)

DestroyStep(c) ==
  /\ At(c, "destroy")
  /\ LET left == proc[c].todo \ {First(proc[c].todo)}
     IN  Remove(c, First(proc[c].todo), "storage",
                [proc[c] EXCEPT !.todo = left, !.pc = IF left = {} THEN "remove" ELSE "destroy"])

\* The row goes, with its snapshots.
RemoveRun(c) ==
  /\ At(c, "remove")
  /\ run' = NoRun
  /\ ReplyLast(c)
  /\ UNCHANGED <<sessions, server, meddling>>

-----------------------------------------------------------------------------
(* Faults and the environment *)

CallFails(p) ==
  /\ proc[p].pc \in Calls
  /\ Fault /\ Done(p)
  /\ UNCHANGED <<run, sessions, server, meddling>>

Crash ==
  /\ server = "up"
  /\ Fault
  /\ server' = "down" /\ lock' = Free
  /\ proc' = [p \in Procs |-> Idle]
  /\ UNCHANGED <<run, sessions, meddling>>

\* Before the reconciler and the listener start, ReconcileDeletions finishes
\* the pending session deletions, except those it fails to.
Restart ==
  /\ server = "down"
  /\ server' = "up"
  /\ \E missed \in SUBSET Steps :
       /\ IF missed = {} THEN UNCHANGED faults ELSE Fault
       /\ sessions' = [s \in Steps |->
            LET kind == sessions[s].deletion
            IN  IF kind = "none" \/ s \in missed \/ sessions[s].task \in TaskUnlaunched THEN sessions[s]
                ELSE Deleted(sessions[s], kind, Ephemeral(run, s))]
  /\ UNCHANGED <<run, lock, proc, meddling>>

\* A task ends, at the latest when its deadline passes.
TaskEnds(s) ==
  /\ \/ sessions[s].task = "active" /\ \E result \in {"completed", "blocked", "failed"} :
          sessions' = [sessions EXCEPT ![s].task = result]
     \/ sessions[s].task = "again" /\ \E result \in {"continued", "blocked", "failed"} :
          sessions' = [sessions EXCEPT ![s].task = result]
  /\ UNCHANGED <<run, environment>>

\* A client deletes or continues the session of a step as if it were its own;
\* its request succeeds, fails or leaves something half done.
Meddle(s) ==
  /\ server = "up" /\ sessions[s].task # "none"
  /\ meddling < MaxMeddling /\ meddling' = meddling + 1
  /\ \/ \E kind \in Deletions :
          \E outcome \in DeleteFailed(sessions[s], kind, Ephemeral(run, s)) :
            sessions' = [sessions EXCEPT ![s] = outcome]
     \/ /\ sessions[s].task \in TaskOver /\ sessions[s].deletion = "none"
        /\ ~Ephemeral(run, s)
        /\ \E task \in {"readded", "again"} : sessions' = [sessions EXCEPT ![s].task = task]
  /\ UNCHANGED <<run, lock, server, proc, faults>>

-----------------------------------------------------------------------------
Work(p) ==
  \/ Load(p) \/ Create(p) \/ Save(p) \/ StartStep(p) \/ StatusOf(p) \/ ArtifactsOf(p)
  \/ CancelStep(p) \/ SaveCanceled(p) \/ CleanStep(p) \/ SaveCleaned(p)
  \/ SaveDeleting(p) \/ DestroyStep(p) \/ RemoveRun(p)

Next ==
  \/ \E c \in Clients, op \in Operations \ {"reconcile"}, d \in Definitions \cup {NoDefinition} :
       Request(c, op, d)
  \/ Tick
  \/ \E p \in Procs : Acquire(p) \/ Work(p) \/ CallFails(p)
  \/ Crash
  \/ Restart
  \/ \E s \in Steps : TaskEnds(s) \/ Meddle(s)

Spec == Init /\ [][Next]_vars

(* The reconciler ticks, calls that can be made are made, Go's mutex does  *)
(* not starve a waiter, a stopped server is started again, and a task ends *)
(* because its Job has a deadline.  Clients, faults and meddling may stop. *)
Fairness ==
  /\ WF_vars(Tick) /\ WF_vars(Restart)
  /\ \A p \in Procs : SF_vars(Acquire(p)) /\ WF_vars(Work(p))
  /\ \A s \in Steps : WF_vars(TaskEnds(s))

FairSpec == Spec /\ Fairness

-----------------------------------------------------------------------------
(* Properties *)

TypeOK ==
  /\ run \in Runs
  /\ sessions \in [Steps -> Sessions]
  /\ lock \in Procs \cup {Free}
  /\ server \in {"up", "down"}
  /\ proc \in [Procs -> Locals]
  /\ faults \in 0..MaxFaults /\ meddling \in 0..MaxMeddling

Executing(s) == sessions[s].task \in {"recorded", "active"}

\* Every row an operation writes was read by it under the mutex and is still
\* current: in one server the optimistic lock of the table never conflicts.
SavesAreCurrent ==
  \A p \in Procs :
    proc[p].pc \in {"save", "savecancel", "savecleaned", "savedeleting", "start", "clean", "destroy"}
      => run = proc[p].base

\* What executes is on record: a step's session works only while the row says
\* that the step is starting or running, in a run that is not over.  So a run
\* that was canceled, or whose result was reported, has no agent at work, and
\* the limit on the row is a limit on the agents.
WorkIsRecorded ==
  /\ \A s \in Steps : Executing(s) => run.state = "running" /\ run.step[s] \in StepActive
  /\ Cardinality({s \in Steps : Executing(s)}) <=
       (IF run.state = "none" THEN 0 ELSE Rules(run).parallelism)

\* An agent is given a workspace only after everything it depends on is
\* durable: the results of its dependencies in the row, and the volume of the
\* session whose change it applies while it works, unless a client removed it.
InputsAreReady ==
  \A s \in Steps :
    /\ sessions[s].task # "none" => \A d \in Rules(run).after[s] : run.step[d] = "completed"
    /\ Executing(s) /\ Rules(run).source[s] # NoStep /\ meddling = 0 =>
         sessions[Rules(run).source[s]].task # "none"

\* A run's sessions never outlive its row: once it is gone, its name can be
\* used again as if it had never been.
NothingOutlivesRun ==
  run.state = "none" => \A s \in Steps : sessions[s] = NoSession

\* "StepSkipped depends on a step that did not complete" (types.go:82), and
\* then never had a session; a run is over only when all its steps are.
SkipsAreCaused ==
  run.state # "none" =>
    /\ \A s \in Steps : run.step[s] = "skipped" =>
         /\ sessions[s] = NoSession
         /\ \E d \in Rules(run).after[s] : run.step[d] \in StepFailures
    /\ Terminal(run) => Among(run, {"pending"} \cup StepActive) = {}
    /\ run.state = "completed" => Among(run, {"completed"}) = Steps

\* No result is lost: the session that has it gives it up only when the row has
\* the step's result, the run is being canceled, or a client meddled.
ResultsAreCollected ==
  [][\A s \in Steps :
       sessions[s].task \in TaskResults /\ sessions'[s].task # sessions[s].task
         => run.step[s] \in StepTerminal \/ run.cancel \/ meddling' > 0]_vars

\* Whatever interleaves, fails or crashes, a client that polls the run sees it
\* change as RunLedger says.
Ledger == INSTANCE RunLedger
ImplementsLedger == Ledger!Spec

\* A step's session only does what SessionService lets a session do: the
\* reconciler's calls, cut short anywhere, other clients' requests and the
\* restart move it by at most three steps of that machine.
InOneStep(some, ephemeral) ==
  some \cup {t \in Sessions : \E s \in some : Becomes(s, t, ephemeral)}
InThreeSteps(session, ephemeral) ==
  InOneStep(InOneStep(InOneStep({session}, ephemeral), ephemeral), ephemeral)
SessionsBehave ==
  [][\A s \in Steps : sessions'[s] # sessions[s]
       => sessions'[s] \in InThreeSteps(sessions[s], Ephemeral(run, s))]_vars

\* A cancellation is stuck when it meets a session whose Job was never created.
CancellationStuck == run.cancel /\ \E s \in Steps : sessions[s].task = "recorded"

\* A run ends, or its cancellation is stuck.
RunsEnd ==
  (run.state \in {"pending", "running"}) ~>
    (run.state \notin {"pending", "running"} \/ CancellationStuck)

\* The compute of completed steps is cleaned up in the end, whatever the
\* outcome of the run and however often cleaning was interrupted.
CompletedStepsAreCleaned ==
  (Uncleaned(run) # {}) ~> (Uncleaned(run) = {} \/ run.state = "deleting" \/ CancellationStuck)

\* "Delete destroys every owned session and then removes durable workflow
\* state" (control.go:214): it does so at the latest when a client that gets
\* an error asks again and again.
RepeatedDeletionCompletes ==
  []<>(\E c \in Clients : At(c, "load") /\ proc[c].op = "delete")
    => ((run.state = "deleting") ~> (run.state = "none"))
=============================================================================
