--------------------------- MODULE SessionControl ---------------------------
(***************************************************************************)
(* The session controller of dyne: internal/session/control.go, the SQL    *)
(* repository behind it (internal/storage/session.go) and the Kubernetes   *)
(* runtime below it (internal/workload/session.go).                        *)
(*                                                                         *)
(* One session name is modelled: the controller's lock, the rows and the   *)
(* Kubernetes labels are all per name, so two names never interact.  A     *)
(* request handler is a process that makes one repository or runtime call  *)
(* per step; handlers of one name interleave, clients disconnect, calls    *)
(* fail before or after they took effect, the server crashes and restarts, *)
(* and the Jobs run on while all of that happens.                          *)
(*                                                                         *)
(* Abstracted: prompts, images, definitions and artifacts (an intent is a  *)
(* model value), the server's namespace (RuntimeScope is one value), and   *)
(* the clock, which is taken to be monotonic: a task created later has a   *)
(* larger identifier, as "ORDER BY created_at DESC" assumes.               *)
(***************************************************************************)
EXTENDS Integers

CONSTANTS
  Handlers,          \* concurrent HTTP request handlers
  Boot,              \* the start-up goroutine that runs ReconcileDeletions
  Intents,           \* what Start may be asked to record (its intent digest)
  PersistentIntents, \* the intents whose agent definition is persistent
  NoIntent,          \* the zero value of an intent
  Free,              \* the mutex's owner when nobody holds it
  MaxTasks,          \* bound: task identifiers issued
  MaxFaults          \* bound: failed calls, lost replies and crashes

ASSUME SessionAssumption ==
  /\ Boot \notin Handlers
  /\ Free \notin Handlers \cup {Boot}
  /\ PersistentIntents \subseteq Intents
  /\ NoIntent \notin Intents
  /\ MaxTasks \in Nat \ {0}
  /\ MaxFaults \in Nat

VARIABLES
  record,  \* SQL row of the session: the recorded intent, or NoIntent
  deletion,\* its deletion_storage column: "none", "compute" or "storage"
  tasks,   \* SQL rows of its tasks: the recorded state per identifier
  issued,  \* number of task identifiers handed out
  jobs,    \* Kubernetes: what has become of each task's Job
  claim,   \* Kubernetes: the PersistentVolumeClaim exists
  lock,    \* holder of the session's mutex, or Free
  server,  \* "up", "boot" while ReconcileDeletions runs, "down"
  proc,    \* volatile state of every handler and of the start-up goroutine
  faults   \* faults so far

database == <<record, deletion, tasks, issued>>
cluster  == <<jobs, claim>>
vars     == <<record, deletion, tasks, issued, jobs, claim, lock, server, proc, faults>>

-----------------------------------------------------------------------------
TaskIds     == 1..MaxTasks
InitialTask == 1
Procs       == Handlers \cup {Boot}

ActiveStates   == {"pending", "running"}
TerminalStates == {"completed", "blocked", "failed", "canceled"}
TaskStates     == {"none"} \cup ActiveStates \cup TerminalStates

\* A Job that succeeded is named by what its newest pod reports: "declined"
\* reports failure or lacks the metadata its result kind requires, "lost" no
\* longer has a pod to read.  "retrying" is a Job whose first pod failed and
\* whose replacement (backoffLimit 1) is due or running.
LiveJobs  == {"created", "active", "retrying"}
JobStates == {"absent", "failed", "completed", "blocked", "declined", "lost"} \cup LiveJobs

Operations == {"start", "continue", "status", "publish", "delete"}
Deletions  == {"compute", "storage"}

Idle == [pc |-> "idle", op |-> "none", arg |-> NoIntent, snap |-> NoIntent,
         task |-> 0, seen |-> "none"]

\* Places where a handler is about to make a call that may fail.
Calls == {"create", "compare", "latest", "claim", "job", "read", "sync", "observe",
          "update", "add", "load", "mark", "cancel", "purge", "finish", "list"}
Places == Calls \cup {"idle", "lock", "lease"}

Locals == [pc : Places, op : Operations \cup {"none"},
           arg : Intents \cup Deletions \cup {NoIntent}, snap : Intents \cup {NoIntent},
           task : 0..MaxTasks, seen : TaskStates]

Terminal(state) == state \in TerminalStates
Persistent(intent) == intent \in PersistentIntents

\* LatestTask: the row with the newest created_at.
IsLatest(t) == tasks[t] # "none" /\ \A u \in TaskIds : tasks[u] # "none" => u <= t
NoTask      == \A t \in TaskIds : tasks[t] = "none"
HasActiveTask == \E t \in TaskIds : tasks[t] \in ActiveStates

-----------------------------------------------------------------------------
(* How a handler moves: to its next call, back to the client, or there     *)
(* because a call failed.                                                  *)

Step(p, local) ==
  /\ proc' = [proc EXCEPT ![p] = local]
  /\ UNCHANGED <<lock, server>>

\* Return to the client: the deferred release runs, locals are gone.  The
\* start-up goroutine holds no lock; when it returns the server listens,
\* whether or not ReconcileDeletions reported an error.
Done(p) ==
  /\ proc' = [proc EXCEPT ![p] = Idle]
  /\ lock' = IF lock = p THEN Free ELSE lock
  /\ server' = IF p = Boot THEN "up" ELSE server

Fault == faults < MaxFaults /\ faults' = faults + 1

\* The call took effect: its reply arrives and the handler goes on, or the
\* reply is lost and the handler returns the error.
Reply(p, local) ==
  \/ Step(p, local) /\ UNCHANGED faults
  \/ Fault /\ Done(p)

ReplyLast(p) == Done(p) /\ (UNCHANGED faults \/ Fault)

At(p, place) == proc[p].pc = place
Goto(p, place) == [proc[p] EXCEPT !.pc = place]

-----------------------------------------------------------------------------
Init ==
  /\ record = NoIntent
  /\ deletion = "none"
  /\ tasks = [t \in TaskIds |-> "none"]
  /\ issued = InitialTask
  /\ jobs = [t \in TaskIds |-> "absent"]
  /\ claim = FALSE
  /\ lock = Free
  /\ server = "up"
  /\ proc = [p \in Procs |-> Idle]
  /\ faults = 0

\* A client sends a request; arg is the intent of a Start and the kind of a
\* Delete ("compute") or Destroy ("storage").
Request(h, op, arg) ==
  /\ server = "up" /\ At(h, "idle")
  /\ IF op = "start" THEN arg \in Intents
     ELSE IF op = "delete" THEN arg \in Deletions ELSE arg = NoIntent
  /\ proc' = [proc EXCEPT ![h] = [Idle EXCEPT !.pc = "lock", !.op = op, !.arg = arg]]
  /\ UNCHANGED <<database, cluster, lock, server, faults>>

FirstCall(op) ==
  IF op = "start" THEN "create" ELSE IF op = "delete" THEN "load" ELSE "read"

\* Mutant of Acquire: the handler does not wait for the mutex.
AcquireWithoutWaiting(h) ==
  /\ At(h, "lock")
  /\ lock' = h
  /\ proc' = [proc EXCEPT ![h] = Goto(h, FirstCall(proc[h].op))]
  /\ UNCHANGED <<database, cluster, server, faults>>

Acquire(h) ==
  /\ At(h, "lock") /\ lock = Free
  /\ lock' = h
  /\ proc' = [proc EXCEPT ![h] = Goto(h, FirstCall(proc[h].op))]
  /\ UNCHANGED <<database, cluster, server, faults>>

-----------------------------------------------------------------------------
(* Start *)

\* repository.Create: one transaction inserts the session and its initial
\* task, or reports a conflict when the row exists.
Create(h) ==
  /\ At(h, "create")
  /\ \/ /\ record = NoIntent
        /\ record' = proc[h].arg
        /\ tasks' = [tasks EXCEPT ![InitialTask] = "pending"]
        /\ Reply(h, [Goto(h, "claim") EXCEPT !.snap = proc[h].arg, !.task = InitialTask])
        /\ UNCHANGED <<deletion, issued>>
     \/ /\ record # NoIntent
        /\ Step(h, Goto(h, "compare"))
        /\ UNCHANGED <<database, faults>>
  /\ UNCHANGED cluster

\* Mutant of Compare: a conflict is taken for a race and retried.
CompareRetries(h) ==
  /\ At(h, "compare")
  /\ \/ /\ record = proc[h].arg
        /\ Step(h, [Goto(h, "latest") EXCEPT !.snap = record])
     \/ record # proc[h].arg /\ Step(h, Goto(h, "create"))
  /\ UNCHANGED <<database, cluster, faults>>

\* After a conflict: Get the row and compare its intent with this request's.
Compare(h) ==
  /\ At(h, "compare")
  /\ \/ /\ record = proc[h].arg
        /\ Step(h, [Goto(h, "latest") EXCEPT !.snap = record])
     \/ record # proc[h].arg /\ Done(h)
  /\ UNCHANGED <<database, cluster, faults>>

\* The same Start again: launch the latest task unless it is over.
Latest(h) ==
  /\ At(h, "latest")
  /\ \/ NoTask /\ Done(h)
     \/ \E t \in TaskIds :
          /\ IsLatest(t)
          /\ IF Terminal(tasks[t]) THEN Done(h)
             ELSE Step(h, [Goto(h, "claim") EXCEPT !.task = t])
  /\ UNCHANGED <<database, cluster, faults>>

\* runtime.Start applies its resources in order: the claim of a persistent
\* session first, then (initial and continued tasks alike) the Job.  Applying
\* a Job that exists changes nothing, and fails when its template differs;
\* either way the handler is done.
ApplyClaim(h) ==
  /\ At(h, "claim")
  /\ claim' = (claim \/ Persistent(proc[h].snap))
  /\ Reply(h, Goto(h, "job"))
  /\ UNCHANGED <<database, jobs>>

ApplyJob(h) ==
  /\ At(h, "job")
  /\ jobs' = [jobs EXCEPT ![proc[h].task] = IF @ = "absent" THEN "created" ELSE @]
  /\ ReplyLast(h)
  /\ UNCHANGED <<database, claim>>

-----------------------------------------------------------------------------
(* Continue, Status, Artifacts and PreparePublication: read the session,   *)
(* synchronize its latest task, then do what the operation is for.         *)

\* Mutants of MayProceed: Continue, or PreparePublication, ignores a recorded
\* deletion.
ContinueUnderDeletion(h) ==
  /\ record # NoIntent
  /\ proc[h].op = "continue" => Persistent(record)
  /\ proc[h].op = "publish" => deletion = "none"
PublishUnderDeletion(h) ==
  /\ record # NoIntent
  /\ proc[h].op = "continue" => Persistent(record) /\ deletion = "none"

MayProceed(h) ==
  /\ record # NoIntent
  /\ proc[h].op = "continue" => Persistent(record)
  /\ proc[h].op \in {"continue", "publish"} => deletion = "none"

Read(h) ==
  /\ At(h, "read")
  /\ \/ MayProceed(h) /\ Step(h, [Goto(h, "sync") EXCEPT !.snap = record])
     \/ ~MayProceed(h) /\ Done(h)
  /\ UNCHANGED <<database, cluster, faults>>

\* Mutant of Synchronized: a deletion does not cancel the task it found active.
DeleteWithoutCancel(p, local) ==
  \/ local.op = "continue" /\ Step(p, [local EXCEPT !.pc = "add"])
  \/ local.op = "delete" /\ Step(p, [local EXCEPT !.pc = "purge"])
  \/ local.op \in {"status", "publish"} /\ Done(p)

\* Where an operation goes once it knows the state of the latest task: only a
\* completed task of a persistent session can be published, and not even that
\* when it reported no pull request artifact.
Synchronized(p, local) ==
  \/ local.op = "continue" /\ Step(p, [local EXCEPT !.pc = "add"])
  \/ local.op = "delete" /\ Terminal(local.seen) /\ Step(p, [local EXCEPT !.pc = "purge"])
  \/ local.op = "delete" /\ ~Terminal(local.seen) /\ Step(p, [local EXCEPT !.pc = "cancel"])
  \/ /\ local.op = "publish" /\ local.seen = "completed" /\ Persistent(local.snap)
     /\ Step(p, [local EXCEPT !.pc = "lease"])
  \/ local.op \in {"status", "publish"} /\ Done(p)

\* Mutant of Sync: a finished task is observed again.
SyncObservesAgain(p) ==
  /\ At(p, "sync")
  /\ \E t \in TaskIds :
       IsLatest(t) /\ Step(p, [Goto(p, "observe") EXCEPT !.task = t, !.seen = tasks[t]])
  /\ UNCHANGED <<database, cluster, faults>>

\* LatestTask: a finished task needs no observation.  A deletion tolerates a
\* session without tasks.
Sync(p) ==
  /\ At(p, "sync")
  /\ \/ /\ NoTask
        /\ IF proc[p].op = "delete" THEN Step(p, Goto(p, "purge")) ELSE Done(p)
     \/ \E t \in TaskIds :
          /\ IsLatest(t)
          /\ LET local == [proc[p] EXCEPT !.task = t, !.seen = tasks[t]]
             IN  IF Terminal(tasks[t]) THEN Synchronized(p, local)
                 ELSE Step(p, [local EXCEPT !.pc = "observe"])
  /\ UNCHANGED <<database, cluster, faults>>

\* Mutants of Observed: the Job's phase is recorded untranslated; any Job that
\* succeeded counts as a completed task.
ObservedPhase(job) == job
ObservedSuccess(job) ==
  IF job \in {"completed", "declined"} THEN "completed"
  ELSE IF job = "created" THEN "pending" ELSE IF job = "active" THEN "running" ELSE "failed"

\* Mutant of Observable: a task without a Job is taken to have failed.
ObservableWithoutJob(job) == job # "lost"

\* What Observe and applyObservation make of a Job.  A Job that has failed one
\* pod has Status.Failed = 1 and counts as failed while it still retries.
Observed(job) ==
  IF job \in {"completed", "blocked"} THEN job
  ELSE IF job = "created" THEN "pending" ELSE IF job = "active" THEN "running" ELSE "failed"
Observable(job) == job \notin {"absent", "lost"}

\* A missing Job, or a successful one without a readable result, is an error
\* that every caller returns.
Observe(p) ==
  /\ At(p, "observe")
  /\ LET job == jobs[proc[p].task]
     IN  \/ Observable(job) /\ Step(p, [Goto(p, "update") EXCEPT !.seen = Observed(job)])
         \/ ~Observable(job) /\ Done(p)
  /\ UNCHANGED <<database, cluster, faults>>

\* UpdateTask is an unconditional UPDATE by session and task identifier; it
\* affects no row, which is an error, when the row has gone.
UpdateTask(t, state) ==
  tasks' = [tasks EXCEPT ![t] = IF @ = "none" THEN @ ELSE state]

Update(p) ==
  /\ At(p, "update")
  /\ UpdateTask(proc[p].task, proc[p].seen)
  /\ \/ /\ IF tasks[proc[p].task] = "none" THEN Done(p) ELSE Synchronized(p, proc[p])
        /\ UNCHANGED faults
     \/ Fault /\ Done(p)
  /\ UNCHANGED <<record, deletion, issued, cluster>>

\* Mutant of Add: neither the count of active tasks nor the unique index.
AddUnchecked(h) ==
  /\ At(h, "add")
  /\ \/ /\ record # NoIntent /\ issued < MaxTasks
        /\ issued' = issued + 1
        /\ tasks' = [tasks EXCEPT ![issued + 1] = "pending"]
        /\ Reply(h, [Goto(h, "job") EXCEPT !.task = issued + 1])
     \/ /\ record = NoIntent \/ issued = MaxTasks
        /\ Done(h)
        /\ UNCHANGED <<tasks, issued, faults>>
  /\ UNCHANGED <<record, deletion, cluster>>

\* AddTask refuses while a task is active (and while the row is missing);
\* the new task's Job is then applied without the claim.  A session that has
\* used up the model's identifiers is refused too.
Add(h) ==
  /\ At(h, "add")
  /\ \/ /\ ~HasActiveTask /\ record # NoIntent /\ issued < MaxTasks
        /\ issued' = issued + 1
        /\ tasks' = [tasks EXCEPT ![issued + 1] = "pending"]
        /\ Reply(h, [Goto(h, "job") EXCEPT !.task = issued + 1])
     \/ /\ HasActiveTask \/ record = NoIntent \/ issued = MaxTasks
        /\ Done(h)
        /\ UNCHANGED <<tasks, issued, faults>>
  /\ UNCHANGED <<record, deletion, cluster>>

\* Publication.Close gives the lease back.
CloseLease(h) ==
  /\ At(h, "lease")
  /\ Done(h)
  /\ UNCHANGED <<database, cluster, faults>>

-----------------------------------------------------------------------------
(* Delete, Destroy and ReconcileDeletions *)

Load(h) ==
  /\ At(h, "load")
  /\ IF record = NoIntent THEN Done(h)
     ELSE Step(h, [Goto(h, "mark") EXCEPT !.snap = record])
  /\ UNCHANGED <<database, cluster, faults>>

\* BeginDeletion: records the intent unless the other kind is pending.
Mark(h) ==
  /\ At(h, "mark")
  /\ \/ /\ record # NoIntent /\ deletion \in {"none", proc[h].arg}
        /\ deletion' = proc[h].arg
        /\ Reply(h, Goto(h, "sync"))
     \/ /\ record = NoIntent \/ deletion \notin {"none", proc[h].arg}
        /\ Done(h)
        /\ UNCHANGED <<deletion, faults>>
  /\ UNCHANGED <<record, tasks, issued, cluster>>

\* finishDeletion cancels a task that is still active after its observation.
Cancel(p) ==
  /\ At(p, "cancel")
  /\ UpdateTask(proc[p].task, "canceled")
  /\ IF tasks[proc[p].task] = "none" THEN ReplyLast(p) ELSE Reply(p, Goto(p, "purge"))
  /\ UNCHANGED <<record, deletion, issued, cluster>>

\* runtime.Delete removes the Jobs and, for a Destroy, the claim.  When one
\* of its calls fails it goes on with the others and returns an error.
Purge(p) ==
  /\ At(p, "purge")
  /\ \/ /\ jobs' = [t \in TaskIds |-> "absent"]
        /\ claim' = (claim /\ proc[p].arg # "storage")
        /\ Reply(p, Goto(p, "finish"))
     \/ \E kept \in SUBSET TaskIds :
          /\ jobs' = [t \in TaskIds |-> IF t \in kept THEN jobs[t] ELSE "absent"]
          /\ claim' \in {claim, claim /\ proc[p].arg # "storage"}
          /\ Fault /\ Done(p)
  /\ UNCHANGED database

\* Mutants of Finish: the rows go with every deletion; the deletion mark of a
\* session that stays is not cleared.
FinishForgetsSession(p) ==
  /\ At(p, "finish")
  /\ record' = NoIntent
  /\ tasks' = [t \in TaskIds |-> "none"]
  /\ deletion' = "none"
  /\ ReplyLast(p)
  /\ UNCHANGED <<issued, cluster>>
FinishKeepsMark(p) ==
  /\ At(p, "finish")
  /\ IF proc[p].arg = "storage" \/ ~Persistent(proc[p].snap)
     THEN /\ record' = NoIntent /\ deletion' = "none"
          /\ tasks' = [t \in TaskIds |-> "none"]
     ELSE UNCHANGED <<record, tasks, deletion>>
  /\ ReplyLast(p)
  /\ UNCHANGED <<issued, cluster>>

\* FinishDeletion: the rows go with a destroyed or ephemeral session, a
\* persistent session only loses its deletion mark.
Finish(p) ==
  /\ At(p, "finish")
  /\ IF proc[p].arg = "storage" \/ ~Persistent(proc[p].snap)
     THEN /\ record' = NoIntent
          /\ tasks' = [t \in TaskIds |-> "none"]
     ELSE UNCHANGED <<record, tasks>>
  /\ deletion' = "none"
  /\ ReplyLast(p)
  /\ UNCHANGED <<issued, cluster>>

\* ReconcileDeletions lists the sessions with a recorded deletion and
\* finishes each, before the server listens and without taking the lock.
List ==
  /\ At(Boot, "list")
  /\ IF deletion = "none" THEN Done(Boot)
     ELSE Step(Boot, [Goto(Boot, "sync") EXCEPT !.op = "delete", !.arg = deletion, !.snap = record])
  /\ UNCHANGED <<database, cluster, faults>>

-----------------------------------------------------------------------------
(* Faults: a call fails without effect (or the client is gone, which fails *)
(* every later call of its handler); the server stops and starts.          *)

CallFails(p) ==
  /\ proc[p].pc \in Calls
  /\ Fault /\ Done(p)
  /\ UNCHANGED <<database, cluster>>

Crash ==
  /\ server # "down"
  /\ Fault
  /\ server' = "down" /\ lock' = Free
  /\ proc' = [p \in Procs |-> Idle]
  /\ UNCHANGED <<database, cluster>>

Restart ==
  /\ server = "down"
  /\ server' = "boot"
  /\ proc' = [proc EXCEPT ![Boot] = [Idle EXCEPT !.pc = "list"]]
  /\ UNCHANGED <<database, cluster, lock, faults>>

-----------------------------------------------------------------------------
(* Kubernetes: a Job's pod starts, fails once and is retried, the Job      *)
(* succeeds or fails for good (backoff limit or active deadline), and the  *)
(* pod of a finished Job may be collected.                                 *)

JobMoves ==
  ({"created"}  \X {"active", "failed"})
  \cup ({"active"} \X {"retrying", "failed", "completed", "blocked", "declined"})
  \cup ({"retrying"} \X {"failed", "completed", "blocked", "declined"})
  \cup ({"completed", "blocked", "declined"} \X {"lost"})

JobStep(t) ==
  /\ \E to \in JobStates :
       <<jobs[t], to>> \in JobMoves /\ jobs' = [jobs EXCEPT ![t] = to]
  /\ UNCHANGED <<database, claim, lock, server, proc, faults>>

-----------------------------------------------------------------------------
\* One step of a handler, or of the start-up goroutine, that is not a fault.
Work(p) ==
  \/ Sync(p) \/ Observe(p) \/ Update(p) \/ Cancel(p) \/ Purge(p) \/ Finish(p)

Handle(h) ==
  \/ Create(h) \/ Compare(h) \/ Latest(h) \/ ApplyClaim(h) \/ ApplyJob(h)
  \/ Read(h) \/ Add(h) \/ CloseLease(h) \/ Load(h) \/ Mark(h)

Next ==
  \/ \E h \in Handlers :
       \/ \E op \in Operations, arg \in Intents \cup Deletions \cup {NoIntent} : Request(h, op, arg)
       \/ Acquire(h)
       \/ Handle(h)
  \/ \E p \in Procs : Work(p) \/ CallFails(p)
  \/ List
  \/ Crash
  \/ Restart
  \/ \E t \in TaskIds : JobStep(t)

Spec == Init /\ [][Next]_vars

(* Requests, faults and Jobs may stop for ever.  A handler whose next call *)
(* can be made makes it, Go's mutex does not starve a waiter, and a        *)
(* stopped server is started again.                                        *)
Fairness ==
  /\ \A h \in Handlers : SF_vars(Acquire(h)) /\ WF_vars(Handle(h) \/ Work(h))
  /\ WF_vars(List \/ Work(Boot))
  /\ WF_vars(Restart)

FairSpec == Spec /\ Fairness

-----------------------------------------------------------------------------
(* Properties *)

TypeOK ==
  /\ record \in Intents \cup {NoIntent}
  /\ deletion \in {"none"} \cup Deletions
  /\ tasks \in [TaskIds -> TaskStates]
  /\ issued \in TaskIds
  /\ jobs \in [TaskIds -> JobStates]
  /\ claim \in BOOLEAN
  /\ lock \in Handlers \cup {Free}
  /\ server \in {"up", "boot", "down"}
  /\ proc \in [Procs -> Locals]
  /\ faults \in 0..MaxFaults

\* "dyne records the new task in SQL before creating Kubernetes resources"
\* (README.md:181), and no resource outlives its row: whatever exists in the
\* cluster can be found, and so deleted, through the session's rows.
ClusterIsRecorded ==
  /\ \A t \in TaskIds : jobs[t] # "absent" => tasks[t] # "none"
  /\ claim => Persistent(record)

\* Every operation synchronizes only the latest task, so a task that is still
\* active must be the latest one: an older one would stay active for ever.
ActiveTaskIsLatest ==
  \A t \in TaskIds : tasks[t] \in ActiveStates => IsLatest(t)

\* A task recorded as completed or blocked did report that: SQL never claims
\* more success than the Job shows, as long as there is a Job to ask.
ResultsMatchEvidence ==
  \A t \in TaskIds :
    /\ tasks[t] = "completed" => jobs[t] \in {"completed", "lost", "absent"}
    /\ tasks[t] = "blocked"   => jobs[t] \in {"blocked", "lost", "absent"}

\* What a process read before its last call still holds at its next one,
\* although the client may be gone and other requests wait: a task about to be
\* updated or cancelled is still active, a task about to be launched is still
\* the latest one, and when the rows are about to go the cluster holds nothing
\* that they would have led to.
ReadsStayCurrent ==
  \A p \in Procs :
    LET at == proc[p] IN
    /\ at.pc \in {"observe", "update", "cancel"} =>
         tasks[at.task] \in ActiveStates
    /\ at.pc \in {"claim", "job"} =>
         tasks[at.task] \in ActiveStates /\ IsLatest(at.task) /\ at.snap = record
    /\ at.pc = "finish" =>
         /\ deletion = at.arg /\ ~HasActiveTask
         /\ \A t \in TaskIds : jobs[t] = "absent"
         /\ claim => at.arg = "compute"

\* A publication lease (PreparePublication until Close) holds off every other
\* operation: the session it publishes still exists, is not being deleted, has
\* its workspace, and its latest task is the completed one.
LeaseHoldsSession ==
  \A h \in Handlers : At(h, "lease") =>
    /\ Persistent(record) /\ deletion = "none" /\ claim
    /\ \E t \in TaskIds : IsLatest(t) /\ tasks[t] = "completed"

\* Whatever interleaves, fails or crashes, the rows change as the ledger of
\* SessionLedger says: one active task, results that stand, cancellation only
\* under a recorded deletion, and no row removed under an active task.
Ledger == INSTANCE SessionLedger
ImplementsLedger == Ledger!Spec

\* To a caller the session is its latest task, with or without a Job, and the
\* pending deletion.  What WorkflowControl assumes of a step's session is the
\* machine SessionService: a task ends only after its Job was created, a
\* session is canceled and removed only under a recorded deletion, an ephemeral
\* one has one task, and nothing else happens to it.
LatestTask == CHOOSE t \in TaskIds : IsLatest(t)
LatestState ==
  LET state == tasks[LatestTask]
      first == LatestTask = InitialTask
  IN  IF NoTask THEN "none"
      ELSE IF state = "completed" THEN (IF first THEN "completed" ELSE "continued")
      ELSE IF Terminal(state) THEN state
      ELSE IF jobs[LatestTask] = "absent" THEN (IF first THEN "recorded" ELSE "readded")
      ELSE IF first THEN "active" ELSE "again"
Service ==
  INSTANCE SessionService WITH
    session   <- [task |-> LatestState, deletion |-> deletion],
    ephemeral <- ~Persistent(record)
ImplementsService == Service!Spec

\* The recorded result of a finished task never changes: a client that has
\* seen it may rely on it until the session itself is removed.
ResultsAreFinal ==
  [][\A t \in TaskIds : Terminal(tasks[t]) => tasks'[t] \in {tasks[t], "none"}]_vars

\* A Job, the only evidence of how its task ended, is deleted only once the
\* end of the task is durable.
EvidenceOutlivesDoubt ==
  [][\A t \in TaskIds :
       jobs[t] # "absent" /\ jobs'[t] = "absent" => Terminal(tasks[t])]_vars

\* Every request is answered: whatever fails, no handler goes in circles or
\* returns with the session's mutex, which the waiting ones would never get.
RequestsAreAnswered ==
  \A h \in Handlers : ~At(h, "idle") ~> At(h, "idle")

\* "If cleanup stops partway through, the server continues it when it next
\* starts" (README.md:195): a deletion that is recorded when the server starts
\* is over some time later, provided no further call fails and the cluster has
\* not collected the result of a finished task.
CleanupContinues ==
  (server = "boot" /\ deletion # "none" /\ faults = MaxFaults)
     ~> (deletion = "none" \/ \E t \in TaskIds : jobs[t] = "lost")

\* What the code does promise about the same restart: the deletion of a
\* session whose tasks are all recorded as finished is completed.
FinishedCleanupContinues ==
  (server = "boot" /\ deletion # "none" /\ faults = MaxFaults /\ ~HasActiveTask)
     ~> (deletion = "none")

\* "Only one task can be active in a persistent session" (README.md:181): no
\* two tasks of the session have a Job that is running or will run again.
OneExecution ==
  \A t, u \in TaskIds : jobs[t] \in LiveJobs /\ jobs[u] \in LiveJobs => t = u
=============================================================================
