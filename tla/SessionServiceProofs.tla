------------------------ MODULE SessionServiceProofs ------------------------
(***************************************************************************)
(* SessionControl implements SessionService, for any handlers, intents and *)
(* bounds: what WorkflowControl assumes of the session of a step is what   *)
(* the session controller does.                                            *)
(*                                                                         *)
(* The argument is that every step is about the latest task.  The latest   *)
(* task exists as soon as the session does, it alone can be active, and    *)
(* whoever updates, cancels or launches it has read it under the mutex.    *)
(***************************************************************************)
EXTENDS SessionControlProofs, LeastElement

\* LatestTask and LatestState as functions of the rows and the Jobs.
Newest(rows, t) == rows[t] # "none" /\ \A u \in TaskIds : rows[u] # "none" => u <= t

Seen(t, state, job) ==
  IF state = "completed" THEN (IF t = InitialTask THEN "completed" ELSE "continued")
  ELSE IF Terminal(state) THEN state
  ELSE IF job = "absent" THEN (IF t = InitialTask THEN "recorded" ELSE "readded")
  ELSE IF t = InitialTask THEN "active" ELSE "again"

View == [task |-> LatestState, deletion |-> deletion]

LEMMA OneNewest ==
  ASSUME NEW rows, NEW t \in TaskIds, Newest(rows, t), NEW u \in TaskIds, Newest(rows, u)
  PROVE  u = t
BY DEF Newest, TaskIds

LEMMA NewestIsChosen ==
  ASSUME NEW rows, NEW t \in TaskIds, Newest(rows, t)
  PROVE  (CHOOSE u \in TaskIds : Newest(rows, u)) = t
BY OneNewest

\* The newest row is the one that is nearest to the bound.
LEMMA NewestExists ==
  ASSUME NEW rows, NEW u \in TaskIds, rows[u] # "none"
  PROVE  \E t \in TaskIds : Newest(rows, t)
<1> DEFINE S == {d \in Nat : MaxTasks - d \in TaskIds /\ rows[MaxTasks - d] # "none"}
<1>1. ASSUME NEW v \in TaskIds, rows[v] # "none" PROVE MaxTasks - v \in S
  <2>1. MaxTasks - v \in Nat /\ MaxTasks - (MaxTasks - v) = v
    BY SessionAssumption DEF TaskIds
  <2> QED BY <1>1, <2>1
<1>2. PICK d \in S : \A e \in S : d <= e
  <2> HIDE DEF S
  <2>1. S \in SUBSET Nat /\ S # {}
    BY <1>1 DEF S
  <2> QED BY <2>1, Smallest
<1>3. ASSUME NEW v \in TaskIds, rows[v] # "none" PROVE v <= MaxTasks - d
  <2>1. d <= MaxTasks - v
    BY <1>1, <1>2, <1>3
  <2> QED BY <2>1, SessionAssumption DEF TaskIds
<1> QED BY <1>2, <1>3 DEF Newest

\* What a caller sees, before and after a step, given the newest task.
LEMMA SeenBefore ==
  ASSUME NEW t \in TaskIds, Newest(tasks, t)
  PROVE  LatestState = Seen(t, tasks[t], jobs[t])
<1>1. LatestTask = t
  BY NewestIsChosen DEF LatestTask, IsLatest, Newest
<1>2. ~NoTask
  BY DEF Newest, NoTask
<1> QED BY <1>1, <1>2 DEF LatestState, Seen

LEMMA SeenAfter ==
  ASSUME NEW t \in TaskIds, Newest(tasks', t)
  PROVE  LatestState' = Seen(t, tasks'[t], jobs'[t])
<1>1. LatestTask' = t
  BY NewestIsChosen DEF LatestTask, IsLatest, Newest
<1>2. ~NoTask'
  BY DEF Newest, NoTask
<1> QED BY <1>1, <1>2 DEF LatestState, Seen

-----------------------------------------------------------------------------
(* A step serves the caller when it is a step of SessionService or shows   *)
(* him nothing.                                                            *)

SameView == View' = View /\ Persistent(record)' = Persistent(record)
Serves   == Service!Next \/ SameView

LEMMA SeenIsState ==
  ASSUME NEW t, NEW state \in TaskStates \ {"none"}, NEW job
  PROVE  /\ Seen(t, state, job) \in Service!TaskStates \ {"none"}
         /\ Terminal(state) => Seen(t, state, job) \in Service!TaskOver
         /\ Seen(t, state, job) = "completed" => state = "completed"
BY DEF Seen, Terminal, TerminalStates, TaskStates, ActiveStates, Service!TaskStates,
   Service!TaskOver, Service!TaskResults, Service!TaskActive, Service!TaskUnlaunched

\* A session has a newest task, which is active if any is.
LEMMA SessionHasNewest ==
  ASSUME IInv, record # NoIntent
  PROVE  /\ \E t \in TaskIds : Newest(tasks, t)
         /\ LatestState \in Service!TaskStates \ {"none"}
         /\ ~HasActiveTask => LatestState \in Service!TaskOver
<1>1. InitialTask \in TaskIds /\ tasks[InitialTask] # "none" /\ tasks \in [TaskIds -> TaskStates]
  BY SessionAssumption DEF IInv, TypeOK, Durable, Rows, InitialTask, TaskIds
<1>2. PICK t \in TaskIds : Newest(tasks, t)
  BY <1>1, NewestExists
<1>3. LatestState = Seen(t, tasks[t], jobs[t]) /\ tasks[t] \in TaskStates \ {"none"}
  BY <1>1, <1>2, SeenBefore DEF Newest
<1>4. ~HasActiveTask => Terminal(tasks[t])
  BY <1>3 DEF HasActiveTask, Terminal, TaskStates
<1> QED BY <1>2, <1>3, <1>4, SeenIsState

LEMMA NoSessionSeen ==
  ASSUME IInv, record = NoIntent
  PROVE  View = Service!NoSession
BY DEF IInv, Durable, Rows, View, LatestState, Service!NoSession

\* The session stays, and so does its kind.
LEMMA SessionStays ==
  ASSUME IInv, record # NoIntent, record' = record,
         NEW state \in Service!TaskStates \ {"none"}, LatestState' = state,
         deletion' \in {"none"} \cup Deletions,
         Service!Becomes(View, [task |-> state, deletion |-> deletion'], ~Persistent(record))
  PROVE  Serves
<1>1. View # Service!NoSession
  BY SessionHasNewest DEF View, Service!NoSession
<1>2. View' = [task |-> state, deletion |-> deletion'] /\ View' \in Service!Sessions
  BY DEF View, Service!Sessions, Service!Deletions, Deletions
<1>3. (~Persistent(record)) \in BOOLEAN /\ (~Persistent(record))' = ~Persistent(record)
  BY DEF Persistent
<1> QED BY <1>1, <1>2, <1>3 DEF Serves, Service!Next, View

\* The caller sees the same task while no row changes and no Job of a task that
\* is not over appears or disappears.
LEMMA SameTask ==
  ASSUME IInv, UNCHANGED <<record, deletion, tasks>>,
         \A t \in TaskIds :
           tasks[t] # "none" => Terminal(tasks[t]) \/ (jobs[t] = "absent" <=> jobs'[t] = "absent")
  PROVE  SameView
<1>1. CASE record = NoIntent
  <2>1. NoTask /\ NoTask'
    BY <1>1 DEF IInv, Durable, Rows, NoTask
  <2> QED BY <2>1 DEF SameView, View, LatestState, Persistent
<1>2. CASE record # NoIntent
  <2>1. PICK t \in TaskIds : Newest(tasks, t)
    BY <1>2, SessionHasNewest
  <2>2. /\ LatestState = Seen(t, tasks[t], jobs[t])
        /\ LatestState' = Seen(t, tasks[t], jobs'[t])
    BY <2>1, SeenBefore, SeenAfter
  <2>3. Seen(t, tasks[t], jobs[t]) = Seen(t, tasks[t], jobs'[t])
    BY <2>1 DEF Seen, Newest
  <2> QED BY <2>2, <2>3 DEF SameView, View, Persistent
<1> QED BY <1>1, <1>2

LEMMA NothingSeen ==
  ASSUME IInv, UNCHANGED <<record, deletion, tasks, jobs>>
  PROVE  SameView
BY SameTask

\* A process that is about to launch, update or cancel a task means the newest one.
LEMMA AboutNewest ==
  ASSUME IInv, NEW p \in Procs, proc[p].pc \in {"job", "update", "cancel"}
  PROVE  /\ proc[p].task \in TaskIds /\ Newest(tasks, proc[p].task)
         /\ tasks[proc[p].task] \in ActiveStates
         /\ proc[p].pc # "job" => jobs[proc[p].task] # "absent"
         /\ record # NoIntent
BY AtCall DEF Local, IInv, Durable, ActiveTaskIsLatest, IsLatest, Newest

-----------------------------------------------------------------------------
(* One lemma per action the caller may see.                                *)

LEMMA CreateServes ==
  ASSUME IInv, NEW h \in Handlers, Create(h)
  PROVE  Serves
<1>1. CASE record # NoIntent
  BY <1>1, NothingSeen DEF Create, Serves, database, cluster
<1>2. CASE record = NoIntent
  <2>1. /\ tasks' = [tasks EXCEPT ![InitialTask] = "pending"] /\ UNCHANGED <<deletion, jobs>>
        /\ \A t \in TaskIds : tasks[t] = "none" /\ jobs[t] = "absent"
        /\ tasks \in [TaskIds -> TaskStates] /\ InitialTask \in TaskIds /\ deletion = "none"
    BY <1>2, SessionAssumption DEF Create, cluster, IInv, TypeOK, Durable, Rows,
       ClusterIsRecorded, NoTask, InitialTask, TaskIds
  <2>2. Newest(tasks', InitialTask)
    BY <2>1 DEF Newest, InitialTask, TaskIds
  <2>3. LatestState' = "recorded"
    BY <2>1, <2>2, SeenAfter DEF Seen, Terminal, TerminalStates
  <2>4. View' = [Service!NoSession EXCEPT !.task = "recorded"]
    BY <2>1, <2>3 DEF View, Service!NoSession
  <2>5. View = Service!NoSession
    BY <1>2, NoSessionSeen
  <2>6. Service!Records(View, View') /\ View' \in Service!Sessions
    BY <2>4, <2>5 DEF Service!Records, Service!NoSession, Service!Sessions, Service!TaskStates,
       Service!TaskUnlaunched
  <2>7. (~Persistent(record))' \in BOOLEAN
    BY DEF Persistent
  <2> QED BY <2>5, <2>6, <2>7 DEF Serves, Service!Next, Service!Becomes, View
<1> QED BY <1>1, <1>2

\* A later task is only added to a persistent session whose latest task is over.
LEMMA AddServes ==
  ASSUME IInv, NEW h \in Handlers, Add(h)
  PROVE  Serves
<1>1. CASE UNCHANGED tasks
  BY <1>1, NothingSeen DEF Add, Serves, cluster
<1>2. CASE /\ ~HasActiveTask /\ record # NoIntent /\ issued < MaxTasks
           /\ tasks' = [tasks EXCEPT ![issued + 1] = "pending"]
  <2>1. /\ Persistent(record) /\ deletion = "none" /\ UNCHANGED <<record, deletion, jobs>>
    BY AtCall DEF Add, At, Path, Local, Procs, cluster
  <2>2. PICK t : t = issued + 1
    OBVIOUS
  <2>3. /\ t \in TaskIds /\ t # InitialTask
        /\ \A u \in TaskIds : tasks[u] # "none" => u < t
        /\ tasks \in [TaskIds -> TaskStates] /\ tasks' = [tasks EXCEPT ![t] = "pending"]
    BY <1>2, <2>2, SessionAssumption DEF IInv, TypeOK, Durable, Rows, TaskIds, InitialTask
  <2>4. Newest(tasks', t) /\ tasks'[t] = "pending" /\ jobs'[t] = "absent"
    <3>1. \A u \in TaskIds : tasks'[u] # "none" => u <= t
      BY <2>3 DEF TaskIds
    <3>2. tasks[t] = "none"
      BY <2>3 DEF TaskIds
    <3>3. jobs[t] = "absent"
      BY <2>3, <3>2 DEF IInv, Durable, ClusterIsRecorded
    <3> QED BY <2>1, <2>3, <3>1, <3>3 DEF Newest
  <2>5. LatestState' = "readded"
    BY <2>3, <2>4, SeenAfter DEF Seen, Terminal, TerminalStates
  <2>6. LatestState \in Service!TaskOver
    BY <1>2, SessionHasNewest
  <2>7. Service!Readds(View, [task |-> "readded", deletion |-> deletion'])
    BY <2>1, <2>6 DEF View, Service!Readds
  <2> QED BY <1>2, <2>1, <2>5, <2>7, SessionStays DEF Service!Becomes, Service!TaskStates,
          Service!TaskUnlaunched
<1> QED BY <1>1, <1>2 DEF Add

LEMMA MarkServes ==
  ASSUME IInv, NEW h \in Handlers, Mark(h)
  PROVE  Serves
<1>1. CASE UNCHANGED deletion
  BY <1>1, NothingSeen DEF Mark, Serves, cluster
<1>2. CASE /\ record # NoIntent /\ deletion \in {"none", proc[h].arg} /\ deletion' = proc[h].arg
  <2>1. UNCHANGED <<record, tasks, jobs>> /\ deletion' \in Deletions
    BY <1>2, AtCall DEF Mark, At, Path, Procs, cluster
  <2>2. LatestState \in Service!TaskStates \ {"none"}
    BY <1>2, SessionHasNewest
  <2>3. LatestState' = LatestState
    <3>1. PICK t \in TaskIds : Newest(tasks, t)
      BY <1>2, SessionHasNewest
    <3> QED BY <2>1, <3>1, SeenBefore, SeenAfter
  <2>4. CASE deletion = "none"
    <3>1. Service!Marks(View, [task |-> LatestState, deletion |-> deletion'])
      BY <2>1, <2>2, <2>4 DEF View, Service!Marks, Deletions
    <3>2. PICK state \in Service!TaskStates \ {"none"} : state = LatestState
      BY <2>2
    <3> QED BY <1>2, <2>1, <2>3, <3>1, <3>2, SessionStays DEF Service!Becomes
  <2>5. CASE deletion # "none"
    BY <1>1, <1>2, <2>5
  <2> QED BY <2>4, <2>5
<1> QED BY <1>1, <1>2 DEF Mark

\* The latest task gets its Job.
LEMMA ApplyJobServes ==
  ASSUME IInv, NEW h \in Handlers, ApplyJob(h)
  PROVE  Serves
<1>1. PICK t \in TaskIds : t = proc[h].task
  BY AboutNewest DEF ApplyJob, At, Procs
<1>2. /\ Newest(tasks, t) /\ tasks[t] \in ActiveStates /\ record # NoIntent
      /\ UNCHANGED <<record, deletion, tasks>>
      /\ jobs' = [jobs EXCEPT ![t] = IF @ = "absent" THEN "created" ELSE @]
      /\ jobs \in [TaskIds -> JobStates] /\ deletion \in {"none"} \cup Deletions
  BY <1>1, AboutNewest DEF ApplyJob, At, Procs, database, IInv, TypeOK
<1>3. CASE jobs[t] # "absent"
  BY <1>2, <1>3, SameTask DEF Serves
<1>4. CASE jobs[t] = "absent"
  <2>1. /\ LatestState = (IF t = InitialTask THEN "recorded" ELSE "readded")
        /\ LatestState' = (IF t = InitialTask THEN "active" ELSE "again")
    BY <1>2, <1>4, SeenBefore, SeenAfter DEF Seen, Terminal, TerminalStates, ActiveStates
  <2>2. PICK state \in Service!TaskStates \ {"none"} : state = LatestState'
    BY <2>1 DEF Service!TaskStates, Service!TaskActive
  <2>3. Service!Moves(View, [task |-> state, deletion |-> deletion'])
    BY <1>2, <2>1, <2>2 DEF View, Service!Moves, Service!TaskMoves
  <2> QED BY <1>2, <2>2, <2>3, SessionStays DEF Service!Becomes
<1> QED BY <1>3, <1>4

\* An observation ends the latest task, whose Job exists, or shows nothing.
LEMMA UpdateServes ==
  ASSUME IInv, NEW p \in Procs, Update(p)
  PROVE  Serves
<1>1. PICK t \in TaskIds : t = proc[p].task
  BY AboutNewest DEF Update, At
<1>2. /\ Newest(tasks, t) /\ tasks[t] \in ActiveStates /\ record # NoIntent /\ jobs[t] # "absent"
      /\ UNCHANGED <<record, deletion, jobs>>
      /\ deletion \in {"none"} \cup Deletions /\ tasks \in [TaskIds -> TaskStates]
  BY <1>1, AboutNewest DEF Update, At, cluster, IInv, TypeOK
<1>3. PICK seen : seen = proc[p].seen
  OBVIOUS
<1>4. tasks' = [tasks EXCEPT ![t] = seen] /\ seen \in ActiveStates \cup {"completed", "blocked", "failed"}
  BY <1>1, <1>2, <1>3, AtCall DEF Update, At, UpdateTask, Local, ActiveStates
<1>5. Newest(tasks', t) /\ tasks'[t] = seen
  BY <1>2, <1>4 DEF Newest, ActiveStates
<1>6. /\ LatestState = (IF t = InitialTask THEN "active" ELSE "again")
      /\ LatestState' = Seen(t, seen, jobs[t])
  BY <1>2, <1>5, SeenBefore, SeenAfter DEF Seen, Terminal, TerminalStates, ActiveStates
<1>7. CASE seen \in ActiveStates
  <2>1. LatestState' = LatestState
    BY <1>2, <1>6, <1>7 DEF Seen, Terminal, TerminalStates, ActiveStates
  <2> QED BY <1>2, <2>1 DEF Serves, SameView, View, Persistent
<1>8. CASE seen \in {"completed", "blocked", "failed"}
  <2>1. LatestState' = IF seen = "completed" THEN (IF t = InitialTask THEN "completed" ELSE "continued")
                       ELSE seen
    BY <1>6, <1>8 DEF Seen, Terminal, TerminalStates
  <2>2. PICK state \in Service!TaskStates \ {"none"} : state = LatestState'
    BY <1>8, <2>1 DEF Service!TaskStates, Service!TaskOver, Service!TaskResults
  <2>3. Service!Moves(View, [task |-> state, deletion |-> deletion'])
    BY <1>2, <1>6, <1>8, <2>1, <2>2 DEF View, Service!Moves, Service!TaskMoves
  <2> QED BY <1>2, <2>2, <2>3, SessionStays DEF Service!Becomes
<1> QED BY <1>4, <1>7, <1>8

LEMMA CancelServes ==
  ASSUME IInv, NEW p \in Procs, Cancel(p)
  PROVE  Serves
<1>1. PICK t \in TaskIds : t = proc[p].task
  BY AboutNewest DEF Cancel, At
<1>2. /\ Newest(tasks, t) /\ tasks[t] \in ActiveStates /\ record # NoIntent /\ jobs[t] # "absent"
      /\ UNCHANGED <<record, deletion, jobs>>
      /\ deletion \in Deletions /\ tasks \in [TaskIds -> TaskStates]
  BY <1>1, AboutNewest, AtCall DEF Cancel, At, cluster, IInv, TypeOK, Path, Local
<1>3. tasks' = [tasks EXCEPT ![t] = "canceled"]
  BY <1>1, <1>2 DEF Cancel, UpdateTask, ActiveStates
<1>4. Newest(tasks', t) /\ tasks'[t] = "canceled"
  BY <1>2, <1>3 DEF Newest, ActiveStates
<1>5. LatestState \in Service!TaskActive /\ LatestState' = "canceled"
  BY <1>2, <1>4, SeenBefore, SeenAfter DEF Seen, Terminal, TerminalStates, ActiveStates,
     Service!TaskActive
<1>6. Service!Cancels(View, [task |-> "canceled", deletion |-> deletion'])
  BY <1>2, <1>5 DEF View, Service!Cancels, Deletions
<1> QED BY <1>2, <1>5, <1>6, SessionStays DEF Service!Becomes, Service!TaskStates, Service!TaskOver

\* The Jobs go when the latest task is over, which is all the caller knows of it.
LEMMA PurgeServes ==
  ASSUME IInv, NEW p \in Procs, Purge(p)
  PROVE  Serves
<1>1. ~HasActiveTask /\ UNCHANGED <<record, deletion, tasks>>
  BY AtCall DEF Purge, At, Local, database
<1>2. \A t \in TaskIds : tasks[t] # "none" => Terminal(tasks[t])
  BY <1>1 DEF HasActiveTask, Terminal, IInv, TypeOK, TaskStates
<1> QED BY <1>1, <1>2, SameTask DEF Serves

LEMMA FinishServes ==
  ASSUME IInv, NEW p \in Procs, Finish(p)
  PROVE  Serves
<1>1. /\ record # NoIntent /\ proc[p].snap = record /\ proc[p].arg = deletion
      /\ deletion \in Deletions /\ ~HasActiveTask
  BY AtCall DEF Finish, At, Path, Local
<1>2. LatestState \in Service!TaskOver
  BY <1>1, SessionHasNewest
<1>3. deletion' = "none" /\ UNCHANGED jobs
  BY DEF Finish, cluster
<1>4. CASE deletion = "storage" \/ ~Persistent(record)
  <2>1. record' = NoIntent /\ tasks' = [t \in TaskIds |-> "none"]
    BY <1>1, <1>4 DEF Finish
  <2>2. NoTask'
    BY <2>1 DEF NoTask
  <2>3. View' = Service!NoSession
    BY <1>3, <2>2 DEF View, LatestState, Service!NoSession
  <2>4. Service!Finishes(View, View', ~Persistent(record))
    BY <1>1, <1>2, <1>4, <2>3 DEF Service!Finishes, View, Deletions
  <2>5. View # Service!NoSession /\ View' \in Service!Sessions
    BY <1>1, <2>3, SessionHasNewest DEF View, Service!NoSession, Service!Sessions,
       Service!TaskStates
  <2>6. (~Persistent(record))' \in BOOLEAN
    BY DEF Persistent
  <2> QED BY <2>3, <2>4, <2>5, <2>6 DEF Serves, Service!Next, Service!Becomes, View
<1>5. CASE deletion # "storage" /\ Persistent(record)
  <2>1. UNCHANGED <<record, tasks>>
    BY <1>1, <1>5 DEF Finish
  <2>2. LatestState' = LatestState
    <3>1. PICK t \in TaskIds : Newest(tasks, t)
      BY <1>1, SessionHasNewest
    <3> QED BY <1>3, <2>1, <3>1, SeenBefore, SeenAfter
  <2>3. PICK state \in Service!TaskStates \ {"none"} : state = LatestState
    BY <1>1, SessionHasNewest
  <2>4. Service!Finishes(View, [task |-> state, deletion |-> deletion'], ~Persistent(record))
    BY <1>1, <1>2, <1>3, <1>5, <2>3 DEF Service!Finishes, View, Deletions
  <2> QED BY <1>1, <1>3, <2>1, <2>2, <2>3, <2>4, SessionStays DEF Service!Becomes
<1> QED BY <1>4, <1>5

LEMMA JobStepServes ==
  ASSUME IInv, NEW t \in TaskIds, JobStep(t)
  PROVE  Serves
<1>1. UNCHANGED <<record, deletion, tasks>> /\ jobs \in [TaskIds -> JobStates]
  BY DEF JobStep, database, IInv, TypeOK
<1>2. \A u \in TaskIds : jobs[u] = "absent" <=> jobs'[u] = "absent"
  BY <1>1 DEF JobStep, JobMoves
<1> QED BY <1>1, <1>2, SameTask DEF Serves

-----------------------------------------------------------------------------
\* What happens to a session, whoever asks for it, is what SessionService
\* promises a caller: its tasks end after their Jobs were created, and it is
\* canceled and removed only under a recorded deletion.
THEOREM ServiceImplemented == Spec => ImplementsService
<1>1. Init => Service!Init
  <2> SUFFICES ASSUME Init PROVE Service!Init
    OBVIOUS
  <2>1. NoTask /\ deletion = "none" /\ (~Persistent(record)) \in BOOLEAN
    BY DEF Init, NoTask, Persistent
  <2> QED BY <2>1 DEF Service!Init, Service!NoSession, LatestState
<1>2. IInv /\ [Next]_vars => [Service!Next]_<<[task |-> LatestState, deletion |-> deletion],
                                              ~Persistent(record)>>
  <2> SUFFICES ASSUME IInv, [Next]_vars PROVE Serves
    BY DEF Serves, SameView, View
  <2>1. UNCHANGED <<record, deletion, tasks, jobs>> => Serves
    BY NothingSeen DEF Serves
  <2>2. ASSUME NEW h \in Handlers, Acquire(h) \/ Handle(h)
               \/ \E op \in Operations, arg \in Intents \cup Deletions \cup {NoIntent} : Request(h, op, arg)
        PROVE  Serves
    BY <2>1, <2>2, CreateServes, AddServes, MarkServes, ApplyJobServes DEF Handle, Acquire,
       Request, Compare, Latest, ApplyClaim, Read, CloseLease, Load, database, cluster
  <2>3. ASSUME NEW p \in Procs, Work(p) \/ CallFails(p)
        PROVE  Serves
    BY <2>1, <2>3, UpdateServes, CancelServes, PurgeServes, FinishServes DEF Work, Sync, Observe,
       CallFails, database, cluster
  <2>4. CASE List \/ Crash \/ Restart \/ UNCHANGED vars
    BY <2>1, <2>4 DEF List, Crash, Restart, database, cluster, vars
  <2> QED BY <2>2, <2>3, <2>4, JobStepServes DEF Next
<1> QED BY <1>1, <1>2, InductiveInvariant, PTL DEF Spec, ImplementsService, Service!Spec
=============================================================================
