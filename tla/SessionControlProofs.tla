------------------------ MODULE SessionControlProofs ------------------------
(***************************************************************************)
(* Theorems about SessionControl, for any handlers, intents and bounds.    *)
(*                                                                         *)
(* The argument is the mutex: at most one process is between its calls     *)
(* (Exclusive), so what that process has read stays true until its next    *)
(* call (Local), although clients come and go and Jobs move on their own.  *)
(***************************************************************************)
EXTENDS SessionControl, TLAPS

Busy(p) == proc[p].pc \notin {"idle", "lock"}

\* The mutex and the start-up order keep processes out of each other's way.
Exclusive ==
  /\ \A h \in Handlers : Busy(h) => lock = h
  /\ \A h \in Handlers : ~At(h, "idle") => server = "up"
  /\ ~At(Boot, "idle") => server = "boot"

\* The rows of the session go together.
Rows ==
  /\ record = NoIntent <=> tasks[InitialTask] = "none"
  /\ record = NoIntent => deletion = "none" /\ NoTask
  /\ \A t \in TaskIds : tasks[t] # "none" => t <= issued

\* Everything that ran, ran with the workspace of its persistent session.
Workspace ==
  Persistent(record) /\ deletion # "storage" =>
    \A t \in TaskIds : jobs[t] # "absent" \/ Terminal(tasks[t]) => claim

\* Which operation can be where.
Path(p) ==
  LET at == proc[p] IN
  /\ Busy(p) /\ p = Boot => at.pc = "list" \/ at.op = "delete"
  /\ at.pc = "list" => p = Boot
  /\ at.pc \notin {"idle", "list"} => at.op # "none"
  /\ at.pc \in {"create", "compare", "latest", "claim"} => at.op = "start"
  /\ at.pc = "read" => at.op \in {"continue", "status", "publish"}
  /\ at.pc \in {"sync", "observe", "update"} =>
       at.op \in {"continue", "status", "publish", "delete"}
  /\ at.pc = "job" => at.op \in {"start", "continue"}
  /\ at.pc = "add" => at.op = "continue"
  /\ at.pc = "lease" => at.op = "publish"
  /\ at.pc \in {"load", "mark", "cancel", "purge", "finish"} => at.op = "delete"
  /\ at.pc # "idle" /\ at.op = "start" => at.arg \in Intents
  /\ at.pc # "idle" /\ at.op = "delete" => at.arg \in Deletions

\* What a process knows of the rows and the cluster at each place.
Local(p) ==
  LET at == proc[p] IN
  /\ at.pc \in {"latest", "claim", "job", "sync", "observe", "update", "add", "lease",
                "mark", "cancel", "purge", "finish"} =>
       at.snap = record /\ record # NoIntent
  /\ at.op = "delete" /\ at.pc \in {"sync", "observe", "update", "cancel", "purge", "finish"} =>
       deletion = at.arg
  /\ at.op = "continue" /\ at.pc \in {"sync", "observe", "update", "add", "job"} =>
       Persistent(record) /\ deletion = "none"
  /\ at.op = "publish" /\ at.pc \in {"sync", "observe", "update", "lease"} =>
       deletion = "none"
  /\ at.pc \in {"observe", "update", "cancel", "claim", "job"} =>
       at.task \in TaskIds /\ tasks[at.task] \in ActiveStates
  /\ at.pc \in {"update", "cancel"} => jobs[at.task] # "absent"
  /\ at.pc = "update" =>
       /\ at.seen \in ActiveStates \cup {"completed", "blocked", "failed"}
       /\ at.seen = "completed" => jobs[at.task] \in {"completed", "lost"}
       /\ at.seen = "blocked" => jobs[at.task] \in {"blocked", "lost"}
  /\ at.pc = "job" => (Persistent(record) => claim)
  /\ at.pc = "lease" =>
       /\ Persistent(record)
       /\ \E t \in TaskIds : IsLatest(t) /\ tasks[t] = "completed"
  /\ at.pc \in {"purge", "finish"} => ~HasActiveTask
  /\ at.pc = "finish" =>
       /\ \A t \in TaskIds : jobs[t] = "absent"
       /\ claim => at.arg = "compute"

\* The parts of the invariant that speak of the rows and the cluster only.
Durable ==
  Rows /\ Workspace /\ ClusterIsRecorded /\ ActiveTaskIsLatest /\ ResultsMatchEvidence

IInv ==
  /\ TypeOK
  /\ Exclusive
  /\ Durable
  /\ \A p \in Procs : Path(p) /\ Local(p)

-----------------------------------------------------------------------------
(* Lemmas about the moves every action is made of.                         *)

USE SessionAssumption

\* At most one process is busy: the mutex among handlers, and the start-up
\* goroutine is finished before the first handler begins.
LEMMA OneBusy ==
  ASSUME Exclusive, NEW p \in Procs, NEW q \in Procs, Busy(p), Busy(q)
  PROVE  p = q
BY SMT DEF Exclusive, Busy, At, Procs

\* A process that is not busy is promised nothing, so what a busy one does to
\* the rows and the cluster cannot invalidate what the others know.
LEMMA OthersUndisturbed ==
  ASSUME TypeOK, Exclusive, NEW p \in Procs, Busy(p), NEW local \in Locals,
         \A q \in Procs : Path(q), proc' = [proc EXCEPT ![p] = local]
  PROVE  /\ proc' \in [Procs -> Locals]
         /\ proc'[p] = local
         /\ \A q \in Procs \ {p} : Path(q)' /\ Local(q)'
<1>1. proc' \in [Procs -> Locals] /\ proc'[p] = local
  BY DEF TypeOK
<1>2. ASSUME NEW q \in Procs \ {p} PROVE Path(q)' /\ Local(q)'
  <2>1. ~Busy(q) /\ proc'[q] = proc[q] /\ Path(q)
    BY OneBusy DEF TypeOK
  <2>2. Path(q)'
    BY <2>1 DEF Path, Busy
  <2>3. Local(q)'
    BY <2>1 DEF Local, Busy
  <2> QED BY <2>2, <2>3
<1> QED BY <1>1, <1>2

LEMMA StepKeepsOrder ==
  ASSUME TypeOK, Exclusive, NEW p \in Procs, Busy(p), NEW local \in Locals, Step(p, local)
  PROVE  Exclusive' /\ lock' = lock /\ server' = server
BY DEF Step, Exclusive, Busy, At, Procs, TypeOK

LEMMA IdleIsLocal == Idle \in Locals
BY DEF Idle, Locals, Places, Calls, Operations, TaskStates

LEMMA DoneKeepsOrder ==
  ASSUME TypeOK, Exclusive, NEW p \in Procs, Busy(p), Done(p), \A q \in Procs : Path(q)
  PROVE  /\ proc' \in [Procs -> Locals]
         /\ lock' \in Handlers \cup {Free} /\ server' \in {"up", "boot", "down"}
         /\ Exclusive'
         /\ \A q \in Procs : Path(q)' /\ Local(q)'
<1>1. /\ proc' \in [Procs -> Locals] /\ proc'[p] = Idle
      /\ \A q \in Procs \ {p} : Path(q)' /\ Local(q)' /\ ~Busy(q) /\ proc'[q] = proc[q]
  BY OthersUndisturbed, OneBusy, IdleIsLocal DEF Done, TypeOK
<1>2. Path(p)' /\ Local(p)'
  BY <1>1 DEF Path, Local, Idle, Busy
<1>3. Exclusive'
  BY <1>1 DEF Done, Exclusive, Busy, At, Procs, Idle
<1>4. lock' \in Handlers \cup {Free} /\ server' \in {"up", "boot", "down"}
  BY DEF Done, TypeOK
<1> QED BY <1>1, <1>2, <1>3, <1>4

LEMMA DurableUnchanged ==
  ASSUME Durable, UNCHANGED <<database, cluster>>
  PROVE  Durable'
BY DEF Durable, Rows, Workspace, ClusterIsRecorded, ActiveTaskIsLatest, ResultsMatchEvidence,
       database, cluster, NoTask, IsLatest

-----------------------------------------------------------------------------
(* One lemma per action: it preserves the invariant.                       *)

RowsTyped ==
  /\ record \in Intents \cup {NoIntent}
  /\ deletion \in {"none"} \cup Deletions
  /\ tasks \in [TaskIds -> TaskStates]
  /\ issued \in TaskIds
  /\ jobs \in [TaskIds -> JobStates]
  /\ claim \in BOOLEAN
  /\ faults \in 0..MaxFaults

\* A busy process returns: nothing remains to be said about it.
LEMMA Returns ==
  ASSUME IInv, NEW p \in Procs, Busy(p), Done(p), RowsTyped', Durable'
  PROVE  IInv'
BY DoneKeepsOrder DEF IInv, TypeOK, RowsTyped

\* A busy process goes on to its next call.
LEMMA GoesOn ==
  ASSUME IInv, NEW p \in Procs, Busy(p), NEW local \in Locals, Step(p, local),
         RowsTyped', Durable', Path(p)', Local(p)'
  PROVE  IInv'
<1>1. /\ Exclusive' /\ lock' = lock /\ server' = server
      /\ proc' \in [Procs -> Locals]
      /\ \A q \in Procs \ {p} : Path(q)' /\ Local(q)'
  BY OthersUndisturbed, StepKeepsOrder DEF IInv, Step
<1> QED BY <1>1 DEF IInv, TypeOK, RowsTyped

\* The same for calls that only read.
LEMMA ReadOnly ==
  ASSUME IInv, UNCHANGED <<database, cluster>>, faults' \in 0..MaxFaults
  PROVE  RowsTyped' /\ Durable'
BY DurableUnchanged DEF IInv, TypeOK, RowsTyped, database, cluster

LEMMA ReadReturns ==
  ASSUME IInv, NEW p \in Procs, Busy(p), Done(p), UNCHANGED <<database, cluster>>,
         faults' \in 0..MaxFaults
  PROVE  IInv'
BY Returns, ReadOnly

LEMMA ReadGoesOn ==
  ASSUME IInv, NEW p \in Procs, Busy(p), NEW local \in Locals, Step(p, local),
         UNCHANGED <<database, cluster, faults>>, Path(p)', Local(p)'
  PROVE  IInv'
BY GoesOn, ReadOnly DEF IInv, TypeOK

\* What a process at one of its calls knows, with its types.
LEMMA AtCall ==
  ASSUME IInv, NEW p \in Procs
  PROVE  /\ proc \in [Procs -> Locals] /\ proc[p] \in Locals
         /\ Path(p) /\ Local(p)
         /\ faults \in 0..MaxFaults /\ (Fault => faults' \in 0..MaxFaults)
BY DEF IInv, TypeOK, Fault

LEMMA RequestPreserves ==
  ASSUME IInv, NEW h \in Handlers, NEW op \in Operations,
         NEW arg \in Intents \cup Deletions \cup {NoIntent}, Request(h, op, arg)
  PROVE  IInv'
<1>1. h \in Procs /\ ~Busy(h)
  BY DEF Request, At, Busy, Procs
<1>2. /\ proc'[h] = [Idle EXCEPT !.pc = "lock", !.op = op, !.arg = arg]
      /\ \A q \in Procs \ {h} : proc'[q] = proc[q]
      /\ proc' \in [Procs -> Locals]
  BY <1>1, IdleIsLocal DEF Request, IInv, TypeOK, Locals, Places, Idle
<1>3. Durable'
  BY DurableUnchanged DEF IInv, Request
<1>4. TypeOK'
  BY <1>2 DEF IInv, TypeOK, Request, database, cluster
<1>5. Exclusive'
  BY <1>1, <1>2, SMT DEF IInv, Exclusive, Request, Busy, At, Procs, Idle
<1>6. Path(h)' /\ Local(h)'
  BY <1>2 DEF Path, Local, Idle, Request, Busy, Operations
<1>7. ASSUME NEW q \in Procs \ {h} PROVE Path(q)' /\ Local(q)'
  BY <1>2 DEF IInv, Request, database, cluster, Path, Local, Busy, HasActiveTask, IsLatest
<1> QED BY <1>3, <1>4, <1>5, <1>6, <1>7 DEF IInv

LEMMA AcquirePreserves ==
  ASSUME IInv, NEW h \in Handlers, Acquire(h)
  PROVE  IInv'
<1>1. h \in Procs /\ server = "up" /\ \A q \in Procs : ~Busy(q)
  BY DEF Acquire, At, Busy, Procs, IInv, Exclusive, TypeOK
<1>2. /\ proc'[h] = Goto(h, FirstCall(proc[h].op))
      /\ \A q \in Procs \ {h} : proc'[q] = proc[q]
      /\ proc' \in [Procs -> Locals]
  BY <1>1 DEF Acquire, IInv, TypeOK, Locals, Places, Calls, Goto, FirstCall
<1>3. Durable'
  BY DurableUnchanged DEF IInv, Acquire
<1>4. TypeOK'
  BY <1>2 DEF IInv, TypeOK, Acquire, database, cluster
<1>5. Exclusive'
  BY <1>1, <1>2 DEF IInv, Exclusive, Acquire, Busy, At, Procs, Goto, FirstCall
<1>6. Path(h)'
  BY <1>1, <1>2 DEF Path, Acquire, Busy, IInv, At, TypeOK, Locals, Operations, Goto, FirstCall
<1>7. Local(h)'
  BY <1>1, <1>2 DEF Local, Acquire, Busy, IInv, At, Goto, FirstCall
<1>8. ASSUME NEW q \in Procs \ {h} PROVE Path(q)' /\ Local(q)'
  BY <1>1, <1>2 DEF IInv, Path, Local, Busy
<1> QED BY <1>3, <1>4, <1>5, <1>6, <1>7, <1>8 DEF IInv

LEMMA CreatePreserves ==
  ASSUME IInv, NEW h \in Handlers, Create(h)
  PROVE  IInv'
<1>1. /\ h \in Procs /\ Busy(h) /\ proc[h] \in Locals /\ Path(h) /\ proc[h].op = "start"
      /\ proc[h].arg \in Intents /\ proc[h].pc = "create"
  BY AtCall DEF Create, At, Busy, Procs, Path
<1>2. CASE record = NoIntent
  <2> DEFINE local == [Goto(h, "claim") EXCEPT !.snap = proc[h].arg, !.task = InitialTask]
  <2>1. /\ record' = proc[h].arg /\ tasks' = [tasks EXCEPT ![InitialTask] = "pending"]
        /\ UNCHANGED <<deletion, issued, jobs, claim>> /\ Reply(h, local)
        /\ deletion = "none" /\ NoTask
    BY <1>2 DEF Create, IInv, Durable, Rows, cluster
  <2>2. local \in Locals
    <3>1. InitialTask \in 0..MaxTasks
      BY DEF InitialTask
    <3> QED BY <1>1, <3>1 DEF Locals, Goto, Places, Calls
  <2>3. \A t \in TaskIds : jobs[t] = "absent"
    BY <2>1 DEF NoTask, IInv, Durable, ClusterIsRecorded
  <2>4. RowsTyped'
    BY <1>1, <2>1, AtCall DEF RowsTyped, IInv, TypeOK, Reply, InitialTask, TaskIds, TaskStates, ActiveStates
  <2>5. Durable'
    <3>1. Rows'
      BY <1>1, <2>1 DEF IInv, TypeOK, Durable, Rows, NoTask, InitialTask, TaskIds
    <3>2. Workspace' /\ ClusterIsRecorded'
      BY <1>1, <1>2, <2>1, <2>3 DEF IInv, TypeOK, Durable, Workspace, ClusterIsRecorded, NoTask,
         InitialTask, TaskIds, Terminal, TerminalStates, Persistent
    <3>3. ActiveTaskIsLatest' /\ ResultsMatchEvidence'
      BY <1>1, <2>1 DEF IInv, TypeOK, ActiveTaskIsLatest, ResultsMatchEvidence, NoTask, IsLatest,
         InitialTask, TaskIds, ActiveStates
    <3> QED BY <3>1, <3>2, <3>3 DEF Durable
  <2>6. CASE Step(h, local)
    <3>1. proc'[h] = local
      BY <1>1, <2>2, <2>6, AtCall DEF Step
    <3>2. Path(h)'
      BY <1>1, <3>1 DEF Path, Goto, Busy, Procs
    <3>3. Local(h)'
      BY <1>1, <2>1, <3>1 DEF Local, Goto, InitialTask, TaskIds, ActiveStates, IInv, TypeOK
    <3> QED BY <1>1, <2>2, <2>4, <2>5, <2>6, <3>2, <3>3, GoesOn
  <2>7. CASE Done(h)
    BY <1>1, <2>4, <2>5, <2>7, Returns
  <2> QED BY <2>1, <2>6, <2>7 DEF Reply
<1>3. CASE record # NoIntent
  <2> DEFINE local == Goto(h, "compare")
  <2>1. Step(h, local) /\ UNCHANGED <<database, cluster, faults>>
    BY <1>3 DEF Create
  <2>2. local \in Locals
    BY <1>1 DEF Locals, Goto, Places, Calls
  <2>3. proc'[h] = local
    BY <1>1, <2>1, <2>2, AtCall DEF Step
  <2>4. Path(h)' /\ Local(h)'
    BY <1>1, <2>3 DEF Path, Local, Goto, Busy, Procs
  <2> QED BY <1>1, <2>1, <2>2, <2>4, ReadGoesOn
<1> QED BY <1>2, <1>3

LEMMA ComparePreserves ==
  ASSUME IInv, NEW h \in Handlers, Compare(h)
  PROVE  IInv'
<1>1. /\ h \in Procs /\ Busy(h) /\ proc[h] \in Locals /\ Path(h) /\ proc[h].op = "start"
      /\ proc[h].arg \in Intents /\ proc[h].pc = "compare"
      /\ UNCHANGED <<database, cluster, faults>> /\ faults \in 0..MaxFaults
  BY AtCall DEF Compare, At, Busy, Procs, Path
<1> DEFINE local == [Goto(h, "latest") EXCEPT !.snap = record]
<1>2. CASE record = proc[h].arg /\ Step(h, local)
  <2>1. local \in Locals /\ proc'[h] = local
    BY <1>1, <1>2, AtCall DEF Locals, Goto, Places, Calls, Step
  <2>2. Path(h)' /\ Local(h)'
    BY <1>1, <1>2, <2>1 DEF Path, Local, Goto, Busy, Procs, database
  <2> QED BY <1>1, <1>2, <2>1, <2>2, ReadGoesOn
<1>3. CASE Done(h)
  BY <1>1, <1>3, ReadReturns
<1> QED BY <1>2, <1>3 DEF Compare

LEMMA LatestPreserves ==
  ASSUME IInv, NEW h \in Handlers, Latest(h)
  PROVE  IInv'
<1>1. /\ h \in Procs /\ Busy(h) /\ proc[h] \in Locals /\ Path(h) /\ Local(h)
      /\ proc[h].op = "start" /\ proc[h].pc = "latest"
      /\ UNCHANGED <<database, cluster, faults>> /\ faults \in 0..MaxFaults
  BY AtCall DEF Latest, At, Busy, Procs, Path
<1>2. ASSUME NEW t \in TaskIds, IsLatest(t), ~Terminal(tasks[t]),
             Step(h, [Goto(h, "claim") EXCEPT !.task = t])
      PROVE  IInv'
  <2> DEFINE local == [Goto(h, "claim") EXCEPT !.task = t]
  <2>1. local \in Locals /\ proc'[h] = local
    <3>1. t \in 0..MaxTasks
      BY DEF TaskIds
    <3> QED BY <1>1, <1>2, <3>1, AtCall DEF Locals, Goto, Places, Calls, Step
  <2>2. tasks[t] \in ActiveStates
    BY <1>2 DEF IsLatest, Terminal, IInv, TypeOK, TaskStates
  <2>3. Path(h)'
    BY <1>1, <2>1 DEF Path, Goto, Busy, Procs
  <2>4. Local(h)'
    BY <1>1, <2>1, <2>2 DEF Local, Goto, database
  <2> QED BY <1>1, <1>2, <2>1, <2>3, <2>4, ReadGoesOn
<1>3. CASE Done(h)
  BY <1>1, <1>3, ReadReturns
<1> QED BY <1>2, <1>3 DEF Latest

LEMMA ApplyClaimPreserves ==
  ASSUME IInv, NEW h \in Handlers, ApplyClaim(h)
  PROVE  IInv'
<1>1. /\ h \in Procs /\ Busy(h) /\ proc[h] \in Locals /\ Path(h) /\ Local(h)
      /\ proc[h].op = "start" /\ proc[h].pc = "claim" /\ proc[h].snap = record
      /\ claim' = (claim \/ Persistent(record)) /\ UNCHANGED <<database, jobs>>
      /\ Reply(h, Goto(h, "job"))
  BY AtCall DEF ApplyClaim, At, Busy, Procs, Path, Local
<1>2. RowsTyped'
  BY <1>1, AtCall DEF RowsTyped, IInv, TypeOK, Reply, database
<1>3. Durable'
  BY <1>1 DEF IInv, Durable, Rows, Workspace, ClusterIsRecorded, ActiveTaskIsLatest,
     ResultsMatchEvidence, NoTask, IsLatest, database, Persistent
<1>4. CASE Step(h, Goto(h, "job"))
  <2>1. Goto(h, "job") \in Locals /\ proc'[h] = Goto(h, "job")
    BY <1>1, <1>4, AtCall DEF Locals, Goto, Places, Calls, Step
  <2>2. Path(h)'
    BY <1>1, <2>1 DEF Path, Goto, Busy, Procs
  <2>3. Local(h)'
    <3>1. Persistent(record') => claim'
      BY <1>1, Zenon DEF database, Persistent
    <3> QED BY <1>1, <2>1, <3>1 DEF Local, Goto, database
  <2> QED BY <1>1, <1>2, <1>3, <1>4, <2>1, <2>2, <2>3, GoesOn
<1>5. CASE Done(h)
  BY <1>1, <1>2, <1>3, <1>5, Returns
<1> QED BY <1>1, <1>4, <1>5 DEF Reply

LEMMA ApplyJobPreserves ==
  ASSUME IInv, NEW h \in Handlers, ApplyJob(h)
  PROVE  IInv'
<1>1. /\ h \in Procs /\ Busy(h) /\ proc[h] \in Locals /\ Local(h) /\ proc[h].pc = "job"
      /\ proc[h].task \in TaskIds /\ tasks[proc[h].task] \in ActiveStates
      /\ (Persistent(record) => claim)
      /\ UNCHANGED <<database, claim>> /\ Done(h) /\ faults' \in 0..MaxFaults
      /\ jobs' = [jobs EXCEPT ![proc[h].task] = IF @ = "absent" THEN "created" ELSE @]
  BY AtCall DEF ApplyJob, ReplyLast, At, Busy, Procs, Local
<1>2. RowsTyped'
  BY <1>1 DEF RowsTyped, IInv, TypeOK, database, JobStates, LiveJobs
<1>3. Rows' /\ ActiveTaskIsLatest'
  BY <1>1 DEF IInv, Durable, Rows, ActiveTaskIsLatest, NoTask, IsLatest, database
<1>4. Workspace' /\ ClusterIsRecorded' /\ ResultsMatchEvidence'
  BY <1>1 DEF IInv, TypeOK, Durable, Workspace, ClusterIsRecorded, ResultsMatchEvidence, database,
     ActiveStates, Terminal, Persistent
<1> QED BY <1>1, <1>2, <1>3, <1>4, Returns DEF Durable

LEMMA ReadPreserves ==
  ASSUME IInv, NEW h \in Handlers, Read(h)
  PROVE  IInv'
<1>1. /\ h \in Procs /\ Busy(h) /\ proc[h] \in Locals /\ Path(h)
      /\ proc[h].op \in {"continue", "status", "publish"} /\ proc[h].pc = "read"
      /\ UNCHANGED <<database, cluster, faults>> /\ faults \in 0..MaxFaults
  BY AtCall DEF Read, At, Busy, Procs, Path
<1> DEFINE local == [Goto(h, "sync") EXCEPT !.snap = record]
<1>2. CASE MayProceed(h) /\ Step(h, local)
  <2>1. record \in Intents \cup {NoIntent}
    BY DEF IInv, TypeOK
  <2>2. local \in Locals /\ proc'[h] = local
    BY <1>1, <1>2, <2>1, AtCall DEF Locals, Goto, Places, Calls, Step
  <2>3. Path(h)'
    BY <1>1, <2>2 DEF Path, Goto, Busy, Procs
  <2>4. Local(h)'
    BY <1>1, <1>2, <2>2 DEF Local, Goto, database, MayProceed, Persistent
  <2> QED BY <1>1, <1>2, <2>2, <2>3, <2>4, ReadGoesOn
<1>3. CASE Done(h)
  BY <1>1, <1>3, ReadReturns
<1> QED BY <1>2, <1>3 DEF Read

\* After a synchronization the process knows the state of the latest task, and
\* wherever its operation goes from there, that is all it needs.
LEMMA SynchronizedPreserves ==
  ASSUME IInv, NEW p \in Procs, proc[p].pc \in {"sync", "update"},
         NEW local \in Locals, NEW t \in TaskIds, NEW state \in TaskStates,
         local.op = proc[p].op, local.arg = proc[p].arg, local.snap = proc[p].snap,
         local.task = t, local.seen = state,
         ~Terminal(state) => state \in ActiveStates /\ jobs[t] # "absent",
         Synchronized(p, local), UNCHANGED <<record, deletion, issued, jobs, claim, faults>>,
         RowsTyped', Durable', tasks'[t] = state, IsLatest(t)'
  PROVE  IInv'
<1>1. Busy(p) /\ proc[p] \in Locals /\ Path(p) /\ Local(p)
  BY AtCall DEF Busy
<1>2. CASE Done(p)
  BY <1>1, <1>2, Returns
<1>3. CASE local.op = "continue" /\ Step(p, [local EXCEPT !.pc = "add"])
  <2> DEFINE next == [local EXCEPT !.pc = "add"]
  <2>1. next \in Locals /\ proc'[p] = next
    BY <1>1, <1>3, AtCall DEF Locals, Places, Calls, Step
  <2>2. Path(p)'
    BY <1>1, <1>3, <2>1 DEF Path, Busy
  <2>3. Local(p)'
    BY <1>1, <1>3, <2>1 DEF Local, Persistent
  <2> QED BY <1>1, <1>3, <2>1, <2>2, <2>3, GoesOn
<1>4. CASE local.op = "delete" /\ Terminal(local.seen) /\ Step(p, [local EXCEPT !.pc = "purge"])
  <2> DEFINE next == [local EXCEPT !.pc = "purge"]
  <2>1. next \in Locals /\ proc'[p] = next
    BY <1>1, <1>4, AtCall DEF Locals, Places, Calls, Step
  <2>2. Path(p)'
    BY <1>1, <1>4, <2>1 DEF Path, Busy
  <2>3. ~HasActiveTask'
    <3>1. tasks'[t] \notin ActiveStates
      BY <1>4 DEF Terminal, TerminalStates, ActiveStates
    <3>2. ASSUME NEW u \in TaskIds, tasks'[u] \in ActiveStates PROVE u = t
      BY <3>2 DEF Durable, ActiveTaskIsLatest, IsLatest, ActiveStates, TaskIds
    <3> QED BY <3>1, <3>2 DEF HasActiveTask
  <2>4. Local(p)'
    BY <1>1, <1>4, <2>1, <2>3 DEF Local
  <2> QED BY <1>1, <1>4, <2>1, <2>2, <2>4, GoesOn
<1>5. CASE local.op = "delete" /\ ~Terminal(local.seen) /\ Step(p, [local EXCEPT !.pc = "cancel"])
  <2> DEFINE next == [local EXCEPT !.pc = "cancel"]
  <2>1. next \in Locals /\ proc'[p] = next
    BY <1>1, <1>5, AtCall DEF Locals, Places, Calls, Step
  <2>2. Path(p)'
    BY <1>1, <1>5, <2>1 DEF Path, Busy
  <2>3. Local(p)'
    BY <1>1, <1>5, <2>1 DEF Local
  <2> QED BY <1>1, <1>5, <2>1, <2>2, <2>3, GoesOn
<1>6. CASE /\ local.op = "publish" /\ local.seen = "completed" /\ Persistent(local.snap)
           /\ Step(p, [local EXCEPT !.pc = "lease"])
  <2> DEFINE next == [local EXCEPT !.pc = "lease"]
  <2>1. next \in Locals /\ proc'[p] = next
    BY <1>1, <1>6, AtCall DEF Locals, Places, Calls, Step
  <2>2. Path(p)'
    BY <1>1, <1>6, <2>1 DEF Path, Busy
  <2>3. Local(p)'
    BY <1>1, <1>6, <2>1 DEF Local, Persistent
  <2> QED BY <1>1, <1>6, <2>1, <2>2, <2>3, GoesOn
<1> QED BY <1>2, <1>3, <1>4, <1>5, <1>6 DEF Synchronized

LEMMA SyncPreserves ==
  ASSUME IInv, NEW p \in Procs, Sync(p)
  PROVE  IInv'
<1>1. /\ Busy(p) /\ proc[p] \in Locals /\ Path(p) /\ Local(p) /\ proc[p].pc = "sync"
      /\ UNCHANGED <<database, cluster, faults>> /\ faults \in 0..MaxFaults
      /\ record # NoIntent /\ RowsTyped' /\ Durable'
  BY AtCall, ReadOnly DEF Sync, At, Busy, Local
<1>2. CASE NoTask
  BY <1>1, <1>2 DEF IInv, Durable, Rows, NoTask, InitialTask, TaskIds
<1>3. ASSUME NEW t \in TaskIds, IsLatest(t), Terminal(tasks[t]),
             Synchronized(p, [proc[p] EXCEPT !.task = t, !.seen = tasks[t]])
      PROVE  IInv'
  <2> DEFINE local == [proc[p] EXCEPT !.task = t, !.seen = tasks[t]]
  <2>1. t \in 0..MaxTasks /\ tasks[t] \in TaskStates
    BY DEF TaskIds, IInv, TypeOK
  <2>2. /\ local \in Locals /\ local.op = proc[p].op /\ local.arg = proc[p].arg
        /\ local.snap = proc[p].snap /\ local.task = t /\ local.seen = tasks[t]
    BY <1>1, <2>1 DEF Locals
  <2>3. tasks'[t] = tasks[t] /\ IsLatest(t)' /\ UNCHANGED <<record, deletion, issued, jobs, claim, faults>>
    BY <1>1, <1>3 DEF database, cluster, IsLatest
  <2> QED BY <1>1, <1>3, <2>1, <2>2, <2>3, SynchronizedPreserves
<1>4. ASSUME NEW t \in TaskIds, IsLatest(t), ~Terminal(tasks[t]),
             Step(p, [[proc[p] EXCEPT !.task = t, !.seen = tasks[t]] EXCEPT !.pc = "observe"])
      PROVE  IInv'
  <2> DEFINE local == [proc[p] EXCEPT !.task = t, !.seen = tasks[t]]
             next  == [local EXCEPT !.pc = "observe"]
  <2>1. t \in 0..MaxTasks /\ tasks[t] \in TaskStates
    BY DEF TaskIds, IInv, TypeOK
  <2>2. local \in Locals
    BY <1>1, <2>1 DEF Locals
  <2>3. next \in Locals /\ proc'[p] = next
    BY <1>1, <1>4, <2>2, AtCall DEF Locals, Places, Calls, Step
  <2>4. tasks[t] \in ActiveStates
    BY <1>4, <2>1 DEF IsLatest, Terminal, TaskStates
  <2>5. next.task = t /\ next.op = proc[p].op /\ next.arg = proc[p].arg /\ next.snap = proc[p].snap
    BY <1>1, <2>1 DEF Locals
  <2>6. Path(p)'
    BY <1>1, <2>3, <2>5 DEF Path, Busy
  <2>7. Local(p)'
    BY <1>1, <2>3, <2>4, <2>5 DEF Local, database, Persistent
  <2> QED BY <1>1, <1>4, <2>3, <2>6, <2>7, ReadGoesOn
<1>5. CASE ~NoTask
  <2>1. PICK t \in TaskIds :
          /\ IsLatest(t)
          /\ IF Terminal(tasks[t])
             THEN Synchronized(p, [proc[p] EXCEPT !.task = t, !.seen = tasks[t]])
             ELSE Step(p, [[proc[p] EXCEPT !.task = t, !.seen = tasks[t]] EXCEPT !.pc = "observe"])
    BY <1>5, Zenon DEF Sync
  <2>2. CASE Terminal(tasks[t])
    BY <1>3, <2>1, <2>2, Zenon
  <2>3. CASE ~Terminal(tasks[t])
    BY <1>4, <2>1, <2>3, Zenon
  <2> QED BY <2>2, <2>3
<1> QED BY <1>2, <1>5

LEMMA ObservePreserves ==
  ASSUME IInv, NEW p \in Procs, Observe(p)
  PROVE  IInv'
<1>1. /\ Busy(p) /\ proc[p] \in Locals /\ Path(p) /\ Local(p) /\ proc[p].pc = "observe"
      /\ UNCHANGED <<database, cluster, faults>> /\ faults \in 0..MaxFaults
      /\ proc[p].task \in TaskIds
  BY AtCall DEF Observe, At, Busy, Local
<1> DEFINE job == jobs[proc[p].task]
           next == [Goto(p, "update") EXCEPT !.seen = Observed(job)]
<1>2. CASE Observable(job) /\ Step(p, next)
  <2>1. job \in JobStates /\ Observed(job) \in ActiveStates \cup {"completed", "blocked", "failed"}
    BY <1>1 DEF IInv, TypeOK, Observed, ActiveStates
  <2>2. next \in Locals /\ proc'[p] = next
    <3>1. PICK seen \in TaskStates : seen = Observed(job)
      BY <2>1 DEF TaskStates, ActiveStates, TerminalStates
    <3>2. [Goto(p, "update") EXCEPT !.seen = seen] \in Locals
      BY <1>1 DEF Locals, Goto, Places, Calls
    <3> QED BY <1>1, <1>2, <3>1, <3>2, AtCall DEF Step
  <2>3. Path(p)'
    BY <1>1, <2>2 DEF Path, Goto, Busy
  <2>4. /\ job # "absent" /\ (Observed(job) = "completed" => job = "completed")
        /\ (Observed(job) = "blocked" => job = "blocked")
    BY <1>2 DEF Observable, Observed
  <2>5. Local(p)'
    BY <1>1, <2>1, <2>2, <2>4 DEF Local, Goto, database, cluster, Persistent
  <2> QED BY <1>1, <1>2, <2>2, <2>3, <2>5, ReadGoesOn
<1>3. CASE Done(p)
  BY <1>1, <1>3, ReadReturns
<1> QED BY <1>2, <1>3 DEF Observe

LEMMA UpdatePreserves ==
  ASSUME IInv, NEW p \in Procs, Update(p)
  PROVE  IInv'
<1>0. PICK t \in TaskIds, state \in TaskStates : t = proc[p].task /\ state = proc[p].seen
  BY AtCall DEF Update, At, Local, Locals
<1>1. /\ Busy(p) /\ proc[p] \in Locals /\ Path(p) /\ Local(p) /\ proc[p].pc = "update"
      /\ tasks[t] \in ActiveStates /\ jobs[t] # "absent"
      /\ state \in ActiveStates \cup {"completed", "blocked", "failed"}
      /\ tasks' = [tasks EXCEPT ![t] = state]
      /\ UNCHANGED <<record, deletion, issued, jobs, claim>>
  BY <1>0, AtCall DEF Update, UpdateTask, At, Busy, Local, cluster, ActiveStates
<1>2. /\ IsLatest(t) /\ tasks'[t] = state /\ state # "none"
      /\ \A u \in TaskIds \ {t} : tasks'[u] = tasks[u]
  BY <1>1 DEF IInv, TypeOK, Durable, ActiveTaskIsLatest, ActiveStates
<1>8. \A u \in TaskIds : IsLatest(u)' <=> IsLatest(u)
  BY <1>1, <1>2 DEF IsLatest
<1>3. faults' \in 0..MaxFaults
  BY AtCall DEF Update
<1>4. RowsTyped'
  BY <1>1, <1>3 DEF RowsTyped, IInv, TypeOK
<1>5. Durable'
  <2>1. Rows' /\ ClusterIsRecorded' /\ ActiveTaskIsLatest'
    BY <1>1, <1>2, <1>8 DEF IInv, TypeOK, Durable, Rows, ClusterIsRecorded, ActiveTaskIsLatest,
       NoTask, ActiveStates, InitialTask, TaskIds
  <2>2. Workspace'
    BY <1>1 DEF IInv, TypeOK, Durable, Workspace, Terminal
  <2>3. ResultsMatchEvidence'
    <3>1. /\ state = "completed" => jobs[t] \in {"completed", "lost"}
          /\ state = "blocked" => jobs[t] \in {"blocked", "lost"}
      BY <1>0, <1>1 DEF Local
    <3>2. ASSUME NEW u \in TaskIds
          PROVE  /\ tasks'[u] = "completed" => jobs[u] \in {"completed", "lost", "absent"}
                 /\ tasks'[u] = "blocked" => jobs[u] \in {"blocked", "lost", "absent"}
      BY <1>2, <3>1 DEF IInv, Durable, ResultsMatchEvidence
    <3> QED BY <1>1, <3>2 DEF ResultsMatchEvidence
  <2> QED BY <2>1, <2>2, <2>3 DEF Durable
<1>6. CASE Synchronized(p, proc[p]) /\ UNCHANGED faults
  <2>1. ~Terminal(state) => state \in ActiveStates /\ jobs[t] # "absent"
    BY <1>1 DEF Terminal, TerminalStates
  <2>2. IsLatest(t)' /\ UNCHANGED <<record, deletion, issued, jobs, claim, faults>>
    BY <1>1, <1>2, <1>8, <1>6
  <2>3. proc[p].task = t /\ proc[p].seen = state
    BY <1>0
  <2> QED BY <1>1, <1>2, <1>4, <1>5, <1>6, <2>1, <2>2, <2>3, SynchronizedPreserves
<1>7. CASE Done(p)
  BY <1>1, <1>4, <1>5, <1>7, Returns
<1> QED BY <1>0, <1>1, <1>6, <1>7 DEF Update, ActiveStates

LEMMA AddPreserves ==
  ASSUME IInv, NEW h \in Handlers, Add(h)
  PROVE  IInv'
<1>1. /\ h \in Procs /\ Busy(h) /\ proc[h] \in Locals /\ Path(h) /\ Local(h)
      /\ proc[h].pc = "add" /\ proc[h].op = "continue"
      /\ Persistent(record) /\ deletion = "none" /\ record # NoIntent /\ proc[h].snap = record
      /\ UNCHANGED <<record, deletion, jobs, claim>> /\ faults' \in 0..MaxFaults
  BY AtCall DEF Add, At, Busy, Procs, Path, Local, cluster, Reply
<1>2. CASE /\ ~HasActiveTask /\ issued < MaxTasks /\ issued' = issued + 1
           /\ tasks' = [tasks EXCEPT ![issued + 1] = "pending"]
           /\ Reply(h, [Goto(h, "job") EXCEPT !.task = issued + 1])
  <2> DEFINE new  == issued + 1
             next == [Goto(h, "job") EXCEPT !.task = new]
  <2>1. new \in TaskIds /\ new \in 0..MaxTasks /\ new # InitialTask
    BY <1>2 DEF IInv, TypeOK, TaskIds, InitialTask
  <2>2. RowsTyped'
    BY <1>1, <1>2, <2>1 DEF RowsTyped, IInv, TypeOK, TaskStates, ActiveStates
  <2>3. claim
    <3>1. tasks[InitialTask] # "none" /\ InitialTask \in TaskIds
      BY <1>1 DEF IInv, Durable, Rows, InitialTask, TaskIds
    <3>2. Terminal(tasks[InitialTask])
      BY <1>2, <3>1 DEF HasActiveTask, IInv, TypeOK, TaskStates, Terminal
    <3> QED BY <1>1, <3>1, <3>2 DEF IInv, Durable, Workspace
  <2>4. \A t \in TaskIds : tasks[t] # "none" => t < new
    BY DEF IInv, TypeOK, Durable, Rows, TaskIds
  <2>5. Durable'
    <3>1. Rows'
      BY <1>1, <1>2, <2>1, <2>4 DEF IInv, TypeOK, Durable, Rows, InitialTask, TaskIds
    <3>2. ActiveTaskIsLatest'
      BY <1>2, <2>1, <2>4 DEF IInv, TypeOK, ActiveTaskIsLatest, HasActiveTask, IsLatest, TaskIds
    <3>3. Workspace'
      BY <1>1, <2>3 DEF Workspace
    <3>4. ClusterIsRecorded' /\ ResultsMatchEvidence'
      BY <1>1, <1>2, <2>1 DEF IInv, TypeOK, Durable, ClusterIsRecorded, ResultsMatchEvidence, Persistent
    <3> QED BY <3>1, <3>2, <3>3, <3>4 DEF Durable
  <2>6. CASE Step(h, next)
    <3>1. next \in Locals /\ proc'[h] = next
      BY <1>1, <2>1, <2>6, AtCall DEF Locals, Goto, Places, Calls, Step
    <3>2. next.task = new /\ next.pc = "job" /\ next.op = "continue" /\ next.snap = proc[h].snap
      BY <1>1 DEF Goto, Locals
    <3>3. tasks'[new] \in ActiveStates
      BY <1>2, <2>1 DEF IInv, TypeOK, ActiveStates
    <3>4. Path(h)'
      BY <1>1, <3>1, <3>2 DEF Path, Busy, Procs
    <3>5. Local(h)'
      BY <1>1, <2>1, <2>3, <3>1, <3>2, <3>3 DEF Local
    <3> QED BY <1>1, <2>2, <2>5, <2>6, <3>1, <3>4, <3>5, GoesOn
  <2>7. CASE Done(h)
    BY <1>1, <2>2, <2>5, <2>7, Returns
  <2> QED BY <1>2, <2>6, <2>7 DEF Reply
<1>3. CASE Done(h) /\ UNCHANGED <<tasks, issued, faults>>
  BY <1>1, <1>3, ReadReturns DEF database, cluster
<1> QED BY <1>2, <1>3 DEF Add

LEMMA CloseLeasePreserves ==
  ASSUME IInv, NEW h \in Handlers, CloseLease(h)
  PROVE  IInv'
<1>1. /\ h \in Procs /\ Busy(h) /\ Done(h) /\ UNCHANGED <<database, cluster, faults>>
      /\ faults \in 0..MaxFaults
  BY AtCall DEF CloseLease, At, Busy, Procs
<1> QED BY <1>1, ReadReturns

LEMMA LoadPreserves ==
  ASSUME IInv, NEW h \in Handlers, Load(h)
  PROVE  IInv'
<1>1. /\ h \in Procs /\ Busy(h) /\ proc[h] \in Locals /\ Path(h) /\ proc[h].pc = "load"
      /\ UNCHANGED <<database, cluster, faults>> /\ faults \in 0..MaxFaults
  BY AtCall DEF Load, At, Busy, Procs
<1> DEFINE next == [Goto(h, "mark") EXCEPT !.snap = record]
<1>2. CASE record # NoIntent /\ Step(h, next)
  <2>1. record \in Intents \cup {NoIntent}
    BY DEF IInv, TypeOK
  <2>2. next \in Locals /\ proc'[h] = next
    BY <1>1, <1>2, <2>1, AtCall DEF Locals, Goto, Places, Calls, Step
  <2>3. Path(h)' /\ Local(h)'
    BY <1>1, <1>2, <2>2 DEF Path, Local, Goto, Busy, Procs, database
  <2> QED BY <1>1, <1>2, <2>2, <2>3, ReadGoesOn
<1>3. CASE Done(h)
  BY <1>1, <1>3, ReadReturns
<1> QED BY <1>2, <1>3 DEF Load

LEMMA MarkPreserves ==
  ASSUME IInv, NEW h \in Handlers, Mark(h)
  PROVE  IInv'
<1>1. /\ h \in Procs /\ Busy(h) /\ proc[h] \in Locals /\ Path(h) /\ Local(h)
      /\ proc[h].pc = "mark" /\ proc[h].op = "delete" /\ proc[h].arg \in Deletions
      /\ record # NoIntent /\ proc[h].snap = record
      /\ UNCHANGED <<record, tasks, issued, jobs, claim>> /\ faults' \in 0..MaxFaults
  BY AtCall DEF Mark, At, Busy, Procs, Path, Local, cluster, Reply
<1> DEFINE next == Goto(h, "sync")
<1>2. CASE deletion \in {"none", proc[h].arg} /\ deletion' = proc[h].arg /\ Reply(h, next)
  <2>1. RowsTyped'
    BY <1>1, <1>2 DEF RowsTyped, IInv, TypeOK
  <2>2. Durable'
    BY <1>1, <1>2 DEF IInv, Durable, Rows, Workspace, ClusterIsRecorded, ActiveTaskIsLatest,
       ResultsMatchEvidence, NoTask, IsLatest, Deletions
  <2>3. CASE Step(h, next)
    <3>1. next \in Locals /\ proc'[h] = next
      BY <1>1, <2>3, AtCall DEF Locals, Goto, Places, Calls, Step
    <3>2. Path(h)' /\ Local(h)'
      BY <1>1, <1>2, <3>1 DEF Path, Local, Goto, Busy, Procs
    <3> QED BY <1>1, <2>1, <2>2, <2>3, <3>1, <3>2, GoesOn
  <2>4. CASE Done(h)
    BY <1>1, <2>1, <2>2, <2>4, Returns
  <2> QED BY <1>2, <2>3, <2>4 DEF Reply
<1>3. CASE Done(h) /\ UNCHANGED <<deletion, faults>>
  BY <1>1, <1>3, ReadReturns DEF database, cluster
<1> QED BY <1>2, <1>3 DEF Mark

LEMMA CancelPreserves ==
  ASSUME IInv, NEW p \in Procs, Cancel(p)
  PROVE  IInv'
<1>0. PICK t \in TaskIds : t = proc[p].task
  BY AtCall DEF Cancel, At, Local
<1>1. /\ Busy(p) /\ proc[p] \in Locals /\ Path(p) /\ Local(p) /\ proc[p].pc = "cancel"
      /\ proc[p].op = "delete" /\ deletion = proc[p].arg
      /\ tasks[t] \in ActiveStates /\ jobs[t] # "absent"
      /\ tasks' = [tasks EXCEPT ![t] = "canceled"]
      /\ UNCHANGED <<record, deletion, issued, jobs, claim>> /\ Reply(p, Goto(p, "purge"))
  BY <1>0, AtCall DEF Cancel, UpdateTask, At, Busy, Path, Local, cluster, ActiveStates
<1>2. /\ IsLatest(t) /\ tasks'[t] = "canceled"
      /\ \A u \in TaskIds \ {t} : tasks'[u] = tasks[u]
  BY <1>1 DEF IInv, TypeOK, Durable, ActiveTaskIsLatest
<1>3. faults' \in 0..MaxFaults
  BY <1>1, AtCall DEF Reply
<1>4. RowsTyped'
  BY <1>1, <1>3 DEF RowsTyped, IInv, TypeOK, TaskStates, TerminalStates
<1>5. Durable'
  BY <1>1, <1>2 DEF IInv, TypeOK, Durable, Rows, Workspace, ClusterIsRecorded, ActiveTaskIsLatest,
     ResultsMatchEvidence, NoTask, IsLatest, ActiveStates, InitialTask, TaskIds, Terminal
<1>6. ~HasActiveTask'
  BY <1>1, <1>2 DEF IInv, Durable, HasActiveTask, ActiveTaskIsLatest, IsLatest, ActiveStates, TaskIds
<1>7. CASE Step(p, Goto(p, "purge"))
  <2>1. Goto(p, "purge") \in Locals /\ proc'[p] = Goto(p, "purge")
    BY <1>1, <1>7, AtCall DEF Locals, Goto, Places, Calls, Step
  <2>2. Path(p)' /\ Local(p)'
    BY <1>1, <1>6, <2>1 DEF Path, Local, Goto, Busy, Procs
  <2> QED BY <1>1, <1>4, <1>5, <1>7, <2>1, <2>2, GoesOn
<1>8. CASE Done(p)
  BY <1>1, <1>4, <1>5, <1>8, Returns
<1> QED BY <1>1, <1>7, <1>8 DEF Reply

\* Deleting any of the Jobs keeps the invariant of rows and cluster, and so
\* does deleting the claim in a Destroy.
LEMMA DurableUnderPurge ==
  ASSUME IInv, NEW p \in Procs, Local(p), proc[p].pc = "purge", proc[p].op = "delete",
         UNCHANGED database, jobs' \in [TaskIds -> JobStates],
         \A t \in TaskIds : jobs'[t] \in {jobs[t], "absent"},
         claim' = claim \/ (claim' = FALSE /\ proc[p].arg = "storage")
  PROVE  Durable'
<1>1. deletion = proc[p].arg
  BY DEF Local
<1>2. Rows' /\ ActiveTaskIsLatest' /\ ResultsMatchEvidence'
  BY DEF IInv, Durable, Rows, ActiveTaskIsLatest, ResultsMatchEvidence, NoTask, IsLatest, database
<1>3. Workspace' /\ ClusterIsRecorded'
  BY <1>1, SMT DEF IInv, Durable, Workspace, ClusterIsRecorded, database, Persistent
<1> QED BY <1>2, <1>3 DEF Durable

LEMMA PurgePreserves ==
  ASSUME IInv, NEW p \in Procs, Purge(p)
  PROVE  IInv'
<1>1. /\ Busy(p) /\ proc[p] \in Locals /\ Path(p) /\ Local(p) /\ proc[p].pc = "purge"
      /\ proc[p].op = "delete" /\ proc[p].arg \in Deletions /\ UNCHANGED database
      /\ "absent" \in JobStates /\ jobs \in [TaskIds -> JobStates] /\ claim \in BOOLEAN
  BY AtCall DEF Purge, At, Busy, Path, JobStates, IInv, TypeOK
<1>2. CASE /\ jobs' = [t \in TaskIds |-> "absent"]
           /\ claim' = (claim /\ proc[p].arg # "storage")
           /\ Reply(p, Goto(p, "finish"))
  <2>1. jobs' \in [TaskIds -> JobStates] /\ \A t \in TaskIds : jobs'[t] = "absent"
    BY <1>1, <1>2
  <2>2. /\ claim' \in BOOLEAN /\ (claim' => proc[p].arg # "storage")
        /\ claim' = claim \/ (claim' = FALSE /\ proc[p].arg = "storage")
    BY <1>1, <1>2, Zenon
  <2>3. RowsTyped'
    BY <1>1, <1>2, <2>1, <2>2, AtCall DEF RowsTyped, IInv, TypeOK, database, Reply
  <2>4. Durable'
    BY <1>1, <2>1, <2>2, DurableUnderPurge
  <2>5. CASE Step(p, Goto(p, "finish"))
    <3>1. Goto(p, "finish") \in Locals /\ proc'[p] = Goto(p, "finish")
      BY <1>1, <2>5, AtCall DEF Locals, Goto, Places, Calls, Step
    <3>2. Path(p)'
      BY <1>1, <3>1 DEF Path, Goto, Busy, Procs
    <3>3. ~HasActiveTask'
      BY <1>1 DEF Local, HasActiveTask, database
    <3>4. Local(p)'
      BY <1>1, <2>1, <2>2, <3>1, <3>3 DEF Local, Goto, database, Deletions
    <3> QED BY <1>1, <2>3, <2>4, <2>5, <3>1, <3>2, <3>4, GoesOn
  <2>6. CASE Done(p)
    BY <1>1, <2>3, <2>4, <2>6, Returns
  <2> QED BY <1>2, <2>5, <2>6 DEF Reply
<1>3. ASSUME NEW kept \in SUBSET TaskIds,
             jobs' = [t \in TaskIds |-> IF t \in kept THEN jobs[t] ELSE "absent"],
             claim' \in {claim, claim /\ proc[p].arg # "storage"}, Fault, Done(p)
      PROVE  IInv'
  <2>1. jobs' \in [TaskIds -> JobStates] /\ \A t \in TaskIds : jobs'[t] \in {jobs[t], "absent"}
    BY <1>1, <1>3
  <2>2. claim' \in BOOLEAN /\ (claim' = claim \/ (claim' = FALSE /\ proc[p].arg = "storage"))
    BY <1>1, <1>3, Zenon
  <2>3. RowsTyped'
    BY <1>1, <1>3, <2>1, <2>2, AtCall DEF RowsTyped, IInv, TypeOK, database
  <2>4. Durable'
    BY <1>1, <2>1, <2>2, DurableUnderPurge
  <2> QED BY <1>1, <1>3, <2>3, <2>4, Returns
<1> QED BY <1>2, <1>3 DEF Purge

LEMMA FinishPreserves ==
  ASSUME IInv, NEW p \in Procs, Finish(p)
  PROVE  IInv'
<1>1. /\ Busy(p) /\ proc[p] \in Locals /\ Path(p) /\ Local(p) /\ proc[p].pc = "finish"
      /\ proc[p].op = "delete" /\ proc[p].arg \in Deletions /\ proc[p].snap = record
      /\ record # NoIntent /\ deletion = proc[p].arg /\ deletion' = "none"
      /\ UNCHANGED <<issued, jobs, claim>> /\ Done(p) /\ faults' \in 0..MaxFaults
      /\ \A t \in TaskIds : jobs[t] = "absent"
      /\ claim => proc[p].arg = "compute"
  BY AtCall DEF Finish, At, Busy, Path, Local, cluster, ReplyLast
<1>2. CASE /\ proc[p].arg = "storage" \/ ~Persistent(record)
           /\ record' = NoIntent /\ tasks' = [t \in TaskIds |-> "none"]
  <2>1. ~claim
    BY <1>1, <1>2 DEF IInv, Durable, ClusterIsRecorded
  <2>2. RowsTyped'
    BY <1>1, <1>2 DEF RowsTyped, IInv, TypeOK, TaskStates
  <2>3. Durable'
    BY <1>1, <1>2, <2>1, SMT DEF Durable, Rows, Workspace, ClusterIsRecorded, ActiveTaskIsLatest,
       ResultsMatchEvidence, NoTask, IsLatest, ActiveStates, InitialTask, TaskIds, Terminal,
       TerminalStates
  <2> QED BY <1>1, <2>2, <2>3, Returns
<1>3. CASE /\ proc[p].arg # "storage" /\ Persistent(record) /\ UNCHANGED <<record, tasks>>
  <2>1. RowsTyped'
    BY <1>1, <1>3 DEF RowsTyped, IInv, TypeOK
  <2>2. Durable'
    BY <1>1, <1>3 DEF IInv, Durable, Rows, Workspace, ClusterIsRecorded, ActiveTaskIsLatest,
       ResultsMatchEvidence, NoTask, IsLatest, Deletions
  <2> QED BY <1>1, <2>1, <2>2, Returns
<1> QED BY <1>1, <1>2, <1>3 DEF Finish

LEMMA ListPreserves ==
  ASSUME IInv, List
  PROVE  IInv'
<1>1. /\ Boot \in Procs /\ Busy(Boot) /\ proc[Boot] \in Locals /\ Path(Boot)
      /\ proc[Boot].pc = "list"
      /\ UNCHANGED <<database, cluster, faults>> /\ faults \in 0..MaxFaults
  BY AtCall DEF List, At, Busy, Procs
<1> DEFINE next == [Goto(Boot, "sync") EXCEPT !.op = "delete", !.arg = deletion, !.snap = record]
<1>2. CASE deletion # "none" /\ Step(Boot, next)
  <2>1. record \in Intents /\ deletion \in Deletions /\ record # NoIntent
    BY <1>2 DEF IInv, TypeOK, Durable, Rows
  <2>2. next \in Locals /\ proc'[Boot] = next
    BY <1>1, <1>2, <2>1, AtCall DEF Locals, Goto, Places, Calls, Step, Operations
  <2>3. Path(Boot)' /\ Local(Boot)'
    BY <1>1, <2>1, <2>2 DEF Path, Local, Goto, Busy, database
  <2> QED BY <1>1, <1>2, <2>2, <2>3, ReadGoesOn
<1>3. CASE Done(Boot)
  BY <1>1, <1>3, ReadReturns
<1> QED BY <1>2, <1>3 DEF List

LEMMA CallFailsPreserves ==
  ASSUME IInv, NEW p \in Procs, CallFails(p)
  PROVE  IInv'
BY AtCall, ReadReturns DEF CallFails, Busy, Calls

LEMMA CrashPreserves ==
  ASSUME IInv, Crash
  PROVE  IInv'
<1>1. RowsTyped' /\ Durable'
  BY ReadOnly DEF Crash, Fault, IInv, TypeOK
<1>2. \A p \in Procs : proc'[p] = Idle
  BY DEF Crash
<1>3. Exclusive' /\ \A p \in Procs : Path(p)' /\ Local(p)'
  BY <1>2 DEF Exclusive, Path, Local, Busy, At, Idle, Procs
<1>4. TypeOK'
  BY <1>1, IdleIsLocal DEF Crash, TypeOK, RowsTyped
<1> QED BY <1>1, <1>3, <1>4 DEF IInv

LEMMA RestartPreserves ==
  ASSUME IInv, Restart
  PROVE  IInv'
<1>1. RowsTyped' /\ Durable'
  BY ReadOnly DEF Restart, IInv, TypeOK
<1>2. \A p \in Procs : At(p, "idle")
  BY DEF Restart, IInv, Exclusive, Procs
<1>3. /\ Boot \in Procs /\ proc' \in [Procs -> Locals] /\ proc'[Boot] = [Idle EXCEPT !.pc = "list"]
      /\ \A p \in Procs \ {Boot} : proc'[p] = proc[p]
  BY IdleIsLocal DEF Restart, IInv, TypeOK, Procs, Locals, Places, Calls
<1>4. Exclusive'
  BY <1>2, <1>3 DEF Restart, IInv, Exclusive, Busy, At, Procs, Idle
<1>5. Path(Boot)' /\ Local(Boot)'
  BY <1>3 DEF Path, Local, Busy, Idle
<1>6. \A p \in Procs \ {Boot} : Path(p)' /\ Local(p)'
  BY <1>2, <1>3 DEF Path, Local, Busy, At
<1>7. TypeOK'
  BY <1>1, <1>3 DEF Restart, TypeOK, RowsTyped, IInv
<1> QED BY <1>1, <1>4, <1>5, <1>6, <1>7 DEF IInv

\* A Job moves on its own: it neither appears nor disappears, and what it has
\* reported it goes on reporting while it has a pod.
LEMMA JobStepPreserves ==
  ASSUME IInv, NEW t \in TaskIds, JobStep(t)
  PROVE  IInv'
<1>1. PICK to \in JobStates : <<jobs[t], to>> \in JobMoves /\ jobs' = [jobs EXCEPT ![t] = to]
  BY DEF JobStep
<1>2. /\ jobs[t] # "absent" /\ to # "absent"
      /\ jobs[t] = "completed" => to = "lost"
      /\ jobs[t] = "blocked" => to = "lost"
      /\ jobs[t] # "lost"
  BY <1>1 DEF JobMoves
<1>3. /\ jobs' \in [TaskIds -> JobStates] /\ jobs'[t] = to
      /\ \A u \in TaskIds \ {t} : jobs'[u] = jobs[u]
      /\ UNCHANGED <<database, claim, lock, server, proc, faults>>
  BY <1>1 DEF IInv, TypeOK, JobStep
<1>4. TypeOK'
  BY <1>3 DEF IInv, TypeOK, database
<1>5. Exclusive'
  BY <1>3 DEF IInv, Exclusive, Busy, At
<1>6. Durable'
  BY <1>2, <1>3 DEF IInv, Durable, Rows, Workspace, ClusterIsRecorded, ActiveTaskIsLatest,
     ResultsMatchEvidence, NoTask, IsLatest, database
<1>7. ASSUME NEW p \in Procs PROVE Path(p)' /\ Local(p)'
  <2>1. Path(p)'
    BY <1>3 DEF IInv, Path, Busy
  <2>2. Local(p)'
    BY <1>2, <1>3 DEF IInv, Local, database, HasActiveTask, IsLatest
  <2> QED BY <2>1, <2>2
<1> QED BY <1>4, <1>5, <1>6, <1>7 DEF IInv

-----------------------------------------------------------------------------
(* The invariant, and the theorems that follow from it.                    *)

LEMMA InitEstablishes ==
  ASSUME Init
  PROVE  IInv
<1>1. \A p \in Procs : proc[p] = Idle
  BY DEF Init
<1>2. TypeOK
  <2>1. proc \in [Procs -> Locals]
    BY IdleIsLocal DEF Init
  <2>2. /\ tasks \in [TaskIds -> TaskStates] /\ jobs \in [TaskIds -> JobStates]
        /\ issued \in TaskIds /\ faults \in 0..MaxFaults
    BY DEF Init, TaskIds, InitialTask, TaskStates, JobStates
  <2> QED BY <2>1, <2>2 DEF Init, TypeOK
<1>3. Exclusive /\ \A p \in Procs : Path(p) /\ Local(p)
  BY <1>1 DEF Exclusive, Path, Local, Busy, At, Idle, Procs
<1>4. Durable
  BY DEF Init, Durable, Rows, Workspace, ClusterIsRecorded, ActiveTaskIsLatest,
     ResultsMatchEvidence, NoTask, ActiveStates, InitialTask, TaskIds, Terminal, TerminalStates
<1> QED BY <1>2, <1>3, <1>4 DEF IInv

LEMMA NextPreserves ==
  ASSUME IInv, [Next]_vars
  PROVE  IInv'
<1>1. CASE UNCHANGED vars
  <2>1. Durable'
    BY <1>1, DurableUnchanged DEF IInv, vars, database, cluster
  <2> QED BY <1>1, <2>1 DEF IInv, vars, TypeOK, Exclusive, Path, Local, Busy, At, HasActiveTask,
             IsLatest
<1>2. ASSUME NEW h \in Handlers, Acquire(h) \/ Handle(h)
             \/ \E op \in Operations, arg \in Intents \cup Deletions \cup {NoIntent} : Request(h, op, arg)
      PROVE  IInv'
  BY <1>2, RequestPreserves, AcquirePreserves, CreatePreserves, ComparePreserves, LatestPreserves,
     ApplyClaimPreserves, ApplyJobPreserves, ReadPreserves, AddPreserves, CloseLeasePreserves,
     LoadPreserves, MarkPreserves DEF Handle
<1>3. ASSUME NEW p \in Procs, Work(p) \/ CallFails(p)
      PROVE  IInv'
  BY <1>3, SyncPreserves, ObservePreserves, UpdatePreserves, CancelPreserves, PurgePreserves,
     FinishPreserves, CallFailsPreserves DEF Work
<1>4. CASE List \/ Crash \/ Restart \/ \E t \in TaskIds : JobStep(t)
  BY <1>4, ListPreserves, CrashPreserves, RestartPreserves, JobStepPreserves
<1> QED BY <1>1, <1>2, <1>3, <1>4 DEF Next

\* The inductive invariant holds in every reachable state.
THEOREM InductiveInvariant == Spec => []IInv
<1>1. Init => IInv
  BY InitEstablishes
<1>2. IInv /\ [Next]_vars => IInv'
  BY NextPreserves
<1> QED BY <1>1, <1>2, PTL DEF Spec

\* Every variable keeps its type.
THEOREM TypeCorrect == Spec => []TypeOK
<1>1. IInv => TypeOK
  BY DEF IInv
<1> QED BY <1>1, InductiveInvariant, PTL

\* Whatever exists in the cluster is recorded in SQL, at every instant: rows
\* are written before resources and go only after them.
THEOREM ClusterRecorded == Spec => []ClusterIsRecorded
<1>1. IInv => ClusterIsRecorded
  BY DEF IInv, Durable
<1> QED BY <1>1, InductiveInvariant, PTL

\* A task that is still active is the latest task of its session, the one
\* every operation looks at.
THEOREM ActiveIsLatest == Spec => []ActiveTaskIsLatest
<1>1. IInv => ActiveTaskIsLatest
  BY DEF IInv, Durable
<1> QED BY <1>1, InductiveInvariant, PTL

\* SQL never records more success than the task's Job shows.
THEOREM RecordedResultsHold == Spec => []ResultsMatchEvidence
<1>1. IInv => ResultsMatchEvidence
  BY DEF IInv, Durable
<1> QED BY <1>1, InductiveInvariant, PTL

\* What a handler read before a call still holds when it makes the call.
THEOREM NoStaleReads == Spec => []ReadsStayCurrent
<1>1. ASSUME IInv, NEW p \in Procs
      PROVE  LET at == proc[p] IN
             /\ at.pc \in {"observe", "update", "cancel"} => tasks[at.task] \in ActiveStates
             /\ at.pc \in {"claim", "job"} =>
                  tasks[at.task] \in ActiveStates /\ IsLatest(at.task) /\ at.snap = record
             /\ at.pc = "finish" =>
                  /\ deletion = at.arg /\ ~HasActiveTask
                  /\ \A t \in TaskIds : jobs[t] = "absent"
                  /\ claim => at.arg = "compute"
  <2>1. Path(p) /\ Local(p) /\ ActiveTaskIsLatest
    BY <1>1 DEF IInv, Durable
  <2> QED BY <2>1 DEF Path, Local, ActiveTaskIsLatest
<1>2. IInv => ReadsStayCurrent
  BY <1>1, Zenon DEF ReadsStayCurrent
<1> QED BY <1>2, InductiveInvariant, PTL

\* While a publication lease is open its session stays publishable.
THEOREM LeaseIsSafe == Spec => []LeaseHoldsSession
<1>1. ASSUME IInv, NEW h \in Handlers, At(h, "lease")
      PROVE  /\ Persistent(record) /\ deletion = "none" /\ claim
             /\ \E t \in TaskIds : IsLatest(t) /\ tasks[t] = "completed"
  <2>1. h \in Procs /\ Path(h) /\ Local(h) /\ proc[h].pc = "lease"
    BY <1>1 DEF IInv, Procs, At
  <2>2. proc[h].op = "publish"
    BY <2>1 DEF Path
  <2>3. Persistent(record) /\ deletion = "none"
    BY <2>1, <2>2 DEF Local
  <2>4. PICK t \in TaskIds : IsLatest(t) /\ tasks[t] = "completed"
    BY <2>1 DEF Local
  <2>5. claim
    BY <1>1, <2>3, <2>4 DEF IInv, Durable, Workspace, Terminal, TerminalStates
  <2> QED BY <2>3, <2>4, <2>5
<1>2. IInv => LeaseHoldsSession
  BY <1>1 DEF LeaseHoldsSession
<1> QED BY <1>2, InductiveInvariant, PTL

\* The result of a finished task is final: only an active task is updated,
\* because the process that updates it read it as active under the mutex.
THEOREM FinalResults == Spec => ResultsAreFinal
<1> DEFINE Final == \A t \in TaskIds : Terminal(tasks[t]) => tasks'[t] \in {tasks[t], "none"}
<1>1. ASSUME IInv, [Next]_vars PROVE Final
  <2>1. CASE UNCHANGED tasks
    BY <2>1
  <2>2. ASSUME NEW h \in Handlers, Create(h) PROVE Final
    BY <1>1, <2>2 DEF Create, IInv, Durable, Rows, TypeOK, Terminal, TerminalStates, InitialTask,
       TaskIds, database
  <2>3. ASSUME NEW h \in Handlers, Add(h) PROVE Final
    <3>1. CASE UNCHANGED tasks
      BY <3>1
    <3>2. CASE issued < MaxTasks /\ tasks' = [tasks EXCEPT ![issued + 1] = "pending"]
      <4>1. issued \in Nat /\ \A t \in TaskIds : tasks[t] # "none" => t # issued + 1
        BY <1>1 DEF IInv, TypeOK, Durable, Rows, TaskIds
      <4> QED BY <1>1, <3>2, <4>1 DEF IInv, TypeOK, Terminal, TerminalStates
    <3> QED BY <2>3, <3>1, <3>2 DEF Add
  <2>4. ASSUME NEW p \in Procs, Update(p) \/ Cancel(p) PROVE Final
    <3>1. tasks[proc[p].task] \in ActiveStates
      BY <1>1, <2>4, AtCall DEF Update, Cancel, At, Local
    <3>2. \E state : tasks' = [tasks EXCEPT ![proc[p].task] = state]
      BY <2>4, <3>1 DEF Update, Cancel, UpdateTask, ActiveStates
    <3> QED BY <1>1, <3>1, <3>2 DEF IInv, TypeOK, Terminal, TerminalStates, ActiveStates
  <2>5. ASSUME NEW p \in Procs, Finish(p) PROVE Final
    BY <2>5 DEF Finish
  <2>6. ASSUME NEW h \in Handlers, Acquire(h) \/ Handle(h)
               \/ \E op \in Operations, arg \in Intents \cup Deletions \cup {NoIntent} : Request(h, op, arg)
        PROVE  Final
    BY <2>1, <2>2, <2>3, <2>6 DEF Handle, Acquire, Request, Compare, Latest, ApplyClaim, ApplyJob,
       Read, CloseLease, Load, Mark, database
  <2>7. ASSUME NEW p \in Procs, Work(p) \/ CallFails(p) PROVE Final
    BY <2>1, <2>4, <2>5, <2>7 DEF Work, Sync, Observe, Purge, CallFails, database
  <2>8. CASE List \/ Crash \/ Restart \/ (\E t \in TaskIds : JobStep(t)) \/ UNCHANGED vars
    BY <2>1, <2>8 DEF List, Crash, Restart, JobStep, database, vars
  <2> QED BY <1>1, <2>6, <2>7, <2>8 DEF Next
<1>2. IInv /\ [Next]_vars => [Final]_vars
  BY <1>1
<1> QED BY <1>2, InductiveInvariant, PTL DEF Spec, ResultsAreFinal

\* A Job is deleted only by a deletion that has recorded how its task ended.
THEOREM EvidenceKept == Spec => EvidenceOutlivesDoubt
<1> DEFINE Kept == \A t \in TaskIds :
                     jobs[t] # "absent" /\ jobs'[t] = "absent" => Terminal(tasks[t])
<1>1. ASSUME IInv, [Next]_vars PROVE Kept
  <2>1. CASE UNCHANGED jobs
    BY <2>1
  <2>2. ASSUME NEW h \in Handlers, ApplyJob(h) PROVE Kept
    BY <1>1, <2>2 DEF ApplyJob, IInv, TypeOK
  <2>3. ASSUME NEW p \in Procs, Purge(p) PROVE Kept
    <3>1. ~HasActiveTask
      BY <1>1, <2>3, AtCall DEF Purge, At, Local
    <3>2. ASSUME NEW t \in TaskIds, jobs[t] # "absent" PROVE Terminal(tasks[t])
      BY <1>1, <3>1, <3>2 DEF IInv, TypeOK, Durable, ClusterIsRecorded, HasActiveTask, Terminal,
         TaskStates
    <3> QED BY <3>2
  <2>4. ASSUME NEW t \in TaskIds, JobStep(t) PROVE Kept
    BY <1>1, <2>4 DEF JobStep, JobMoves, IInv, TypeOK
  <2>5. ASSUME NEW h \in Handlers, Acquire(h) \/ Handle(h)
               \/ \E op \in Operations, arg \in Intents \cup Deletions \cup {NoIntent} : Request(h, op, arg)
        PROVE  Kept
    BY <2>1, <2>2, <2>5 DEF Handle, Acquire, Request, Create, Compare, Latest, ApplyClaim, Read,
       Add, CloseLease, Load, Mark, cluster
  <2>6. ASSUME NEW p \in Procs, Work(p) \/ CallFails(p) PROVE Kept
    BY <2>1, <2>3, <2>6 DEF Work, Sync, Observe, Update, Cancel, Finish, CallFails, cluster
  <2>7. CASE List \/ Crash \/ Restart \/ UNCHANGED vars
    BY <2>1, <2>7 DEF List, Crash, Restart, cluster, vars
  <2> QED BY <1>1, <2>4, <2>5, <2>6, <2>7 DEF Next
<1>2. IInv /\ [Next]_vars => [Kept]_vars
  BY <1>1
<1> QED BY <1>2, InductiveInvariant, PTL DEF Spec, EvidenceOutlivesDoubt

-----------------------------------------------------------------------------
(* SessionControl implements SessionLedger: every step of a handler, of    *)
(* the cluster or of a fault is a step of the ledger or leaves it alone.   *)

USE DEF Ledger!ledger

LEMMA CreateOpens ==
  ASSUME IInv, NEW h \in Handlers, Create(h)
  PROVE  Ledger!Open \/ UNCHANGED Ledger!ledger
<1>1. h \in Procs /\ proc[h].arg \in Intents
  BY AtCall DEF Create, At, Path, Procs
<1> QED BY <1>1 DEF Create, Ledger!Open, Ledger!Recorded, InitialTask, database

LEMMA AddExtends ==
  ASSUME IInv, NEW h \in Handlers, Add(h)
  PROVE  Ledger!Extend \/ UNCHANGED Ledger!ledger
<1>1. Persistent(record) /\ deletion = "none"
  BY AtCall DEF Add, At, Path, Local, Procs
<1>2. ~HasActiveTask => Ledger!Quiet
  BY DEF HasActiveTask, Ledger!Quiet, Ledger!TaskIds, Ledger!Active, TaskIds, ActiveStates
<1> QED BY <1>1, <1>2 DEF Add, Ledger!Extend, Persistent

LEMMA UpdateObserves ==
  ASSUME IInv, NEW p \in Procs, Update(p)
  PROVE  Ledger!Observe
<1>1. PICK t \in TaskIds : t = proc[p].task
  BY AtCall DEF Update, At, Local
<1>2. /\ tasks[t] \in ActiveStates /\ tasks' = [tasks EXCEPT ![t] = proc[p].seen]
      /\ proc[p].seen \in ActiveStates \cup {"completed", "blocked", "failed"}
      /\ UNCHANGED <<record, deletion, issued>>
  BY <1>1, AtCall DEF Update, UpdateTask, At, Local, ActiveStates
<1> QED BY <1>2 DEF Ledger!Observe, Ledger!TaskIds, Ledger!Active, Ledger!Results, TaskIds, ActiveStates

LEMMA CancelCancels ==
  ASSUME IInv, NEW p \in Procs, Cancel(p)
  PROVE  Ledger!Cancel
<1>1. PICK t \in TaskIds : t = proc[p].task
  BY AtCall DEF Cancel, At, Local
<1>2. /\ tasks[t] \in ActiveStates /\ tasks' = [tasks EXCEPT ![t] = "canceled"]
      /\ deletion \in Deletions /\ UNCHANGED <<record, deletion, issued>>
  BY <1>1, AtCall DEF Cancel, UpdateTask, At, Path, Local, ActiveStates
<1> QED BY <1>2 DEF Ledger!Cancel, Ledger!TaskIds, Ledger!Active, TaskIds, ActiveStates, Deletions

LEMMA MarkBegins ==
  ASSUME IInv, NEW h \in Handlers, Mark(h)
  PROVE  Ledger!BeginDeletion \/ UNCHANGED Ledger!ledger
<1>1. proc[h].arg \in Deletions
  BY AtCall DEF Mark, At, Path, Procs
<1> QED BY <1>1 DEF Mark, Ledger!BeginDeletion, Ledger!Recorded, Deletions

LEMMA FinishFinishes ==
  ASSUME IInv, NEW p \in Procs, Finish(p)
  PROVE  Ledger!FinishDeletion
<1>1. /\ proc[p].snap = record /\ deletion = proc[p].arg /\ deletion \in Deletions /\ ~HasActiveTask
  BY AtCall DEF Finish, At, Path, Local
<1>2. Ledger!Quiet
  BY <1>1 DEF HasActiveTask, Ledger!Quiet, Ledger!TaskIds, Ledger!Active, TaskIds, ActiveStates
<1> QED BY <1>1, <1>2 DEF Finish, Ledger!FinishDeletion, Ledger!TaskIds, TaskIds, Deletions, Persistent

\* The rows of a session change only as SessionLedger allows.
THEOREM LedgerImplemented == Spec => ImplementsLedger
<1>1. Init => Ledger!Init
  BY DEF Init, Ledger!Init, Ledger!TaskIds, TaskIds, InitialTask
<1>2. IInv /\ [Next]_vars => [Ledger!Next]_Ledger!ledger
  <2> SUFFICES ASSUME IInv, [Next]_vars PROVE Ledger!Next \/ UNCHANGED Ledger!ledger
    OBVIOUS
  <2>1. ASSUME NEW h \in Handlers, Acquire(h) \/ Handle(h)
               \/ \E op \in Operations, arg \in Intents \cup Deletions \cup {NoIntent} : Request(h, op, arg)
        PROVE  Ledger!Next \/ UNCHANGED Ledger!ledger
    BY <2>1, CreateOpens, AddExtends, MarkBegins DEF Ledger!Next, Handle, Acquire, Request,
       Compare, Latest, ApplyClaim, ApplyJob, Read, CloseLease, Load, database
  <2>2. ASSUME NEW p \in Procs, Work(p) \/ CallFails(p)
        PROVE  Ledger!Next \/ UNCHANGED Ledger!ledger
    BY <2>2, UpdateObserves, CancelCancels, FinishFinishes DEF Ledger!Next, Work, Sync, Observe,
       Purge, CallFails, database
  <2>3. CASE List \/ Crash \/ Restart \/ (\E t \in TaskIds : JobStep(t)) \/ UNCHANGED vars
    BY <2>3 DEF List, Crash, Restart, JobStep, database, vars
  <2> QED BY <2>1, <2>2, <2>3 DEF Next
<1> QED BY <1>1, <1>2, InductiveInvariant, PTL DEF Spec, ImplementsLedger, Ledger!Spec
=============================================================================
