---------------------------- MODULE SessionVolume ----------------------------
(***************************************************************************)
(* The volume of one persistent session and everything that works on it:   *)
(* the pods of its tasks (container/agent-entrypoint, in the order of the  *)
(* containers of internal/workload/manifest.go), the publisher's pod, and  *)
(* what the session and publication controllers do with their results.     *)
(*                                                                         *)
(* SessionControl and Publication say which requests exclude each other;   *)
(* here each of their operations is one step, and the steps are those of   *)
(* the containers, any of which can fail or be killed at any of them.      *)
(* What a pod leaves on the volume is what its retry, the next task and    *)
(* the publisher find.  (An ephemeral session has a new volume per pod.)   *)
(*                                                                         *)
(* Abstracted: a workspace is the set of contributions in its tree, that   *)
(* of a task being its number and that of an earlier step's change Input;  *)
(* a patch is the contributions between a base and the tree, and "torn"    *)
(* when the tree lacks files of the checkout.  What git, the agent and     *)
(* Kubernetes do is external.                                              *)
(***************************************************************************)
EXTENDS Integers, FiniteSets

CONSTANTS
  MaxTasks, \* bound: tasks of the session
  MaxRetries, \* bound: Jobs whose failed pod is replaced
  Nothing,  \* no file, no reference, no message
  Word      \* a base commit recorded as the word "HEAD"

ASSUME VolumeAssumption ==
  /\ MaxTasks \in Nat \ {0} /\ MaxRetries \in Nat
  /\ Nothing # Word

VARIABLES
  input,      \* the initial task's intent has a change to apply
  rows,       \* SQL: state of each task
  found,      \* SQL: the artifacts recorded with it, if it completed
  jobs,       \* Kubernetes: the Job of each task
  pods,       \* Kubernetes: where the first and second pod of a Job are
  messages,   \* Kubernetes: what a Job's newest pod reported, until it is read
  volume,     \* the PersistentVolumeClaim's contents
  lease,      \* a publish request holds the session
  pub,        \* SQL row of the publication
  publisher,  \* Kubernetes: where the publisher's pod is
  branch,     \* GitHub: what was pushed
  overlapped  \* history: pods of two tasks have worked at the same time

control == <<input, rows, found>>
publication == <<lease, pub, publisher, branch>>
vars == <<control, jobs, pods, messages, volume, publication, overlapped>>

-----------------------------------------------------------------------------
TaskIds == 1..MaxTasks
Input   == 0
Units   == TaskIds \cup {Input}
Pods    == TaskIds \X {1, 2}
Task(p) == p[1]

Patches == [units : SUBSET Units, torn : BOOLEAN]
Maybe(S) == S \cup {Nothing}

RowStates == {"none", "active", "completed", "blocked", "failed", "canceled"}
Terminal  == {"completed", "blocked", "failed", "canceled"}
Statuses  == {"completed", "blocked", "failed"}
Outcomes  == [status : Statuses, by : TaskIds]
Messages  == [outcome : Outcomes, result : Maybe(TaskIds), change : Maybe(Patches)]

\* A pod is at the container, or the step of the agent's container, that it is
\* about to run.
InitPlaces  == {"clone", "apply"}
AgentPlaces == {"clear", "agent", "stage", "check", "redo", "restage", "recheck", "report", "giveup"}
LivePlaces  == InitPlaces \cup AgentPlaces
PodPlaces   == {"absent", "succeeded", "failed"} \cup LivePlaces
JobStates   == {"none", "active", "expired", "deleted"}

\* The directories of the volume that containers share.
Volumes == [git : BOOLEAN, head : Maybe(SUBSET Units), tree : SUBSET Units, whole : BOOLEAN,
            base : (SUBSET Units) \cup {Nothing, Word}, outcome : Maybe(Outcomes),
            result : Maybe(TaskIds), change : Maybe(Patches), kept : SUBSET Patches]
EmptyVolume == [git |-> FALSE, head |-> Nothing, tree |-> {}, whole |-> FALSE, base |-> Nothing,
                outcome |-> Nothing, result |-> Nothing, change |-> Nothing, kept |-> {}]

ASSUME NothingAssumption == Nothing \notin Messages

Publications  == [state : {"none", "ready", "over"}, task : Maybe(TaskIds), change : Maybe(Patches)]
NoPublication == [state |-> "none", task |-> Nothing, change |-> Nothing]
PublisherPlaces == {"absent", "check", "push", "title", "succeeded", "failed"}

Live(p)      == pods[p] \in LivePlaces
Succeeded(t) == \E n \in {1, 2} : pods[<<t, n>>] = "succeeded"
HasFailed(t) == jobs[t] = "expired" \/ \E n \in {1, 2} : pods[<<t, n>>] = "failed"
Ended(t)     == Succeeded(t) \/ HasFailed(t)
IsLatest(t)  == rows[t] # "none" /\ \A u \in TaskIds : rows[u] # "none" => u <= t

Init ==
  /\ input \in BOOLEAN
  /\ rows = [t \in TaskIds |-> "none"]
  /\ found = [t \in TaskIds |-> Nothing]
  /\ jobs = [t \in TaskIds |-> "none"]
  /\ pods = [p \in Pods |-> "absent"]
  /\ messages = [t \in TaskIds |-> Nothing]
  /\ volume = EmptyVolume
  /\ lease = FALSE /\ pub = NoPublication /\ publisher = "absent" /\ branch = Nothing
  /\ overlapped = FALSE

-----------------------------------------------------------------------------
(* The pods of a task.  Each step changes the volume and moves the pod.    *)

Move(p, place) == pods' = [pods EXCEPT ![p] = place]
Keep == UNCHANGED <<control, jobs, messages, publication>>

\* A container fails or is killed; its pod reports nothing.
PodFails(p) ==
  /\ Live(p)
  /\ Move(p, "failed")
  /\ UNCHANGED volume /\ Keep

AfterClone(p) == IF input /\ Task(p) = 1 THEN "apply" ELSE "clear"

\* Mutant of Clone: the base commit is recorded anew in every pod.
CloneRecordsAgain(p) ==
  /\ pods[p] = "clone" /\ Keep
  /\ \/ /\ volume.git /\ volume.head # Nothing
        /\ volume' = [volume EXCEPT !.base = volume.head]
        /\ Move(p, AfterClone(p))
     \/ /\ ~volume.git
        /\ volume' = [volume EXCEPT !.git = TRUE, !.head = {}, !.whole = TRUE, !.base = {}]
        /\ Move(p, AfterClone(p))

\* repo-init.  A repository that is there is not cloned again, and its base
\* commit not recorded again; where HEAD does not resolve, "git rev-parse HEAD"
\* fails after it has printed that word.  A clone that dies leaves a repository
\* without a commit, one without its files, or everything but the record.
Clone(p) ==
  /\ pods[p] = "clone" /\ Keep
  /\ \/ /\ volume.git /\ (volume.base # Nothing \/ volume.head # Nothing)
        /\ volume' = [volume EXCEPT !.base = IF @ = Nothing THEN volume.head ELSE @]
        /\ Move(p, AfterClone(p))
     \/ /\ volume.git /\ volume.base = Nothing /\ volume.head = Nothing
        /\ volume' = [volume EXCEPT !.base = Word]
        /\ Move(p, "failed")
     \/ /\ ~volume.git
        /\ volume' = [volume EXCEPT !.git = TRUE, !.head = {}, !.whole = TRUE, !.base = {}]
        /\ Move(p, AfterClone(p))
     \/ /\ ~volume.git
        /\ volume' \in {[volume EXCEPT !.git = TRUE],
                        [volume EXCEPT !.git = TRUE, !.head = {}],
                        [volume EXCEPT !.git = TRUE, !.head = {}, !.whole = TRUE]}
        /\ Move(p, "failed")

\* change-init.  A patch applies once, to a tree that has its files.
Apply(p) ==
  /\ pods[p] = "apply" /\ Keep
  /\ IF volume.whole /\ Input \notin volume.tree
     THEN volume' = [volume EXCEPT !.tree = @ \cup {Input}] /\ Move(p, "clear")
     ELSE Move(p, "failed") /\ UNCHANGED volume

\* Mutant of Clear: the result of an earlier task stays where it is.
ClearOutcomeOnly(p) ==
  /\ pods[p] = "clear" /\ Keep
  /\ volume' = [volume EXCEPT !.outcome = Nothing, !.change = Nothing]
  /\ Move(p, "agent")

\* run_task removes the artifacts of earlier runs, but no retained patch.
Clear(p) ==
  /\ pods[p] = "clear" /\ Keep
  /\ volume' = [volume EXCEPT !.outcome = Nothing, !.result = Nothing, !.change = Nothing]
  /\ Move(p, "agent")

\* What the agent may leave: work in the tree, committed or not, and artifacts.
Worked(t, v) ==
  {v, [v EXCEPT !.tree = @ \cup {t}], [v EXCEPT !.tree = @ \cup {t}, !.head = v.tree \cup {t}]}
Written(t, v) ==
  {v, [v EXCEPT !.outcome = [status |-> "blocked", by |-> t]],
      [v EXCEPT !.outcome = [status |-> "completed", by |-> t]],
      [v EXCEPT !.outcome = [status |-> "completed", by |-> t], !.result = t]}

\* The agent exits: well, or not, which replaces the outcome it wrote.
Agent(p) ==
  /\ pods[p] = "agent" /\ Keep
  /\ \E worked \in Worked(Task(p), volume) : \E written \in Written(Task(p), worked) :
       \/ volume' = written /\ Move(p, "stage")
       \/ /\ volume' = [written EXCEPT !.outcome = [status |-> "failed", by |-> Task(p)]]
          /\ Move(p, "giveup")

\* The agent is asked once more for the artifacts; if it fails now, so does
\* the pod, without a report.
Redo(p) ==
  /\ pods[p] = "redo" /\ Keep
  /\ volume' \in Written(Task(p), volume) /\ Move(p, "restage")

Diff(v) == [units |-> v.tree \ (IF v.base = Word THEN v.head ELSE v.base), torn |-> ~v.whole]
Diffable(v) == v.base # Nothing /\ (v.base = Word => v.head # Nothing)

\* Mutant of Retain: patches are kept under one name.
RetainLatest(v) == [v EXCEPT !.change = Diff(v), !.kept = {Diff(v)}]

\* The patch is kept under its digest.
Retain(v) == [v EXCEPT !.change = Diff(v), !.kept = @ \cup {Diff(v)}]

\* create_change_artifact.
Stage(p) ==
  LET next == IF pods[p] = "stage" THEN "check" ELSE "recheck" IN
  /\ pods[p] \in {"stage", "restage"} /\ Keep
  /\ \/ volume.outcome = Nothing /\ Move(p, next) /\ UNCHANGED volume
     \/ /\ volume.outcome # Nothing /\ volume.outcome.status # "completed"
        /\ volume' = [volume EXCEPT !.change = Nothing] /\ Move(p, next)
     \/ /\ volume.outcome # Nothing /\ volume.outcome.status = "completed"
        /\ IF Diffable(volume) THEN volume' = Retain(volume) /\ Move(p, next)
           ELSE Move(p, "failed") /\ UNCHANGED volume

\* validate_task_artifacts: an honest outcome and, for completed work, the pull
\* request's metadata and a change that is not empty.
Valid(v) ==
  /\ v.outcome # Nothing /\ v.outcome.status # "failed"
  /\ v.change # Nothing => v.change \in v.kept
  /\ v.outcome.status = "completed" =>
       v.result # Nothing /\ v.change # Nothing /\ (v.change.units # {} \/ v.change.torn)

Check(p) ==
  /\ pods[p] \in {"check", "recheck"} /\ Keep /\ UNCHANGED volume
  /\ Move(p, IF Valid(volume) THEN "report" ELSE IF pods[p] = "check" THEN "redo" ELSE "failed")

\* report_task_artifacts reads the files again.  What does not fit the message
\* is reported as a failure.  Nobody reads the report of a task that is over.
Report(p) ==
  /\ pods[p] \in {"report", "giveup"}
  /\ LET t == Task(p)
         message == [outcome |-> volume.outcome, result |-> volume.result, change |-> volume.change]
         tooLarge == [outcome |-> [status |-> "failed", by |-> t], result |-> Nothing, change |-> Nothing]
     IN  \/ volume.outcome = Nothing /\ Move(p, "failed") /\ UNCHANGED messages
         \/ /\ volume.outcome # Nothing
            /\ messages' = [messages EXCEPT ![t] = IF rows[t] = "active" THEN message ELSE Nothing]
            /\ Move(p, IF pods[p] = "report" THEN "succeeded" ELSE "failed")
         \/ /\ volume.outcome # Nothing
            /\ messages' = [messages EXCEPT ![t] = IF rows[t] = "active" THEN tooLarge ELSE Nothing]
            /\ Move(p, "failed")
  /\ UNCHANGED <<control, jobs, volume, publication>>

\* backoffLimit 1: a failed pod is replaced once, unless its Job is over.
Retry(t) ==
  /\ jobs[t] = "active" /\ pods[<<t, 1>>] = "failed" /\ pods[<<t, 2>>] = "absent"
  /\ Cardinality({u \in TaskIds : pods[<<u, 2>>] # "absent"}) < MaxRetries
  /\ Move(<<t, 2>>, "clone")
  /\ messages' = [messages EXCEPT ![t] = Nothing]
  /\ UNCHANGED <<control, jobs, volume, publication>>

\* activeDeadlineSeconds: the Job has failed; its pod has thirty more seconds.
Expire(t) ==
  /\ jobs[t] = "active" /\ ~Succeeded(t)
  /\ jobs' = [jobs EXCEPT ![t] = "expired"]
  /\ UNCHANGED <<control, pods, messages, volume, publication>>

-----------------------------------------------------------------------------
(* The session controller; the lease of a publication keeps it out.        *)

Launch(t) ==
  /\ rows' = [rows EXCEPT ![t] = "active"]
  /\ jobs' = [jobs EXCEPT ![t] = "active"]
  /\ Move(<<t, 1>>, "clone")
  /\ UNCHANGED <<input, found, messages, volume, publication>>

Start == rows[1] = "none" /\ Launch(1)

\* Mutant of Continue: a task is added while the session is being published.
ContinueDespiteLease(t) ==
  /\ t + 1 \in TaskIds /\ IsLatest(t) /\ rows[t] \in Terminal
  /\ Launch(t + 1)

\* The initial task alone has a change input.
Continue(t) ==
  /\ ~lease
  /\ t + 1 \in TaskIds /\ IsLatest(t) /\ rows[t] \in Terminal
  /\ Launch(t + 1)

\* Mutant of Observe: a failure is recorded as the Job reports it.
ObserveRecordsJob(t) ==
  /\ ~lease /\ rows[t] = "active" /\ jobs[t] \in {"active", "expired"} /\ Ended(t)
  /\ rows' = [rows EXCEPT ![t] = IF Succeeded(t) THEN messages[t].outcome.status ELSE jobs[t]]
  /\ found' = [found EXCEPT ![t] = Nothing]
  /\ messages' = [messages EXCEPT ![t] = Nothing]
  /\ UNCHANGED <<input, jobs, pods, volume, publication>>

\* Observe: a Job with a failed pod has failed unless it has succeeded.
Observe(t) ==
  /\ ~lease /\ rows[t] = "active" /\ jobs[t] \in {"active", "expired"} /\ Ended(t)
  /\ \/ /\ Succeeded(t)
        /\ messages[t].outcome.status = "completed" => messages[t].result # Nothing
        /\ rows' = [rows EXCEPT ![t] = messages[t].outcome.status]
     \/ ~Succeeded(t) /\ rows' = [rows EXCEPT ![t] = "failed"]
  /\ found' = [found EXCEPT ![t] = IF rows'[t] = "completed" THEN messages[t] ELSE Nothing]
  /\ messages' = [messages EXCEPT ![t] = Nothing]
  /\ UNCHANGED <<input, jobs, pods, volume, publication>>

\* Delete keeps the volume.  A task that has ended is observed first; the Jobs
\* go in the background, and nothing waits for their pods.  The publisher's
\* Job bears the session's label and goes too, its pod taken to go with it.
Delete(t) ==
  /\ ~lease /\ IsLatest(t)
  /\ rows[t] = "active" => ~Ended(t)
  /\ rows' = [rows EXCEPT ![t] = IF @ = "active" THEN "canceled" ELSE @]
  /\ jobs' = [u \in TaskIds |-> IF jobs[u] = "none" THEN "none" ELSE "deleted"]
  /\ messages' = [u \in TaskIds |-> Nothing]
  /\ publisher' = "absent"
  /\ UNCHANGED <<input, found, pods, volume, lease, pub, branch>>

-----------------------------------------------------------------------------
(* The publication.  Its record keeps what the first request found; every  *)
(* repetition of the request works from the record.                        *)

Publish(t) ==
  /\ ~lease /\ IsLatest(t) /\ rows[t] = "completed" /\ found[t].result # Nothing
  /\ pub.state # "over"
  /\ pub' = IF pub.state = "none" THEN [state |-> "ready", task |-> t, change |-> found[t].change] ELSE pub
  /\ publisher' = IF publisher = "absent" THEN "check" ELSE publisher
  /\ lease' = TRUE
  /\ UNCHANGED <<control, jobs, pods, messages, volume, branch>>

\* The request ends before its Job: the client is gone, the wait times out, or
\* the server stops.
LoseLease ==
  /\ lease /\ lease' = FALSE
  /\ UNCHANGED <<control, jobs, pods, messages, volume, pub, publisher, branch>>

\* A Job that succeeded, or failed after its push, ends the publication; one
\* that failed before is removed for the next request to try again.
EndPublish ==
  /\ lease /\ publisher \in {"succeeded", "failed"}
  /\ pub' = [pub EXCEPT !.state = IF branch # Nothing THEN "over" ELSE "ready"]
  /\ publisher' = "absent" /\ lease' = FALSE
  /\ UNCHANGED <<control, jobs, pods, messages, volume, branch>>

Publishes(from, to) ==
  /\ publisher = from /\ publisher' = to
  /\ UNCHANGED <<control, jobs, pods, messages, volume, lease, pub>>

\* publish_workspace reads the metadata on the volume, before and after.
ReadMetadata ==
  /\ \/ Publishes("check", IF volume.result # Nothing THEN "push" ELSE "failed")
     \/ Publishes("title", IF volume.result # Nothing THEN "succeeded" ELSE "failed")
  /\ UNCHANGED branch

\* Mutant of Content: the workspace is published as it is now.
ContentOfWorkspace == [units |-> volume.tree, torn |-> ~volume.whole]

\* The patch of the record, or the workspace when it has none.
Content ==
  IF pub.change # Nothing THEN pub.change ELSE [units |-> volume.tree, torn |-> ~volume.whole]

\* A branch that is there is not overwritten.
Push ==
  \/ /\ branch = Nothing /\ (pub.change # Nothing => pub.change \in volume.kept)
     /\ Content.units # {} \/ Content.torn
     /\ Publishes("push", "title") /\ branch' = Content
  \/ /\ branch # Nothing \/ (pub.change # Nothing /\ pub.change \notin volume.kept)
                         \/ (Content.units = {} /\ ~Content.torn)
     /\ Publishes("push", "failed") /\ UNCHANGED branch

PublisherFails ==
  \E from \in {"check", "push", "title"} : Publishes(from, "failed") /\ UNCHANGED branch

-----------------------------------------------------------------------------
PodStep(p) ==
  \/ PodFails(p) \/ Clone(p) \/ Apply(p) \/ Clear(p) \/ Agent(p) \/ Redo(p)
  \/ Stage(p) \/ Check(p) \/ Report(p)

TaskStep(t) ==
  Retry(t) \/ Expire(t) \/ Continue(t) \/ Observe(t) \/ Delete(t) \/ Publish(t)

\* Pods of two tasks are alive; what they leave is nobody's for sure.
TwoTasksWork == \E p, q \in Pods : Live(p) /\ Live(q) /\ Task(p) # Task(q)

Next ==
  /\ \/ \E p \in Pods : PodStep(p)
     \/ \E t \in TaskIds : TaskStep(t)
     \/ Start \/ LoseLease \/ EndPublish \/ ReadMetadata \/ Push \/ PublisherFails
  /\ overlapped' = (overlapped \/ TwoTasksWork')

Spec == Init /\ [][Next]_vars

-----------------------------------------------------------------------------
(* Properties *)

TypeOK ==
  /\ input \in BOOLEAN /\ lease \in BOOLEAN /\ overlapped \in BOOLEAN
  /\ rows \in [TaskIds -> RowStates]
  /\ found \in [TaskIds -> Maybe(Messages)]
  /\ jobs \in [TaskIds -> JobStates]
  /\ pods \in [Pods -> PodPlaces]
  /\ messages \in [TaskIds -> Maybe(Messages)]
  /\ volume \in Volumes
  /\ pub \in Publications /\ publisher \in PublisherPlaces
  /\ branch \in Maybe(Patches)

Completed(t) == rows[t] = "completed"

\* Artifacts are "produced by a task" (README.md:18): what is recorded for a
\* completed task was written by its own agent and is complete, although the
\* files of every earlier task and every failed pod are on the same volume.
\* Two tasks at work at once can report each other's.
ResultsAreOwn ==
  \A t \in TaskIds : Completed(t) /\ ~overlapped =>
    /\ found[t].outcome.by = t
    /\ found[t].result = t
    /\ found[t].change # Nothing

\* A patch whose digest SQL holds, with a task or with a publication, is on
\* the volume for good: later tasks, their failed pods and two tasks at once
\* leave it to the publisher and to the steps that take it.
RecordedChangesStay ==
  /\ \A t \in TaskIds :
       found[t] # Nothing /\ found[t].change # Nothing => found[t].change \in volume.kept
  /\ pub.change # Nothing => pub.change \in volume.kept

\* What is pushed is the recorded change of the completed task whose title and
\* body the pull request gets, whatever other tasks have done to the workspace
\* since the first request, in its retries, or beside the publisher after a
\* crash.
PublishedIsRecorded ==
  /\ branch # Nothing /\ pub.change # Nothing =>
       branch = pub.change /\ Completed(pub.task) /\ branch = found[pub.task].change
  /\ branch # Nothing /\ ~overlapped => pub.change # Nothing

\* The patches of a continued session are cumulative: a later task's patch has
\* what an earlier one's had, committed or not, because both start from the
\* commit that was checked out.  A clone that died half-way breaks this.
ChangesAccumulate ==
  \A t, u \in TaskIds :
    t < u /\ Completed(t) /\ Completed(u) /\ ~overlapped /\ volume.whole /\ volume.base # Word
      => found[t].change.units \subseteq found[u].change.units

\* "Publication holds an exclusive session lease" (session/control.go:419): no
\* agent works on the session's volume while a request publishes it, except
\* for pods of a failed or canceled task that Kubernetes has not stopped, or
\* has yet to replace.
LeaseExcludesTasks ==
  lease => \A p \in Pods : Live(p) => rows[Task(p)] \in {"failed", "canceled"}

\* "repo-init checks out the requested ref and records its base commit", and
\* "change-init ... applies the patch ... before setup runs" (README.md:38-40):
\* an agent that works has all of that.
AgentsArePrepared ==
  \A p \in Pods : pods[p] \in AgentPlaces =>
    volume.whole /\ volume.base = {} /\ (input => Input \in volume.tree)
=============================================================================
