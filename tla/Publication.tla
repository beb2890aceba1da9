----------------------------- MODULE Publication -----------------------------
(***************************************************************************)
(* Publishing a session: internal/publish/publish.go, its SQL repository   *)
(* (internal/storage/publish.go), the publisher Job                        *)
(* (internal/workload/publish.go and the "publish" command of              *)
(* container/agent-entrypoint) and what it asks of GitHub                  *)
(* (internal/github/client.go).                                            *)
(*                                                                         *)
(* One session, one branch and one base are modelled.  A request handler   *)
(* makes one repository, runtime or GitHub call per step, while it holds   *)
(* the session's lease; requests are repeated, calls fail before or after  *)
(* they took effect, the server crashes, the Job works, fails or loses its *)
(* pod, and other people work on the same branch.                          *)
(*                                                                         *)
(* Abstracted: titles, patches and credentials; a commit is the number of  *)
(* the Job that made it.  A pod is gone as soon as its Job is deleted.     *)
(***************************************************************************)
EXTENDS Integers

CONSTANTS
  Handlers,        \* concurrent publish requests
  Intents,         \* what they ask for (the intent digest)
  NoIntent,
  Nothing,         \* no branch, no commit
  Base,            \* a branch that others made, still at the base's commit
  Foreign,         \* a branch with commits of others on it
  Free,            \* the lease's owner when nobody holds it
  MaxJobs,         \* bound: publisher Jobs created
  MaxFaults,       \* bound: failed calls, lost replies and crashes
  MaxLosses,       \* bound: results lost with their pod
  MaxInterference  \* bound: what others do to branch, pull request or session

ASSUME PublicationAssumption ==
  /\ NoIntent \notin Intents
  /\ Free \notin Handlers
  /\ MaxJobs \in Nat /\ MaxFaults \in Nat /\ MaxLosses \in Nat /\ MaxInterference \in Nat
  /\ {Nothing, Base, Foreign} \cap Nat = {}
  /\ Nothing # Base /\ Nothing # Foreign /\ Base # Foreign

VARIABLES
  record,      \* SQL row of the publication
  credential,  \* Kubernetes: the publisher's Secret exists
  job,         \* Kubernetes: the publisher's Job
  launched,    \* Jobs created so far
  pushed,      \* commits that have been pushed (history)
  branch,      \* GitHub: head of the requested branch
  pull,        \* GitHub: number of its open pull request, or 0
  author,      \* GitHub: who opened each pull request
  lock,        \* holder of the session's lease, or Free
  proc,        \* volatile state of every handler
  faults, losses, interference \* counts of the bounded events

cluster == <<credential, job, launched>>
github  == <<branch, pull, author>>
bounds  == <<faults, losses, interference>>
vars    == <<record, cluster, pushed, github, lock, proc, bounds>>

-----------------------------------------------------------------------------
Commits  == 1..MaxJobs
PullIds  == 1..(MaxInterference + 1)
NoPull   == 0

States  == {"none", "pending", "ready", "branch_published", "pull_request_created",
            "completed", "conflicted"}
Records == [state : States, intent : Intents \cup {NoIntent},
            commit : Commits \cup {Nothing}, pull : PullIds \cup {NoPull}]
NoRecord == [state |-> "none", intent |-> NoIntent, commit |-> Nothing, pull |-> NoPull]

\* A Job's commit is determined when it is created and reported ("readable")
\* while the pod that made it can be read.
Stages == {"none", "working", "pushed", "complete", "failed"}
Jobs   == [stage : Stages, intent : Intents \cup {NoIntent},
           commit : Commits \cup {Nothing}, readable : BOOLEAN]
NoJob  == [stage |-> "none", intent |-> NoIntent, commit |-> Nothing, readable |-> FALSE]

Calls  == {"create", "get", "pull", "branch", "saveready", "saveconflict", "find", "credential",
           "job", "wait", "recover", "savebranch", "await", "adopt", "savepull", "finish",
           "savedone", "discard"}
Idle   == [pc |-> "idle", intent |-> NoIntent, row |-> NoRecord, result |-> Nothing, found |-> NoPull]
Locals == [pc : Calls \cup {"idle", "lock", "open"}, intent : Intents \cup {NoIntent}, row : Records,
           result : Commits \cup {Nothing}, found : PullIds \cup {NoPull}]

At(h, place)   == proc[h].pc = place
Goto(h, place) == [proc[h] EXCEPT !.pc = place]

Step(h, local) == proc' = [proc EXCEPT ![h] = local] /\ UNCHANGED lock

\* Return: the deferred Close gives the lease back.
Done(h) ==
  /\ proc' = [proc EXCEPT ![h] = Idle]
  /\ lock' = IF lock = h THEN Free ELSE lock

Fault == faults < MaxFaults /\ faults' = faults + 1 /\ UNCHANGED <<losses, interference>>

Reply(h, local) == (Step(h, local) /\ UNCHANGED bounds) \/ (Fault /\ Done(h))

-----------------------------------------------------------------------------
Init ==
  /\ record = NoRecord
  /\ credential = FALSE /\ job = NoJob /\ launched = 0
  /\ pushed = {}
  /\ branch \in {Nothing, Base, Foreign} /\ pull = NoPull
  /\ author = [n \in PullIds |-> "none"]
  /\ lock = Free
  /\ proc = [h \in Handlers |-> Idle]
  /\ faults = 0 /\ losses = 0 /\ interference = 0

Request(h, intent) ==
  /\ At(h, "idle")
  /\ proc' = [proc EXCEPT ![h] = [Idle EXCEPT !.pc = "lock", !.intent = intent]]
  /\ UNCHANGED <<record, cluster, pushed, github, lock, bounds>>

\* PreparePublication of a session that is eligible.
Acquire(h) ==
  /\ At(h, "lock") /\ lock = Free
  /\ lock' = h
  /\ proc' = [proc EXCEPT ![h] = Goto(h, "create")]
  /\ UNCHANGED <<record, cluster, pushed, github, bounds>>

-----------------------------------------------------------------------------
(* The record: createOrLoad and what publish does by its state. *)

Create(h) ==
  /\ At(h, "create")
  /\ \/ /\ record.state = "none"
        /\ record' = [NoRecord EXCEPT !.state = "pending", !.intent = proc[h].intent]
        /\ Reply(h, [Goto(h, "pull") EXCEPT !.row = record'])
     \/ /\ record.state # "none"
        /\ Step(h, Goto(h, "get"))
        /\ UNCHANGED <<record, bounds>>
  /\ UNCHANGED <<cluster, pushed, github>>

\* Mutant of Resume: a publication in progress establishes ownership again.
ResumeFromStart(h, read) ==
  \/ /\ record.intent # read.intent \/ record.state \in {"none", "completed"}
     /\ Done(h)
  \/ /\ record.intent = read.intent /\ record.state = "conflicted"
     /\ Step(h, [read EXCEPT !.pc = "discard"])
  \/ /\ record.intent = read.intent
     /\ record.state \in {"pending", "ready", "branch_published", "pull_request_created"}
     /\ Step(h, [read EXCEPT !.pc = "pull"])

\* A different intent is refused and a completed publication returned; a
\* conflict is cleaned up after; anything else goes on where it stopped.
Resume(h, read) ==
  \/ /\ record.intent # read.intent \/ record.state \in {"none", "completed"}
     /\ Done(h)
  \/ /\ record.intent = read.intent /\ record.state = "conflicted"
     /\ Step(h, [read EXCEPT !.pc = "discard"])
  \/ /\ record.intent = read.intent /\ record.state = "pending"
     /\ Step(h, [read EXCEPT !.pc = "pull"])
  \/ /\ record.intent = read.intent
     /\ record.state \in {"ready", "branch_published", "pull_request_created"}
     /\ Step(h, [read EXCEPT !.pc = "find"])

Get(h) ==
  /\ At(h, "get")
  /\ Resume(h, [proc[h] EXCEPT !.row = record])
  /\ UNCHANGED <<record, cluster, pushed, github, bounds>>

\* Update: refused unless the row is still the one that was read (its
\* revision).  The handler goes on at the given place, with the new row.
Save(h, row, place) ==
  /\ \/ /\ record = proc[h].row
        /\ record' = row
        /\ Reply(h, [Goto(h, place) EXCEPT !.row = row])
     \/ /\ record # proc[h].row
        /\ Done(h)
        /\ UNCHANGED <<record, bounds>>
  /\ UNCHANGED <<cluster, pushed, github>>
\* The last call of a request that saves.
SaveLast(h, row) ==
  /\ record' = IF record = proc[h].row THEN row ELSE record
  /\ Done(h)
  /\ UNCHANGED bounds \/ Fault
  /\ UNCHANGED <<cluster, pushed, github>>

-----------------------------------------------------------------------------
(* establishOwnership: neither pull request nor branch may exist. *)

FindPull(h) ==
  /\ At(h, "pull")
  /\ Step(h, [Goto(h, "branch") EXCEPT !.found = pull])
  /\ UNCHANGED <<record, cluster, pushed, github, bounds>>

CheckBranch(h) ==
  /\ At(h, "branch")
  /\ IF branch # Nothing \/ proc[h].found # NoPull
     THEN Step(h, Goto(h, "saveconflict"))
     ELSE Step(h, Goto(h, "saveready"))
  /\ UNCHANGED <<record, cluster, pushed, github, bounds>>

SaveReady(h) ==
  /\ At(h, "saveready")
  /\ Save(h, [proc[h].row EXCEPT !.state = "ready"], "find")

\* A conflict found before ownership ends the request, one found after the
\* publisher failed is cleaned up after first.
SaveConflict(h) ==
  /\ At(h, "saveconflict")
  /\ LET row == [proc[h].row EXCEPT !.state = "conflicted"]
     IN  IF proc[h].row.state = "ready" THEN Save(h, row, "discard") ELSE SaveLast(h, row)

\* An open pull request is taken for this publication's, in whatever state the
\* publication is.
Find(h) ==
  /\ At(h, "find")
  /\ Step(h, IF pull # NoPull THEN [Goto(h, "savepull") EXCEPT !.found = pull]
             ELSE IF proc[h].row.state = "ready" THEN Goto(h, "credential") ELSE Goto(h, "await"))
  /\ UNCHANGED <<record, cluster, pushed, github, bounds>>

-----------------------------------------------------------------------------
(* RunPublisher: ensure the Secret and the Job, wait for the Job's end. *)

OtherJob(h) == job.stage # "none" /\ job.intent # proc[h].row.intent

EnsureCredential(h) ==
  /\ At(h, "credential")
  /\ \/ ~OtherJob(h) /\ credential' = TRUE /\ Reply(h, Goto(h, "job"))
     \/ OtherJob(h) /\ Done(h) /\ UNCHANGED <<credential, bounds>>
  /\ UNCHANGED <<record, job, launched, pushed, github>>

\* Mutant of EnsureJob: a Job that is over is replaced by a new one.
EnsureJobAfresh(h) ==
  /\ At(h, "job")
  /\ \/ /\ job.stage \in {"none", "complete", "failed"} /\ launched < MaxJobs
        /\ launched' = launched + 1
        /\ job' = [stage |-> "working", intent |-> proc[h].row.intent, commit |-> launched + 1,
                   readable |-> FALSE]
        /\ Reply(h, Goto(h, "wait"))
     \/ /\ job.stage \in {"working", "pushed"} /\ Step(h, Goto(h, "wait"))
        /\ UNCHANGED <<job, launched, bounds>>
     \/ /\ launched = MaxJobs /\ Done(h)
        /\ UNCHANGED <<job, launched, bounds>>
  /\ UNCHANGED <<record, credential, pushed, github>>

\* The Job of an earlier request is waited for again.  One more than MaxJobs
\* cannot be created.
EnsureJob(h) ==
  /\ At(h, "job")
  /\ \/ /\ job.stage = "none" /\ launched < MaxJobs
        /\ launched' = launched + 1
        /\ job' = [stage |-> "working", intent |-> proc[h].row.intent, commit |-> launched + 1,
                   readable |-> FALSE]
        /\ Reply(h, Goto(h, "wait"))
     \/ /\ job.stage # "none" /\ ~OtherJob(h)
        /\ Step(h, Goto(h, "wait"))
        /\ UNCHANGED <<job, launched, bounds>>
     \/ /\ OtherJob(h) \/ (job.stage = "none" /\ launched = MaxJobs)
        /\ Done(h)
        /\ UNCHANGED <<job, launched, bounds>>
  /\ UNCHANGED <<record, credential, pushed, github>>

Reported == IF job.readable THEN job.commit ELSE Nothing

\* Waiting ends with the Job, or without it when the time is up.
WaitForJob(h) ==
  /\ At(h, "wait")
  /\ \/ job.stage \in {"none", "working", "pushed"} /\ Done(h)
     \/ job.stage = "failed" /\ Step(h, [Goto(h, "recover") EXCEPT !.result = Reported])
     \/ job.stage = "complete" /\ job.readable
        /\ Step(h, [Goto(h, "savebranch") EXCEPT !.result = Reported])
     \/ job.stage = "complete" /\ ~job.readable /\ Done(h)
  /\ UNCHANGED <<record, cluster, pushed, github, bounds>>

\* Mutants of Recovered: the Job's word is taken for the branch; the branch's
\* head for the Job's commit.
RecoveredUnseen(h) ==
  IF branch = Nothing /\ proc[h].result = Nothing THEN Goto(h, "discard")
  ELSE IF proc[h].result # Nothing THEN Goto(h, "savebranch")
  ELSE Goto(h, "saveconflict")
RecoveredFromBranch(h) ==
  IF branch = Nothing THEN Goto(h, "discard")
  ELSE [Goto(h, "savebranch") EXCEPT !.result = branch]

\* recoverFailedPublisher: without a branch the Job may be run again; a branch
\* at the reported commit is the Job's; any other is a conflict.
Recovered(h) ==
  IF branch = Nothing THEN Goto(h, "discard")
  ELSE IF proc[h].result # Nothing /\ branch = proc[h].result THEN Goto(h, "savebranch")
  ELSE Goto(h, "saveconflict")

Recover(h) ==
  /\ At(h, "recover")
  /\ Step(h, Recovered(h))
  /\ UNCHANGED <<record, cluster, pushed, github, bounds>>

\* Mutant of SaveBranch: the pull request is opened without saving first.
SaveBranchLater(h) ==
  /\ At(h, "savebranch")
  /\ Step(h, [Goto(h, "await") EXCEPT !.row.commit = proc[h].result])
  /\ UNCHANGED <<record, cluster, pushed, github, bounds>>

SaveBranch(h) ==
  /\ At(h, "savebranch")
  /\ Save(h, [proc[h].row EXCEPT !.state = "branch_published", !.commit = proc[h].result], "await")

-----------------------------------------------------------------------------
(* The pull request. *)

\* WaitForBranchCommit: the branch has to appear at the recorded commit.
AwaitBranch(h) ==
  /\ At(h, "await")
  /\ IF branch # Nothing /\ branch = proc[h].row.commit THEN Step(h, Goto(h, "open")) ELSE Done(h)
  /\ UNCHANGED <<record, cluster, pushed, github, bounds>>

\* GitHub opens a pull request for a branch that has commits and no open one.
Openable == branch \notin {Nothing, Base} /\ pull = NoPull
OpenedBy(who) ==
  \E n \in PullIds :
    /\ author[n] = "none" /\ \A m \in PullIds : m < n => author[m] # "none"
    /\ author' = [author EXCEPT ![n] = who] /\ pull' = n

\* CreatePullRequest: whatever makes it fail, its effect may be there, so the
\* handler looks for an open pull request.
OpenPull(h) ==
  /\ At(h, "open")
  /\ \/ /\ Openable /\ OpenedBy("dyne")
        /\ \/ Step(h, [Goto(h, "savepull") EXCEPT !.found = pull']) /\ UNCHANGED bounds
           \/ Fault /\ Step(h, Goto(h, "adopt"))
     \/ ~Openable /\ Step(h, Goto(h, "adopt")) /\ UNCHANGED <<pull, author, bounds>>
     \/ Fault /\ Step(h, Goto(h, "adopt")) /\ UNCHANGED <<pull, author>>
  /\ UNCHANGED <<record, cluster, pushed, branch>>

AdoptPull(h) ==
  /\ At(h, "adopt")
  /\ IF pull # NoPull THEN Step(h, [Goto(h, "savepull") EXCEPT !.found = pull]) ELSE Done(h)
  /\ UNCHANGED <<record, cluster, pushed, github, bounds>>

SavePull(h) ==
  /\ At(h, "savepull")
  /\ Save(h, [proc[h].row EXCEPT !.state = "pull_request_created", !.pull = proc[h].found], "finish")

\* Mutants of DeletePublisher: the Secret is kept when the Job has gone already;
\* a Job that failed is kept for its logs.
DeletePublisherJobOnly ==
  /\ job' = NoJob
  /\ credential' = (credential /\ job.stage = "none")
  /\ UNCHANGED launched
DeletePublisherUnlessFailed ==
  /\ job' = IF job.stage = "failed" THEN job ELSE NoJob
  /\ credential' = FALSE
  /\ UNCHANGED launched

\* DeletePublisher removes the Job, waits for its pods, and removes the Secret;
\* when one fails it still tries the other.
DeletePublisher == job' = NoJob /\ credential' = FALSE /\ UNCHANGED launched
DeletePublisherFails ==
  /\ job' \in {job, NoJob} /\ credential' \in {credential, FALSE}
  /\ UNCHANGED launched

\* finish
Finish(h) ==
  /\ At(h, "finish")
  /\ \/ DeletePublisher /\ Reply(h, Goto(h, "savedone"))
     \/ DeletePublisherFails /\ Fault /\ Done(h)
  /\ UNCHANGED <<record, pushed, github>>

SaveDone(h) ==
  /\ At(h, "savedone")
  /\ SaveLast(h, [proc[h].row EXCEPT !.state = "completed"])

\* The publisher of a failed or conflicted publication is removed.
Discard(h) ==
  /\ At(h, "discard")
  /\ \/ DeletePublisher /\ Done(h) /\ UNCHANGED bounds
     \/ DeletePublisherFails /\ Fault /\ Done(h)
  /\ UNCHANGED <<record, pushed, github>>

-----------------------------------------------------------------------------
(* Faults *)

CallFails(h) ==
  /\ proc[h].pc \in Calls
  /\ Fault /\ Done(h)
  /\ UNCHANGED <<record, cluster, pushed, github>>

Crash ==
  /\ Fault
  /\ proc' = [h \in Handlers |-> Idle] /\ lock' = Free
  /\ UNCHANGED <<record, cluster, pushed, github>>

-----------------------------------------------------------------------------
(* The publisher's pod (publish_workspace), which works on whether or not  *)
(* anybody waits for it.                                                   *)

JobBecomes(stage, readable) ==
  /\ job' = [job EXCEPT !.stage = stage, !.readable = readable]
  /\ UNCHANGED <<record, credential, launched, pull, author, lock, proc>>

\* It clones, commits, reports the commit, and pushes, never with force.
Push ==
  /\ job.stage = "working"
  /\ \/ /\ branch \in {Nothing, Base}
        /\ branch' = job.commit /\ pushed' = pushed \cup {job.commit}
        /\ JobBecomes("pushed", FALSE)
     \/ /\ branch \notin {Nothing, Base}
        /\ UNCHANGED <<branch, pushed>>
        /\ JobBecomes("failed", TRUE)
  /\ UNCHANGED bounds

\* It succeeds when the branch is seen at its commit; it can fail at any time,
\* before it reported or after.
JobEnds ==
  /\ \/ job.stage = "pushed" /\ branch = job.commit /\ JobBecomes("complete", TRUE)
     \/ job.stage = "pushed" /\ JobBecomes("failed", TRUE)
     \/ job.stage = "working" /\ \E readable \in BOOLEAN : JobBecomes("failed", readable)
  /\ UNCHANGED <<branch, pushed, bounds>>

\* The pod goes before its result is read: collected after its end, evicted,
\* or removed by the Job's active deadline.
LoseResult ==
  /\ losses < MaxLosses /\ losses' = losses + 1
  /\ \/ job.stage = "pushed" /\ JobBecomes("failed", FALSE)
     \/ job.readable /\ JobBecomes(job.stage, FALSE)
  /\ UNCHANGED <<branch, pushed, faults, interference>>

-----------------------------------------------------------------------------
(* Others: the repository's developers, and clients who delete the session. *)

Developers ==
  /\ interference < MaxInterference /\ interference' = interference + 1
  /\ \/ branch = Nothing /\ branch' \in {Base, Foreign} /\ UNCHANGED <<pull, author>>
     \/ branch \notin {Nothing, Foreign} /\ branch' = Foreign /\ UNCHANGED <<pull, author>>
     \/ branch # Nothing /\ branch' = Nothing /\ pull' = NoPull /\ UNCHANGED author
     \/ branch = Nothing /\ pull = NoPull /\ branch' = Foreign /\ OpenedBy("other")
     \/ Openable /\ OpenedBy("other") /\ UNCHANGED branch
     \/ pull # NoPull /\ pull' = NoPull /\ UNCHANGED <<branch, author>>
  /\ UNCHANGED <<record, cluster, pushed, lock, proc, faults, losses>>

\* Mutant of DeleteSession: the publisher Job of a removed session stays.
DeleteSessionOnly ==
  /\ lock = Free
  /\ interference < MaxInterference /\ interference' = interference + 1
  /\ credential' = FALSE
  /\ record' \in {record, NoRecord}
  /\ UNCHANGED <<job, launched, pushed, github, lock, proc, faults, losses>>

\* Deleting a session removes every Job and Secret with its label; a session
\* that goes for good takes its publication along (ON DELETE CASCADE).
DeleteSession ==
  /\ lock = Free
  /\ interference < MaxInterference /\ interference' = interference + 1
  /\ job' = NoJob /\ credential' = FALSE
  /\ record' \in {record, NoRecord}
  /\ UNCHANGED <<launched, pushed, github, lock, proc, faults, losses>>

-----------------------------------------------------------------------------
Work(h) ==
  \/ Create(h) \/ Get(h) \/ FindPull(h) \/ CheckBranch(h) \/ SaveReady(h) \/ SaveConflict(h)
  \/ Find(h) \/ EnsureCredential(h) \/ EnsureJob(h) \/ WaitForJob(h) \/ Recover(h)
  \/ SaveBranch(h) \/ AwaitBranch(h) \/ OpenPull(h) \/ AdoptPull(h) \/ SavePull(h)
  \/ Finish(h) \/ SaveDone(h) \/ Discard(h)

Next ==
  \/ \E h \in Handlers :
       \/ \E intent \in Intents : Request(h, intent)
       \/ Acquire(h) \/ Work(h) \/ CallFails(h)
  \/ Crash
  \/ Push \/ JobEnds \/ LoseResult
  \/ Developers \/ DeleteSession

Spec == Init /\ [][Next]_vars

(* Handlers and Jobs go on, and the session's mutex does not starve a      *)
(* waiter.  Nobody is bound to repeat a request, to fail or to interfere.  *)
Fairness ==
  /\ \A h \in Handlers : SF_vars(Acquire(h)) /\ WF_vars(Work(h))
  /\ WF_vars(Push \/ JobEnds)

FairSpec == Spec /\ Fairness

-----------------------------------------------------------------------------
(* Properties *)

TypeOK ==
  /\ record \in Records
  /\ credential \in BOOLEAN /\ job \in Jobs /\ launched \in 0..MaxJobs
  /\ pushed \subseteq Commits
  /\ branch \in Commits \cup {Nothing, Base, Foreign}
  /\ pull \in PullIds \cup {NoPull}
  /\ author \in [PullIds -> {"none", "dyne", "other"}]
  /\ lock \in Handlers \cup {Free}
  /\ proc \in [Handlers -> Locals]
  /\ faults \in 0..MaxFaults /\ losses \in 0..MaxLosses /\ interference \in 0..MaxInterference

\* Whatever fails and however often the request is repeated, dyne does not
\* take its own work for somebody else's: a publication that found no branch
\* when it began ends in conflict only when a result was lost or somebody
\* interfered.
ConflictsHaveCauses ==
  record.state = "conflicted" => losses > 0 \/ interference > 0 \/ pushed = {}

\* A commit on record is one that the publisher did push, although the Job's
\* report may precede a push that fails.
ClaimsWereEarned ==
  record.commit # Nothing => record.commit \in pushed

\* A publisher at work is on record: its Job has the intent of the session's
\* publication, which has found the branch free and is not completed.
PublisherIsRecorded ==
  job.stage # "none" =>
    /\ record.intent = job.intent
    /\ record.state \notin {"none", "pending", "completed"}

\* "StateCompleted means the pull request exists and disposable publisher
\* resources are removed" (publish.go:50): neither Job nor credential is left.
CompletedLeavesNothing ==
  record.state = "completed" => job.stage = "none" /\ ~credential /\ record.pull # NoPull

\* dyne opens a pull request, which cannot be repeated harmlessly, only after
\* the record of the branch it is for is durable.
PullsFollowBranches ==
  [][\A n \in PullIds : author[n] = "none" /\ author'[n] = "dyne" =>
       record.state \in {"branch_published", "pull_request_created"} /\ record.commit \in pushed]_vars

\* Whatever interleaves, fails or crashes, the row changes as the ledger of
\* PublicationLedger says.
Ledger == INSTANCE PublicationLedger
ImplementsLedger == Ledger!Spec

\* What no repetition of the request gets over: a Job that completed without a
\* readable result, a Job that failed each time, and a branch that others moved.
Stuck ==
  \/ record.state = "ready" /\ job.stage = "complete" /\ ~job.readable
  \/ record.state = "ready" /\ launched = MaxJobs /\ job.stage \in {"none", "failed"}
  \/ /\ record.state \in {"branch_published", "pull_request_created"}
     /\ pull = NoPull
     /\ branch # record.commit \/ branch = Nothing

\* "Run the same publish command again after a failure" (README.md:302): when
\* that is done again and again the publication is settled, unless it is stuck.
RetriesSettle ==
  []<>(\E h \in Handlers : At(h, "get") /\ proc[h].intent = record.intent)
    => ((record.state # "none") ~>
          (record.state \in {"none", "completed", "conflicted"} \/ Stuck))

\* "StateConflicted means the requested GitHub names existed before ownership
\* was established" (publish.go:52): not when the branch is dyne's own.
ConflictIsForeign ==
  record.state = "conflicted" /\ interference = 0 => pushed = {}
=============================================================================
