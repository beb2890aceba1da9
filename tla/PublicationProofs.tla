-------------------------- MODULE PublicationProofs --------------------------
(***************************************************************************)
(* Theorems about Publication, for any requests, intents and bounds.       *)
(*                                                                         *)
(* The lease lets one request at a time make calls (Exclusive), so the row *)
(* that it works from is the row in SQL (Local); only Jobs, developers and *)
(* crashes move meanwhile.  What they can do to each other is Durable.     *)
(***************************************************************************)
EXTENDS Publication, TLAPS

Busy(h) == proc[h].pc \notin {"idle", "lock"}

\* Only the holder of the lease is between its calls.
Exclusive == \A h \in Handlers : Busy(h) => lock = h

\* A Job has a commit, and what it claims to have pushed it has; nobody else
\* makes dyne's commits; a Job of a conflict is over.
Publishers ==
  /\ job.stage # "none" => job.commit \in Commits
  /\ job.stage \in {"pushed", "complete"} => job.commit \in pushed
  /\ branch \in Commits => branch \in pushed
  /\ record.state = "conflicted" => job.stage \in {"none", "failed"}

\* The row names its pull request from the time it says that there is one.
RowsComplete ==
  record.state \in {"pull_request_created", "completed"} => record.pull # NoPull

\* As long as nobody interferes, one commit is pushed at most, for a row that
\* owns the branch; while the row has not recorded it, its Job is kept and
\* tells, unless its pod was lost.
Undisturbed ==
  interference = 0 =>
    /\ pushed \in {{}, {branch}}
    /\ record.state \in {"none", "pending"} => pushed = {}
    /\ record.state = "ready" /\ pushed # {} =>
         /\ job.stage \in {"pushed", "complete", "failed"} /\ job.commit = branch
         /\ losses = 0 /\ job.stage # "pushed" => job.readable

\* What a request knows at each of its places.
Local(h) ==
  LET at == proc[h] IN
  /\ at.pc # "idle" => at.intent \in Intents
  /\ Busy(h) /\ at.pc \notin {"create", "get"} => at.row = record
  /\ at.pc \in {"pull", "branch", "saveready"} => record.state = "pending"
  /\ at.pc \in {"credential", "job", "wait", "recover", "savebranch"} => record.state = "ready"
  /\ at.pc \in {"find", "savepull"} =>
       record.state \in {"ready", "branch_published", "pull_request_created"}
  /\ at.pc \in {"await", "open", "adopt"} => record.state \in {"branch_published", "pull_request_created"}
  /\ at.pc \in {"finish", "savedone"} => record.state = "pull_request_created"
  /\ at.pc = "recover" =>
       /\ job.stage = "failed"
       /\ losses = 0 /\ interference = 0 /\ pushed # {} => at.result = branch
  /\ at.pc = "saveconflict" =>
       /\ record.state \in {"pending", "ready"}
       /\ record.state = "ready" => job.stage = "failed"
       /\ losses = 0 /\ interference = 0 => pushed = {}
  /\ at.pc = "discard" =>
       /\ record.state \in {"ready", "conflicted"}
       /\ record.state = "ready" => job.stage = "failed" /\ (interference = 0 => pushed = {})
  /\ at.pc = "savebranch" => at.result \in pushed
  /\ at.pc = "open" => record.commit # Nothing
  /\ at.pc = "savepull" => at.found \in PullIds
  /\ at.pc = "savedone" => job.stage = "none" /\ ~credential

\* The parts of the invariant that speak of the row, the cluster and GitHub.
Durable ==
  /\ Publishers /\ RowsComplete /\ Undisturbed
  /\ ConflictsHaveCauses /\ ClaimsWereEarned /\ PublisherIsRecorded /\ CompletedLeavesNothing

IInv ==
  /\ TypeOK
  /\ Exclusive
  /\ Durable
  /\ \A h \in Handlers : Local(h)

-----------------------------------------------------------------------------
(* Lemmas about the moves every action is made of.                         *)

USE PublicationAssumption

\* TypeOK without the lease and the requests, which every move sets.
RestTyped ==
  /\ record \in Records
  /\ credential \in BOOLEAN /\ job \in Jobs /\ launched \in 0..MaxJobs
  /\ pushed \subseteq Commits
  /\ branch \in Commits \cup {Nothing, Base, Foreign}
  /\ pull \in PullIds \cup {NoPull}
  /\ author \in [PullIds -> {"none", "dyne", "other"}]
  /\ faults \in 0..MaxFaults /\ losses \in 0..MaxLosses /\ interference \in 0..MaxInterference

LEMMA IdleIsLocal == Idle \in Locals
BY DEF Idle, Locals, Records, NoRecord, States, NoPull

LEMMA PullsAreNumbered == NoPull \notin PullIds
BY DEF NoPull, PullIds

\* What a request at one of its calls knows, with its types.
LEMMA AtCall ==
  ASSUME IInv, NEW h \in Handlers
  PROVE  /\ proc \in [Handlers -> Locals] /\ proc[h] \in Locals
         /\ Local(h) /\ RestTyped /\ Durable
         /\ (Fault => faults' \in 0..MaxFaults /\ UNCHANGED <<losses, interference>>)
BY DEF IInv, TypeOK, RestTyped, Fault

\* A request that makes no calls is promised nothing that another one could spoil.
LEMMA OthersUndisturbed ==
  ASSUME IInv, NEW h \in Handlers, Busy(h), NEW local \in Locals,
         proc' = [proc EXCEPT ![h] = local]
  PROVE  /\ proc' \in [Handlers -> Locals] /\ proc'[h] = local
         /\ \A g \in Handlers \ {h} : Local(g)' /\ ~Busy(g)'
<1>1. proc' \in [Handlers -> Locals] /\ proc'[h] = local
  BY AtCall
<1>2. ASSUME NEW g \in Handlers \ {h} PROVE Local(g)' /\ ~Busy(g)'
  <2>1. ~Busy(g) /\ proc'[g] = proc[g] /\ Local(g)
    BY AtCall, IdleIsLocal DEF IInv, Exclusive
  <2> QED BY <2>1 DEF Local, Busy
<1> QED BY <1>1, <1>2

\* A busy request goes on to its next call.
LEMMA GoesOn ==
  ASSUME IInv, NEW h \in Handlers, Busy(h), NEW local \in Locals, Step(h, local),
         RestTyped', Durable', Local(h)'
  PROVE  IInv'
<1>1. /\ proc' \in [Handlers -> Locals] /\ lock' = lock /\ lock = h
      /\ \A g \in Handlers \ {h} : Local(g)' /\ ~Busy(g)'
  BY OthersUndisturbed DEF Step, IInv, Exclusive
<1>2. Exclusive'
  BY <1>1 DEF Exclusive
<1> QED BY <1>1, <1>2 DEF IInv, TypeOK, RestTyped

\* A busy request returns: nothing remains to be said about it.
LEMMA Returns ==
  ASSUME IInv, NEW h \in Handlers, Busy(h), Done(h), RestTyped', Durable'
  PROVE  IInv'
<1>1. /\ proc' \in [Handlers -> Locals] /\ proc'[h] = Idle
      /\ \A g \in Handlers \ {h} : Local(g)' /\ ~Busy(g)'
  BY OthersUndisturbed, IdleIsLocal DEF Done
<1>2. Local(h)' /\ ~Busy(h)'
  BY <1>1 DEF Local, Busy, Idle
<1>3. Exclusive' /\ lock' \in Handlers \cup {Free}
  BY <1>1, <1>2 DEF Exclusive, Done, IInv, TypeOK
<1> QED BY <1>1, <1>2, <1>3 DEF IInv, TypeOK, RestTyped

\* Nothing but a failure is counted, and the durable state stays as it is.
LEMMA ReadOnly ==
  ASSUME IInv, UNCHANGED <<record, cluster, pushed, github, losses, interference>>,
         faults' \in 0..MaxFaults
  PROVE  RestTyped' /\ Durable'
<1>1. RestTyped /\ Durable
  BY DEF IInv, TypeOK, RestTyped
<1>2. RestTyped'
  BY <1>1 DEF RestTyped, cluster, github
<1>3. Durable'
  BY <1>1 DEF Durable, Publishers, RowsComplete, Undisturbed, ConflictsHaveCauses, ClaimsWereEarned,
     PublisherIsRecorded, CompletedLeavesNothing, cluster, github
<1> QED BY <1>2, <1>3

LEMMA ReadReturns ==
  ASSUME IInv, NEW h \in Handlers, Busy(h), Done(h),
         UNCHANGED <<record, cluster, pushed, github, losses, interference>>, faults' \in 0..MaxFaults
  PROVE  IInv'
BY Returns, ReadOnly

LEMMA ReadGoesOn ==
  ASSUME IInv, NEW h \in Handlers, Busy(h), NEW local \in Locals, Step(h, local),
         UNCHANGED <<record, cluster, pushed, github, bounds>>, Local(h)'
  PROVE  IInv'
<1>1. faults' \in 0..MaxFaults /\ UNCHANGED <<losses, interference>>
  BY DEF bounds, IInv, TypeOK
<1> QED BY <1>1, GoesOn, ReadOnly

LEMMA SameBounds == bounds' = bounds <=> (faults' = faults /\ losses' = losses /\ interference' = interference)
BY DEF bounds

-----------------------------------------------------------------------------
(* One lemma per action: it preserves the invariant.                       *)

LEMMA RequestPreserves ==
  ASSUME IInv, NEW h \in Handlers, NEW intent \in Intents, Request(h, intent)
  PROVE  IInv'
<1>1. /\ UNCHANGED <<record, cluster, pushed, github, losses, interference, lock>>
      /\ faults' \in 0..MaxFaults /\ ~Busy(h)
  BY AtCall DEF Request, bounds, RestTyped, Busy, At
<1>2. /\ proc'[h] = [Idle EXCEPT !.pc = "lock", !.intent = intent]
      /\ \A g \in Handlers \ {h} : proc'[g] = proc[g]
      /\ proc' \in [Handlers -> Locals]
  BY AtCall, IdleIsLocal DEF Request, Locals
<1>3. RestTyped' /\ Durable'
  BY <1>1, ReadOnly
<1>4. Exclusive'
  BY <1>1, <1>2 DEF IInv, Exclusive, Busy, Idle
<1>5. Local(h)'
  BY <1>2 DEF Local, Busy, Idle
<1>6. ASSUME NEW g \in Handlers \ {h} PROVE Local(g)'
  BY <1>1, <1>2 DEF IInv, Local, Busy, cluster, github
<1> QED BY <1>1, <1>2, <1>3, <1>4, <1>5, <1>6 DEF IInv, TypeOK, RestTyped

LEMMA AcquirePreserves ==
  ASSUME IInv, NEW h \in Handlers, Acquire(h)
  PROVE  IInv'
<1>1. /\ UNCHANGED <<record, cluster, pushed, github, losses, interference>>
      /\ faults' \in 0..MaxFaults /\ \A g \in Handlers : ~Busy(g)
  BY AtCall DEF Acquire, bounds, RestTyped, IInv, Exclusive
<1>2. /\ proc'[h] = Goto(h, "create") /\ lock' = h
      /\ \A g \in Handlers \ {h} : proc'[g] = proc[g]
      /\ proc' \in [Handlers -> Locals]
  BY AtCall DEF Acquire, Goto, Locals, Calls
<1>3. RestTyped' /\ Durable'
  BY <1>1, ReadOnly
<1>4. Exclusive'
  BY <1>1, <1>2 DEF Exclusive, Busy
<1>5. Local(h)'
  BY <1>1, <1>2, AtCall DEF Local, Busy, Goto, Acquire, At
<1>6. ASSUME NEW g \in Handlers \ {h} PROVE Local(g)'
  BY <1>1, <1>2 DEF IInv, Local, Busy
<1> QED BY <1>2, <1>3, <1>4, <1>5, <1>6 DEF IInv, TypeOK, RestTyped

-----------------------------------------------------------------------------
(* The row of the publication *)

LEMMA CreatePreserves ==
  ASSUME IInv, NEW h \in Handlers, Create(h)
  PROVE  IInv'
<1>1. /\ Busy(h) /\ proc[h] \in Locals /\ proc[h].intent \in Intents /\ proc[h].pc = "create"
      /\ UNCHANGED <<cluster, pushed, github>> /\ RestTyped /\ Durable
  BY AtCall DEF Create, At, Busy, Local
<1>2. CASE record.state = "none"
  <2> DEFINE row   == [NoRecord EXCEPT !.state = "pending", !.intent = proc[h].intent]
             local == [Goto(h, "pull") EXCEPT !.row = row]
  <2>1. /\ record' = row /\ (Step(h, local) \/ Done(h))
        /\ faults' \in 0..MaxFaults /\ UNCHANGED <<losses, interference>>
    BY <1>1, <1>2, AtCall DEF Create, Reply, bounds, RestTyped
  <2>2. /\ row \in Records /\ row.state = "pending" /\ row.commit = Nothing
    BY <1>1 DEF Records, NoRecord, States
  <2>3. RestTyped'
    BY <1>1, <2>1, <2>2 DEF RestTyped, cluster, github
  <2>4. Durable'
    BY <1>1, <1>2, <2>1, <2>2 DEF Durable, Publishers, RowsComplete, Undisturbed, ConflictsHaveCauses,
       ClaimsWereEarned, PublisherIsRecorded, CompletedLeavesNothing, cluster, github
  <2>5. local \in Locals
    BY <1>1, <2>2 DEF Locals, Goto, Calls
  <2>6. CASE Step(h, local)
    <3>1. proc'[h] = local /\ local.pc = "pull" /\ local.row = row /\ local.intent = proc[h].intent
      BY <1>1, <2>5, <2>6, AtCall DEF Step, Goto, Locals
    <3>2. Local(h)'
      BY <1>1, <2>1, <2>2, <3>1 DEF Local, Busy
    <3> QED BY <1>1, <2>3, <2>4, <2>5, <2>6, <3>2, GoesOn
  <2>7. CASE Done(h)
    BY <1>1, <2>3, <2>4, <2>7, Returns
  <2> QED BY <2>1, <2>6, <2>7
<1>3. CASE record.state # "none"
  <2>1. Step(h, Goto(h, "get")) /\ UNCHANGED <<record, cluster, pushed, github, bounds>>
    BY <1>1, <1>3 DEF Create
  <2>2. Goto(h, "get") \in Locals
    BY <1>1 DEF Goto, Locals, Calls
  <2>3. Local(h)'
    BY <1>1, <2>1, <2>2, AtCall DEF Local, Busy, Step, Goto
  <2> QED BY <1>1, <2>1, <2>2, <2>3, ReadGoesOn
<1> QED BY <1>2, <1>3

LEMMA GetPreserves ==
  ASSUME IInv, NEW h \in Handlers, Get(h)
  PROVE  IInv'
<1> DEFINE read == [proc[h] EXCEPT !.row = record]
<1>1. /\ Busy(h) /\ proc[h] \in Locals /\ proc[h].intent \in Intents /\ proc[h].pc = "get"
      /\ UNCHANGED <<record, cluster, pushed, github, bounds>> /\ Resume(h, read)
      /\ faults' \in 0..MaxFaults /\ UNCHANGED <<losses, interference>> /\ record \in Records
  BY AtCall DEF Get, At, Busy, Local, bounds, RestTyped
<1>2. CASE Done(h)
  BY <1>1, <1>2, ReadReturns
<1>3. ASSUME NEW place \in {"discard", "pull", "find"}, Step(h, [read EXCEPT !.pc = place]),
             place = "discard" => record.state = "conflicted",
             place = "pull" => record.state = "pending",
             place = "find" => record.state \in {"ready", "branch_published", "pull_request_created"}
      PROVE  IInv'
  <2> DEFINE local == [read EXCEPT !.pc = place]
  <2>1. local \in Locals
    BY <1>1 DEF Locals, Calls
  <2>2. proc'[h] = local /\ local.pc = place /\ local.row = record /\ local.intent = proc[h].intent
    BY <1>1, <1>3, <2>1, AtCall DEF Step, Locals
  <2>3. Local(h)'
    BY <1>1, <1>3, <2>2 DEF Local, Busy
  <2> QED BY <1>1, <1>3, <2>1, <2>3, ReadGoesOn
<1> QED BY <1>1, <1>2, <1>3 DEF Resume

\* Under the lease a save is never refused.
LEMMA SaveWrites ==
  ASSUME IInv, NEW h \in Handlers, Busy(h), ~At(h, "create"), ~At(h, "get"), NEW row, NEW place,
         Save(h, row, place)
  PROVE  /\ record' = row /\ UNCHANGED <<cluster, pushed, github, losses, interference>>
         /\ faults' \in 0..MaxFaults
         /\ Step(h, [Goto(h, place) EXCEPT !.row = row]) \/ Done(h)
BY AtCall DEF Save, Reply, Local, At, bounds, RestTyped

LEMMA SaveLastWrites ==
  ASSUME IInv, NEW h \in Handlers, Busy(h), ~At(h, "create"), ~At(h, "get"), NEW row,
         SaveLast(h, row)
  PROVE  /\ record' = row /\ UNCHANGED <<cluster, pushed, github, losses, interference>>
         /\ faults' \in 0..MaxFaults /\ Done(h)
BY AtCall DEF SaveLast, Local, At, bounds, RestTyped

LEMMA SaveReadyPreserves ==
  ASSUME IInv, NEW h \in Handlers, SaveReady(h)
  PROVE  IInv'
<1> DEFINE row   == [record EXCEPT !.state = "ready"]
           local == [Goto(h, "find") EXCEPT !.row = row]
<1>1. /\ Busy(h) /\ proc[h] \in Locals /\ proc[h].intent \in Intents /\ proc[h].pc = "saveready"
      /\ proc[h].row = record /\ record.state = "pending" /\ RestTyped /\ Durable
  BY AtCall DEF SaveReady, At, Busy, Local
<1>2. /\ record' = row /\ UNCHANGED <<cluster, pushed, github, losses, interference>>
      /\ faults' \in 0..MaxFaults /\ (Step(h, local) \/ Done(h))
  BY <1>1, SaveWrites DEF SaveReady, At
<1>3. /\ row \in Records /\ row.state = "ready" /\ row.commit = record.commit
      /\ row.intent = record.intent
  BY <1>1 DEF Records, States, RestTyped
<1>4. RestTyped'
  BY <1>1, <1>2, <1>3 DEF RestTyped, cluster, github
<1>5. Durable'
  BY <1>1, <1>2, <1>3 DEF Durable, Publishers, RowsComplete, Undisturbed, ConflictsHaveCauses,
     ClaimsWereEarned, PublisherIsRecorded, CompletedLeavesNothing, cluster, github
<1>6. CASE Step(h, local)
  <2>1. local \in Locals
    BY <1>1, <1>3 DEF Locals, Goto, Calls
  <2>2. proc'[h] = local /\ local.pc = "find" /\ local.row = row /\ local.intent = proc[h].intent
    BY <1>1, <1>6, <2>1, AtCall DEF Step, Goto, Locals
  <2>3. Local(h)'
    BY <1>1, <1>2, <1>3, <2>2 DEF Local, Busy
  <2> QED BY <1>1, <1>4, <1>5, <1>6, <2>1, <2>3, GoesOn
<1>7. CASE Done(h)
  BY <1>1, <1>4, <1>5, <1>7, Returns
<1> QED BY <1>2, <1>6, <1>7

LEMMA SaveConflictPreserves ==
  ASSUME IInv, NEW h \in Handlers, SaveConflict(h)
  PROVE  IInv'
<1> DEFINE row   == [record EXCEPT !.state = "conflicted"]
           local == [Goto(h, "discard") EXCEPT !.row = row]
<1>1. /\ Busy(h) /\ proc[h] \in Locals /\ proc[h].intent \in Intents /\ proc[h].pc = "saveconflict"
      /\ proc[h].row = record /\ record.state \in {"pending", "ready"} /\ RestTyped /\ Durable
      /\ (record.state = "ready" => job.stage = "failed")
      /\ (losses = 0 /\ interference = 0 => pushed = {})
  BY AtCall DEF SaveConflict, At, Busy, Local
<1>2. /\ record' = row /\ UNCHANGED <<cluster, pushed, github, losses, interference>>
      /\ faults' \in 0..MaxFaults /\ (Step(h, local) \/ Done(h))
  <2>1. Save(h, row, "discard") \/ SaveLast(h, row)
    BY <1>1 DEF SaveConflict
  <2> QED BY <1>1, <2>1, SaveWrites, SaveLastWrites DEF At
<1>3. /\ row \in Records /\ row.state = "conflicted" /\ row.commit = record.commit
      /\ row.intent = record.intent
  BY <1>1 DEF Records, States, RestTyped
<1>4. RestTyped'
  BY <1>1, <1>2, <1>3 DEF RestTyped, cluster, github
<1>5. Durable'
  <2>1. losses \in Nat /\ interference \in Nat
    BY <1>1 DEF RestTyped
  <2> QED BY <1>1, <1>2, <1>3, <2>1 DEF Durable, Publishers, RowsComplete, Undisturbed,
             ConflictsHaveCauses, ClaimsWereEarned, PublisherIsRecorded, CompletedLeavesNothing,
             cluster, github
<1>6. CASE Step(h, local)
  <2>1. local \in Locals
    BY <1>1, <1>3 DEF Locals, Goto, Calls
  <2>2. proc'[h] = local /\ local.pc = "discard" /\ local.row = row /\ local.intent = proc[h].intent
    BY <1>1, <1>6, <2>1, AtCall DEF Step, Goto, Locals
  <2>3. Local(h)'
    BY <1>1, <1>2, <1>3, <2>2 DEF Local, Busy
  <2> QED BY <1>1, <1>4, <1>5, <1>6, <2>1, <2>3, GoesOn
<1>7. CASE Done(h)
  BY <1>1, <1>4, <1>5, <1>7, Returns
<1> QED BY <1>2, <1>6, <1>7

LEMMA SaveBranchPreserves ==
  ASSUME IInv, NEW h \in Handlers, SaveBranch(h)
  PROVE  IInv'
<1> DEFINE row   == [record EXCEPT !.state = "branch_published", !.commit = proc[h].result]
           local == [Goto(h, "await") EXCEPT !.row = row]
<1>1. /\ Busy(h) /\ proc[h] \in Locals /\ proc[h].intent \in Intents /\ proc[h].pc = "savebranch"
      /\ proc[h].row = record /\ record.state = "ready" /\ proc[h].result \in pushed
      /\ RestTyped /\ Durable
  BY AtCall DEF SaveBranch, At, Busy, Local
<1>2. /\ record' = row /\ UNCHANGED <<cluster, pushed, github, losses, interference>>
      /\ faults' \in 0..MaxFaults /\ (Step(h, local) \/ Done(h))
  BY <1>1, SaveWrites DEF SaveBranch, At
<1>3. /\ row \in Records /\ row.state = "branch_published" /\ row.commit = proc[h].result
      /\ row.intent = record.intent
  BY <1>1 DEF Records, States, RestTyped
<1>4. RestTyped'
  BY <1>1, <1>2, <1>3 DEF RestTyped, cluster, github
<1>5. Durable'
  BY <1>1, <1>2, <1>3 DEF Durable, Publishers, RowsComplete, Undisturbed, ConflictsHaveCauses,
     ClaimsWereEarned, PublisherIsRecorded, CompletedLeavesNothing, cluster, github
<1>6. CASE Step(h, local)
  <2>1. local \in Locals
    BY <1>1, <1>3 DEF Locals, Goto, Calls
  <2>2. proc'[h] = local /\ local.pc = "await" /\ local.row = row /\ local.intent = proc[h].intent
    BY <1>1, <1>6, <2>1, AtCall DEF Step, Goto, Locals
  <2>3. Local(h)'
    BY <1>1, <1>2, <1>3, <2>2 DEF Local, Busy
  <2> QED BY <1>1, <1>4, <1>5, <1>6, <2>1, <2>3, GoesOn
<1>7. CASE Done(h)
  BY <1>1, <1>4, <1>5, <1>7, Returns
<1> QED BY <1>2, <1>6, <1>7

LEMMA SavePullPreserves ==
  ASSUME IInv, NEW h \in Handlers, SavePull(h)
  PROVE  IInv'
<1> DEFINE row   == [record EXCEPT !.state = "pull_request_created", !.pull = proc[h].found]
           local == [Goto(h, "finish") EXCEPT !.row = row]
<1>1. /\ Busy(h) /\ proc[h] \in Locals /\ proc[h].intent \in Intents /\ proc[h].pc = "savepull"
      /\ proc[h].row = record /\ proc[h].found \in PullIds
      /\ record.state \in {"ready", "branch_published", "pull_request_created"}
      /\ RestTyped /\ Durable
  BY AtCall DEF SavePull, At, Busy, Local
<1>2. /\ record' = row /\ UNCHANGED <<cluster, pushed, github, losses, interference>>
      /\ faults' \in 0..MaxFaults /\ (Step(h, local) \/ Done(h))
  BY <1>1, SaveWrites DEF SavePull, At
<1>3. /\ row \in Records /\ row.state = "pull_request_created" /\ row.commit = record.commit
      /\ row.intent = record.intent /\ row.pull \in PullIds /\ row.pull # NoPull
  BY <1>1, PullsAreNumbered DEF Records, States, RestTyped
<1>4. RestTyped'
  BY <1>1, <1>2, <1>3 DEF RestTyped, cluster, github
<1>5. Durable'
  BY <1>1, <1>2, <1>3 DEF Durable, Publishers, RowsComplete, Undisturbed, ConflictsHaveCauses,
     ClaimsWereEarned, PublisherIsRecorded, CompletedLeavesNothing, cluster, github
<1>6. CASE Step(h, local)
  <2>1. local \in Locals
    BY <1>1, <1>3 DEF Locals, Goto, Calls
  <2>2. proc'[h] = local /\ local.pc = "finish" /\ local.row = row /\ local.intent = proc[h].intent
    BY <1>1, <1>6, <2>1, AtCall DEF Step, Goto, Locals
  <2>3. Local(h)'
    BY <1>1, <1>2, <1>3, <2>2 DEF Local, Busy
  <2> QED BY <1>1, <1>4, <1>5, <1>6, <2>1, <2>3, GoesOn
<1>7. CASE Done(h)
  BY <1>1, <1>4, <1>5, <1>7, Returns
<1> QED BY <1>2, <1>6, <1>7

\* The Job and the Secret are gone, and no other request can bring them back.
LEMMA SaveDonePreserves ==
  ASSUME IInv, NEW h \in Handlers, SaveDone(h)
  PROVE  IInv'
<1> DEFINE row == [record EXCEPT !.state = "completed"]
<1>1. /\ Busy(h) /\ proc[h].pc = "savedone" /\ proc[h].row = record
      /\ record.state = "pull_request_created" /\ job.stage = "none" /\ ~credential
      /\ RestTyped /\ Durable
  BY AtCall DEF SaveDone, At, Busy, Local
<1>2. /\ record' = row /\ UNCHANGED <<cluster, pushed, github, losses, interference>>
      /\ faults' \in 0..MaxFaults /\ Done(h)
  BY <1>1, SaveLastWrites DEF SaveDone, At
<1>3. /\ row \in Records /\ row.state = "completed" /\ row.commit = record.commit
      /\ row.intent = record.intent /\ row.pull = record.pull
  BY <1>1 DEF Records, States, RestTyped
<1>4. RestTyped'
  BY <1>1, <1>2, <1>3 DEF RestTyped, cluster, github
<1>5. Durable'
  BY <1>1, <1>2, <1>3 DEF Durable, Publishers, RowsComplete, Undisturbed, ConflictsHaveCauses,
     ClaimsWereEarned, PublisherIsRecorded, CompletedLeavesNothing, cluster, github
<1> QED BY <1>1, <1>2, <1>4, <1>5, Returns

-----------------------------------------------------------------------------
(* Calls that only read *)

LEMMA FindPullPreserves ==
  ASSUME IInv, NEW h \in Handlers, FindPull(h)
  PROVE  IInv'
<1> DEFINE local == [Goto(h, "branch") EXCEPT !.found = pull]
<1>1. /\ Busy(h) /\ proc[h] \in Locals /\ proc[h].pc = "pull" /\ Local(h) /\ Step(h, local)
      /\ UNCHANGED <<record, cluster, pushed, github, bounds>> /\ pull \in PullIds \cup {NoPull}
  BY AtCall DEF FindPull, At, Busy, RestTyped
<1>2. local \in Locals /\ proc'[h] = local
  BY <1>1, AtCall DEF Locals, Goto, Calls, Step
<1>3. Local(h)'
  BY <1>1, <1>2 DEF Local, Busy, Goto
<1> QED BY <1>1, <1>2, <1>3, ReadGoesOn

\* While nobody interferes, a publication that is pending has pushed nothing.
LEMMA CheckBranchPreserves ==
  ASSUME IInv, NEW h \in Handlers, CheckBranch(h)
  PROVE  IInv'
<1>1. /\ Busy(h) /\ proc[h] \in Locals /\ proc[h].pc = "branch" /\ Local(h)
      /\ UNCHANGED <<record, cluster, pushed, github, bounds>>
      /\ record.state = "pending" /\ (interference = 0 => pushed = {})
  BY AtCall DEF CheckBranch, At, Busy, Local, Durable, Undisturbed
<1>2. ASSUME NEW place \in {"saveconflict", "saveready"}, Step(h, Goto(h, place)) PROVE IInv'
  <2>1. Goto(h, place) \in Locals /\ proc'[h] = Goto(h, place)
    BY <1>1, <1>2, AtCall DEF Locals, Goto, Calls, Step
  <2>2. Local(h)'
    BY <1>1, <2>1 DEF Local, Busy, Goto, bounds
  <2> QED BY <1>1, <1>2, <2>1, <2>2, ReadGoesOn
<1> QED BY <1>2 DEF CheckBranch

LEMMA FindPreserves ==
  ASSUME IInv, NEW h \in Handlers, Find(h)
  PROVE  IInv'
<1>1. /\ Busy(h) /\ proc[h] \in Locals /\ proc[h].pc = "find" /\ Local(h)
      /\ UNCHANGED <<record, cluster, pushed, github, bounds>> /\ pull \in PullIds \cup {NoPull}
      /\ proc[h].row = record
      /\ record.state \in {"ready", "branch_published", "pull_request_created"}
  BY AtCall DEF Find, At, Busy, Local, RestTyped
<1>2. CASE pull # NoPull
  <2> DEFINE local == [Goto(h, "savepull") EXCEPT !.found = pull]
  <2>1. Step(h, local) /\ pull \in PullIds
    BY <1>1, <1>2 DEF Find
  <2>2. local \in Locals /\ proc'[h] = local
    BY <1>1, <2>1, AtCall DEF Locals, Goto, Calls, Step
  <2>3. Local(h)'
    BY <1>1, <2>1, <2>2 DEF Local, Busy, Goto
  <2> QED BY <1>1, <2>1, <2>2, <2>3, ReadGoesOn
<1>3. CASE pull = NoPull
  <2>1. PICK place \in {"credential", "await"} :
          /\ Step(h, Goto(h, place))
          /\ place = "credential" <=> record.state = "ready"
    BY <1>1, <1>3 DEF Find
  <2>2. Goto(h, place) \in Locals /\ proc'[h] = Goto(h, place)
    BY <1>1, <2>1, AtCall DEF Locals, Goto, Calls, Step
  <2>3. Local(h)'
    BY <1>1, <2>1, <2>2 DEF Local, Busy, Goto
  <2> QED BY <1>1, <2>1, <2>2, <2>3, ReadGoesOn
<1> QED BY <1>2, <1>3

LEMMA WaitForJobPreserves ==
  ASSUME IInv, NEW h \in Handlers, WaitForJob(h)
  PROVE  IInv'
<1>1. /\ Busy(h) /\ proc[h] \in Locals /\ proc[h].pc = "wait" /\ Local(h) /\ Durable
      /\ UNCHANGED <<record, cluster, pushed, github, bounds>> /\ record.state = "ready"
      /\ job \in Jobs /\ proc[h].row = record /\ faults' \in 0..MaxFaults
      /\ UNCHANGED <<losses, interference>>
  BY AtCall DEF WaitForJob, At, Busy, Local, RestTyped, bounds
<1>2. CASE Done(h)
  BY <1>1, <1>2, ReadReturns
<1>3. ASSUME NEW place \in {"recover", "savebranch"},
             Step(h, [Goto(h, place) EXCEPT !.result = Reported]),
             place = "recover" => job.stage = "failed",
             place = "savebranch" => job.stage = "complete" /\ job.readable
      PROVE  IInv'
  <2> DEFINE local == [Goto(h, place) EXCEPT !.result = Reported]
  <2>1. Reported \in Commits \cup {Nothing}
    BY <1>1 DEF Reported, Jobs
  <2>2. local \in Locals /\ proc'[h] = local
    BY <1>1, <1>3, <2>1, AtCall DEF Locals, Goto, Calls, Step
  <2>3. /\ place = "savebranch" => Reported \in pushed
        /\ place = "recover" /\ losses = 0 /\ interference = 0 /\ pushed # {} => Reported = branch
    BY <1>1, <1>3 DEF Reported, Durable, Publishers, Undisturbed
  <2>4. Local(h)'
    BY <1>1, <1>3, <2>2, <2>3 DEF Local, Busy, Goto, cluster, github
  <2> QED BY <1>1, <1>3, <2>2, <2>4, ReadGoesOn
<1> QED BY <1>2, <1>3 DEF WaitForJob

\* A branch at the reported commit was pushed by the Job; without losses and
\* interference there is no other.
LEMMA RecoverPreserves ==
  ASSUME IInv, NEW h \in Handlers, Recover(h)
  PROVE  IInv'
<1>1. /\ Busy(h) /\ proc[h] \in Locals /\ proc[h].pc = "recover" /\ Local(h) /\ Durable
      /\ UNCHANGED <<record, cluster, pushed, github, bounds>> /\ record.state = "ready"
      /\ proc[h].row = record /\ job.stage = "failed" /\ Step(h, Recovered(h)) /\ pushed \subseteq Commits
      /\ (losses = 0 /\ interference = 0 /\ pushed # {} => proc[h].result = branch)
  BY AtCall DEF Recover, At, Busy, Local, RestTyped
<1>2. proc[h].result \in Commits \cup {Nothing} /\ Nothing \notin Commits
  BY <1>1 DEF Locals, Commits
<1>3. PICK place \in {"discard", "savebranch", "saveconflict"} :
        /\ Recovered(h) = Goto(h, place)
        /\ place = "discard" => branch = Nothing
        /\ place = "savebranch" => proc[h].result # Nothing /\ branch = proc[h].result
        /\ place = "saveconflict" => branch # Nothing /\ (proc[h].result = Nothing \/ branch # proc[h].result)
  BY DEF Recovered
<1>4. Goto(h, place) \in Locals /\ proc'[h] = Goto(h, place)
  BY <1>1, <1>3, AtCall DEF Locals, Goto, Calls, Step
<1>5. /\ place = "discard" => (interference = 0 => pushed = {})
      /\ place = "savebranch" => proc[h].result \in pushed
      /\ place = "saveconflict" => (losses = 0 /\ interference = 0 => pushed = {})
  BY <1>1, <1>2, <1>3 DEF Durable, Publishers, Undisturbed
<1>6. Local(h)'
  BY <1>1, <1>4, <1>5 DEF Local, Busy, Goto, cluster, bounds
<1> QED BY <1>1, <1>3, <1>4, <1>6, ReadGoesOn

LEMMA AwaitBranchPreserves ==
  ASSUME IInv, NEW h \in Handlers, AwaitBranch(h)
  PROVE  IInv'
<1>1. /\ Busy(h) /\ proc[h] \in Locals /\ proc[h].pc = "await" /\ Local(h)
      /\ UNCHANGED <<record, cluster, pushed, github, bounds>> /\ proc[h].row = record
      /\ faults' \in 0..MaxFaults /\ UNCHANGED <<losses, interference>>
  BY AtCall DEF AwaitBranch, At, Busy, Local, RestTyped, bounds
<1>2. CASE Done(h)
  BY <1>1, <1>2, ReadReturns
<1>3. CASE Step(h, Goto(h, "open")) /\ record.commit # Nothing
  <2>1. Goto(h, "open") \in Locals /\ proc'[h] = Goto(h, "open")
    BY <1>1, <1>3, AtCall DEF Locals, Goto, Calls, Step
  <2>2. Local(h)'
    BY <1>1, <1>3, <2>1 DEF Local, Busy, Goto
  <2> QED BY <1>1, <1>3, <2>1, <2>2, ReadGoesOn
<1> QED BY <1>1, <1>2, <1>3 DEF AwaitBranch

LEMMA AdoptPullPreserves ==
  ASSUME IInv, NEW h \in Handlers, AdoptPull(h)
  PROVE  IInv'
<1> DEFINE local == [Goto(h, "savepull") EXCEPT !.found = pull]
<1>1. /\ Busy(h) /\ proc[h] \in Locals /\ proc[h].pc = "adopt" /\ Local(h)
      /\ UNCHANGED <<record, cluster, pushed, github, bounds>> /\ pull \in PullIds \cup {NoPull}
      /\ faults' \in 0..MaxFaults /\ UNCHANGED <<losses, interference>>
  BY AtCall DEF AdoptPull, At, Busy, RestTyped, bounds
<1>2. CASE Done(h)
  BY <1>1, <1>2, ReadReturns
<1>3. CASE Step(h, local) /\ pull \in PullIds
  <2>1. local \in Locals /\ proc'[h] = local
    BY <1>1, <1>3, AtCall DEF Locals, Goto, Calls, Step
  <2>2. Local(h)'
    BY <1>1, <1>3, <2>1 DEF Local, Busy, Goto
  <2> QED BY <1>1, <1>3, <2>1, <2>2, ReadGoesOn
<1> QED BY <1>1, <1>2, <1>3 DEF AdoptPull

-----------------------------------------------------------------------------
(* Calls that change the cluster or GitHub *)

LEMMA EnsureCredentialPreserves ==
  ASSUME IInv, NEW h \in Handlers, EnsureCredential(h)
  PROVE  IInv'
<1>1. /\ Busy(h) /\ proc[h] \in Locals /\ proc[h].pc = "credential" /\ Local(h)
      /\ UNCHANGED <<record, job, launched, pushed, github, losses, interference>>
      /\ faults' \in 0..MaxFaults /\ record.state = "ready" /\ credential' \in BOOLEAN
      /\ RestTyped /\ Durable
      /\ (Step(h, Goto(h, "job")) \/ Done(h))
  BY AtCall DEF EnsureCredential, Reply, At, Busy, Local, RestTyped, bounds
<1>2. RestTyped'
  BY <1>1 DEF RestTyped, github
<1>3. Durable'
  BY <1>1 DEF Durable, Publishers, RowsComplete, Undisturbed, ConflictsHaveCauses,
     ClaimsWereEarned, PublisherIsRecorded, CompletedLeavesNothing, github
<1>4. CASE Step(h, Goto(h, "job"))
  <2>1. Goto(h, "job") \in Locals /\ proc'[h] = Goto(h, "job")
    BY <1>1, <1>4, AtCall DEF Locals, Goto, Calls, Step
  <2>2. Local(h)'
    BY <1>1, <2>1 DEF Local, Busy, Goto
  <2> QED BY <1>1, <1>2, <1>3, <1>4, <2>1, <2>2, GoesOn
<1>5. CASE Done(h)
  BY <1>1, <1>2, <1>3, <1>5, Returns
<1> QED BY <1>1, <1>4, <1>5

LEMMA WaitFollows ==
  ASSUME IInv, NEW h \in Handlers, At(h, "job"), Step(h, Goto(h, "wait")), UNCHANGED record,
         RestTyped', Durable'
  PROVE  IInv'
<1>1. /\ Busy(h) /\ proc[h] \in Locals /\ proc[h].pc = "job" /\ Local(h)
      /\ record.state = "ready"
  BY AtCall DEF At, Busy, Local
<1>2. Goto(h, "wait") \in Locals /\ proc'[h] = Goto(h, "wait")
  BY <1>1, AtCall DEF Locals, Goto, Calls, Step
<1>3. Local(h)'
  BY <1>1, <1>2 DEF Local, Busy, Goto
<1> QED BY <1>1, <1>2, <1>3, GoesOn

\* A Job is created only when there is none, so that one which may have pushed
\* is waited for instead.
LEMMA EnsureJobPreserves ==
  ASSUME IInv, NEW h \in Handlers, EnsureJob(h)
  PROVE  IInv'
<1>1. /\ Busy(h) /\ proc[h] \in Locals /\ proc[h].pc = "job" /\ Local(h)
      /\ UNCHANGED <<record, credential, pushed, github, losses, interference>>
      /\ faults' \in 0..MaxFaults /\ record.state = "ready" /\ proc[h].row = record
      /\ RestTyped /\ Durable
  BY AtCall DEF EnsureJob, Reply, At, Busy, Local, RestTyped, bounds
<1>2. At(h, "job") /\ (Step(h, Goto(h, "wait")) \/ Done(h))
  BY DEF EnsureJob, Reply
<1>3. CASE UNCHANGED <<job, launched>>
  <2>1. UNCHANGED <<record, cluster, pushed, github, losses, interference>>
    BY <1>1, <1>3 DEF cluster
  <2> QED BY <1>1, <1>2, <2>1, ReadOnly, WaitFollows, Returns
<1>4. CASE /\ job.stage = "none" /\ launched < MaxJobs /\ launched' = launched + 1
           /\ job' = [stage |-> "working", intent |-> proc[h].row.intent, commit |-> launched + 1,
                      readable |-> FALSE]
  <2>1. /\ job' \in Jobs /\ launched' \in 0..MaxJobs /\ job'.commit \in Commits
        /\ job'.intent = record.intent /\ job'.stage = "working"
    BY <1>1, <1>4 DEF RestTyped, Jobs, Stages, Records, Commits
  <2>2. RestTyped'
    BY <1>1, <2>1 DEF RestTyped, github
  <2>3. Durable'
    BY <1>1, <1>4, <2>1 DEF Durable, Publishers, RowsComplete, Undisturbed, ConflictsHaveCauses,
       ClaimsWereEarned, PublisherIsRecorded, CompletedLeavesNothing, github
  <2> QED BY <1>1, <1>2, <2>2, <2>3, WaitFollows, Returns
<1> QED BY <1>3, <1>4 DEF EnsureJob

LEMMA OpenPullPreserves ==
  ASSUME IInv, NEW h \in Handlers, OpenPull(h)
  PROVE  IInv'
<1>1. /\ Busy(h) /\ proc[h] \in Locals /\ proc[h].pc = "open" /\ Local(h)
      /\ UNCHANGED <<record, cluster, pushed, branch, losses, interference>>
      /\ faults' \in 0..MaxFaults /\ record.state \in {"branch_published", "pull_request_created"}
      /\ proc[h].row = record /\ RestTyped /\ Durable
  BY AtCall DEF OpenPull, At, Busy, Local, RestTyped, bounds
<1>2. /\ pull' \in PullIds \cup {NoPull} /\ author' \in [PullIds -> {"none", "dyne", "other"}]
  BY <1>1 DEF OpenPull, OpenedBy, RestTyped
<1>3. RestTyped'
  BY <1>1, <1>2 DEF RestTyped, cluster
<1>4. Durable'
  BY <1>1 DEF Durable, Publishers, RowsComplete, Undisturbed, ConflictsHaveCauses,
     ClaimsWereEarned, PublisherIsRecorded, CompletedLeavesNothing, cluster
<1>5. CASE Step(h, Goto(h, "adopt"))
  <2>1. Goto(h, "adopt") \in Locals /\ proc'[h] = Goto(h, "adopt")
    BY <1>1, <1>5, AtCall DEF Locals, Goto, Calls, Step
  <2>2. Local(h)'
    BY <1>1, <2>1 DEF Local, Busy, Goto
  <2> QED BY <1>1, <1>3, <1>4, <1>5, <2>1, <2>2, GoesOn
<1>6. CASE Step(h, [Goto(h, "savepull") EXCEPT !.found = pull']) /\ pull' \in PullIds
  <2> DEFINE local == [Goto(h, "savepull") EXCEPT !.found = pull']
  <2>1. local \in Locals /\ proc'[h] = local
    BY <1>1, <1>6, AtCall DEF Locals, Goto, Calls, Step
  <2>2. Local(h)'
    BY <1>1, <1>6, <2>1 DEF Local, Busy, Goto
  <2> QED BY <1>1, <1>3, <1>4, <1>6, <2>1, <2>2, GoesOn
<1> QED BY <1>5, <1>6 DEF OpenPull, OpenedBy

\* Whether or not the deletion of the publisher succeeds, it takes only what
\* nobody needs any more.
LEMMA DeletionIsSafe ==
  ASSUME RestTyped, Durable, DeletePublisher \/ DeletePublisherFails,
         UNCHANGED <<record, pushed, github, losses, interference>>, faults' \in 0..MaxFaults,
         record.state = "ready" => (interference = 0 => pushed = {})
  PROVE  RestTyped' /\ Durable'
<1>1. /\ job' \in {job, NoJob} /\ launched' = launched
      /\ credential' \in BOOLEAN /\ (~credential => ~credential')
  <2>1. job' \in {job, NoJob} /\ launched' = launched
    BY DEF DeletePublisher, DeletePublisherFails
  <2>2. credential' = credential \/ credential' = FALSE
    BY DEF DeletePublisher, DeletePublisherFails
  <2>3. credential \in BOOLEAN
    BY DEF RestTyped
  <2>4. CASE credential' = credential
    BY <2>1, <2>3, <2>4
  <2>5. CASE credential' = FALSE
    BY <2>1, <2>5
  <2> QED BY <2>2, <2>4, <2>5
<1>2. NoJob \in Jobs /\ NoJob.stage = "none"
  BY DEF NoJob, Jobs, Stages
<1>3. RestTyped'
  BY <1>1, <1>2 DEF RestTyped, github
<1>4. Durable'
  BY <1>1, <1>2 DEF Durable, Publishers, RowsComplete, Undisturbed, ConflictsHaveCauses,
     ClaimsWereEarned, PublisherIsRecorded, CompletedLeavesNothing, github
<1> QED BY <1>3, <1>4

LEMMA FinishPreserves ==
  ASSUME IInv, NEW h \in Handlers, Finish(h)
  PROVE  IInv'
<1>1. /\ Busy(h) /\ proc[h] \in Locals /\ proc[h].pc = "finish" /\ Local(h)
      /\ UNCHANGED <<record, pushed, github, losses, interference>>
      /\ faults' \in 0..MaxFaults /\ record.state = "pull_request_created"
      /\ proc[h].row = record /\ RestTyped /\ Durable
      /\ DeletePublisher \/ DeletePublisherFails
  BY AtCall DEF Finish, Reply, At, Busy, Local, RestTyped, bounds
<1>2. RestTyped' /\ Durable'
  BY <1>1, DeletionIsSafe
<1>3. CASE DeletePublisher /\ Step(h, Goto(h, "savedone"))
  <2>1. Goto(h, "savedone") \in Locals /\ proc'[h] = Goto(h, "savedone")
    BY <1>1, <1>3, AtCall DEF Locals, Goto, Calls, Step
  <2>2. job'.stage = "none" /\ credential' = FALSE
    BY <1>3 DEF DeletePublisher, NoJob
  <2>3. Local(h)'
    BY <1>1, <2>1, <2>2 DEF Local, Busy, Goto
  <2> QED BY <1>1, <1>2, <1>3, <2>1, <2>3, GoesOn
<1>4. CASE Done(h)
  BY <1>1, <1>2, <1>4, Returns
<1> QED BY <1>3, <1>4 DEF Finish, Reply

LEMMA DiscardPreserves ==
  ASSUME IInv, NEW h \in Handlers, Discard(h)
  PROVE  IInv'
<1>1. /\ Busy(h) /\ UNCHANGED <<record, pushed, github, losses, interference>>
      /\ faults' \in 0..MaxFaults /\ RestTyped /\ Durable
      /\ DeletePublisher \/ DeletePublisherFails
      /\ (record.state = "ready" => (interference = 0 => pushed = {}))
      /\ Done(h)
  BY AtCall DEF Discard, At, Busy, Local, RestTyped, bounds
<1> QED BY <1>1, DeletionIsSafe, Returns

LEMMA CallFailsPreserves ==
  ASSUME IInv, NEW h \in Handlers, CallFails(h)
  PROVE  IInv'
<1>1. /\ Busy(h) /\ Done(h) /\ faults' \in 0..MaxFaults
      /\ UNCHANGED <<record, cluster, pushed, github, losses, interference>>
  BY AtCall DEF CallFails, Busy, Calls
<1> QED BY <1>1, ReadReturns

LEMMA CrashPreserves ==
  ASSUME IInv, Crash
  PROVE  IInv'
<1>1. /\ UNCHANGED <<record, cluster, pushed, github, losses, interference>>
      /\ faults' \in 0..MaxFaults /\ lock' = Free
      /\ \A h \in Handlers : proc'[h] = Idle
      /\ proc' \in [Handlers -> Locals]
  BY IdleIsLocal DEF Crash, Fault, IInv, TypeOK
<1>2. RestTyped' /\ Durable'
  BY <1>1, ReadOnly
<1>3. Exclusive' /\ \A h \in Handlers : Local(h)'
  BY <1>1 DEF Exclusive, Local, Busy, Idle
<1> QED BY <1>1, <1>2, <1>3 DEF IInv, TypeOK, RestTyped

-----------------------------------------------------------------------------
(* Steps of the publisher's pod and of others *)

\* Steps that neither take the lease nor answer a request.
LEMMA Elsewhere ==
  ASSUME IInv, UNCHANGED <<lock, proc>>, RestTyped', Durable', \A h \in Handlers : Local(h)'
  PROVE  IInv'
BY DEF IInv, TypeOK, RestTyped, Exclusive, Busy

\* A pod that pushes has a row that is neither pending nor, without
\* interference, one that found the branch taken.
LEMMA PushPreserves ==
  ASSUME IInv, Push
  PROVE  IInv'
<1>1. /\ job.stage = "working" /\ job.commit \in Commits /\ job \in Jobs
      /\ RestTyped /\ Durable /\ UNCHANGED <<record, credential, launched, pull, author, lock, proc>>
      /\ UNCHANGED <<faults, losses, interference>>
  BY DEF Push, JobBecomes, IInv, TypeOK, RestTyped, Durable, Publishers, bounds
<1>2. PICK stage \in {"pushed", "failed"}, readable \in BOOLEAN :
        /\ job' = [job EXCEPT !.stage = stage, !.readable = readable]
        /\ stage = "pushed" => /\ branch \in {Nothing, Base} /\ branch' = job.commit
                               /\ pushed' = pushed \cup {job.commit}
        /\ stage = "failed" => branch \notin {Nothing, Base} /\ UNCHANGED <<branch, pushed>>
  BY DEF Push, JobBecomes
<1>3. /\ job' \in Jobs /\ job'.stage = stage /\ job'.commit = job.commit /\ job'.intent = job.intent
  BY <1>1, <1>2 DEF Jobs, Stages
<1>4. RestTyped'
  BY <1>1, <1>2, <1>3 DEF RestTyped
<1>5. Durable'
  <2>1. branch \in {Nothing, Base} /\ interference = 0 => pushed = {}
    BY <1>1 DEF RestTyped, Durable, Undisturbed, Commits
  <2>2. /\ job'.stage # "none" /\ job.stage # "none" /\ record.state \notin {"none", "pending", "completed", "conflicted"}
        /\ record.intent = job.intent
    BY <1>1, <1>3 DEF Durable, Publishers, PublisherIsRecorded
  <2>3. Publishers'
    BY <1>1, <1>2, <1>3, <2>2 DEF Durable, Publishers, RestTyped
  <2>4. Undisturbed'
    BY <1>1, <1>2, <1>3, <2>1, <2>2 DEF Durable, Undisturbed
  <2>5. RowsComplete' /\ ConflictsHaveCauses' /\ ClaimsWereEarned' /\ PublisherIsRecorded' /\ CompletedLeavesNothing'
    BY <1>1, <1>2, <1>3, <2>2 DEF Durable, RowsComplete, ConflictsHaveCauses, ClaimsWereEarned,
       PublisherIsRecorded, CompletedLeavesNothing
  <2> QED BY <2>3, <2>4, <2>5 DEF Durable
<1>6. ASSUME NEW h \in Handlers PROVE Local(h)'
  <2>1. Local(h) /\ record.state # "pending" /\ (pushed \subseteq pushed')
    BY <1>1, <1>2 DEF IInv, Durable, PublisherIsRecorded
  <2> QED BY <1>1, <2>1 DEF Local, Busy
<1> QED BY <1>1, <1>4, <1>5, <1>6, Elsewhere

LEMMA JobEndsPreserves ==
  ASSUME IInv, JobEnds
  PROVE  IInv'
<1>1. /\ job.stage \in {"working", "pushed"} /\ job \in Jobs /\ RestTyped /\ Durable
      /\ UNCHANGED <<record, credential, launched, pushed, branch, pull, author, lock, proc>>
      /\ UNCHANGED <<faults, losses, interference>>
  BY DEF JobEnds, JobBecomes, IInv, TypeOK, RestTyped, bounds
<1>2. PICK stage \in {"complete", "failed"}, readable \in BOOLEAN :
        /\ job' = [job EXCEPT !.stage = stage, !.readable = readable]
        /\ job.stage = "pushed" => readable
        /\ stage = "complete" => job.stage = "pushed"
  BY DEF JobEnds, JobBecomes
<1>3. /\ job' \in Jobs /\ job'.stage = stage /\ job'.commit = job.commit /\ job'.intent = job.intent
      /\ job'.readable = readable
  BY <1>1, <1>2 DEF Jobs, Stages
<1>4. RestTyped'
  BY <1>1, <1>3 DEF RestTyped
<1>5. Durable'
  <2>1. Publishers' /\ RowsComplete'
    BY <1>1, <1>2, <1>3 DEF Durable, Publishers, RowsComplete, PublisherIsRecorded
  <2>2. Undisturbed'
    BY <1>1, <1>2, <1>3 DEF Durable, Undisturbed
  <2>3. ConflictsHaveCauses' /\ ClaimsWereEarned' /\ PublisherIsRecorded' /\ CompletedLeavesNothing'
    BY <1>1, <1>2, <1>3 DEF Durable, ConflictsHaveCauses, ClaimsWereEarned, PublisherIsRecorded,
       CompletedLeavesNothing
  <2> QED BY <2>1, <2>2, <2>3 DEF Durable
<1>6. ASSUME NEW h \in Handlers PROVE Local(h)'
  BY <1>1 DEF IInv, Local, Busy
<1> QED BY <1>1, <1>4, <1>5, <1>6, Elsewhere

LEMMA LoseResultPreserves ==
  ASSUME IInv, LoseResult
  PROVE  IInv'
<1>1. /\ job \in Jobs /\ RestTyped /\ Durable
      /\ UNCHANGED <<record, credential, launched, pushed, branch, pull, author, lock, proc>>
      /\ UNCHANGED <<faults, interference>> /\ losses' \in 0..MaxLosses /\ losses' > 0
      /\ losses \in 0..MaxLosses
  BY DEF LoseResult, JobBecomes, IInv, TypeOK, RestTyped
<1>2. PICK stage \in Stages :
        /\ job' = [job EXCEPT !.stage = stage, !.readable = FALSE]
        /\ stage = job.stage \/ (stage = "failed" /\ job.stage = "pushed")
  BY <1>1 DEF LoseResult, JobBecomes, Jobs, Stages
<1>3. /\ job' \in Jobs /\ job'.stage = stage /\ job'.commit = job.commit /\ job'.intent = job.intent
  BY <1>1, <1>2 DEF Jobs, Stages
<1>4. RestTyped'
  BY <1>1, <1>3 DEF RestTyped
<1>5. Durable'
  <2>1. Publishers' /\ RowsComplete'
    BY <1>1, <1>2, <1>3 DEF Durable, Publishers, RowsComplete
  <2>2. Undisturbed'
    BY <1>1, <1>2, <1>3 DEF Durable, Undisturbed
  <2>3. ConflictsHaveCauses' /\ ClaimsWereEarned' /\ PublisherIsRecorded' /\ CompletedLeavesNothing'
    BY <1>1, <1>2, <1>3 DEF Durable, ConflictsHaveCauses, ClaimsWereEarned, PublisherIsRecorded,
       CompletedLeavesNothing
  <2> QED BY <2>1, <2>2, <2>3 DEF Durable
<1>6. ASSUME NEW h \in Handlers PROVE Local(h)'
  BY <1>1, <1>2, <1>3 DEF IInv, Local, Busy
<1> QED BY <1>1, <1>4, <1>5, <1>6, Elsewhere

\* Nobody but dyne makes its commits.
LEMMA DevelopersPreserve ==
  ASSUME IInv, Developers
  PROVE  IInv'
<1>1. /\ RestTyped /\ Durable /\ UNCHANGED <<record, credential, job, launched, pushed, lock, proc>>
      /\ UNCHANGED <<faults, losses>> /\ interference' \in 0..MaxInterference /\ interference' > 0
      /\ interference \in 0..MaxInterference
  BY DEF Developers, IInv, TypeOK, RestTyped, cluster
<1>2. /\ branch' \in {branch, Nothing, Base, Foreign} /\ pull' \in PullIds \cup {NoPull}
      /\ author' \in [PullIds -> {"none", "dyne", "other"}]
  BY <1>1 DEF Developers, OpenedBy, RestTyped
<1>3. RestTyped'
  BY <1>1, <1>2 DEF RestTyped
<1>4. Durable'
  <2>1. branch' \in Commits => branch' \in pushed
    BY <1>1, <1>2 DEF Durable, Publishers, Commits
  <2> QED BY <1>1, <2>1 DEF Durable, Publishers, RowsComplete, Undisturbed, ConflictsHaveCauses,
             ClaimsWereEarned, PublisherIsRecorded, CompletedLeavesNothing
<1>5. ASSUME NEW h \in Handlers PROVE Local(h)'
  BY <1>1 DEF IInv, Local, Busy
<1> QED BY <1>1, <1>3, <1>4, <1>5, Elsewhere

\* A session is deleted only while no request publishes it.
LEMMA DeleteSessionPreserves ==
  ASSUME IInv, DeleteSession
  PROVE  IInv'
<1>1. /\ RestTyped /\ Durable /\ UNCHANGED <<launched, pushed, branch, pull, author, lock, proc>>
      /\ UNCHANGED <<faults, losses>> /\ interference' \in 0..MaxInterference /\ interference' > 0
      /\ job' = NoJob /\ credential' = FALSE /\ record' \in {record, NoRecord} /\ lock = Free
  BY DEF DeleteSession, IInv, TypeOK, RestTyped, github
<1>2. /\ NoJob \in Jobs /\ NoJob.stage = "none" /\ NoRecord \in Records
      /\ NoRecord.state = "none" /\ NoRecord.commit = Nothing
  BY DEF NoJob, Jobs, Stages, NoRecord, Records, States, NoPull
<1>3. RestTyped'
  BY <1>1, <1>2 DEF RestTyped
<1>4. Durable'
  BY <1>1, <1>2 DEF Durable, Publishers, RowsComplete, Undisturbed, ConflictsHaveCauses,
     ClaimsWereEarned, PublisherIsRecorded, CompletedLeavesNothing
<1>5. ASSUME NEW h \in Handlers PROVE Local(h)'
  <2>1. ~Busy(h) /\ Local(h)
    BY <1>1 DEF IInv, Exclusive
  <2> QED BY <1>1, <2>1 DEF Local, Busy
<1> QED BY <1>1, <1>3, <1>4, <1>5, Elsewhere

-----------------------------------------------------------------------------
(* The invariant, and the theorems that follow from it.                    *)

LEMMA InitEstablishes ==
  ASSUME Init
  PROVE  IInv
<1>1. \A h \in Handlers : proc[h] = Idle
  BY DEF Init
<1>2. proc \in [Handlers -> Locals]
  BY IdleIsLocal DEF Init
<1>3. /\ NoRecord \in Records /\ NoRecord.state = "none" /\ NoRecord.commit = Nothing
      /\ NoJob \in Jobs /\ NoJob.stage = "none" /\ NoPull \in PullIds \cup {NoPull}
  BY DEF NoRecord, Records, States, NoJob, Jobs, Stages, NoPull
<1>4. author \in [PullIds -> {"none", "dyne", "other"}]
  BY DEF Init
<1>5. TypeOK
  <2>1. /\ 0 \in 0..MaxJobs /\ 0 \in 0..MaxFaults /\ 0 \in 0..MaxLosses /\ 0 \in 0..MaxInterference
    OBVIOUS
  <2>2. record \in Records /\ credential \in BOOLEAN /\ job \in Jobs /\ pull \in PullIds \cup {NoPull}
    BY <1>3 DEF Init
  <2>3. launched \in 0..MaxJobs /\ faults \in 0..MaxFaults /\ losses \in 0..MaxLosses /\ interference \in 0..MaxInterference
    BY <2>1 DEF Init
  <2>4. pushed \subseteq Commits /\ branch \in Commits \cup {Nothing, Base, Foreign} /\ lock \in Handlers \cup {Free}
    BY DEF Init
  <2> QED BY <1>2, <1>4, <2>2, <2>3, <2>4 DEF TypeOK
<1>6. Exclusive /\ \A h \in Handlers : Local(h)
  BY <1>1 DEF Exclusive, Local, Busy, Idle
<1>7. Durable
  BY <1>3 DEF Init, Durable, Publishers, RowsComplete, Undisturbed, ConflictsHaveCauses,
     ClaimsWereEarned, PublisherIsRecorded, CompletedLeavesNothing, Commits
<1> QED BY <1>5, <1>6, <1>7 DEF IInv

LEMMA WorkPreserves ==
  ASSUME IInv, NEW h \in Handlers, Work(h)
  PROVE  IInv'
BY CreatePreserves, GetPreserves, FindPullPreserves, CheckBranchPreserves, SaveReadyPreserves,
   SaveConflictPreserves, FindPreserves, EnsureCredentialPreserves, EnsureJobPreserves,
   WaitForJobPreserves, RecoverPreserves, SaveBranchPreserves, AwaitBranchPreserves,
   OpenPullPreserves, AdoptPullPreserves, SavePullPreserves, FinishPreserves, SaveDonePreserves,
   DiscardPreserves DEF Work

LEMMA NextPreserves ==
  ASSUME IInv, [Next]_vars
  PROVE  IInv'
<1>1. CASE UNCHANGED vars
  <2>1. RestTyped' /\ Durable'
    BY <1>1, ReadOnly DEF vars, bounds, IInv, TypeOK
  <2>2. \A h \in Handlers : Local(h)'
    BY <1>1 DEF vars, bounds, cluster, github, IInv, Local, Busy
  <2> QED BY <1>1, <2>1, <2>2, Elsewhere DEF vars
<1>2. ASSUME NEW h \in Handlers, (\E intent \in Intents : Request(h, intent)) \/ Acquire(h) \/ Work(h) \/ CallFails(h)
      PROVE  IInv'
  BY <1>2, RequestPreserves, AcquirePreserves, WorkPreserves, CallFailsPreserves
<1>3. CASE Crash \/ Push \/ JobEnds \/ LoseResult \/ Developers \/ DeleteSession
  BY <1>3, CrashPreserves, PushPreserves, JobEndsPreserves, LoseResultPreserves, DevelopersPreserve,
     DeleteSessionPreserves
<1> QED BY <1>1, <1>2, <1>3 DEF Next

\* The inductive invariant holds in every reachable state.
THEOREM InductiveInvariant == Spec => []IInv
<1>1. Init => IInv
  BY InitEstablishes
<1>2. IInv /\ [Next]_vars => IInv'
  BY NextPreserves
<1> QED BY <1>1, <1>2, PTL DEF Spec

\* Every variable has its type, however many requests there are and whatever
\* fails.
THEOREM TypeCorrect == Spec => []TypeOK
<1>1. IInv => TypeOK
  BY DEF IInv
<1> QED BY <1>1, InductiveInvariant, PTL

\* Unless a result was lost or somebody interfered, a publication whose commit
\* was pushed does not end in conflict.
THEOREM ConflictsCaused == Spec => []ConflictsHaveCauses
<1>1. IInv => ConflictsHaveCauses
  BY DEF IInv, Durable
<1> QED BY <1>1, InductiveInvariant, PTL

\* A commit is put on record only after the publisher pushed it.
THEOREM ClaimsEarned == Spec => []ClaimsWereEarned
<1>1. IInv => ClaimsWereEarned
  BY DEF IInv, Durable
<1> QED BY <1>1, InductiveInvariant, PTL

\* A publisher Job runs only for the publication on record, which owns the branch
\* and is not completed.
THEOREM PublisherRecorded == Spec => []PublisherIsRecorded
<1>1. IInv => PublisherIsRecorded
  BY DEF IInv, Durable
<1> QED BY <1>1, InductiveInvariant, PTL

\* A completed publication has a pull request, and neither Job nor Secret.
THEOREM CompletedIsClean == Spec => []CompletedLeavesNothing
<1>1. IInv => CompletedLeavesNothing
  BY DEF IInv, Durable
<1> QED BY <1>1, InductiveInvariant, PTL

-----------------------------------------------------------------------------
(* dyne's pull requests *)

\* Only OpenPull opens a pull request for dyne.
LEMMA OthersDoNotOpen ==
  ASSUME IInv, [Next]_vars, NEW n \in PullIds, author[n] = "none", author'[n] = "dyne"
  PROVE  \E h \in Handlers : OpenPull(h)
<1>1. ~UNCHANGED author
  OBVIOUS
<1>2. ~Developers
  BY DEF Developers, OpenedBy, IInv, TypeOK
<1>3. ASSUME NEW h \in Handlers, Work(h) PROVE OpenPull(h)
  BY <1>1, <1>3 DEF Work, Create, Get, FindPull, CheckBranch, SaveReady, SaveConflict, Find,
     EnsureCredential, EnsureJob, WaitForJob, Recover, SaveBranch, AwaitBranch, AdoptPull, SavePull,
     Finish, SaveDone, Discard, Save, SaveLast, github
<1>4. ASSUME NEW h \in Handlers
      PROVE  ~(CallFails(h) \/ Acquire(h) \/ \E intent \in Intents : Request(h, intent))
  BY <1>1 DEF CallFails, Acquire, Request, github
<1>5. ~(Crash \/ Push \/ JobEnds \/ LoseResult \/ DeleteSession \/ UNCHANGED vars)
  BY <1>1 DEF Crash, Push, JobEnds, LoseResult, JobBecomes, DeleteSession, github, vars
<1> QED BY <1>2, <1>3, <1>4, <1>5 DEF Next

\* dyne opens a pull request only when the row says, durably, that its branch is
\* published, and the row's commit was pushed.
THEOREM PullsFollow == Spec => PullsFollowBranches
<1> DEFINE Follows == \A n \in PullIds : author[n] = "none" /\ author'[n] = "dyne" =>
                        record.state \in {"branch_published", "pull_request_created"} /\ record.commit \in pushed
<1>1. ASSUME IInv, [Next]_vars PROVE Follows
  <2> SUFFICES ASSUME NEW n \in PullIds, author[n] = "none", author'[n] = "dyne"
               PROVE  record.state \in {"branch_published", "pull_request_created"} /\ record.commit \in pushed
    OBVIOUS
  <2>1. PICK h \in Handlers : OpenPull(h)
    BY <1>1, OthersDoNotOpen
  <2> QED BY <1>1, <2>1, AtCall DEF OpenPull, At, Local, Durable, ClaimsWereEarned
<1>2. IInv /\ [Next]_vars => [Follows]_vars
  BY <1>1
<1> QED BY <1>2, InductiveInvariant, PTL DEF Spec, PullsFollowBranches

-----------------------------------------------------------------------------
(* Publication implements PublicationLedger: a request writes the row as   *)
(* the ledger says, and nothing else writes it but the session's removal.  *)

LEMMA CreateClaims ==
  ASSUME IInv, NEW h \in Handlers, Create(h)
  PROVE  Ledger!Claim \/ UNCHANGED record
<1>1. proc[h].intent \in Intents
  BY AtCall DEF Create, At, Local
<1> QED BY <1>1 DEF Create, Ledger!Claim, NoRecord, Ledger!NoRecord

LEMMA SaveReadyOwns ==
  ASSUME IInv, NEW h \in Handlers, SaveReady(h)
  PROVE  Ledger!Own
<1>1. Busy(h) /\ record.state = "pending" /\ proc[h].row = record
  BY AtCall DEF SaveReady, At, Local, Busy
<1>2. record' = [record EXCEPT !.state = "ready"]
  BY <1>1, SaveWrites DEF SaveReady, At
<1> QED BY <1>1, <1>2 DEF Ledger!Own

LEMMA SaveConflictEnds ==
  ASSUME IInv, NEW h \in Handlers, SaveConflict(h)
  PROVE  Ledger!Conflict
<1>1. Busy(h) /\ record.state \in {"pending", "ready"} /\ proc[h].row = record
  BY AtCall DEF SaveConflict, At, Local, Busy
<1>2. record' = [record EXCEPT !.state = "conflicted"]
  BY <1>1, SaveWrites, SaveLastWrites DEF SaveConflict, At
<1> QED BY <1>1, <1>2 DEF Ledger!Conflict

LEMMA SaveBranchPublishes ==
  ASSUME IInv, NEW h \in Handlers, SaveBranch(h)
  PROVE  Ledger!PublishBranch
<1>1. /\ Busy(h) /\ record.state = "ready" /\ proc[h].row = record /\ proc[h].result \in Commits
  BY AtCall DEF SaveBranch, At, Local, Busy, RestTyped
<1>2. record' = [record EXCEPT !.state = "branch_published", !.commit = proc[h].result]
  BY <1>1, SaveWrites DEF SaveBranch, At
<1> QED BY <1>1, <1>2 DEF Ledger!PublishBranch

LEMMA SavePullOpens ==
  ASSUME IInv, NEW h \in Handlers, SavePull(h)
  PROVE  Ledger!OpenPull
<1>1. /\ Busy(h) /\ record.state \in {"ready", "branch_published", "pull_request_created"}
      /\ proc[h].row = record /\ proc[h].found \in PullIds
  BY AtCall DEF SavePull, At, Local, Busy
<1>2. record' = [record EXCEPT !.state = "pull_request_created", !.pull = proc[h].found]
  BY <1>1, SaveWrites DEF SavePull, At
<1> QED BY <1>1, <1>2 DEF Ledger!OpenPull

LEMMA SaveDoneCompletes ==
  ASSUME IInv, NEW h \in Handlers, SaveDone(h)
  PROVE  Ledger!Complete
<1>1. Busy(h) /\ record.state = "pull_request_created" /\ proc[h].row = record
  BY AtCall DEF SaveDone, At, Local, Busy
<1>2. record' = [record EXCEPT !.state = "completed"]
  BY <1>1, SaveLastWrites DEF SaveDone, At
<1> QED BY <1>1, <1>2 DEF Ledger!Complete

\* The row of a publication changes only as PublicationLedger allows.
THEOREM LedgerImplemented == Spec => ImplementsLedger
<1>1. Init => Ledger!Init
  BY DEF Init, Ledger!Init, NoRecord, Ledger!NoRecord
<1>2. IInv /\ [Next]_vars => [Ledger!Next]_record
  <2> SUFFICES ASSUME IInv, [Next]_vars PROVE Ledger!Next \/ UNCHANGED record
    OBVIOUS
  <2>1. ASSUME NEW h \in Handlers, Work(h) PROVE Ledger!Next \/ UNCHANGED record
    BY <2>1, CreateClaims, SaveReadyOwns, SaveConflictEnds, SaveBranchPublishes, SavePullOpens,
       SaveDoneCompletes
       DEF Ledger!Next, Work, Get, FindPull, CheckBranch, Find, EnsureCredential, EnsureJob,
       WaitForJob, Recover, AwaitBranch, OpenPull, AdoptPull, Finish, Discard
  <2>2. ASSUME NEW h \in Handlers,
               CallFails(h) \/ Acquire(h) \/ \E intent \in Intents : Request(h, intent)
        PROVE  UNCHANGED record
    BY <2>2 DEF CallFails, Acquire, Request
  <2>3. CASE DeleteSession
    BY <2>3 DEF DeleteSession, Ledger!Next, Ledger!Forget, NoRecord, Ledger!NoRecord
  <2>4. CASE Crash \/ Push \/ JobEnds \/ LoseResult \/ Developers \/ UNCHANGED vars
    BY <2>4 DEF Crash, Push, JobEnds, LoseResult, JobBecomes, Developers, vars
  <2> QED BY <2>1, <2>2, <2>3, <2>4 DEF Next
<1> QED BY <1>1, <1>2, InductiveInvariant, PTL DEF Spec, ImplementsLedger, Ledger!Spec
=============================================================================
