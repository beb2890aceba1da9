------------------------ MODULE WorkflowControlProofs ------------------------
(***************************************************************************)
(* Theorems about WorkflowControl, for any workflows, clients and bounds.  *)
(*                                                                         *)
(* The mutex lets one operation at a time make calls (Exclusive), so the   *)
(* row it read is the row in SQL, and its copy differs from it only by     *)
(* what the operation has done (Local).  RowOK says which rows there are,  *)
(* and SessionOK what a step's session may be doing while the row is what *)
(* it is.                                                                  *)
(***************************************************************************)
EXTENDS WorkflowControl, LeastElement, FiniteSetTheorems, TLAPS

Busy(p) == proc[p].pc \notin {"idle", "lock"}

\* Only the mutex's holder makes calls, and there is no process while the server
\* is down.
Exclusive ==
  /\ \A p \in Procs : Busy(p) => lock = p
  /\ server = "down" => \A p \in Procs : proc[p].pc = "idle"

-----------------------------------------------------------------------------
(* The rows                                                                *)

Began == StepActive \cup {"completed", "blocked", "failed"}

\* What a step needed when it began, it has for good; what made it be skipped
\* stays a failure.
StepsHaveReasons(row) ==
  \A s \in Steps :
    /\ row.step[s] \in Began => \A d \in Rules(row).after[s] : row.step[d] = "completed"
    /\ row.step[s] = "skipped" => \E d \in Rules(row).after[s] : row.step[d] \in StepFailures

RowOK(row) ==
  /\ row.state = "none" => row = NoRun
  /\ row.state # "none" =>
       /\ row.definition \in Definitions
       /\ StepsHaveReasons(row)
       /\ Cardinality(Among(row, StepActive)) <= Rules(row).parallelism
       /\ \A s \in row.cleaned : row.step[s] = "completed" /\ s # Publishable(row)
  /\ row.state = "pending" => \A s \in Steps : row.step[s] = "pending"
  /\ row.state \in TerminalStates \cup {"deleting"} => Among(row, {"pending"} \cup StepActive) = {}
  /\ row.state = "completed" => Among(row, {"completed"}) = Steps

\* A session belongs to a step that began; it works only while the row says so;
\* and unless a client meddled, a completed step's storage is there and nothing
\* is deleted that is still needed.
SessionOK(s) ==
  /\ sessions[s].task = "none" => sessions[s] = NoSession
  /\ sessions[s] # NoSession =>
       /\ run.state # "none" /\ run.step[s] \notin {"pending", "skipped"}
       /\ \A d \in Rules(run).after[s] : run.step[d] = "completed"
  /\ Executing(s) => run.step[s] \in StepActive
  /\ meddling = 0 =>
       /\ run.state # "deleting" => sessions[s].deletion # "storage"
       /\ sessions[s].deletion # "none" => run.step[s] \in StepTerminal \/ run.cancel
       /\ run.state \notin {"none", "deleting"} /\ run.step[s] = "completed" /\ ~Ephemeral(run, s) =>
            sessions[s].task # "none"

Durable == RowOK(run) /\ \A s \in Steps : SessionOK(s)

-----------------------------------------------------------------------------
(* The copies of the row that operations carry                             *)

\* The session of a step that is over in the copy, and not yet in the row, does
\* not work, and a completed one is still there.
Settled(copy) ==
  \A s \in Steps : run.step[s] \in StepActive /\ copy.step[s] \in StepTerminal =>
    /\ ~Executing(s)
    /\ copy.step[s] = "completed" /\ meddling = 0 => sessions[s].task # "none"

\* A copy in which steps were started and observed.
Observed(from, to) ==
  \/ to = from
  \/ from = "starting" /\ to = "running"
  \/ from \in StepActive /\ to \in {"completed", "blocked", "failed"}

Scanned(row, copy) ==
  /\ row.state \in {"pending", "running"} /\ ~row.cancel
  /\ copy = [row EXCEPT !.step = copy.step]
  /\ \A s \in Steps : Observed(row.step[s], copy.step[s])

\* A copy that was scheduled after that.
Scheduled(row, copy) ==
  /\ row.state \in {"pending", "running"} /\ ~row.cancel
  /\ copy = [row EXCEPT !.step = copy.step, !.state = Derived(copy)]
  /\ Cardinality(Among(copy, StepActive)) <= Rules(row).parallelism
  /\ \A s \in Steps :
       /\ \/ Observed(row.step[s], copy.step[s])
          \/ row.step[s] = "pending" /\ copy.step[s] \in {"starting", "skipped"}
       /\ row.step[s] = "pending" /\ copy.step[s] = "starting" =>
            \A d \in Rules(row).after[s] : copy.step[d] = "completed"
       /\ row.step[s] = "pending" /\ copy.step[s] = "skipped" =>
            \E d \in Rules(row).after[s] : copy.step[d] \in StepFailures

\* A copy in which the sessions of steps were deleted to cancel them.
CanceledSome(row, copy) ==
  /\ row.state \in {"pending", "running"} /\ row.cancel
  /\ copy = [row EXCEPT !.step = copy.step]
  /\ \A s \in Steps : \/ copy.step[s] = row.step[s]
                      \/ row.step[s] \in StepActive /\ copy.step[s] = "canceled"

\* A copy in which completed steps were cleaned up.
CleanedSome(row, copy) ==
  /\ row.state \notin {"none", "deleting"}
  /\ copy = [row EXCEPT !.cleaned = copy.cleaned]
  /\ row.cleaned \subseteq copy.cleaned
  /\ \A s \in copy.cleaned : row.step[s] = "completed" /\ s # Publishable(row)

\* What an operation knows at each of its places.
Local(p) ==
  LET at == proc[p]  copy == proc[p].copy IN
  /\ at.pc # "idle" => at.op # "none" /\ (at.op = "start" => at.definition \in Definitions)
  /\ at.pc = "create" => at.op = "start"
  /\ at.pc \in {"start", "status", "artifacts"} => at.op = "reconcile"
  /\ at.pc = "save" => at.op \in {"cancel", "reconcile"}
  /\ at.pc \notin {"idle", "lock", "load", "create"} => at.base = run
  /\ at.pc \in {"start", "status", "artifacts"} => Scanned(run, copy) /\ Settled(copy)
  /\ at.pc = "start" => Among(copy, {"starting"}) # {}
  /\ at.pc \in {"status", "artifacts"} =>
       at.todo # {} /\ at.todo \subseteq Among(copy, {"running"}) /\ Among(copy, {"starting"}) = {}
  /\ at.pc = "save" /\ at.op = "reconcile" => Scheduled(run, copy) /\ Settled(copy)
  /\ at.pc = "save" /\ at.op = "cancel" =>
       run.state \in {"pending", "running", "deleting"} /\ copy = [run EXCEPT !.cancel = TRUE]
  /\ at.pc \in {"cancel", "savecancel"} => CanceledSome(run, copy) /\ Settled(copy)
  /\ at.pc = "savecancel" => Among(copy, StepActive) = {}
  /\ at.pc \in {"clean", "savecleaned"} => CleanedSome(run, copy)
  /\ at.pc = "savedeleting" => Terminal(run) /\ copy = [run EXCEPT !.state = "deleting"]
  /\ at.pc \in {"destroy", "remove"} => run.state = "deleting" /\ copy = run
  /\ at.pc = "destroy" => at.todo # {} /\ \A s \in Steps \ at.todo : sessions[s] = NoSession
  /\ at.pc = "remove" => \A s \in Steps : sessions[s] = NoSession

IInv ==
  /\ TypeOK
  /\ Exclusive
  /\ Durable
  /\ \A p \in Procs : Local(p)

-----------------------------------------------------------------------------
(* Lemmas about steps, rows and schedules.                                 *)

USE WorkflowAssumption DEF Steps

LEMMA FirstIsLeast ==
  ASSUME NEW S \in SUBSET Steps, S # {}
  PROVE  First(S) \in S /\ \A t \in S : First(S) <= t
<1>1. S \in SUBSET Nat
  OBVIOUS
<1>2. \E s \in S : \A t \in S : s <= t
  BY <1>1, Smallest
<1> QED BY <1>2 DEF First

LEMMA Largest ==
  ASSUME NEW S \in SUBSET Steps, S # {}
  PROVE  \E n \in S : \A m \in S : m <= n
<1> DEFINE Mirror == {NumSteps - s : s \in S}
<1>1. \A s \in S : s \in Nat /\ NumSteps - s \in Nat
  OBVIOUS
<1>2. Mirror \in SUBSET Nat /\ Mirror # {}
  BY <1>1
<1>3. PICK k \in Mirror : \A l \in Mirror : k <= l
  BY <1>2, Smallest
<1>4. PICK n \in S : k = NumSteps - n
  BY <1>3
<1>5. \A m \in S : NumSteps - n <= NumSteps - m
  BY <1>3, <1>4
<1> HIDE DEF Mirror
<1>6. ASSUME NEW m \in S PROVE m <= n
  <2>1. NumSteps - n <= NumSteps - m /\ m \in Int /\ n \in Int
    BY <1>5
  <2> QED BY <2>1
<1> QED BY <1>6

\* What WorkflowCatalog says of a definition.
LEMMA DefinitionFacts ==
  ASSUME NEW d \in Definitions
  PROVE  /\ Graph[d].after \in [Steps -> SUBSET Steps] /\ Acyclic(Steps, Graph[d].after)
         /\ Graph[d].source \in [Steps -> Steps \cup {NoStep}]
         /\ Graph[d].publishable \in Steps \cup {NoStep}
         /\ Graph[d].parallelism \in Nat \ {0}
         /\ \A s \in Steps : Graph[d].source[s] # NoStep =>
              Graph[d].source[s] \in Graph[d].after[s] /\ Graph[d].source[s] \notin Graph[d].ephemeral
<1>1. WellFormed(Steps, Graph[d])
  OBVIOUS
<1> QED BY <1>1 DEF WellFormed, Producers

LEMMA SetsOfSteps ==
  ASSUME NEW S \in SUBSET Steps
  PROVE  /\ IsFiniteSet(S) /\ Cardinality(S) \in Nat
         /\ \A T \in SUBSET S : Cardinality(T) <= Cardinality(S)
<1>1. IsFiniteSet(Steps)
  BY FS_Interval
<1>2. IsFiniteSet(S)
  BY <1>1, FS_Subset
<1> QED BY <1>2, FS_Subset, FS_CardinalityType

LEMMA RowTypes ==
  ASSUME NEW row \in Runs
  PROVE  /\ row.state \in RunStates /\ row.cancel \in BOOLEAN
         /\ row.definition \in Definitions \cup {NoDefinition}
         /\ row.step \in [Steps -> StepStates] /\ row.cleaned \in SUBSET Steps
         /\ \A states : Among(row, states) \in SUBSET Steps
BY DEF Runs, Among

\* What one pass of scheduling does to the steps.
LEMMA ScheduleDecides ==
  ASSUME NEW row \in Runs, row.definition \in Definitions, NEW new \in Schedule(row), NEW s \in Steps
  PROVE  /\ new \in [Steps -> StepStates] /\ new[s] = Decision(row, new, s)
         /\ row.step[s] # "pending" => new[s] = row.step[s]
         /\ row.step[s] = "pending" => new[s] \in {"pending", "starting", "skipped"}
<1>1. PICK fate \in [Among(row, {"pending"}) -> {"pending", "starting", "skipped"}] :
        new = [t \in Steps |-> IF row.step[t] = "pending" THEN fate[t] ELSE row.step[t]]
  BY DEF Schedule, Passes
<1>2. new \in [Steps -> StepStates]
  BY <1>1, RowTypes DEF Among, StepStates, StepActive, StepTerminal, StepFailures
<1>3. \A t \in Steps : new[t] = Decision(row, new, t)
  BY DEF Schedule
<1> QED BY <1>1, <1>2, <1>3 DEF Among

LEMMA ScheduleHasReasons ==
  ASSUME NEW row \in Runs, row.definition \in Definitions, NEW new \in Schedule(row),
         NEW s \in Steps, row.step[s] = "pending"
  PROVE  /\ new[s] = "starting" => \A d \in Rules(row).after[s] : new[d] = "completed"
         /\ new[s] = "skipped" => \E d \in Rules(row).after[s] : new[d] \in StepFailures
<1>1. \A d \in Rules(row).after[s] : d \in Steps
  BY DefinitionFacts DEF Rules
<1>2. \A d \in Steps : row.step[d] # "pending" => new[d] = row.step[d]
  BY ScheduleDecides
<1>3. new[s] = Decision(row, new, s)
  BY ScheduleDecides
<1> DEFINE soFar(t) == IF t < s THEN new[t] ELSE row.step[t]
<1>4. \A d \in Steps : soFar(d) # "pending" => new[d] = soFar(d)
  BY <1>2
<1>5. new[s] = "starting" => \A d \in Rules(row).after[s] : soFar(d) = "completed"
  BY <1>3 DEF Decision
<1>6. new[s] = "skipped" => \E d \in Rules(row).after[s] : soFar(d) \in StepFailures
  BY <1>3 DEF Decision
<1> QED BY <1>1, <1>4, <1>5, <1>6 DEF StepFailures

\* The last step that a pass starts found a free place, and counted every step
\* that was active or had been started before it.
LEMMA ScheduleKeepsLimit ==
  ASSUME NEW row \in Runs, row.definition \in Definitions, NEW new \in Schedule(row),
         Cardinality(Among(row, StepActive)) <= Rules(row).parallelism
  PROVE  Cardinality({s \in Steps : new[s] \in StepActive}) <= Rules(row).parallelism
<1> DEFINE Active  == Among(row, StepActive)
           Fresh   == {s \in Steps : new[s] = "starting" /\ row.step[s] = "pending"}
           Working == {s \in Steps : new[s] \in StepActive}
<1>1. Active \in SUBSET Steps /\ Fresh \in SUBSET Steps /\ Active \cap Fresh = {}
  BY DEF Among, StepActive
<1>2. Working = Active \cup Fresh
  BY ScheduleDecides DEF Among, StepActive
<1>3. Rules(row).parallelism \in Nat
  BY DefinitionFacts DEF Rules
<1>4. CASE Fresh = {}
  BY <1>2, <1>4
<1>5. CASE Fresh # {}
  <2>1. PICK m \in Fresh : \A s \in Fresh : s <= m
    BY <1>1, <1>5, Largest
  <2> DEFINE begun == {t \in Steps : t < m /\ new[t] = "starting" /\ row.step[t] = "pending"}
  <2>2. begun = Fresh \ {m}
    BY <2>1
  <2>3. Cardinality(Active) + Cardinality(begun) < Rules(row).parallelism
    <3>1. new[m] = Decision(row, new, m) /\ new[m] = "starting" /\ row.step[m] = "pending"
      BY ScheduleDecides
    <3> QED BY <3>1 DEF Decision
  <2>4. /\ IsFiniteSet(Active) /\ IsFiniteSet(Fresh) /\ Cardinality(Active) \in Nat
        /\ Cardinality(Fresh) \in Nat /\ Cardinality(Active \cap Fresh) = 0
    BY <1>1, SetsOfSteps, FS_EmptySet
  <2>5. Cardinality(begun) = Cardinality(Fresh) - 1
    <3> HIDE DEF Fresh, begun
    <3> QED BY <2>1, <2>2, <2>4, FS_RemoveElement
  <2>6. Cardinality(Working) = Cardinality(Active) + Cardinality(Fresh)
    <3> HIDE DEF Fresh, Active, Working
    <3>1. Cardinality(Active \cup Fresh) = Cardinality(Active) + Cardinality(Fresh) - Cardinality(Active \cap Fresh)
      BY <2>4, FS_Union
    <3> QED BY <1>2, <2>4, <3>1
  <2> QED BY <1>3, <2>3, <2>4, <2>5, <2>6
<1> QED BY <1>4, <1>5

\* Whatever is skipped goes back to a step that did not complete by itself.
LEMMA NothingSkippedAlone ==
  ASSUME NEW row \in Runs, row.definition \in Definitions, StepsHaveReasons(row),
         Among(row, {"pending", "failed", "blocked", "canceled"} \cup StepActive) = {}
  PROVE  Among(row, {"completed"}) = Steps
<1> DEFINE Skipped == Among(row, {"skipped"})
<1>1. \A s \in Steps : row.step[s] \in {"completed", "skipped"}
  BY RowTypes DEF Among, StepStates, StepActive, StepTerminal, StepFailures
<1>2. CASE Skipped # {}
  <2>1. PICK s \in Skipped : Rules(row).after[s] \cap Skipped = {}
    <3>1. Acyclic(Steps, Rules(row).after)
      BY DefinitionFacts DEF Rules
    <3>2. Skipped \in SUBSET Steps
      BY DEF Among
    <3> HIDE DEF Skipped
    <3> QED BY <1>2, <3>1, <3>2 DEF Acyclic
  <2>2. PICK d \in Rules(row).after[s] : row.step[d] \in StepFailures
    BY DEF Among, StepsHaveReasons
  <2>3. d \in Steps
    BY DefinitionFacts DEF Rules, Among
  <2> QED BY <1>1, <2>1, <2>2, <2>3 DEF Among, StepFailures
<1>3. CASE Skipped = {}
  BY <1>1, <1>3 DEF Among
<1> QED BY <1>2, <1>3

-----------------------------------------------------------------------------
(* Lemmas about the moves every action is made of.                         *)

\* TypeOK without the mutex and the processes, which every move sets.
RestTyped ==
  /\ run \in Runs
  /\ sessions \in [Steps -> Sessions]
  /\ server \in {"up", "down"}
  /\ faults \in 0..MaxFaults /\ meddling \in 0..MaxMeddling

LEMMA IdleIsLocal == Idle \in Locals /\ NoRun \in Runs
BY DEF Idle, Locals, NoRun, Runs, RunStates, StepStates

LEMMA SessionTypes ==
  /\ NoSession \in Sessions /\ NoSession.task = "none" /\ NoSession.deletion = "none"
  /\ \A session \in Sessions : session.task \in TaskStates /\ session.deletion \in {"none"} \cup Deletions
BY DEF NoSession, Sessions, TaskStates

\* What a process at one of its calls knows, with its types.
LEMMA AtCall ==
  ASSUME IInv, NEW p \in Procs
  PROVE  /\ proc \in [Procs -> Locals] /\ proc[p] \in Locals
         /\ Local(p) /\ RestTyped /\ Durable /\ proc[p].copy \in Runs
         /\ (Fault => faults' \in 0..MaxFaults)
<1>1. proc[p] \in Locals
  BY DEF IInv, TypeOK
<1>2. proc[p].copy \in Runs
  BY <1>1 DEF Locals
<1>3. Fault => faults' \in 0..MaxFaults
  BY DEF IInv, TypeOK, Fault
<1> QED BY <1>1, <1>2, <1>3 DEF IInv, TypeOK, RestTyped

\* A process that makes no calls is promised nothing that another one could spoil.
LEMMA OthersUndisturbed ==
  ASSUME IInv, NEW p \in Procs, Busy(p), NEW local \in Locals,
         proc' = [proc EXCEPT ![p] = local]
  PROVE  /\ proc' \in [Procs -> Locals] /\ proc'[p] = local
         /\ \A g \in Procs \ {p} : Local(g)' /\ ~Busy(g)'
         /\ server = "up"
<1>1. proc' \in [Procs -> Locals] /\ proc'[p] = local
  BY AtCall
<1>2. ASSUME NEW g \in Procs \ {p} PROVE Local(g)' /\ ~Busy(g)'
  <2>1. ~Busy(g) /\ proc'[g] = proc[g] /\ Local(g)
    BY AtCall DEF IInv, Exclusive
  <2> QED BY <2>1 DEF Local, Busy
<1>3. server = "up"
  BY DEF IInv, TypeOK, Exclusive, Busy
<1> QED BY <1>1, <1>2, <1>3

\* A busy process goes on to its next call.
LEMMA GoesOn ==
  ASSUME IInv, NEW p \in Procs, Busy(p), NEW local \in Locals, Step(p, local),
         UNCHANGED server, RestTyped', Durable', Local(p)'
  PROVE  IInv'
<1>1. /\ proc' \in [Procs -> Locals] /\ lock' = lock /\ lock = p /\ server' = "up"
      /\ \A g \in Procs \ {p} : Local(g)' /\ ~Busy(g)'
  BY OthersUndisturbed DEF Step, IInv, Exclusive
<1>2. Exclusive'
  BY <1>1 DEF Exclusive
<1> QED BY <1>1, <1>2 DEF IInv, TypeOK, RestTyped

\* A busy process returns: nothing remains to be said about it.
LEMMA Returns ==
  ASSUME IInv, NEW p \in Procs, Busy(p), Done(p), UNCHANGED server, RestTyped', Durable'
  PROVE  IInv'
<1>1. /\ proc' \in [Procs -> Locals] /\ proc'[p] = Idle /\ server' = "up"
      /\ \A g \in Procs \ {p} : Local(g)' /\ ~Busy(g)'
  BY OthersUndisturbed, IdleIsLocal DEF Done
<1>2. Local(p)' /\ ~Busy(p)'
  BY <1>1 DEF Local, Busy, Idle
<1>3. Exclusive' /\ lock' \in Procs \cup {Free}
  BY <1>1, <1>2 DEF Exclusive, Done, IInv, TypeOK
<1> QED BY <1>1, <1>2, <1>3 DEF IInv, TypeOK, RestTyped

\* The rows stay as they are; failures and meddling may be counted.
LEMMA ReadOnly ==
  ASSUME IInv, UNCHANGED <<run, sessions, meddling>>
  PROVE  Durable'
BY DEF IInv, Durable, RowOK, SessionOK, StepsHaveReasons, Executing, Rules, Publishable, Among, Ephemeral

LEMMA ReadReturns ==
  ASSUME IInv, NEW p \in Procs, Busy(p), Done(p), UNCHANGED <<run, sessions, server, meddling>>,
         faults' \in 0..MaxFaults
  PROVE  IInv'
<1>1. RestTyped'
  BY DEF IInv, TypeOK, RestTyped
<1> QED BY <1>1, Returns, ReadOnly

LEMMA ReadGoesOn ==
  ASSUME IInv, NEW p \in Procs, Busy(p), NEW local \in Locals, Step(p, local),
         UNCHANGED <<run, sessions, server, faults, meddling>>, Local(p)'
  PROVE  IInv'
<1>1. RestTyped'
  BY DEF IInv, TypeOK, RestTyped
<1> QED BY <1>1, GoesOn, ReadOnly

-----------------------------------------------------------------------------
(* Lemmas about the rows that are written.                                 *)

LEMMA DerivedStates ==
  ASSUME NEW row \in Runs
  PROVE  /\ Derived(row) \in TerminalStates \cup {"running"}
         /\ Derived(row) # "running" => Among(row, {"pending"} \cup StepActive) = {}
         /\ Derived(row) = "completed" =>
              Among(row, {"pending", "failed", "blocked", "canceled"} \cup StepActive) = {}
<1>1. Derived(row) \in TerminalStates \cup {"running"}
  BY DEF Derived, TerminalStates
<1>2. Derived(row) # "running" => Among(row, {"pending"} \cup StepActive) = {}
  BY DEF Derived
<1>3. Derived(row) = "completed" => /\ Among(row, {"pending"} \cup StepActive) = {} /\ Among(row, {"failed"}) = {}
                                    /\ Among(row, {"blocked"}) = {} /\ Among(row, {"canceled"}) = {}
  BY DEF Derived
<1> QED BY <1>1, <1>2, <1>3 DEF Among

LEMMA ScheduledRow ==
  ASSUME NEW row \in Runs, RowOK(row), NEW copy \in Runs, Scheduled(row, copy)
  PROVE  /\ RowOK(copy) /\ copy.state \in TerminalStates \cup {"running"}
         /\ copy.definition = row.definition /\ copy.cancel = row.cancel /\ copy.cleaned = row.cleaned
<1>1. /\ copy.definition = row.definition /\ copy.cancel = row.cancel /\ copy.cleaned = row.cleaned
      /\ copy.state = Derived(copy) /\ row.state # "none" /\ row.definition \in Definitions
      /\ StepsHaveReasons(row) /\ Rules(copy) = Rules(row) /\ Publishable(copy) = Publishable(row)
  BY DEF Scheduled, RowOK, Rules, Publishable, Runs
<1>2. copy.state \in TerminalStates \cup {"running"}
  BY <1>1, DerivedStates
<1>3. \A s \in Steps : \A d \in Rules(row).after[s] : d \in Steps
  BY <1>1, DefinitionFacts DEF Rules
<1>4. \A s \in Steps : /\ row.step[s] = "completed" => copy.step[s] = "completed"
                       /\ row.step[s] \in StepFailures => copy.step[s] = row.step[s]
                       /\ row.step[s] # "pending" /\ copy.step[s] \in Began => row.step[s] \in Began
                       /\ row.step[s] # "pending" /\ copy.step[s] = "skipped" => row.step[s] = "skipped"
  BY DEF Scheduled, Observed, Began, StepActive, StepFailures
<1>5. StepsHaveReasons(copy)
  <2> SUFFICES ASSUME NEW s \in Steps
               PROVE  /\ copy.step[s] \in Began => \A d \in Rules(row).after[s] : copy.step[d] = "completed"
                      /\ copy.step[s] = "skipped" => \E d \in Rules(row).after[s] : copy.step[d] \in StepFailures
    BY <1>1 DEF StepsHaveReasons
  <2>1. CASE row.step[s] = "pending"
    BY <2>1 DEF Scheduled, Observed, Began, StepActive
  <2>2. CASE row.step[s] # "pending"
    BY <1>1, <1>3, <1>4, <2>2 DEF StepsHaveReasons
  <2> QED BY <2>1, <2>2
<1>6. Cardinality(Among(copy, StepActive)) <= Rules(copy).parallelism
  BY <1>1 DEF Scheduled
<1>7. \A s \in copy.cleaned : copy.step[s] = "completed" /\ s # Publishable(copy)
  BY <1>1, <1>4, RowTypes DEF RowOK
<1>8. copy.state \in TerminalStates => Among(copy, {"pending"} \cup StepActive) = {}
  BY <1>1, DerivedStates DEF TerminalStates
<1>9. copy.state = "completed" => Among(copy, {"completed"}) = Steps
  BY <1>1, <1>5, DerivedStates, NothingSkippedAlone
<1> QED BY <1>1, <1>2, <1>5, <1>6, <1>7, <1>8, <1>9 DEF RowOK, TerminalStates

\* The row that ends a cancellation.
LEMMA CanceledRow ==
  ASSUME NEW row \in Runs, RowOK(row), NEW copy \in Runs, CanceledSome(row, copy),
         Among(copy, StepActive) = {}, NEW final \in Runs,
         final.state = "canceled", final.definition = copy.definition,
         final.cancel = copy.cancel, final.cleaned = copy.cleaned,
         \A s \in Steps : final.step[s] = IF copy.step[s] = "pending" THEN "canceled" ELSE copy.step[s]
  PROVE  /\ RowOK(final) /\ final.state = "canceled"
         /\ final.definition = row.definition /\ final.cancel = row.cancel /\ final.cleaned = row.cleaned
         /\ \A s \in Steps :
              final.step[s] = IF row.step[s] \in {"pending"} \cup StepActive THEN "canceled" ELSE row.step[s]
<1>1. /\ final.definition = row.definition /\ final.cancel = row.cancel /\ final.cleaned = row.cleaned
      /\ final.state = "canceled" /\ row.state # "none" /\ row.definition \in Definitions
      /\ StepsHaveReasons(row) /\ Rules(final) = Rules(row) /\ Publishable(final) = Publishable(row)
  BY DEF CanceledSome, RowOK, Rules, Publishable, Runs
<1>2. \A s \in Steps :
        final.step[s] = IF row.step[s] \in {"pending"} \cup StepActive THEN "canceled" ELSE row.step[s]
  BY DEF CanceledSome, Among, StepActive
<1>3. \A s \in Steps : \A d \in Rules(row).after[s] : d \in Steps
  BY <1>1, DefinitionFacts DEF Rules
<1>4. StepsHaveReasons(final)
  <2>1. \A s \in Steps : /\ row.step[s] = "completed" => final.step[s] = "completed"
                         /\ row.step[s] \in StepFailures => final.step[s] = row.step[s]
                         /\ final.step[s] \in Began => row.step[s] \in Began
                         /\ final.step[s] = "skipped" => row.step[s] = "skipped"
    BY <1>2 DEF Began, StepActive, StepFailures
  <2> SUFFICES ASSUME NEW s \in Steps
               PROVE  /\ final.step[s] \in Began => \A d \in Rules(row).after[s] : final.step[d] = "completed"
                      /\ final.step[s] = "skipped" => \E d \in Rules(row).after[s] : final.step[d] \in StepFailures
    BY <1>1 DEF StepsHaveReasons
  <2> QED BY <1>1, <1>3, <2>1 DEF StepsHaveReasons
<1>5. Among(final, {"pending"} \cup StepActive) = {} /\ Among(final, StepActive) = {}
  BY <1>2 DEF Among, StepActive
<1>6. Cardinality(Among(final, StepActive)) <= Rules(final).parallelism
  <2>1. Rules(row).parallelism \in Nat /\ Cardinality(Among(final, StepActive)) = 0
    BY <1>1, <1>5, FS_EmptySet, DefinitionFacts DEF Rules
  <2> QED BY <1>1, <2>1
<1>7. \A s \in final.cleaned : final.step[s] = "completed" /\ s # Publishable(final)
  BY <1>1, <1>2, RowTypes DEF RowOK, StepActive
<1> QED BY <1>1, <1>2, <1>4, <1>5, <1>6, <1>7 DEF RowOK

LEMMA CleanedRow ==
  ASSUME NEW row \in Runs, RowOK(row), NEW copy \in Runs, CleanedSome(row, copy)
  PROVE  /\ RowOK(copy) /\ copy.state = row.state /\ copy.step = row.step
         /\ copy.definition = row.definition /\ copy.cancel = row.cancel
<1>1. /\ copy.definition = row.definition /\ copy.cancel = row.cancel
      /\ copy.state = row.state /\ copy.step = row.step /\ row.state # "none"
  BY DEF CleanedSome, Runs
<1>2. \A states : Among(copy, states) = Among(row, states)
  BY <1>1 DEF Among
<1>3. Rules(copy) = Rules(row) /\ Publishable(copy) = Publishable(row)
  BY <1>1 DEF Rules, Publishable
<1>4. \A s \in copy.cleaned : copy.step[s] = "completed" /\ s # Publishable(copy)
  BY <1>1, <1>3 DEF CleanedSome
<1> QED BY <1>1, <1>2, <1>3, <1>4 DEF RowOK, StepsHaveReasons

-----------------------------------------------------------------------------
(* Lemmas about the rows and the sessions together.                        *)

\* A save leaves the sessions alone: what it says of a step has to agree with
\* what its session does.
LEMMA SessionsFollow ==
  ASSUME IInv, UNCHANGED <<sessions, meddling>>, run.state # "none", run'.state # "none",
         run'.definition = run.definition, run.cancel => run'.cancel,
         run.state = "deleting" => run'.state = "deleting",
         \A s \in Steps :
           /\ run.step[s] \notin {"pending", "skipped"} => run'.step[s] \notin {"pending", "skipped"}
           /\ run.step[s] \in StepTerminal => run'.step[s] = run.step[s]
           /\ Executing(s) => run'.step[s] \in StepActive
           /\ run'.step[s] = "completed" /\ meddling = 0 =>
                run.step[s] = "completed" \/ sessions[s].task # "none"
  PROVE  \A s \in Steps : SessionOK(s)'
<1> SUFFICES ASSUME NEW s \in Steps PROVE SessionOK(s)'
  OBVIOUS
<1>1. SessionOK(s) /\ RowOK(run) /\ run \in Runs
  BY DEF IInv, TypeOK, Durable
<1>2. /\ Rules(run)' = Rules(run) /\ Ephemeral(run, s)' = Ephemeral(run, s)
      /\ \A d \in Rules(run).after[s] : d \in Steps
  BY <1>1, DefinitionFacts DEF Rules, Ephemeral, RowOK
<1>3. Executing(s)' = Executing(s)
  BY DEF Executing
<1> QED BY <1>1, <1>2, <1>3 DEF SessionOK, StepTerminal, StepFailures

\* Step s's session becomes something that the row allows.
LEMMA SessionMoves ==
  ASSUME IInv, NEW s \in Steps, NEW session \in Sessions, sessions' = [sessions EXCEPT ![s] = session],
         UNCHANGED run, meddling' = 0 => meddling = 0,
         session.task = "none" => session = NoSession,
         session # NoSession => sessions[s] # NoSession \/ run.step[s] \in Began,
         session.task \in {"recorded", "active"} => run.step[s] \in StepActive,
         meddling' = 0 =>
           /\ run.state # "deleting" => session.deletion # "storage"
           /\ session.deletion # "none" => run.step[s] \in StepTerminal \/ run.cancel
           /\ run.state # "deleting" /\ run.step[s] = "completed" /\ ~Ephemeral(run, s) => session.task # "none"
  PROVE  /\ sessions' \in [Steps -> Sessions] /\ sessions'[s] = session
         /\ \A t \in Steps \ {s} : sessions'[t] = sessions[t]
         /\ \A t \in Steps : SessionOK(t)'
<1>1. /\ sessions' \in [Steps -> Sessions] /\ sessions'[s] = session
      /\ \A t \in Steps \ {s} : sessions'[t] = sessions[t]
  BY DEF IInv, TypeOK
<1>2. /\ SessionOK(s) /\ RowOK(run) /\ run \in Runs
      /\ Rules(run)' = Rules(run) /\ \A t \in Steps : Ephemeral(run, t)' = Ephemeral(run, t)
  BY DEF IInv, TypeOK, Durable, Rules, Ephemeral
<1>3. SessionOK(s)'
  <2>1. run.step[s] \in Began => /\ run.state # "none" /\ run.step[s] \notin {"pending", "skipped"}
                                 /\ \A d \in Rules(run).after[s] : run.step[d] = "completed"
    BY <1>2 DEF RowOK, StepsHaveReasons, NoRun, Began, StepActive
  <2>2. Executing(s)' => run.step[s] \in StepActive
    BY <1>1 DEF Executing
  <2> QED BY <1>1, <1>2, <2>1, <2>2 DEF SessionOK
<1>4. ASSUME NEW t \in Steps \ {s} PROVE SessionOK(t)'
  <2>1. SessionOK(t) /\ Executing(t)' = Executing(t)
    BY <1>1 DEF IInv, Durable, Executing
  <2> QED BY <1>1, <1>2, <2>1 DEF SessionOK
<1> QED BY <1>1, <1>3, <1>4

\* What the session controller's calls make of one session.
LEMMA StartedSession ==
  ASSUME NEW session \in Sessions, NEW outcome \in StartFailed(session) \cup {Started(session)}
  PROVE  /\ outcome \in Sessions /\ outcome.deletion = session.deletion
         /\ outcome.task # session.task => session.task \in {"none"} \cup TaskUnlaunched
         /\ outcome.task = "none" => session.task = "none"
         /\ outcome = session \/ outcome.task # "none"
BY DEF StartFailed, Started, Sessions, TaskStates, TaskUnlaunched, TaskActive, TaskOver, TaskResults

\* A deletion succeeds, fails somewhere, or is refused.
Removals(session, kind, ephemeral) ==
  DeleteFailed(session, kind, ephemeral)
    \cup (IF DeleteSucceeds(session, kind) THEN {Deleted(session, kind, ephemeral)}
          ELSE IF Refuses(session, kind) THEN {session} ELSE {Marked(session, kind)})

LEMMA DeletedSession ==
  ASSUME NEW session \in Sessions, session.task = "none" => session = NoSession,
         NEW kind \in Deletions, NEW ephemeral \in BOOLEAN,
         NEW outcome \in Removals(session, kind, ephemeral)
  PROVE  /\ outcome \in Sessions
         /\ outcome.task = "none" => outcome = NoSession
         /\ outcome # NoSession => session # NoSession
         /\ outcome.task \in {session.task, "none", "canceled"}
         /\ outcome.task = "canceled" => session.task \in TaskActive \cup {"canceled"}
         /\ outcome.task = "none" => session.task = "none" \/ kind = "storage" \/ ephemeral
         /\ outcome.deletion \in {session.deletion, kind, "none"}
BY DEF Removals, DeleteFailed, DeleteSucceeds, Deleted, Canceled, Marked, Refuses, Sessions, NoSession,
   Deletions, TaskStates, TaskUnlaunched, TaskActive, TaskOver, TaskResults

LEMMA DeletionSucceeds ==
  ASSUME NEW session \in Sessions, session.task = "none" => session = NoSession,
         NEW kind \in Deletions, NEW ephemeral \in BOOLEAN, DeleteSucceeds(session, kind),
         NEW outcome, outcome = Deleted(session, kind, ephemeral)
  PROVE  /\ outcome.task \notin {"recorded", "active"} /\ outcome.deletion = "none"
         /\ kind = "storage" => outcome = NoSession
         /\ outcome.task = "none" => session.task = "none" \/ kind = "storage" \/ ephemeral
BY DEF DeleteSucceeds, Deleted, Canceled, Sessions, NoSession, Deletions,
   TaskStates, TaskUnlaunched, TaskActive, TaskOver, TaskResults

-----------------------------------------------------------------------------
(* Lemmas about a pass: it starts and observes steps, then schedules.      *)

\* Process p has scanned as far as local says.
Scanning(p, local) ==
  /\ Busy(p) /\ UNCHANGED <<run, server, meddling>> /\ RestTyped' /\ Durable'
  /\ local \in Locals /\ local.op = "reconcile" /\ local.base = run
  /\ Scanned(run, local.copy) /\ Settled(local.copy)'

\* A copy gets new step states, and the run state that follows from them.
Concluded(copy, new, derived) ==
  LET scheduled == [copy EXCEPT !.step = new]
  IN  derived = [scheduled EXCEPT !.state = Derived(scheduled)]

\* Scheduling a scanned copy.
LEMMA ScheduleScanned ==
  ASSUME NEW row \in Runs, RowOK(row), NEW copy \in Runs, Scanned(row, copy), NEW new \in Schedule(copy),
         NEW derived, Concluded(copy, new, derived)
  PROVE  /\ derived \in Runs /\ Scheduled(row, derived) /\ derived.step = new
         /\ \A s \in Steps : copy.step[s] # "pending" => new[s] = copy.step[s]
<1> PICK scheduled : scheduled = [copy EXCEPT !.step = new]
  OBVIOUS
<1> PICK state : state = Derived(scheduled)
  OBVIOUS
<1>0. derived = [scheduled EXCEPT !.state = state]
  BY DEF Concluded
<1>1. /\ copy.definition = row.definition /\ copy.definition \in Definitions /\ row.state # "none"
      /\ Rules(copy) = Rules(row)
  BY DEF Scanned, RowOK, Runs, Rules
<1>2. new \in [Steps -> StepStates] /\ \A s \in Steps : /\ copy.step[s] # "pending" => new[s] = copy.step[s]
                                                        /\ copy.step[s] = "pending" => new[s] \in {"pending", "starting", "skipped"}
  <2>1. 1 \in Steps
    OBVIOUS
  <2> QED BY <1>1, <2>1, ScheduleDecides
<1>3. scheduled \in Runs /\ scheduled.step = new
  BY <1>2 DEF Runs
<1>4. Derived(scheduled) \in RunStates
  BY <1>3, DerivedStates DEF RunStates
<1>5. /\ derived \in Runs /\ derived.step = new /\ derived.state = Derived(scheduled)
      /\ derived = [copy EXCEPT !.step = new, !.state = state]
  BY <1>0, <1>2, <1>4 DEF Runs
<1>6. \A states : Among(derived, states) = Among(scheduled, states)
  BY <1>3, <1>5 DEF Among
<1>7. Derived(derived) = Derived(scheduled)
  BY <1>3, <1>5, <1>6 DEF Derived
<1>8. derived = [row EXCEPT !.step = derived.step, !.state = Derived(derived)]
  <2>1. copy = [row EXCEPT !.step = copy.step]
    BY DEF Scanned
  <2> QED BY <1>5, <1>7, <2>1 DEF Runs
<1>9. Cardinality(Among(derived, StepActive)) <= Rules(row).parallelism
  <2>1. Among(copy, StepActive) \in SUBSET Among(row, StepActive) /\ Among(row, StepActive) \in SUBSET Steps
    BY DEF Scanned, Observed, Among, StepActive
  <2>2. /\ Cardinality(Among(copy, StepActive)) <= Cardinality(Among(row, StepActive))
        /\ Cardinality(Among(row, StepActive)) <= Rules(row).parallelism
    BY <1>1, <2>1, SetsOfSteps DEF RowOK
  <2>3. Cardinality(Among(copy, StepActive)) \in Int /\ Cardinality(Among(row, StepActive)) \in Int
        /\ Rules(row).parallelism \in Int
    BY <1>1, <2>1, SetsOfSteps, DefinitionFacts DEF Rules
  <2>4. Cardinality(Among(copy, StepActive)) <= Rules(copy).parallelism
    BY <1>1, <2>2, <2>3
  <2>5. Cardinality({s \in Steps : new[s] \in StepActive}) <= Rules(copy).parallelism
    BY <1>1, <2>4, ScheduleKeepsLimit
  <2> QED BY <1>1, <1>5, <2>5 DEF Among
<1>10. ASSUME NEW s \in Steps
       PROVE  /\ \/ Observed(row.step[s], new[s])
                 \/ row.step[s] = "pending" /\ new[s] \in {"starting", "skipped"}
              /\ row.step[s] = "pending" /\ new[s] = "starting" =>
                   \A d \in Rules(row).after[s] : new[d] = "completed"
              /\ row.step[s] = "pending" /\ new[s] = "skipped" =>
                   \E d \in Rules(row).after[s] : new[d] \in StepFailures
  <2>1. Observed(row.step[s], copy.step[s])
    BY DEF Scanned
  <2>2. row.step[s] = "pending" <=> copy.step[s] = "pending"
    BY <2>1 DEF Observed, StepActive
  <2>3. CASE row.step[s] = "pending"
    BY <1>1, <1>2, <2>2, <2>3, ScheduleHasReasons DEF Observed
  <2>4. CASE row.step[s] # "pending"
    BY <1>2, <2>1, <2>2, <2>4
  <2> QED BY <2>3, <2>4
<1>11. Scheduled(row, derived)
  BY <1>5, <1>8, <1>9, <1>10 DEF Scheduled, Scanned
<1> QED BY <1>2, <1>5, <1>11

LEMMA Concludes ==
  ASSUME IInv, NEW p \in Procs, NEW local, Scanning(p, local), Conclude(p, local)
  PROVE  IInv'
<1>1. /\ Busy(p) /\ UNCHANGED <<run, server, meddling>> /\ RestTyped' /\ Durable'
      /\ local \in Locals /\ local.op = "reconcile" /\ local.base = run
      /\ run \in Runs /\ RowOK(run) /\ local.copy \in Runs
  BY AtCall DEF Scanning, RestTyped, Durable, Locals
<1>2. PICK new \in Schedule(local.copy) :
        LET scheduled == [local.copy EXCEPT !.step = new]
            derived   == [scheduled EXCEPT !.state = Derived(scheduled)]
        IN  \/ Step(p, [local EXCEPT !.pc = "save", !.copy = derived, !.changed = FALSE])
            \/ Done(p)
  BY DEF Conclude
<1> DEFINE scheduled == [local.copy EXCEPT !.step = new]
           derived   == [scheduled EXCEPT !.state = Derived(scheduled)]
           next      == [local EXCEPT !.pc = "save", !.copy = derived, !.changed = FALSE]
<1>3. CASE Done(p)
  BY <1>1, <1>3, Returns
<1>4. CASE Step(p, next)
  <2>1. PICK copy \in Runs : copy = local.copy
    BY <1>1
  <2>2. /\ derived \in Runs /\ Scheduled(run, derived) /\ derived.step = new
        /\ \A s \in Steps : local.copy.step[s] # "pending" => new[s] = local.copy.step[s]
    <3>1. PICK result : result = derived
      OBVIOUS
    <3>2. Concluded(copy, new, result)
      BY <2>1, <3>1 DEF Concluded
    <3>3. Scanned(run, copy) /\ new \in Schedule(copy)
      BY <2>1 DEF Scanning
    <3>4. /\ result \in Runs /\ Scheduled(run, result) /\ result.step = new
          /\ \A s \in Steps : copy.step[s] # "pending" => new[s] = copy.step[s]
      BY <1>1, <3>2, <3>3, ScheduleScanned
    <3> QED BY <2>1, <3>1, <3>4
  <2> HIDE DEF derived
  <2>3. next \in Locals
    BY <1>1, <2>2 DEF Locals, Calls
  <2>4. Settled(derived)'
    <3>1. \A s \in Steps : run.step[s] \in StepActive => local.copy.step[s] # "pending"
      BY DEF Scanning, Scanned, Observed, StepActive
    <3> QED BY <1>1, <2>2, <3>1 DEF Scanning, Settled
  <2>5. proc'[p] = next /\ next.pc = "save" /\ next.op = "reconcile" /\ next.base = run /\ next.copy = derived
    BY <1>1, <1>4, <2>3, AtCall DEF Step, Locals
  <2>6. Local(p)'
    BY <1>1, <2>2, <2>4, <2>5 DEF Local
  <2> QED BY <1>1, <1>4, <2>3, <2>6, GoesOn
<1> QED BY <1>2, <1>3, <1>4

LEMMA Observes ==
  ASSUME IInv, NEW p \in Procs, NEW local, Scanning(p, local), Among(local.copy, {"starting"}) = {},
         NEW todo, todo \subseteq Among(local.copy, {"running"}), Observe(p, local, todo)
  PROVE  IInv'
<1>1. CASE todo = {}
  BY <1>1, Concludes DEF Observe
<1>2. CASE todo # {}
  <2> DEFINE next == [local EXCEPT !.pc = "status", !.todo = todo]
  <2>1. /\ Busy(p) /\ UNCHANGED <<run, server, meddling>> /\ RestTyped' /\ Durable'
        /\ local \in Locals /\ local.op = "reconcile" /\ local.base = run
    BY DEF Scanning
  <2>2. next \in Locals
    BY <2>1 DEF Locals, Calls, Among
  <2>3. Step(p, next)
    BY <1>2 DEF Observe
  <2>4. /\ proc'[p] = next /\ next.pc = "status" /\ next.op = "reconcile" /\ next.base = run
        /\ next.copy = local.copy /\ next.todo = todo
    BY <2>1, <2>2, <2>3, AtCall DEF Step, Locals
  <2>5. Local(p)'
    BY <1>2, <2>1, <2>4 DEF Local, Scanning
  <2> QED BY <2>1, <2>2, <2>3, <2>5, GoesOn
<1> QED BY <1>1, <1>2

LEMMA StartsOrObserves ==
  ASSUME IInv, NEW p \in Procs, NEW local, Scanning(p, local), StartOrObserve(p, local)
  PROVE  IInv'
<1>1. CASE Among(local.copy, {"starting"}) = {}
  BY <1>1, Observes DEF StartOrObserve
<1>2. CASE Among(local.copy, {"starting"}) # {}
  <2> DEFINE next == [local EXCEPT !.pc = "start"]
  <2>1. /\ Busy(p) /\ UNCHANGED <<run, server, meddling>> /\ RestTyped' /\ Durable'
        /\ local \in Locals /\ local.op = "reconcile" /\ local.base = run
    BY DEF Scanning
  <2>2. next \in Locals
    BY <2>1 DEF Locals, Calls
  <2>3. Step(p, next)
    BY <1>2 DEF StartOrObserve
  <2>4. /\ proc'[p] = next /\ next.pc = "start" /\ next.op = "reconcile" /\ next.base = run
        /\ next.copy = local.copy
    BY <2>1, <2>2, <2>3, AtCall DEF Step, Locals
  <2>5. Local(p)'
    BY <1>2, <2>1, <2>4 DEF Local, Scanning
  <2> QED BY <2>1, <2>2, <2>3, <2>5, GoesOn
<1> QED BY <1>1, <1>2

-----------------------------------------------------------------------------
(* Lemmas about where the reconciler goes after that, and about deletions. *)

LEMMA CleansNext ==
  ASSUME IInv, NEW p \in Procs, Busy(p), NEW local \in Locals, Go(p, CleanNext(local)),
         UNCHANGED server, RestTyped', Durable', local.op # "none",
         local.op = "start" => local.definition \in Definitions,
         local.base = run', CleanedSome(run', local.copy)
  PROVE  IInv'
<1>1. CASE CleanNext(local) = Idle
  BY <1>1, Returns DEF Go
<1>2. CASE CleanNext(local) # Idle
  <2>1. PICK place \in {"clean", "savecleaned"} : CleanNext(local) = [local EXCEPT !.pc = place]
    BY <1>2 DEF CleanNext
  <2> DEFINE next == [local EXCEPT !.pc = place]
  <2>2. next \in Locals /\ Step(p, next)
    BY <1>2, <2>1 DEF Locals, Calls, Go
  <2>3. /\ proc'[p] = next /\ next.pc = place /\ next.op = local.op /\ next.base = local.base
        /\ next.copy = local.copy /\ next.definition = local.definition
    BY <2>1, <2>2, AtCall DEF Step, Locals
  <2>4. Local(p)'
    BY <2>3 DEF Local
  <2> QED BY <2>2, <2>4, GoesOn
<1> QED BY <1>1, <1>2

LEMMA CancelsNext ==
  ASSUME IInv, NEW p \in Procs, Busy(p), NEW local \in Locals, Step(p, CancelNext(local)),
         UNCHANGED server, RestTyped', Durable', local.op # "none",
         local.op = "start" => local.definition \in Definitions,
         local.base = run', CanceledSome(run', local.copy), Settled(local.copy)'
  PROVE  IInv'
<1>1. PICK place \in {"cancel", "savecancel"} :
        /\ CancelNext(local) = [local EXCEPT !.pc = place]
        /\ place = "savecancel" => Among(local.copy, StepActive) = {}
  BY DEF CancelNext
<1> DEFINE next == [local EXCEPT !.pc = place]
<1>2. next \in Locals /\ Step(p, next)
  BY <1>1 DEF Locals, Calls
<1>3. /\ proc'[p] = next /\ next.pc = place /\ next.op = local.op /\ next.base = local.base
      /\ next.copy = local.copy /\ next.definition = local.definition
  BY <1>1, <1>2, AtCall DEF Step, Locals
<1>4. Local(p)'
  BY <1>1, <1>3 DEF Local
<1> QED BY <1>2, <1>4, GoesOn

\* The deletion of a step's session, successful or not.
LEMMA Removes ==
  ASSUME IInv, NEW p \in Procs, Busy(p), NEW s \in Steps, NEW kind \in Deletions, NEW local,
         Remove(p, s, kind, local), run.state # "none", proc[p].copy.definition = run.definition,
         kind = "storage" <=> run.state = "deleting", run.step[s] \in StepTerminal \/ run.cancel
  PROVE  /\ RestTyped' /\ Durable' /\ UNCHANGED <<run, server, meddling>>
         /\ \A t \in Steps \ {s} : sessions'[t] = sessions[t]
         /\ \/ Done(p)
            \/ /\ Step(p, local) /\ UNCHANGED faults /\ sessions'[s].task \notin {"recorded", "active"}
               /\ kind = "storage" => sessions'[s] = NoSession
<1> DEFINE ephemeral == Ephemeral(proc[p].copy, s)
<1>1. /\ UNCHANGED <<run, server, meddling>> /\ faults' \in 0..MaxFaults
      /\ sessions[s] \in Sessions /\ ephemeral \in BOOLEAN /\ ephemeral = Ephemeral(run, s)
      /\ SessionOK(s) /\ RestTyped
  BY AtCall DEF Remove, RestTyped, Ephemeral, Rules, Durable
<1>2. PICK outcome \in Removals(sessions[s], kind, ephemeral) :
        /\ sessions' = [sessions EXCEPT ![s] = outcome]
        /\ \/ Done(p)
           \/ /\ Step(p, local) /\ UNCHANGED faults /\ DeleteSucceeds(sessions[s], kind)
              /\ outcome = Deleted(sessions[s], kind, ephemeral)
  <2>1. CASE DeleteSucceeds(sessions[s], kind)
             /\ sessions' = [sessions EXCEPT ![s] = Deleted(sessions[s], kind, ephemeral)]
             /\ Step(p, local) /\ UNCHANGED faults
    BY <2>1 DEF Removals
  <2>2. CASE \E outcome \in DeleteFailed(sessions[s], kind, ephemeral) :
               sessions' = [sessions EXCEPT ![s] = outcome] /\ Done(p)
    BY <2>2 DEF Removals
  <2>3. CASE ~DeleteSucceeds(sessions[s], kind) /\ Done(p)
             /\ sessions' = [sessions EXCEPT ![s] =
                               IF Refuses(sessions[s], kind) THEN sessions[s] ELSE Marked(sessions[s], kind)]
    BY <2>3 DEF Removals
  <2> QED BY <2>1, <2>2, <2>3 DEF Remove
<1>3. sessions[s].task = "none" => sessions[s] = NoSession
  BY <1>1 DEF SessionOK
<1>4. /\ outcome \in Sessions
      /\ outcome.task = "none" => outcome = NoSession
      /\ outcome # NoSession => sessions[s] # NoSession
      /\ outcome.task \in {sessions[s].task, "none", "canceled"}
      /\ outcome.task = "none" => sessions[s].task = "none" \/ kind = "storage" \/ ephemeral
      /\ outcome.deletion \in {sessions[s].deletion, kind, "none"}
  BY <1>1, <1>2, <1>3, DeletedSession
<1>5. outcome.task \in {"recorded", "active"} => run.step[s] \in StepActive
  BY <1>1, <1>4 DEF SessionOK, Executing
<1>6. meddling' = 0 =>
        /\ run.state # "deleting" => outcome.deletion # "storage"
        /\ run.state # "deleting" /\ run.step[s] = "completed" /\ ~Ephemeral(run, s) => outcome.task # "none"
  BY <1>1, <1>4 DEF SessionOK
<1>7. /\ sessions' \in [Steps -> Sessions] /\ sessions'[s] = outcome
      /\ \A t \in Steps \ {s} : sessions'[t] = sessions[t]
      /\ \A t \in Steps : SessionOK(t)'
  BY <1>1, <1>2, <1>4, <1>5, <1>6, SessionMoves
<1>8. RestTyped' /\ Durable'
  <2>1. RowOK(run)'
    BY <1>1 DEF IInv, Durable, RowOK, StepsHaveReasons, Rules, Publishable, Among
  <2> QED BY <1>1, <1>7, <2>1 DEF RestTyped, Durable
<1>9. DeleteSucceeds(sessions[s], kind) /\ outcome = Deleted(sessions[s], kind, ephemeral) =>
        outcome.task \notin {"recorded", "active"} /\ (kind = "storage" => outcome = NoSession)
  BY <1>1, <1>3, DeletionSucceeds
<1> QED BY <1>1, <1>2, <1>7, <1>8, <1>9

-----------------------------------------------------------------------------
(* One lemma per action: it preserves the invariant.                       *)

LEMMA LocalStays ==
  ASSUME IInv, NEW p \in Procs, proc'[p] = proc[p], UNCHANGED <<run, sessions, meddling>>
  PROVE  Local(p)'
<1>1. Local(p) /\ \A s \in Steps : Executing(s)' = Executing(s)
  BY AtCall DEF Executing
<1>2. Settled(proc[p].copy)' = Settled(proc[p].copy)
  BY <1>1 DEF Settled
<1> QED BY <1>1, <1>2 DEF Local

LEMMA WaitsPreserve ==
  ASSUME IInv, NEW p \in Procs, ~Busy(p), server = "up", NEW local \in Locals, local.pc = "lock", local.op # "none",
         local.op = "start" => local.definition \in Definitions,
         proc' = [proc EXCEPT ![p] = local], UNCHANGED <<run, sessions, lock, server, faults, meddling>>
  PROVE  IInv'
<1>1. /\ proc' \in [Procs -> Locals] /\ proc'[p] = local
      /\ \A g \in Procs \ {p} : proc'[g] = proc[g]
  BY AtCall
<1>2. RestTyped' /\ Durable'
  BY AtCall, ReadOnly DEF RestTyped
<1>3. Exclusive'
  BY <1>1 DEF IInv, Exclusive, Busy
<1>4. Local(p)'
  BY <1>1 DEF Local
<1>5. ASSUME NEW g \in Procs \ {p} PROVE Local(g)'
  BY <1>1, LocalStays
<1> QED BY <1>1, <1>2, <1>3, <1>4, <1>5 DEF IInv, TypeOK, RestTyped

LEMMA RequestPreserves ==
  ASSUME IInv, NEW c \in Clients, NEW op \in Operations \ {"reconcile"},
         NEW definition \in Definitions \cup {NoDefinition}, Request(c, op, definition)
  PROVE  IInv'
<1> DEFINE local == [Idle EXCEPT !.pc = "lock", !.op = op, !.definition = definition]
<1>1. /\ local \in Locals /\ local.pc = "lock" /\ local.op = op /\ local.definition = definition /\ op # "none"
  BY IdleIsLocal DEF Locals, Operations
<1>2. c \in Procs /\ ~Busy(c) /\ server = "up" /\ proc' = [proc EXCEPT ![c] = local]
      /\ (op = "start" => definition \in Definitions) /\ UNCHANGED <<run, sessions, lock, server, faults, meddling>>
  BY DEF Request, Procs, Busy, At
<1> HIDE DEF local
<1> QED BY <1>1, <1>2, WaitsPreserve

LEMMA TickPreserves ==
  ASSUME IInv, Tick
  PROVE  IInv'
<1> DEFINE local == [Idle EXCEPT !.pc = "lock", !.op = "reconcile"]
<1>1. /\ local \in Locals /\ local.pc = "lock" /\ local.op = "reconcile"
  BY IdleIsLocal DEF Locals, Operations
<1>2. Reconciler \in Procs /\ ~Busy(Reconciler) /\ server = "up" /\ proc' = [proc EXCEPT ![Reconciler] = local]
      /\ UNCHANGED <<run, sessions, lock, server, faults, meddling>>
  BY DEF Tick, Procs, Busy, At
<1> HIDE DEF local
<1> QED BY <1>1, <1>2, WaitsPreserve

LEMMA AcquirePreserves ==
  ASSUME IInv, NEW p \in Procs, Acquire(p)
  PROVE  IInv'
<1>1. \A g \in Procs : ~Busy(g)
  BY DEF Acquire, IInv, Exclusive
<1>2. /\ proc'[p] = Goto(p, "load") /\ lock' = p /\ proc' \in [Procs -> Locals]
      /\ \A g \in Procs \ {p} : proc'[g] = proc[g]
      /\ UNCHANGED <<run, sessions, server, faults, meddling>>
  BY AtCall DEF Acquire, Goto, Locals, Calls
<1>3. RestTyped' /\ Durable'
  BY <1>2, AtCall, ReadOnly DEF RestTyped
<1>4. Local(p)'
  <2>1. proc'[p].pc = "load" /\ proc'[p].op = proc[p].op /\ proc'[p].definition = proc[p].definition
    BY <1>2, AtCall DEF Goto, Locals
  <2>2. proc[p].pc = "lock" /\ Local(p)
    BY AtCall DEF Acquire, At
  <2> QED BY <2>1, <2>2 DEF Local
<1>5. ASSUME NEW g \in Procs \ {p} PROVE Local(g)' /\ ~Busy(g)'
  <2>1. ~Busy(g) /\ Local(g) /\ proc'[g] = proc[g]
    BY <1>1, <1>2 DEF IInv
  <2> QED BY <2>1 DEF Local, Busy
<1>6. Exclusive'
  <2>1. server = "up"
    BY DEF Acquire, At, IInv, Exclusive, TypeOK
  <2> QED BY <1>2, <1>5, <2>1 DEF Exclusive
<1> QED BY <1>2, <1>3, <1>4, <1>5, <1>6 DEF IInv, TypeOK, RestTyped

-----------------------------------------------------------------------------
(* The calls of the operations                                             *)

LEMMA ReconcilesPreserve ==
  ASSUME IInv, NEW p \in Procs, At(p, "load"), UNCHANGED <<run, sessions, server, faults, meddling>>,
         proc[p].op = "reconcile",
         LoadReconcile(p, [proc[p] EXCEPT !.copy = run, !.base = run])
  PROVE  IInv'
<1>r. PICK read : read = [proc[p] EXCEPT !.copy = run, !.base = run]
  OBVIOUS
<1>1. /\ Busy(p) /\ read \in Locals /\ read.op = "reconcile" /\ read.copy = run /\ read.base = run
      /\ run \in Runs /\ RowOK(run) /\ RestTyped /\ Durable /\ Local(p)
      /\ UNCHANGED <<run, server, meddling>>
  BY <1>r, AtCall DEF At, Busy, Locals, RestTyped, Durable
<1>2. RestTyped' /\ Durable'
  BY <1>1, ReadOnly DEF RestTyped
<1>3. run = [run EXCEPT !.step = run.step] /\ run = [run EXCEPT !.cleaned = run.cleaned]
  BY <1>1 DEF Runs
<1>4. Settled(run)'
  BY DEF Settled, StepActive, StepTerminal, StepFailures
<1>5. CASE run.state \in {"none", "deleting"}
  BY <1>r, <1>1, <1>5, ReadReturns DEF LoadReconcile, RestTyped
<1>6. CASE Terminal(run)
  <2>1. Go(p, CleanNext(read))
    BY <1>r, <1>6 DEF LoadReconcile, Terminal, TerminalStates
  <2>2. CleanedSome(run, run)
    BY <1>1, <1>3, <1>6 DEF CleanedSome, Terminal, TerminalStates, RowOK
  <2> QED BY <1>1, <1>2, <2>1, <2>2, CleansNext
<1>7. CASE run.state \in {"pending", "running"} /\ run.cancel
  <2>1. Step(p, CancelNext(read))
    BY <1>r, <1>7 DEF LoadReconcile, Terminal, TerminalStates
  <2>2. CanceledSome(run, run)
    BY <1>3, <1>7 DEF CanceledSome
  <2> QED BY <1>1, <1>2, <1>4, <2>1, <2>2, CancelsNext
<1>8. CASE run.state \in {"pending", "running"} /\ ~run.cancel
  <2>1. StartOrObserve(p, read)
    BY <1>r, <1>8 DEF LoadReconcile, Terminal, TerminalStates
  <2>2. Scanned(run, run)
    BY <1>3, <1>8 DEF Scanned, Observed
  <2>3. Scanning(p, read)
    BY <1>1, <1>2, <1>4, <2>2 DEF Scanning
  <2> QED BY <2>1, <2>3, StartsOrObserves
<1> QED BY <1>1, <1>5, <1>6, <1>7, <1>8, RowTypes DEF RunStates, Terminal

LEMMA LoadPreserves ==
  ASSUME IInv, NEW p \in Procs, Load(p)
  PROVE  IInv'
<1> DEFINE read == [proc[p] EXCEPT !.copy = run, !.base = run]
<1>1. /\ Busy(p) /\ proc[p] \in Locals /\ run \in Runs /\ RowOK(run) /\ Local(p) /\ proc[p].pc = "load"
      /\ UNCHANGED <<run, sessions, server, faults, meddling>> /\ faults' \in 0..MaxFaults
      /\ proc[p].op # "none" /\ (proc[p].op = "start" => proc[p].definition \in Definitions)
  BY AtCall DEF Load, At, Busy, RestTyped, Durable, Local
<1>2. CASE Done(p)
  BY <1>1, <1>2, ReadReturns
<1>3. CASE read.op = "start" /\ Step(p, [read EXCEPT !.pc = "create"])
  <2> DEFINE next == [read EXCEPT !.pc = "create"]
  <2>1. next \in Locals /\ next.pc = "create" /\ next.op = proc[p].op /\ next.definition = proc[p].definition
    BY <1>1 DEF Locals, Calls
  <2>2. proc'[p] = next
    BY <1>3, AtCall DEF Step
  <2>3. Local(p)'
    BY <1>1, <1>3, <2>1, <2>2 DEF Local
  <2> QED BY <1>1, <1>3, <2>1, <2>3, ReadGoesOn
<1>4. CASE /\ read.op = "cancel" /\ run.state # "none" /\ ~Terminal(run)
           /\ Step(p, [read EXCEPT !.pc = "save", !.copy.cancel = TRUE])
  <2> DEFINE next == [read EXCEPT !.pc = "save", !.copy.cancel = TRUE]
  <2>1. /\ next \in Locals /\ next.pc = "save" /\ next.op = "cancel" /\ next.base = run
        /\ next.copy = [run EXCEPT !.cancel = TRUE]
    <3>1. [run EXCEPT !.cancel = TRUE] \in Runs
      BY <1>1 DEF Runs
    <3> QED BY <1>1, <1>4, <3>1 DEF Locals, Calls
  <2>2. proc'[p] = next
    BY <1>4, AtCall DEF Step
  <2>3. run.state \in {"pending", "running", "deleting"}
    BY <1>1, <1>4, RowTypes DEF RunStates, Terminal
  <2>4. Local(p)'
    BY <1>1, <2>1, <2>2, <2>3 DEF Local
  <2> QED BY <1>1, <1>4, <2>1, <2>4, ReadGoesOn
<1>5. CASE /\ read.op = "delete" /\ Terminal(run)
           /\ Step(p, [read EXCEPT !.pc = "savedeleting", !.copy.state = "deleting"])
  <2> DEFINE next == [read EXCEPT !.pc = "savedeleting", !.copy.state = "deleting"]
  <2>1. /\ next \in Locals /\ next.pc = "savedeleting" /\ next.op = "delete" /\ next.base = run
        /\ next.copy = [run EXCEPT !.state = "deleting"]
    <3>1. [run EXCEPT !.state = "deleting"] \in Runs
      BY <1>1 DEF Runs, RunStates
    <3> QED BY <1>1, <1>5, <3>1 DEF Locals, Calls
  <2>2. proc'[p] = next
    BY <1>5, AtCall DEF Step
  <2>3. Terminal(run)'
    BY <1>1, <1>5 DEF Terminal
  <2>4. Local(p)'
    BY <1>1, <2>1, <2>2, <2>3 DEF Local
  <2> QED BY <1>1, <1>5, <2>1, <2>4, ReadGoesOn
<1>6. CASE /\ read.op = "delete" /\ run.state = "deleting"
           /\ Step(p, [read EXCEPT !.pc = "destroy", !.todo = Steps])
  <2> DEFINE next == [read EXCEPT !.pc = "destroy", !.todo = Steps]
  <2>1. /\ next \in Locals /\ next.pc = "destroy" /\ next.op = "delete" /\ next.base = run
        /\ next.copy = run /\ next.todo = Steps
    BY <1>1, <1>6 DEF Locals, Calls
  <2>2. proc'[p] = next
    BY <1>6, AtCall DEF Step
  <2>3. Steps # {} /\ Steps \ Steps = {}
    <3>1. 1 \in Steps
      OBVIOUS
    <3> QED BY <3>1
  <2>4. Local(p)'
    BY <1>1, <1>6, <2>1, <2>2, <2>3 DEF Local
  <2> QED BY <1>1, <1>6, <2>1, <2>4, ReadGoesOn
<1>7. CASE read.op = "reconcile" /\ LoadReconcile(p, read)
  <2>1. proc[p].op = "reconcile"
    BY <1>1, <1>7 DEF Locals
  <2> QED BY <1>1, <1>7, <2>1, ReconcilesPreserve DEF At
<1>8. \/ Done(p)
      \/ read.op = "start" /\ Step(p, [read EXCEPT !.pc = "create"])
      \/ /\ read.op = "cancel" /\ run.state # "none" /\ ~Terminal(run)
         /\ Step(p, [read EXCEPT !.pc = "save", !.copy.cancel = TRUE])
      \/ /\ read.op = "delete" /\ Terminal(run)
         /\ Step(p, [read EXCEPT !.pc = "savedeleting", !.copy.state = "deleting"])
      \/ /\ read.op = "delete" /\ run.state = "deleting"
         /\ Step(p, [read EXCEPT !.pc = "destroy", !.todo = Steps])
      \/ read.op = "reconcile" /\ LoadReconcile(p, read)
  BY DEF Load, LoadStart, LoadCancel, LoadDelete
<1> QED BY <1>2, <1>3, <1>4, <1>5, <1>6, <1>7, <1>8

LEMMA CreatePreserves ==
  ASSUME IInv, NEW p \in Procs, Create(p)
  PROVE  IInv'
<1>1. /\ Busy(p) /\ Local(p) /\ Durable /\ RestTyped /\ proc[p].definition \in Definitions
      /\ UNCHANGED <<sessions, server, meddling>> /\ faults' \in 0..MaxFaults /\ Done(p)
  BY AtCall DEF Create, At, Busy, ReplyLast, RestTyped, Local
<1>2. CASE run.state # "none"
  BY <1>1, <1>2, ReadReturns DEF Create
<1>3. CASE run.state = "none"
  <2> DEFINE row == [NoRun EXCEPT !.state = "pending", !.definition = proc[p].definition]
  <2>1. /\ row \in Runs /\ row.state = "pending" /\ row.definition \in Definitions /\ row.cleaned = {}
        /\ \A s \in Steps : row.step[s] = "pending"
    BY <1>1, IdleIsLocal DEF Runs, NoRun, RunStates
  <2>2. RowOK(row)
    <3>1. Among(row, StepActive) = {}
      BY <2>1 DEF Among, StepActive
    <3>2. Rules(row).parallelism \in Nat /\ Cardinality(Among(row, StepActive)) = 0
      BY <2>1, <3>1, FS_EmptySet, DefinitionFacts DEF Rules
    <3>3. StepsHaveReasons(row)
      BY <2>1 DEF StepsHaveReasons, Began, StepActive
    <3> QED BY <2>1, <3>2, <3>3 DEF RowOK, TerminalStates
  <2>3. \A s \in Steps : sessions[s] = NoSession
    BY <1>1, <1>3 DEF Durable, SessionOK
  <2>4. run' = row
    BY <1>3 DEF Create
  <2>5. ASSUME NEW s \in Steps PROVE SessionOK(s)'
    BY <1>1, <2>1, <2>3, <2>4, SessionTypes DEF SessionOK, Executing
  <2>6. RestTyped' /\ Durable'
    BY <1>1, <2>1, <2>2, <2>4, <2>5 DEF RestTyped, Durable
  <2> QED BY <1>1, <2>6, Returns
<1> QED BY <1>2, <1>3

LEMMA StartStepPreserves ==
  ASSUME IInv, NEW p \in Procs, StartStep(p)
  PROVE  IInv'
<1> DEFINE copy == proc[p].copy
           s    == First(Among(copy, {"starting"}))
<1>1. /\ Busy(p) /\ proc[p] \in Locals /\ copy \in Runs /\ run \in Runs /\ RestTyped /\ Durable /\ Local(p)
      /\ proc[p].op = "reconcile" /\ proc[p].base = run /\ Scanned(run, copy) /\ Settled(copy)
      /\ Among(copy, {"starting"}) # {} /\ UNCHANGED <<run, server, meddling>>
      /\ (faults' = faults \/ Fault => faults' \in 0..MaxFaults)
  BY AtCall DEF StartStep, At, Busy, Local, RestTyped
<1>2. s \in Steps /\ copy.step[s] = "starting" /\ run.step[s] = "starting"
  <2>1. s \in Among(copy, {"starting"})
    BY <1>1, RowTypes, FirstIsLeast
  <2> QED BY <1>1, <2>1 DEF Among, Scanned, Observed
<1> HIDE DEF s
<1>3. ASSUME NEW outcome \in StartFailed(sessions[s]) \cup {Started(sessions[s])},
             sessions' = [sessions EXCEPT ![s] = outcome], faults' = faults \/ Fault
      PROVE  RestTyped' /\ Durable' /\ \A t \in Steps \ {s} : sessions'[t] = sessions[t]
  <2>1. sessions[s] \in Sessions /\ SessionOK(s)
    BY <1>1, <1>2 DEF RestTyped, Durable
  <2>2. /\ outcome \in Sessions /\ outcome.deletion = sessions[s].deletion
        /\ outcome.task = "none" => sessions[s].task = "none"
        /\ outcome = sessions[s] \/ outcome.task # "none"
    BY <2>1, <1>3, StartedSession
  <2>3. outcome.task = "none" => outcome = NoSession
    BY <2>1, <2>2 DEF SessionOK
  <2>4. run.step[s] \in Began /\ run.step[s] \in StepActive
    BY <1>2 DEF Began, StepActive
  <2>5. meddling' = 0 =>
          /\ run.state # "deleting" => outcome.deletion # "storage"
          /\ outcome.deletion # "none" => run.step[s] \in StepTerminal \/ run.cancel
          /\ run.step[s] # "completed"
    BY <1>1, <1>2, <2>1, <2>2 DEF SessionOK
  <2>6. /\ sessions' \in [Steps -> Sessions]
        /\ \A t \in Steps \ {s} : sessions'[t] = sessions[t]
        /\ \A t \in Steps : SessionOK(t)'
    BY <1>1, <1>2, <1>3, <2>2, <2>3, <2>4, <2>5, SessionMoves
  <2>7. RowOK(run)'
    BY <1>1 DEF Durable, RowOK, StepsHaveReasons, Rules, Publishable, Among
  <2> QED BY <1>1, <1>3, <2>6, <2>7 DEF RestTyped, Durable
<1>4. CASE /\ sessions' = [sessions EXCEPT ![s] = Started(sessions[s])]
           /\ StartOrObserve(p, [proc[p] EXCEPT !.copy.step[s] = "running", !.changed = TRUE])
           /\ UNCHANGED faults
  <2>0. PICK local, made : /\ local = [proc[p] EXCEPT !.copy.step[s] = "running", !.changed = TRUE]
                           /\ made = [copy EXCEPT !.step[s] = "running"]
    OBVIOUS
  <2>1. /\ made \in Runs /\ made = [run EXCEPT !.step = made.step]
        /\ made.step[s] = "running" /\ \A t \in Steps \ {s} : made.step[t] = copy.step[t]
    BY <1>1, <1>2, <2>0 DEF Runs, Scanned, StepStates, StepActive
  <2>2. local \in Locals /\ local.copy = made /\ local.op = "reconcile" /\ local.base = run
    BY <1>1, <2>0, <2>1 DEF Locals
  <2>3. Scanned(run, made)
    <3>1. \A t \in Steps : Observed(run.step[t], made.step[t])
      BY <1>1, <1>2, <2>1 DEF Scanned, Observed
    <3> QED BY <1>1, <2>1, <3>1 DEF Scanned
  <2>4. RestTyped' /\ Durable' /\ \A t \in Steps \ {s} : sessions'[t] = sessions[t]
    BY <1>3, <1>4
  <2>5. Settled(made)'
    <3>1. \A t \in Steps \ {s} : Executing(t)' = Executing(t)
      BY <2>4 DEF Executing
    <3>2. made.step[s] \notin StepTerminal
      BY <2>1 DEF StepTerminal, StepFailures
    <3> SUFFICES ASSUME NEW t \in Steps, run.step[t] \in StepActive, made.step[t] \in StepTerminal
                 PROVE  /\ ~Executing(t)'
                        /\ made.step[t] = "completed" /\ meddling' = 0 => sessions'[t].task # "none"
      BY <1>1 DEF Settled
    <3>3. t \in Steps \ {s} /\ copy.step[t] = made.step[t]
      BY <2>1, <3>2
    <3>4. ~Executing(t) /\ (copy.step[t] = "completed" /\ meddling = 0 => sessions[t].task # "none")
      BY <1>1, <3>3 DEF Settled
    <3> QED BY <1>1, <2>4, <3>1, <3>3, <3>4
  <2>6. Scanning(p, local)
    BY <1>1, <2>2, <2>3, <2>4, <2>5 DEF Scanning
  <2> QED BY <1>4, <2>0, <2>6, StartsOrObserves
<1>5. CASE /\ \E outcome \in StartFailed(sessions[s]) : sessions' = [sessions EXCEPT ![s] = outcome]
           /\ Fault /\ Done(p)
  BY <1>1, <1>3, <1>5, Returns
<1>6. CASE Done(p) /\ UNCHANGED <<sessions, faults>>
  BY <1>1, <1>6, ReadReturns
<1> QED BY <1>4, <1>5, <1>6 DEF StartStep, s

\* In one server no save conflicts: the row is the one that was read.
LEMMA UpdateWrites ==
  ASSUME IInv, NEW p \in Procs, NEW copy \in Runs, NEW local, Update(p, copy, local), proc[p].base = run
  PROVE  /\ run' = copy /\ UNCHANGED <<sessions, server, meddling>>
         /\ Go(p, local) \/ Done(p)
         /\ Durable' => RestTyped'
<1>1. /\ run' = copy /\ UNCHANGED <<sessions, server, meddling>> /\ faults' \in 0..MaxFaults
      /\ Go(p, local) \/ Done(p)
  BY AtCall DEF Update, RestTyped
<1> QED BY <1>1, AtCall DEF RestTyped

LEMMA MarkedRow ==
  ASSUME NEW row \in Runs, RowOK(row), row.state # "none", NEW copy \in Runs,
         copy = [row EXCEPT !.cancel = TRUE]
  PROVE  /\ RowOK(copy) /\ copy.state = row.state /\ copy.step = row.step
         /\ copy.definition = row.definition /\ copy.cancel
<1>1. /\ copy.definition = row.definition /\ copy.cleaned = row.cleaned /\ copy.cancel
      /\ copy.state = row.state /\ copy.step = row.step
  BY DEF Runs
<1>2. \A states : Among(copy, states) = Among(row, states)
  BY <1>1 DEF Among
<1>3. Rules(copy) = Rules(row) /\ Publishable(copy) = Publishable(row)
  BY <1>1 DEF Rules, Publishable
<1>4. StepsHaveReasons(copy)
  <2>1. StepsHaveReasons(row)
    BY DEF RowOK
  <2> QED BY <1>1, <1>3, <2>1 DEF StepsHaveReasons
<1>5. \A s \in copy.cleaned : copy.step[s] = "completed" /\ s # Publishable(copy)
  BY <1>1, <1>3 DEF RowOK
<1> QED BY <1>1, <1>2, <1>3, <1>4, <1>5 DEF RowOK

LEMMA SavePreserves ==
  ASSUME IInv, NEW p \in Procs, Save(p)
  PROVE  IInv'
<1> DEFINE copy == proc[p].copy
<1>1. /\ Busy(p) /\ proc[p] \in Locals /\ copy \in Runs /\ run \in Runs /\ RowOK(run) /\ Local(p)
      /\ proc[p].base = run /\ proc[p].pc = "save" /\ \A s \in Steps : SessionOK(s)
  BY AtCall DEF Save, At, Busy, Local, RestTyped, Durable
<1>2. CASE proc[p].op = "cancel"
  <2>1. Update(p, copy, Idle)
    BY <1>2 DEF Save
  <2>2. /\ run' = copy /\ UNCHANGED <<sessions, server, meddling>> /\ Done(p)
        /\ Durable' => RestTyped'
    BY <1>1, <2>1, UpdateWrites DEF Go
  <2>3. copy = [run EXCEPT !.cancel = TRUE] /\ run.state # "none"
    BY <1>1, <1>2 DEF Local
  <2>4. /\ RowOK(copy) /\ copy.state = run.state /\ copy.step = run.step
        /\ copy.definition = run.definition /\ copy.cancel
    BY <1>1, <2>3, MarkedRow
  <2>5. \A s \in Steps : Executing(s) => run.step[s] \in StepActive
    BY <1>1 DEF SessionOK
  <2>6. \A s \in Steps : SessionOK(s)'
    BY <2>2, <2>3, <2>4, <2>5, SessionsFollow
  <2>7. RowOK(run)'
    BY <2>2, <2>4
  <2> QED BY <1>1, <2>2, <2>6, <2>7, Returns DEF Durable
<1>3. CASE proc[p].op = "reconcile"
  <2>1. PICK saved : saved = [proc[p] EXCEPT !.base = proc[p].copy, !.changed = FALSE]
    OBVIOUS
  <2>2. Update(p, copy, CleanNext(saved))
    BY <1>3, <2>1 DEF Save
  <2>3. /\ run' = copy /\ UNCHANGED <<sessions, server, meddling>>
        /\ Go(p, CleanNext(saved)) \/ Done(p)
        /\ Durable' => RestTyped'
    BY <1>1, <2>2, UpdateWrites
  <2>4. Scheduled(run, copy) /\ Settled(copy)
    BY <1>1, <1>3 DEF Local
  <2>5. /\ RowOK(copy) /\ copy.state \in TerminalStates \cup {"running"}
        /\ copy.definition = run.definition /\ copy.cancel = run.cancel
    BY <1>1, <2>4, ScheduledRow
  <2>6. copy.state \notin {"none", "deleting"} /\ run.state \notin {"none", "deleting"}
    BY <2>4, <2>5 DEF TerminalStates, Scheduled
  <2>7. ASSUME NEW s \in Steps
        PROVE  /\ run.step[s] \notin {"pending", "skipped"} => copy.step[s] \notin {"pending", "skipped"}
               /\ run.step[s] \in StepTerminal => copy.step[s] = run.step[s]
               /\ Executing(s) => copy.step[s] \in StepActive
               /\ copy.step[s] = "completed" /\ meddling = 0 =>
                    run.step[s] = "completed" \/ sessions[s].task # "none"
    <3>1. \/ Observed(run.step[s], copy.step[s])
          \/ run.step[s] = "pending" /\ copy.step[s] \in {"starting", "skipped"}
      BY <2>4 DEF Scheduled
    <3>2. run.step[s] \in StepActive /\ copy.step[s] \in StepTerminal =>
            /\ ~Executing(s)
            /\ copy.step[s] = "completed" /\ meddling = 0 => sessions[s].task # "none"
      BY <2>4 DEF Settled
    <3>3. Executing(s) => run.step[s] \in StepActive
      BY <1>1 DEF SessionOK
    <3> QED BY <3>1, <3>2, <3>3 DEF Observed, StepActive, StepTerminal, StepFailures
  <2>8. \A s \in Steps : SessionOK(s)'
    BY <2>3, <2>5, <2>6, <2>7, SessionsFollow
  <2>9. RowOK(run)'
    BY <2>3, <2>5
  <2>10. Durable' /\ RestTyped'
    BY <2>3, <2>8, <2>9 DEF Durable
  <2>11. CASE Done(p)
    BY <1>1, <2>3, <2>10, <2>11, Returns
  <2>12. CASE Go(p, CleanNext(saved))
    <3>1. /\ saved \in Locals /\ saved.op = "reconcile" /\ saved.base = copy /\ saved.copy = copy
      BY <1>1, <1>3, <2>1 DEF Locals
    <3>2. copy = [copy EXCEPT !.cleaned = copy.cleaned]
      BY <1>1 DEF Runs
    <3>3. CleanedSome(copy, copy)
      BY <2>5, <2>6, <3>2 DEF CleanedSome, RowOK
    <3> QED BY <1>1, <2>3, <2>10, <2>12, <3>1, <3>3, CleansNext
  <2> QED BY <2>3, <2>11, <2>12
<1> QED BY <1>1, <1>2, <1>3 DEF Local

LEMMA SaveCanceledPreserves ==
  ASSUME IInv, NEW p \in Procs, SaveCanceled(p)
  PROVE  IInv'
<1>0. PICK copy : copy = proc[p].copy
  OBVIOUS
<1>1. /\ Busy(p) /\ copy \in Runs /\ run \in Runs /\ RowOK(run) /\ Local(p)
      /\ proc[p].base = run /\ CanceledSome(run, copy) /\ Settled(copy) /\ Among(copy, StepActive) = {}
      /\ \A s \in Steps : SessionOK(s)
  BY <1>0, AtCall DEF SaveCanceled, At, Busy, Local, RestTyped, Durable
<1>2. PICK final : final = [copy EXCEPT !.state = "canceled",
                              !.step = [s \in Steps |-> IF copy.step[s] = "pending" THEN "canceled" ELSE copy.step[s]]]
  OBVIOUS
<1>3. /\ final \in Runs /\ final.state = "canceled" /\ final.definition = copy.definition
      /\ final.cancel = copy.cancel /\ final.cleaned = copy.cleaned
      /\ \A s \in Steps : final.step[s] = IF copy.step[s] = "pending" THEN "canceled" ELSE copy.step[s]
  BY <1>1, <1>2 DEF Runs, RunStates, TerminalStates, StepStates, StepTerminal, StepFailures
<1>4. Update(p, final, Idle)
  BY <1>0, <1>2 DEF SaveCanceled
<1>5. /\ run' = final /\ UNCHANGED <<sessions, server, meddling>> /\ Done(p)
      /\ Durable' => RestTyped'
  BY <1>1, <1>3, <1>4, UpdateWrites DEF Go
<1>6. /\ RowOK(final) /\ final.state = "canceled"
      /\ final.definition = run.definition /\ final.cancel = run.cancel
      /\ \A s \in Steps :
           final.step[s] = IF run.step[s] \in {"pending"} \cup StepActive THEN "canceled" ELSE run.step[s]
  BY <1>1, <1>3, CanceledRow
<1>7. ASSUME NEW s \in Steps
      PROVE  /\ run.step[s] \notin {"pending", "skipped"} => final.step[s] \notin {"pending", "skipped"}
             /\ run.step[s] \in StepTerminal => final.step[s] = run.step[s]
             /\ ~Executing(s)
             /\ final.step[s] = "completed" => run.step[s] = "completed"
  <2>1. Executing(s) => run.step[s] \in StepActive
    BY <1>1 DEF SessionOK
  <2>2. run.step[s] \in StepActive => copy.step[s] \in StepTerminal
    BY <1>1 DEF CanceledSome, Among, StepTerminal, StepFailures
  <2>3. ~Executing(s)
    BY <1>1, <2>1, <2>2 DEF Settled
  <2> QED BY <1>6, <2>3 DEF StepActive, StepTerminal, StepFailures
<1>8. run.state \notin {"none", "deleting"}
  BY <1>1 DEF CanceledSome
<1>9. \A s \in Steps : SessionOK(s)'
  BY <1>5, <1>6, <1>7, <1>8, SessionsFollow
<1>10. RowOK(run)'
  BY <1>5, <1>6
<1> QED BY <1>1, <1>5, <1>9, <1>10, Returns DEF Durable

LEMMA SaveCleanedPreserves ==
  ASSUME IInv, NEW p \in Procs, SaveCleaned(p)
  PROVE  IInv'
<1> DEFINE copy == proc[p].copy
<1>1. /\ Busy(p) /\ copy \in Runs /\ run \in Runs /\ RowOK(run) /\ Local(p)
      /\ proc[p].base = run /\ CleanedSome(run, copy) /\ \A s \in Steps : SessionOK(s)
  BY AtCall DEF SaveCleaned, At, Busy, Local, RestTyped, Durable
<1>2. Update(p, copy, Idle)
  BY DEF SaveCleaned
<1>3. /\ run' = copy /\ UNCHANGED <<sessions, server, meddling>> /\ Done(p)
      /\ Durable' => RestTyped'
  BY <1>1, <1>2, UpdateWrites DEF Go
<1>4. /\ RowOK(copy) /\ copy.state = run.state /\ copy.step = run.step
      /\ copy.definition = run.definition /\ copy.cancel = run.cancel /\ run.state # "none"
  BY <1>1, CleanedRow DEF CleanedSome
<1>5. \A s \in Steps : Executing(s) => run.step[s] \in StepActive
  BY <1>1 DEF SessionOK
<1>6. \A s \in Steps : SessionOK(s)'
  BY <1>3, <1>4, <1>5, SessionsFollow
<1>7. RowOK(run)'
  BY <1>3, <1>4
<1> QED BY <1>1, <1>3, <1>6, <1>7, Returns DEF Durable

LEMMA AtScan ==
  ASSUME IInv, NEW p \in Procs, proc[p].pc \in {"status", "artifacts"}
  PROVE  /\ Busy(p) /\ proc[p].copy \in Runs /\ Scanned(run, proc[p].copy) /\ Settled(proc[p].copy)
         /\ proc[p].op = "reconcile" /\ proc[p].base = run
         /\ proc[p].todo \subseteq Among(proc[p].copy, {"running"})
         /\ Among(proc[p].copy, {"starting"}) = {}
         /\ First(proc[p].todo) \in Steps /\ proc[p].copy.step[First(proc[p].todo)] = "running"
<1>1. /\ Busy(p) /\ proc[p].copy \in Runs /\ Scanned(run, proc[p].copy) /\ Settled(proc[p].copy)
      /\ proc[p].op = "reconcile" /\ proc[p].base = run /\ proc[p].todo # {}
      /\ proc[p].todo \subseteq Among(proc[p].copy, {"running"})
      /\ Among(proc[p].copy, {"starting"}) = {}
  BY AtCall DEF Busy, Local
<1>2. proc[p].todo \in SUBSET Steps
  BY AtCall DEF Locals
<1>3. First(proc[p].todo) \in proc[p].todo
  BY <1>1, <1>2, FirstIsLeast
<1> QED BY <1>1, <1>2, <1>3 DEF Among

\* A step whose session has a result gets it in the copy.
LEMMA FinishedPreserves ==
  ASSUME IInv, NEW p \in Procs, proc[p].pc \in {"status", "artifacts"},
         UNCHANGED <<run, sessions, server, faults, meddling>>,
         NEW s, s = First(proc[p].todo), NEW result \in {"completed", "blocked", "failed"},
         ~Executing(s), sessions[s].task # "none", Finished(p, s, result)
  PROVE  IInv'
<1>1. PICK copy, local, made, todo :
        /\ copy = proc[p].copy /\ local = [proc[p] EXCEPT !.copy.step[s] = result, !.changed = TRUE]
        /\ made = [copy EXCEPT !.step[s] = result] /\ todo = proc[p].todo \ {s}
  OBVIOUS
<1>2. /\ Busy(p) /\ copy \in Runs /\ Scanned(run, copy) /\ Settled(copy) /\ proc[p] \in Locals
      /\ proc[p].op = "reconcile" /\ proc[p].base = run /\ RestTyped /\ run \in Runs
      /\ proc[p].todo \subseteq Among(copy, {"running"}) /\ Among(copy, {"starting"}) = {}
      /\ s \in Steps /\ copy.step[s] = "running" /\ UNCHANGED <<run, server, meddling>>
  BY <1>1, AtScan, AtCall DEF RestTyped
<1>3. /\ made \in Runs /\ made = [run EXCEPT !.step = made.step]
      /\ made.step[s] = result /\ \A t \in Steps \ {s} : made.step[t] = copy.step[t]
  BY <1>1, <1>2 DEF Runs, Scanned, StepStates, StepTerminal, StepFailures
<1>4. local \in Locals /\ local.copy = made /\ local.op = "reconcile" /\ local.base = run
  BY <1>1, <1>2, <1>3 DEF Locals
<1>5. Scanned(run, made)
  <2>1. \A t \in Steps : Observed(run.step[t], made.step[t])
    BY <1>2, <1>3 DEF Scanned, Observed, StepActive
  <2> QED BY <1>2, <1>3, <2>1 DEF Scanned
<1>6. RestTyped' /\ Durable'
  BY <1>2, ReadOnly DEF RestTyped
<1>7. Settled(made)'
  <2> SUFFICES ASSUME NEW t \in Steps, run.step[t] \in StepActive, made.step[t] \in StepTerminal
               PROVE  /\ ~Executing(t)'
                      /\ made.step[t] = "completed" /\ meddling' = 0 => sessions'[t].task # "none"
    BY <1>2 DEF Settled
  <2>1. Executing(t)' = Executing(t)
    BY DEF Executing
  <2>2. CASE t = s
    BY <2>1, <2>2
  <2>3. CASE t # s
    BY <1>2, <1>3, <2>1, <2>3 DEF Settled
  <2> QED BY <2>2, <2>3
<1>8. Scanning(p, local)
  BY <1>2, <1>4, <1>5, <1>6, <1>7 DEF Scanning
<1>9. Among(made, {"starting"}) = {} /\ todo \subseteq Among(made, {"running"})
  BY <1>1, <1>2, <1>3 DEF Among
<1>10. Observe(p, local, todo)
  BY <1>1 DEF Finished
<1> QED BY <1>4, <1>8, <1>9, <1>10, Observes

LEMMA StatusOfPreserves ==
  ASSUME IInv, NEW p \in Procs, StatusOf(p)
  PROVE  IInv'
<1> DEFINE s == First(proc[p].todo)
<1>1. /\ proc[p].pc = "status" /\ UNCHANGED <<run, sessions, server, faults, meddling>>
      /\ UNCHANGED <<run, server, meddling>>
  BY DEF StatusOf, At
<1>2. /\ Busy(p) /\ proc[p].copy \in Runs /\ Scanned(run, proc[p].copy) /\ Settled(proc[p].copy)
      /\ proc[p].op = "reconcile" /\ proc[p].base = run
      /\ proc[p].todo \subseteq Among(proc[p].copy, {"running"})
      /\ Among(proc[p].copy, {"starting"}) = {} /\ proc[p] \in Locals
      /\ RestTyped /\ faults' \in 0..MaxFaults /\ proc[p].todo # {}
  BY <1>1, AtScan, AtCall DEF RestTyped, Local
<1>3. Settled(proc[p].copy) => \A copy : copy = proc[p].copy => Settled(copy)'
  BY <1>1 DEF Settled, Executing
<1> HIDE DEF s
<1>4. CASE Done(p)
  BY <1>1, <1>2, <1>4, ReadReturns
<1>5. CASE Observe(p, proc[p], proc[p].todo \ {s})
  <2>1. PICK local, todo : local = proc[p] /\ todo = proc[p].todo \ {s}
    OBVIOUS
  <2>2. RestTyped' /\ Durable'
    BY <1>1, <1>2, ReadOnly DEF RestTyped
  <2>3. Settled(local.copy)'
    BY <1>2, <1>3, <2>1
  <2>4. Scanning(p, local)
    BY <1>1, <1>2, <2>1, <2>2, <2>3 DEF Scanning
  <2>5. Among(local.copy, {"starting"}) = {} /\ todo \subseteq Among(local.copy, {"running"})
    BY <1>2, <2>1
  <2> QED BY <1>5, <2>1, <2>4, <2>5, Observes
<1>6. CASE sessions[s].task \in {"failed", "canceled"} /\ Finished(p, s, "failed")
  <2>1. ~Executing(s) /\ sessions[s].task # "none"
    BY <1>6 DEF Executing
  <2> QED BY <1>1, <1>6, <2>1, FinishedPreserves DEF s
<1>7. CASE Step(p, Goto(p, "artifacts"))
  <2>1. PICK next : next = Goto(p, "artifacts")
    OBVIOUS
  <2>2. /\ next \in Locals /\ next.pc = "artifacts" /\ next.op = proc[p].op /\ next.base = proc[p].base
        /\ next.copy = proc[p].copy /\ next.todo = proc[p].todo
    BY <1>2, <2>1 DEF Locals, Calls, Goto
  <2>3. Step(p, next) /\ proc'[p] = next
    BY <1>7, <2>1, AtCall DEF Step
  <2>4. Settled(next.copy)'
    BY <1>2, <1>3, <2>2
  <2>5. Local(p)'
    BY <1>1, <1>2, <2>2, <2>3, <2>4 DEF Local
  <2> QED BY <1>1, <1>2, <2>2, <2>3, <2>5, ReadGoesOn
<1>8. \/ Done(p) \/ Observe(p, proc[p], proc[p].todo \ {s})
      \/ sessions[s].task \in {"failed", "canceled"} /\ Finished(p, s, "failed")
      \/ Step(p, Goto(p, "artifacts"))
  BY DEF StatusOf, s
<1> QED BY <1>4, <1>5, <1>6, <1>7, <1>8

LEMMA ArtifactsOfPreserves ==
  ASSUME IInv, NEW p \in Procs, ArtifactsOf(p)
  PROVE  IInv'
<1> DEFINE s == First(proc[p].todo)
<1>1. /\ proc[p].pc = "artifacts" /\ UNCHANGED <<run, sessions, server, faults, meddling>>
      /\ Busy(p) /\ faults' \in 0..MaxFaults
  BY AtCall DEF ArtifactsOf, At, Busy, RestTyped
<1> HIDE DEF s
<1>2. CASE Done(p)
  BY <1>1, <1>2, ReadReturns
<1>3. CASE \E result \in {"completed", "blocked", "failed"} :
             sessions[s].task \in TaskResults /\ Finished(p, s, result)
  <2>1. PICK result \in {"completed", "blocked", "failed"} :
          sessions[s].task \in TaskResults /\ Finished(p, s, result)
    BY <1>3
  <2>2. ~Executing(s) /\ sessions[s].task # "none"
    BY <2>1 DEF Executing, TaskResults
  <2> QED BY <1>1, <2>1, <2>2, FinishedPreserves DEF s
<1>4. \/ Done(p)
      \/ \E result \in {"completed", "blocked", "failed"} :
           sessions[s].task \in TaskResults /\ Finished(p, s, result)
  BY DEF ArtifactsOf, s, TaskResults
<1> QED BY <1>2, <1>3, <1>4

LEMMA CancelStepPreserves ==
  ASSUME IInv, NEW p \in Procs, CancelStep(p)
  PROVE  IInv'
<1>1. PICK copy : copy = proc[p].copy
  OBVIOUS
<1>2. PICK s \in Among(copy, StepActive) :
        Remove(p, s, "compute", CancelNext([proc[p] EXCEPT !.copy.step[s] = "canceled"]))
  BY <1>1 DEF CancelStep
<1>3. PICK local, made, next :
        /\ local = [proc[p] EXCEPT !.copy.step[s] = "canceled"]
        /\ made = [copy EXCEPT !.step[s] = "canceled"] /\ next = CancelNext(local)
  OBVIOUS
<1>4. /\ Busy(p) /\ copy \in Runs /\ CanceledSome(run, copy) /\ Settled(copy) /\ proc[p] \in Locals
      /\ proc[p].base = run /\ run \in Runs /\ proc[p].op # "none"
      /\ (proc[p].op = "start" => proc[p].definition \in Definitions)
  BY <1>1, AtCall DEF CancelStep, At, Busy, Local, RestTyped
<1>5. /\ s \in Steps /\ copy.step[s] \in StepActive /\ run.step[s] \in StepActive
      /\ run.state \in {"pending", "running"} /\ run.cancel /\ copy.definition = run.definition
  BY <1>2, <1>4 DEF Among, CanceledSome, StepActive, Runs
<1>6. /\ RestTyped' /\ Durable' /\ UNCHANGED <<run, server, meddling>>
      /\ \A t \in Steps \ {s} : sessions'[t] = sessions[t]
      /\ \/ Done(p)
         \/ Step(p, next) /\ sessions'[s].task \notin {"recorded", "active"}
  <2>1. "compute" \in Deletions /\ Remove(p, s, "compute", next) /\ proc[p].copy.definition = run.definition
    BY <1>1, <1>2, <1>3, <1>5 DEF Deletions
  <2>2. "compute" = "storage" <=> run.state = "deleting"
    BY <1>5
  <2> QED BY <1>4, <1>5, <2>1, <2>2, Removes
<1>7. CASE Done(p)
  BY <1>4, <1>6, <1>7, Returns
<1>8. CASE Step(p, next) /\ sessions'[s].task \notin {"recorded", "active"}
  <2>1. /\ made \in Runs /\ made = [run EXCEPT !.step = made.step]
        /\ made.step[s] = "canceled" /\ \A t \in Steps \ {s} : made.step[t] = copy.step[t]
    <3>1. made \in Runs
      <4>1. "canceled" \in StepStates
        BY DEF StepStates, StepTerminal, StepFailures
      <4> QED BY <1>3, <1>4, <1>5, <4>1 DEF Runs
    <3>2. copy.step \in [Steps -> StepStates] /\ made.step = [copy.step EXCEPT ![s] = "canceled"]
      BY <1>3, <1>4 DEF Runs
    <3>3. made = [run EXCEPT !.step = made.step]
      BY <1>3, <1>4, <3>2 DEF Runs, CanceledSome
    <3> QED BY <1>5, <3>1, <3>2, <3>3
  <2>2. /\ local \in Locals /\ local.copy = made /\ local.op = proc[p].op /\ local.base = run
        /\ local.definition = proc[p].definition
    BY <1>1, <1>3, <1>4, <2>1 DEF Locals
  <2>3. CanceledSome(run, made)
    BY <1>4, <1>5, <2>1 DEF CanceledSome
  <2>4. Settled(made)'
    <3> SUFFICES ASSUME NEW t \in Steps, run.step[t] \in StepActive, made.step[t] \in StepTerminal
                 PROVE  /\ ~Executing(t)'
                        /\ made.step[t] = "completed" /\ meddling' = 0 => sessions'[t].task # "none"
      BY <1>6 DEF Settled
    <3>1. CASE t = s
      BY <1>8, <2>1, <3>1 DEF Executing
    <3>2. CASE t # s
      <4>1. Executing(t)' = Executing(t)
        BY <1>6, <3>2 DEF Executing
      <4> QED BY <1>4, <1>6, <2>1, <3>2, <4>1 DEF Settled
    <3> QED BY <3>1, <3>2
  <2>5. CanceledSome(run', made)
    BY <1>6, <2>3
  <2> QED BY <1>3, <1>4, <1>6, <1>8, <2>2, <2>4, <2>5, CancelsNext
<1> QED BY <1>6, <1>7, <1>8

LEMMA CleanStepPreserves ==
  ASSUME IInv, NEW p \in Procs, CleanStep(p)
  PROVE  IInv'
<1>1. PICK copy : copy = proc[p].copy
  OBVIOUS
<1>2. PICK s \in Uncleaned(copy) :
        Remove(p, s, "compute", CleanNext([proc[p] EXCEPT !.copy.cleaned = @ \cup {s}, !.changed = TRUE]))
  BY <1>1 DEF CleanStep
<1>3. PICK local, made, next :
        /\ local = [proc[p] EXCEPT !.copy.cleaned = @ \cup {s}, !.changed = TRUE]
        /\ made = [copy EXCEPT !.cleaned = @ \cup {s}] /\ next = CleanNext(local)
  OBVIOUS
<1>4. /\ Busy(p) /\ copy \in Runs /\ CleanedSome(run, copy) /\ proc[p] \in Locals
      /\ proc[p].base = run /\ run \in Runs /\ proc[p].op # "none"
      /\ (proc[p].op = "start" => proc[p].definition \in Definitions)
  BY <1>1, AtCall DEF CleanStep, At, Busy, Local, RestTyped
<1>5. /\ s \in Steps /\ run.step[s] = "completed" /\ s # Publishable(run)
      /\ run.state \notin {"none", "deleting"} /\ copy.definition = run.definition
  <2>1. copy.step = run.step /\ copy.definition = run.definition
    BY <1>4 DEF CleanedSome, Runs
  <2> QED BY <1>2, <1>4, <2>1 DEF Uncleaned, Among, CleanedSome, Publishable, Rules
<1>6. /\ RestTyped' /\ Durable' /\ UNCHANGED <<run, server, meddling>>
      /\ Done(p) \/ Step(p, next)
  <2>1. "compute" \in Deletions /\ Remove(p, s, "compute", next) /\ proc[p].copy.definition = run.definition
    BY <1>1, <1>2, <1>3, <1>5 DEF Deletions
  <2>2. ("compute" = "storage" <=> run.state = "deleting") /\ run.step[s] \in StepTerminal
    BY <1>5 DEF StepTerminal
  <2> QED BY <1>4, <1>5, <2>1, <2>2, Removes
<1>7. CASE Done(p)
  BY <1>4, <1>6, <1>7, Returns
<1>8. CASE Step(p, next)
  <2>1. /\ made \in Runs /\ made.step = run.step /\ made.cleaned = copy.cleaned \cup {s}
        /\ made = [run EXCEPT !.cleaned = made.cleaned]
    BY <1>3, <1>4, <1>5 DEF Runs, CleanedSome
  <2>2. /\ local \in Locals /\ local.copy = made /\ local.op = proc[p].op /\ local.base = run
        /\ local.definition = proc[p].definition /\ local.changed
    BY <1>1, <1>3, <1>4, <2>1 DEF Locals
  <2>3. CleanedSome(run, made)
    BY <1>4, <1>5, <2>1 DEF CleanedSome
  <2>4. Go(p, CleanNext(local))
    <3>1. CleanNext(local).pc \in {"clean", "savecleaned"}
      BY <2>2 DEF CleanNext, Locals
    <3>2. CleanNext(local) # Idle
      BY <3>1 DEF Idle
    <3> QED BY <1>3, <1>8, <3>2 DEF Go
  <2>5. CleanedSome(run', made)
    BY <1>6, <2>3
  <2> QED BY <1>4, <1>6, <2>2, <2>4, <2>5, CleansNext
<1> QED BY <1>6, <1>7, <1>8

-----------------------------------------------------------------------------
(* Delete                                                                  *)

LEMMA DeletingRow ==
  ASSUME NEW row \in Runs, RowOK(row), Terminal(row), NEW copy \in Runs,
         copy = [row EXCEPT !.state = "deleting"]
  PROVE  /\ RowOK(copy) /\ copy.state = "deleting" /\ copy.step = row.step
         /\ copy.definition = row.definition /\ copy.cancel = row.cancel
<1>1. /\ copy.definition = row.definition /\ copy.cleaned = row.cleaned /\ copy.cancel = row.cancel
      /\ copy.state = "deleting" /\ copy.step = row.step /\ row.state # "none" /\ row.state \in TerminalStates
  BY DEF Runs, Terminal, TerminalStates
<1>2. \A states : Among(copy, states) = Among(row, states)
  BY <1>1 DEF Among
<1>3. Rules(copy) = Rules(row) /\ Publishable(copy) = Publishable(row)
  BY <1>1 DEF Rules, Publishable
<1>4. StepsHaveReasons(copy)
  <2>1. StepsHaveReasons(row)
    BY <1>1 DEF RowOK
  <2> QED BY <1>1, <1>3, <2>1 DEF StepsHaveReasons
<1> QED BY <1>1, <1>2, <1>3, <1>4 DEF RowOK, TerminalStates

LEMMA SaveDeletingPreserves ==
  ASSUME IInv, NEW p \in Procs, SaveDeleting(p)
  PROVE  IInv'
<1>1. PICK copy, next : /\ copy = proc[p].copy
                        /\ next = [proc[p] EXCEPT !.pc = "destroy", !.base = proc[p].copy, !.todo = Steps]
  OBVIOUS
<1>2. /\ Busy(p) /\ copy \in Runs /\ run \in Runs /\ RowOK(run) /\ proc[p] \in Locals
      /\ proc[p].base = run /\ Terminal(run) /\ copy = [run EXCEPT !.state = "deleting"]
      /\ proc[p].op # "none" /\ (proc[p].op = "start" => proc[p].definition \in Definitions)
      /\ \A s \in Steps : SessionOK(s)
  BY <1>1, AtCall DEF SaveDeleting, At, Busy, Local, RestTyped, Durable
<1>3. Update(p, copy, next)
  BY <1>1 DEF SaveDeleting
<1>4. /\ run' = copy /\ UNCHANGED <<sessions, server, meddling>>
      /\ Go(p, next) \/ Done(p)
      /\ Durable' => RestTyped'
  BY <1>2, <1>3, UpdateWrites
<1>5. /\ RowOK(copy) /\ copy.state = "deleting" /\ copy.step = run.step
      /\ copy.definition = run.definition /\ copy.cancel = run.cancel /\ run.state # "none"
  BY <1>2, DeletingRow DEF Terminal, TerminalStates
<1>6. \A s \in Steps : Executing(s) => run.step[s] \in StepActive
  BY <1>2 DEF SessionOK
<1>7. \A s \in Steps : SessionOK(s)'
  BY <1>4, <1>5, <1>6, SessionsFollow
<1>8. Durable' /\ RestTyped'
  BY <1>4, <1>5, <1>7 DEF Durable
<1>9. CASE Done(p)
  BY <1>2, <1>4, <1>8, <1>9, Returns
<1>10. CASE Go(p, next)
  <2>1. /\ next \in Locals /\ next.pc = "destroy" /\ next.op = proc[p].op /\ next.base = copy
        /\ next.copy = copy /\ next.todo = Steps /\ next.definition = proc[p].definition
    BY <1>1, <1>2 DEF Locals, Calls
  <2>2. next # Idle
    BY <2>1 DEF Idle
  <2>3. Step(p, next) /\ proc'[p] = next
    BY <1>10, <2>2, AtCall DEF Go, Step
  <2>4. Steps # {} /\ Steps \ Steps = {}
    <3>1. 1 \in Steps
      OBVIOUS
    <3> QED BY <3>1
  <2>5. Local(p)'
    BY <1>2, <1>4, <1>5, <2>1, <2>3, <2>4 DEF Local
  <2> QED BY <1>2, <1>4, <1>8, <2>1, <2>3, <2>5, GoesOn
<1> QED BY <1>4, <1>9, <1>10

LEMMA DestroyStepPreserves ==
  ASSUME IInv, NEW p \in Procs, DestroyStep(p)
  PROVE  IInv'
<1>1. PICK s, left : s = First(proc[p].todo) /\ left = proc[p].todo \ {s}
  OBVIOUS
<1>2. PICK next : next = [proc[p] EXCEPT !.todo = left, !.pc = IF left = {} THEN "remove" ELSE "destroy"]
  OBVIOUS
<1>3. /\ Busy(p) /\ proc[p].base = run /\ proc[p] \in Locals /\ proc[p].copy = run /\ run.state = "deleting"
      /\ proc[p].op # "none" /\ (proc[p].op = "start" => proc[p].definition \in Definitions)
      /\ proc[p].todo # {} /\ (\A t \in Steps \ proc[p].todo : sessions[t] = NoSession)
      /\ RowOK(run) /\ run \in Runs
  BY AtCall DEF DestroyStep, At, Busy, Local, Durable, RestTyped
<1>4. s \in proc[p].todo /\ s \in Steps
  BY <1>1, <1>3, FirstIsLeast DEF Locals
<1>5. /\ RestTyped' /\ Durable' /\ UNCHANGED <<run, server, meddling>>
      /\ \A t \in Steps \ {s} : sessions'[t] = sessions[t]
      /\ \/ Done(p)
         \/ Step(p, next) /\ sessions'[s] = NoSession
  <2>1. "storage" \in Deletions /\ Remove(p, s, "storage", next) /\ proc[p].copy.definition = run.definition
    BY <1>1, <1>2, <1>3 DEF DestroyStep, Deletions
  <2>2. run.step[s] \in StepTerminal
    BY <1>3, <1>4, RowTypes DEF RowOK, Among, StepStates
  <2>3. "storage" = "storage" <=> run.state = "deleting"
    BY <1>3
  <2> QED BY <1>3, <1>4, <2>1, <2>2, <2>3, Removes
<1>6. CASE Done(p)
  BY <1>3, <1>5, <1>6, Returns
<1>7. CASE Step(p, next) /\ sessions'[s] = NoSession
  <2>1. PICK place \in {"remove", "destroy"} : place = IF left = {} THEN "remove" ELSE "destroy"
    OBVIOUS
  <2>2. left \in SUBSET Steps
    BY <1>1, <1>3 DEF Locals
  <2>3. /\ next \in Locals /\ next.pc = place /\ next.op = proc[p].op /\ next.base = run
        /\ next.copy = run /\ next.todo = left /\ next.definition = proc[p].definition
    BY <1>2, <1>3, <2>1, <2>2 DEF Locals, Calls
  <2>4. \A t \in Steps \ left : sessions'[t] = NoSession
    BY <1>1, <1>3, <1>5, <1>7
  <2>5. place = "remove" => \A t \in Steps : sessions'[t] = NoSession
    BY <2>1, <2>4
  <2>6. place = "destroy" => left # {}
    BY <2>1
  <2>7. proc'[p] = next
    BY <1>7, <2>3, AtCall DEF Step
  <2>8. Local(p)'
    BY <1>3, <1>5, <2>1, <2>3, <2>4, <2>5, <2>6, <2>7 DEF Local
  <2> QED BY <1>3, <1>5, <1>7, <2>3, <2>8, GoesOn
<1> QED BY <1>5, <1>6, <1>7

LEMMA RemoveRunPreserves ==
  ASSUME IInv, NEW p \in Procs, RemoveRun(p)
  PROVE  IInv'
<1>1. /\ Busy(p) /\ RestTyped /\ run' = NoRun /\ UNCHANGED <<sessions, server, meddling>>
      /\ faults' \in 0..MaxFaults /\ Done(p) /\ (\A s \in Steps : sessions[s] = NoSession)
  BY AtCall DEF RemoveRun, ReplyLast, At, Busy, RestTyped, Local
<1>2. RowOK(NoRun)
  BY DEF RowOK, NoRun, TerminalStates
<1>3. ASSUME NEW s \in Steps PROVE SessionOK(s)'
  BY <1>1, SessionTypes DEF SessionOK, Executing, NoRun
<1>4. RestTyped' /\ Durable'
  BY <1>1, <1>2, <1>3, IdleIsLocal DEF RestTyped, Durable
<1> QED BY <1>1, <1>4, Returns

LEMMA CallFailsPreserves ==
  ASSUME IInv, NEW p \in Procs, CallFails(p)
  PROVE  IInv'
<1>1. /\ Busy(p) /\ Done(p) /\ UNCHANGED <<run, sessions, server, meddling>> /\ faults' \in 0..MaxFaults
  BY AtCall DEF CallFails, Busy, Calls
<1> QED BY <1>1, ReadReturns

-----------------------------------------------------------------------------
(* Crash, restart and the environment                                      *)

LEMMA CrashPreserves ==
  ASSUME IInv, Crash
  PROVE  IInv'
<1>1. /\ proc' = [p \in Procs |-> Idle] /\ lock' = Free /\ server' = "down" /\ faults' \in 0..MaxFaults
      /\ UNCHANGED <<run, sessions, meddling>>
  BY DEF Crash, Fault, IInv, TypeOK
<1>2. TypeOK'
  BY <1>1, IdleIsLocal DEF IInv, TypeOK
<1>3. Exclusive'
  BY <1>1 DEF Exclusive, Busy, Idle
<1>4. \A p \in Procs : Local(p)'
  BY <1>1 DEF Local, Idle
<1>5. Durable'
  BY <1>1, ReadOnly
<1> QED BY <1>2, <1>3, <1>4, <1>5 DEF IInv

LEMMA RestartPreserves ==
  ASSUME IInv, Restart
  PROVE  IInv'
<1>1. /\ \A p \in Procs : proc[p].pc = "idle"
      /\ server' = "up" /\ UNCHANGED <<run, lock, proc, meddling>>
      /\ run \in Runs /\ RowOK(run) /\ \A s \in Steps : SessionOK(s) /\ sessions[s] \in Sessions
  BY DEF Restart, IInv, Exclusive, TypeOK, Durable
<1>2. faults' \in 0..MaxFaults
  BY DEF Restart, Fault, IInv, TypeOK
<1>3. ASSUME NEW s \in Steps
      PROVE  /\ s \in DOMAIN sessions'
             /\ \/ sessions'[s] = sessions[s]
                \/ /\ sessions[s].deletion # "none" /\ sessions[s].task \notin TaskUnlaunched
                   /\ sessions'[s] = Deleted(sessions[s], sessions[s].deletion, Ephemeral(run, s))
  BY DEF Restart
<1>4. ASSUME NEW s \in Steps PROVE sessions'[s] \in Sessions /\ SessionOK(s)'
  <2>1. CASE sessions'[s] = sessions[s]
    <3>1. Executing(s)' = Executing(s) /\ Ephemeral(run, s)' = Ephemeral(run, s) /\ Rules(run)' = Rules(run)
      BY <1>1, <2>1 DEF Executing, Ephemeral, Rules
    <3> QED BY <1>1, <2>1, <3>1 DEF SessionOK
  <2>2. CASE /\ sessions[s].deletion # "none" /\ sessions[s].task \notin TaskUnlaunched
             /\ sessions'[s] = Deleted(sessions[s], sessions[s].deletion, Ephemeral(run, s))
    <3>1. PICK session, kind, ephemeral, outcome :
            /\ session = sessions[s] /\ kind = sessions[s].deletion
            /\ ephemeral = Ephemeral(run, s) /\ outcome = sessions'[s]
      OBVIOUS
    <3>2. /\ session \in Sessions /\ kind \in Deletions /\ ephemeral \in BOOLEAN
          /\ session.task = "none" => session = NoSession
      BY <1>1, <2>2, <3>1, SessionTypes DEF SessionOK, Ephemeral
    <3>3. outcome = Deleted(session, kind, ephemeral) /\ DeleteSucceeds(session, kind)
      BY <2>2, <3>1 DEF DeleteSucceeds, Refuses
    <3>4. /\ outcome \in Sessions
          /\ outcome.task = "none" => outcome = NoSession
          /\ outcome # NoSession => session # NoSession
      BY <3>2, <3>3, DeletedSession DEF Removals
    <3>5. /\ outcome.task \notin {"recorded", "active"} /\ outcome.deletion = "none"
          /\ outcome.task = "none" => session.task = "none" \/ kind = "storage" \/ ephemeral
      BY <3>2, <3>3, DeletionSucceeds
    <3>6. ~Executing(s)' /\ Ephemeral(run, s)' = Ephemeral(run, s) /\ Rules(run)' = Rules(run)
      BY <1>1, <3>1, <3>5 DEF Executing, Ephemeral, Rules
    <3>7. SessionOK(s)'
      <4>1. SessionOK(s)
        BY <1>1
      <4> QED BY <1>1, <3>1, <3>4, <3>5, <3>6, <4>1 DEF SessionOK
    <3> QED BY <3>1, <3>4, <3>7
  <2> QED BY <1>3, <2>1, <2>2
<1>5. sessions' \in [Steps -> Sessions]
  <2>1. sessions' = [s \in Steps |-> sessions'[s]]
    BY DEF Restart
  <2> QED BY <1>4, <2>1
<1>6. TypeOK'
  BY <1>1, <1>2, <1>5 DEF IInv, TypeOK
<1>7. Durable'
  BY <1>1, <1>4 DEF Durable
<1>8. \A p \in Procs : Local(p)'
  BY <1>1 DEF Local
<1>9. Exclusive'
  BY <1>1 DEF Exclusive, Busy
<1> QED BY <1>6, <1>7, <1>8, <1>9 DEF IInv

\* Sessions move under the operations' feet, and spoil nothing they know.
LEMMA SessionsAlone ==
  ASSUME IInv, UNCHANGED <<run, lock, server, faults, proc>>, meddling' = 0 => meddling = 0,
         meddling' \in 0..MaxMeddling, sessions' \in [Steps -> Sessions],
         \A s \in Steps : /\ SessionOK(s)'
                          /\ Executing(s)' => Executing(s)
                          /\ sessions[s] = NoSession => sessions'[s] = NoSession
                          /\ meddling' = 0 /\ sessions[s].task # "none" => sessions'[s].task # "none"
  PROVE  IInv'
<1>1. TypeOK'
  BY DEF IInv, TypeOK
<1>2. Exclusive'
  BY DEF IInv, Exclusive, Busy
<1>3. Durable'
  <2>1. RowOK(run)'
    BY DEF IInv, Durable, RowOK, StepsHaveReasons, Rules, Publishable, Among
  <2> QED BY <2>1 DEF Durable
<1>4. ASSUME NEW p \in Procs PROVE Local(p)'
  <2>1. PICK copy : copy = proc[p].copy
    OBVIOUS
  <2>2. Settled(copy) => Settled(copy)'
    BY DEF Settled
  <2>3. Local(p) /\ proc'[p] = proc[p]
    BY DEF IInv
  <2>4. run' = run /\ Terminal(run)' = Terminal(run)
    BY DEF Terminal
  <2> QED BY <2>1, <2>2, <2>3, <2>4 DEF Local
<1> QED BY <1>1, <1>2, <1>3, <1>4 DEF IInv

LEMMA TaskEndsPreserves ==
  ASSUME IInv, NEW s \in Steps, TaskEnds(s)
  PROVE  IInv'
<1>1. /\ UNCHANGED <<run, lock, server, faults, proc, meddling>> /\ meddling' \in 0..MaxMeddling
      /\ sessions[s] \in Sessions /\ sessions \in [Steps -> Sessions] /\ SessionOK(s)
  BY DEF TaskEnds, environment, IInv, TypeOK, Durable
<1>2. PICK result \in TaskResults :
        sessions[s].task \in TaskActive /\ sessions' = [sessions EXCEPT ![s].task = result]
  BY DEF TaskEnds, TaskResults, TaskActive
<1>3. PICK session : session = [sessions[s] EXCEPT !.task = result]
  OBVIOUS
<1>4. /\ session \in Sessions /\ session.task = result /\ session.deletion = sessions[s].deletion
      /\ session.task \notin {"none", "recorded", "active"} /\ sessions[s] # NoSession
      /\ sessions' = [sessions EXCEPT ![s] = session]
  BY <1>1, <1>2, <1>3 DEF Sessions, TaskStates, TaskOver, TaskResults, TaskActive, NoSession
<1>5. meddling' = 0 =>
        /\ run.state # "deleting" => session.deletion # "storage"
        /\ session.deletion # "none" => run.step[s] \in StepTerminal \/ run.cancel
  BY <1>1, <1>4 DEF SessionOK
<1>6. /\ sessions' \in [Steps -> Sessions] /\ sessions'[s] = session
      /\ \A t \in Steps \ {s} : sessions'[t] = sessions[t]
      /\ \A t \in Steps : SessionOK(t)'
  BY <1>1, <1>4, <1>5, SessionMoves
<1>7. ASSUME NEW t \in Steps
      PROVE  /\ Executing(t)' => Executing(t)
             /\ sessions[t] = NoSession => sessions'[t] = NoSession
             /\ sessions[t].task # "none" => sessions'[t].task # "none"
  BY <1>4, <1>6 DEF Executing
<1> QED BY <1>1, <1>6, <1>7, SessionsAlone

LEMMA MeddlePreserves ==
  ASSUME IInv, NEW s \in Steps, Meddle(s)
  PROVE  IInv'
<1>1. /\ UNCHANGED <<run, lock, server, faults, proc>> /\ meddling' \in 1..MaxMeddling
      /\ sessions[s] \in Sessions /\ sessions \in [Steps -> Sessions] /\ SessionOK(s)
      /\ sessions[s].task # "none" /\ sessions[s] # NoSession
  BY DEF Meddle, IInv, TypeOK, Durable, NoSession
<1>2. PICK session \in Sessions :
        /\ sessions' = [sessions EXCEPT ![s] = session]
        /\ session.task = "none" => session = NoSession
        /\ session.task \in {"recorded", "active"} => session.task = sessions[s].task
  <2>1. CASE \E kind \in Deletions : \E outcome \in DeleteFailed(sessions[s], kind, Ephemeral(run, s)) :
               sessions' = [sessions EXCEPT ![s] = outcome]
    <3>1. PICK kind \in Deletions : \E outcome \in DeleteFailed(sessions[s], kind, Ephemeral(run, s)) :
                                      sessions' = [sessions EXCEPT ![s] = outcome]
      BY <2>1
    <3>2. PICK before, ephemeral : before = sessions[s] /\ ephemeral = Ephemeral(run, s)
      OBVIOUS
    <3>3. PICK outcome \in DeleteFailed(before, kind, ephemeral) : sessions' = [sessions EXCEPT ![s] = outcome]
      BY <3>1, <3>2
    <3>4. before \in Sessions /\ before.task # "none" /\ ephemeral \in BOOLEAN
      BY <1>1, <3>2 DEF Ephemeral
    <3>5. /\ outcome \in Sessions
          /\ outcome.task = "none" => outcome = NoSession
          /\ outcome.task \in {before.task, "none", "canceled"}
      BY <3>3, <3>4, DeletedSession DEF Removals
    <3> QED BY <3>2, <3>3, <3>5
  <2>2. CASE \E task \in {"readded", "again"} : sessions' = [sessions EXCEPT ![s].task = task]
    <3>1. PICK task \in {"readded", "again"} : sessions' = [sessions EXCEPT ![s].task = task]
      BY <2>2
    <3>2. PICK session : session = [sessions[s] EXCEPT !.task = task]
      OBVIOUS
    <3>3. session \in Sessions /\ session.task = task /\ sessions' = [sessions EXCEPT ![s] = session]
      BY <1>1, <3>1, <3>2 DEF Sessions, TaskStates, TaskUnlaunched, TaskActive
    <3> QED BY <3>3
  <2> QED BY <2>1, <2>2 DEF Meddle
<1>3. Executing(s) => run.step[s] \in StepActive
  BY <1>1 DEF SessionOK
<1>4. /\ sessions' \in [Steps -> Sessions] /\ sessions'[s] = session
      /\ \A t \in Steps \ {s} : sessions'[t] = sessions[t]
      /\ \A t \in Steps : SessionOK(t)'
  <2>1. session.task \in {"recorded", "active"} => run.step[s] \in StepActive
    BY <1>2, <1>3 DEF Executing
  <2>2. meddling' # 0 /\ run' = run
    BY <1>1
  <2> QED BY <1>1, <1>2, <2>1, <2>2, SessionMoves
<1>5. ASSUME NEW t \in Steps
      PROVE  /\ Executing(t)' => Executing(t)
             /\ sessions[t] = NoSession => sessions'[t] = NoSession
  BY <1>1, <1>2, <1>4 DEF Executing
<1> QED BY <1>1, <1>4, <1>5, SessionsAlone

-----------------------------------------------------------------------------
(* The invariant                                                           *)

LEMMA InitEstablishes ==
  ASSUME Init
  PROVE  IInv
<1>1. run = NoRun /\ run.state = "none" /\ meddling = 0 /\ server = "up"
  BY DEF Init, NoRun
<1>2. /\ \A s \in Steps : sessions[s] = NoSession
      /\ \A p \in Procs : proc[p] = Idle /\ proc[p].pc = "idle"
  BY DEF Init, Idle
<1>3. TypeOK
  BY IdleIsLocal, SessionTypes DEF Init, TypeOK
<1>4. Exclusive
  BY <1>1, <1>2 DEF Exclusive, Busy
<1>5. RowOK(run)
  BY <1>1 DEF RowOK, TerminalStates
<1>6. \A s \in Steps : SessionOK(s)
  BY <1>1, <1>2, SessionTypes DEF SessionOK, Executing
<1>7. \A p \in Procs : Local(p)
  BY <1>2 DEF Local
<1> QED BY <1>3, <1>4, <1>5, <1>6, <1>7 DEF IInv, Durable

LEMMA WorkPreserves ==
  ASSUME IInv, NEW p \in Procs, Work(p)
  PROVE  IInv'
BY LoadPreserves, CreatePreserves, SavePreserves, StartStepPreserves, StatusOfPreserves, ArtifactsOfPreserves,
   CancelStepPreserves, SaveCanceledPreserves, CleanStepPreserves, SaveCleanedPreserves,
   SaveDeletingPreserves, DestroyStepPreserves, RemoveRunPreserves DEF Work

LEMMA StutterPreserves ==
  ASSUME IInv, UNCHANGED vars
  PROVE  IInv'
<1>1. UNCHANGED <<run, sessions, lock, server, proc, faults, meddling>>
  BY DEF vars, environment
<1>2. TypeOK' /\ Exclusive'
  BY <1>1 DEF IInv, TypeOK, Exclusive, Busy
<1>3. \A p \in Procs : Local(p)'
  BY <1>1, LocalStays
<1> QED BY <1>1, <1>2, <1>3, ReadOnly DEF IInv

LEMMA NextPreserves ==
  ASSUME IInv, [Next]_vars
  PROVE  IInv'
<1>1. CASE UNCHANGED vars
  BY <1>1, StutterPreserves
<1>2. CASE Next
  BY <1>2, RequestPreserves, TickPreserves, AcquirePreserves, WorkPreserves, CallFailsPreserves,
     CrashPreserves, RestartPreserves, TaskEndsPreserves, MeddlePreserves DEF Next
<1> QED BY <1>1, <1>2

\* The invariant holds in every reachable state: what an operation knows of the
\* run while it calls is true until it returns, whoever crashes or meddles.
THEOREM InductiveInvariant == Spec => []IInv
<1>1. Init => IInv
  BY InitEstablishes
<1>2. IInv /\ [Next]_vars => IInv'
  BY NextPreserves
<1> QED BY <1>1, <1>2, PTL DEF Spec

-----------------------------------------------------------------------------
(* What the invariant says                                                 *)

\* Every variable has its type (TypeOK).
THEOREM TypeCorrect == Spec => []TypeOK
BY InductiveInvariant, PTL DEF IInv

LEMMA SavesFollow ==
  ASSUME IInv
  PROVE  SavesAreCurrent
BY DEF IInv, Local, SavesAreCurrent

\* Between the read of the row and every call and write of an operation, nobody
\* else writes it: the optimistic lock of the table never conflicts in one
\* server (SavesAreCurrent).
THEOREM SavesCurrent == Spec => []SavesAreCurrent
BY InductiveInvariant, SavesFollow, PTL

LEMMA WorkFollows ==
  ASSUME IInv
  PROVE  WorkIsRecorded
<1>1. run \in Runs /\ RowOK(run) /\ \A s \in Steps : SessionOK(s)
  BY DEF IInv, TypeOK, Durable
<1>2. ASSUME NEW s \in Steps, Executing(s) PROVE run.state = "running" /\ run.step[s] \in StepActive
  <2>1. run.step[s] \in StepActive
    BY <1>1, <1>2 DEF SessionOK
  <2>2. run.state \notin TerminalStates \cup {"deleting"}
    BY <1>1, <2>1 DEF RowOK, Among
  <2>3. run.state # "pending"
    BY <1>1, <2>1 DEF RowOK, StepActive
  <2>4. run.state # "none"
    BY <1>1, <2>1 DEF RowOK, NoRun, StepActive
  <2> QED BY <1>1, <2>1, <2>2, <2>3, <2>4, RowTypes DEF RunStates
<1> DEFINE Working == {s \in Steps : Executing(s)}
<1>3. CASE run.state = "none"
  <2>1. Working = {}
    BY <1>2, <1>3
  <2>2. Cardinality(Working) = 0
    BY <2>1, FS_EmptySet
  <2> QED BY <1>2, <1>3, <2>2 DEF WorkIsRecorded
<1>4. CASE run.state # "none"
  <2>1. Working \in SUBSET Among(run, StepActive) /\ Among(run, StepActive) \in SUBSET Steps
    BY <1>2 DEF Among
  <2>2. Cardinality(Working) <= Cardinality(Among(run, StepActive)) /\ Working \in SUBSET Steps
    BY <2>1, SetsOfSteps
  <2>3. Cardinality(Working) \in Int /\ Cardinality(Among(run, StepActive)) \in Int
    BY <2>1, <2>2, SetsOfSteps
  <2>4. Cardinality(Among(run, StepActive)) <= Rules(run).parallelism /\ Rules(run).parallelism \in Int
    BY <1>1, <1>4, DefinitionFacts DEF RowOK, Rules
  <2>5. Cardinality(Working) <= Rules(run).parallelism
    BY <2>2, <2>3, <2>4
  <2> QED BY <1>2, <1>4, <2>5 DEF WorkIsRecorded
<1> QED BY <1>3, <1>4

\* An agent works only for a step that the row of a running run has as started,
\* and there are never more of them than the workflow's limit (WorkIsRecorded).
THEOREM WorkRecorded == Spec => []WorkIsRecorded
BY InductiveInvariant, WorkFollows, PTL

LEMMA InputsFollow ==
  ASSUME IInv
  PROVE  InputsAreReady
<1>1. run \in Runs /\ RowOK(run) /\ \A s \in Steps : SessionOK(s)
  BY DEF IInv, TypeOK, Durable
<1> SUFFICES ASSUME NEW s \in Steps
             PROVE  /\ sessions[s].task # "none" => \A d \in Rules(run).after[s] : run.step[d] = "completed"
                    /\ Executing(s) /\ Rules(run).source[s] # NoStep /\ meddling = 0 =>
                         sessions[Rules(run).source[s]].task # "none"
  BY DEF InputsAreReady
<1>2. sessions[s].task # "none" =>
        run.state # "none" /\ \A d \in Rules(run).after[s] : run.step[d] = "completed"
  BY <1>1, SessionTypes DEF SessionOK
<1>3. ASSUME Executing(s), Rules(run).source[s] # NoStep, meddling = 0
      PROVE  sessions[Rules(run).source[s]].task # "none"
  <2>1. PICK t : t = Rules(run).source[s]
    OBVIOUS
  <2>2. run.state = "running" /\ run.definition \in Definitions
    BY <1>1, <1>3, WorkFollows DEF WorkIsRecorded, RowOK
  <2>3. t \in Steps /\ t \in Rules(run).after[s] /\ ~Ephemeral(run, t)
    BY <1>3, <2>1, <2>2, DefinitionFacts DEF Rules, Ephemeral
  <2>4. run.step[t] = "completed"
    BY <1>2, <1>3, <2>3 DEF Executing
  <2>5. SessionOK(t)
    BY <1>1, <2>3
  <2> QED BY <1>3, <2>1, <2>2, <2>3, <2>4, <2>5 DEF SessionOK
<1> QED BY <1>2, <1>3

\* A step gets an agent only when the results it depends on are in the row and
\* the volume it takes its change from exists (InputsAreReady).
THEOREM InputsReady == Spec => []InputsAreReady
BY InductiveInvariant, InputsFollow, PTL

LEMMA NothingOutlivesFollows ==
  ASSUME IInv
  PROVE  NothingOutlivesRun
BY DEF IInv, Durable, SessionOK, NothingOutlivesRun

\* A deleted run leaves no session behind, however often its deletion was cut
\* short and repeated (NothingOutlivesRun).
THEOREM NothingOutlives == Spec => []NothingOutlivesRun
BY InductiveInvariant, NothingOutlivesFollows, PTL

LEMMA SkipsFollow ==
  ASSUME IInv
  PROVE  SkipsAreCaused
<1>1. RowOK(run) /\ \A s \in Steps : SessionOK(s)
  BY DEF IInv, Durable
<1>2. ASSUME run.state # "none", NEW s \in Steps, run.step[s] = "skipped"
      PROVE  sessions[s] = NoSession /\ \E d \in Rules(run).after[s] : run.step[d] \in StepFailures
  <2>1. sessions[s] = NoSession
    BY <1>1, <1>2 DEF SessionOK
  <2>2. StepsHaveReasons(run)
    BY <1>1, <1>2 DEF RowOK
  <2> QED BY <1>2, <2>1, <2>2 DEF StepsHaveReasons
<1>3. Terminal(run) => Among(run, {"pending"} \cup StepActive) = {}
  BY <1>1 DEF RowOK, Terminal
<1>4. run.state = "completed" => Among(run, {"completed"}) = Steps
  BY <1>1 DEF RowOK
<1> QED BY <1>2, <1>3, <1>4 DEF SkipsAreCaused

\* A skipped step had a failed dependency and never had a session; a run that is
\* over has no unfinished step, and a completed one only completed steps
\* (SkipsAreCaused).
THEOREM SkipsCaused == Spec => []SkipsAreCaused
BY InductiveInvariant, SkipsFollow, PTL

-----------------------------------------------------------------------------
(* What a step does to a session                                           *)

LEMMA RemoveMoves ==
  ASSUME IInv, NEW p \in Procs, NEW s \in Steps, NEW kind \in Deletions, NEW local,
         Remove(p, s, kind, local), proc[p].copy.definition = run.definition
  PROVE  /\ \A t \in Steps \ {s} : sessions'[t] = sessions[t]
         /\ sessions'[s] \in Removals(sessions[s], kind, Ephemeral(run, s))
<1>1. sessions \in [Steps -> Sessions] /\ Ephemeral(proc[p].copy, s) = Ephemeral(run, s)
  BY DEF IInv, TypeOK, Ephemeral, Rules
<1> DEFINE ephemeral == Ephemeral(proc[p].copy, s)
<1>2. CASE DeleteSucceeds(sessions[s], kind)
           /\ sessions' = [sessions EXCEPT ![s] = Deleted(sessions[s], kind, ephemeral)]
  BY <1>1, <1>2 DEF Removals
<1>3. CASE \E outcome \in DeleteFailed(sessions[s], kind, ephemeral) : sessions' = [sessions EXCEPT ![s] = outcome]
  BY <1>1, <1>3 DEF Removals
<1>4. CASE ~DeleteSucceeds(sessions[s], kind)
           /\ sessions' = [sessions EXCEPT ![s] =
                             IF Refuses(sessions[s], kind) THEN sessions[s] ELSE Marked(sessions[s], kind)]
  BY <1>1, <1>4 DEF Removals
<1> QED BY <1>2, <1>3, <1>4 DEF Remove

\* The reconciler and Delete remove the sessions of steps that are over in the
\* row, or that a cancellation ends.
LEMMA RemovesWhenOver ==
  ASSUME IInv, NEW p \in Procs, CancelStep(p) \/ CleanStep(p) \/ DestroyStep(p)
  PROVE  \E s \in Steps, kind \in Deletions :
           /\ \A t \in Steps \ {s} : sessions'[t] = sessions[t]
           /\ sessions'[s] \in Removals(sessions[s], kind, Ephemeral(run, s))
           /\ run.step[s] \in StepTerminal \/ run.cancel
<1>1. /\ Local(p) /\ proc[p] \in Locals /\ proc[p].copy \in Runs /\ run \in Runs /\ RowOK(run)
      /\ "compute" \in Deletions /\ "storage" \in Deletions
  BY AtCall DEF RestTyped, Durable, Deletions
<1>2. CASE CancelStep(p)
  <2>1. PICK s \in Among(proc[p].copy, StepActive) : \E local : Remove(p, s, "compute", local)
    BY <1>2 DEF CancelStep
  <2>2. PICK local : Remove(p, s, "compute", local)
    BY <2>1
  <2>3. CanceledSome(run, proc[p].copy)
    BY <1>1, <1>2 DEF CancelStep, At, Local
  <2>4. s \in Steps /\ run.cancel /\ proc[p].copy.definition = run.definition
    BY <1>1, <2>1, <2>3 DEF Among, CanceledSome, Runs
  <2> QED BY <1>1, <2>2, <2>4, RemoveMoves
<1>3. CASE CleanStep(p)
  <2>1. PICK s \in Uncleaned(proc[p].copy) : \E local : Remove(p, s, "compute", local)
    BY <1>3 DEF CleanStep
  <2>2. PICK local : Remove(p, s, "compute", local)
    BY <2>1
  <2>3. CleanedSome(run, proc[p].copy)
    BY <1>1, <1>3 DEF CleanStep, At, Local
  <2>4. proc[p].copy.step = run.step /\ proc[p].copy.definition = run.definition
    BY <1>1, <2>3 DEF CleanedSome, Runs
  <2>5. s \in Steps /\ run.step[s] \in StepTerminal
    BY <2>1, <2>4 DEF Uncleaned, Among, StepTerminal
  <2> QED BY <1>1, <2>2, <2>4, <2>5, RemoveMoves
<1>4. CASE DestroyStep(p)
  <2>1. PICK s : s = First(proc[p].todo)
    OBVIOUS
  <2>2. PICK local : Remove(p, s, "storage", local)
    BY <1>4, <2>1 DEF DestroyStep
  <2>3. proc[p].copy = run /\ run.state = "deleting" /\ proc[p].todo # {}
    BY <1>1, <1>4 DEF DestroyStep, At, Local
  <2>4. s \in Steps
    BY <1>1, <2>1, <2>3, FirstIsLeast DEF Locals
  <2>5. run.step[s] \in StepTerminal
    BY <1>1, <2>3, <2>4, RowTypes DEF RowOK, Among, StepStates
  <2> QED BY <1>1, <2>2, <2>3, <2>4, <2>5, RemoveMoves
<1> QED BY <1>2, <1>3, <1>4

\* Everything that a step can do to the session of s.
LEMMA SessionChanges ==
  ASSUME IInv, Next, NEW s \in Steps, sessions'[s] # sessions[s]
  PROVE  \/ sessions'[s] \in StartFailed(sessions[s]) \cup {Started(sessions[s])}
         \/ /\ \E kind \in Deletions : sessions'[s] \in Removals(sessions[s], kind, Ephemeral(run, s))
            /\ run.step[s] \in StepTerminal \/ run.cancel
         \/ /\ sessions[s].deletion # "none" /\ DeleteSucceeds(sessions[s], sessions[s].deletion)
            /\ sessions'[s] = Deleted(sessions[s], sessions[s].deletion, Ephemeral(run, s))
            /\ run' = run /\ meddling' = meddling
         \/ /\ sessions[s].task = "active"
            /\ \E result \in {"completed", "blocked", "failed"} : sessions'[s] = [sessions[s] EXCEPT !.task = result]
         \/ /\ sessions[s].task = "again"
            /\ \E result \in {"continued", "blocked", "failed"} : sessions'[s] = [sessions[s] EXCEPT !.task = result]
         \/ /\ \E kind \in Deletions : sessions'[s] \in Removals(sessions[s], kind, Ephemeral(run, s))
            /\ meddling' > 0
         \/ /\ sessions[s].task \in TaskOver /\ sessions[s].deletion = "none" /\ ~Ephemeral(run, s)
            /\ \E task \in {"readded", "again"} : sessions'[s] = [sessions[s] EXCEPT !.task = task]
            /\ meddling' > 0
<1>1. sessions \in [Steps -> Sessions] /\ meddling \in Nat
  BY DEF IInv, TypeOK
<1>2. ASSUME NEW p \in Procs, StartStep(p)
      PROVE  sessions'[s] \in StartFailed(sessions[s]) \cup {Started(sessions[s])}
  <2>1. PICK t : /\ t = First(Among(proc[p].copy, {"starting"}))
                 /\ \E outcome \in StartFailed(sessions[t]) \cup {Started(sessions[t])} :
                      sessions' = [sessions EXCEPT ![t] = outcome]
    <3>1. sessions' # sessions
      OBVIOUS
    <3> QED BY <1>2, <3>1 DEF StartStep
  <2>2. PICK outcome \in StartFailed(sessions[t]) \cup {Started(sessions[t])} :
          sessions' = [sessions EXCEPT ![t] = outcome]
    BY <2>1
  <2>3. s = t
    BY <1>1, <2>2
  <2> QED BY <1>1, <2>2, <2>3
<1>3. ASSUME NEW p \in Procs, CancelStep(p) \/ CleanStep(p) \/ DestroyStep(p)
      PROVE  /\ \E kind \in Deletions : sessions'[s] \in Removals(sessions[s], kind, Ephemeral(run, s))
             /\ run.step[s] \in StepTerminal \/ run.cancel
  BY <1>3, RemovesWhenOver
<1>4. CASE Restart
  <2>1. UNCHANGED <<run, meddling>>
    BY <1>4 DEF Restart
  <2>2. /\ sessions[s].deletion # "none" /\ sessions[s].task \notin TaskUnlaunched
        /\ sessions'[s] = Deleted(sessions[s], sessions[s].deletion, Ephemeral(run, s))
    BY <1>4 DEF Restart
  <2> QED BY <2>1, <2>2 DEF DeleteSucceeds, Refuses
<1>5. ASSUME NEW t \in Steps, TaskEnds(t)
      PROVE  \/ /\ sessions[s].task = "active"
                /\ \E result \in {"completed", "blocked", "failed"} :
                     sessions'[s] = [sessions[s] EXCEPT !.task = result]
             \/ /\ sessions[s].task = "again"
                /\ \E result \in {"continued", "blocked", "failed"} :
                     sessions'[s] = [sessions[s] EXCEPT !.task = result]
  <2>1. s = t
    BY <1>1, <1>5 DEF TaskEnds
  <2> QED BY <1>1, <1>5, <2>1 DEF TaskEnds
<1>6. ASSUME NEW t \in Steps, Meddle(t)
      PROVE  \/ /\ \E kind \in Deletions : sessions'[s] \in Removals(sessions[s], kind, Ephemeral(run, s))
                /\ meddling' > 0
             \/ /\ sessions[s].task \in TaskOver /\ sessions[s].deletion = "none" /\ ~Ephemeral(run, s)
                /\ \E task \in {"readded", "again"} : sessions'[s] = [sessions[s] EXCEPT !.task = task]
                /\ meddling' > 0
  <2>1. meddling' > 0
    BY <1>1, <1>6 DEF Meddle
  <2>2. s = t
    BY <1>1, <1>6 DEF Meddle
  <2> QED BY <1>1, <1>6, <2>1, <2>2 DEF Meddle, Removals
<1>7. ASSUME NEW p \in Procs, Work(p), ~StartStep(p), ~(CancelStep(p) \/ CleanStep(p) \/ DestroyStep(p))
      PROVE  UNCHANGED sessions
  BY <1>7 DEF Work, Load, Create, Save, StatusOf, ArtifactsOf, SaveCanceled, SaveCleaned, SaveDeleting,
              RemoveRun, Update
<1>8. ASSUME NEW p \in Procs, Acquire(p) \/ CallFails(p)
      PROVE  UNCHANGED sessions
  BY <1>8 DEF Acquire, CallFails
<1>9. ASSUME NEW c \in Clients, NEW op, NEW definition, Request(c, op, definition)
      PROVE  UNCHANGED sessions
  BY <1>9 DEF Request
<1>10. Tick \/ Crash => UNCHANGED sessions
  BY DEF Tick, Crash
<1>11. \/ \E p \in Procs : Work(p) \/ Acquire(p) \/ CallFails(p)
       \/ \E c \in Clients, op \in Operations, d \in Definitions \cup {NoDefinition} : Request(c, op, d)
       \/ Tick \/ Crash \/ Restart \/ \E t \in Steps : TaskEnds(t) \/ Meddle(t)
  BY DEF Next
<1>12. ASSUME NEW p \in Procs, Work(p)
       PROVE  StartStep(p) \/ CancelStep(p) \/ CleanStep(p) \/ DestroyStep(p)
  BY <1>7, <1>12
<1>13. \/ \E p \in Procs : StartStep(p) \/ CancelStep(p) \/ CleanStep(p) \/ DestroyStep(p)
       \/ Restart \/ \E t \in Steps : TaskEnds(t) \/ Meddle(t)
  BY <1>8, <1>9, <1>10, <1>11, <1>12
<1>14. CASE \E p \in Procs : StartStep(p) \/ CancelStep(p) \/ CleanStep(p) \/ DestroyStep(p)
  BY <1>2, <1>3, <1>14
<1>15. CASE \E t \in Steps : TaskEnds(t) \/ Meddle(t)
  BY <1>5, <1>6, <1>15
<1> QED BY <1>4, <1>13, <1>14, <1>15

LEMMA ResultsKept ==
  ASSUME IInv, [Next]_vars, NEW s \in Steps, sessions[s].task \in TaskResults,
         sessions'[s].task # sessions[s].task
  PROVE  run.step[s] \in StepTerminal \/ run.cancel \/ meddling' > 0
<1>1. sessions[s] \in Sessions /\ SessionOK(s) /\ meddling \in Nat
  BY DEF IInv, TypeOK, Durable
<1>2. Next /\ sessions'[s] # sessions[s]
  BY DEF vars
<1>3. CASE sessions'[s] \in StartFailed(sessions[s]) \cup {Started(sessions[s])}
  <2>1. PICK session, outcome : session = sessions[s] /\ outcome = sessions'[s]
    OBVIOUS
  <2>2. session.task \in {"none"} \cup TaskUnlaunched
    BY <1>1, <1>3, <2>1, StartedSession
  <2> QED BY <2>1, <2>2 DEF TaskResults, TaskUnlaunched
<1>4. CASE sessions[s].deletion # "none" /\ run' = run /\ meddling' = meddling
  <2>1. meddling = 0 => run.step[s] \in StepTerminal \/ run.cancel
    BY <1>1, <1>4 DEF SessionOK
  <2> QED BY <1>1, <1>4, <2>1
<1> QED BY <1>2, <1>3, <1>4, SessionChanges DEF TaskResults

\* A result that a session has is given up only after the row has recorded it,
\* or a cancellation or a client made it pointless (ResultsAreCollected).
THEOREM ResultsCollected == Spec => ResultsAreCollected
<1> DEFINE Kept == \A s \in Steps :
                     sessions[s].task \in TaskResults /\ sessions'[s].task # sessions[s].task
                       => run.step[s] \in StepTerminal \/ run.cancel \/ meddling' > 0
<1>1. IInv /\ [Next]_vars => [Kept]_vars
  BY ResultsKept
<1> QED BY <1>1, InductiveInvariant, PTL DEF Spec, ResultsAreCollected

-----------------------------------------------------------------------------
(* Sessions do what SessionService lets them do.                           *)

LEMMA ThreeSteps ==
  ASSUME NEW ephemeral, NEW a \in Sessions, NEW b \in Sessions, NEW c \in Sessions, NEW d \in Sessions,
         a = b \/ Becomes(a, b, ephemeral), b = c \/ Becomes(b, c, ephemeral),
         c = d \/ Becomes(c, d, ephemeral)
  PROVE  d \in InThreeSteps(a, ephemeral)
<1>1. b \in InOneStep({a}, ephemeral)
  BY DEF InOneStep
<1>2. c \in InOneStep(InOneStep({a}, ephemeral), ephemeral)
  BY <1>1 DEF InOneStep
<1> QED BY <1>2 DEF InOneStep, InThreeSteps

LEMMA StartBehaves ==
  ASSUME NEW session \in Sessions, session.task = "none" => session = NoSession, NEW ephemeral,
         NEW outcome \in StartFailed(session) \cup {Started(session)}
  PROVE  outcome \in InThreeSteps(session, ephemeral)
<1>1. PICK recorded : recorded = [session EXCEPT !.task = "recorded"]
  OBVIOUS
<1>2. /\ recorded \in Sessions /\ outcome \in Sessions
      /\ session.task = "none" => Becomes(session, recorded, ephemeral)
  BY <1>1, StartedSession DEF Sessions, TaskStates, TaskUnlaunched, Becomes, Records
<1>3. CASE outcome = session
  BY <1>3, ThreeSteps
<1>4. CASE outcome = Started(session) /\ session.task = "none"
  <2>1. outcome.task = "active" /\ outcome.deletion = recorded.deletion /\ recorded.task = "recorded"
    BY <1>1, <1>4 DEF Started, Sessions
  <2>2. Becomes(recorded, outcome, ephemeral)
    BY <2>1 DEF Becomes, Moves, TaskMoves
  <2> QED BY <1>2, <1>4, <2>2, ThreeSteps
<1>5. CASE outcome = Started(session) /\ session.task \in TaskUnlaunched
  <2>1. <<session.task, outcome.task>> \in TaskMoves /\ outcome.deletion = session.deletion
    BY <1>5 DEF Started, Sessions, TaskUnlaunched, TaskMoves
  <2>2. Becomes(session, outcome, ephemeral)
    BY <2>1 DEF Becomes, Moves
  <2> QED BY <1>2, <2>2, ThreeSteps
<1>6. CASE outcome = recorded /\ session.task = "none"
  BY <1>2, <1>6, ThreeSteps
<1>7. Started(session) = session \/ session.task \in {"none"} \cup TaskUnlaunched
  BY DEF Started, TaskUnlaunched, Sessions
<1> QED BY <1>1, <1>3, <1>4, <1>5, <1>6, <1>7 DEF StartFailed

LEMMA RemovalBehaves ==
  ASSUME NEW session \in Sessions, session.task = "none" => session = NoSession,
         NEW kind \in Deletions, NEW ephemeral \in BOOLEAN,
         NEW outcome \in Removals(session, kind, ephemeral), outcome # session
  PROVE  outcome \in InThreeSteps(session, ephemeral)
<1>1. session.task # "none" /\ ~Refuses(session, kind)
  BY DEF Removals, DeleteFailed, DeleteSucceeds, Deleted, Canceled, Refuses, NoSession, TaskActive,
         TaskUnlaunched, Deletions
<1>2. PICK marked, canceled, deleted :
        /\ marked = Marked(session, kind) /\ canceled = Canceled(session, kind)
        /\ deleted = Deleted(session, kind, ephemeral)
  OBVIOUS
<1>3. /\ marked \in Sessions /\ marked.task = session.task /\ marked.deletion = kind
      /\ session = marked \/ Becomes(session, marked, ephemeral)
  <2>1. marked \in Sessions /\ marked.task = session.task /\ marked.deletion = kind
    BY <1>2 DEF Marked, Sessions
  <2>2. CASE session.deletion = "none"
    <3>1. Marks(session, marked)
      BY <1>1, <2>1, <2>2 DEF Marks, Deletions
    <3> QED BY <2>1, <3>1 DEF Becomes
  <2>3. CASE session.deletion = kind
    <3>1. session = marked
      BY <1>2, <2>3 DEF Marked, Sessions
    <3> QED BY <2>1, <3>1
  <2> QED BY <1>1, <2>2, <2>3 DEF Refuses
<1>4. CASE outcome = marked
  BY <1>3, <1>4, ThreeSteps
<1>5. CASE session.task \notin TaskUnlaunched
  <2>1. session.task \in TaskActive \/ session.task \in TaskOver
    BY <1>1, <1>5, SessionTypes DEF TaskStates
  <2>2. /\ canceled \in Sessions /\ canceled.task \in TaskOver /\ canceled.deletion = kind
        /\ marked = canceled \/ Becomes(marked, canceled, ephemeral)
    <3>1. CASE session.task \in TaskActive
      <4>1. canceled = [marked EXCEPT !.task = "canceled"]
        <5>1. canceled = [task |-> "canceled", deletion |-> kind]
          BY <1>2, <3>1 DEF Canceled
        <5> QED BY <1>3, <5>1 DEF Sessions
      <4>2. canceled \in Sessions /\ canceled.task = "canceled" /\ canceled.deletion = kind
        BY <1>2, <3>1 DEF Canceled, Sessions, TaskStates, TaskOver
      <4>3. Cancels(marked, canceled)
        BY <1>3, <3>1, <4>1 DEF Cancels, Deletions
      <4> QED BY <4>2, <4>3 DEF Becomes, TaskOver
    <3>2. CASE session.task \notin TaskActive
      <4>1. canceled = marked
        BY <1>2, <3>2 DEF Canceled, Marked, Sessions
      <4> QED BY <1>3, <2>1, <3>2, <4>1
    <3> QED BY <3>1, <3>2
  <2>3. deleted \in Sessions /\ Becomes(canceled, deleted, ephemeral)
    <3>1. deleted = IF ephemeral \/ kind = "storage" THEN NoSession ELSE [canceled EXCEPT !.deletion = "none"]
      BY <1>2 DEF Deleted
    <3>2. kind # "none"
      BY DEF Deletions
    <3>3. Finishes(canceled, deleted, ephemeral)
      BY <2>2, <3>1, <3>2 DEF Finishes
    <3>4. deleted \in Sessions
      BY <2>2, <3>1, SessionTypes DEF Sessions
    <3> QED BY <3>3, <3>4 DEF Becomes
  <2>4. outcome = canceled => outcome \in InThreeSteps(session, ephemeral)
    BY <1>3, <2>2, ThreeSteps
  <2>5. outcome = deleted => outcome \in InThreeSteps(session, ephemeral)
    BY <1>3, <2>2, <2>3, ThreeSteps
  <2> QED BY <1>1, <1>2, <1>4, <1>5, <2>4, <2>5 DEF Removals, DeleteFailed, DeleteSucceeds
<1>6. CASE session.task \in TaskUnlaunched
  BY <1>1, <1>2, <1>4, <1>6 DEF Removals, DeleteFailed, DeleteSucceeds
<1> QED BY <1>5, <1>6

LEMMA TaskBehaves ==
  ASSUME NEW session \in Sessions, NEW ephemeral, NEW task \in TaskStates,
         NEW outcome, outcome = [session EXCEPT !.task = task],
         \/ <<session.task, task>> \in TaskMoves
         \/ session.task \in TaskOver /\ session.deletion = "none" /\ ~ephemeral /\ task \in {"readded", "again"}
  PROVE  outcome \in InThreeSteps(session, ephemeral)
<1>1. outcome \in Sessions /\ outcome.task = task /\ outcome.deletion = session.deletion
  BY DEF Sessions
<1>2. CASE <<session.task, task>> \in TaskMoves
  <2>1. Becomes(session, outcome, ephemeral)
    BY <1>1, <1>2 DEF Becomes, Moves
  <2> QED BY <1>1, <2>1, ThreeSteps
<1>3. CASE session.task \in TaskOver /\ session.deletion = "none" /\ ~ephemeral /\ task \in {"readded", "again"}
  <2>1. PICK readded : readded = [session EXCEPT !.task = "readded"]
    OBVIOUS
  <2>2. /\ readded \in Sessions /\ readded.task = "readded" /\ readded.deletion = session.deletion
        /\ Becomes(session, readded, ephemeral)
    BY <1>3, <2>1 DEF Sessions, TaskStates, TaskUnlaunched, Becomes, Readds
  <2>3. CASE task = "readded"
    <3>1. outcome = readded
      BY <2>1, <2>3
    <3> QED BY <2>2, <3>1, ThreeSteps
  <2>4. CASE task = "again"
    <3>1. Becomes(readded, outcome, ephemeral)
      BY <1>1, <2>2, <2>4 DEF Becomes, Moves, TaskMoves
    <3> QED BY <1>1, <2>2, <3>1, ThreeSteps
  <2> QED BY <1>3, <2>3, <2>4
<1> QED BY <1>2, <1>3

LEMMA ServiceAllows ==
  ASSUME IInv, [Next]_vars, NEW s \in Steps, sessions'[s] # sessions[s]
  PROVE  sessions'[s] \in InThreeSteps(sessions[s], Ephemeral(run, s))
<1>1. Next
  BY DEF vars
<1>2. PICK session, outcome, ephemeral :
        session = sessions[s] /\ outcome = sessions'[s] /\ ephemeral = Ephemeral(run, s)
  OBVIOUS
<1>3. session \in Sessions /\ (session.task = "none" => session = NoSession) /\ ephemeral \in BOOLEAN
  BY <1>2 DEF IInv, TypeOK, Durable, SessionOK, Ephemeral
<1>4. CASE outcome \in StartFailed(session) \cup {Started(session)}
  BY <1>2, <1>3, <1>4, StartBehaves
<1>5. CASE \E kind \in Deletions : outcome \in Removals(session, kind, ephemeral)
  BY <1>2, <1>3, <1>5, RemovalBehaves
<1>6. CASE /\ session.deletion # "none" /\ DeleteSucceeds(session, session.deletion)
           /\ outcome = Deleted(session, session.deletion, ephemeral)
  <2>1. PICK kind \in Deletions : kind = session.deletion
    BY <1>3, <1>6, SessionTypes
  <2>2. outcome \in Removals(session, kind, ephemeral)
    BY <1>6, <2>1 DEF Removals
  <2> QED BY <1>5, <2>2
<1>7. CASE \/ /\ session.task = "active"
              /\ \E result \in {"completed", "blocked", "failed"} : outcome = [session EXCEPT !.task = result]
           \/ /\ session.task = "again"
              /\ \E result \in {"continued", "blocked", "failed"} : outcome = [session EXCEPT !.task = result]
  <2>1. PICK result \in TaskStates : <<session.task, result>> \in TaskMoves /\ outcome = [session EXCEPT !.task = result]
    BY <1>7 DEF TaskStates, TaskOver, TaskResults, TaskMoves
  <2> QED BY <1>2, <1>3, <2>1, TaskBehaves
<1>8. CASE /\ session.task \in TaskOver /\ session.deletion = "none" /\ ~ephemeral
           /\ \E task \in {"readded", "again"} : outcome = [session EXCEPT !.task = task]
  <2>1. PICK task \in {"readded", "again"} : outcome = [session EXCEPT !.task = task]
    BY <1>8
  <2>2. task \in TaskStates
    BY DEF TaskStates, TaskUnlaunched, TaskActive
  <2> QED BY <1>2, <1>3, <1>8, <2>1, <2>2, TaskBehaves
<1> QED BY <1>1, <1>2, <1>4, <1>5, <1>6, <1>7, <1>8, SessionChanges

\* Calls cut short, other clients and the restart move a step's session only as
\* the session controller's own specification allows (SessionsBehave).
THEOREM SessionsFollowService == Spec => SessionsBehave
<1> DEFINE Behave == \A s \in Steps : sessions'[s] # sessions[s]
                       => sessions'[s] \in InThreeSteps(sessions[s], Ephemeral(run, s))
<1>1. IInv /\ [Next]_vars => [Behave]_vars
  BY ServiceAllows
<1> QED BY <1>1, InductiveInvariant, PTL DEF Spec, SessionsBehave

-----------------------------------------------------------------------------
(* WorkflowControl implements RunLedger: every write is a step of it.      *)

LEMMA LedgerNames ==
  /\ Ledger!Absent = NoRun /\ Ledger!Steps = Steps /\ Ledger!Failures = StepFailures
  /\ Ledger!Terminal = TerminalStates /\ Ledger!Unfinished = {"pending"} \cup StepActive
  /\ Ledger!Rules = Rules(run)
BY DEF Ledger!Absent, NoRun, Ledger!Steps, Ledger!Failures, StepFailures, Ledger!Terminal, TerminalStates,
       Ledger!Unfinished, StepActive, Ledger!Rules, Rules

LEMMA LedgerCounts ==
  ASSUME NEW S \in SUBSET Steps
  PROVE  Ledger!Cardinality(S) = Cardinality(S)
BY DEF Ledger!Cardinality, Cardinality

LEMMA CreateOpens ==
  ASSUME IInv, NEW p \in Procs, Create(p)
  PROVE  Ledger!Open \/ run' = run
<1>1. proc[p].definition \in Definitions
  BY AtCall DEF Create, At, Local
<1>2. CASE run.state = "none"
  <2>1. run' = [Ledger!Absent EXCEPT !.state = "pending", !.definition = proc[p].definition]
    BY <1>2, LedgerNames DEF Create
  <2> QED BY <1>1, <1>2, <2>1 DEF Ledger!Open
<1>3. CASE run.state # "none"
  BY <1>3 DEF Create
<1> QED BY <1>2, <1>3

LEMMA SaveProgresses ==
  ASSUME IInv, NEW p \in Procs, Save(p)
  PROVE  Ledger!RequestCancel \/ Ledger!Progress
<1>1. PICK copy : copy = proc[p].copy
  OBVIOUS
<1>2. /\ copy \in Runs /\ run \in Runs /\ Local(p) /\ proc[p].base = run /\ proc[p].pc = "save"
      /\ proc[p].op \in {"cancel", "reconcile"}
  BY <1>1, AtCall DEF Save, At, Local, RestTyped
<1>3. run' = copy
  BY <1>1, <1>2 DEF Save, Update
<1>4. CASE proc[p].op = "cancel"
  <2>1. run.state \in {"pending", "running", "deleting"} /\ copy = [run EXCEPT !.cancel = TRUE]
    BY <1>1, <1>2, <1>4 DEF Local
  <2> QED BY <1>3, <2>1 DEF Ledger!RequestCancel
<1>5. CASE proc[p].op = "reconcile"
  <2>1. Scheduled(run, copy)
    BY <1>1, <1>2, <1>5 DEF Local
  <2> DEFINE new == copy.step
  <2>2. ASSUME NEW s \in Steps
        PROVE  /\ Ledger!Advances(run.step[s], new[s])
               /\ run.step[s] = "pending" /\ new[s] = "starting" =>
                    \A d \in Rules(run).after[s] : new[d] = "completed"
               /\ run.step[s] = "pending" /\ new[s] = "skipped" =>
                    \E d \in Rules(run).after[s] : new[d] \in StepFailures
    BY <2>1 DEF Scheduled, Observed, Ledger!Advances, StepActive
  <2>3. Cardinality({s \in Steps : new[s] \in {"starting", "running"}}) <= Rules(run).parallelism
    BY <2>1 DEF Scheduled, Among, StepActive
  <2>4. \A states : Ledger!Some(new, states) <=> Among(copy, states) # {}
    BY LedgerNames DEF Ledger!Some, Among
  <2>5. Derived(copy) = Ledger!Verdict(new)
    BY <2>4, LedgerNames DEF Derived, Ledger!Verdict
  <2>6. copy = [run EXCEPT !.step = new, !.state = Ledger!Verdict(new)]
    BY <2>1, <2>5 DEF Scheduled
  <2>7. run.state \in {"pending", "running"} /\ ~run.cancel
    BY <2>1 DEF Scheduled
  <2> HIDE DEF new
  <2>8. /\ Ledger!Cardinality({s \in Ledger!Steps : new[s] \in {"starting", "running"}}) <= Ledger!Rules.parallelism
        /\ \A s \in Ledger!Steps :
             /\ Ledger!Advances(run.step[s], new[s])
             /\ run.step[s] = "pending" /\ new[s] = "starting" =>
                  \A d \in Ledger!Rules.after[s] : new[d] = "completed"
             /\ run.step[s] = "pending" /\ new[s] = "skipped" =>
                  \E d \in Ledger!Rules.after[s] : new[d] \in Ledger!Failures
    BY <2>2, <2>3, LedgerNames, LedgerCounts
  <2>9. run'.step = new /\ run' = [run EXCEPT !.step = new, !.state = Ledger!Verdict(new)]
    BY <1>3, <2>6 DEF new
  <2> QED BY <2>7, <2>8, <2>9 DEF Ledger!Progress
<1> QED BY <1>2, <1>4, <1>5

LEMMA SaveCanceledCancels ==
  ASSUME IInv, NEW p \in Procs, SaveCanceled(p)
  PROVE  Ledger!Cancel
<1>1. PICK copy : copy = proc[p].copy
  OBVIOUS
<1>2. /\ copy \in Runs /\ run \in Runs /\ proc[p].base = run
      /\ CanceledSome(run, copy) /\ Among(copy, StepActive) = {}
  BY <1>1, AtCall DEF SaveCanceled, At, Local, RestTyped
<1>3. run' = [copy EXCEPT !.state = "canceled",
                          !.step = [s \in Steps |-> IF copy.step[s] = "pending" THEN "canceled" ELSE copy.step[s]]]
  BY <1>1, <1>2 DEF SaveCanceled, Update
<1>4. \A s \in Steps : (IF copy.step[s] = "pending" THEN "canceled" ELSE copy.step[s])
                     = (IF run.step[s] \in {"pending"} \cup StepActive THEN "canceled" ELSE run.step[s])
  BY <1>2 DEF CanceledSome, Among, StepActive
<1>5. [s \in Steps |-> IF copy.step[s] = "pending" THEN "canceled" ELSE copy.step[s]]
        = [s \in Steps |-> IF run.step[s] \in {"pending"} \cup StepActive THEN "canceled" ELSE run.step[s]]
  BY <1>4
<1>6. PICK step : step = [s \in Steps |-> IF copy.step[s] = "pending" THEN "canceled" ELSE copy.step[s]]
  OBVIOUS
<1>7. run' = [run EXCEPT !.state = "canceled", !.step = step]
  <2>1. copy = [run EXCEPT !.step = copy.step]
    BY <1>2 DEF CanceledSome
  <2> QED BY <1>2, <1>3, <1>6, <2>1 DEF Runs
<1>8. run' = [run EXCEPT !.state = "canceled",
                         !.step = [s \in Ledger!Steps |-> IF run.step[s] \in Ledger!Unfinished THEN "canceled"
                                                          ELSE run.step[s]]]
  BY <1>5, <1>6, <1>7, LedgerNames
<1>9. run.state \in {"pending", "running"} /\ run.cancel
  BY <1>2 DEF CanceledSome
<1> QED BY <1>8, <1>9 DEF Ledger!Cancel

LEMMA SaveCleanedCleans ==
  ASSUME IInv, NEW p \in Procs, SaveCleaned(p)
  PROVE  Ledger!Clean
<1>1. run' = proc[p].copy /\ CleanedSome(run, proc[p].copy)
  BY AtCall DEF SaveCleaned, At, Local, Update
<1> QED BY <1>1, LedgerNames DEF Ledger!Clean, CleanedSome, Publishable

LEMMA SaveDeletingBegins ==
  ASSUME IInv, NEW p \in Procs, SaveDeleting(p)
  PROVE  Ledger!BeginDeletion
<1>1. run' = proc[p].copy /\ Terminal(run) /\ proc[p].copy = [run EXCEPT !.state = "deleting"]
  BY AtCall DEF SaveDeleting, At, Local, Update
<1> QED BY <1>1, LedgerNames DEF Ledger!BeginDeletion, Terminal

LEMMA RemoveRunRemoves ==
  ASSUME IInv, NEW p \in Procs, RemoveRun(p)
  PROVE  Ledger!Remove
<1>1. run.state = "deleting" /\ run' = NoRun
  BY AtCall DEF RemoveRun, At, Local
<1> QED BY <1>1, LedgerNames DEF Ledger!Remove

\* The row of a run changes only as RunLedger allows: what a client that polls
\* it sees is a behaviour of the ledger.
THEOREM LedgerImplemented == Spec => ImplementsLedger
<1>1. Init => Ledger!Init
  BY LedgerNames DEF Init, Ledger!Init
<1>2. IInv /\ [Next]_vars => [Ledger!Next]_run
  <2> SUFFICES ASSUME IInv, [Next]_vars PROVE Ledger!Next \/ run' = run
    OBVIOUS
  <2>1. ASSUME NEW p \in Procs,
               Create(p) \/ Save(p) \/ SaveCanceled(p) \/ SaveCleaned(p) \/ SaveDeleting(p) \/ RemoveRun(p)
        PROVE  Ledger!Next \/ run' = run
    BY <2>1, CreateOpens, SaveProgresses, SaveCanceledCancels, SaveCleanedCleans, SaveDeletingBegins,
       RemoveRunRemoves DEF Ledger!Next
  <2>2. ASSUME NEW p \in Procs, StartStep(p) \/ CancelStep(p) \/ CleanStep(p) \/ DestroyStep(p)
        PROVE  run' = run
    BY <2>2 DEF StartStep, CancelStep, CleanStep, DestroyStep, Remove
  <2>3. ASSUME NEW p \in Procs, Load(p) \/ StatusOf(p) \/ ArtifactsOf(p) \/ Acquire(p) \/ CallFails(p)
        PROVE  run' = run
    BY <2>3 DEF Load, StatusOf, ArtifactsOf, Acquire, CallFails
  <2>4. ASSUME NEW p \in Procs, Work(p) PROVE Ledger!Next \/ run' = run
    BY <2>1, <2>2, <2>3, <2>4 DEF Work
  <2>5. ASSUME NEW c \in Clients, NEW op, NEW definition, Request(c, op, definition) PROVE run' = run
    BY <2>5 DEF Request
  <2>6. ASSUME NEW s \in Steps, TaskEnds(s) \/ Meddle(s) PROVE run' = run
    BY <2>6 DEF TaskEnds, Meddle
  <2>7. Tick \/ Crash \/ Restart \/ UNCHANGED vars => run' = run
    BY DEF Tick, Crash, Restart, vars
  <2> QED BY <2>3, <2>4, <2>5, <2>6, <2>7 DEF Next
<1> QED BY <1>1, <1>2, InductiveInvariant, PTL DEF Spec, ImplementsLedger, Ledger!Spec
=============================================================================
