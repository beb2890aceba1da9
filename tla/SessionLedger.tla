---------------------------- MODULE SessionLedger ----------------------------
(***************************************************************************)
(* What the durable rows of one session promise to a client that only      *)
(* reads them: which changes they can ever go through.  There are no       *)
(* handlers, no mutex, no cluster and no faults here; SessionControl       *)
(* implements this ledger by its session and session_tasks rows.           *)
(***************************************************************************)
EXTENDS Integers

CONSTANTS Intents, PersistentIntents, NoIntent, MaxTasks

VARIABLES record, deletion, tasks, issued

ledger == <<record, deletion, tasks, issued>>

TaskIds  == 1..MaxTasks
Active   == {"pending", "running"}
Results  == {"completed", "blocked", "failed"}
Quiet    == \A t \in TaskIds : tasks[t] \notin Active
Recorded == record # NoIntent

Init ==
  /\ record = NoIntent /\ deletion = "none" /\ issued = 1
  /\ tasks = [t \in TaskIds |-> "none"]

\* A session begins with exactly one pending task.
Open ==
  /\ ~Recorded
  /\ record' \in Intents
  /\ tasks' = [tasks EXCEPT ![1] = "pending"]
  /\ UNCHANGED <<deletion, issued>>

\* Another task needs a persistent session that is quiet and stays.
Extend ==
  /\ record \in PersistentIntents /\ deletion = "none" /\ Quiet
  /\ issued < MaxTasks /\ issued' = issued + 1
  /\ tasks' = [tasks EXCEPT ![issued'] = "pending"]
  /\ UNCHANGED <<record, deletion>>

\* The active task progresses, or ends with a result that stands.
Observe ==
  /\ \E t \in TaskIds, state \in Active \cup Results :
       tasks[t] \in Active /\ tasks' = [tasks EXCEPT ![t] = state]
  /\ UNCHANGED <<record, deletion, issued>>

\* Only a deletion cancels.
Cancel ==
  /\ deletion # "none"
  /\ \E t \in TaskIds : tasks[t] \in Active /\ tasks' = [tasks EXCEPT ![t] = "canceled"]
  /\ UNCHANGED <<record, deletion, issued>>

BeginDeletion ==
  /\ Recorded /\ deletion = "none"
  /\ deletion' \in {"compute", "storage"}
  /\ UNCHANGED <<record, tasks, issued>>

\* A finished deletion keeps the rows of a persistent session, unless its
\* storage went too; either way nothing was active any more.
FinishDeletion ==
  /\ deletion # "none" /\ Quiet
  /\ deletion' = "none"
  /\ IF deletion = "compute" /\ record \in PersistentIntents
     THEN UNCHANGED <<record, tasks>>
     ELSE record' = NoIntent /\ tasks' = [t \in TaskIds |-> "none"]
  /\ UNCHANGED issued

Next == Open \/ Extend \/ Observe \/ Cancel \/ BeginDeletion \/ FinishDeletion

Spec == Init /\ [][Next]_ledger
=============================================================================
