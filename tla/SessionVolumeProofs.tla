------------------------- MODULE SessionVolumeProofs -------------------------
(***************************************************************************)
(* Theorems about SessionVolume, for any number of tasks and of retries.   *)
(*                                                                         *)
(* What a pod reports is its own because, as long as no two tasks work at  *)
(* once, whatever is on the volume past "clear" was left by that pod or by *)
(* the one it replaces (WorkIsOwn); what is recorded comes from what was   *)
(* reported (ReportsAreOwn); and the publication works from the record     *)
(* (PublicationFollows).  A patch never lacks what an earlier one had      *)
(* because the tree grows and the base commit stays (PatchesGrow).         *)
(***************************************************************************)
EXTENDS SessionVolume, TLAPS

\* Tasks are added one by one, each when the one before is over.
TasksInOrder ==
  /\ \A t \in TaskIds : rows[t] = "active" => IsLatest(t)
  /\ \A t, u \in TaskIds : u < t /\ rows[t] # "none" => rows[u] # "none"

\* A task's pods follow one another, and a report waits for a row to be read into.
PodsOrdered(t) ==
  /\ rows[t] = "none" => pods[<<t, 1>>] = "absent" /\ pods[<<t, 2>>] = "absent" /\ jobs[t] = "none"
  /\ pods[<<t, 2>>] # "absent" => pods[<<t, 1>>] = "failed"
  /\ rows[t] \in {"completed", "blocked"} => Succeeded(t)
  /\ rows[t] = "active" /\ Succeeded(t) => messages[t] # Nothing
  /\ messages[t] # Nothing => rows[t] = "active"
PodsInOrder == \A t \in TaskIds : PodsOrdered(t)

\* What is recorded with a task.
RecordsComplete ==
  \A t \in TaskIds :
    /\ found[t] # Nothing <=> rows[t] = "completed"
    /\ found[t] # Nothing => found[t].outcome.status = "completed" /\ found[t].result # Nothing

\* Every patch that anything refers to is retained.
ChangesKept ==
  /\ volume.change # Nothing => volume.change \in volume.kept
  /\ \A t \in TaskIds :
       /\ messages[t] # Nothing /\ messages[t].change # Nothing => messages[t].change \in volume.kept
       /\ found[t] # Nothing /\ found[t].change # Nothing => found[t].change \in volume.kept

\* The tree has all that was ever in a patch, unless a failed clone is the base.
PatchesGrow ==
  /\ volume.base # Nothing => volume.git
  /\ \A c \in volume.kept :
       /\ volume.base # Nothing
       /\ volume.base # Word => c.units \subseteq volume.tree \ volume.base

\* A publication is that of a completed task, and keeps tasks out.
PublicationFollows ==
  /\ pub.state = "none" => pub.change = Nothing /\ branch = Nothing /\ publisher = "absent" /\ ~lease
  /\ pub.state # "none" =>
       pub.task \in TaskIds /\ rows[pub.task] = "completed" /\ pub.change = found[pub.task].change
  /\ branch # Nothing /\ pub.change # Nothing => branch = pub.change
  /\ lease => \A t \in TaskIds : rows[t] # "active"

\* What is on the volume while a pod of task t works on it alone.
Worker == {"stage", "check", "redo", "restage", "recheck", "report"}
Staged == {"check", "redo", "restage", "recheck", "report"}
Own(t) ==
  /\ volume.outcome # Nothing => volume.outcome.by = t
  /\ volume.result # Nothing => volume.result = t
Extends(c, t) ==
  volume.base # Word => \A u \in TaskIds : u < t /\ rows[u] = "completed" => found[u].change.units \subseteq c.units

Fits(place, t) ==
  /\ place = "agent" => volume.outcome = Nothing /\ volume.result = Nothing
  /\ place \in {"agent", "stage"} => volume.change = Nothing
  /\ place \in Worker => Own(t)
  /\ place \in Staged /\ volume.change # Nothing => Extends(volume.change, t)
  /\ place = "report" => Valid(volume)
  /\ place = "giveup" => volume.outcome = [status |-> "failed", by |-> t]
WorkIsOwn == ~overlapped => \A p \in Pods : Fits(pods[p], Task(p))

OwnMessage(m, t) ==
  /\ m.outcome.by = t
  /\ m.outcome.status = "completed" => m.result = t /\ m.change # Nothing /\ Extends(m.change, t)
ReportsAreOwn ==
  ~overlapped => \A t \in TaskIds :
    /\ messages[t] # Nothing => OwnMessage(messages[t], t)
    /\ found[t] # Nothing => OwnMessage(found[t], t)

IInv ==
  /\ TypeOK /\ TasksInOrder /\ PodsInOrder /\ RecordsComplete /\ ChangesKept /\ PatchesGrow
  /\ PublicationFollows /\ (TwoTasksWork => overlapped) /\ WorkIsOwn /\ ReportsAreOwn

-----------------------------------------------------------------------------
(* What every step does                                                    *)

\* The history variable of Next.
Overlaps == overlapped' = (overlapped \/ TwoTasksWork')

\* A record that is settled stays; so does a base commit.
Settles ==
  /\ \A u \in TaskIds : rows[u] # "active" /\ rows'[u] = "completed" => rows[u] = "completed" /\ found'[u] = found[u]
  /\ volume'.base # volume.base => volume.base = Nothing

LEMMA PodFacts ==
  /\ Pods = TaskIds \X {1, 2}
  /\ \A p \in Pods : Task(p) \in TaskIds /\ (p = <<Task(p), 1>> \/ p = <<Task(p), 2>>)
  /\ \A t \in TaskIds : /\ <<t, 1>> \in Pods /\ <<t, 2>> \in Pods
                        /\ Task(<<t, 1>>) = t /\ Task(<<t, 2>>) = t /\ <<t, 1>> # <<t, 2>>
  /\ \A t, u \in TaskIds, n, m \in {1, 2} : <<t, n>> = <<u, m>> => t = u /\ n = m
BY DEF Pods, Task

LEMMA TaskFacts == TaskIds \in SUBSET Nat /\ 1 \in TaskIds /\ \A t \in TaskIds : t \in 1..MaxTasks
BY VolumeAssumption DEF TaskIds

\* A pod that is at work is the only one of its task, and the task is on record.
LEMMA WorkingFacts ==
  ASSUME IInv, NEW p \in Pods, Live(p)
  PROVE  /\ Task(p) \in TaskIds /\ rows[Task(p)] # "none" /\ ~Succeeded(Task(p))
         /\ \A q \in Pods : Live(q) /\ Task(q) = Task(p) => q = p
         /\ p = <<Task(p), 2>> => pods[<<Task(p), 1>>] = "failed"
<1>1. Task(p) \in TaskIds /\ (p = <<Task(p), 1>> \/ p = <<Task(p), 2>>)
  BY PodFacts
<1>2. pods[p] \notin {"absent", "succeeded", "failed"}
  BY DEF Live, LivePlaces, InitPlaces, AgentPlaces
<1>3. \A q \in Pods : Live(q) => pods[q] \notin {"absent", "succeeded", "failed"}
  BY DEF Live, LivePlaces, InitPlaces, AgentPlaces
<1>4. pods[<<Task(p), 2>>] # "absent" => pods[<<Task(p), 1>>] = "failed"
  BY <1>1 DEF IInv, PodsInOrder, PodsOrdered
<1>5. rows[Task(p)] # "none"
  BY <1>1, <1>2 DEF IInv, PodsInOrder, PodsOrdered
<1>6. ~Succeeded(Task(p))
  BY <1>1, <1>2, <1>4 DEF Succeeded
<1>7. ASSUME NEW q \in Pods, Live(q), Task(q) = Task(p) PROVE q = p
  <2>1. q = <<Task(p), 1>> \/ q = <<Task(p), 2>>
    BY <1>7, PodFacts
  <2> QED BY <1>1, <1>2, <1>3, <1>4, <1>7, <2>1
<1> QED BY <1>1, <1>2, <1>4, <1>5, <1>6, <1>7

\* As long as no two tasks have worked at once, one pod works.
LEMMA OneWorks ==
  ASSUME IInv, ~overlapped, NEW p \in Pods, NEW q \in Pods, Live(p), Live(q)
  PROVE  p = q
BY WorkingFacts DEF IInv, TwoTasksWork

LEMMA ExtendsStays ==
  ASSUME IInv, Settles, NEW t \in TaskIds, rows[t] # "none", NEW c, Extends(c, t)
  PROVE  Extends(c, t)'
<1> SUFFICES ASSUME volume'.base # Word, NEW u \in TaskIds, u < t, rows'[u] = "completed"
             PROVE  found'[u].change.units \subseteq c.units
  BY DEF Extends
<1>1. rows[u] # "active"
  BY TaskFacts DEF IInv, TasksInOrder, IsLatest
<1>2. rows[u] = "completed" /\ found'[u] = found[u]
  BY <1>1 DEF Settles
<1>3. volume.base # Word
  BY VolumeAssumption DEF Settles
<1> QED BY <1>2, <1>3 DEF Extends

LEMMA IdleFits ==
  ASSUME NEW place \in PodPlaces, place \notin AgentPlaces \ {"clear"}, NEW t
  PROVE  Fits(place, t) /\ Fits(place, t)'
BY DEF Fits, AgentPlaces, Worker, Staged

\* A step changes nothing on the volume that a patch or a record rests on.
Grows ==
  /\ volume.kept \subseteq volume'.kept /\ volume.tree \subseteq volume'.tree
  /\ volume'.change # Nothing => volume'.change \in volume'.kept
  /\ volume'.base # volume.base => volume.base = Nothing
  /\ volume'.base # Nothing => volume'.git
  /\ \A c \in volume'.kept \ volume.kept :
       /\ volume'.base # Nothing
       /\ volume'.base # Word => c.units \subseteq volume'.tree \ volume'.base

LEMMA GrowsKeepsPatches ==
  ASSUME IInv, Grows
  PROVE  PatchesGrow'
<1> SUFFICES ASSUME NEW c \in volume'.kept
             PROVE  /\ volume'.base # Nothing
                    /\ volume'.base # Word => c.units \subseteq volume'.tree \ volume'.base
  BY DEF PatchesGrow, Grows
<1>1. CASE c \in volume.kept
  <2>1. /\ volume.base # Nothing
        /\ volume.base # Word => c.units \subseteq volume.tree \ volume.base
    BY <1>1 DEF IInv, PatchesGrow
  <2>2. volume'.base = volume.base /\ volume.tree \subseteq volume'.tree
    BY <2>1 DEF Grows
  <2> QED BY <2>1, <2>2
<1>2. CASE c \notin volume.kept
  BY <1>2 DEF Grows
<1> QED BY <1>1, <1>2

-----------------------------------------------------------------------------
(* The pods                                                                *)

\* What a step of pod p may write to the message of its Job.
Reports(p) ==
  /\ \A u \in TaskIds \ {Task(p)} : messages'[u] = messages[u]
  /\ \/ messages'[Task(p)] = messages[Task(p)]
     \/ messages'[Task(p)] # Nothing =>
          /\ rows[Task(p)] = "active"
          /\ messages'[Task(p)].change # Nothing => messages'[Task(p)].change \in volume.kept
          /\ ~overlapped => OwnMessage(messages'[Task(p)], Task(p))

LEMMA PodMoves ==
  ASSUME IInv, NEW p \in Pods, Live(p), NEW place \in PodPlaces \ {"absent"},
         pods' = [pods EXCEPT ![p] = place], UNCHANGED <<control, jobs, publication>>, Overlaps,
         volume' \in Volumes, Grows,
         messages' \in [TaskIds -> Maybe(Messages)], Reports(p),
         place = "succeeded" /\ rows[Task(p)] = "active" => messages'[Task(p)] # Nothing,
         ~overlapped => Fits(place, Task(p))'
  PROVE  IInv'
<1>1. /\ UNCHANGED <<input, rows, found, jobs, lease, pub, publisher, branch>>
      /\ overlapped \in BOOLEAN /\ pods \in [Pods -> PodPlaces]
  BY DEF control, publication, IInv, TypeOK
<1>2. pods'[p] = place /\ \A q \in Pods : q # p => pods'[q] = pods[q]
  BY <1>1
<1>3. PICK t \in TaskIds : t = Task(p)
  BY PodFacts
<1>4. /\ rows[t] # "none" /\ ~Succeeded(t)
      /\ p = <<t, 2>> => pods[<<t, 1>>] = "failed"
      /\ pods[p] \notin {"absent", "succeeded", "failed"}
  BY <1>3, WorkingFacts DEF Live, LivePlaces, InitPlaces, AgentPlaces
<1>5. TypeOK'
  <2>1. overlapped' \in BOOLEAN
    BY DEF Overlaps
  <2>2. pods' \in [Pods -> PodPlaces]
    BY <1>1
  <2> QED BY <1>1, <2>1, <2>2 DEF IInv, TypeOK
<1>6. TasksInOrder'
  BY <1>1 DEF IInv, TasksInOrder, IsLatest
<1>7. RecordsComplete'
  BY <1>1 DEF IInv, RecordsComplete
<1>8. PublicationFollows'
  BY <1>1 DEF IInv, PublicationFollows
<1>9. PodsInOrder'
  <2> SUFFICES ASSUME NEW u \in TaskIds PROVE PodsOrdered(u)'
    BY DEF PodsInOrder
  <2>1. CASE u = t
    <3>1. rows[t] \notin {"none", "completed", "blocked"}
      BY <1>4 DEF IInv, PodsInOrder, PodsOrdered
    <3>2. p = <<t, 1>> => pods[<<t, 2>>] = "absent"
      BY <1>4 DEF IInv, PodsInOrder, PodsOrdered
    <3>3. p = <<t, 1>> \/ p = <<t, 2>>
      BY <1>3, PodFacts
    <3>4. pods'[<<t, 2>>] # "absent" => pods'[<<t, 1>>] = "failed"
      BY <1>2, <1>4, <3>2, <3>3, PodFacts
    <3>5. Succeeded(t)' => place = "succeeded"
      BY <1>2, <1>4, <3>3, PodFacts DEF Succeeded
    <3>6. rows[t] = "active" /\ Succeeded(t)' => messages'[t] # Nothing
      BY <1>3, <3>5
    <3>7. messages'[t] # Nothing => rows[t] = "active"
      BY <1>3 DEF Reports, IInv, PodsInOrder, PodsOrdered
    <3> QED BY <1>1, <2>1, <3>1, <3>4, <3>6, <3>7 DEF PodsOrdered
  <2>2. CASE u # t
    <3>1. <<u, 1>> # p /\ <<u, 2>> # p /\ <<u, 1>> \in Pods /\ <<u, 2>> \in Pods
      BY <1>3, <2>2, PodFacts
    <3>2. pods'[<<u, 1>>] = pods[<<u, 1>>] /\ pods'[<<u, 2>>] = pods[<<u, 2>>]
      BY <1>2, <3>1
    <3>3. Succeeded(u)' <=> Succeeded(u)
      BY <3>2 DEF Succeeded
    <3>4. messages'[u] = messages[u]
      BY <1>3, <2>2 DEF Reports
    <3> QED BY <1>1, <3>2, <3>3, <3>4 DEF IInv, PodsInOrder, PodsOrdered
  <2> QED BY <2>1, <2>2
<1>10. ChangesKept'
  <2>1. volume'.change # Nothing => volume'.change \in volume'.kept
    BY DEF Grows
  <2>2. ASSUME NEW u \in TaskIds
        PROVE  (messages[u] # Nothing /\ messages[u].change # Nothing => messages[u].change \in volume.kept)'
    BY <1>3 DEF Grows, Reports, IInv, ChangesKept
  <2>3. ASSUME NEW u \in TaskIds
        PROVE  (found[u] # Nothing /\ found[u].change # Nothing => found[u].change \in volume.kept)'
    BY <1>1 DEF Grows, IInv, ChangesKept
  <2> QED BY <2>1, <2>2, <2>3 DEF ChangesKept
<1>11. PatchesGrow'
  BY GrowsKeepsPatches
<1>12. (TwoTasksWork => overlapped)'
  BY DEF Overlaps
<1>13. Settles
  BY <1>1 DEF Settles, Grows
<1>14. ~overlapped' => ~overlapped
  BY DEF Overlaps
<1>15. WorkIsOwn'
  <2> SUFFICES ASSUME ~overlapped', NEW q \in Pods PROVE Fits(pods[q], Task(q))'
    BY DEF WorkIsOwn
  <2>1. CASE q = p
    BY <1>2, <1>14, <2>1
  <2>2. CASE q # p
    <3>1. pods'[q] = pods[q] /\ pods[q] \in PodPlaces
      BY <1>1, <1>2, <2>2
    <3>2. pods[q] \notin LivePlaces
      BY <1>14, <2>2, OneWorks DEF Live
    <3> QED BY <3>1, <3>2, IdleFits DEF LivePlaces
  <2> QED BY <2>1, <2>2
<1>16. ReportsAreOwn'
  <2> SUFFICES ASSUME ~overlapped', NEW u \in TaskIds
               PROVE  (/\ messages[u] # Nothing => OwnMessage(messages[u], u)
                       /\ found[u] # Nothing => OwnMessage(found[u], u))'
    BY DEF ReportsAreOwn
  <2>1. ASSUME NEW m, OwnMessage(m, u), rows[u] # "none" PROVE OwnMessage(m, u)'
    BY <1>13, <2>1, ExtendsStays DEF OwnMessage
  <2>2. found[u] # Nothing => OwnMessage(found[u], u) /\ rows[u] # "none"
    BY <1>14 DEF IInv, ReportsAreOwn, RecordsComplete
  <2>3. messages'[u] # Nothing => OwnMessage(messages'[u], u) /\ rows[u] # "none"
    <3>1. messages[u] # Nothing => OwnMessage(messages[u], u) /\ rows[u] # "none"
      BY <1>14 DEF IInv, ReportsAreOwn, PodsInOrder, PodsOrdered
    <3> QED BY <1>3, <1>4, <1>14, <3>1 DEF Reports
  <2>4. PICK m : m = messages'[u]
    OBVIOUS
  <2>5. m # Nothing => OwnMessage(m, u)'
    BY <2>1, <2>3, <2>4
  <2>6. PICK f : f = found[u]
    OBVIOUS
  <2>7. f # Nothing => OwnMessage(f, u)'
    BY <2>1, <2>2, <2>6
  <2> QED BY <1>1, <2>4, <2>5, <2>6, <2>7 DEF OwnMessage
<1> QED BY <1>5, <1>6, <1>7, <1>8, <1>9, <1>10, <1>11, <1>12, <1>15, <1>16 DEF IInv

LEMMA QuietMoves ==
  ASSUME IInv, NEW p \in Pods, Live(p), NEW place \in PodPlaces \ {"absent", "succeeded"},
         Move(p, place), Keep, Overlaps, volume' \in Volumes, Grows,
         ~overlapped => Fits(place, Task(p))'
  PROVE  IInv'
<1>1. UNCHANGED messages /\ Reports(p)
  BY DEF Keep, Reports
<1>2. messages' \in [TaskIds -> Maybe(Messages)]
  BY <1>1 DEF IInv, TypeOK
<1> QED BY <1>1, <1>2, PodMoves DEF Move, Keep

LEMMA VolumeFacts ==
  ASSUME IInv
  PROVE  /\ volume \in Volumes
         /\ volume.git \in BOOLEAN /\ volume.head \in Maybe(SUBSET Units) /\ volume.tree \in SUBSET Units
         /\ volume.whole \in BOOLEAN /\ volume.base \in (SUBSET Units) \cup {Nothing, Word}
         /\ volume.outcome \in Maybe(Outcomes) /\ volume.result \in Maybe(TaskIds)
         /\ volume.change \in Maybe(Patches) /\ volume.kept \in SUBSET Patches
BY DEF IInv, TypeOK, Volumes

LEMMA SameVolume ==
  ASSUME IInv, UNCHANGED volume
  PROVE  volume' \in Volumes /\ Grows
BY DEF IInv, TypeOK, Grows, ChangesKept, PatchesGrow

LEMMA PodFailsPreserves ==
  ASSUME IInv, NEW p \in Pods, PodFails(p), Overlaps
  PROVE  IInv'
<1>1. "failed" \in PodPlaces \ {"absent", "succeeded"} /\ "failed" \notin AgentPlaces \ {"clear"}
  BY DEF PodPlaces, AgentPlaces
<1>2. Fits("failed", Task(p))'
  BY <1>1, IdleFits
<1> QED BY <1>1, <1>2, SameVolume, QuietMoves DEF PodFails

LEMMA ClonePreserves ==
  ASSUME IInv, NEW p \in Pods, Clone(p), Overlaps
  PROVE  IInv'
<1>1. PICK place \in {"apply", "clear", "failed"} : Move(p, place)
  BY DEF Clone, AfterClone
<1>2. place \in PodPlaces \ {"absent", "succeeded"} /\ place \notin AgentPlaces \ {"clear"}
  BY DEF PodPlaces, LivePlaces, InitPlaces, AgentPlaces
<1>3. Fits(place, Task(p))'
  BY <1>2, IdleFits
<1>4. Live(p) /\ Keep
  BY DEF Clone, Live, LivePlaces, InitPlaces
<1>5. volume.base = Nothing => volume.kept = {}
  BY DEF IInv, PatchesGrow
<1>6. volume.base # Nothing => volume.git
  BY DEF IInv, PatchesGrow
<1>7. volume.change # Nothing => volume.change \in volume.kept
  BY DEF IInv, ChangesKept
<1>8. volume' \in Volumes /\ Grows
  <2>1. CASE /\ volume.git /\ (volume.base # Nothing \/ volume.head # Nothing)
             /\ volume' = [volume EXCEPT !.base = IF @ = Nothing THEN volume.head ELSE @]
    <3>1. volume' \in Volumes
      BY <2>1, VolumeFacts DEF Volumes, Maybe
    <3>2. volume' = [volume EXCEPT !.base = volume'.base] /\ (volume.base # Nothing => volume'.base = volume.base)
      BY <2>1, VolumeFacts DEF Volumes
    <3>3. /\ volume'.git /\ volume'.tree = volume.tree
          /\ volume'.change = volume.change /\ volume'.kept = volume.kept
      BY <2>1, VolumeFacts DEF Volumes
    <3> QED BY <1>7, <3>1, <3>2, <3>3 DEF Grows
  <2>2. CASE volume.git /\ volume.base = Nothing /\ volume.head = Nothing /\ volume' = [volume EXCEPT !.base = Word]
    <3>1. volume' \in Volumes
      BY <2>2, VolumeFacts DEF Volumes
    <3>2. /\ volume'.git /\ volume'.tree = volume.tree
          /\ volume'.change = volume.change /\ volume'.kept = volume.kept
      BY <2>2, VolumeFacts DEF Volumes
    <3> QED BY <1>7, <2>2, <3>1, <3>2 DEF Grows
  <2>3. CASE ~volume.git /\ volume' = [volume EXCEPT !.git = TRUE, !.head = {}, !.whole = TRUE, !.base = {}]
    <3>1. volume' \in Volumes
      BY <2>3, VolumeFacts DEF Volumes, Maybe
    <3>2. /\ volume'.git /\ volume'.tree = volume.tree
          /\ volume'.change = volume.change /\ volume'.kept = volume.kept
      BY <2>3, VolumeFacts DEF Volumes
    <3> QED BY <1>6, <1>7, <2>3, <3>1, <3>2 DEF Grows
  <2>4. CASE ~volume.git /\ volume' \in {[volume EXCEPT !.git = TRUE],
                                         [volume EXCEPT !.git = TRUE, !.head = {}],
                                         [volume EXCEPT !.git = TRUE, !.head = {}, !.whole = TRUE]}
    <3>1. volume' \in Volumes
      <4>1. [volume EXCEPT !.git = TRUE] \in Volumes
        BY VolumeFacts DEF Volumes
      <4>2. [volume EXCEPT !.git = TRUE, !.head = {}] \in Volumes
        BY VolumeFacts DEF Volumes, Maybe
      <4>3. [volume EXCEPT !.git = TRUE, !.head = {}, !.whole = TRUE] \in Volumes
        BY VolumeFacts DEF Volumes, Maybe
      <4> QED BY <2>4, <4>1, <4>2, <4>3
    <3>2. /\ volume'.git /\ volume'.tree = volume.tree /\ volume'.base = volume.base
          /\ volume'.change = volume.change /\ volume'.kept = volume.kept
      BY <2>4, VolumeFacts DEF Volumes
    <3> QED BY <1>7, <3>1, <3>2 DEF Grows
  <2> QED BY <2>1, <2>2, <2>3, <2>4 DEF Clone
<1> QED BY <1>1, <1>2, <1>3, <1>4, <1>8, QuietMoves

LEMMA ApplyPreserves ==
  ASSUME IInv, NEW p \in Pods, Apply(p), Overlaps
  PROVE  IInv'
<1>1. PICK place \in {"clear", "failed"} : Move(p, place)
  BY DEF Apply
<1>2. place \in PodPlaces \ {"absent", "succeeded"} /\ place \notin AgentPlaces \ {"clear"}
  BY DEF PodPlaces, LivePlaces, AgentPlaces
<1>3. Fits(place, Task(p))'
  BY <1>2, IdleFits
<1>4. Live(p) /\ Keep
  BY DEF Apply, Live, LivePlaces, InitPlaces
<1>5. volume' \in Volumes /\ Grows
  <2>1. CASE UNCHANGED volume
    BY <2>1, SameVolume
  <2>2. CASE volume' = [volume EXCEPT !.tree = @ \cup {Input}]
    <3>1. volume' \in Volumes
      BY <2>2, VolumeFacts DEF Volumes, Units
    <3>2. /\ volume.tree \subseteq volume'.tree /\ volume'.base = volume.base /\ volume'.git = volume.git
          /\ volume'.change = volume.change /\ volume'.kept = volume.kept
      BY <2>2, VolumeFacts DEF Volumes
    <3> QED BY <3>1, <3>2 DEF Grows, IInv, ChangesKept, PatchesGrow
  <2> QED BY <2>1, <2>2 DEF Apply
<1> QED BY <1>1, <1>2, <1>3, <1>4, <1>5, QuietMoves

LEMMA ClearPreserves ==
  ASSUME IInv, NEW p \in Pods, Clear(p), Overlaps
  PROVE  IInv'
<1>1. /\ Live(p) /\ Keep /\ Move(p, "agent") /\ "agent" \in PodPlaces \ {"absent", "succeeded"}
      /\ volume' = [volume EXCEPT !.outcome = Nothing, !.result = Nothing, !.change = Nothing]
  BY DEF Clear, Live, PodPlaces, LivePlaces, AgentPlaces
<1>2. volume' \in Volumes
  BY <1>1, VolumeFacts DEF Volumes, Maybe
<1>3. /\ volume'.tree = volume.tree /\ volume'.base = volume.base /\ volume'.git = volume.git
      /\ volume'.kept = volume.kept
      /\ volume'.outcome = Nothing /\ volume'.result = Nothing /\ volume'.change = Nothing
  BY <1>1, VolumeFacts DEF Volumes
<1>4. Grows
  BY <1>3 DEF Grows, IInv, PatchesGrow
<1>5. Fits("agent", Task(p))'
  BY <1>3 DEF Fits, Worker, Staged
<1> QED BY <1>1, <1>2, <1>4, <1>5, QuietMoves

\* What the agent of task t writes: artifacts, all of them its own.
WrittenBy(t, v, w) ==
  /\ w \in Volumes
  /\ w.tree = v.tree /\ w.base = v.base /\ w.git = v.git /\ w.kept = v.kept /\ w.change = v.change
  /\ w.outcome = v.outcome \/ w.outcome.by = t
  /\ w.result = v.result \/ w.result = t

LEMMA WrittenFacts ==
  ASSUME NEW t \in TaskIds, NEW v \in Volumes, NEW w \in Written(t, v)
  PROVE  WrittenBy(t, v, w)
<1>1. [status |-> "blocked", by |-> t] \in Outcomes /\ [status |-> "completed", by |-> t] \in Outcomes
  BY DEF Outcomes, Statuses
<1>2. CASE w = v
  BY <1>2 DEF WrittenBy
<1>3. CASE w = [v EXCEPT !.outcome = [status |-> "blocked", by |-> t]]
  BY <1>1, <1>3 DEF WrittenBy, Volumes, Maybe
<1>4. CASE w = [v EXCEPT !.outcome = [status |-> "completed", by |-> t]]
  BY <1>1, <1>4 DEF WrittenBy, Volumes, Maybe
<1>5. CASE w = [v EXCEPT !.outcome = [status |-> "completed", by |-> t], !.result = t]
  BY <1>1, <1>5 DEF WrittenBy, Volumes, Maybe
<1> QED BY <1>2, <1>3, <1>4, <1>5 DEF Written

\* The agent starts with no artifact on the volume, so what it leaves is its own.
LEMMA AgentPreserves ==
  ASSUME IInv, NEW p \in Pods, Agent(p), Overlaps
  PROVE  IInv'
<1>1. Live(p) /\ Keep /\ pods[p] = "agent"
  BY DEF Agent, Live, LivePlaces, AgentPlaces
<1>2. PICK t \in TaskIds : t = Task(p)
  BY PodFacts
<1>3. ~overlapped => volume.outcome = Nothing /\ volume.result = Nothing /\ volume.change = Nothing
  BY <1>1 DEF IInv, WorkIsOwn, Fits
<1>4. PICK worked \in Worked(t, volume) : \E written \in Written(t, worked) :
        \/ volume' = written /\ Move(p, "stage")
        \/ volume' = [written EXCEPT !.outcome = [status |-> "failed", by |-> t]] /\ Move(p, "giveup")
  BY <1>2 DEF Agent
<1>5. PICK written \in Written(t, worked) :
        \/ volume' = written /\ Move(p, "stage")
        \/ volume' = [written EXCEPT !.outcome = [status |-> "failed", by |-> t]] /\ Move(p, "giveup")
  BY <1>4
<1>6. t \in Units
  BY DEF Units
<1>7. /\ worked \in Volumes /\ volume.tree \subseteq worked.tree
      /\ worked.base = volume.base /\ worked.git = volume.git /\ worked.kept = volume.kept
      /\ worked.outcome = volume.outcome /\ worked.result = volume.result /\ worked.change = volume.change
  <2>1. CASE worked = volume
    BY <2>1, VolumeFacts
  <2>2. CASE worked = [volume EXCEPT !.tree = @ \cup {t}]
    BY <1>6, <2>2, VolumeFacts DEF Volumes
  <2>3. CASE worked = [volume EXCEPT !.tree = @ \cup {t}, !.head = volume.tree \cup {t}]
    <3>1. volume.tree \cup {t} \in Maybe(SUBSET Units)
      BY <1>6, VolumeFacts DEF Maybe
    <3> QED BY <1>6, <2>3, <3>1, VolumeFacts DEF Volumes
  <2> QED BY <1>4, <2>1, <2>2, <2>3 DEF Worked
<1>8. WrittenBy(t, worked, written)
  BY <1>7, WrittenFacts
<1>9. CASE volume' = written /\ Move(p, "stage")
  <2>1. "stage" \in PodPlaces \ {"absent", "succeeded"}
    BY DEF PodPlaces, LivePlaces, AgentPlaces
  <2>2. volume' \in Volumes /\ Grows
    BY <1>7, <1>8, <1>9 DEF WrittenBy, Grows, IInv, ChangesKept, PatchesGrow
  <2>3. ~overlapped => Fits("stage", t)'
    BY <1>3, <1>7, <1>8, <1>9 DEF WrittenBy, Fits, Worker, Staged, Own
  <2> QED BY <1>1, <1>2, <1>9, <2>1, <2>2, <2>3, QuietMoves
<1>10. CASE volume' = [written EXCEPT !.outcome = [status |-> "failed", by |-> t]] /\ Move(p, "giveup")
  <2>1. "giveup" \in PodPlaces \ {"absent", "succeeded"}
    BY DEF PodPlaces, LivePlaces, AgentPlaces
  <2>2. [status |-> "failed", by |-> t] \in Outcomes
    BY DEF Outcomes, Statuses
  <2>3. written \in Volumes
    BY <1>8 DEF WrittenBy
  <2>4. /\ volume' \in Volumes /\ volume'.outcome = [status |-> "failed", by |-> t]
        /\ volume'.tree = written.tree /\ volume'.base = written.base /\ volume'.git = written.git
        /\ volume'.kept = written.kept /\ volume'.change = written.change
    BY <1>10, <2>2, <2>3 DEF Volumes, Maybe
  <2>5. Grows
    BY <1>7, <1>8, <2>4 DEF WrittenBy, Grows, IInv, ChangesKept, PatchesGrow
  <2>6. Fits("giveup", t)'
    BY <2>4 DEF Fits, Worker, Staged
  <2> QED BY <1>1, <1>2, <1>10, <2>1, <2>4, <2>5, <2>6, QuietMoves
<1> QED BY <1>5, <1>9, <1>10

LEMMA RedoPreserves ==
  ASSUME IInv, NEW p \in Pods, Redo(p), Overlaps
  PROVE  IInv'
<1>1. Live(p) /\ Keep /\ pods[p] = "redo" /\ Move(p, "restage")
  BY DEF Redo, Live, LivePlaces, AgentPlaces
<1>2. PICK t \in TaskIds : t = Task(p)
  BY PodFacts
<1>3. WrittenBy(t, volume, volume')
  BY <1>2, VolumeFacts, WrittenFacts DEF Redo
<1>4. "restage" \in PodPlaces \ {"absent", "succeeded"}
  BY DEF PodPlaces, LivePlaces, AgentPlaces
<1>5. volume' \in Volumes /\ Grows
  BY <1>3 DEF WrittenBy, Grows, IInv, ChangesKept, PatchesGrow
<1>6. ~overlapped => Fits("redo", t)
  BY <1>1, <1>2 DEF IInv, WorkIsOwn
<1>7. ~overlapped => Fits("restage", t)'
  <2>1. Settles /\ rows[t] # "none"
    BY <1>1, <1>2, <1>3, WorkingFacts DEF Keep, control, WrittenBy, Settles
  <2>2. PICK change : change = volume.change
    OBVIOUS
  <2>3. volume'.change = change
    BY <1>3, <2>2 DEF WrittenBy
  <2>4. Extends(change, t) => Extends(change, t)'
    BY <2>1, ExtendsStays
  <2>5. ~overlapped /\ volume'.change # Nothing => Extends(change, t)'
    BY <1>6, <2>2, <2>3, <2>4 DEF Fits, Staged
  <2>6. ~overlapped => Own(t)'
    BY <1>3, <1>6 DEF WrittenBy, Fits, Worker, Own
  <2> QED BY <2>3, <2>5, <2>6 DEF Fits, Worker, Staged, Extends
<1> QED BY <1>1, <1>2, <1>4, <1>5, <1>7, QuietMoves

LEMMA StagePreserves ==
  ASSUME IInv, NEW p \in Pods, Stage(p), Overlaps
  PROVE  IInv'
<1>1. Live(p) /\ Keep /\ pods[p] \in {"stage", "restage"}
  BY DEF Stage, Live, LivePlaces, AgentPlaces
<1>2. PICK t \in TaskIds : t = Task(p)
  BY PodFacts
<1>3. PICK next \in {"check", "recheck"} :
        \/ volume.outcome = Nothing /\ Move(p, next) /\ UNCHANGED volume
        \/ /\ volume.outcome # Nothing /\ volume.outcome.status # "completed"
           /\ volume' = [volume EXCEPT !.change = Nothing] /\ Move(p, next)
        \/ volume.outcome # Nothing /\ Diffable(volume) /\ volume' = Retain(volume) /\ Move(p, next)
        \/ Move(p, "failed") /\ UNCHANGED volume
  BY DEF Stage
<1>4. /\ next \in PodPlaces \ {"absent", "succeeded"} /\ next \in Worker /\ next \in Staged
      /\ next \notin {"agent", "stage", "report", "giveup"}
  BY DEF PodPlaces, LivePlaces, AgentPlaces, Worker, Staged
<1>5. /\ ~overlapped => Own(t)
      /\ ~overlapped /\ volume.change # Nothing => Extends(volume.change, t)
  BY <1>1, <1>2 DEF IInv, WorkIsOwn, Fits, Worker, Staged
<1>6. ASSUME Settles, ~overlapped, volume'.outcome = volume.outcome, volume'.result = volume.result,
             volume'.change # Nothing => Extends(volume'.change, t)
      PROVE  Fits(next, t)'
  <2>1. PICK change : change = volume'.change
    OBVIOUS
  <2>2. rows[t] # "none"
    BY <1>1, <1>2, WorkingFacts
  <2>3. change # Nothing => Extends(change, t)'
    BY <1>6, <2>1, <2>2, ExtendsStays
  <2>4. Own(t)'
    BY <1>5, <1>6 DEF Own
  <2> QED BY <1>4, <2>1, <2>3, <2>4 DEF Fits, Extends
<1>7. UNCHANGED <<rows, found>>
  BY <1>1 DEF Keep, control
<1>8. CASE volume.outcome = Nothing /\ Move(p, next) /\ UNCHANGED volume
  <2>1. Settles
    BY <1>7, <1>8 DEF Settles
  <2>2. ~overlapped => Fits(next, t)'
    BY <1>5, <1>6, <1>8, <2>1
  <2> QED BY <1>1, <1>2, <1>4, <1>8, <2>2, SameVolume, QuietMoves
<1>9. CASE volume' = [volume EXCEPT !.change = Nothing] /\ Move(p, next)
  <2>1. volume' \in Volumes
    BY <1>9, VolumeFacts DEF Volumes, Maybe
  <2>2. /\ volume'.tree = volume.tree /\ volume'.base = volume.base /\ volume'.git = volume.git
        /\ volume'.kept = volume.kept /\ volume'.change = Nothing
        /\ volume'.outcome = volume.outcome /\ volume'.result = volume.result
    BY <1>9, VolumeFacts DEF Volumes
  <2>3. Settles
    BY <1>7, <2>2 DEF Settles
  <2>4. Grows
    BY <2>2 DEF Grows, IInv, PatchesGrow
  <2>5. ~overlapped => Fits(next, t)'
    BY <1>6, <2>2, <2>3
  <2> QED BY <1>1, <1>2, <1>4, <1>9, <2>1, <2>4, <2>5, QuietMoves
<1>10. CASE volume.outcome # Nothing /\ Diffable(volume) /\ volume' = Retain(volume) /\ Move(p, next)
  <2>1. PICK change : change = Diff(volume)
    OBVIOUS
  <2>2. change \in Patches /\ (volume.base # Word => change.units = volume.tree \ volume.base)
    BY <2>1, VolumeFacts DEF Diff, Patches
  <2>3. volume' = [volume EXCEPT !.change = change, !.kept = @ \cup {change}]
    BY <1>10, <2>1 DEF Retain
  <2>4. volume' \in Volumes
    BY <2>2, <2>3, VolumeFacts DEF Volumes, Maybe
  <2>5. /\ volume'.tree = volume.tree /\ volume'.base = volume.base /\ volume'.git = volume.git
        /\ volume'.kept = volume.kept \cup {change} /\ volume'.change = change
        /\ volume'.outcome = volume.outcome /\ volume'.result = volume.result
    BY <2>3, VolumeFacts DEF Volumes
  <2>6. volume.base # Nothing
    BY <1>10 DEF Diffable
  <2>7. Settles
    BY <1>7, <2>5 DEF Settles
  <2>8. Grows
    BY <2>2, <2>5, <2>6 DEF Grows, IInv, PatchesGrow
  <2>9. ASSUME ~overlapped, volume.base # Word, NEW u \in TaskIds, u < t, rows[u] = "completed"
        PROVE  found[u].change.units \subseteq change.units
    <3>1. found[u] # Nothing /\ found[u].outcome.status = "completed"
      BY <2>9 DEF IInv, RecordsComplete
    <3>2. found[u].change # Nothing
      BY <2>9, <3>1 DEF IInv, ReportsAreOwn, OwnMessage
    <3>3. found[u].change \in volume.kept
      BY <3>1, <3>2 DEF IInv, ChangesKept
    <3>4. found[u].change.units \subseteq volume.tree \ volume.base
      BY <2>9, <3>3 DEF IInv, PatchesGrow
    <3> QED BY <2>2, <2>9, <3>4
  <2>10. ~overlapped => Extends(change, t)
    BY <2>9 DEF Extends
  <2>11. ~overlapped => Fits(next, t)'
    BY <1>6, <2>5, <2>7, <2>10
  <2> QED BY <1>1, <1>2, <1>4, <1>10, <2>4, <2>8, <2>11, QuietMoves
<1>11. CASE Move(p, "failed") /\ UNCHANGED volume
  <2>1. "failed" \in PodPlaces \ {"absent", "succeeded"} /\ "failed" \notin AgentPlaces \ {"clear"}
    BY DEF PodPlaces, AgentPlaces
  <2>2. Fits("failed", Task(p))'
    BY <2>1, IdleFits
  <2> QED BY <1>1, <1>11, <2>1, <2>2, SameVolume, QuietMoves
<1> QED BY <1>3, <1>8, <1>9, <1>10, <1>11

LEMMA CheckPreserves ==
  ASSUME IInv, NEW p \in Pods, Check(p), Overlaps
  PROVE  IInv'
<1>1. /\ Live(p) /\ Keep /\ pods[p] \in {"check", "recheck"} /\ UNCHANGED volume
  BY DEF Check, Live, LivePlaces, AgentPlaces
<1>2. PICK t \in TaskIds : t = Task(p)
  BY PodFacts
<1>3. PICK place \in {"report", "redo", "failed"} : Move(p, place) /\ (place = "report" => Valid(volume))
  BY DEF Check
<1>4. place \in PodPlaces \ {"absent", "succeeded"} /\ place \notin {"agent", "stage", "giveup"}
  BY DEF PodPlaces, LivePlaces, AgentPlaces
<1>5. /\ ~overlapped => Own(t)
      /\ ~overlapped /\ volume.change # Nothing => Extends(volume.change, t)
  BY <1>1, <1>2 DEF IInv, WorkIsOwn, Fits, Worker, Staged
<1>6. ~overlapped => Fits(place, t)'
  <2>1. Settles /\ rows[t] # "none"
    BY <1>1, <1>2, WorkingFacts DEF Keep, control, Settles
  <2>2. PICK change : change = volume.change
    OBVIOUS
  <2>3. ~overlapped /\ change # Nothing => Extends(change, t)'
    BY <1>5, <2>1, <2>2, ExtendsStays
  <2>4. ~overlapped => Own(t)'
    BY <1>1, <1>5 DEF Own
  <2>5. place = "report" => Valid(volume)'
    BY <1>1, <1>3 DEF Valid
  <2> QED BY <1>1, <1>4, <2>2, <2>3, <2>4, <2>5 DEF Fits, Extends
<1> QED BY <1>1, <1>2, <1>3, <1>4, <1>6, SameVolume, QuietMoves

LEMMA ReportPreserves ==
  ASSUME IInv, NEW p \in Pods, Report(p), Overlaps
  PROVE  IInv'
<1>1. /\ Live(p) /\ pods[p] \in {"report", "giveup"} /\ UNCHANGED <<control, jobs, volume, publication>>
  BY DEF Report, Live, LivePlaces, AgentPlaces
<1>2. PICK t \in TaskIds : t = Task(p)
  BY PodFacts
<1>3. volume' \in Volumes /\ Grows
  BY <1>1, SameVolume
<1>4. /\ "failed" \in PodPlaces \ {"absent"} /\ "failed" \notin AgentPlaces \ {"clear"}
      /\ "succeeded" \in PodPlaces \ {"absent"} /\ "succeeded" \notin AgentPlaces \ {"clear"}
  BY DEF PodPlaces, AgentPlaces
<1>5. Fits("failed", t)' /\ Fits("succeeded", t)'
  BY <1>4, IdleFits
<1>6. messages \in [TaskIds -> Maybe(Messages)]
  BY DEF IInv, TypeOK
<1>7. CASE volume.outcome = Nothing /\ Move(p, "failed") /\ UNCHANGED messages
  BY <1>1, <1>2, <1>4, <1>5, <1>3, <1>6, <1>7, PodMoves DEF Move, Reports
<1>8. PICK message : message = [outcome |-> volume.outcome, result |-> volume.result, change |-> volume.change]
  OBVIOUS
<1>9. PICK tooLarge : tooLarge = [outcome |-> [status |-> "failed", by |-> t], result |-> Nothing, change |-> Nothing]
  OBVIOUS
<1>10. /\ tooLarge \in Messages /\ OwnMessage(tooLarge, t) /\ tooLarge.change = Nothing
  <2>1. [status |-> "failed", by |-> t] \in Outcomes
    BY DEF Outcomes, Statuses
  <2> QED BY <1>9, <2>1 DEF Messages, Maybe, OwnMessage
<1>11. ASSUME volume.outcome # Nothing
       PROVE  /\ message \in Messages
              /\ message.change # Nothing => message.change \in volume.kept
              /\ ~overlapped => OwnMessage(message, t)
  <2>1. message \in Messages
    BY <1>8, <1>11, VolumeFacts DEF Messages, Maybe
  <2>2. message.change # Nothing => message.change \in volume.kept
    BY <1>8 DEF IInv, ChangesKept
  <2>3. ~overlapped => Fits(pods[p], t)
    BY <1>2 DEF IInv, WorkIsOwn
  <2>4. CASE pods[p] = "report"
    <3>1. ~overlapped => Own(t) /\ Valid(volume) /\ (volume.change # Nothing => Extends(volume.change, t))
      BY <2>3, <2>4 DEF Fits, Worker, Staged
    <3>2. ~overlapped /\ volume.outcome.status = "completed" => volume.result = t /\ volume.change # Nothing
      BY <1>11, <3>1 DEF Valid, Own
    <3> QED BY <1>8, <1>11, <2>1, <2>2, <3>1, <3>2 DEF Own, OwnMessage
  <2>5. CASE pods[p] = "giveup"
    <3>1. ~overlapped => volume.outcome = [status |-> "failed", by |-> t]
      BY <2>3, <2>5 DEF Fits
    <3> QED BY <1>8, <2>1, <2>2, <3>1 DEF OwnMessage
  <2> QED BY <1>1, <2>4, <2>5
<1>12. ASSUME NEW m \in Messages, NEW place \in {"succeeded", "failed"}, Move(p, place),
              messages' = [messages EXCEPT ![t] = IF rows[t] = "active" THEN m ELSE Nothing],
              m.change # Nothing => m.change \in volume.kept, ~overlapped => OwnMessage(m, t)
       PROVE  IInv'
  <2>1. m # Nothing
    BY NothingAssumption
  <2>2. PICK new : new = IF rows[t] = "active" THEN m ELSE Nothing
    OBVIOUS
  <2>3. /\ messages' \in [TaskIds -> Maybe(Messages)] /\ messages'[t] = new
        /\ \A u \in TaskIds \ {t} : messages'[u] = messages[u]
    BY <1>6, <1>12, <2>2 DEF Maybe
  <2>4. Reports(p)
    BY <1>2, <1>12, <2>2, <2>3 DEF Reports
  <2> QED BY <1>1, <1>2, <1>3, <1>4, <1>5, <1>12, <2>1, <2>2, <2>3, <2>4, PodMoves DEF Move
<1>13. CASE /\ volume.outcome # Nothing
            /\ messages' = [messages EXCEPT ![t] = IF rows[t] = "active" THEN message ELSE Nothing]
            /\ Move(p, IF pods[p] = "report" THEN "succeeded" ELSE "failed")
  BY <1>11, <1>12, <1>13
<1>14. CASE /\ volume.outcome # Nothing
            /\ messages' = [messages EXCEPT ![t] = IF rows[t] = "active" THEN tooLarge ELSE Nothing]
            /\ Move(p, "failed")
  BY <1>10, <1>12, <1>14
<1> QED BY <1>2, <1>7, <1>8, <1>9, <1>13, <1>14 DEF Report

LEMMA PodStepPreserves ==
  ASSUME IInv, NEW p \in Pods, PodStep(p), Overlaps
  PROVE  IInv'
BY PodFailsPreserves, ClonePreserves, ApplyPreserves, ClearPreserves, AgentPreserves, RedoPreserves,
   StagePreserves, CheckPreserves, ReportPreserves DEF PodStep

-----------------------------------------------------------------------------
(* The session controller                                                  *)

\* A step that leaves the volume alone: records and reports stay whose they are.
LEMMA ControlKeeps ==
  ASSUME IInv, UNCHANGED volume, Overlaps,
         TypeOK', TasksInOrder', PodsInOrder', RecordsComplete', PublicationFollows',
         \A q \in Pods : pods'[q] \in {pods[q], "clone"},
         \A u \in TaskIds : rows[u] # "active" /\ rows'[u] = "completed"
                              => rows[u] = "completed" /\ found'[u] = found[u],
         \A u \in TaskIds : messages'[u] \in {messages[u], Nothing},
         \A u \in TaskIds : found'[u] \in {found[u], messages[u], Nothing}
  PROVE  IInv'
<1>1. Settles /\ Grows
  BY SameVolume DEF Settles
<1>2. ChangesKept'
  BY DEF IInv, ChangesKept
<1>3. PatchesGrow'
  BY <1>1, GrowsKeepsPatches
<1>4. (TwoTasksWork => overlapped)' /\ (~overlapped' => ~overlapped)
  BY DEF Overlaps
<1>5. WorkIsOwn'
  <2> SUFFICES ASSUME ~overlapped', NEW q \in Pods PROVE Fits(pods[q], Task(q))'
    BY DEF WorkIsOwn
  <2>1. PICK place \in PodPlaces : place = pods[q]
    BY DEF IInv, TypeOK
  <2>2. PICK t \in TaskIds : t = Task(q)
    BY PodFacts
  <2>3. "clone" \in PodPlaces /\ "clone" \notin AgentPlaces \ {"clear"}
    BY DEF PodPlaces, LivePlaces, InitPlaces, AgentPlaces
  <2>4. Fits("clone", t)'
    BY <2>3, IdleFits
  <2>5. Fits(place, t)'
    <3>1. CASE Live(q)
      <4>1. rows[t] # "none" /\ Fits(place, t)
        BY <1>4, <2>1, <2>2, <3>1, WorkingFacts DEF IInv, WorkIsOwn
      <4>2. PICK change : change = volume.change
        OBVIOUS
      <4>3. Extends(change, t) => Extends(change, t)'
        BY <1>1, <4>1, ExtendsStays
      <4>4. Own(t) => Own(t)'
        BY DEF Own
      <4>5. Valid(volume) => Valid(volume)'
        BY DEF Valid
      <4> QED BY <4>1, <4>2, <4>3, <4>4, <4>5 DEF Fits, Extends
    <3>2. CASE ~Live(q)
      BY <2>1, <3>2, IdleFits DEF Live, LivePlaces
    <3> QED BY <3>1, <3>2
  <2>6. pods'[q] = place \/ pods'[q] = "clone"
    BY <2>1
  <2> QED BY <2>2, <2>4, <2>5, <2>6
<1>6. ReportsAreOwn'
  <2> SUFFICES ASSUME ~overlapped', NEW u \in TaskIds
               PROVE  (/\ messages[u] # Nothing => OwnMessage(messages[u], u)
                       /\ found[u] # Nothing => OwnMessage(found[u], u))'
    BY DEF ReportsAreOwn
  <2>1. ASSUME NEW m, OwnMessage(m, u), rows[u] # "none" PROVE OwnMessage(m, u)'
    BY <1>1, <2>1, ExtendsStays DEF OwnMessage
  <2>2. PICK m : m = messages[u]
    OBVIOUS
  <2>3. m # Nothing => OwnMessage(m, u)'
    BY <1>4, <2>1, <2>2 DEF IInv, ReportsAreOwn, PodsInOrder, PodsOrdered
  <2>4. PICK f : f = found[u]
    OBVIOUS
  <2>5. f # Nothing => OwnMessage(f, u)'
    BY <1>4, <2>1, <2>4 DEF IInv, ReportsAreOwn, RecordsComplete
  <2>6. messages'[u] \in {m, Nothing} /\ found'[u] \in {f, m, Nothing}
    BY <2>2, <2>4
  <2> QED BY <2>3, <2>5, <2>6 DEF OwnMessage
<1> QED BY <1>2, <1>3, <1>4, <1>5, <1>6 DEF IInv

LEMMA LatestFacts ==
  ASSUME IInv, NEW t \in TaskIds, IsLatest(t)
  PROVE  /\ \A u \in TaskIds : u > t => rows[u] = "none"
         /\ \A u \in TaskIds : u < t => rows[u] \in Terminal
         /\ \A u \in TaskIds : rows[u] = "active" => u = t
<1>1. \A u \in TaskIds : u > t => rows[u] = "none"
  BY TaskFacts DEF IsLatest
<1>2. \A u \in TaskIds : rows[u] = "active" => u = t
  BY TaskFacts DEF IInv, TasksInOrder, IsLatest
<1>3. ASSUME NEW u \in TaskIds, u < t PROVE rows[u] \in Terminal
  <2>1. rows[u] # "none"
    BY <1>3 DEF IInv, TasksInOrder, IsLatest
  <2>2. rows[u] # "active"
    BY <1>2, <1>3, TaskFacts
  <2>3. rows[u] \in RowStates
    BY DEF IInv, TypeOK
  <2> QED BY <2>1, <2>2, <2>3 DEF RowStates, Terminal
<1> QED BY <1>1, <1>2, <1>3

LEMMA RetryPreserves ==
  ASSUME IInv, NEW t \in TaskIds, Retry(t), Overlaps
  PROVE  IInv'
<1>1. /\ jobs[t] = "active" /\ pods[<<t, 1>>] = "failed" /\ pods[<<t, 2>>] = "absent"
      /\ pods' = [pods EXCEPT ![<<t, 2>>] = "clone"] /\ messages' = [messages EXCEPT ![t] = Nothing]
      /\ UNCHANGED <<input, rows, found, jobs, volume, lease, pub, publisher, branch>>
  BY DEF Retry, Move, control, publication
<1>2. /\ pods \in [Pods -> PodPlaces] /\ "clone" \in PodPlaces
      /\ messages \in [TaskIds -> Maybe(Messages)] /\ Nothing \in Maybe(Messages)
  BY DEF IInv, TypeOK, PodPlaces, LivePlaces, InitPlaces, Maybe
<1>3. /\ pods'[<<t, 2>>] = "clone" /\ \A q \in Pods \ {<<t, 2>>} : pods'[q] = pods[q]
      /\ messages'[t] = Nothing /\ \A u \in TaskIds \ {t} : messages'[u] = messages[u]
  BY <1>1, <1>2, PodFacts
<1>4. TypeOK'
  <2>1. pods' \in [Pods -> PodPlaces] /\ messages' \in [TaskIds -> Maybe(Messages)]
    BY <1>1, <1>2
  <2>2. overlapped' \in BOOLEAN
    BY DEF Overlaps, IInv, TypeOK
  <2> QED BY <1>1, <2>1, <2>2 DEF IInv, TypeOK
<1>5. TasksInOrder' /\ RecordsComplete' /\ PublicationFollows'
  BY <1>1 DEF IInv, TasksInOrder, IsLatest, RecordsComplete, PublicationFollows
<1>6. PodsInOrder'
  <2>1. /\ \A u \in TaskIds \ {t} : /\ pods'[<<u, 1>>] = pods[<<u, 1>>] /\ pods'[<<u, 2>>] = pods[<<u, 2>>]
                                    /\ (Succeeded(u)' <=> Succeeded(u))
        /\ pods'[<<t, 1>>] = "failed" /\ pods'[<<t, 2>>] = "clone" /\ ~Succeeded(t) /\ ~Succeeded(t)'
    BY <1>1, <1>3, PodFacts DEF Succeeded
  <2>2. rows[t] \notin {"none", "completed", "blocked"}
    BY <1>1, <2>1 DEF IInv, PodsInOrder, PodsOrdered
  <2> SUFFICES ASSUME NEW u \in TaskIds PROVE PodsOrdered(u)'
    BY DEF PodsInOrder
  <2>3. CASE u = t
    BY <1>1, <1>3, <2>1, <2>2, <2>3 DEF PodsOrdered
  <2>4. CASE u # t
    BY <1>1, <1>3, <2>1, <2>4 DEF IInv, PodsInOrder, PodsOrdered
  <2> QED BY <2>3, <2>4
<1> QED BY <1>1, <1>3, <1>4, <1>5, <1>6, ControlKeeps

LEMMA ExpirePreserves ==
  ASSUME IInv, NEW t \in TaskIds, Expire(t), Overlaps
  PROVE  IInv'
<1>1. /\ jobs[t] = "active" /\ jobs' = [jobs EXCEPT ![t] = "expired"]
      /\ UNCHANGED <<input, rows, found, pods, messages, volume, lease, pub, publisher, branch>>
  BY DEF Expire, control, publication
<1>2. jobs' \in [TaskIds -> JobStates] /\ \A u \in TaskIds \ {t} : jobs'[u] = jobs[u]
  BY <1>1 DEF IInv, TypeOK, JobStates
<1>3. TypeOK'
  <2>1. overlapped' \in BOOLEAN
    BY DEF Overlaps
  <2> QED BY <1>1, <1>2, <2>1 DEF IInv, TypeOK
<1>4. TasksInOrder' /\ RecordsComplete' /\ PublicationFollows'
  BY <1>1 DEF IInv, TasksInOrder, IsLatest, RecordsComplete, PublicationFollows
<1>5. PodsInOrder'
  <2> SUFFICES ASSUME NEW u \in TaskIds PROVE PodsOrdered(u)'
    BY DEF PodsInOrder
  <2>1. PodsOrdered(u) /\ (Succeeded(u)' <=> Succeeded(u))
    BY <1>1 DEF IInv, PodsInOrder, Succeeded
  <2>2. jobs'[u] = "none" <=> jobs[u] = "none"
    BY <1>1, <1>2 DEF IInv, TypeOK
  <2> QED BY <1>1, <2>1, <2>2 DEF PodsOrdered
<1> QED BY <1>1, <1>3, <1>4, <1>5, ControlKeeps

LEMMA LaunchPreserves ==
  ASSUME IInv, NEW t \in TaskIds, Launch(t), Overlaps, rows[t] = "none", ~lease,
         \A u \in TaskIds : u > t => rows[u] = "none",
         \A u \in TaskIds : u < t => rows[u] \in Terminal
  PROVE  IInv'
<1>1. /\ rows' = [rows EXCEPT ![t] = "active"] /\ jobs' = [jobs EXCEPT ![t] = "active"]
      /\ pods' = [pods EXCEPT ![<<t, 1>>] = "clone"]
      /\ UNCHANGED <<input, found, messages, volume, lease, pub, publisher, branch>>
  BY DEF Launch, Move, publication
<1>2. /\ rows \in [TaskIds -> RowStates] /\ jobs \in [TaskIds -> JobStates] /\ pods \in [Pods -> PodPlaces]
      /\ "active" \in RowStates /\ "active" \in JobStates /\ "clone" \in PodPlaces
  BY DEF IInv, TypeOK, RowStates, JobStates, PodPlaces, LivePlaces, InitPlaces
<1>3. /\ rows'[t] = "active" /\ \A u \in TaskIds \ {t} : rows'[u] = rows[u]
      /\ jobs'[t] = "active" /\ \A u \in TaskIds \ {t} : jobs'[u] = jobs[u]
      /\ pods'[<<t, 1>>] = "clone" /\ \A q \in Pods \ {<<t, 1>>} : pods'[q] = pods[q]
  BY <1>1, <1>2, PodFacts
<1>4. TypeOK'
  <2>1. /\ rows' \in [TaskIds -> RowStates] /\ jobs' \in [TaskIds -> JobStates]
        /\ pods' \in [Pods -> PodPlaces]
    BY <1>1, <1>2
  <2>2. overlapped' \in BOOLEAN
    BY DEF Overlaps, IInv, TypeOK
  <2> QED BY <1>1, <2>1, <2>2 DEF IInv, TypeOK
<1>5. TasksInOrder'
  <2>1. \A u \in TaskIds : u = t \/ u < t \/ u > t
    BY TaskFacts
  <2>2. \A u \in TaskIds : u < t => rows'[u] \in Terminal
    BY <1>3, TaskFacts
  <2>3. \A u \in TaskIds : u > t => rows'[u] = "none"
    BY <1>3, TaskFacts
  <2>4. \A u \in TaskIds : rows'[u] = "active" => u = t
    BY <2>1, <2>2, <2>3 DEF Terminal
  <2>5. \A u \in TaskIds : rows'[u] # "none" => u <= t
    BY <2>1, <2>3, TaskFacts
  <2>6. IsLatest(t)'
    BY <1>3, <2>5 DEF IsLatest
  <2>7. \A v, u \in TaskIds : u < v /\ rows'[v] # "none" => rows'[u] # "none"
    <3> SUFFICES ASSUME NEW v \in TaskIds, NEW u \in TaskIds, u < v, rows'[v] # "none" PROVE rows'[u] # "none"
      OBVIOUS
    <3>1. u < t
      BY <2>5, TaskFacts
    <3> QED BY <2>2, <3>1 DEF Terminal
  <2> QED BY <2>4, <2>6, <2>7 DEF TasksInOrder
<1>6. RecordsComplete'
  <2>1. found[t] = Nothing
    BY DEF IInv, RecordsComplete
  <2> QED BY <1>1, <1>3, <2>1 DEF IInv, RecordsComplete
<1>7. PublicationFollows'
  BY <1>1, <1>3 DEF IInv, PublicationFollows
<1>8. PodsInOrder'
  <2>1. \A u \in TaskIds \ {t} : /\ pods'[<<u, 1>>] = pods[<<u, 1>>] /\ pods'[<<u, 2>>] = pods[<<u, 2>>]
                                 /\ (Succeeded(u)' <=> Succeeded(u))
    <3> SUFFICES ASSUME NEW u \in TaskIds \ {t}
                 PROVE  /\ pods'[<<u, 1>>] = pods[<<u, 1>>] /\ pods'[<<u, 2>>] = pods[<<u, 2>>]
                        /\ (Succeeded(u)' <=> Succeeded(u))
      OBVIOUS
    <3>1. <<u, 1>> \in Pods \ {<<t, 1>>} /\ <<u, 2>> \in Pods \ {<<t, 1>>}
      BY PodFacts
    <3>2. pods'[<<u, 1>>] = pods[<<u, 1>>] /\ pods'[<<u, 2>>] = pods[<<u, 2>>]
      BY <1>3, <3>1
    <3> QED BY <3>2 DEF Succeeded
  <2>2. pods[<<t, 1>>] = "absent" /\ pods[<<t, 2>>] = "absent" /\ messages[t] = Nothing
    BY DEF IInv, PodsInOrder, PodsOrdered
  <2>3. pods'[<<t, 1>>] = "clone" /\ pods'[<<t, 2>>] = "absent" /\ ~Succeeded(t)'
    BY <1>3, <2>2, PodFacts DEF Succeeded
  <2> SUFFICES ASSUME NEW u \in TaskIds PROVE PodsOrdered(u)'
    BY DEF PodsInOrder
  <2>4. CASE u = t
    BY <1>1, <1>3, <2>2, <2>3, <2>4 DEF PodsOrdered
  <2>5. CASE u # t
    BY <1>1, <1>3, <2>1, <2>5 DEF IInv, PodsInOrder, PodsOrdered
  <2> QED BY <2>4, <2>5
<1>9. /\ \A q \in Pods : pods'[q] \in {pods[q], "clone"}
      /\ \A u \in TaskIds : rows[u] # "active" /\ rows'[u] = "completed"
                              => rows[u] = "completed" /\ found'[u] = found[u]
  BY <1>1, <1>3
<1> QED BY <1>1, <1>4, <1>5, <1>6, <1>7, <1>8, <1>9, ControlKeeps

LEMMA AddsPreserve ==
  ASSUME IInv, Start \/ \E t \in TaskIds : Continue(t), Overlaps
  PROVE  IInv'
<1>1. CASE Start
  <2>1. 1 \in TaskIds /\ \A u \in TaskIds : ~(u < 1) /\ (u > 1 => rows[u] = "none")
    BY <1>1, TaskFacts DEF Start, IInv, TasksInOrder
  <2>2. \A u \in TaskIds : rows[u] = "none"
    BY <1>1, <2>1, TaskFacts DEF Start
  <2>3. ~lease
    BY <2>2 DEF IInv, PublicationFollows
  <2> QED BY <1>1, <2>1, <2>3, LaunchPreserves DEF Start
<1>2. ASSUME NEW t \in TaskIds, Continue(t) PROVE IInv'
  <2>1. t + 1 \in TaskIds /\ IsLatest(t) /\ rows[t] \in Terminal /\ ~lease /\ Launch(t + 1)
    BY <1>2 DEF Continue
  <2>2. \A u \in TaskIds : (u > t + 1 \/ u = t + 1 => u > t) /\ (u < t + 1 => u < t \/ u = t)
    BY TaskFacts
  <2>3. /\ rows[t + 1] = "none" /\ \A u \in TaskIds : u > t + 1 => rows[u] = "none"
        /\ \A u \in TaskIds : u < t + 1 => rows[u] \in Terminal
    BY <2>1, <2>2, LatestFacts
  <2> QED BY <2>1, <2>3, LaunchPreserves
<1> QED BY <1>1, <1>2

LEMMA ObservePreserves ==
  ASSUME IInv, NEW t \in TaskIds, Observe(t), Overlaps
  PROVE  IInv'
<1>1. /\ ~lease /\ rows[t] = "active"
      /\ found' = [found EXCEPT ![t] = IF rows'[t] = "completed" THEN messages[t] ELSE Nothing]
      /\ messages' = [messages EXCEPT ![t] = Nothing]
      /\ UNCHANGED <<input, jobs, pods, volume, lease, pub, publisher, branch>>
  BY DEF Observe, publication
<1>2. /\ rows \in [TaskIds -> RowStates] /\ found \in [TaskIds -> Maybe(Messages)]
      /\ messages \in [TaskIds -> Maybe(Messages)] /\ Nothing \in Maybe(Messages)
  BY DEF IInv, TypeOK, Maybe
<1>3. PICK state \in {"completed", "blocked", "failed"} :
        /\ rows' = [rows EXCEPT ![t] = state]
        /\ state # "failed" => Succeeded(t) /\ messages[t] # Nothing /\ messages[t] \in Messages
                               /\ messages[t].outcome.status = state
        /\ state = "completed" => messages[t].result # Nothing
  <2>1. CASE /\ Succeeded(t)
             /\ messages[t].outcome.status = "completed" => messages[t].result # Nothing
             /\ rows' = [rows EXCEPT ![t] = messages[t].outcome.status]
    <3>1. messages[t] # Nothing /\ messages[t] \in Messages
      BY <1>1, <1>2, <2>1 DEF IInv, PodsInOrder, PodsOrdered, Maybe
    <3>2. messages[t].outcome.status \in {"completed", "blocked", "failed"}
      BY <3>1 DEF Messages, Outcomes, Statuses
    <3> QED BY <2>1, <3>1, <3>2
  <2>2. CASE rows' = [rows EXCEPT ![t] = "failed"]
    BY <2>2
  <2> QED BY <2>1, <2>2 DEF Observe
<1>4. state \in RowStates
  BY DEF RowStates
<1>5. /\ rows'[t] = state /\ \A u \in TaskIds \ {t} : rows'[u] = rows[u]
      /\ found'[t] = (IF state = "completed" THEN messages[t] ELSE Nothing)
      /\ \A u \in TaskIds \ {t} : found'[u] = found[u]
      /\ messages'[t] = Nothing /\ \A u \in TaskIds \ {t} : messages'[u] = messages[u]
  BY <1>1, <1>2, <1>3
<1>6. TypeOK'
  <2>1. rows' \in [TaskIds -> RowStates]
    BY <1>2, <1>3, <1>4
  <2>2. found' \in [TaskIds -> Maybe(Messages)] /\ messages' \in [TaskIds -> Maybe(Messages)]
    BY <1>1, <1>2
  <2>3. overlapped' \in BOOLEAN
    BY DEF Overlaps, IInv, TypeOK
  <2> QED BY <1>1, <2>1, <2>2, <2>3 DEF IInv, TypeOK
<1>7. TasksInOrder'
  <2>1. \A u \in TaskIds : (rows'[u] = "none" <=> rows[u] = "none") /\ (rows'[u] = "active" => rows[u] = "active")
    BY <1>1, <1>5
  <2> QED BY <2>1 DEF IInv, TasksInOrder, IsLatest
<1>8. RecordsComplete'
  BY <1>3, <1>5 DEF IInv, RecordsComplete
<1>9. PublicationFollows'
  BY <1>1, <1>5 DEF IInv, PublicationFollows
<1>10. PodsInOrder'
  <2>1. \A u \in TaskIds : Succeeded(u)' <=> Succeeded(u)
    BY <1>1 DEF Succeeded
  <2> SUFFICES ASSUME NEW u \in TaskIds PROVE PodsOrdered(u)'
    BY DEF PodsInOrder
  <2>2. PodsOrdered(u)
    BY DEF IInv, PodsInOrder
  <2>3. CASE u = t
    <3>1. rows'[t] \notin {"none", "active"} /\ messages'[t] = Nothing
      BY <1>5
    <3>2. rows'[t] \in {"completed", "blocked"} => Succeeded(t)
      BY <1>3, <1>5
    <3> QED BY <1>1, <2>1, <2>2, <2>3, <3>1, <3>2 DEF PodsOrdered
  <2>4. CASE u # t
    BY <1>1, <1>5, <2>1, <2>2, <2>4 DEF PodsOrdered
  <2> QED BY <2>3, <2>4
<1>11. /\ \A q \in Pods : pods'[q] \in {pods[q], "clone"}
       /\ \A u \in TaskIds : rows[u] # "active" /\ rows'[u] = "completed"
                               => rows[u] = "completed" /\ found'[u] = found[u]
       /\ \A u \in TaskIds : messages'[u] \in {messages[u], Nothing}
       /\ \A u \in TaskIds : found'[u] \in {found[u], messages[u], Nothing}
  BY <1>1, <1>5
<1> QED BY <1>1, <1>6, <1>7, <1>8, <1>9, <1>10, <1>11, ControlKeeps

LEMMA DeletePreserves ==
  ASSUME IInv, NEW t \in TaskIds, Delete(t), Overlaps
  PROVE  IInv'
<1>1. /\ ~lease /\ IsLatest(t)
      /\ rows' = [rows EXCEPT ![t] = IF @ = "active" THEN "canceled" ELSE @]
      /\ jobs' = [u \in TaskIds |-> IF jobs[u] = "none" THEN "none" ELSE "deleted"]
      /\ messages' = [u \in TaskIds |-> Nothing] /\ publisher' = "absent"
      /\ UNCHANGED <<input, found, pods, volume, lease, pub, branch>>
  BY DEF Delete
<1>2. /\ rows \in [TaskIds -> RowStates] /\ jobs \in [TaskIds -> JobStates]
      /\ "canceled" \in RowStates /\ "deleted" \in JobStates /\ "none" \in JobStates
      /\ "absent" \in PublisherPlaces /\ Nothing \in Maybe(Messages)
  BY DEF IInv, TypeOK, RowStates, JobStates, PublisherPlaces, Maybe
<1>3. /\ \A u \in TaskIds : rows'[u] = IF rows[u] = "active" THEN "canceled" ELSE rows[u]
      /\ \A u \in TaskIds : rows'[u] # "active"
  BY <1>1, <1>2, LatestFacts
<1>4. TypeOK'
  <2>1. rows' \in [TaskIds -> RowStates]
    BY <1>1, <1>2
  <2>2. jobs' \in [TaskIds -> JobStates] /\ messages' \in [TaskIds -> Maybe(Messages)]
    BY <1>1, <1>2
  <2>3. overlapped' \in BOOLEAN
    BY DEF Overlaps, IInv, TypeOK
  <2> QED BY <1>1, <1>2, <2>1, <2>2, <2>3 DEF IInv, TypeOK
<1>5. TasksInOrder'
  BY <1>3 DEF IInv, TasksInOrder
<1>6. RecordsComplete'
  BY <1>1, <1>3 DEF IInv, RecordsComplete
<1>7. PublicationFollows'
  BY <1>1, <1>3 DEF IInv, PublicationFollows
<1>8. PodsInOrder'
  <2> SUFFICES ASSUME NEW u \in TaskIds PROVE PodsOrdered(u)'
    BY DEF PodsInOrder
  <2>1. PodsOrdered(u) /\ (Succeeded(u)' <=> Succeeded(u)) /\ messages'[u] = Nothing
    BY <1>1 DEF IInv, PodsInOrder, Succeeded
  <2>2. jobs[u] = "none" => jobs'[u] = "none"
    BY <1>1
  <2> QED BY <1>1, <1>3, <2>1, <2>2 DEF PodsOrdered
<1>9. /\ \A q \in Pods : pods'[q] \in {pods[q], "clone"}
      /\ \A u \in TaskIds : rows[u] # "active" /\ rows'[u] = "completed"
                              => rows[u] = "completed" /\ found'[u] = found[u]
      /\ \A u \in TaskIds : messages'[u] \in {messages[u], Nothing}
  BY <1>1, <1>3
<1> QED BY <1>1, <1>4, <1>5, <1>6, <1>7, <1>8, <1>9, ControlKeeps

-----------------------------------------------------------------------------
(* The publication                                                         *)

\* A step of the publication leaves tasks and volume alone.
LEMMA PublicationKeeps ==
  ASSUME IInv, UNCHANGED <<control, jobs, pods, messages, volume>>, Overlaps,
         lease' \in BOOLEAN, pub' \in Publications, publisher' \in PublisherPlaces, branch' \in Maybe(Patches),
         PublicationFollows'
  PROVE  IInv'
<1>1. UNCHANGED <<input, rows, found, jobs, pods, messages, volume>>
  BY DEF control
<1>2. overlapped' \in BOOLEAN
  BY DEF Overlaps, IInv, TypeOK
<1>3. TypeOK'
  BY <1>1, <1>2 DEF IInv, TypeOK
<1>4. TasksInOrder' /\ RecordsComplete'
  BY <1>1 DEF IInv, TasksInOrder, IsLatest, RecordsComplete
<1>5. PodsInOrder'
  <2> SUFFICES ASSUME NEW t \in TaskIds PROVE PodsOrdered(t)'
    BY DEF PodsInOrder
  <2>1. PodsOrdered(t) /\ (Succeeded(t)' <=> Succeeded(t))
    BY <1>1 DEF IInv, PodsInOrder, Succeeded
  <2> QED BY <1>1, <2>1 DEF PodsOrdered
<1> QED BY <1>1, <1>3, <1>4, <1>5, ControlKeeps

LEMMA PublishPreserves ==
  ASSUME IInv, NEW t \in TaskIds, Publish(t), Overlaps
  PROVE  IInv'
<1>1. /\ IsLatest(t) /\ rows[t] = "completed" /\ ~lease /\ lease'
      /\ pub' = (IF pub.state = "none" THEN [state |-> "ready", task |-> t, change |-> found[t].change] ELSE pub)
      /\ publisher' = (IF publisher = "absent" THEN "check" ELSE publisher)
      /\ UNCHANGED <<control, jobs, pods, messages, volume, branch>> /\ UNCHANGED <<rows, found>>
  BY DEF Publish, control
<1>2. found[t] # Nothing /\ found[t] \in Maybe(Messages)
  BY <1>1 DEF IInv, RecordsComplete, TypeOK
<1>3. found[t].change \in Maybe(Patches)
  BY <1>2 DEF Maybe, Messages
<1>4. pub' \in Publications /\ publisher' \in PublisherPlaces /\ branch' \in Maybe(Patches) /\ lease' \in BOOLEAN
  <2>1. pub \in Publications /\ publisher \in PublisherPlaces /\ branch \in Maybe(Patches)
    BY DEF IInv, TypeOK
  <2>2. [state |-> "ready", task |-> t, change |-> found[t].change] \in Publications
    BY <1>3 DEF Publications, Maybe
  <2>3. lease' \in BOOLEAN
    BY DEF Publish
  <2> QED BY <1>1, <2>1, <2>2, <2>3 DEF PublisherPlaces
<1>5. \A u \in TaskIds : rows[u] # "active"
  BY <1>1, LatestFacts
<1>6. PublicationFollows'
  <2>1. CASE pub.state = "none"
    <3>1. pub' = [state |-> "ready", task |-> t, change |-> found[t].change] /\ branch = Nothing
      BY <1>1, <2>1 DEF IInv, PublicationFollows
    <3> QED BY <1>1, <1>5, <3>1 DEF PublicationFollows
  <2>2. CASE pub.state # "none"
    BY <1>1, <1>5, <2>2 DEF IInv, PublicationFollows
  <2> QED BY <2>1, <2>2
<1> QED BY <1>1, <1>4, <1>6, PublicationKeeps

LEMMA PublicationStepsPreserve ==
  ASSUME IInv, LoseLease \/ EndPublish \/ ReadMetadata \/ Push \/ PublisherFails, Overlaps
  PROVE  IInv'
<1>1. /\ pub \in Publications /\ publisher \in PublisherPlaces /\ branch \in Maybe(Patches) /\ lease \in BOOLEAN
      /\ publisher # "absent" => pub.state # "none"
  BY DEF IInv, TypeOK, PublicationFollows
<1>2. CASE LoseLease
  <2>1. /\ ~lease' /\ lease' \in BOOLEAN /\ UNCHANGED <<control, jobs, pods, messages, volume>>
        /\ UNCHANGED <<rows, found, pub, publisher, branch>>
    BY <1>2 DEF LoseLease, control
  <2>2. PublicationFollows'
    BY <2>1 DEF IInv, PublicationFollows
  <2> QED BY <1>1, <2>1, <2>2, PublicationKeeps
<1>3. CASE EndPublish
  <2>1. /\ publisher \in {"succeeded", "failed"} /\ publisher' = "absent" /\ ~lease' /\ lease' \in BOOLEAN
        /\ UNCHANGED <<control, jobs, pods, messages, volume>> /\ UNCHANGED <<rows, found, branch>>
    BY <1>3 DEF EndPublish, control
  <2>2. PICK state \in {"over", "ready"} : pub' = [pub EXCEPT !.state = state]
    BY <1>3 DEF EndPublish
  <2>3. pub' \in Publications /\ pub'.state = state /\ pub'.task = pub.task /\ pub'.change = pub.change
    BY <1>1, <2>2 DEF Publications
  <2>4. pub.state # "none"
    BY <1>1, <2>1
  <2>5. PublicationFollows'
    BY <2>1, <2>3, <2>4 DEF IInv, PublicationFollows
  <2>6. "absent" \in PublisherPlaces
    BY DEF PublisherPlaces
  <2> QED BY <1>1, <2>1, <2>3, <2>5, <2>6, PublicationKeeps
<1>4. ASSUME NEW from, NEW to \in PublisherPlaces \ {"absent"}, from # "absent", Publishes(from, to),
             branch' \in Maybe(Patches), branch' = branch \/ (pub.change # Nothing => branch' = pub.change)
      PROVE  IInv'
  <2>1. /\ publisher = from /\ publisher' = to /\ UNCHANGED <<control, jobs, pods, messages, volume>>
        /\ UNCHANGED <<rows, found, lease, pub>>
    BY <1>4 DEF Publishes, control
  <2>2. pub.state # "none"
    BY <1>1, <1>4, <2>1
  <2>3. PublicationFollows'
    BY <1>4, <2>1, <2>2 DEF IInv, PublicationFollows
  <2> QED BY <1>1, <1>4, <2>1, <2>3, PublicationKeeps
<1>5. {"push", "title", "succeeded", "failed"} \subseteq PublisherPlaces \ {"absent"}
  BY DEF PublisherPlaces
<1>6. CASE ReadMetadata
  <2>1. PICK from \in {"check", "title"}, to \in {"push", "succeeded", "failed"} :
          Publishes(from, to) /\ UNCHANGED branch
    BY <1>6 DEF ReadMetadata
  <2> QED BY <1>1, <1>4, <1>5, <2>1
<1>7. CASE Push
  <2>1. CASE Publishes("push", "title") /\ branch' = Content
    <3>1. [units |-> volume.tree, torn |-> ~volume.whole] \in Patches
      BY VolumeFacts DEF Patches
    <3>2. Content \in Maybe(Patches) /\ (pub.change # Nothing => Content = pub.change)
      BY <1>1, <3>1 DEF Content, Publications, Maybe
    <3> QED BY <1>4, <1>5, <2>1, <3>2
  <2>2. CASE Publishes("push", "failed") /\ UNCHANGED branch
    BY <1>1, <1>4, <1>5, <2>2
  <2> QED BY <1>7, <2>1, <2>2 DEF Push
<1>8. CASE PublisherFails
  <2>1. PICK from \in {"check", "push", "title"} : Publishes(from, "failed") /\ UNCHANGED branch
    BY <1>8 DEF PublisherFails
  <2> QED BY <1>1, <1>4, <1>5, <2>1
<1> QED BY <1>2, <1>3, <1>6, <1>7, <1>8

-----------------------------------------------------------------------------
(* The induction                                                           *)

LEMMA InitEstablishes == Init => IInv
<1> SUFFICES ASSUME Init PROVE IInv
  OBVIOUS
<1>1. volume \in Volumes
  BY DEF Init, EmptyVolume, Volumes, Maybe
<1>2. TypeOK
  <2>1. rows \in [TaskIds -> RowStates] /\ jobs \in [TaskIds -> JobStates] /\ pods \in [Pods -> PodPlaces]
    BY DEF Init, RowStates, JobStates, PodPlaces
  <2>2. found \in [TaskIds -> Maybe(Messages)] /\ messages \in [TaskIds -> Maybe(Messages)]
    BY DEF Init, Maybe
  <2>3. pub \in Publications /\ publisher \in PublisherPlaces /\ branch \in Maybe(Patches)
    BY DEF Init, NoPublication, Publications, PublisherPlaces, Maybe
  <2> QED BY <1>1, <2>1, <2>2, <2>3 DEF Init, TypeOK
<1>3. \A p \in Pods : pods[p] = "absent"
  BY DEF Init
<1>4. TasksInOrder /\ RecordsComplete
  BY DEF Init, TasksInOrder, RecordsComplete
<1>5. PodsInOrder
  BY <1>3, PodFacts DEF Init, PodsInOrder, PodsOrdered
<1>6. ChangesKept /\ PatchesGrow
  BY DEF Init, EmptyVolume, ChangesKept, PatchesGrow
<1>7. PublicationFollows
  BY DEF Init, NoPublication, PublicationFollows
<1>8. TwoTasksWork => overlapped
  BY <1>3 DEF TwoTasksWork, Live, LivePlaces, InitPlaces, AgentPlaces
<1>9. WorkIsOwn
  BY <1>3 DEF WorkIsOwn, Fits, Worker, Staged
<1>10. ReportsAreOwn
  BY DEF Init, ReportsAreOwn
<1> QED BY <1>2, <1>4, <1>5, <1>6, <1>7, <1>8, <1>9, <1>10 DEF IInv

LEMMA NextPreserves == IInv /\ [Next]_vars => IInv'
<1> SUFFICES ASSUME IInv, [Next]_vars PROVE IInv'
  OBVIOUS
<1>1. CASE Next
  <2>1. Overlaps
    BY <1>1 DEF Next, Overlaps
  <2>2. CASE \E p \in Pods : PodStep(p)
    BY <2>1, <2>2, PodStepPreserves
  <2>3. CASE \E t \in TaskIds : TaskStep(t)
    BY <2>1, <2>3, RetryPreserves, ExpirePreserves, AddsPreserve, ObservePreserves, DeletePreserves,
       PublishPreserves DEF TaskStep
  <2>4. CASE Start
    BY <2>1, <2>4, AddsPreserve
  <2>5. CASE LoseLease \/ EndPublish \/ ReadMetadata \/ Push \/ PublisherFails
    BY <2>1, <2>5, PublicationStepsPreserve
  <2> QED BY <1>1, <2>2, <2>3, <2>4, <2>5 DEF Next
<1>2. CASE UNCHANGED vars
  <2>1. UNCHANGED <<control, jobs, pods, messages, volume>> /\ UNCHANGED <<rows, found, lease, pub, publisher, branch>>
    BY <1>2 DEF vars, control, publication
  <2>2. Overlaps
    <3>1. TwoTasksWork' <=> TwoTasksWork
      BY <2>1 DEF TwoTasksWork, Live
    <3>2. overlapped' = overlapped
      BY <1>2 DEF vars
    <3>3. overlapped \in BOOLEAN /\ (TwoTasksWork => overlapped)
      BY DEF IInv, TypeOK
    <3> QED BY <3>1, <3>2, <3>3 DEF Overlaps
  <2>3. PublicationFollows'
    BY <2>1 DEF IInv, PublicationFollows
  <2> QED BY <2>1, <2>2, <2>3, PublicationKeeps DEF IInv, TypeOK
<1> QED BY <1>1, <1>2

\* What is recorded, reported, at work and on the volume, together.
THEOREM InductiveInvariant == Spec => []IInv
<1> QED BY InitEstablishes, NextPreserves, PTL DEF Spec

\* Rows, Jobs, pods, messages, volume and publication have the types that
\* SessionVolume declares.
THEOREM TypeCorrect == Spec => []TypeOK
<1>1. IInv => TypeOK
  BY DEF IInv
<1> QED BY <1>1, InductiveInvariant, PTL

\* ResultsAreOwn: what is recorded for a completed task was written by its own
\* agent, although each run_task finds the files of those before it.
THEOREM OwnResults == Spec => []ResultsAreOwn
<1>1. IInv => ResultsAreOwn
  <2> SUFFICES ASSUME IInv, NEW t \in TaskIds, rows[t] = "completed", ~overlapped
               PROVE  found[t].outcome.by = t /\ found[t].result = t /\ found[t].change # Nothing
    BY DEF ResultsAreOwn, Completed
  <2>1. found[t] # Nothing /\ found[t].outcome.status = "completed"
    BY DEF IInv, RecordsComplete
  <2> QED BY <2>1 DEF IInv, ReportsAreOwn, OwnMessage
<1> QED BY <1>1, InductiveInvariant, PTL

\* RecordedChangesStay: a patch on record is on the volume for good, under the
\* digest that create_change_artifact gave it.
THEOREM RecordedChanges == Spec => []RecordedChangesStay
<1>1. IInv => RecordedChangesStay
  <2> SUFFICES ASSUME IInv PROVE RecordedChangesStay
    OBVIOUS
  <2>1. \A t \in TaskIds : found[t] # Nothing /\ found[t].change # Nothing => found[t].change \in volume.kept
    BY DEF IInv, ChangesKept
  <2>2. pub.change # Nothing => pub.change \in volume.kept
    <3>1. pub.change # Nothing =>
            pub.task \in TaskIds /\ found[pub.task] # Nothing /\ pub.change = found[pub.task].change
      BY DEF IInv, PublicationFollows, RecordsComplete
    <3> QED BY <2>1, <3>1
  <2> QED BY <2>1, <2>2 DEF RecordedChangesStay
<1> QED BY <1>1, InductiveInvariant, PTL

\* PublishedIsRecorded: the publisher pushes the recorded patch of the completed
\* task that the publication is of, whatever the workspace has become.
THEOREM PublishedRecorded == Spec => []PublishedIsRecorded
<1>1. IInv => PublishedIsRecorded
  <2> SUFFICES ASSUME IInv, branch # Nothing
               PROVE  /\ pub.change # Nothing =>
                           branch = pub.change /\ Completed(pub.task) /\ branch = found[pub.task].change
                      /\ ~overlapped => pub.change # Nothing
    BY DEF PublishedIsRecorded
  <2>1. /\ pub.task \in TaskIds /\ rows[pub.task] = "completed" /\ pub.change = found[pub.task].change
        /\ pub.change # Nothing => branch = pub.change
    BY DEF IInv, PublicationFollows
  <2>2. found[pub.task] # Nothing /\ found[pub.task].outcome.status = "completed"
    BY <2>1 DEF IInv, RecordsComplete
  <2>3. ~overlapped => found[pub.task].change # Nothing
    BY <2>1, <2>2 DEF IInv, ReportsAreOwn, OwnMessage
  <2> QED BY <2>1, <2>3 DEF Completed
<1> QED BY <1>1, InductiveInvariant, PTL

\* ChangesAccumulate: the patch of a later task has what an earlier one's had,
\* since both are taken against the commit that repo-init recorded once.
THEOREM Accumulation == Spec => []ChangesAccumulate
<1>1. IInv => ChangesAccumulate
  <2> SUFFICES ASSUME IInv, NEW t \in TaskIds, NEW u \in TaskIds, t < u, rows[t] = "completed",
                      rows[u] = "completed", ~overlapped, volume.base # Word
               PROVE  found[t].change.units \subseteq found[u].change.units
    BY DEF ChangesAccumulate, Completed
  <2>1. found[u] # Nothing /\ found[u].outcome.status = "completed"
    BY DEF IInv, RecordsComplete
  <2>2. Extends(found[u].change, u)
    BY <2>1 DEF IInv, ReportsAreOwn, OwnMessage
  <2> QED BY <2>2 DEF Extends
<1> QED BY <1>1, InductiveInvariant, PTL

\* LeaseExcludesTasks: while a publication holds the session's lease, whoever is
\* still at work on its volume works for a task that failed or was canceled.
THEOREM LeaseExcludes == Spec => []LeaseExcludesTasks
<1>1. IInv => LeaseExcludesTasks
  <2> SUFFICES ASSUME IInv, lease, NEW p \in Pods, Live(p) PROVE rows[Task(p)] \in {"failed", "canceled"}
    BY DEF LeaseExcludesTasks
  <2>1. PICK t \in TaskIds : t = Task(p)
    BY PodFacts
  <2>2. rows[t] # "none" /\ ~Succeeded(t)
    BY <2>1, WorkingFacts
  <2>3. rows[t] \notin {"completed", "blocked"}
    BY <2>2 DEF IInv, PodsInOrder, PodsOrdered
  <2>4. rows[t] # "active" /\ rows[t] \in RowStates
    BY DEF IInv, PublicationFollows, TypeOK
  <2> QED BY <2>1, <2>2, <2>3, <2>4 DEF RowStates
<1> QED BY <1>1, InductiveInvariant, PTL
=============================================================================
