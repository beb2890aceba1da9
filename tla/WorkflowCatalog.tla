--------------------------- MODULE WorkflowCatalog ---------------------------
(***************************************************************************)
(* Loading one workflow of the catalog: internal/catalog/workflows.go.     *)
(*                                                                         *)
(* A document is checked pass by pass and the first error ends the load.   *)
(* Every pass is over a Go map, whose order is different each time, so the *)
(* error that is found first is any of those the pass can meet; and the    *)
(* search for cycles starts from any step that is left.                    *)
(*                                                                         *)
(* Abstracted: a step's agent is its storage, or that it is not configured.*)
(* Left out: names, descriptions and prompts, which are looked at one by   *)
(* one, and the decoding of the YAML.                                      *)
(***************************************************************************)
EXTENDS WorkflowRules, Sequences, FiniteSets

CONSTANTS
  Names,          \* what steps, dependencies and sources may be called
  Documents,      \* the documents that may be loaded
  MaxSteps,       \* maxWorkflowSteps, 16
  MaxParallelism  \* the constant of that name, 8

Agents == {"persistent", "ephemeral", "missing"}

\* What a document says: its steps and, for each, agent, dependencies (a list)
\* and source; the steps marked publishable; and max_parallelism.
IsDocument(d) ==
  /\ d.steps \in SUBSET Names /\ IsFiniteSet(d.steps)
  /\ d.agent \in [d.steps -> Agents]
  /\ d.after \in [d.steps -> Seq(Names)]
  /\ d.source \in [d.steps -> Names \cup {NoStep}]
  /\ d.publishable \in SUBSET d.steps
  /\ d.parallelism \in Int

ASSUME CatalogAssumption ==
  /\ NoStep \notin Names
  /\ \A d \in Documents : IsDocument(d)
  /\ MaxSteps \in Nat /\ MaxParallelism \in Nat \ {0}

VARIABLES
  doc,       \* the document
  place,     \* the pass that is due
  verdict,   \* "none", "accepted", or why the document was rejected
  unvisited, \* steps from which the search has yet to start
  path,      \* the search's stack of steps
  next,      \* per step, the position of the dependency that is due
  colour     \* per name: 0, 1 while its visit is under way, 2 afterwards

search == <<unvisited, path, next, colour>>
vars   == <<doc, place, verdict, search>>

Places  == {"limits", "steps", "edges", "search", "changes", "storage", "leaf", "done"}
Reasons == {"parallelism", "size", "agent", "duplicate", "publishable", "itself", "unknown",
            "cycle", "source", "persistent", "ephemeral", "leaf"}

-----------------------------------------------------------------------------
(* What the passes look for                                                *)

Steps   == doc.steps
Deps(s) == {doc.after[s][i] : i \in DOMAIN doc.after[s]}

Parallelism == IF doc.parallelism = 0 THEN 1 ELSE doc.parallelism
Duplicates(s) == Cardinality(Deps(s)) < Len(doc.after[s])

\* A step is loaded agent first; only steps that load count as publishable.
Loads(s) == doc.agent[s] # "missing" /\ ~Duplicates(s)
Found(reason, steps) == IF steps = {} THEN {} ELSE {reason}

LimitErrors ==
  IF Parallelism \notin 1..MaxParallelism THEN {"parallelism"}
  ELSE IF Cardinality(Steps) \notin 1..MaxSteps THEN {"size"} ELSE {}
StepErrors ==
  Found("agent", {s \in Steps : doc.agent[s] = "missing"})
    \cup Found("duplicate", {s \in Steps : doc.agent[s] # "missing" /\ Duplicates(s)})
    \cup Found("publishable", {s \in doc.publishable :
                                 Loads(s) /\ \E t \in doc.publishable \ {s} : Loads(t)})

\* A step's dependencies are looked at in turn, up to the first bad one.
Edge(s, i) ==
  IF doc.after[s][i] = s THEN "itself" ELSE IF doc.after[s][i] \notin Steps THEN "unknown" ELSE "good"
FirstBad(s) ==
  {i \in DOMAIN doc.after[s] : Edge(s, i) # "good" /\ \A j \in 1..(i - 1) : Edge(s, j) = "good"}

\* Mutant of EdgeErrors: a dependency need not be a step.
EdgeErrorsSelf == Found("itself", {s \in Steps : s \in Deps(s)})

EdgeErrors == UNION {{Edge(s, i) : i \in FirstBad(s)} : s \in Steps}
ChangeErrors == Found("source", {s \in Steps : doc.source[s] \notin Deps(s) \cup {NoStep}})

Persistent(s) == s \in doc.publishable \cup Producers(Steps, doc.source)
StorageErrors ==
  Found("persistent", {s \in Steps : Persistent(s) /\ doc.agent[s] # "persistent"})
    \cup Found("ephemeral", {s \in Steps : ~Persistent(s) /\ doc.agent[s] # "ephemeral"})
LeafErrors == Found("leaf", {s \in Steps : Deps(s) \cap doc.publishable # {}})

-----------------------------------------------------------------------------
Init ==
  /\ doc \in Documents
  /\ place = "limits" /\ verdict = "none"
  /\ unvisited = {} /\ path = <<>>
  /\ next = [n \in Names |-> 1]
  /\ colour = [n \in Names |-> 0]

Reject(reason) == verdict' = reason /\ place' = "done"

\* One pass: it goes on to the next one, or stops at the first error it meets.
Pass(from, errors, to) ==
  /\ place = from
  /\ \/ errors = {} /\ place' = to /\ UNCHANGED verdict
     \/ \E reason \in errors : Reject(reason)
  /\ UNCHANGED <<doc, search>>

Limits  == Pass("limits", LimitErrors, "steps")
Load    == Pass("steps", StepErrors, "edges")
Changes == Pass("changes", ChangeErrors, "storage")
Storage == Pass("storage", StorageErrors, "leaf")

\* The search for cycles follows; it has all steps to start from.
Edges ==
  /\ place = "edges"
  /\ \/ EdgeErrors = {} /\ place' = "search" /\ unvisited' = Steps /\ UNCHANGED verdict
     \/ \E reason \in EdgeErrors : Reject(reason) /\ UNCHANGED unvisited
  /\ UNCHANGED <<doc, path, next, colour>>

\* Mutants of Visit: a step under way is passed over like one that is done, or
\* entered like one that is new.
VisitPassesOver(s) ==
  \/ /\ colour[s] \in {1, 2}
     /\ UNCHANGED <<place, verdict, path, colour>>
  \/ /\ colour[s] = 0
     /\ colour' = [colour EXCEPT ![s] = 1] /\ path' = Append(path, s)
     /\ UNCHANGED <<place, verdict>>
VisitEntersAgain(s) ==
  \/ /\ colour[s] = 2
     /\ UNCHANGED <<place, verdict, path, colour>>
  \/ /\ colour[s] \in {0, 1}
     /\ colour' = [colour EXCEPT ![s] = 1] /\ path' = Append(path, s)
     /\ UNCHANGED <<place, verdict>>

\* visit(s): a step under way closes a cycle, one that is done is passed over,
\* a new one is entered.
Visit(s) ==
  \/ /\ colour[s] = 1
     /\ Reject("cycle") /\ UNCHANGED <<path, colour>>
  \/ /\ colour[s] = 2
     /\ UNCHANGED <<place, verdict, path, colour>>
  \/ /\ colour[s] = 0
     /\ colour' = [colour EXCEPT ![s] = 1] /\ path' = Append(path, s)
     /\ UNCHANGED <<place, verdict>>

\* The search starts from a step that is left, or is over.
Begin ==
  /\ place = "search" /\ path = <<>>
  /\ \/ \E s \in unvisited : Visit(s) /\ unvisited' = unvisited \ {s}
     \/ unvisited = {} /\ place' = "changes" /\ UNCHANGED <<verdict, unvisited, path, colour>>
  /\ UNCHANGED <<doc, next>>

Top == path[Len(path)]

\* It visits the next dependency of the step on top, or leaves that step.
Follow ==
  /\ place = "search" /\ path # <<>>
  /\ next[Top] <= Len(doc.after[Top])
  /\ next' = [next EXCEPT ![Top] = @ + 1]
  /\ Visit(doc.after[Top][next[Top]])
  /\ UNCHANGED <<doc, unvisited>>

Leave ==
  /\ place = "search" /\ path # <<>>
  /\ next[Top] > Len(doc.after[Top])
  /\ colour' = [colour EXCEPT ![Top] = 2]
  /\ path' = SubSeq(path, 1, Len(path) - 1)
  /\ UNCHANGED <<doc, place, verdict, unvisited, next>>

Leaf ==
  /\ place = "leaf" /\ place' = "done"
  /\ verdict' \in IF LeafErrors = {} THEN {"accepted"} ELSE LeafErrors
  /\ UNCHANGED <<doc, search>>

Next ==
  Limits \/ Load \/ Edges \/ Begin \/ Follow \/ Leave \/ Changes \/ Storage \/ Leaf

Spec == Init /\ [][Next]_vars

-----------------------------------------------------------------------------
(* Properties *)

TypeOK ==
  /\ IsDocument(doc)
  /\ place \in Places
  /\ verdict \in {"none", "accepted"} \cup Reasons
  /\ unvisited \in SUBSET Steps
  /\ path \in Seq(Steps)
  /\ next \in [Names -> Nat \ {0}]
  /\ colour \in [Names -> 0..2]

\* The search is a walk along dependencies that never meets itself, so it is
\* never deeper than the workflow has steps; it is where the colours say, and
\* what it is done with depends only on what it is done with.
SearchFollowsGraph ==
  /\ \A i, j \in DOMAIN path : path[i] = path[j] => i = j
  /\ \A i \in DOMAIN path : i > 1 => path[i] \in Deps(path[i - 1])
  /\ verdict = "none" => \A s \in Steps :
       /\ colour[s] = 1 <=> \E i \in DOMAIN path : path[i] = s
       /\ colour[s] = 2 => \A d \in Deps(s) : colour[d] = 2

\* What the catalog hands to the workflow controller.
Definition ==
  [after |-> [s \in Steps |-> Deps(s)], source |-> doc.source,
   publishable |-> IF doc.publishable = {} THEN NoStep ELSE CHOOSE s \in doc.publishable : TRUE,
   ephemeral |-> {s \in Steps : doc.agent[s] = "ephemeral"}, parallelism |-> Parallelism]

\* Which reasons for a rejection there are in the document, in whatever order
\* they are looked for.
Cyclic == ~Acyclic(Steps, [s \in Steps |-> Deps(s)])
Justified(reason) ==
  \/ reason \in LimitErrors \cup StepErrors \cup EdgeErrors \cup ChangeErrors \cup StorageErrors \cup LeafErrors
  \/ reason = "cycle" /\ Cyclic

\* Whatever order the maps are visited in, a workflow is accepted just when it
\* is what the workflow controller takes it to be, and is otherwise rejected
\* for something that it really has: the search finds a cycle if and only if
\* the graph has one.
VerdictIsRight ==
  /\ verdict = "accepted" =>
       /\ WellFormed(Steps, Definition)
       /\ Cardinality(Steps) <= MaxSteps /\ Parallelism <= MaxParallelism
       /\ Cardinality(doc.publishable) <= 1
  /\ verdict \notin {"none", "accepted"} => Justified(verdict)
=============================================================================
