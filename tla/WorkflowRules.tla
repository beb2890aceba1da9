---------------------------- MODULE WorkflowRules ----------------------------
(***************************************************************************)
(* What a loaded workflow is: the rules that WorkflowCatalog establishes   *)
(* when the server starts and that WorkflowControl relies on.              *)
(***************************************************************************)
EXTENDS Integers

CONSTANT NoStep  \* the empty name of a step

\* No step depends on itself through others: whatever steps are taken, one of
\* them depends on none of the others taken.
Acyclic(steps, after) ==
  \A group \in SUBSET steps : group # {} => \E s \in group : after[s] \cap group = {}

\* The steps whose change another step takes.
Producers(steps, source) == {s \in steps : \E t \in steps : source[t] = s}

\* A change comes from a direct dependency.  Producers and the publishable step,
\* on which nothing depends, are persistent; every other step is ephemeral.
WellFormed(steps, g) ==
  /\ g \in [after : [steps -> SUBSET steps], source : [steps -> steps \cup {NoStep}],
            publishable : steps \cup {NoStep}, ephemeral : SUBSET steps, parallelism : Nat \ {0}]
  /\ Acyclic(steps, g.after)
  /\ \A s \in steps : g.source[s] # NoStep => g.source[s] \in g.after[s]
  /\ \A s \in steps : g.publishable \notin g.after[s]
  /\ g.ephemeral = (steps \ Producers(steps, g.source)) \ {g.publishable}
=============================================================================
