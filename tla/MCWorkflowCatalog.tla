-------------------------- MODULE MCWorkflowCatalog --------------------------
(* WorkflowCatalog on all graphs of four steps, and on small documents that *)
(* break its other rules, one or several at a time.                          *)
EXTENDS WorkflowCatalog

\* All graphs of four steps, the dependencies of a step in every order if there
\* are at most two.
DepLists(s) ==
  LET others == (1..4) \ {s}
  IN  {<<>>, [i \in 1..3 |-> IF i < s THEN i ELSE i + 1]}
        \cup {<<d>> : d \in others} \cup {<<d[1], d[2]>> : d \in {e \in others \X others : e[1] # e[2]}}
Graphs ==
  {[steps |-> 1..4, agent |-> [s \in 1..4 |-> "ephemeral"], after |-> <<a, b, c, d>>,
    source |-> [s \in 1..4 |-> NoStep], publishable |-> {}, parallelism |-> 2] :
     a \in DepLists(1), b \in DepLists(2), c \in DepLists(3), d \in DepLists(4)}

\* Two steps with any agents, marks and sources; the second's dependencies may
\* be repeated, unknown or the step itself.
Pairs ==
  {[steps |-> 1..2, agent |-> agent, after |-> <<first, second>>,
    source |-> source, publishable |-> publishable, parallelism |-> 0] :
     agent \in [1..2 -> Agents], first \in {<<>>, <<2>>},
     second \in {<<>>, <<1>>, <<1, 1>>, <<2>>, <<5>>, <<5, 2>>},
     source \in [1..2 -> {1, NoStep}], publishable \in SUBSET (1..2)}

\* Steps without dependencies, none to one too many, and any parallelism.
Sizes ==
  {[steps |-> 1..n, agent |-> [s \in 1..n |-> "ephemeral"], after |-> [s \in 1..n |-> <<>>],
    source |-> [s \in 1..n |-> NoStep], publishable |-> {}, parallelism |-> parallelism] :
     n \in 0..5, parallelism \in -1..3}

MCDocuments == Graphs \cup Pairs \cup Sizes
=============================================================================
