-------------------------- MODULE MCWorkflowControl --------------------------
(* WorkflowControl on the two workflow shapes of the controller's tests,    *)
(* their steps numbered in name order.                                      *)
EXTENDS WorkflowControl

CONSTANTS change, delivery, c1, c2

\* changeCatalog: 1 finalize, 2 implement, 3 review.
Change ==
  [after |-> <<{2, 3}, {}, {2}>>, source |-> <<2, NoStep, 2>>, publishable |-> 1,
   ephemeral |-> {3}, parallelism |-> 2]

\* testCatalog with a limit of one: 1 implement, 2 security, 3 tests.
Delivery ==
  [after |-> <<{2, 3}, {}, {}>>, source |-> <<NoStep, NoStep, NoStep>>, publishable |-> 1,
   ephemeral |-> {2, 3}, parallelism |-> 1]

MCGraph == [d \in Definitions |-> IF d = change THEN Change ELSE Delivery]
=============================================================================
