-------------------------- MODULE PublicationLedger --------------------------
(***************************************************************************)
(* What the durable row of a publication promises: the states it goes      *)
(* through, and that an intent and a commit, once recorded, stand until    *)
(* the session is removed.  There is no request, no Job and no GitHub here; *)
(* Publication implements this ledger by the row it writes.                *)
(***************************************************************************)
CONSTANTS Intents, NoIntent, Commits, Nothing, PullIds, NoPull

VARIABLE record

NoRecord == [state |-> "none", intent |-> NoIntent, commit |-> Nothing, pull |-> NoPull]

Init == record = NoRecord

Claim ==
  /\ record.state = "none"
  /\ \E i \in Intents : record' = [NoRecord EXCEPT !.state = "pending", !.intent = i]

Own == record.state = "pending" /\ record' = [record EXCEPT !.state = "ready"]

\* Nothing that has a commit on record becomes a conflict.
Conflict ==
  /\ record.state \in {"pending", "ready"}
  /\ record' = [record EXCEPT !.state = "conflicted"]

PublishBranch ==
  /\ record.state = "ready"
  /\ \E c \in Commits : record' = [record EXCEPT !.state = "branch_published", !.commit = c]

OpenPull ==
  /\ record.state \in {"ready", "branch_published", "pull_request_created"}
  /\ \E n \in PullIds : record' = [record EXCEPT !.state = "pull_request_created", !.pull = n]

Complete ==
  /\ record.state = "pull_request_created"
  /\ record' = [record EXCEPT !.state = "completed"]

Forget == record' = NoRecord

Next == Claim \/ Own \/ Conflict \/ PublishBranch \/ OpenPull \/ Complete \/ Forget

Spec == Init /\ [][Next]_record
=============================================================================
