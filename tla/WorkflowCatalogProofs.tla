------------------------ MODULE WorkflowCatalogProofs ------------------------
(***************************************************************************)
(* Theorems about WorkflowCatalog, for any documents and limits.           *)
(*                                                                         *)
(* Every pass leaves behind that the document has none of its errors       *)
(* (Passed), and the depth-first search what its colours mean (Search).    *)
(* An accepted document therefore is what WorkflowControl assumes of its   *)
(* definitions, and a cycle is reported just when there is one.            *)
(***************************************************************************)
EXTENDS WorkflowCatalog, LeastElement, FiniteSetTheorems, SequenceTheorems, TLAPS

\* What is known of the document by the time a pass is due.
Known(at) ==
  /\ at \notin {"limits", "done"} => LimitErrors = {}
  /\ at \notin {"limits", "steps", "done"} => StepErrors = {}
  /\ at \notin {"limits", "steps", "edges", "done"} => EdgeErrors = {}
  /\ at \in {"changes", "storage", "leaf"} => \A s \in Steps : colour[s] = 2
  /\ at \in {"storage", "leaf"} => ChangeErrors = {}
  /\ at = "leaf" => StorageErrors = {}

Passed ==
  /\ place # "done" <=> verdict = "none"
  /\ Known(place)
  /\ verdict = "accepted" => Known("leaf") /\ LeafErrors = {}
  /\ verdict \notin {"none", "accepted"} => Justified(verdict)

Coloured(c) == {s \in Steps : colour[s] = c}

\* The path is a walk that does not meet itself and is what is under way.
Walk ==
  /\ \A i, j \in DOMAIN path : path[i] = path[j] => i = j
  /\ \A i \in DOMAIN path : i > 1 => path[i] \in Deps(path[i - 1])
  /\ Coloured(1) = {path[i] : i \in DOMAIN path}

\* A dependency that was visited is done, unless the walk goes on from it.
Search ==
  /\ Walk
  /\ path # <<>> => EdgeErrors = {}
  /\ place \notin {"search", "done"} => path = <<>>
  /\ place = "search" => \A s \in Steps \ unvisited : colour[s] # 0
  /\ \A s \in Steps : colour[s] = 0 => next[s] = 1
  /\ place = "search" => \A i \in DOMAIN path : \A k \in 1..(next[path[i]] - 1) :
       /\ k \in DOMAIN doc.after[path[i]]
       /\ \/ colour[doc.after[path[i]][k]] = 2
          \/ i < Len(path) /\ path[i + 1] = doc.after[path[i]][k]
  /\ \A s \in Coloured(2) : Deps(s) \subseteq Coloured(2)
  /\ \A group \in SUBSET Coloured(2) : group # {} => \E s \in group : Deps(s) \cap group = {}

IInv == TypeOK /\ Passed /\ Search

-----------------------------------------------------------------------------
(* Lemmas about the document                                               *)

LEMMA DocumentFacts ==
  ASSUME IsDocument(doc)
  PROVE  /\ Steps \in SUBSET Names /\ IsFiniteSet(Steps) /\ doc.publishable \in SUBSET Steps
         /\ doc.agent \in [Steps -> Agents] /\ doc.source \in [Steps -> Names \cup {NoStep}]
         /\ doc.parallelism \in Int
         /\ \A s \in Steps : /\ doc.after[s] \in Seq(Names) /\ Len(doc.after[s]) \in Nat
                             /\ DOMAIN doc.after[s] = 1..Len(doc.after[s])
                             /\ Deps(s) \in SUBSET Names
<1>1. \A s \in Steps : doc.after[s] \in Seq(Names)
  BY DEF IsDocument, Steps
<1>2. \A s \in Steps : \A i \in DOMAIN doc.after[s] : doc.after[s][i] \in Names
  BY <1>1
<1> QED BY <1>1, <1>2 DEF IsDocument, Steps, Deps

LEMMA SameDocument ==
  ASSUME UNCHANGED doc
  PROVE  /\ Steps' = Steps /\ LimitErrors' = LimitErrors /\ StepErrors' = StepErrors
         /\ EdgeErrors' = EdgeErrors /\ ChangeErrors' = ChangeErrors /\ StorageErrors' = StorageErrors
         /\ LeafErrors' = LeafErrors /\ IsDocument(doc)' = IsDocument(doc)
         /\ \A s \in Steps : Deps(s)' = Deps(s)
         /\ \A reason : Justified(reason)' <=> Justified(reason)
<1>1. Steps' = Steps /\ \A s : Deps(s)' = Deps(s)
  BY DEF Steps, Deps
<1>2. LimitErrors' = LimitErrors
  BY <1>1 DEF LimitErrors, Parallelism
<1>3. StepErrors' = StepErrors
  BY <1>1 DEF StepErrors, Duplicates, Loads
<1>4. EdgeErrors' = EdgeErrors
  BY <1>1 DEF EdgeErrors, FirstBad, Edge
<1>5. ChangeErrors' = ChangeErrors
  BY <1>1 DEF ChangeErrors
<1>6. StorageErrors' = StorageErrors
  BY <1>1 DEF StorageErrors, Persistent
<1>7. LeafErrors' = LeafErrors
  BY <1>1 DEF LeafErrors
<1>8. IsDocument(doc)' = IsDocument(doc)
  OBVIOUS
<1>9. Cyclic' <=> Cyclic
  BY <1>1 DEF Cyclic
<1> QED BY <1>1, <1>2, <1>3, <1>4, <1>5, <1>6, <1>7, <1>8, <1>9 DEF Justified

\* A document without bad edges is a graph on its steps.
LEMMA GoodEdges ==
  ASSUME IsDocument(doc), EdgeErrors = {}
  PROVE  \A s \in Steps : Deps(s) \in SUBSET Steps /\ s \notin Deps(s)
<1>1. ASSUME NEW s \in Steps, NEW i \in DOMAIN doc.after[s] PROVE Edge(s, i) = "good"
  <2> SUFFICES ASSUME Edge(s, i) # "good" PROVE FALSE
    OBVIOUS
  <2> DEFINE Bad == {j \in DOMAIN doc.after[s] : Edge(s, j) # "good"}
  <2>1. DOMAIN doc.after[s] = 1..Len(doc.after[s]) /\ Len(doc.after[s]) \in Nat
    BY DocumentFacts
  <2>2. Bad \in SUBSET Nat /\ Bad # {}
    BY <2>1
  <2>3. PICK n \in Bad : \A m \in Bad : n <= m
    BY <2>2, Smallest
  <2>4. n \in FirstBad(s)
    BY <2>1, <2>3 DEF FirstBad
  <2>5. Edge(s, n) \in EdgeErrors
    BY <2>4 DEF EdgeErrors
  <2> QED BY <2>5
<1>2. ASSUME NEW s \in Steps, NEW d \in Deps(s) PROVE d \in Steps /\ d # s
  <2>1. PICK i \in DOMAIN doc.after[s] : d = doc.after[s][i]
    BY DEF Deps
  <2> QED BY <1>1, <2>1 DEF Edge
<1> QED BY <1>2

LEMMA ReasonsJustified ==
  /\ \A reason \in LimitErrors \cup StepErrors \cup EdgeErrors \cup ChangeErrors \cup StorageErrors \cup LeafErrors :
       reason \in Reasons /\ Justified(reason)
<1>1. LimitErrors \cup StepErrors \cup ChangeErrors \cup StorageErrors \cup LeafErrors \in SUBSET Reasons
  BY DEF LimitErrors, StepErrors, ChangeErrors, StorageErrors, LeafErrors, Found, Reasons
<1>2. EdgeErrors \in SUBSET Reasons
  BY DEF EdgeErrors, FirstBad, Edge, Reasons
<1> QED BY <1>1, <1>2 DEF Justified

-----------------------------------------------------------------------------
(* The passes                                                              *)

LEMMA SearchStays ==
  ASSUME IInv, UNCHANGED <<doc, search>>, place' # "search",
         place \notin {"search", "done"} \/ place' = "done"
  PROVE  Search'
<1>1. UNCHANGED <<doc, unvisited, path, next, colour>>
  BY DEF search
<1>2. Steps' = Steps /\ EdgeErrors' = EdgeErrors /\ \A s \in Steps : Deps(s)' = Deps(s)
  BY SameDocument
<1>3. \A i \in DOMAIN path : i > 1 => path[i - 1] \in Steps
  BY DEF IInv, TypeOK
<1>4. Coloured(1)' = Coloured(1) /\ Coloured(2)' = Coloured(2) /\ Coloured(2) \in SUBSET Steps
  BY <1>1, <1>2 DEF Coloured
<1>5. Walk'
  BY <1>1, <1>2, <1>3, <1>4 DEF IInv, Search, Walk
<1> QED BY <1>1, <1>2, <1>4, <1>5 DEF IInv, Search

LEMMA KnownStays ==
  ASSUME IInv, UNCHANGED doc, NEW at, Known(at), UNCHANGED colour
  PROVE  Known(at)'
BY SameDocument DEF Known

LEMMA RejectPreserves ==
  ASSUME IInv, NEW reason \in Reasons, Justified(reason), Reject(reason), UNCHANGED <<doc, search>>
  PROVE  IInv'
<1>1. place' = "done" /\ verdict' = reason /\ UNCHANGED <<doc, unvisited, path, next, colour>>
  BY DEF Reject, search
<1>2. TypeOK'
  BY <1>1, SameDocument DEF IInv, TypeOK, Places
<1>3. verdict' \notin {"none", "accepted"}
  BY <1>1 DEF Reasons
<1>4. Passed'
  BY <1>1, <1>3, SameDocument DEF Passed, Known
<1> QED BY <1>1, <1>2, <1>4, SearchStays DEF IInv

LEMMA PassPreserves ==
  ASSUME IInv, NEW from \in Places \ {"search", "done"}, NEW errors, NEW to \in Places \ {"search", "done"},
         Pass(from, errors, to), \A reason \in errors : reason \in Reasons /\ Justified(reason),
         Known(from) /\ errors = {} => Known(to)
  PROVE  IInv'
<1>1. place = from /\ UNCHANGED <<doc, search>> /\ UNCHANGED <<doc, unvisited, path, next, colour>>
  BY DEF Pass, search
<1>2. CASE errors = {} /\ place' = to /\ UNCHANGED verdict
  <2>1. TypeOK'
    BY <1>1, <1>2, SameDocument DEF IInv, TypeOK
  <2>2. Known(from) /\ verdict = "none"
    BY <1>1 DEF IInv, Passed
  <2>3. Known(to)'
    BY <1>1, <1>2, <2>2, KnownStays
  <2>4. Passed'
    BY <1>2, <2>2, <2>3 DEF Passed
  <2> QED BY <1>1, <1>2, <2>1, <2>4, SearchStays DEF IInv
<1>3. CASE \E reason \in errors : Reject(reason)
  BY <1>1, <1>3, RejectPreserves
<1> QED BY <1>2, <1>3 DEF Pass

LEMMA PassesPreserve ==
  ASSUME IInv, Limits \/ Load \/ Changes \/ Storage
  PROVE  IInv'
<1>1. CASE Limits
  <2>1. Known("limits") /\ LimitErrors = {} => Known("steps")
    BY DEF Known
  <2> QED BY <1>1, <2>1, ReasonsJustified, PassPreserves DEF Limits, Places
<1>2. CASE Load
  <2>1. Known("steps") /\ StepErrors = {} => Known("edges")
    BY DEF Known
  <2> QED BY <1>2, <2>1, ReasonsJustified, PassPreserves DEF Load, Places
<1>3. CASE Changes
  <2>1. Known("changes") /\ ChangeErrors = {} => Known("storage")
    BY DEF Known
  <2> QED BY <1>3, <2>1, ReasonsJustified, PassPreserves DEF Changes, Places
<1>4. CASE Storage
  <2>1. Known("storage") /\ StorageErrors = {} => Known("leaf")
    BY DEF Known
  <2> QED BY <1>4, <2>1, ReasonsJustified, PassPreserves DEF Storage, Places
<1> QED BY <1>1, <1>2, <1>3, <1>4

LEMMA LeafPreserves ==
  ASSUME IInv, Leaf
  PROVE  IInv'
<1>1. /\ place = "leaf" /\ place' = "done" /\ UNCHANGED <<doc, search>>
      /\ UNCHANGED <<doc, unvisited, path, next, colour>>
  BY DEF Leaf, search
<1>2. CASE LeafErrors = {} /\ verdict' = "accepted"
  <2>1. TypeOK'
    BY <1>1, <1>2, SameDocument DEF IInv, TypeOK, Places
  <2>2. Known("leaf")'
    BY <1>1, KnownStays DEF IInv, Passed
  <2>3. Passed'
    BY <1>1, <1>2, <2>2, SameDocument DEF Passed, Known
  <2> QED BY <1>1, <2>1, <2>3, SearchStays DEF IInv
<1>3. CASE \E reason \in LeafErrors : verdict' = reason
  BY <1>1, <1>3, ReasonsJustified, RejectPreserves DEF Reject
<1> QED BY <1>2, <1>3 DEF Leaf

\* The search begins with nothing visited.
LEMMA EdgesPreserve ==
  ASSUME IInv, Edges
  PROVE  IInv'
<1>1. place = "edges" /\ UNCHANGED <<doc, path, next, colour>>
  BY DEF Edges
<1>2. CASE EdgeErrors = {} /\ place' = "search" /\ unvisited' = Steps /\ UNCHANGED verdict
  <2>1. TypeOK'
    BY <1>1, <1>2, SameDocument DEF IInv, TypeOK, Places
  <2>2. Passed'
    BY <1>1, <1>2, SameDocument DEF IInv, Passed, Known
  <2>3. path = <<>> /\ path' = <<>> /\ DOMAIN path = {} /\ DOMAIN path' = {}
    BY <1>1 DEF IInv, Search
  <2>4. Coloured(1)' = Coloured(1) /\ Coloured(2)' = Coloured(2) /\ Coloured(2) \in SUBSET Steps
    BY <1>1, SameDocument DEF Coloured
  <2>5. Walk'
    BY <2>3, <2>4 DEF IInv, Search, Walk
  <2>6. Steps' = Steps /\ \A s \in Steps : Deps(s)' = Deps(s)
    BY <1>1, SameDocument
  <2>7. Search'
    BY <1>1, <1>2, <2>3, <2>4, <2>5, <2>6 DEF IInv, Search
  <2> QED BY <2>1, <2>2, <2>7 DEF IInv
<1>3. CASE \E reason \in EdgeErrors : Reject(reason) /\ UNCHANGED unvisited
  BY <1>1, <1>3, ReasonsJustified, RejectPreserves DEF search
<1> QED BY <1>2, <1>3 DEF Edges

-----------------------------------------------------------------------------
(* The search                                                              *)

\* The step that a step of the search visits, and how it comes to it.
Considers(s) ==
  \/ /\ path = <<>> /\ s \in unvisited
     /\ unvisited' = unvisited \ {s} /\ UNCHANGED next
  \/ /\ path # <<>> /\ next[Top] <= Len(doc.after[Top]) /\ s = doc.after[Top][next[Top]]
     /\ next' = [next EXCEPT ![Top] = @ + 1] /\ UNCHANGED unvisited

LEMMA PathFacts ==
  ASSUME TypeOK
  PROVE  /\ Len(path) \in Nat /\ DOMAIN path = 1..Len(path)
         /\ \A i \in 1..Len(path) : path[i] \in Steps
         /\ path # <<>> => Len(path) \in 1..Len(path) /\ Top \in Steps /\ Top = path[Len(path)]
<1>1. path \in Seq(Steps)
  BY DEF TypeOK
<1>2. Len(path) \in Nat /\ DOMAIN path = 1..Len(path) /\ \A i \in 1..Len(path) : path[i] \in Steps
  BY <1>1
<1>3. path # <<>> => Len(path) # 0
  BY <1>1
<1> QED BY <1>2, <1>3 DEF Top

LEMMA SearchFacts ==
  ASSUME IInv, place = "search"
  PROVE  /\ IsDocument(doc) /\ Steps \in SUBSET Names /\ EdgeErrors = {}
         /\ verdict = "none" /\ verdict # "accepted"
         /\ \A s \in Steps : Deps(s) \in SUBSET Steps /\ s \notin Deps(s)
         /\ \A s \in Steps : /\ DOMAIN doc.after[s] = 1..Len(doc.after[s]) /\ Len(doc.after[s]) \in Nat
                             /\ \A k \in DOMAIN doc.after[s] : doc.after[s][k] \in Deps(s)
         /\ \A s \in Names : colour[s] \in {0, 1, 2} /\ next[s] \in Nat \ {0}
<1>1. IsDocument(doc)
  BY DEF IInv, TypeOK
<1>2. EdgeErrors = {} /\ verdict = "none"
  BY DEF IInv, Passed, Known
<1>3. \A s \in Names : colour[s] \in 0..2 /\ next[s] \in Nat \ {0}
  BY DEF IInv, TypeOK
<1>4. \A s \in Steps : \A k \in DOMAIN doc.after[s] : doc.after[s][k] \in Deps(s)
  BY DEF Deps
<1> QED BY <1>1, <1>2, <1>3, <1>4, DocumentFacts, GoodEdges

LEMMA ConsidersFacts ==
  ASSUME IInv, place = "search", NEW s, Considers(s)
  PROVE  /\ s \in Steps
         /\ path # <<>> => s \in Deps(Top)
         /\ unvisited' \in SUBSET Steps /\ unvisited \ {s} \in SUBSET unvisited'
         /\ next' \in [Names -> Nat \ {0}]
         /\ \A t \in Names : next'[t] = IF path # <<>> /\ t = Top THEN next[t] + 1 ELSE next[t]
<1>1. next \in [Names -> Nat \ {0}] /\ unvisited \in SUBSET Steps
  BY DEF IInv, TypeOK
<1>2. CASE path = <<>>
  BY <1>1, <1>2 DEF Considers
<1>3. CASE path # <<>>
  <2>1. Top \in Steps /\ Top \in Names
    BY <1>3, PathFacts, SearchFacts DEF IInv
  <2>2. s \in Deps(Top) /\ s \in Steps
    BY <1>1, <1>3, <2>1, SearchFacts DEF Considers
  <2> QED BY <1>1, <1>3, <2>1, <2>2 DEF Considers
<1> QED BY <1>2, <1>3

\* The verdict and what is known of the document stay while the search goes on.
LEMMA SearchKeepsPassed ==
  ASSUME IInv, place = "search", UNCHANGED <<doc, place, verdict>>
  PROVE  Passed'
BY SameDocument DEF IInv, Passed, Known

LEMMA PassOverPreserves ==
  ASSUME IInv, place = "search", NEW s, Considers(s), colour[s] = 2,
         UNCHANGED <<doc, place, verdict, path, colour>>
  PROVE  IInv'
<1>1. TypeOK'
  BY SameDocument, ConsidersFacts DEF IInv, TypeOK
<1>2. /\ Steps' = Steps /\ \A t \in Steps : Deps(t)' = Deps(t)
      /\ EdgeErrors' = EdgeErrors
  BY SameDocument
<1>3. Coloured(1)' = Coloured(1) /\ Coloured(2)' = Coloured(2) /\ Coloured(2) \in SUBSET Steps
  BY <1>2 DEF Coloured
<1>4. \A i \in DOMAIN path : i > 1 => path[i - 1] \in Steps
  BY PathFacts DEF IInv
<1>5. Walk'
  BY <1>2, <1>3, <1>4 DEF IInv, Search, Walk
<1>6. \A t \in Steps \ unvisited' : colour'[t] # 0
  BY ConsidersFacts, SearchFacts DEF IInv, Search
<1>7. \A t \in Steps : colour'[t] = 0 => next'[t] = 1
  <2>1. path # <<>> => Top \in Coloured(1)
    BY PathFacts DEF IInv, Search, Walk
  <2> QED BY <2>1, ConsidersFacts, SearchFacts DEF IInv, Search, Coloured
<1>8. ASSUME NEW i \in DOMAIN path', NEW k \in 1..(next'[path'[i]] - 1)
      PROVE  /\ k \in DOMAIN doc'.after[path'[i]]
             /\ \/ colour'[doc'.after[path'[i]][k]] = 2
                \/ i < Len(path') /\ path'[i + 1] = doc'.after[path'[i]][k]
  <2>1. i \in DOMAIN path /\ path[i] \in Steps /\ path[i] \in Names /\ path # <<>>
    BY PathFacts, SearchFacts DEF IInv
  <2>2. CASE k \in 1..(next[path[i]] - 1)
    BY <2>1, <2>2 DEF IInv, Search
  <2>3. CASE k \notin 1..(next[path[i]] - 1)
    <3>1. path[i] = Top /\ k = next[Top]
      BY <2>1, <2>3, ConsidersFacts, SearchFacts
    <3>2. k \in DOMAIN doc.after[Top] /\ s = doc.after[Top][k]
      BY <2>1, <3>1, SearchFacts, PathFacts DEF Considers, IInv
    <3> QED BY <3>1, <3>2
  <2> QED BY <2>2, <2>3
<1>9. Search'
  BY <1>2, <1>3, <1>5, <1>6, <1>7, <1>8 DEF IInv, Search
<1> QED BY <1>1, <1>9, SearchKeepsPassed DEF IInv

LEMMA EnterPreserves ==
  ASSUME IInv, place = "search", NEW s, Considers(s), colour[s] = 0,
         UNCHANGED <<doc, place, verdict>>,
         colour' = [colour EXCEPT ![s] = 1], path' = Append(path, s)
  PROVE  IInv'
<1>1. /\ Steps' = Steps /\ \A t \in Steps : Deps(t)' = Deps(t)
      /\ EdgeErrors' = EdgeErrors
  BY SameDocument
<1>2. s \in Steps /\ s \in Names /\ Steps \in SUBSET Names
  BY ConsidersFacts, SearchFacts
<1>3. path \in Seq(Steps) /\ colour \in [Names -> 0..2]
  BY DEF IInv, TypeOK
<1>4. /\ path' \in Seq(Steps) /\ Len(path') = Len(path) + 1 /\ Len(path) \in Nat
      /\ DOMAIN path' = 1..(Len(path) + 1) /\ DOMAIN path = 1..Len(path)
      /\ \A i \in 1..Len(path) : path'[i] = path[i]
      /\ path'[Len(path) + 1] = s
  BY <1>2, <1>3
<1>5. /\ colour' \in [Names -> 0..2] /\ colour'[s] = 1
      /\ \A t \in Names \ {s} : colour'[t] = colour[t]
  BY <1>2, <1>3
<1>6. TypeOK'
  BY <1>1, <1>4, <1>5, SameDocument, ConsidersFacts DEF IInv, TypeOK
<1>7. Coloured(1)' = Coloured(1) \cup {s} /\ Coloured(2)' = Coloured(2) /\ Coloured(2) \in SUBSET Steps
  BY <1>1, <1>2, <1>5 DEF Coloured
<1>8. s \notin Coloured(1) /\ \A i \in 1..Len(path) : path[i] \in Coloured(1) /\ path[i] # s
  <2>1. Coloured(1) = {path[i] : i \in DOMAIN path}
    BY DEF IInv, Search, Walk
  <2>2. s \notin Coloured(1)
    BY DEF Coloured
  <2> QED BY <1>4, <2>1, <2>2
<1>9. Walk'
  <2>1. \A i, j \in DOMAIN path' : path'[i] = path'[j] => i = j
    BY <1>4, <1>8 DEF IInv, Search, Walk
  <2>2. ASSUME NEW i \in DOMAIN path', i > 1 PROVE (path[i] \in Deps(path[i - 1]))'
    <3>1. i - 1 \in 1..Len(path) /\ path'[i - 1] = path[i - 1] /\ path[i - 1] \in Steps
      BY <1>4, <2>2, <1>3
    <3>2. CASE i \in 1..Len(path)
      <4>1. path[i] \in Deps(path[i - 1])
        BY <1>4, <2>2, <3>2 DEF IInv, Search, Walk
      <4> QED BY <1>1, <1>4, <3>1, <3>2, <4>1
    <3>3. CASE i = Len(path) + 1
      <4>1. path # <<>> /\ path[i - 1] = Top
        BY <1>4, <2>2, <3>3 DEF Top
      <4> QED BY <1>1, <1>4, <3>1, <3>3, <4>1, ConsidersFacts
    <3>4. i \in 1..Len(path) \/ i = Len(path) + 1
      BY <1>4
    <3> QED BY <3>2, <3>3, <3>4
  <2>3. Coloured(1)' = {path'[i] : i \in DOMAIN path'}
    BY <1>4, <1>7 DEF IInv, Search, Walk
  <2> QED BY <2>1, <2>2, <2>3 DEF Walk
<1>10. \A t \in Steps \ unvisited' : colour'[t] # 0
  BY <1>2, <1>5, ConsidersFacts DEF IInv, Search
<1>11. \A t \in Steps : colour'[t] = 0 => next'[t] = 1
  <2>1. path # <<>> => colour[Top] = 1
    BY <1>8, PathFacts DEF IInv, Coloured
  <2> SUFFICES ASSUME NEW t \in Steps, colour'[t] = 0 PROVE next'[t] = 1
    OBVIOUS
  <2>2. t \in Names /\ colour[t] = 0
    BY <1>2, <1>5
  <2>3. next[t] = 1 /\ ~(path # <<>> /\ t = Top)
    BY <2>1, <2>2 DEF IInv, Search
  <2> QED BY <2>2, <2>3, ConsidersFacts
<1>12. ASSUME NEW i \in DOMAIN path', NEW k \in 1..(next'[path'[i]] - 1)
      PROVE  /\ k \in DOMAIN doc'.after[path'[i]]
             /\ \/ colour'[doc'.after[path'[i]][k]] = 2
                \/ i < Len(path') /\ path'[i + 1] = doc'.after[path'[i]][k]
  <2>1. CASE i = Len(path) + 1
    <3>1. path'[i] = s /\ next[s] = 1
      BY <1>2, <1>4, <2>1 DEF IInv, Search
    <3>2. path # <<>> => Top # s
      BY <1>8, PathFacts DEF IInv
    <3>3. next'[s] = 1
      BY <1>2, <3>1, <3>2, ConsidersFacts
    <3> QED BY <3>1, <3>3
  <2>2. CASE i \in 1..Len(path)
    <3>1. path[i] \in Steps /\ path[i] \in Names /\ path # <<>> /\ path'[i] = path[i]
      BY <1>2, <1>3, <1>4, <2>2
    <3>2. CASE k \in 1..(next[path[i]] - 1)
      <4>1. /\ k \in DOMAIN doc.after[path[i]]
            /\ \/ colour[doc.after[path[i]][k]] = 2
               \/ i < Len(path) /\ path[i + 1] = doc.after[path[i]][k]
        BY <1>4, <2>2, <3>2 DEF IInv, Search
      <4>2. doc.after[path[i]][k] \in Names
        BY <1>2, <3>1, <4>1, SearchFacts
      <4>3. colour[doc.after[path[i]][k]] = 2 => colour'[doc.after[path[i]][k]] = 2
        BY <1>5, <4>2
      <4>4. i < Len(path) => i + 1 \in 1..Len(path) /\ i < Len(path')
        BY <1>4, <2>2
      <4> QED BY <1>4, <3>1, <4>1, <4>3, <4>4
    <3>3. CASE k \notin 1..(next[path[i]] - 1)
      <4>1. path[i] = Top /\ k = next[Top]
        BY <3>1, <3>3, ConsidersFacts, SearchFacts
      <4>2. k \in DOMAIN doc.after[Top] /\ s = doc.after[Top][k]
        BY <3>1, <4>1, SearchFacts DEF Considers
      <4>3. i = Len(path)
        BY <1>4, <2>2, <3>1, <4>1, PathFacts DEF IInv, Search, Walk
      <4> QED BY <1>4, <3>1, <4>1, <4>2, <4>3
    <3> QED BY <3>2, <3>3
  <2> QED BY <1>4, <2>1, <2>2
<1>13. Search'
  <2>1. (path # <<>> => EdgeErrors = {})' /\ place' = "search"
    BY <1>1, SearchFacts
  <2>2. (\A t \in Coloured(2) : Deps(t) \subseteq Coloured(2))'
    BY <1>1, <1>7 DEF IInv, Search
  <2>3. (\A group \in SUBSET Coloured(2) : group # {} => \E t \in group : Deps(t) \cap group = {})'
    <3>1. \A group \in SUBSET Coloured(2) : group # {} => \E t \in group : Deps(t) \cap group = {}
      BY DEF IInv, Search
    <3> QED BY <1>1, <1>7, <3>1
  <2> QED BY <1>1, <1>9, <1>10, <1>11, <1>12, <2>1, <2>2, <2>3 DEF Search
<1> QED BY <1>6, <1>13, SearchKeepsPassed DEF IInv

\* A step under way that is met again closes a cycle: the walk from it on.
LEMMA CyclePreserves ==
  ASSUME IInv, place = "search", NEW s, Considers(s), colour[s] = 1,
         Reject("cycle"), UNCHANGED <<doc, path, colour>>
  PROVE  IInv'
<1>1. s \in Steps /\ s \in Coloured(1)
  BY ConsidersFacts DEF Coloured
<1>2. PICK first \in DOMAIN path : path[first] = s
  BY <1>1 DEF IInv, Search, Walk
<1>3. /\ DOMAIN path = 1..Len(path) /\ Len(path) \in Nat /\ path # <<>>
      /\ \A i \in 1..Len(path) : path[i] \in Steps
  BY <1>2, PathFacts DEF IInv
<1>4. Cyclic
  <2> DEFINE Cycle == {path[i] : i \in first..Len(path)}
  <2>1. Cycle \in SUBSET Steps /\ s \in Cycle
    BY <1>2, <1>3
  <2> HIDE DEF Cycle
  <2>2. ASSUME NEW t \in Cycle PROVE Deps(t) \cap Cycle # {}
    <3>1. PICK i \in first..Len(path) : t = path[i]
      BY DEF Cycle
    <3>2. CASE i < Len(path)
      <4>1. i + 1 \in DOMAIN path /\ i + 1 \in first..Len(path) /\ i + 1 > 1 /\ (i + 1) - 1 = i
        BY <1>3, <3>2
      <4>2. path[i + 1] \in Deps(path[(i + 1) - 1])
        BY <4>1 DEF IInv, Search, Walk
      <4>3. path[i + 1] \in Cycle
        BY <4>1 DEF Cycle
      <4> QED BY <3>1, <4>1, <4>2, <4>3
    <3>3. CASE i = Len(path)
      <4>1. t = Top /\ s \in Deps(Top)
        BY <1>3, <3>1, <3>3, ConsidersFacts DEF Top
      <4> QED BY <2>1, <4>1
    <3>4. i \in 1..Len(path)
      BY <1>3
    <3>5. \A n \in Nat : \A j \in 1..n : j < n \/ j = n
      OBVIOUS
    <3> QED BY <1>3, <3>2, <3>3, <3>4, <3>5
  <2>3. \A t \in Cycle : [u \in Steps |-> Deps(u)][t] \cap Cycle # {}
    BY <2>1, <2>2
  <2> QED BY <2>1, <2>3 DEF Cyclic, Acyclic
<1>5. place' = "done" /\ verdict' = "cycle"
  BY DEF Reject
<1>6. TypeOK'
  BY <1>5, SameDocument, ConsidersFacts DEF IInv, TypeOK, Places, Reasons
<1>7. Justified("cycle")'
  BY <1>4, SameDocument DEF Justified
<1>8. Passed'
  BY <1>5, <1>7 DEF Passed, Known
<1>9. /\ Steps' = Steps /\ \A t \in Steps : Deps(t)' = Deps(t)
      /\ EdgeErrors' = EdgeErrors
  BY SameDocument
<1>10. Coloured(1)' = Coloured(1) /\ Coloured(2)' = Coloured(2) /\ Coloured(2) \in SUBSET Steps
  BY <1>9 DEF Coloured
<1>11. Walk'
  <2>1. \A i \in DOMAIN path : i > 1 => path[i - 1] \in Steps
    BY <1>3
  <2> QED BY <1>9, <1>10, <2>1 DEF IInv, Search, Walk
<1>12. \A t \in Steps : colour'[t] = 0 => next'[t] = 1
  <2>1. Top \in Coloured(1)
    BY <1>3, PathFacts DEF IInv, Search, Walk
  <2> QED BY <2>1, ConsidersFacts, SearchFacts DEF IInv, Search, Coloured
<1>13. Search'
  BY <1>5, <1>9, <1>10, <1>11, <1>12 DEF IInv, Search
<1> QED BY <1>6, <1>8, <1>13 DEF IInv

\* A step that is left has only dependencies that are done, so whatever set it
\* joins still has a step that depends on none of the set.
LEMMA LeavePreserves ==
  ASSUME IInv, Leave
  PROVE  IInv'
<1>1. /\ place = "search" /\ path # <<>> /\ next[Top] > Len(doc.after[Top])
      /\ colour' = [colour EXCEPT ![Top] = 2] /\ path' = SubSeq(path, 1, Len(path) - 1)
      /\ UNCHANGED <<doc, place, verdict, unvisited, next>>
  BY DEF Leave
<1>2. /\ Steps' = Steps /\ \A t \in Steps : Deps(t)' = Deps(t)
      /\ EdgeErrors' = EdgeErrors
  BY <1>1, SameDocument
<1>3. PICK top : top = Top
  OBVIOUS
<1>4. /\ Len(path) \in Nat \ {0} /\ DOMAIN path = 1..Len(path)
      /\ \A i \in 1..Len(path) : path[i] \in Steps
      /\ top \in Steps /\ top \in Names /\ top = path[Len(path)]
  BY <1>1, <1>3, PathFacts, SearchFacts DEF IInv
<1>5. /\ path' \in Seq(Steps) /\ Len(path') = Len(path) - 1
      /\ DOMAIN path' = 1..(Len(path) - 1) /\ DOMAIN path' \in SUBSET (DOMAIN path)
      /\ \A i \in 1..(Len(path) - 1) : path'[i] = path[i]
  <2>1. \A i \in 1..(Len(path) - 1) : path[i] \in Steps
    BY <1>4
  <2>2. PICK last \in Nat : last = Len(path) - 1
    <3>1. \A n \in Nat \ {0} : n - 1 \in Nat
      OBVIOUS
    <3> QED BY <1>4, <3>1
  <2>3. /\ SubSeq(path, 1, last) \in Seq(Steps)
        /\ Len(SubSeq(path, 1, last)) = IF 1 <= last THEN last - 1 + 1 ELSE 0
        /\ \A i \in 1..(last - 1 + 1) : SubSeq(path, 1, last)[i] = path[1 + i - 1]
    BY <2>1, <2>2, SubSeqProperties
  <2>4. /\ path' \in Seq(Steps) /\ Len(path') = last
        /\ \A i \in 1..last : path'[i] = path[i]
    BY <1>1, <2>2, <2>3
  <2>5. DOMAIN path' = 1..last
    BY <2>4
  <2> QED BY <1>4, <2>2, <2>4, <2>5
<1>6. /\ colour' \in [Names -> 0..2] /\ colour'[top] = 2 /\ colour[top] = 1
      /\ \A t \in Names \ {top} : colour'[t] = colour[t]
  <2>1. colour \in [Names -> 0..2]
    BY DEF IInv, TypeOK
  <2>2. top \in Coloured(1)
    BY <1>4 DEF IInv, Search, Walk
  <2> QED BY <1>1, <1>3, <1>4, <2>1, <2>2 DEF Coloured
<1>7. TypeOK'
  BY <1>1, <1>2, <1>5, <1>6, SameDocument DEF IInv, TypeOK
<1>8. /\ Coloured(1)' = Coloured(1) \ {top} /\ Coloured(2)' = Coloured(2) \cup {top}
      /\ top \notin Coloured(2) /\ Coloured(2) \in SUBSET Steps
  <2>1. Steps \in SUBSET Names
    BY <1>1, SearchFacts
  <2> QED BY <1>2, <1>4, <1>6, <2>1 DEF Coloured
<1>9. Deps(top) \subseteq Coloured(2)
  <2> SUFFICES ASSUME NEW d \in Deps(top) PROVE d \in Coloured(2)
    OBVIOUS
  <2>1. PICK k \in DOMAIN doc.after[top] : d = doc.after[top][k]
    BY DEF Deps
  <2>2. k \in 1..Len(doc.after[top]) /\ Len(doc.after[top]) \in Nat /\ next[top] \in Nat /\ d \in Steps
    BY <1>1, <1>4, SearchFacts
  <2>3. k \in 1..(next[top] - 1)
    BY <1>1, <1>3, <2>2
  <2>4. PICK i \in DOMAIN path : i = Len(path)
    BY <1>4
  <2>5. colour[d] = 2
    BY <1>1, <1>4, <2>1, <2>3, <2>4 DEF IInv, Search
  <2> QED BY <2>2, <2>5 DEF Coloured
<1>10. Walk'
  <2>1. \A i, j \in DOMAIN path' : path'[i] = path'[j] => i = j
    BY <1>5 DEF IInv, Search, Walk
  <2>2. ASSUME NEW i \in DOMAIN path', i > 1 PROVE (path[i] \in Deps(path[i - 1]))'
    <3>1. /\ i \in 1..(Len(path) - 1) /\ i - 1 \in 1..(Len(path) - 1)
          /\ path[i - 1] \in Steps /\ i \in DOMAIN path
      BY <1>4, <1>5, <2>2
    <3>2. path[i] \in Deps(path[i - 1])
      BY <2>2, <3>1 DEF IInv, Search, Walk
    <3> QED BY <1>2, <1>5, <3>1, <3>2
  <2>3. Coloured(1)' = {path'[i] : i \in DOMAIN path'}
    <3>1. Coloured(1) = {path[i] : i \in DOMAIN path} /\ \A i, j \in DOMAIN path : path[i] = path[j] => i = j
      BY DEF IInv, Search, Walk
    <3>2. \A i \in DOMAIN path : i \in DOMAIN path' \/ i = Len(path)
      BY <1>4, <1>5
    <3>3. \A i \in DOMAIN path' : i \in DOMAIN path /\ i # Len(path) /\ Len(path) \in DOMAIN path
      BY <1>4, <1>5
    <3>4. \A i \in DOMAIN path' : path'[i] \in Coloured(1) \ {top}
      BY <1>4, <1>5, <3>1, <3>3
    <3>5. \A t \in Coloured(1) \ {top} : \E i \in DOMAIN path' : t = path'[i]
      BY <1>4, <1>5, <3>1, <3>2
    <3> QED BY <1>8, <3>4, <3>5
  <2> QED BY <2>1, <2>2, <2>3 DEF Walk
<1>11. \A t \in Steps \ unvisited' : colour'[t] # 0
  <2>1. Steps \in SUBSET Names
    BY <1>1, SearchFacts
  <2> QED BY <1>1, <1>6, <2>1 DEF IInv, Search
<1>12. \A t \in Steps : colour'[t] = 0 => next'[t] = 1
  <2>1. Steps \in SUBSET Names
    BY <1>1, SearchFacts
  <2> QED BY <1>1, <1>6, <2>1 DEF IInv, Search
<1>13. ASSUME NEW i \in DOMAIN path', NEW k \in 1..(next'[path'[i]] - 1)
      PROVE  /\ k \in DOMAIN doc'.after[path'[i]]
             /\ \/ colour'[doc'.after[path'[i]][k]] = 2
                \/ i < Len(path') /\ path'[i + 1] = doc'.after[path'[i]][k]
  <2>1. i \in 1..(Len(path) - 1) /\ i \in DOMAIN path /\ path'[i] = path[i] /\ path[i] \in Steps
    BY <1>4, <1>5
  <2>2. k \in 1..(next[path[i]] - 1)
    BY <1>1, <2>1
  <2>3. /\ k \in DOMAIN doc.after[path[i]]
        /\ \/ colour[doc.after[path[i]][k]] = 2
           \/ i < Len(path) /\ path[i + 1] = doc.after[path[i]][k]
    BY <1>1, <2>1, <2>2 DEF IInv, Search
  <2>4. doc.after[path[i]][k] \in Names
    BY <1>1, <2>1, <2>3, SearchFacts
  <2>5. colour[doc.after[path[i]][k]] = 2 => colour'[doc.after[path[i]][k]] = 2
    BY <1>6, <2>4
  <2>6. i + 1 = Len(path) \/ (i + 1 \in 1..(Len(path) - 1) /\ i < Len(path'))
    BY <1>4, <1>5, <2>1
  <2>7. i + 1 = Len(path) => path[i + 1] = top
    BY <1>4
  <2> QED BY <1>1, <1>5, <1>6, <2>1, <2>3, <2>5, <2>6, <2>7
<1>14. \A t \in Coloured(2)' : Deps(t)' \subseteq Coloured(2)'
  BY <1>2, <1>4, <1>8, <1>9 DEF IInv, Search
<1>15. ASSUME NEW group \in SUBSET (Coloured(2)'), group # {}
       PROVE  \E t \in group : Deps(t)' \cap group = {}
  <2>1. \A t \in group : t \in Steps /\ Deps(t)' = Deps(t)
    BY <1>2, <1>4, <1>8
  <2>2. CASE group \ {top} = {}
    <3>1. top \in group /\ top \notin Deps(top) /\ group = {top}
      BY <1>1, <1>4, <1>15, <2>2, SearchFacts
    <3> QED BY <2>1, <3>1
  <2>3. CASE group \ {top} # {}
    <3>1. PICK rest \in SUBSET Coloured(2) : rest = group \ {top}
      BY <1>8
    <3>2. PICK t \in rest : Deps(t) \cap rest = {}
      BY <2>3, <3>1 DEF IInv, Search
    <3>3. Deps(t) \subseteq Coloured(2)
      BY DEF IInv, Search
    <3> QED BY <1>8, <2>1, <3>1, <3>2, <3>3
  <2> QED BY <2>2, <2>3
<1>16. Search'
  BY <1>1, <1>2, <1>10, <1>11, <1>12, <1>13, <1>14, <1>15, SearchFacts DEF IInv, Search
<1> QED BY <1>1, <1>7, <1>16, SearchKeepsPassed DEF IInv

LEMMA VisitPreserves ==
  ASSUME IInv, place = "search", NEW s, Considers(s), Visit(s), UNCHANGED doc
  PROVE  IInv'
BY PassOverPreserves, EnterPreserves, CyclePreserves DEF Visit

\* When the search is over every step has been done.
LEMMA BeginPreserves ==
  ASSUME IInv, Begin
  PROVE  IInv'
<1>1. place = "search" /\ path = <<>> /\ UNCHANGED <<doc, next>>
  BY DEF Begin
<1>2. CASE \E s \in unvisited : Visit(s) /\ unvisited' = unvisited \ {s}
  BY <1>1, <1>2, VisitPreserves DEF Considers
<1>3. CASE unvisited = {} /\ place' = "changes" /\ UNCHANGED <<verdict, unvisited, path, colour>>
  <2>1. TypeOK'
    BY <1>1, <1>3, SameDocument DEF IInv, TypeOK, Places
  <2>2. \A s \in Steps : colour[s] = 2
    <3>1. Coloured(1) = {}
      BY <1>1 DEF IInv, Search, Walk
    <3>2. \A s \in Steps : colour[s] # 0 /\ colour[s] # 1 /\ colour[s] \in {0, 1, 2}
      BY <1>1, <1>3, <3>1, SearchFacts DEF IInv, Search, Coloured
    <3> QED BY <3>2
  <2>3. Passed'
    BY <1>1, <1>3, <2>2, SameDocument DEF IInv, Passed, Known
  <2>4. Steps' = Steps /\ EdgeErrors' = EdgeErrors /\ \A s \in Steps : Deps(s)' = Deps(s)
    BY <1>1, SameDocument
  <2>5. Coloured(1)' = Coloured(1) /\ Coloured(2)' = Coloured(2) /\ Coloured(2) \in SUBSET Steps
    BY <1>3, <2>4 DEF Coloured
  <2>6. Walk'
    BY <1>1, <1>3, <2>5 DEF IInv, Search, Walk
  <2>7. Search'
    BY <1>1, <1>3, <2>4, <2>5, <2>6 DEF IInv, Search
  <2> QED BY <2>1, <2>3, <2>7 DEF IInv
<1> QED BY <1>2, <1>3 DEF Begin

LEMMA FollowPreserves ==
  ASSUME IInv, Follow
  PROVE  IInv'
BY VisitPreserves DEF Follow, Considers

LEMMA InitEstablishes == Init => IInv
<1> SUFFICES ASSUME Init PROVE IInv
  OBVIOUS
<1>1. IsDocument(doc)
  BY CatalogAssumption DEF Init
<1>2. TypeOK
  BY <1>1 DEF Init, TypeOK, Places
<1>3. Passed
  BY DEF Init, Passed, Known
<1>4. \A s \in Steps : colour[s] = 0 /\ next[s] = 1
  BY <1>1, DocumentFacts DEF Init
<1>5. Coloured(1) = {} /\ Coloured(2) = {} /\ path = <<>>
  BY <1>4 DEF Coloured, Init
<1>6. Walk
  BY <1>5 DEF Walk
<1>7. place = "limits"
  BY DEF Init
<1>8. Search
  BY <1>4, <1>5, <1>6, <1>7 DEF Search
<1> QED BY <1>2, <1>3, <1>8 DEF IInv

LEMMA NextPreserves == IInv /\ [Next]_vars => IInv'
<1> SUFFICES ASSUME IInv, [Next]_vars PROVE IInv'
  OBVIOUS
<1>1. CASE Next
  BY <1>1, PassesPreserve, EdgesPreserve, BeginPreserves, FollowPreserves, LeavePreserves, LeafPreserves
     DEF Next
<1>2. CASE UNCHANGED vars
  <2>1. UNCHANGED <<doc, place, verdict, unvisited, path, next, colour>>
    BY <1>2 DEF vars, search
  <2>2. TypeOK'
    BY <2>1, SameDocument DEF IInv, TypeOK
  <2>3. Passed'
    BY <2>1, SameDocument DEF IInv, Passed, Known
  <2>4. Steps' = Steps /\ EdgeErrors' = EdgeErrors /\ \A s \in Steps : Deps(s)' = Deps(s)
    BY <2>1, SameDocument
  <2>5. Coloured(1)' = Coloured(1) /\ Coloured(2)' = Coloured(2) /\ Coloured(2) \in SUBSET Steps
    BY <2>1, <2>4 DEF Coloured
  <2>6. \A i \in DOMAIN path : i > 1 => path[i - 1] \in Steps
    BY PathFacts DEF IInv
  <2>7. Walk'
    BY <2>1, <2>4, <2>5, <2>6 DEF IInv, Search, Walk
  <2>8. Search'
    BY <2>1, <2>4, <2>5, <2>7 DEF IInv, Search
  <2> QED BY <2>2, <2>3, <2>8 DEF IInv
<1> QED BY <1>1, <1>2

-----------------------------------------------------------------------------
(* Theorems                                                                *)

\* The passes and the search as they follow one another: what each leaves known
\* of the document, and what the colours of the depth-first search mean.
THEOREM InductiveInvariant == Spec => []IInv
<1> QED BY InitEstablishes, NextPreserves, PTL DEF Spec

\* The document that is loaded is one of those of the catalog, and the state of
\* the load is one that loadWorkflowDefinition can be in.
THEOREM TypeCorrect == Spec => []TypeOK
<1>1. IInv => TypeOK
  BY DEF IInv
<1> QED BY <1>1, InductiveInvariant, PTL

\* SearchFollowsGraph: the path of the search never meets itself, and what is
\* done depends only on what is done, in whatever order the steps are visited.
THEOREM SearchFollows == Spec => []SearchFollowsGraph
<1>1. IInv => SearchFollowsGraph
  <2> SUFFICES ASSUME IInv PROVE SearchFollowsGraph
    OBVIOUS
  <2>1. Walk /\ \A s \in Coloured(2) : Deps(s) \subseteq Coloured(2)
    BY DEF IInv, Search
  <2>2. \A s \in Steps : colour[s] = 1 <=> \E i \in DOMAIN path : path[i] = s
    BY <2>1 DEF Walk, Coloured
  <2>3. \A s \in Steps : colour[s] = 2 => \A d \in Deps(s) : colour[d] = 2
    BY <2>1 DEF Coloured
  <2> QED BY <2>1, <2>2, <2>3 DEF Walk, SearchFollowsGraph
<1> QED BY <1>1, InductiveInvariant, PTL

LEMMA AcceptedIsWellFormed ==
  ASSUME IInv, verdict = "accepted"
  PROVE  /\ WellFormed(Steps, Definition)
         /\ Cardinality(Steps) <= MaxSteps /\ Parallelism <= MaxParallelism
         /\ Cardinality(doc.publishable) <= 1
<1>1. /\ LimitErrors = {} /\ StepErrors = {} /\ EdgeErrors = {} /\ ChangeErrors = {}
      /\ StorageErrors = {} /\ LeafErrors = {} /\ \A s \in Steps : colour[s] = 2
  BY DEF IInv, Passed, Known
<1>2. IsDocument(doc)
  BY DEF IInv, TypeOK
<1>3. /\ Steps \in SUBSET Names /\ IsFiniteSet(Steps) /\ doc.publishable \in SUBSET Steps
      /\ doc.agent \in [Steps -> Agents] /\ doc.source \in [Steps -> Names \cup {NoStep}]
      /\ doc.parallelism \in Int
      /\ \A s \in Steps : Deps(s) \in SUBSET Steps /\ s \notin Deps(s)
  BY <1>1, <1>2, DocumentFacts, GoodEdges
<1>4. /\ Parallelism \in 1..MaxParallelism /\ Parallelism \in Nat \ {0}
      /\ Cardinality(Steps) \in 1..MaxSteps /\ Parallelism <= MaxParallelism /\ Cardinality(Steps) <= MaxSteps
  <2>1. Parallelism \in 1..MaxParallelism /\ Cardinality(Steps) \in 1..MaxSteps
    BY <1>1 DEF LimitErrors
  <2> QED BY <2>1, CatalogAssumption
<1>5. \A s \in Steps : doc.agent[s] # "missing" /\ Loads(s)
  BY <1>1 DEF StepErrors, Found, Loads
<1>6. \A s, t \in doc.publishable : s = t
  BY <1>1, <1>3, <1>5 DEF StepErrors, Found
<1>7. \A s \in Steps : doc.agent[s] = IF Persistent(s) THEN "persistent" ELSE "ephemeral"
  BY <1>1, <1>3, <1>5 DEF StorageErrors, Found, Agents
<1>8. \A s \in Steps : doc.source[s] \in Deps(s) \cup {NoStep}
  BY <1>1 DEF ChangeErrors, Found
<1>9. \A s \in Steps : Deps(s) \cap doc.publishable = {}
  BY <1>1 DEF LeafErrors, Found
<1>10. Cardinality(doc.publishable) <= 1
  <2>1. CASE doc.publishable = {}
    BY <2>1, FS_EmptySet
  <2>2. CASE doc.publishable # {}
    <3>1. PICK s : doc.publishable = {s}
      BY <1>6, <2>2
    <3>2. Cardinality({s}) = 1
      BY FS_Singleton
    <3> QED BY <3>1, <3>2
  <2> QED BY <2>1, <2>2
<1>11. PICK after : after = [s \in Steps |-> Deps(s)]
  OBVIOUS
<1>12. PICK leaf : leaf = IF doc.publishable = {} THEN NoStep ELSE CHOOSE s \in doc.publishable : TRUE
  OBVIOUS
<1>13. PICK eph : eph = {s \in Steps : doc.agent[s] = "ephemeral"}
  OBVIOUS
<1>14. PICK def : def = Definition
  OBVIOUS
<1>15. def = [after |-> after, source |-> doc.source, publishable |-> leaf, ephemeral |-> eph,
              parallelism |-> Parallelism]
  BY <1>11, <1>12, <1>13, <1>14 DEF Definition
<1>16. NoStep \notin Steps
  BY <1>3, CatalogAssumption
<1>17. /\ doc.publishable = {} => leaf = NoStep
       /\ doc.publishable # {} => doc.publishable = {leaf} /\ leaf \in Steps
  BY <1>3, <1>6, <1>12
<1>18. after \in [Steps -> SUBSET Steps] /\ \A s \in Steps : after[s] = Deps(s)
  BY <1>3, <1>11
<1>19. doc.source \in [Steps -> Steps \cup {NoStep}]
  BY <1>3, <1>8
<1>20. def \in [after : [Steps -> SUBSET Steps], source : [Steps -> Steps \cup {NoStep}],
                publishable : Steps \cup {NoStep}, ephemeral : SUBSET Steps, parallelism : Nat \ {0}]
  <2>1. leaf \in Steps \cup {NoStep} /\ eph \in SUBSET Steps
    BY <1>13, <1>17
  <2> QED BY <1>4, <1>15, <1>18, <1>19, <2>1
<1>21. Acyclic(Steps, after)
  <2>1. Coloured(2) = Steps
    BY <1>1 DEF Coloured
  <2>2. \A group \in SUBSET Steps : group # {} => \E s \in group : Deps(s) \cap group = {}
    BY <2>1 DEF IInv, Search
  <2> QED BY <1>18, <2>2 DEF Acyclic
<1>22. \A s \in Steps : doc.source[s] # NoStep => doc.source[s] \in after[s]
  BY <1>8, <1>18
<1>23. \A s \in Steps : leaf \notin after[s]
  BY <1>9, <1>16, <1>17, <1>18
<1>24. eph = (Steps \ Producers(Steps, doc.source)) \ {leaf}
  <2>1. \A s \in Steps : s \in eph <=> ~Persistent(s)
    BY <1>7, <1>13
  <2>2. \A s \in Steps : Persistent(s) <=> s = leaf \/ s \in Producers(Steps, doc.source)
    BY <1>16, <1>17 DEF Persistent
  <2> QED BY <1>13, <2>1, <2>2
<1>25. WellFormed(Steps, def)
  BY <1>15, <1>20, <1>21, <1>22, <1>23, <1>24 DEF WellFormed
<1> QED BY <1>4, <1>10, <1>14, <1>25

\* VerdictIsRight: the workflow that is accepted is what the workflow controller
\* assumes of its definitions, and a rejection names a fault of the document: the
\* search of validateGraph reports a cycle just when there is one.
THEOREM VerdictRight == Spec => []VerdictIsRight
<1>1. IInv => VerdictIsRight
  BY AcceptedIsWellFormed DEF IInv, Passed, VerdictIsRight
<1> QED BY <1>1, InductiveInvariant, PTL
=============================================================================
