------------------------ MODULE StitchWorkflow_proofs ------------------------
(***************************************************************************)
(* Proofs about StitchWorkflow for any set of aggregates: the dependencies *)
(* between aggregates are acyclic whenever _add_dependency is not running, *)
(* and none of the workflow's dependencies is missing.                     *)
(***************************************************************************)
EXTENDS StitchWorkflow, TLAPS

\* Each aggregate of S waits for another one of S.
Waits(deps, S) == S # {} /\ \A a \in S : deps[a] \cap S # {}

\* What agg depends on apart from the aggregates of N.
Before(N) == [dependsOn EXCEPT ![agg] = @ \ N]

\* N is what the recursion has added: without N there was no cycle, and what
\* an aggregate of N depends on is a dependency of agg or still to be added.
AddedBy(N) ==
  /\ agg \notin N
  /\ Acyclic(Before(N))
  /\ \A v \in N : /\ agg \notin dependsOn[v]
                  /\ dependsOn[v] \subseteq dependsOn[agg] \cup todo

Recursion == agg # NoAgg => \E N \in SUBSET Agg : AddedBy(N)

\* Each dependency asked for is there, or is the call still to be made.
Pending ==
  \A p \in asked : \/ p[1] = p[2]
                   \/ p[2] \in dependsOn[p[1]]
                   \/ agg = p[1] /\ p[2] \in todo

BothWays == \A a, d \in Agg : d \in dependsOn[a] <=> a \in isDependencyFor[d]

IInv ==
  /\ TypeOK
  /\ NoCycle
  /\ Recursion
  /\ Pending
  /\ BothWays
  /\ agg = NoAgg => todo = {}

-----------------------------------------------------------------------------

\* The initial state has no dependencies and no recursion.
THEOREM InitIInv == Init => IInv
<1> SUFFICES ASSUME Init PROVE IInv
  OBVIOUS
<1> USE NoAggAssumption DEF Init
<1>1. TypeOK
  BY DEF TypeOK
<1>2. Acyclic(dependsOn)
  BY DEF Acyclic
<1> QED
  BY <1>1, <1>2 DEF IInv, NoCycle, Recursion, Pending, BothWays

\* Every step of the workflow keeps the types.
LEMMA TypeStep == TypeOK /\ [Next]_vars => TypeOK'
<1> SUFFICES ASSUME TypeOK, [Next]_vars PROVE TypeOK'
  OBVIOUS
<1> USE NoAggAssumption DEF TypeOK
<1>1. ASSUME NEW a \in Agg, NEW d \in Agg, HopDependsOn(a, d) PROVE TypeOK'
  BY <1>1 DEF HopDependsOn
<1>2. ASSUME NEW d \in todo, ~failed, agg # NoAgg,
             RefuseLoop(d) \/ SkipKnown(d) \/ AddNew(d)
      PROVE TypeOK'
  <2>1. CASE RefuseLoop(d)
    BY <2>1 DEF RefuseLoop
  <2>2. CASE SkipKnown(d)
    BY <2>2 DEF SkipKnown
  <2>3. CASE AddNew(d)
    <3>1. agg \in Agg /\ d \in Agg /\ d # agg
      BY <1>2, <2>3 DEF AddNew, AlreadyKnown
    <3>2. \A a \in Agg : dependsOn'[a] \subseteq dependsOn[a] \cup (Agg \ {a})
      BY <2>3, <3>1 DEF AddNew
    <3>3. \A a \in Agg : a \notin dependsOn'[a]
      BY <3>2
    <3> QED
      BY <2>3, <3>1, <3>3 DEF AddNew, RemainingCalls
  <2> QED
    BY <1>2, <2>1, <2>2, <2>3
<1>3. CASE Return
  BY <1>3 DEF Return
<1>4. CASE UNCHANGED vars
  BY <1>4 DEF vars
<1> QED
  BY <1>1, <1>2, <1>3, <1>4 DEF Next, AddDependency

\* What the recursion leaves is acyclic: in a cycle with a new dependency of
\* agg, the new dependencies alone would have been a cycle before.
LEMMA RecursionEnds ==
  ASSUME TypeOK, agg \in Agg, todo = {}, NEW N \in SUBSET Agg, AddedBy(N)
  PROVE  Acyclic(dependsOn)
<1>1. SUFFICES ASSUME NEW S \in SUBSET Agg, Waits(dependsOn, S) PROVE FALSE
  BY DEF Acyclic, Waits
<1>2. \A T \in SUBSET Agg : ~Waits(Before(N), T)
  BY DEF AddedBy, Acyclic, Waits
<1>3. \A a \in Agg : Before(N)[a] = IF a = agg THEN dependsOn[a] \ N ELSE dependsOn[a]
  BY DEF Before, TypeOK
<1>4. agg \in S
  BY <1>1, <1>2, <1>3 DEF Waits
<1>5. dependsOn[agg] \cap S \subseteq N
  <2>1. PICK a \in S : Before(N)[a] \cap S = {}
    BY <1>1, <1>2 DEF Waits
  <2>2. a = agg
    BY <1>1, <1>3, <2>1 DEF Waits
  <2> QED
    BY <1>3, <2>1, <2>2
<1>6. N \cap S # {}
  BY <1>1, <1>4, <1>5 DEF Waits
<1>7. ASSUME NEW v \in N \cap S PROVE Before(N)[v] \cap (N \cap S) # {}
  <2>1. v # agg /\ dependsOn[v] \subseteq dependsOn[agg]
    BY <1>7 DEF AddedBy
  <2>2. dependsOn[v] \cap S # {}
    BY <1>1, <1>7 DEF Waits
  <2> QED
    BY <1>3, <1>5, <2>1, <2>2
<1>8. Waits(Before(N), N \cap S)
  BY <1>6, <1>7 DEF Waits
<1> QED
  BY <1>2, <1>8

\* A hop dependency starts the recursion with nothing added; each call skips,
\* refuses or adds one; the return finds the graph acyclic.
LEMMA CycleStep ==
  IInv /\ [Next]_vars => NoCycle' /\ Recursion' /\ (agg = NoAgg => todo = {})'
<1> SUFFICES ASSUME IInv, [Next]_vars
             PROVE  NoCycle' /\ Recursion' /\ (agg = NoAgg => todo = {})'
  OBVIOUS
<1> USE NoAggAssumption
<1>1. ASSUME NEW a \in Agg, NEW d \in Agg, HopDependsOn(a, d)
      PROVE  NoCycle' /\ Recursion' /\ (agg = NoAgg => todo = {})'
  <2>1. agg' = a /\ dependsOn' = dependsOn /\ a # NoAgg /\ Acyclic(dependsOn)
    BY <1>1 DEF HopDependsOn, IInv, NoCycle
  <2>2. Before({})' = dependsOn
    BY <2>1 DEF Before, IInv, TypeOK
  <2>3. AddedBy({})'
    BY <2>1, <2>2 DEF AddedBy
  <2> QED
    BY <2>1, <2>3 DEF NoCycle, Recursion
<1>2. ASSUME NEW d \in todo, ~failed, agg # NoAgg,
             RefuseLoop(d) \/ SkipKnown(d) \/ AddNew(d)
      PROVE  NoCycle' /\ Recursion' /\ (agg = NoAgg => todo = {})'
  <2>0. agg \in Agg /\ d \in Agg
    BY <1>2 DEF IInv, TypeOK
  <2>1. PICK N \in SUBSET Agg : AddedBy(N)
    BY <1>2 DEF IInv, Recursion
  <2>2. agg' = agg
    BY <1>2 DEF RefuseLoop, SkipKnown, AddNew
  <2>3. CASE RefuseLoop(d)
    <3>1. AddedBy(N)'
      BY <2>1, <2>2, <2>3 DEF RefuseLoop, AddedBy, Before
    <3> QED
      BY <1>2, <2>2, <3>1 DEF NoCycle, Recursion
  <2>4. CASE SkipKnown(d)
    <3>1. dependsOn' = dependsOn /\ todo' = todo \ {d}
      BY <2>4 DEF SkipKnown
    <3>2. d \in dependsOn[agg] \/ d = agg
      BY <2>4 DEF SkipKnown, AlreadyKnown
    <3>3. Before(N)' = Before(N)
      BY <2>2, <3>1 DEF Before
    <3>4. AddedBy(N)'
      BY <2>1, <2>2, <3>1, <3>2, <3>3 DEF AddedBy
    <3> QED
      BY <1>2, <2>2, <3>4 DEF NoCycle, Recursion
  <2>5. CASE AddNew(d)
    <3>1. /\ d # agg /\ d \notin dependsOn[agg] /\ agg \notin dependsOn[d]
          /\ dependsOn' = [dependsOn EXCEPT ![agg] = @ \cup {d}]
          /\ todo' = (todo \ {d}) \cup dependsOn[d]
      BY <2>5 DEF AddNew, FoundLoop, AlreadyKnown, RemainingCalls
    <3>2. \A a \in Agg : dependsOn'[a] = IF a = agg THEN dependsOn[a] \cup {d}
                                                    ELSE dependsOn[a]
      BY <2>0, <3>1 DEF IInv, TypeOK
    <3> DEFINE M == N \cup {d}
    <3>3. M \in SUBSET Agg /\ agg \notin M
      BY <2>0, <2>1, <3>1 DEF AddedBy
    <3>4. Acyclic(Before(M)')
      <4>1. ASSUME NEW S \in SUBSET Agg, S # {}
            PROVE  \E a \in S : Before(M)'[a] \cap S = {}
        <5>1. PICK a \in S : Before(N)[a] \cap S = {}
          BY <2>1, <4>1 DEF AddedBy, Acyclic
        <5>2. Before(M)'[a] \subseteq Before(N)[a]
          BY <2>2, <3>1, <3>2 DEF Before, IInv, TypeOK
        <5> QED
          BY <5>1, <5>2
      <4> QED
        BY <4>1 DEF Acyclic
    <3>5. ASSUME NEW v \in M
          PROVE  /\ agg \notin dependsOn'[v]
                 /\ dependsOn'[v] \subseteq dependsOn'[agg] \cup todo'
      <4>1. v \in Agg /\ v # agg /\ dependsOn'[v] = dependsOn[v]
        BY <3>2, <3>3, <3>5
      <4>2. CASE v = d
        BY <2>0, <3>1, <4>1, <4>2
      <4>3. CASE v \in N
        <5>1. agg \notin dependsOn[v] /\ dependsOn[v] \subseteq dependsOn[agg] \cup todo
          BY <2>1, <4>3 DEF AddedBy
        <5> QED
          BY <2>0, <3>1, <3>2, <4>1, <5>1
      <4> QED
        BY <3>5, <4>2, <4>3
    <3>6. AddedBy(M)'
      BY <2>2, <3>3, <3>4, <3>5 DEF AddedBy, Acyclic
    <3> HIDE DEF M
    <3> QED
      BY <1>2, <2>2, <3>3, <3>6 DEF NoCycle, Recursion
  <2> QED
    BY <1>2, <2>3, <2>4, <2>5
<1>3. CASE Return
  <2>1. agg \in Agg /\ agg # NoAgg /\ todo = {} /\ TypeOK
    BY <1>3 DEF Return, IInv, TypeOK
  <2>2. Acyclic(dependsOn)
    BY <2>1, RecursionEnds DEF IInv, Recursion
  <2> QED
    BY <1>3, <2>1, <2>2 DEF Return, NoCycle, Recursion, Acyclic
<1>4. CASE UNCHANGED vars
  BY <1>4 DEF vars, IInv, NoCycle, Recursion, AddedBy, Before, Acyclic
<1> QED
  BY <1>1, <1>2, <1>3, <1>4 DEF Next, AddDependency

\* No call is lost: each step that removes a call has made it.
LEMMA KeptStep == IInv /\ [Next]_vars => Pending' /\ BothWays'
<1> SUFFICES ASSUME IInv, [Next]_vars PROVE Pending' /\ BothWays'
  OBVIOUS
<1> USE DEF IInv, TypeOK, Pending, BothWays
<1>1. ASSUME NEW a \in Agg, NEW d \in Agg, HopDependsOn(a, d)
      PROVE  Pending' /\ BothWays'
  BY <1>1, NoAggAssumption DEF HopDependsOn
<1>2. ASSUME NEW d \in todo, ~failed, agg # NoAgg,
             RefuseLoop(d) \/ SkipKnown(d) \/ AddNew(d)
      PROVE  Pending' /\ BothWays'
  <2>1. CASE RefuseLoop(d)
    BY <2>1 DEF RefuseLoop
  <2>2. CASE SkipKnown(d)
    BY <2>2 DEF SkipKnown, AlreadyKnown
  <2>3. CASE AddNew(d)
    <3>1. Pending'
      BY <1>2, <2>3 DEF AddNew, RemainingCalls
    <3>2. BothWays'
      BY <1>2, <2>3 DEF AddNew
    <3> QED
      BY <3>1, <3>2
  <2> QED
    BY <1>2, <2>1, <2>2, <2>3
<1>3. CASE Return
  BY <1>3 DEF Return
<1>4. CASE UNCHANGED vars
  BY <1>4 DEF vars
<1> QED
  BY <1>1, <1>2, <1>3, <1>4 DEF Next, AddDependency

-----------------------------------------------------------------------------

\* The strengthened invariant holds of every reachable state.
THEOREM Inductive == Spec => []IInv
<1>1. IInv /\ [Next]_vars => IInv'
  BY TypeStep, CycleStep, KeptStep DEF IInv
<1> QED
  BY InitIInv, <1>1, PTL DEF Spec

\* The launcher never waits in a circle: the loop test of workflow.py:246,
\* made one dependency at a time, is enough for every workflow.
THEOREM Cyclefree == Spec => []NoCycle
<1>1. IInv => NoCycle
  BY DEF IInv
<1> QED
  BY Inductive, <1>1, PTL

\* The aggregates depend on each other wherever their hops do, and the two
\* directions of the graph agree.
THEOREM NothingForgotten == Spec => []DependenciesKept
<1>1. IInv => DependenciesKept
  BY DEF IInv, Pending, BothWays, DependenciesKept
<1> QED
  BY Inductive, <1>1, PTL

-----------------------------------------------------------------------------

\* E leads from x to y: no set that E does not leave holds x without y.
Leads(E, x, y) ==
  \A T \in SUBSET Agg :
    x \in T /\ (\A p \in E : p[1] \in T => p[2] \in T) => y \in T

\* What is, or is to be, a dependency of an aggregate is one in the workflow,
\* perhaps by way of others.
Grounded ==
  /\ \A a \in Agg : \A d \in dependsOn[a] : Leads(asked, a, d)
  /\ \A d \in todo : Leads(asked, agg, d)

\* Chains of dependencies can be joined, and stay when others are added.
LEMMA ChainsJoin ==
  ASSUME NEW E, NEW F, E \subseteq F
  PROVE  /\ \A x : Leads(E, x, x)
         /\ \A x, y, z : Leads(E, x, y) /\ Leads(E, y, z) => Leads(E, x, z)
         /\ \A x, y : Leads(E, x, y) => Leads(F, x, y)
         /\ \A p \in E : Leads(E, p[1], p[2])
BY DEF Leads

\* Two aggregates that lead to each other are on a cycle: those between them
\* all have a dependency on another one of those.
LEMMA MutualIsLoop ==
  ASSUME NEW E \in SUBSET (Agg \X Agg), NEW a \in Agg, NEW d \in Agg, a # d,
         Leads(E, a, d), Leads(E, d, a)
  PROVE  \E S \in SUBSET Agg :
           S # {} /\ \A x \in S : \E y \in S \ {x} : <<x, y>> \in E
<1> DEFINE S == {x \in Agg : Leads(E, a, x) /\ Leads(E, x, a)}
<1>1. a \in S /\ d \in S
  BY ChainsJoin
<1>2. ASSUME NEW x \in S PROVE \E y \in S \ {x} : <<x, y>> \in E
  <2> DEFINE T == {x} \cup {w \in Agg : \E y \in Agg \ {x} : <<x, y>> \in E /\ Leads(E, y, w)}
  <2>1. PICK z \in S : z # x
    BY <1>1
  <2>2. Leads(E, x, z)
    BY ChainsJoin, <2>1
  <2>3. ASSUME NEW p \in E, p[1] \in T PROVE p[2] \in T
    <3>1. p[1] \in Agg /\ p[2] \in Agg /\ p = <<p[1], p[2]>>
      OBVIOUS
    <3>2. CASE p[1] = x
      <4>1. CASE p[2] = x
        BY <4>1
      <4>2. CASE p[2] # x
        <5>1. Leads(E, p[2], p[2])
          BY ChainsJoin
        <5>2. QED BY <3>1, <3>2, <4>2, <5>1
      <4>3. QED BY <4>1, <4>2
    <3>3. CASE p[1] # x
      <4>1. PICK y \in Agg \ {x} : <<x, y>> \in E /\ Leads(E, y, p[1])
        BY <2>3, <3>3
      <4>2. Leads(E, y, p[2])
        BY <4>1, ChainsJoin
      <4>3. QED BY <3>1, <4>1, <4>2
    <3>4. QED BY <3>2, <3>3
  <2>4. T \in SUBSET Agg /\ x \in T
    OBVIOUS
  <2>5. z \in T
    <3> HIDE DEF T
    <3>1. QED BY <2>2, <2>3, <2>4 DEF Leads
  <2>6. PICK y \in Agg \ {x} : <<x, y>> \in E /\ Leads(E, y, z)
    BY <2>1, <2>5
  <2>7. Leads(E, x, y)
    <3>1. <<x, y>>[1] = x /\ <<x, y>>[2] = y
      OBVIOUS
    <3>2. Leads(E, <<x, y>>[1], <<x, y>>[2])
      BY <2>6, ChainsJoin
    <3>3. QED BY <3>1, <3>2
  <2>8. Leads(E, a, y) /\ Leads(E, y, a)
    BY <2>6, <2>7, ChainsJoin
  <2>9. QED BY <2>6, <2>8
<1>3. S \in SUBSET Agg /\ S # {}
  BY <1>1
<1> HIDE DEF S
<1>4. QED BY <1>2, <1>3

\* Nothing becomes a dependency that the workflow does not ask for.
LEMMA GroundedStep == TypeOK /\ Grounded /\ [Next]_vars => Grounded'
<1> SUFFICES ASSUME TypeOK, Grounded, [Next]_vars PROVE Grounded'
  OBVIOUS
<1>1. ASSUME NEW a \in Agg, NEW d \in Agg, HopDependsOn(a, d) PROVE Grounded'
  <2>1. /\ asked' = asked \cup {<<a, d>>} /\ agg' = a /\ todo' = {d}
        /\ dependsOn' = dependsOn
    BY <1>1 DEF HopDependsOn
  <2>2. \A x, y : Leads(asked, x, y) => Leads(asked', x, y)
    BY <2>1, ChainsJoin
  <2>3. Leads(asked', a, d)
    <3>1. <<a, d>> \in asked' /\ <<a, d>>[1] = a /\ <<a, d>>[2] = d
      BY <2>1
    <3>2. Leads(asked', <<a, d>>[1], <<a, d>>[2])
      BY <3>1, ChainsJoin
    <3>3. QED BY <3>1, <3>2
  <2>4. QED BY <2>1, <2>2, <2>3 DEF Grounded
<1>2. ASSUME NEW d \in todo, agg # NoAgg, RefuseLoop(d) \/ SkipKnown(d)
      PROVE  Grounded'
  <2>1. UNCHANGED <<asked, agg, dependsOn>> /\ todo' \subseteq todo
    BY <1>2 DEF RefuseLoop, SkipKnown
  <2>2. QED BY <2>1 DEF Grounded
<1>3. ASSUME NEW d \in todo, agg # NoAgg, AddNew(d)
      PROVE  Grounded'
  <2>1. /\ UNCHANGED <<asked, agg>>
        /\ dependsOn' = [dependsOn EXCEPT ![agg] = @ \cup {d}]
        /\ todo' = (todo \ {d}) \cup dependsOn[d]
    BY <1>3 DEF AddNew, RemainingCalls
  <2>2. agg \in Agg /\ d \in Agg
    BY <1>3 DEF TypeOK
  <2>3. \A a \in Agg : dependsOn'[a] = IF a = agg THEN dependsOn[a] \cup {d} ELSE dependsOn[a]
    BY <2>1, <2>2 DEF TypeOK
  <2>4. Leads(asked, agg, d) /\ \A e \in dependsOn[d] : Leads(asked, d, e)
    BY <2>2 DEF Grounded
  <2>5. \A e \in dependsOn[d] : Leads(asked, agg, e)
    BY <2>4, ChainsJoin
  <2>6. QED BY <2>1, <2>3, <2>4, <2>5 DEF Grounded
<1>4. CASE Return
  BY <1>4 DEF Return, Grounded
<1>5. CASE UNCHANGED vars
  BY <1>5 DEF vars, Grounded
<1>6. QED BY <1>1, <1>2, <1>3, <1>4, <1>5 DEF Next, AddDependency

\* "AM dependency loop!" is raised only when the workflow has one: aggregates
\* of which each has a hop that depends on a hop of another of them.
THEOREM LoopsAreReal == Spec => []LoopIsReal
<1>1. Init => Grounded /\ LoopIsReal
  BY DEF Init, Grounded, LoopIsReal
<1>2. IInv /\ Grounded /\ LoopIsReal /\ [Next]_vars => LoopIsReal'
  <2> SUFFICES ASSUME IInv, Grounded, LoopIsReal, [Next]_vars, failed' PROVE LoopIsReal'
    BY DEF LoopIsReal
  <2>1. CASE failed' = failed /\ asked' = asked
    BY <2>1 DEF LoopIsReal
  <2>2. ASSUME NEW d \in todo, agg # NoAgg, RefuseLoop(d)
        PROVE  LoopIsReal'
    <3>1. agg \in Agg /\ d \in Agg /\ agg \in dependsOn[d] /\ agg # d
      BY <2>2 DEF IInv, TypeOK, RefuseLoop, FoundLoop
    <3>2. Leads(asked, agg, d) /\ Leads(asked, d, agg)
      BY <3>1 DEF Grounded
    <3>3. asked \in SUBSET (Agg \X Agg) /\ asked' = asked
      BY <2>2 DEF IInv, TypeOK, RefuseLoop
    <3>4. QED BY <3>1, <3>2, <3>3, MutualIsLoop DEF LoopIsReal
  <2>3. QED
    BY <2>1, <2>2 DEF Next, vars, HopDependsOn, AddDependency, SkipKnown, AddNew, Return, IInv,
       TypeOK
<1>3. IInv /\ Grounded /\ [Next]_vars => Grounded'
  BY GroundedStep DEF IInv
<1>4. QED BY <1>1, <1>2, <1>3, Inductive, PTL DEF Spec
=============================================================================
