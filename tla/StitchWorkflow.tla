--------------------------- MODULE StitchWorkflow ---------------------------
(***************************************************************************)
(* The aggregate dependencies that the stitcher derives from the workflow  *)
(* of the path service (stitch/workflow.py, stitch/objects.py).  The       *)
(* workflow gives dependencies between hops, link by link; each becomes a  *)
(* dependency between the aggregates of the hops, and the aggregate also   *)
(* gets whatever its new dependency depends on by then.  The recursion of  *)
(* _add_dependency is unfolded: todo holds the calls still to be made for  *)
(* one aggregate.                                                          *)
(***************************************************************************)
EXTENDS Naturals, FiniteSets

CONSTANTS Agg,    \* aggregates
          NoAgg   \* no call of _add_dependency is under way

ASSUME NoAggAssumption == NoAgg \notin Agg

VARIABLES
  asked,            \* pairs of aggregates whose hops depend on each other
  dependsOn,        \* Aggregate._dependsOn
  isDependencyFor,  \* Aggregate.isDependencyFor
  agg,              \* the aggregate whose dependencies are being added
  todo,             \* aggregates still to be added as its dependencies
  failed            \* StitchingError "AM dependency loop!"

vars == <<asked, dependsOn, isDependencyFor, agg, todo, failed>>

-----------------------------------------------------------------------------

Init ==
  /\ asked = {}
  /\ dependsOn = [a \in Agg |-> {}]
  /\ isDependencyFor = [a \in Agg |-> {}]
  /\ agg = NoAgg
  /\ todo = {}
  /\ failed = FALSE

\* The next hop of the workflow depends on a hop of aggregate d.  Hops come
\* link by link and, of one hop, in the order of a set: any order.
HopDependsOn(a, d) ==
  /\ ~failed
  /\ agg = NoAgg
  /\ asked' = asked \cup {<<a, d>>}
  /\ agg' = a
  /\ todo' = {d}
  /\ UNCHANGED <<dependsOn, isDependencyFor, failed>>

(* Mistakes that the properties have to notice; no action uses them.        *)
AlreadyKnown_noSelf(d) == d \in dependsOn[agg]
AlreadyKnown_hasSome(d) == dependsOn[agg] # {} \/ d = agg
RemainingCalls_direct(d) == todo \ {d}

\* d depends on the aggregate that is to depend on it
FoundLoop(d) == agg \in dependsOn[d]

AlreadyKnown(d) == d \in dependsOn[agg] \/ d = agg

RefuseLoop(d) ==
  /\ FoundLoop(d)
  /\ failed' = TRUE
  /\ UNCHANGED <<asked, dependsOn, isDependencyFor, agg, todo>>

SkipKnown(d) ==
  /\ ~FoundLoop(d)
  /\ AlreadyKnown(d)
  /\ todo' = todo \ {d}
  /\ UNCHANGED <<asked, dependsOn, isDependencyFor, agg, failed>>

\* The calls that remain once d is added: one for each dependency of d.
RemainingCalls(d) == (todo \ {d}) \cup dependsOn[d]

AddNew(d) ==
  /\ ~FoundLoop(d)
  /\ ~AlreadyKnown(d)
  /\ dependsOn' = [dependsOn EXCEPT ![agg] = @ \cup {d}]
  /\ isDependencyFor' = [isDependencyFor EXCEPT ![d] = @ \cup {agg}]
  /\ todo' = RemainingCalls(d)
  /\ UNCHANGED <<asked, agg, failed>>

AddDependency ==
  /\ ~failed
  /\ agg # NoAgg
  /\ \E d \in todo : RefuseLoop(d) \/ SkipKnown(d) \/ AddNew(d)

Return ==
  /\ ~failed
  /\ agg # NoAgg
  /\ todo = {}
  /\ agg' = NoAgg
  /\ UNCHANGED <<asked, dependsOn, isDependencyFor, todo, failed>>

Next ==
  \/ \E a, d \in Agg : HopDependsOn(a, d)
  \/ AddDependency
  \/ Return

Spec == Init /\ [][Next]_vars

-----------------------------------------------------------------------------

TypeOK ==
  /\ asked \subseteq Agg \X Agg
  /\ dependsOn \in [Agg -> SUBSET Agg]
  /\ \A a \in Agg : a \notin dependsOn[a]
  /\ isDependencyFor \in [Agg -> SUBSET Agg]
  /\ agg \in Agg \cup {NoAgg}
  /\ todo \subseteq Agg
  /\ failed \in BOOLEAN

\* No set of aggregates in which each waits for another one of the set.
Acyclic(deps) ==
  \A S \in SUBSET Agg : S # {} => \E a \in S : deps[a] \cap S = {}

\* Between two hops the aggregate dependencies have no cycle, although only
\* direct dependencies of the new one are searched for the loop and although
\* dependencies that come later are not added to those that already depend on
\* the aggregate.  The launcher relies on it: in a cycle nobody is ever ready.
NoCycle == agg = NoAgg => Acyclic(dependsOn)

\* The error is raised only for a loop that is in the workflow: some
\* aggregates of which each has a hop that depends on another one's.
LoopIsReal ==
  failed =>
    \E S \in SUBSET Agg :
      /\ S # {}
      /\ \A a \in S : \E d \in S \ {a} : <<a, d>> \in asked

\* Every dependency between hops of two aggregates becomes one between the
\* aggregates, and the ripple of a deletion (isDependencyFor) reaches exactly
\* the aggregates that wait for the deleted one.
DependenciesKept ==
  /\ agg = NoAgg => \A p \in asked : p[1] = p[2] \/ p[2] \in dependsOn[p[1]]
  /\ \A a, d \in Agg : d \in dependsOn[a] <=> a \in isDependencyFor[d]

=============================================================================
