--------------------------- MODULE StitchSchedule ---------------------------
(***************************************************************************)
(* What the stitcher promises of a circuit, whatever the path service and  *)
(* the aggregates answer: a schedule.  An aggregate gets its tags only     *)
(* after all it depends on, those tags are final until its reservation is  *)
(* withdrawn, and it counts as complete only with the tags of the hops it  *)
(* imports from.  What is withdrawn takes the completeness of those with   *)
(* it that depend on it directly: they have to be looked at once more.     *)
(***************************************************************************)
CONSTANTS Hop, Tag, NoTag, NoHop,
          Owner,       \* the aggregate of each hop
          Workflows,   \* the plans there may be
          NoWorkflow   \* none yet

VARIABLES plan,      \* the workflow that is being reserved
          tag,       \* the tag that is reserved at each hop
          complete,  \* the aggregates whose reservations fit
          outcome    \* "working", "done" or "failed"

vars == <<plan, tag, complete, outcome>>

Aggregates == {Owner[h] : h \in plan.hops}
Ends(a) == {h \in plan.hops : Owner[h] = a}
Waiting(D) == {b \in Aggregates : plan.deps[b] \cap D # {}}

Reserved(a) == \A h \in Ends(a) : tag[h] # NoTag

\* The tags of a are those of the hops they come from.
Fits(a) == \A h \in Ends(a) : plan.from[h] # NoHop => tag[h] = tag[plan.from[h]]

Init ==
  /\ plan = NoWorkflow
  /\ tag = [h \in Hop |-> NoTag]
  /\ complete = {}
  /\ outcome = "working"

\* Another plan, with nothing reserved.
Replan ==
  /\ plan' \in Workflows
  /\ tag' = [h \in Hop |-> NoTag]
  /\ complete' = {}
  /\ UNCHANGED outcome

\* a tells tags of some of its hops.
Reserve(a) ==
  /\ ~Reserved(a)
  /\ plan.deps[a] \subseteq complete
  /\ \E S \in SUBSET Ends(a) : \E got \in [S -> Tag] :
       tag' = [h \in Hop |-> IF h \in S THEN got[h] ELSE tag[h]]
  /\ complete' = complete \/ (complete' = complete \cup {a} /\ Reserved(a)' /\ Fits(a)')
  /\ UNCHANGED <<plan, outcome>>

\* What a has reserved still fits.
Keep(a) ==
  /\ Reserved(a)
  /\ plan.deps[a] \subseteq complete
  /\ Fits(a)
  /\ complete' = complete \cup {a}
  /\ UNCHANGED <<plan, tag, outcome>>

\* The reservations of D are given up; those of E are gone.  It may be the end.
Withdraw(D, E) ==
  /\ complete' = complete \ (D \cup Waiting(D))
  /\ tag' = [h \in Hop |-> IF Owner[h] \in E THEN NoTag ELSE tag[h]]
  /\ outcome' \in {"working", "failed"}
  /\ UNCHANGED plan

Finish ==
  /\ Aggregates \subseteq complete
  /\ outcome' = "done"
  /\ UNCHANGED <<plan, tag, complete>>

Next ==
  /\ outcome = "working"
  /\ \/ Replan
     \/ \E a \in Aggregates : Reserve(a) \/ Keep(a)
     \/ \E D \in SUBSET Aggregates : \E E \in SUBSET D : Withdraw(D, E)
     \/ Finish

Spec == Init /\ [][Next]_vars

=============================================================================
