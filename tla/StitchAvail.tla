----------------------------- MODULE StitchAvail -----------------------------
(***************************************************************************)
(* The stitcher asking an aggregate which tags are free before it asks for *)
(* a reservation: for all aggregates of a new workflow (updateAvailRanges),*)
(* and for one of them again before its own reservation (allocate).        *)
(***************************************************************************)
EXTENDS StitchVlans

\* doAvail.  A check is worth while where a certain tag will be asked for.
MayCheck(a) ==
  /\ Kind[a] \in {"pg", "gram"}
  /\ \E h \in HopsOf(a) : sug[h] # AnyTag /\ (Imports(h) => Owner[From(h)] # a)

\* A check is good for some minutes.
MustCheck(a) == MayCheck(a) /\ a \notin checked

-----------------------------------------------------------------------------
(* updateWithAvail. *)

\* What aggregate a may turn out to lack at its hops.  The bound of the model:
\* one hop, and there one tag or all of them.
Lacks(a) ==
  {[h \in Hop |-> IF h = g THEN T ELSE {}] :
     g \in HopsOf(a),
     T \in {{}} \cup (IF "taken" \notin Faults THEN {}
                      ELSE {{t} : t \in UNION {range[h] : h \in HopsOf(a)}}
                             \cup {range[h] : h \in HopsOf(a)})}

\* Only what is free can still be asked for, and what is not is unavailable; a
\* hop without a free tag keeps its range, for the circuit has failed.
Free(gone) ==
  /\ range' = [h \in Hop |-> IF range[h] \subseteq gone[h] THEN range[h] ELSE range[h] \ gone[h]]
  /\ unavail' = [h \in Hop |-> unavail[h] \cup (gone[h] \cap range[h])]

Changes(gone) == \E h \in Hop : gone[h] \cap range[h] # {}

NoneFree(a, gone) == \E h \in HopsOf(a) : range[h] \subseteq gone[h]

-----------------------------------------------------------------------------
(* updateAvailRanges. *)

\* What is left for a hop when each hop that it hands its tag to is considered.
Narrowed(a, gone, g) ==
  range[g] \cap {t \in Tag : \A h \in HopsOf(a) :
                    g \in Upstream[h] \ {h} => \A x \in Upstream[h] \ Upstream[g] :
                                                  t \in range[x] \ gone[x]}

Unsuited(a, gone, g) ==
  \/ Narrowed(a, gone, g) = {}
  \/ sug[g] # AnyTag /\ sug[g] \notin Narrowed(a, gone, g)

\* The first hop on the way up from h that cannot go along.
FirstUnsuited(a, gone, h, g) ==
  /\ g \in Upstream[h] \ {h}
  /\ Unsuited(a, gone, g)
  /\ \A x \in Upstream[h] \ (Upstream[g] \cup {h}) : ~Unsuited(a, gone, x)

Fits(a, gone) ==
  \A h \in HopsOf(a) : \A g \in Upstream[h] \ {h} : ~Unsuited(a, gone, g)

\* The circuit cannot be made: back to the path service, with nothing to delete.
GiveUpWorkflow == Goto(IF scsCalls = MaxScsCalls THEN "failed" ELSE "scs") /\ todo' = {}

ListFails(a) ==
  /\ "list" \in Faults
  /\ todo' = todo \ {a}
  /\ UNCHANGED <<pc, range, unavail, checked>>

\* Nothing has changed at a, or what has changed suits the hops above.
StillFree(a, gone) ==
  /\ ~NoneFree(a, gone)
  /\ Changes(gone) => Fits(a, gone)
  /\ unavail' = [h \in Hop |-> unavail[h] \cup (gone[h] \cap range[h])]
  /\ range' = [h \in Hop |->
                 IF ~Changes(gone) THEN range[h]
                 ELSE IF \E k \in HopsOf(a) : h \in Upstream[k] \ {k} THEN Narrowed(a, gone, h) \ gone[h]
                 ELSE range[h] \ gone[h]]
  /\ todo' = todo \ {a}
  /\ UNCHANGED pc

NotFree(a, gone) ==
  /\ \/ /\ NoneFree(a, gone)
        /\ Free(gone)
     \/ /\ ~NoneFree(a, gone)
        /\ Changes(gone)
        /\ \E h \in HopsOf(a), g \in workflow.hops :
             /\ FirstUnsuited(a, gone, h, g)
             /\ unavail' = [x \in Hop |->
                              unavail[x] \cup (gone[x] \cap range[x])
                                \cup (IF x = g /\ Narrowed(a, gone, g) # {} THEN {sug[g]} ELSE {})]
        /\ UNCHANGED range
  /\ GiveUpWorkflow

CheckAvail(a) ==
  /\ a \in todo
  /\ MayCheck(a)
  /\ \/ ListFails(a)
     \/ \E gone \in Lacks(a) :
          /\ StillFree(a, gone) \/ NotFree(a, gone)
          /\ checked' = checked \cup {a}

-----------------------------------------------------------------------------
(* The check in allocate. *)

LookAgain(a) ==
  /\ MayCheck(a)
  /\ \/ "list" \in Faults /\ UNCHANGED <<range, unavail, checked, inProcess>> /\ Goto("request")
     \/ \E gone \in Lacks(a) :
          /\ Free(gone)
          /\ checked' = checked \cup {a}
          /\ IF NoneFree(a, gone) THEN Goto("circuit") /\ Leave(a)
                                  ELSE Goto("request") /\ UNCHANGED inProcess

=============================================================================
