---------------------------- MODULE StitchCircuit ----------------------------
(***************************************************************************)
(* What the stitcher knows while it reserves one circuit: the workflow of  *)
(* the path service, the aggregates and hops made from it                  *)
(* (stitch/objects.py), and the place the single thread has reached        *)
(* between two calls to a server.  The link has one path with at most two  *)
(* hops at an aggregate.                                                   *)
(***************************************************************************)
EXTENDS StitchAnswers, FiniteSets

CONSTANTS
  Agg, Hop, Tag,   \* aggregates, hops, VLAN tags
  AnyTag,          \* the request for any tag of the range
  NoTag, NoHop, NoAgg,
  Owner,           \* the aggregate of each hop
  Translates,      \* hops that may use another tag than their neighbours
  Kind,            \* the software of each aggregate
  Slow,            \* ProtoGENI aggregates that go on deleting after the call returns
  AltUrl,          \* ExoGENI aggregates that have a second URL
  Narrow,          \* aggregates whose manifest names no tag but the one used
  UserRequested,   \* aggregates that the request names
  ScsRange,        \* the tags that the path service offers at each hop
  Workflows,       \* its possible answers
  Faults,          \* what may go wrong in a run
  Options,         \* the sets of command line options a run may have
  MaxTries,        \* MAX_TRIES
  MaxSiteTries,    \* how often a DCN aggregate is asked that had no such site
  MaxPicks,        \* MAX_AGG_NEW_VLAN_TRIES
  MaxDcnPicks,     \* MAX_DCN_AGG_NEW_VLAN_TRIES
  MaxScsCalls      \* MAX_SCS_CALLS

FaultKinds == {"timeout", "scs", "vlan", "doubt", "fatal", "again", "other url", "once more",
               "malformed", "lost", "otherTag", "no tag", "broken", "unparsable", "poll",
               "delete", "list", "taken"}

OptionKinds == {"noDeleteAtEnd", "noTransitAMs"}

Dcn == {a \in Agg : Kind[a] = "dcn"}

NoWorkflow == [hops |-> {}, from |-> <<>>, needs |-> <<>>, deps |-> <<>>]

ASSUME CircuitAssumption ==
  /\ AnyTag \notin Tag /\ NoTag \notin Tag \cup {AnyTag}
  /\ NoHop \notin Hop /\ NoAgg \notin Agg
  /\ Owner \in [Hop -> Agg]
  /\ Translates \subseteq Hop
  /\ Kind \in [Agg -> Kinds]
  /\ Slow \subseteq {a \in Agg : Kind[a] = "pg"} /\ AltUrl \subseteq {a \in Agg : Kind[a] = "eg"}
  /\ ScsRange \in [Hop -> SUBSET Tag]
  /\ Faults \subseteq FaultKinds
  /\ Options \in SUBSET (SUBSET OptionKinds) \ {{}}
  /\ \A o \in Options : "noTransitAMs" \in o => "noDeleteAtEnd" \in o
  /\ {MaxPicks, MaxDcnPicks, MaxScsCalls, MaxTries, MaxSiteTries} \subseteq Nat \ {0}

\* A workflow: its hops, where a hop imports its tag from, the hops it depends
\* on, and the aggregate dependencies that StitchWorkflow derives from these.
ASSUME WorkflowAssumption ==
  \A w \in Workflows :
    LET aggs == {Owner[h] : h \in w.hops} IN
      /\ w.hops \in SUBSET Hop \ {{}}
      /\ w.from \in [w.hops -> w.hops \cup {NoHop}]
      /\ w.needs \in [w.hops -> SUBSET w.hops]
      /\ w.deps \in [aggs -> SUBSET aggs]
      /\ \A h \in w.hops : w.from[h] # NoHop => w.from[h] \in w.needs[h]
      /\ \A h \in w.hops, g \in w.hops :
           g \in w.needs[h] => Owner[g] \in w.deps[Owner[h]]
      /\ \A S \in SUBSET aggs : S # {} => \E a \in S : w.deps[a] \cap S = {}
      /\ \A a \in aggs : Cardinality({h \in w.hops : Owner[h] = a}) <= 2

VARIABLES
  pc,         \* where the thread is
  workflow,   \* the path service's last answer
  scsCalls,   \* how often it was asked
  todo,       \* the rest of the launcher's list of ready aggregates
  cur,        \* the aggregate being allocated
  bad,        \* the hop whose tag was unavailable, if the error names it
  completed, inProcess,   \* the aggregates with the flag set
  manifest,   \* those with a manifestDom
  picks,      \* localPickNewVlanTries
  sug, range, \* vlan_suggested_request and vlan_range_request of each hop
  man, rman,  \* vlan_suggested_manifest and vlan_range_manifest
  unavail,    \* vlans_unavailable
  excluded,   \* the hops with excludeFromSCS
  tries,      \* allocateTries, counted up to one more than MaxTries
  checked,    \* the aggregates that have a lastAvailCheck
  options,    \* the command line options of this run
  held,       \* the aggregates that hold a reservation of the slice
  clearing    \* the aggregates that may not have finished a deletion

aggVars == <<completed, inProcess, manifest, picks>>
hopVars == <<sug, range, man, rman, unavail>>
amVars == <<held, clearing>>
tryVars == <<excluded, tries, checked, options>>
vars == <<pc, workflow, scsCalls, todo, cur, bad, aggVars, hopVars, amVars, tryVars>>

-----------------------------------------------------------------------------
(* The circuit. *)

Aggs == {Owner[h] : h \in workflow.hops}
HopsOf(a) == {h \in workflow.hops : Owner[h] = a}

From(h) == workflow.from[h]
Imports(h) == From(h) # NoHop
Importers(h) == {x \in workflow.hops : From(x) = h}

\* The hops that h gets its tag through, h included, and the one that picks it.
Upstream ==
  LET up[h \in workflow.hops] == {h} \cup (IF Imports(h) THEN up[From(h)] ELSE {})
  IN  up
Source(h) == CHOOSE r \in Upstream[h] : ~Imports(r)

DependsOn(a) == workflow.deps[a]
Dependents(a) == {b \in Aggs : a \in DependsOn(b)}

DependenciesComplete(a) == DependsOn(a) \subseteq completed

\* Fault: one dependency is enough.
Ready_afterOne(a) ==
  /\ a \notin completed /\ a \notin inProcess
  /\ DependsOn(a) # {} => DependsOn(a) \cap completed # {}

Ready(a) == a \notin completed /\ a \notin inProcess /\ DependenciesComplete(a)

SupportsAny(a) == Kind[a] = "pg"

\* Hops of one aggregate on the path that cannot differ in their tag.
OneTag(g, h) == g \notin Translates \/ h \notin Translates

\* An aggregate that has failed too often is avoided.
TooManyTries(a) == tries[a] > MaxTries

Avoid(H) == excluded' = excluded \cup H

TagsOf(s) == IF s = AnyTag THEN Tag ELSE {s}

-----------------------------------------------------------------------------
(* Deleting. *)

\* Fault: the deleted aggregates themselves stay complete.
Uncomplete_dependents(D) ==
  completed' = completed \ UNION {Dependents(a) : a \in D}

\* The aggregates of D and those that depend on them are not complete any more.
Uncomplete(D) ==
  completed' = completed \ (D \cup UNION {Dependents(a) : a \in D})

\* The manifests of D and the tags in them.
Forget(D) ==
  /\ manifest' = manifest \ D
  /\ man' = [h \in Hop |-> IF Owner[h] \in D THEN NoTag ELSE man[h]]
  /\ rman' = [h \in Hop |-> IF Owner[h] \in D THEN {} ELSE rman[h]]

\* deleteReservation at the aggregates of D, which fails at those of failing.
\* The flags are reset in any case.
Delete(D, failing) ==
  /\ Uncomplete(D)
  /\ Forget(D \ failing)
  /\ held' = held \ (D \ failing)
  /\ clearing' = clearing \cup ((D \ failing) \cap Slow \cap held)

MayFailToDelete == "delete" \in Faults

\* Fault: a retry forgets the flag.
Leave_stays(a) == UNCHANGED inProcess

\* The thread stops working on a.
Leave(a) == inProcess' = inProcess \ {a}

MayTimeOut == "timeout" \in Faults

Goto(p) == pc' = p

\* The aggregate shall try again, after a pause and with a new list.
Retry == Goto("pause")

=============================================================================
