----------------------------- MODULE StitchVlans -----------------------------
(***************************************************************************)
(* How an aggregate of the circuit gets its VLAN tags: what it copies from *)
(* the aggregates before it (copyVLANsAndDetectRedo) and what happens when *)
(* a tag is not available (handleVlanUnavailable).                         *)
(***************************************************************************)
EXTENDS StitchCircuit

-----------------------------------------------------------------------------
(* copyVLANsAndDetectRedo. *)

\* A hop that picks its tag and has none yet.
Picks(h) == ~Imports(h) /\ man[h] = NoTag

PickRange(h) == range[h] \ unavail[h]

\* The suggestion of the path service, or any other tag if that is gone.
PickSug(h) ==
  IF sug[h] = AnyTag \/ sug[h] \in PickRange(h) THEN {sug[h]} ELSE PickRange(h)

\* What the hops that import the tag can use as well.
SharedRange(h) ==
  {t \in PickRange(h) : \A x \in Importers(h) : t \in range[x] /\ t \notin unavail[x]}

PickFatal(h) ==
  \/ PickRange(h) = {}
  \/ sug[h] = AnyTag /\ ~SupportsAny(Owner[h])

\* An importer cannot use the tag that was picked.
PickClash(h, s) == \E x \in Importers(h) : s \in unavail[x]

\* Fault: the tag that was asked for, not the one that was given.
Wants_requested(h) == sug[From(h)]

\* The tag and the range that an importing hop gets from its source.
Wants(h) == man[From(h)]

NewRange(h) == (rman[From(h)] \cap range[h]) \ unavail[h]

\* The source picked a tag that was already found unavailable here.
ImportClash(h) == Imports(h) /\ Wants(h) # NoTag /\ Wants(h) \in unavail[h]

ImportFatal(h) ==
  \/ Wants(h) = NoTag
  \/ Wants(h) \notin NewRange(h)
  \/ (man[h] # NoTag) # (Owner[h] \in manifest)

\* The reservation was made for a tag that is not wanted any more.
Outdated(h) ==
  /\ man[h] # NoTag
  /\ \/ sug[h] # Wants(h) /\ man[h] # Wants(h)
     \/ range[h] # NewRange(h) /\ man[h] \notin NewRange(h)

MustDelete(a) == \E h \in HopsOf(a) : Imports(h) /\ Outdated(h)

AlreadyDone(a) ==
  /\ a \in manifest
  /\ ~MustDelete(a)
  /\ \A h \in HopsOf(a) : man[h] # NoTag

\* How it ends.  The hops come in the order of a set: any one with an error may
\* be the first.

\* A StitchingError.  A clash is meant to go back to the path service "after
\* checking all hops" but at any hop other than the last one the check of the
\* suggestion against the range comes first.
CopyFatal(a) ==
  \/ \E h \in HopsOf(a) : Picks(h) /\ PickFatal(h)
  \/ \E h \in HopsOf(a) : Picks(h) /\ \E s \in PickSug(h) : PickClash(h, s)
  \/ \E h \in HopsOf(a) : Imports(h) /\ ~ImportClash(h) /\ ImportFatal(h)
  \/ \E h \in HopsOf(a) : ImportClash(h) /\ HopsOf(a) # {h}

\* A StitchingCircuitFailedError, with what it leaves in vlans_unavailable.
CopyCircuit(a) ==
  \/ /\ \E h \in HopsOf(a) : /\ Picks(h) /\ ~PickFatal(h) /\ SharedRange(h) = {}
                             /\ \E s \in PickSug(h) : ~PickClash(h, s)
     /\ UNCHANGED <<unavail, excluded>>
  \/ \E h \in HopsOf(a) :
       /\ ImportClash(h)
       /\ \A g \in HopsOf(a) \ {h} :
            /\ Picks(g) => ~PickFatal(g) /\ SharedRange(g) # {}
            /\ Imports(g) => ~ImportClash(g) /\ ~ImportFatal(g)
       /\ unavail' = [unavail EXCEPT ![From(h)] = @ \cup unavail[h]]
       /\ Avoid(IF TooManyTries(a) THEN {h} ELSE {})

CopyVLANs(a) ==
  /\ \A h \in HopsOf(a) : Picks(h) => ~PickFatal(h) /\ SharedRange(h) # {}
  /\ \A h \in HopsOf(a) : Imports(h) => ~ImportClash(h) /\ ~ImportFatal(h)
  /\ \E s \in [{h \in HopsOf(a) : Picks(h)} -> Tag \cup {AnyTag}] :
       /\ \A h \in DOMAIN s : s[h] \in PickSug(h) /\ ~PickClash(h, s[h])
       /\ sug' = [h \in Hop |-> IF h \in DOMAIN s THEN s[h]
                                ELSE IF h \in HopsOf(a) /\ Imports(h) THEN Wants(h)
                                ELSE sug[h]]
  /\ range' = [h \in Hop |-> IF h \notin HopsOf(a) THEN range[h]
                             ELSE IF Picks(h) THEN SharedRange(h)
                             ELSE IF Imports(h) THEN NewRange(h)
                             ELSE range[h]]

-----------------------------------------------------------------------------
(* handleVlanUnavailable at aggregate a, for hop f or an unknown one. *)

TooManyPicks(a) == IF a \in Dcn THEN picks[a] >= MaxDcnPicks ELSE picks[a] > MaxPicks

OneMorePick(a) == picks' = [picks EXCEPT ![a] = @ + 1]

\* An error that does not name a hop is about the only one there is.
FailedHop(a, h) ==
  IF h = NoHop /\ Cardinality(HopsOf(a)) = 1 THEN CHOOSE g \in HopsOf(a) : TRUE ELSE h

\* First case: the source of the tag was asked for "any".

SourceWasAny(f) == f # NoHop /\ Imports(f) /\ sug[Source(f)] = AnyTag

\* The hops that use the tag with f: those it came through, and those that the
\* source's aggregate or a hop that does not translate hands it to.
Spread(f) ==
  LET r == Source(f)
      Follows(D) == {h \in workflow.hops :
                       IF Imports(h) THEN From(h) \in D \ Translates
                                     ELSE Owner[h] = Owner[r]}
      Closed(D) == Follows(D) \subseteq D
      Least == CHOOSE D \in SUBSET workflow.hops :
                 /\ {f, r} \subseteq D /\ Closed(D)
                 /\ \A E \in SUBSET workflow.hops :
                      {f, r} \subseteq E /\ Closed(E) => D \subseteq E
  IN  Least \cup Upstream[f]

RetryUnavail(f, S) ==
  [h \in Hop |-> IF h \in S THEN unavail[h] \cup {sug[f]} ELSE unavail[h]]

RetryRange(f, h) ==
  (IF h = Source(f) THEN range[h] ELSE ScsRange[h]) \ (unavail[h] \cup {sug[f]})

\* The suggestions of the hops that drop the tag: the source's new one where
\* that is a tag the hop may use, else a random one if the old one is gone.
NextSug(f, h, s) ==
  IF h = f THEN RetryRange(f, f)
  ELSE IF h = Source(f) THEN {sug[h]}
  ELSE IF Imports(h) /\ s[From(h)] \in Tag \ (unavail[h] \cup {sug[f]}) THEN {s[From(h)]}
  ELSE IF sug[h] \in {AnyTag} \cup RetryRange(f, h) \/ RetryRange(f, h) = {} THEN {sug[h]}
  ELSE RetryRange(f, h)

\* No tag is left at a hop of a itself, or the tries are used up.
ChainExhausted(a, f, D) ==
  \/ RetryRange(f, f) = {}
  \/ \E h \in D \cap HopsOf(a) : RetryRange(f, h) = {} /\ sug[h] # AnyTag

\* From a to the source; the first error ends it.
DeleteUpstream(a, f) ==
  LET Done(S) == {Owner[h] : h \in S} \cap completed IN
    \/ Delete(Done(Upstream[f]), {}) /\ Leave(a) /\ Retry
    \/ /\ MayFailToDelete
       /\ \E b \in Done(Upstream[f]), g \in Upstream[f] :
            Owner[g] = b /\ Delete(Done(Upstream[f] \ Upstream[g]) \cup {b}, {b})
       /\ UNCHANGED inProcess
       /\ Goto("failing")

RetryChain(a, f) ==
  LET D == Spread(f) IN
  /\ OneMorePick(a)
  /\ \/ /\ ChainExhausted(a, f, D)
        /\ \E S \in SUBSET D : {f, Source(f)} \subseteq S /\ unavail' = RetryUnavail(f, S)
        /\ Goto("circuit")
        /\ Leave(a)
        /\ UNCHANGED <<completed, manifest, sug, range, man, rman, amVars>>
     \/ /\ ~ChainExhausted(a, f, D)
        /\ unavail' = RetryUnavail(f, D)
        /\ range' = [h \in Hop |-> IF h \in D THEN RetryRange(f, h) ELSE range[h]]
        /\ \E s \in [D -> Tag \cup {AnyTag}] :
             /\ \A h \in D : s[h] \in NextSug(f, h, [g \in Hop |-> IF g \in D THEN s[g] ELSE sug[g]])
             /\ sug' = [h \in Hop |-> IF h \in D THEN s[h] ELSE sug[h]]
        /\ DeleteUpstream(a, f)
  /\ UNCHANGED excluded

RetryChainTooOften(a, f) ==
  /\ unavail' = RetryUnavail(f, {f, Source(f)})
  /\ Avoid(IF TooManyTries(a) THEN {f} ELSE {})
  /\ Goto("circuit")
  /\ Leave(a)
  /\ UNCHANGED <<completed, manifest, picks, sug, range, man, rman, amVars>>

\* Second case: another tag from this aggregate, if that may help.

FailedHops(a, f) ==
  IF f = NoHop THEN HopsOf(a) ELSE {f} \cup {h \in HopsOf(a) : OneTag(h, f)}

\* Fault: only the hop that the error names.
MarkFailed_named(a, f) ==
  [h \in Hop |-> IF h = f THEN unavail[h] \cup {sug[h]} ELSE unavail[h]]

MarkFailed(a, f) ==
  [h \in Hop |->
     IF h \notin FailedHops(a, f) THEN unavail[h]
     ELSE unavail[h] \cup (IF sug[h] = AnyTag THEN range[h] ELSE {sug[h]})]

\* The tag comes from another aggregate, which would have to pick another one.
NeedsSource(f, h) ==
  /\ Imports(h)
  /\ \/ f = NoHop \/ h = f
     \/ {f, h} \cap Translates = {} /\ From(h) # f

NothingLeft(a, f, h) ==
  h \in FailedHops(a, f) /\ (Cardinality(range[h]) <= 1 \/ sug[h] = AnyTag)

\* Aggregates that copy the tag have others that copy it from them.
TooComplex(a) ==
  \E b \in Dependents(a) :
    /\ Dependents(b) # {}
    /\ \E h \in HopsOf(b) \ Translates :
         Imports(h) /\ \E g \in workflow.needs[h] : Owner[g] = a

\* The first hop of the loop that rules out a new try: its source learns of the
\* tag, and of all the others if it was asked for any.
MarkSource(f, h, un) ==
  IF ~NeedsSource(f, h) THEN un
  ELSE [un EXCEPT ![From(h)] =
          @ \cup {sug[h]} \cup (IF sug[From(h)] = AnyTag THEN un[h] ELSE {})]

CannotRedo(a, f) ==
  LET un == MarkFailed(a, f)
      Obstacles == {h \in HopsOf(a) : NeedsSource(f, h) \/ NothingLeft(a, f, h)}
  IN
  /\ \/ TooManyPicks(a) /\ unavail' = un /\ UNCHANGED picks
     \/ /\ ~TooManyPicks(a)
        /\ OneMorePick(a)
        /\ \/ \E h \in Obstacles : unavail' = MarkSource(f, h, un)
           \/ Obstacles = {} /\ (TooComplex(a) \/ pc = "doubt") /\ unavail' = un
  /\ IF f # NoHop /\ Imports(f)
       THEN Goto("circuit") /\ Leave(a) /\ Avoid(IF TooManyTries(a) THEN {f} ELSE {})
     ELSE IF a \notin UserRequested
       THEN Goto("circuit") /\ Leave(a) /\ Avoid(IF TooManyTries(a) THEN HopsOf(a) ELSE {})
     ELSE Goto("failing") /\ UNCHANGED <<inProcess, excluded>>
  /\ UNCHANGED <<sug, range>>

\* The tags of hops that go together are excluded at each other.
ExcludeTogether(a, f) ==
  [h \in Hop |->
     IF h \notin HopsOf(a) THEN unavail[h]
     ELSE MarkFailed(a, f)[h] \cup
            UNION {TagsOf(sug[g]) : g \in {k \in HopsOf(a) \ {h} :
                      OneTag(k, h) /\ {k, h} \cap FailedHops(a, f) # {}}}]

Remaining(a, f, h) == range[h] \ ExcludeTogether(a, f)[h]

NextTags(a, f, h) ==
  IF ~Imports(h) /\ SupportsAny(a) THEN {AnyTag}
  ELSE {t \in Remaining(a, f, h) :
          \A g \in FailedHops(a, f) : {g, h} \cap Translates = {} => t \in Remaining(a, f, g)}

\* A tag for the first hop, and the same tag for another one that does not
\* translate.
NewTags(a, f) ==
  {s \in [FailedHops(a, f) -> Tag \cup {AnyTag}] :
     \E first \in FailedHops(a, f) :
       /\ s[first] \in NextTags(a, f, first)
       /\ \A h \in FailedHops(a, f) \ {first} :
            IF s[first] # AnyTag /\ h \notin Translates THEN s[h] = s[first]
                                                  ELSE s[h] \in NextTags(a, f, h)}

NoNewTag(a, f) ==
  \E h \in FailedHops(a, f) : Remaining(a, f, h) = {} \/ NextTags(a, f, h) = {}

RedoHere(a, f) ==
  /\ pc # "doubt"
  /\ ~TooManyPicks(a)
  /\ \A h \in HopsOf(a) : ~NeedsSource(f, h) /\ ~NothingLeft(a, f, h)
  /\ ~TooComplex(a)
  /\ OneMorePick(a)
  /\ unavail' = ExcludeTogether(a, f)
  /\ Leave(a)
  /\ \/ NoNewTag(a, f) /\ Goto("circuit") /\ UNCHANGED <<sug, range>>
     \/ /\ \A h \in FailedHops(a, f) : Remaining(a, f, h) # {}
        /\ \E s \in NewTags(a, f) :
             sug' = [h \in Hop |-> IF h \in DOMAIN s THEN s[h] ELSE sug[h]]
        /\ range' = [h \in Hop |->
                       IF \E g \in FailedHops(a, f) : h \in HopsOf(a) /\ (g = h \/ OneTag(g, h))
                       THEN Remaining(a, f, h) ELSE range[h]]
        /\ Retry
  /\ UNCHANGED excluded

RetryHere(a, f) ==
  /\ CannotRedo(a, f) \/ RedoHere(a, f)
  /\ UNCHANGED <<completed, manifest, man, rman, amVars>>

HandleVlanUnavailable(a, h) ==
  LET f == FailedHop(a, h) IN
    \/ SourceWasAny(f) /\ ~TooManyPicks(a) /\ RetryChain(a, f)
    \/ SourceWasAny(f) /\ TooManyPicks(a) /\ RetryChainTooOften(a, f)
    \/ ~SourceWasAny(f) /\ RetryHere(a, f)

=============================================================================
