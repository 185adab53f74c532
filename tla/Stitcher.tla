------------------------------ MODULE Stitcher ------------------------------
(***************************************************************************)
(* The stitcher reserving one circuit: it asks the path service for a      *)
(* workflow (stitchhandler.py), reserves at the aggregates that are ready  *)
(* (stitch/launcher.py), negotiates tags with each (stitch/objects.py) and *)
(* deletes everything and starts again, or gives up, when it fails.  One   *)
(* thread; what is nondeterministic is the servers and the deadline.       *)
(***************************************************************************)
EXTENDS StitchAvail

Init ==
  /\ pc = "scs"
  /\ workflow = NoWorkflow
  /\ scsCalls = 0
  /\ todo = {} /\ cur = NoAgg /\ bad = NoHop
  /\ completed = {} /\ inProcess = {} /\ manifest = {}
  /\ picks = [a \in Agg |-> 1]
  /\ sug = [h \in Hop |-> AnyTag]
  /\ range = [h \in Hop |-> {}]
  /\ man = [h \in Hop |-> NoTag]
  /\ rman = [h \in Hop |-> {}]
  /\ unavail = [h \in Hop |-> {}]
  /\ held = {} /\ clearing = {}
  /\ excluded = {} /\ checked = {}
  /\ tries = [a \in Agg |-> 0]
  /\ options \in Options

Stop(p) == Goto(p) /\ todo' = {} /\ cur' = NoAgg /\ bad' = NoHop

-----------------------------------------------------------------------------
(* mainStitchingLoop. *)

\* No answer of the path service, or an error.
ScsFails ==
  /\ pc = "scs"
  /\ "scs" \in Faults
  /\ Stop("failed")
  /\ scsCalls' = scsCalls + 1
  /\ UNCHANGED <<workflow, aggVars, hopVars, amVars, tryVars>>

\* Before the call, or in the pause after it.  There is nothing to delete then.
LoopTimesOut ==
  /\ pc \in {"scs", "planned"}
  /\ MayTimeOut
  /\ Stop("failed")
  /\ UNCHANGED <<workflow, scsCalls, aggVars, hopVars, amVars, tryVars>>

\* Fault: the calls are not counted.
CountScsCall_not == UNCHANGED scsCalls

CountScsCall == scsCalls' = scsCalls + 1

\* The request names the hops and the tags to avoid, and the answer does so.
Avoids(w, pick) ==
  /\ w.hops \cap excluded = {}
  /\ \A h \in w.hops : pick[h] \in ScsRange[h] \ (IF h \in workflow.hops THEN unavail[h] ELSE {})

\* saveAggregateState: what is known of the hops that are in the new workflow is
\* the tags; that one had to be avoided is forgotten.
Kept(w, h) == IF h \in workflow.hops \cap w.hops THEN unavail[h] ELSE {}

\* changeRequestsToAny, where a hop that does not import its tag produces it.
AskForAny(w, h) == w.from[h] = NoHop /\ SupportsAny(Owner[h])

\* A new workflow, with new aggregates and hops.  A hop that imports its tag is
\* suggested the same one as the hop it comes from.
CallScs ==
  /\ pc = "scs"
  /\ CountScsCall
  /\ \E w \in Workflows, pick \in [Hop -> Tag] :
       /\ Avoids(w, pick)
       /\ \A h \in w.hops : w.from[h] # NoHop => pick[h] = pick[w.from[h]]
       /\ \A h \in Hop \ w.hops : pick[h] = CHOOSE t \in Tag : TRUE
       /\ workflow' = w
       /\ unavail' = [h \in Hop |-> Kept(w, h)]
       /\ range' = [h \in Hop |-> IF h \in w.hops THEN ScsRange[h] \ Kept(w, h) ELSE {}]
       /\ sug' = [h \in Hop |-> IF h \in w.hops /\ ~AskForAny(w, h) THEN pick[h] ELSE AnyTag]
  /\ man' = [h \in Hop |-> NoTag]
  /\ rman' = [h \in Hop |-> {}]
  /\ completed' = {} /\ inProcess' = {} /\ manifest' = {}
  /\ picks' = [a \in Agg |-> 1]
  /\ tries' = [a \in Agg |-> 0]
  /\ excluded' = {} /\ checked' = {}
  /\ Stop("planned")
  /\ UNCHANGED <<amVars, options>>

\* There was a pause; now the availability.
Planned ==
  /\ pc = "planned"
  /\ todo' = {a \in Aggs : MustCheck(a)}
  /\ Goto("avail")
  /\ UNCHANGED <<cur, bad>>
  /\ UNCHANGED <<workflow, scsCalls, aggVars, hopVars, amVars, tryVars>>

UpdateAvailRanges ==
  /\ pc = "avail"
  /\ \/ /\ todo = {}
        /\ Goto("round")
        /\ UNCHANGED <<todo, range, unavail, checked>>
     \/ \E a \in todo : CheckAvail(a)
  /\ UNCHANGED <<workflow, scsCalls, cur, bad, aggVars, sug, man, rman, amVars,
                 excluded, tries, options>>

KeepsWhatThereIs == "noDeleteAtEnd" \in options

\* deleteAllReservations asks the aggregates that have a manifest, and goes on
\* where one fails.
DeleteAll(failing) ==
  LET D == manifest \cap Aggs IN
    /\ failing \subseteq D
    /\ failing # {} => MayFailToDelete
    /\ Delete(D, failing)
    /\ inProcess' = inProcess \ D

\* The circuit failed: delete and ask the path service again.
CircuitFailed ==
  /\ pc = "circuit"
  /\ ~KeepsWhatThereIs
  /\ \E failing \in SUBSET manifest :
       /\ DeleteAll(failing)
       /\ IF scsCalls = MaxScsCalls \/ failing # {} THEN Stop("failed") ELSE Stop("scs")
  /\ UNCHANGED <<workflow, scsCalls, picks, sug, range, unavail, tryVars>>

\* The stitching failed: delete and report.
StitchingFailed ==
  /\ pc = "failing"
  /\ ~KeepsWhatThereIs
  /\ \E failing \in SUBSET manifest : DeleteAll(failing)
  /\ Stop("failed")
  /\ UNCHANGED <<workflow, scsCalls, picks, sug, range, unavail, tryVars>>

\* Either failed, and what has been reserved shall be kept.
EndPartiallyReserved ==
  /\ pc \in {"circuit", "failing"}
  /\ KeepsWhatThereIs
  /\ Stop("failed")
  /\ UNCHANGED <<workflow, scsCalls, aggVars, hopVars, amVars, tryVars>>

-----------------------------------------------------------------------------
(* Launcher.launch. *)

UnchangedHere == UNCHANGED <<workflow, scsCalls, aggVars, hopVars, amVars, tryVars>>

AllComplete ==
  /\ pc = "round"
  /\ Aggs \subseteq completed
  /\ Stop("done")
  /\ UnchangedHere

NoneReady ==
  /\ pc = "round"
  /\ ~(Aggs \subseteq completed)
  /\ MayTimeOut \/ ~ \E a \in Aggs : Ready(a)
  /\ Stop("failing")
  /\ UnchangedHere

\* Only aggregates are left that the request does not name.
AllTransit ==
  /\ "noTransitAMs" \in options
  /\ \A a \in Aggs : Ready(a) => a \notin UserRequested

StopBeforeTransit ==
  /\ pc = "round"
  /\ ~(Aggs \subseteq completed)
  /\ \E a \in Aggs : Ready(a)
  /\ AllTransit
  /\ Stop("failing")
  /\ UnchangedHere

ListReady ==
  /\ pc = "round"
  /\ ~(Aggs \subseteq completed)
  /\ ~AllTransit
  /\ todo' = {a \in Aggs : Ready(a)}
  /\ todo' # {}
  /\ Goto("next")
  /\ UNCHANGED <<cur, bad>>
  /\ UnchangedHere

EndRound ==
  /\ pc = "next"
  /\ todo = {}
  /\ Stop("round")
  /\ UnchangedHere

TimedOut ==
  /\ pc = "next"
  /\ todo # {}
  /\ MayTimeOut
  /\ Stop("failing")
  /\ UnchangedHere

\* A new try at an aggregate: the servers get time, then a new round.
Pause ==
  /\ pc = "pause"
  /\ Stop("round") \/ (MayTimeOut /\ Stop("failing"))
  /\ UnchangedHere

-----------------------------------------------------------------------------
(* Aggregate.allocate, up to the request. *)

\* It would return at once if a were not ready any more.  That does not happen, as
\* the thread would be stuck here and Terminates says that it is not.
Begin(a) ==
  /\ pc = "next"
  /\ a \in todo
  /\ Ready(a)
  /\ cur' = a
  /\ todo' = todo \ {a}
  /\ bad' = NoHop
  /\ UNCHANGED <<workflow, scsCalls, inProcess, manifest, picks, man, rman, amVars,
                 tries, checked, options>>

CopyFails(a) ==
  /\ Begin(a)
  /\ \/ CopyFatal(a) /\ Goto("failing") /\ UNCHANGED <<unavail, excluded>>
     \/ CopyCircuit(a) /\ Goto("circuit")
  /\ UNCHANGED <<completed, sug, range>>

Copy(a) ==
  /\ Begin(a)
  /\ CopyVLANs(a)
  /\ IF MustDelete(a) THEN Goto("redo") /\ UNCHANGED completed
     ELSE IF AlreadyDone(a) THEN Goto("next") /\ completed' = completed \cup {a}
     ELSE Goto("look") /\ UNCHANGED completed
  /\ UNCHANGED <<unavail, excluded>>

\* Delete the old reservation and give the aggregate time.
Redo ==
  /\ pc = "redo"
  /\ \/ /\ Delete({cur}, {})
        /\ Goto("look") \/ (MayTimeOut /\ Goto("failing"))
     \/ /\ MayFailToDelete
        /\ Delete({cur}, {cur})
        /\ Goto("failing")
  /\ Leave(cur)
  /\ UNCHANGED <<workflow, scsCalls, todo, cur, bad, picks, sug, range, unavail, tryVars>>

\* The minutes that a check is good for may have passed.
Look ==
  /\ pc = "look"
  /\ \/ LookAgain(cur)
     \/ /\ ~MustCheck(cur)
        /\ Goto("request")
        /\ UNCHANGED <<range, unavail, checked, inProcess>>
  /\ UNCHANGED <<workflow, scsCalls, todo, cur, bad, completed, manifest, picks, sug, man, rman,
                 amVars, excluded, tries, options>>

Sane(h) == sug[h] \in range[h] \/ (sug[h] = AnyTag /\ SupportsAny(Owner[h]))

\* The tag that was chosen has gone since.
NotSane ==
  /\ pc = "request"
  /\ \E h \in HopsOf(cur) : ~Sane(h)
  /\ Goto("failing")
  /\ UNCHANGED <<todo, cur, bad>>
  /\ UnchangedHere

CountTry(a) == tries' = [tries EXCEPT ![a] = IF @ > MaxTries THEN @ ELSE @ + 1]

\* If it has deleted a reservation there, the stitcher asks a ProtoGENI aggregate
\* whether that is done, and goes on whatever it says.  It may be done by now, or
\* while the aggregate is busy and the request is sent again.
Request ==
  /\ pc = "request"
  /\ \A h \in HopsOf(cur) : Sane(h)
  /\ clearing' = clearing \ {cur} \/ UNCHANGED clearing
  /\ Goto("ask")
  /\ inProcess' = inProcess \cup {cur}
  /\ completed' = completed \ {cur}
  /\ CountTry(cur)
  /\ UNCHANGED <<workflow, scsCalls, todo, cur, bad, manifest, picks, hopVars, held,
                 excluded, checked, options>>

-----------------------------------------------------------------------------
(* doReservation and what the aggregate may answer. *)

UnchangedAnswer ==
  UNCHANGED <<workflow, scsCalls, todo, cur, completed, manifest, picks, hopVars,
              clearing, checked, options>>

\* What an aggregate may give for a hop: what was asked for, if all is well, and
\* so it looks to the stitcher when ExoGENI does not list the hop.
Gives(h) ==
  (IF sug[h] = AnyTag THEN range[h] ELSE {sug[h]})
    \cup (IF "otherTag" \in Faults THEN Tag ELSE {})

\* The tags it may give for its hops.
Grants(a) ==
  {got \in [HopsOf(a) -> Tag] :
     /\ \A h \in HopsOf(a) : got[h] \in Gives(h)
     /\ \A g, h \in HopsOf(a) : OneTag(g, h) => got[g] = got[h]}

\* The reservation was made: a manifest, or at a DCN aggregate nothing yet.
Reserved ==
  /\ pc = "ask"
  /\ cur \notin held \cup clearing
  /\ Grants(cur) # {}
  /\ held' = held \cup {cur}
  /\ Goto(IF cur \in Dcn THEN "poll" ELSE "manifest")
  /\ UNCHANGED <<bad, inProcess, excluded, tries>>
  /\ UnchangedAnswer

\* After any failure at an ExoGENI aggregate the stitcher deletes what may be
\* there, without a look at the answer.
DeleteIfEG(a) ==
  IF Kind[a] = "eg" THEN held' = held \ {a} \/ (MayFailToDelete /\ UNCHANGED held)
                    ELSE UNCHANGED held

\* An error with this verdict: one of the faults of the run, or the answer of an
\* aggregate that cannot do otherwise.  One that is still deleting may also be busy
\* each time.
Errs(verdict) ==
  /\ verdict \in VerdictsOf[Kind[cur]]
  /\ \/ verdict \in Faults
     \/ verdict = "vlan" /\ Grants(cur) = {}
     \/ cur \in held \cup clearing /\ verdict = ExistingError[Kind[cur]]
     \/ cur \in clearing /\ verdict = BusyError[Kind[cur]]

\* A tag is not available; the message names a hop or not.
VlanError ==
  /\ pc = "ask"
  /\ \/ Errs("vlan") /\ Goto("unavail")
     \/ Errs("doubt") /\ Goto("doubt")
  /\ bad' \in HopsOf(cur) \cup {NoHop}
  /\ DeleteIfEG(cur)
  /\ UNCHANGED <<inProcess, excluded, tries>>
  /\ UnchangedAnswer

MayUseOtherUrl == cur \in AltUrl /\ tries[cur] < MaxTries

\* An error that asking this aggregate again does not mend.
CannotHelp == Errs("fatal") \/ (Errs("other url") /\ ~MayUseOtherUrl)

Fatal ==
  /\ pc = "ask"
  /\ CannotHelp
  /\ IF cur \in UserRequested THEN Goto("failing") /\ UNCHANGED <<inProcess, excluded>>
     ELSE Goto("circuit") /\ Leave(cur) /\ Avoid(HopsOf(cur))
  /\ DeleteIfEG(cur)
  /\ UNCHANGED <<bad, tries>>
  /\ UnchangedAnswer

\* Another error, or one that was to be mended by asking once more.
FromThePathService ==
  /\ pc = "ask"
  /\ Errs("again") \/ (Errs("once more") /\ tries[cur] >= MaxSiteTries)
  /\ Goto("circuit")
  /\ Leave(cur)
  /\ Avoid(IF cur \notin UserRequested /\ TooManyTries(cur) THEN HopsOf(cur) ELSE {})
  /\ DeleteIfEG(cur)
  /\ UNCHANGED <<bad, tries>>
  /\ UnchangedAnswer

\* The aggregate's other URL, or the same again: a site is made on the first call.
AskAgain ==
  /\ pc = "ask"
  /\ \/ Errs("other url") /\ MayUseOtherUrl /\ tries' = [tries EXCEPT ![cur] = MaxTries]
     \/ Errs("once more") /\ tries[cur] < MaxSiteTries /\ UNCHANGED tries
  /\ Leave(cur)
  /\ Retry
  /\ DeleteIfEG(cur)
  /\ UNCHANGED <<bad, excluded>>
  /\ UnchangedAnswer

\* No answer, or one that cannot be read.
BrokenAnswer ==
  /\ pc = "ask"
  /\ \/ "malformed" \in Faults /\ DeleteIfEG(cur)
     \/ {"lost", "unparsable"} \cap Faults # {} /\ cur \notin clearing /\ held' = held \cup {cur}
  /\ Goto("failing")
  /\ UNCHANGED <<bad, inProcess, excluded, tries>>
  /\ UnchangedAnswer

-----------------------------------------------------------------------------
(* handleDcnAM. *)

PollFails ==
  /\ pc = "poll"
  /\ MayTimeOut \/ "poll" \in Faults
  /\ Goto("failing")
  /\ UNCHANGED <<bad, inProcess, held, excluded, tries>>
  /\ UnchangedAnswer

PollReady ==
  /\ pc = "poll"
  /\ Goto("manifest")
  /\ UNCHANGED <<bad, inProcess, held, excluded, tries>>
  /\ UnchangedAnswer

NotReadyDeleteFails ==
  /\ pc = "poll"
  /\ MayFailToDelete
  /\ Goto("failing")
  /\ UNCHANGED <<bad, inProcess, held, excluded, tries>>
  /\ UnchangedAnswer

\* Delete the reservation, without a look at the answer, then go on by the error
\* in its status.
NotReady ==
  /\ pc = "poll"
  /\ held' = held \ {cur} \/ (MayFailToDelete /\ UNCHANGED held)
  /\ \/ /\ "fatal" \in Faults
        /\ IF cur \in UserRequested THEN Goto("failing") /\ UNCHANGED excluded
                                    ELSE Goto("circuit") /\ Avoid(HopsOf(cur))
        /\ Leave(cur)
        /\ UNCHANGED <<bad, picks>>
     \/ /\ "vlan" \in Faults
        /\ bad' \in HopsOf(cur) \cup {NoHop}
        /\ Goto("unavail")
        /\ UNCHANGED <<inProcess, picks, excluded>>
     \/ /\ picks[cur] >= MaxDcnPicks
        /\ bad' = NoHop
        /\ Goto("unavail")
        /\ UNCHANGED <<inProcess, picks, excluded>>
     \/ /\ picks[cur] < MaxDcnPicks
        /\ OneMorePick(cur)
        /\ Leave(cur)
        /\ Retry
        /\ UNCHANGED <<bad, excluded>>
  /\ UNCHANGED <<workflow, scsCalls, todo, cur, completed, manifest, hopVars, clearing,
                 tries, checked, options>>

-----------------------------------------------------------------------------
(* The manifest. *)

Granted(h, got) == IF Owner[h] \in Narrow THEN {got[h]} ELSE range[h] \cup {got[h]}

Refused(S, got) ==
  [h \in Hop |-> IF h \in S /\ sug[h] \notin {AnyTag, got[h]} THEN unavail[h] \cup {sug[h]}
                                                           ELSE unavail[h]]

TakeTags(S, got) ==
  /\ man' = [h \in Hop |-> IF h \in S THEN got[h] ELSE man[h]]
  /\ rman' = [h \in Hop |-> IF h \in S THEN Granted(h, got) ELSE rman[h]]
  /\ unavail' = Refused(S, got)

Manifest ==
  /\ pc = "manifest"
  /\ manifest' = manifest \cup {cur}
  /\ \E got \in Grants(cur) :
       /\ TakeTags(HopsOf(cur), got)
       /\ IF \E h \in HopsOf(cur) : got[h] \in unavail[h]
            THEN Goto("failing") /\ UNCHANGED <<inProcess, completed>>
            ELSE /\ Goto("next")
                 /\ Leave(cur)
                 /\ completed' = IF \A h \in HopsOf(cur) : sug[h] \in {AnyTag, got[h]}
                                 THEN completed \cup {cur} ELSE completed
  /\ UNCHANGED <<workflow, scsCalls, todo, cur, bad, picks, sug, range, amVars, tryVars>>

\* An element is missing in the manifest's entry for hop h; of the other hops,
\* any have been read by then.
ReadUpTo(h) ==
  \E S \in SUBSET (HopsOf(cur) \ {h}) : \E got \in [S -> Tag] :
    /\ \A g \in S : got[g] \in Gives(g) \ unavail[g]
    /\ TakeTags(S, got)

NotRead(read) ==
  /\ pc = "manifest"
  /\ read \in ReadsOf[Kind[cur]] \cap Faults
  /\ manifest' = manifest \cup {cur}

NoTagGiven ==
  /\ NotRead("no tag")
  /\ \E h \in HopsOf(cur) : ReadUpTo(h) /\ bad' = h
  /\ Goto("unavail")
  /\ UNCHANGED <<workflow, scsCalls, todo, cur, completed, inProcess, picks, sug, range, amVars,
                 tryVars>>

BrokenManifest ==
  /\ NotRead("broken")
  /\ \E h \in HopsOf(cur) : ReadUpTo(h)
  /\ Goto("failing")
  /\ UNCHANGED <<workflow, scsCalls, todo, cur, bad, completed, inProcess, picks, sug, range,
                 amVars, tryVars>>

Unavailable ==
  /\ pc \in {"unavail", "doubt"}
  /\ HandleVlanUnavailable(cur, bad)
  /\ UNCHANGED <<workflow, scsCalls, todo, cur, bad, tries, checked, options>>

-----------------------------------------------------------------------------

Launch == AllComplete \/ NoneReady \/ StopBeforeTransit \/ ListReady \/ EndRound \/ TimedOut \/ Pause

Prepare == \/ \E a \in todo : CopyFails(a) \/ Copy(a)
           \/ Redo \/ Look \/ NotSane \/ Request

Reserve == \/ Reserved \/ VlanError \/ Fatal \/ FromThePathService \/ AskAgain
           \/ BrokenAnswer
           \/ PollFails \/ PollReady \/ NotReadyDeleteFails \/ NotReady
           \/ Manifest \/ NoTagGiven \/ BrokenManifest \/ Unavailable

Next == \/ ScsFails \/ LoopTimesOut \/ CallScs \/ Planned \/ UpdateAvailRanges
        \/ CircuitFailed \/ StitchingFailed \/ EndPartiallyReserved
        \/ Launch \/ Prepare \/ Reserve

Spec == Init /\ [][Next]_vars

\* The thread does not stop, and every call returns or fails.
FairSpec == Spec /\ WF_vars(Next)

-----------------------------------------------------------------------------

\* While the circuit is not complete some aggregate is ready: no retry leaves an
\* aggregate marked as in process, or a dependency that nobody works on.
NeverStalls ==
  pc = "round" => Aggs \subseteq completed \/ \E a \in Aggs : Ready(a)

\* An aggregate is asked only while all it depends on is reserved, also after
\* deletions and retries upstream.
DependenciesFirst ==
  pc \in {"redo", "look", "request", "ask", "poll", "manifest"} => DependenciesComplete(cur)

\* A circuit that is done has one tag on either side of each connection
\* (objects.py:1073: if what was reserved before does not fit, "mark this to be
\* deleted").
TagsAgree ==
  pc = "done" => \A h \in workflow.hops : Imports(h) => man[h] = man[From(h)]

\* Where an aggregate counts as complete the stitcher has its manifest and there
\* is a reservation, and a manifest means a reservation, but for ExoGENI, where
\* an error deletes and leaves the manifest of an earlier try: no flag outlives
\* the deletion it should fall with.
CompleteMeansHeld ==
  /\ completed \subseteq manifest \cap held
  /\ \A a \in manifest \ held : Kind[a] = "eg"

\* The reservations follow a schedule: an aggregate gets its tags after all it
\* depends on, keeps them until they are deleted, and counts as complete only with
\* the tags of the hops it imports from; a deletion takes that from the others too.
\* A circuit that is done after such a schedule has TagsAgree.
Schedule ==
  INSTANCE StitchSchedule
    WITH plan <- workflow, tag <- man, complete <- completed,
         outcome <- IF pc \in {"done", "failed"} THEN pc ELSE "working"

ImplementsSchedule == Schedule!Spec

\* When a tag that is not available, or was found so by a check, sends the stitcher
\* back to the path service, some hop has a new tag to exclude or shall be
\* excluded itself: the same answer cannot come again.  (After the last call it
\* would have, and fails.)  This is so where no hop translates; past one that
\* does, a manifest that once gave a tag at one side and none at the other leaves
\* an old suggestion there, and an error about it teaches nothing.
LearnsFromFailure ==
  [][(pc \in {"unavail", "doubt", "avail", "look"} /\ pc' \in {"circuit", "scs", "failed"})
       => (unavail' # unavail \/ excluded' # excluded)]_vars

\* The stitcher ends, with a circuit or an error: the retries at the
\* aggregates, upstream and at the path service do not go on for ever, and
\* there is no state it cannot leave.
Terminates == <>(pc \in {"done", "failed"})

=============================================================================
