-------------------------- MODULE Stitcher_proofs --------------------------
(***************************************************************************)
(* What holds of the stitcher for every circuit, every answer of the path  *)
(* service and of the aggregates, and every choice of faults and limits.   *)
(***************************************************************************)
EXTENDS Stitcher, TLAPS

(***************************************************************************)
(* The places of the thread: outside of any aggregate, at one before and   *)
(* after the request, and where the flags do not matter any more.          *)
(***************************************************************************)
Between == {"planned", "avail", "round", "next", "pause"}
Before  == {"redo", "look", "request"}
Asking  == {"ask", "poll", "manifest"}
After   == {"unavail", "doubt"}
Giving  == {"scs", "circuit", "failing", "failed", "done"}

\* The stitcher has a manifest of a and has not read a tag for all its hops.
Unread(a) == \E h \in HopsOf(a) : man[h] = NoTag

\* A workflow is known wherever one is used, and the aggregates come from it.
Placed ==
  /\ pc \in Between \cup Before \cup Asking \cup After \cup Giving
  /\ workflow \in Workflows \cup {NoWorkflow}
  /\ workflow \in Workflows \/ pc \in {"scs", "failed"}
  /\ todo \subseteq Aggs
  /\ pc \in Before \cup Asking \cup After => cur \in Aggs

\* Only the aggregate that has been asked is in process.
OneInProcess ==
  /\ pc \in Between \cup Before => inProcess = {}
  /\ pc \in Asking \cup After => inProcess \subseteq {cur}

\* CompleteMeansHeld, and why an ExoGENI manifest without a reservation does not
\* make its aggregate complete again: a tag in it has not been read.
HeldOrUnread ==
  /\ completed \subseteq manifest \cap held
  /\ \A a \in manifest \ held : Kind[a] = "eg" /\ Unread(a)

\* An aggregate is asked only if there is something left to learn from it, and is
\* not complete until it has told.
AskedForMore ==
  /\ pc \in {"look", "request", "ask"} => (cur \in manifest => Unread(cur))
  /\ pc \in {"ask", "poll"} => cur \notin completed
  /\ pc = "poll" => cur \in Dcn \ manifest
  /\ pc \in {"poll", "manifest"} => cur \in held

IInv ==
  /\ Placed
  /\ OneInProcess
  /\ DependenciesFirst
  /\ HeldOrUnread
  /\ AskedForMore

-----------------------------------------------------------------------------
(* The circuit. *)

\* In a workflow no aggregate depends on itself, nor two on each other, and of
\* any set of aggregates one depends on no other of the set.
LEMMA Workflow ==
  ASSUME workflow \in Workflows
  PROVE  /\ workflow.hops \subseteq Hop
         /\ \A a \in Aggs : DependsOn(a) \subseteq Aggs /\ a \notin DependsOn(a)
         /\ \A a, b \in Aggs : b \in DependsOn(a) => a \notin DependsOn(b)
         /\ \A S \in SUBSET Aggs : S # {} => \E a \in S : DependsOn(a) \cap S = {}
<1>1. /\ workflow.hops \in SUBSET Hop \ {{}}
      /\ workflow.deps \in [Aggs -> SUBSET Aggs]
      /\ \A S \in SUBSET Aggs : S # {} => \E a \in S : workflow.deps[a] \cap S = {}
  BY WorkflowAssumption DEF Aggs
<1>2. \A S \in SUBSET Aggs : S # {} => \E a \in S : DependsOn(a) \cap S = {}
  BY <1>1 DEF DependsOn
<1>3. \A a \in Aggs : DependsOn(a) \subseteq Aggs
  BY <1>1 DEF DependsOn
<1>4. \A a \in Aggs : a \notin DependsOn(a)
  <2>1. SUFFICES ASSUME NEW a \in Aggs PROVE a \notin DependsOn(a)
    OBVIOUS
  <2> QED BY <1>2, {a} \in SUBSET Aggs
<1>5. \A a, b \in Aggs : b \in DependsOn(a) => a \notin DependsOn(b)
  <2>1. SUFFICES ASSUME NEW a \in Aggs, NEW b \in Aggs
                 PROVE  b \in DependsOn(a) => a \notin DependsOn(b)
    OBVIOUS
  <2>2. PICK c \in {a, b} : DependsOn(c) \cap {a, b} = {}
    BY <1>2, {a, b} \in SUBSET Aggs
  <2> QED BY <2>2
<1> QED BY <1>1, <1>2, <1>3, <1>4, <1>5

\* What a deletion does to the flags: nothing becomes complete, a reservation is
\* forgotten together with its manifest, and of what a depends on nothing is lost
\* when a itself is deleted.
LEMMA Deletion ==
  ASSUME HeldOrUnread, workflow' = workflow, workflow.hops \subseteq Hop,
         NEW D, NEW failing, Delete(D, failing)
  PROVE  /\ HeldOrUnread'
         /\ completed' \subseteq completed \ D
         /\ manifest' = manifest \ (D \ failing)
         /\ held' = held \ (D \ failing)
<1>1. /\ completed' = completed \ (D \cup UNION {Dependents(a) : a \in D})
      /\ manifest' = manifest \ (D \ failing)
      /\ man' = [h \in Hop |-> IF Owner[h] \in D \ failing THEN NoTag ELSE man[h]]
      /\ held' = held \ (D \ failing)
  BY DEF Delete, Uncomplete, Forget
<1>2. completed' \subseteq completed \ D
  BY <1>1
<1>3. \A a \in manifest' \ held' : Kind[a] = "eg" /\ Unread(a)'
  <2>1. SUFFICES ASSUME NEW a \in manifest' \ held'
                 PROVE  Kind[a] = "eg" /\ Unread(a)'
    OBVIOUS
  <2>2. Kind[a] = "eg" /\ Unread(a)
    BY <1>1, <2>1 DEF HeldOrUnread
  <2>3. PICK h \in HopsOf(a) : man[h] = NoTag
    BY <2>2 DEF Unread
  <2>4. h \in HopsOf(a)' /\ man'[h] = NoTag
    BY <1>1, <2>3 DEF HopsOf
  <2> QED BY <2>2, <2>4 DEF Unread
<1>4. completed' \subseteq manifest' \cap held'
  BY <1>1, <1>2 DEF HeldOrUnread
<1> QED BY <1>1, <1>2, <1>3, <1>4 DEF HeldOrUnread

\* What the aggregate that is deleted depends on stays complete.
LEMMA DeletionUpstream ==
  ASSUME workflow \in Workflows, workflow' = workflow, NEW a \in Aggs, NEW failing,
         Delete({a}, failing), DependenciesComplete(a)
  PROVE  DependenciesComplete(a)'
<1>1. completed' = completed \ ({a} \cup Dependents(a))
  BY DEF Delete, Uncomplete
<1>2. \A b \in DependsOn(a) : b # a /\ b \notin Dependents(a)
  BY Workflow DEF Dependents
<1> QED BY <1>1, <1>2 DEF DependenciesComplete, DependsOn

-----------------------------------------------------------------------------
(* Leaving an aggregate. *)

Keeps == UNCHANGED <<completed, manifest, man, held>>
Deletes == \E D, failing : Delete(D, failing)

\* The stitcher is done with a for now: it will come back to it, or the circuit or
\* the stitching has failed.  Only a that it comes back to must not stay in
\* process.
GivesUp(a) ==
  /\ pc' \in {"pause", "circuit", "failing"}
  /\ pc' = "pause" => inProcess' = inProcess \ {a}
  /\ Keeps \/ Deletes

\* However a tag that is not available is dealt with, the stitcher leaves.
LEMMA UnavailableGivesUp ==
  ASSUME NEW a, NEW h, HandleVlanUnavailable(a, h)
  PROVE  GivesUp(a)
<1> DEFINE f == FailedHop(a, h)
<1>1. \/ RetryChain(a, f)
      \/ RetryChainTooOften(a, f)
      \/ RetryHere(a, f)
  BY DEF HandleVlanUnavailable
<1> HIDE DEF f
<1>2. CASE RetryChain(a, f)
  <2>1. \/ Goto("circuit") /\ UNCHANGED <<completed, manifest, man, held>>
        \/ DeleteUpstream(a, f)
    BY <1>2 DEF RetryChain, amVars
  <2>2. CASE DeleteUpstream(a, f)
    BY <2>2 DEF DeleteUpstream, Retry, Goto, Leave, GivesUp, Deletes
  <2> QED BY <2>1, <2>2 DEF Goto, GivesUp, Keeps
<1>3. CASE RetryChainTooOften(a, f)
  BY <1>3 DEF RetryChainTooOften, Goto, GivesUp, Keeps, amVars
<1>4. CASE RetryHere(a, f)
  <2>1. Keeps
    BY <1>4 DEF RetryHere, Keeps, amVars
  <2>2. CASE CannotRedo(a, f)
    <3>1. Goto("circuit") \/ Goto("failing")
      BY <2>2 DEF CannotRedo
    <3> QED BY <2>1, <3>1 DEF Goto, GivesUp
  <2>3. CASE RedoHere(a, f)
    <3>1. Leave(a) /\ (Goto("circuit") \/ Retry)
      BY <2>3 DEF RedoHere
    <3> QED BY <2>1, <3>1 DEF Goto, Retry, Leave, GivesUp
  <2> QED BY <1>4, <2>2, <2>3 DEF RetryHere
<1> QED BY <1>1, <1>2, <1>3, <1>4

\* Leaving an aggregate keeps the invariant.
LEMMA GivingUpIsSafe ==
  ASSUME IInv, pc \in Asking \cup After, GivesUp(cur), UNCHANGED <<workflow, todo>>
  PROVE  IInv'
<1> USE DEF IInv
<1>1. workflow \in Workflows /\ workflow.hops \subseteq Hop
  BY Workflow DEF Placed, Asking, After
<1>2. HeldOrUnread'
  <2>1. CASE Keeps
    BY <2>1 DEF Keeps, HeldOrUnread, Unread, HopsOf
  <2>2. CASE Deletes
    BY <1>1, <2>2, Deletion DEF Deletes
  <2> QED BY <2>1, <2>2 DEF GivesUp
<1>3. Placed'
  BY <1>1 DEF Placed, Aggs, GivesUp, Between, Before, Asking, After, Giving
<1>4. OneInProcess'
  BY DEF OneInProcess, GivesUp, Between, Before, Asking, After
<1>5. DependenciesFirst' /\ AskedForMore'
  BY DEF DependenciesFirst, AskedForMore, GivesUp
<1> QED BY <1>2, <1>3, <1>4, <1>5

-----------------------------------------------------------------------------
(* The steps outside of any aggregate. *)

\* A step that leaves flags, manifests and reservations alone, between the
\* aggregates or to the end, keeps the invariant.
LEMMA Aside ==
  ASSUME IInv, Keeps, workflow' = workflow, todo' \subseteq todo,
         pc' \in Between \cup Giving, pc' \in Between => pc \in Between /\ inProcess' = inProcess,
         workflow \in Workflows \/ pc' \in {"scs", "failed"}
  PROVE  IInv'
<1>1. HeldOrUnread'
  BY DEF IInv, Keeps, HeldOrUnread, Unread, HopsOf
<1>2. Placed'
  BY DEF IInv, Placed, Aggs, Between, Before, Asking, After, Giving
<1>3. OneInProcess' /\ DependenciesFirst' /\ AskedForMore'
  BY DEF IInv, OneInProcess, DependenciesFirst, AskedForMore, Between, Before, Asking, After,
         Giving
<1> QED BY <1>1, <1>2, <1>3 DEF IInv

\* A new workflow starts with nothing complete and nothing in process.
LEMMA ScsKeeps == IInv /\ CallScs => IInv'
<1> SUFFICES ASSUME IInv, CallScs PROVE IInv'
  OBVIOUS
<1>1. /\ pc' = "planned" /\ todo' = {} /\ workflow' \in Workflows
      /\ completed' = {} /\ inProcess' = {} /\ manifest' = {}
  BY DEF CallScs, Stop, Goto
<1> QED BY <1>1 DEF IInv, Placed, OneInProcess, DependenciesFirst, HeldOrUnread, AskedForMore,
                   Between, Before, Asking, After

\* The deletion at the end of a circuit or of the stitching.
LEMMA CleanUpKeeps ==
  ASSUME IInv, pc \in {"circuit", "failing"}, NEW failing, DeleteAll(failing),
         pc' \in {"scs", "failed"}, todo' = {}, workflow' = workflow
  PROVE  IInv'
<1>1. workflow \in Workflows /\ workflow.hops \subseteq Hop
  BY Workflow DEF IInv, Placed
<1>2. HeldOrUnread'
  BY <1>1, Deletion DEF IInv, DeleteAll
<1>3. Placed' /\ OneInProcess' /\ DependenciesFirst' /\ AskedForMore'
  BY <1>1 DEF Placed, OneInProcess, DependenciesFirst, AskedForMore, Between, Before, Asking,
              After, Giving
<1> QED BY <1>2, <1>3 DEF IInv

\* The main loop.
LEMMA LoopKeeps ==
  IInv /\ (\/ ScsFails \/ LoopTimesOut \/ CallScs \/ Planned \/ UpdateAvailRanges
           \/ CircuitFailed \/ StitchingFailed \/ EndPartiallyReserved) => IInv'
<1> SUFFICES ASSUME IInv,
                    \/ ScsFails \/ LoopTimesOut \/ CallScs \/ Planned \/ UpdateAvailRanges
                    \/ CircuitFailed \/ StitchingFailed \/ EndPartiallyReserved
             PROVE  IInv'
  OBVIOUS
<1>1. CASE ScsFails \/ LoopTimesOut \/ EndPartiallyReserved
  <2>1. /\ pc' = "failed" /\ todo' = {} /\ workflow' = workflow
        /\ Keeps
    BY <1>1 DEF ScsFails, LoopTimesOut, EndPartiallyReserved, Stop, Goto, Keeps, aggVars, hopVars,
                amVars
  <2> QED BY <2>1, Aside DEF Between, Giving
<1>2. CASE CallScs
  BY <1>2, ScsKeeps
<1>3. CASE Planned
  <2>1. /\ pc = "planned" /\ pc' = "avail" /\ workflow' = workflow /\ todo' \subseteq Aggs
        /\ UNCHANGED <<completed, inProcess, manifest, man, held>>
    BY <1>3 DEF Planned, Goto, aggVars, hopVars, amVars
  <2>2. HeldOrUnread'
    BY <2>1 DEF IInv, HeldOrUnread, Unread, HopsOf
  <2>3. Placed' /\ OneInProcess' /\ DependenciesFirst' /\ AskedForMore'
    BY <2>1 DEF IInv, Placed, Aggs, OneInProcess, DependenciesFirst, AskedForMore, Between,
                Before, Asking, After, Giving
  <2> QED BY <2>2, <2>3 DEF IInv
<1>4. CASE UpdateAvailRanges
  <2>1. /\ pc = "avail" /\ workflow' = workflow
        /\ UNCHANGED <<completed, inProcess, manifest, man, held>>
        /\ \/ Goto("round") /\ UNCHANGED todo
           \/ \E a \in todo : CheckAvail(a)
    BY <1>4 DEF UpdateAvailRanges, aggVars, amVars
  <2>2. ASSUME NEW a \in todo, CheckAvail(a)
        PROVE  pc' \in {pc, "scs", "failed"} /\ todo' \subseteq todo
    <3>1. \/ ListFails(a)
          \/ \E gone \in Lacks(a) : StillFree(a, gone) \/ NotFree(a, gone)
      BY <2>2 DEF CheckAvail
    <3>2. CASE ListFails(a)
      BY <3>2 DEF ListFails
    <3>3. ASSUME NEW gone \in Lacks(a), StillFree(a, gone)
          PROVE  pc' = pc /\ todo' = todo \ {a}
      BY <3>3 DEF StillFree
    <3>4. ASSUME NEW gone \in Lacks(a), NotFree(a, gone)
          PROVE  GiveUpWorkflow
      BY <3>4 DEF NotFree
    <3> QED BY <3>1, <3>2, <3>3, <3>4 DEF GiveUpWorkflow, Goto
  <2>3. pc' \in {"avail", "round", "scs", "failed"} /\ todo' \subseteq todo
    BY <2>1, <2>2 DEF Goto
  <2>4. workflow \in Workflows
    BY <2>1 DEF IInv, Placed
  <2> QED BY <2>1, <2>3, <2>4, Aside DEF Keeps, Between, Giving
<1>5. CASE CircuitFailed \/ StitchingFailed
  <2>1. PICK failing : /\ pc \in {"circuit", "failing"} /\ DeleteAll(failing)
                       /\ pc' \in {"scs", "failed"} /\ todo' = {} /\ workflow' = workflow
    BY <1>5 DEF CircuitFailed, StitchingFailed, Stop, Goto
  <2> QED BY <2>1, CleanUpKeeps
<1> QED BY <1>1, <1>2, <1>3, <1>4, <1>5

\* The launcher.
LEMMA LaunchKeeps == IInv /\ Launch => IInv'
<1> SUFFICES ASSUME IInv, Launch PROVE IInv'
  OBVIOUS
<1>1. pc \in {"round", "next", "pause"} /\ workflow \in Workflows
  BY DEF Launch, AllComplete, NoneReady, StopBeforeTransit, ListReady, EndRound, TimedOut, Pause,
         IInv, Placed
<1>2. CASE ListReady
  <2>1. /\ pc' = "next" /\ workflow' = workflow /\ todo' \subseteq Aggs
        /\ UNCHANGED <<completed, inProcess, manifest, man, held>>
    BY <1>2 DEF ListReady, Goto, UnchangedHere, aggVars, hopVars, amVars
  <2>2. HeldOrUnread'
    BY <2>1 DEF IInv, HeldOrUnread, Unread, HopsOf
  <2>3. Placed' /\ OneInProcess' /\ DependenciesFirst' /\ AskedForMore'
    BY <1>1, <2>1 DEF IInv, Placed, Aggs, OneInProcess, DependenciesFirst, AskedForMore, Between,
                      Before, Asking, After, Giving
  <2> QED BY <2>2, <2>3 DEF IInv
<1>3. CASE ~ListReady
  <2>1. /\ pc' \in {"done", "failing", "round"} /\ todo' = {} /\ workflow' = workflow
        /\ inProcess' = inProcess /\ Keeps
    BY <1>3 DEF Launch, AllComplete, NoneReady, StopBeforeTransit, EndRound, TimedOut, Pause,
                Stop, Goto, UnchangedHere, Keeps, aggVars, hopVars, amVars
  <2> QED BY <1>1, <2>1, Aside DEF Between, Giving
<1> QED BY <1>2, <1>3

-----------------------------------------------------------------------------
(* Preparing the request. *)

\* Taking up an aggregate: it is one of the circuit, what it depends on is
\* reserved, and it is complete at once only if it has been read entirely.
LEMMA CopyKeeps ==
  ASSUME IInv, NEW a \in todo, CopyFails(a) \/ Copy(a)
  PROVE  IInv'
<1>1. Begin(a)
  BY DEF CopyFails, Copy
<1>2. /\ pc = "next" /\ Ready(a) /\ cur' = a /\ todo' \subseteq todo
      /\ UNCHANGED <<workflow, inProcess, manifest, man, held>>
  BY <1>1 DEF Begin, amVars
<1>3. a \in Aggs /\ workflow \in Workflows /\ inProcess = {} /\ HeldOrUnread
  BY <1>2 DEF IInv, Placed, OneInProcess, Between
<1>4. DependenciesComplete(a) /\ a \notin completed
  BY <1>2 DEF Ready
<1>5. CASE completed' = completed /\ pc' \in {"failing", "circuit", "redo"}
  <2>1. HeldOrUnread'
    BY <1>2, <1>3, <1>5 DEF HeldOrUnread, Unread, HopsOf
  <2>2. DependenciesFirst'
    BY <1>2, <1>4, <1>5 DEF DependenciesFirst, DependenciesComplete, DependsOn
  <2>3. Placed' /\ OneInProcess' /\ AskedForMore'
    BY <1>2, <1>3, <1>5 DEF IInv, Placed, Aggs, OneInProcess, AskedForMore, Between, Before,
                            Asking, After, Giving
  <2> QED BY <2>1, <2>2, <2>3 DEF IInv
<1>6. CASE pc' = "next" /\ AlreadyDone(a) /\ completed' = completed \cup {a}
  <2>1. a \in manifest /\ ~Unread(a)
    BY <1>6 DEF AlreadyDone, Unread
  <2>2. HeldOrUnread'
    BY <1>2, <1>3, <1>6, <2>1 DEF HeldOrUnread, Unread, HopsOf
  <2>3. Placed' /\ OneInProcess' /\ DependenciesFirst' /\ AskedForMore'
    BY <1>2, <1>3, <1>6 DEF IInv, Placed, Aggs, OneInProcess, DependenciesFirst, AskedForMore,
                            Between, Before, Asking, After, Giving
  <2> QED BY <2>2, <2>3 DEF IInv
<1>7. CASE pc' = "look" /\ ~MustDelete(a) /\ ~AlreadyDone(a) /\ completed' = completed
  <2>1. a \in manifest => Unread(a)
    BY <1>7 DEF AlreadyDone, Unread
  <2>2. HeldOrUnread'
    BY <1>2, <1>3, <1>7 DEF HeldOrUnread, Unread, HopsOf
  <2>3. AskedForMore'
    BY <1>2, <1>7, <2>1 DEF AskedForMore, Unread, HopsOf
  <2>4. DependenciesFirst'
    BY <1>2, <1>4, <1>7 DEF DependenciesFirst, DependenciesComplete, DependsOn
  <2>5. Placed' /\ OneInProcess'
    BY <1>2, <1>3, <1>7 DEF IInv, Placed, Aggs, OneInProcess, Between, Before, Asking, After,
                            Giving
  <2> QED BY <2>2, <2>3, <2>4, <2>5 DEF IInv
<1>8. CASE CopyFails(a)
  BY <1>5, <1>8 DEF CopyFails, Goto
<1>9. CASE Copy(a)
  BY <1>5, <1>6, <1>7, <1>9 DEF Copy, Goto
<1> QED BY <1>8, <1>9

\* The reservation of the aggregate itself is deleted: it can be asked again.
LEMMA RedoKeeps == IInv /\ Redo => IInv'
<1> SUFFICES ASSUME IInv, Redo PROVE IInv'
  OBVIOUS
<1>1. /\ pc = "redo" /\ UNCHANGED <<workflow, todo, cur>>
      /\ Leave(cur)
      /\ \/ Delete({cur}, {}) /\ pc' \in {"look", "failing"}
         \/ Delete({cur}, {cur}) /\ pc' = "failing"
  BY DEF Redo, Goto
<1>2. cur \in Aggs /\ workflow \in Workflows /\ inProcess = {} /\ DependenciesComplete(cur)
  BY <1>1 DEF IInv, Placed, OneInProcess, DependenciesFirst, Before
<1>3. PICK failing : Delete({cur}, failing) /\ (pc' = "look" => failing = {})
                     /\ pc' \in {"look", "failing"}
  BY <1>1
<1>4. HeldOrUnread' /\ manifest' = manifest \ ({cur} \ failing)
  BY <1>1, <1>2, <1>3, Deletion, Workflow DEF IInv
<1>5. DependenciesFirst'
  BY <1>1, <1>2, <1>3, DeletionUpstream DEF DependenciesFirst, DependenciesComplete, DependsOn
<1>6. AskedForMore'
  BY <1>1, <1>3, <1>4 DEF AskedForMore
<1>7. Placed' /\ OneInProcess'
  BY <1>1, <1>2, <1>3 DEF IInv, Placed, Aggs, OneInProcess, Leave, Between, Before, Asking, After,
                          Giving
<1> QED BY <1>4, <1>5, <1>6, <1>7 DEF IInv

\* From the last look at the tags to the request.
LEMMA RequestKeeps ==
  IInv /\ (Look \/ NotSane \/ Request) => IInv'
<1> SUFFICES ASSUME IInv, Look \/ NotSane \/ Request PROVE IInv'
  OBVIOUS
<1>1. /\ pc \in {"look", "request"}
      /\ UNCHANGED <<workflow, todo, cur, manifest, man, held>>
  BY DEF Look, NotSane, Request, UnchangedHere, aggVars, hopVars, amVars
<1>2. cur \in Aggs /\ workflow \in Workflows /\ inProcess = {} /\ DependenciesComplete(cur)
      /\ (cur \in manifest => Unread(cur))
  BY <1>1 DEF IInv, Placed, OneInProcess, DependenciesFirst, AskedForMore, Before
<1>3. CASE /\ completed' = completed
           /\ pc' \in {"request", "circuit", "failing"}
           /\ inProcess' = {}
  <2>1. HeldOrUnread'
    BY <1>1, <1>3 DEF IInv, HeldOrUnread, Unread, HopsOf
  <2>2. DependenciesFirst'
    BY <1>1, <1>2, <1>3 DEF DependenciesFirst, DependenciesComplete, DependsOn
  <2>3. AskedForMore'
    BY <1>1, <1>2, <1>3 DEF AskedForMore, Unread, HopsOf
  <2>4. Placed' /\ OneInProcess'
    BY <1>1, <1>2, <1>3 DEF IInv, Placed, Aggs, OneInProcess, Between, Before, Asking, After,
                            Giving
  <2> QED BY <2>1, <2>2, <2>3, <2>4 DEF IInv
<1>4. CASE Look
  <2>1. completed' = completed
    BY <1>4 DEF Look
  <2>2. CASE LookAgain(cur)
    BY <1>2, <1>3, <2>1, <2>2 DEF LookAgain, Goto, Leave
  <2> QED BY <1>2, <1>3, <1>4, <2>1, <2>2 DEF Look, Goto
<1>5. CASE NotSane
  BY <1>2, <1>3, <1>5 DEF NotSane, Goto, UnchangedHere, aggVars
<1>6. CASE Request
  <2>1. /\ pc' = "ask" /\ inProcess' = inProcess \cup {cur} /\ completed' = completed \ {cur}
    BY <1>6 DEF Request, Goto
  <2>2. HeldOrUnread'
    BY <1>1, <2>1 DEF IInv, HeldOrUnread, Unread, HopsOf
  <2>3. DependenciesFirst'
    BY <1>1, <1>2, <2>1, Workflow DEF DependenciesFirst, DependenciesComplete, DependsOn
  <2>4. AskedForMore'
    BY <1>1, <1>2, <2>1 DEF AskedForMore, Unread, HopsOf
  <2>5. Placed' /\ OneInProcess'
    BY <1>1, <1>2, <2>1 DEF IInv, Placed, Aggs, OneInProcess, Between, Before, Asking, After,
                            Giving
  <2> QED BY <2>2, <2>3, <2>4, <2>5 DEF IInv
<1> QED BY <1>4, <1>5, <1>6

-----------------------------------------------------------------------------
(* The answer. *)

\* Any answer that is not a manifest: nothing is complete for it, and if the
\* reservation is gone then so is its manifest, or it is ExoGENI's and unread.
LEMMA Answered ==
  ASSUME IInv, pc \in {"ask", "poll"},
         UNCHANGED <<workflow, todo, cur, completed, manifest, man>>,
         \/ held \subseteq held' /\ held' \subseteq held \cup {cur}
         \/ held' = held \ {cur} /\ (pc = "ask" => Kind[cur] = "eg"),
         pc' \in After \cup {"circuit", "failing", "pause"},
         pc' \in After => inProcess' = inProcess,
         pc' = "pause" => inProcess' = inProcess \ {cur}
  PROVE  IInv'
<1>1. cur \in Aggs /\ workflow \in Workflows /\ inProcess \subseteq {cur} /\ cur \notin completed
  BY DEF IInv, Placed, OneInProcess, AskedForMore, Asking
<1>2. cur \in manifest => pc = "ask" /\ Unread(cur)
  BY DEF IInv, AskedForMore
<1>3. HeldOrUnread'
  <2>1. completed' \subseteq manifest' \cap held'
    BY <1>1 DEF IInv, HeldOrUnread
  <2>2. ASSUME NEW a \in manifest' \ held'
        PROVE  Kind[a] = "eg" /\ Unread(a)
    BY <1>2, <2>2 DEF IInv, HeldOrUnread
  <2> QED BY <2>1, <2>2 DEF HeldOrUnread, Unread, HopsOf
<1>4. Placed' /\ OneInProcess'
  BY <1>1 DEF IInv, Placed, Aggs, OneInProcess, Between, Before, Asking, After, Giving
<1>5. DependenciesFirst' /\ AskedForMore'
  BY DEF DependenciesFirst, AskedForMore, After
<1> QED BY <1>3, <1>4, <1>5 DEF IInv

\* A reservation that was not held before is, and its aggregate has no manifest
\* yet where it must first be waited for.
LEMMA ReservedKeeps == IInv /\ Reserved => IInv'
<1> SUFFICES ASSUME IInv, Reserved PROVE IInv'
  OBVIOUS
<1>1. /\ pc = "ask" /\ cur \notin held /\ held' = held \cup {cur}
      /\ pc' = (IF cur \in Dcn THEN "poll" ELSE "manifest")
      /\ UNCHANGED <<workflow, todo, cur, completed, inProcess, manifest, man>>
  BY DEF Reserved, UnchangedAnswer, Goto, hopVars
<1>2. cur \in Aggs /\ workflow \in Workflows /\ inProcess \subseteq {cur} /\ cur \notin completed
      /\ DependenciesComplete(cur)
  BY <1>1 DEF IInv, Placed, OneInProcess, DependenciesFirst, AskedForMore, Asking
<1>3. cur \in Dcn => cur \notin manifest
  BY <1>1 DEF IInv, HeldOrUnread, Dcn
<1>4. HeldOrUnread'
  BY <1>1 DEF IInv, HeldOrUnread, Unread, HopsOf
<1>5. DependenciesFirst'
  BY <1>1, <1>2 DEF DependenciesFirst, DependenciesComplete, DependsOn
<1>6. AskedForMore'
  BY <1>1, <1>2, <1>3 DEF AskedForMore
<1>7. Placed' /\ OneInProcess'
  BY <1>1, <1>2 DEF IInv, Placed, Aggs, OneInProcess, Between, Before, Asking, After, Giving
<1> QED BY <1>4, <1>5, <1>6, <1>7 DEF IInv

\* The errors and the answers that cannot be read.
LEMMA ErrorKeeps ==
  IInv /\ (VlanError \/ Fatal \/ FromThePathService \/ AskAgain \/ BrokenAnswer) => IInv'
<1> SUFFICES ASSUME IInv, VlanError \/ Fatal \/ FromThePathService \/ AskAgain \/ BrokenAnswer
             PROVE  IInv'
  OBVIOUS
<1>1. pc = "ask" /\ UnchangedAnswer
  BY DEF VlanError, Fatal, FromThePathService, AskAgain, BrokenAnswer
<1>2. UNCHANGED <<workflow, todo, cur, completed, manifest, man>>
  BY <1>1 DEF UnchangedAnswer, hopVars
<1>3. \/ held \subseteq held' /\ held' \subseteq held \cup {cur}
      \/ held' = held \ {cur} /\ Kind[cur] = "eg"
  <2>1. DeleteIfEG(cur) \/ held' = held \cup {cur}
    BY DEF VlanError, Fatal, FromThePathService, AskAgain, BrokenAnswer
  <2> QED BY <2>1 DEF DeleteIfEG
<1>4. /\ pc' \in After \cup {"circuit", "failing", "pause"}
      /\ pc' \in After => inProcess' = inProcess
      /\ pc' = "pause" => inProcess' = inProcess \ {cur}
  BY DEF VlanError, Fatal, FromThePathService, AskAgain, BrokenAnswer, Goto, Retry, Leave, After
<1> QED BY <1>1, <1>2, <1>3, <1>4, Answered

\* Waiting for a DCN aggregate.
LEMMA PollKeeps ==
  IInv /\ (PollFails \/ PollReady \/ NotReadyDeleteFails \/ NotReady) => IInv'
<1> SUFFICES ASSUME IInv, PollFails \/ PollReady \/ NotReadyDeleteFails \/ NotReady PROVE IInv'
  OBVIOUS
<1>1. /\ pc = "poll"
      /\ UNCHANGED <<workflow, todo, cur, completed, manifest, man>>
  BY DEF PollFails, PollReady, NotReadyDeleteFails, NotReady, UnchangedAnswer, hopVars
<1>2. CASE PollReady
  <2>1. pc' = "manifest" /\ UNCHANGED <<inProcess, held>>
    BY <1>2 DEF PollReady, Goto
  <2>2. /\ cur \in Aggs /\ workflow \in Workflows /\ inProcess \subseteq {cur} /\ cur \in held
        /\ DependenciesComplete(cur)
    BY <1>1 DEF IInv, Placed, OneInProcess, DependenciesFirst, AskedForMore, Asking
  <2>3. HeldOrUnread' /\ DependenciesFirst'
    BY <1>1, <2>1, <2>2 DEF IInv, HeldOrUnread, Unread, HopsOf, DependenciesFirst,
                            DependenciesComplete, DependsOn
  <2>4. Placed' /\ OneInProcess' /\ AskedForMore'
    BY <1>1, <2>1, <2>2 DEF IInv, Placed, Aggs, OneInProcess, AskedForMore, Between, Before,
                            Asking, After, Giving
  <2> QED BY <2>3, <2>4 DEF IInv
<1>3. CASE PollFails \/ NotReadyDeleteFails
  <2>1. pc' = "failing" /\ UNCHANGED <<inProcess, held>>
    BY <1>3 DEF PollFails, NotReadyDeleteFails, Goto
  <2> QED BY <1>1, <2>1, Answered DEF After
<1>4. CASE NotReady
  <2>1. held' = held \ {cur} \/ held' = held
    BY <1>4 DEF NotReady
  <2>2. /\ pc' \in After \cup {"circuit", "failing", "pause"}
        /\ pc' \in After => inProcess' = inProcess
        /\ pc' = "pause" => inProcess' = inProcess \ {cur}
    BY <1>4 DEF NotReady, Goto, Retry, Leave, After
  <2> QED BY <1>1, <2>1, <2>2, Answered
<1> QED BY <1>2, <1>3, <1>4

\* Reading the manifest of a reservation that is held.
LEMMA ManifestKeeps == IInv /\ (Manifest \/ NoTagGiven \/ BrokenManifest) => IInv'
<1> SUFFICES ASSUME IInv, Manifest \/ NoTagGiven \/ BrokenManifest PROVE IInv'
  OBVIOUS
<1>1. /\ pc = "manifest" /\ manifest' = manifest \cup {cur}
      /\ UNCHANGED <<workflow, todo, cur, held>>
  BY DEF Manifest, NoTagGiven, BrokenManifest, NotRead, amVars
<1>2. /\ cur \in Aggs /\ workflow \in Workflows /\ inProcess \subseteq {cur} /\ cur \in held
      /\ workflow.hops \subseteq Hop
  BY <1>1, Workflow DEF IInv, Placed, OneInProcess, AskedForMore, Asking
<1>3. \E S \in SUBSET HopsOf(cur) : \E got : TakeTags(S, got)
  <2>1. CASE Manifest
    BY <2>1 DEF Manifest
  <2>2. CASE NoTagGiven \/ BrokenManifest
    <3>1. PICK h \in HopsOf(cur) : ReadUpTo(h)
      BY <2>2 DEF NoTagGiven, BrokenManifest
    <3>2. PICK S \in SUBSET (HopsOf(cur) \ {h}) : \E got : TakeTags(S, got)
      BY <3>1 DEF ReadUpTo
    <3> QED BY <3>2
  <2> QED BY <2>1, <2>2
<1>4. PICK S \in SUBSET HopsOf(cur) : \E got : TakeTags(S, got)
  BY <1>3
<1>5. \A h \in Hop : Owner[h] # cur => man'[h] = man[h]
  BY <1>4 DEF TakeTags, HopsOf
<1>6. completed' \subseteq completed \cup {cur}
  BY DEF Manifest, NoTagGiven, BrokenManifest
<1>7. HeldOrUnread'
  <2>1. ASSUME NEW a \in manifest' \ held'
        PROVE  Kind[a] = "eg" /\ Unread(a)'
    <3>1. a # cur /\ Kind[a] = "eg" /\ Unread(a)
      BY <1>1, <1>2, <2>1 DEF IInv, HeldOrUnread
    <3>2. PICK h \in HopsOf(a) : man[h] = NoTag
      BY <3>1 DEF Unread
    <3>3. h \in HopsOf(a)' /\ man'[h] = NoTag
      BY <1>1, <1>2, <1>5, <3>1, <3>2 DEF HopsOf
    <3> QED BY <3>1, <3>3 DEF Unread
  <2>2. completed' \subseteq manifest' \cap held'
    BY <1>1, <1>2, <1>6 DEF IInv, HeldOrUnread
  <2> QED BY <2>1, <2>2 DEF HeldOrUnread
<1>8. /\ pc' \in {"next", "failing", "unavail"}
      /\ pc' = "next" => inProcess' = inProcess \ {cur}
      /\ pc' = "unavail" => inProcess' = inProcess
  BY DEF Manifest, NoTagGiven, BrokenManifest, Goto, Leave
<1>9. Placed' /\ OneInProcess' /\ DependenciesFirst' /\ AskedForMore'
  BY <1>1, <1>2, <1>8 DEF IInv, Placed, Aggs, OneInProcess, DependenciesFirst, AskedForMore,
                          Between, Before, Asking, After, Giving
<1> QED BY <1>7, <1>9 DEF IInv

-----------------------------------------------------------------------------
(* The theorems. *)

\* The first state, and every step from a state that satisfies the invariant to
\* the next, whatever it is, keep it.
LEMMA InitHolds == Init => IInv
BY DEF Init, IInv, Placed, OneInProcess, DependenciesFirst, HeldOrUnread, AskedForMore, Between,
       Before, Asking, After, Giving

LEMMA StepKeeps == IInv /\ [Next]_vars => IInv'
<1> SUFFICES ASSUME IInv, [Next]_vars PROVE IInv'
  OBVIOUS
<1>1. CASE \/ ScsFails \/ LoopTimesOut \/ CallScs \/ Planned \/ UpdateAvailRanges
           \/ CircuitFailed \/ StitchingFailed \/ EndPartiallyReserved
  BY <1>1, LoopKeeps
<1>2. CASE Launch
  BY <1>2, LaunchKeeps
<1>3. CASE Prepare
  BY <1>3, CopyKeeps, RedoKeeps, RequestKeeps DEF Prepare
<1>4. CASE Reserve
  <2>1. CASE Unavailable
    <3>1. pc \in Asking \cup After /\ GivesUp(cur) /\ UNCHANGED <<workflow, todo>>
      BY <2>1, UnavailableGivesUp DEF Unavailable, After
    <3> QED BY <3>1, GivingUpIsSafe
  <2> QED BY <1>4, <2>1, ReservedKeeps, ErrorKeeps, PollKeeps, ManifestKeeps DEF Reserve
<1>5. CASE UNCHANGED vars
  <2>1. UNCHANGED <<pc, workflow, todo, cur, completed, inProcess, manifest, man, held>>
    BY <1>5 DEF vars, aggVars, hopVars, amVars
  <2> QED BY <2>1 DEF IInv, Placed, Aggs, OneInProcess, DependenciesFirst, DependenciesComplete,
                      DependsOn, HeldOrUnread, AskedForMore, Unread, HopsOf
<1> QED BY <1>1, <1>2, <1>3, <1>4, <1>5 DEF Next

\* The invariant holds of every circuit.
THEOREM Inductive == Spec => []IInv
BY InitHolds, StepKeeps, PTL DEF Spec

\* Of the aggregates that are not complete one depends on none of the others, and
\* between two aggregates none is in process: that one is ready.
LEMMA SomeIsReady == IInv => NeverStalls
<1> SUFFICES ASSUME IInv, pc = "round", ~(Aggs \subseteq completed)
             PROVE  \E a \in Aggs : Ready(a)
  BY DEF NeverStalls
<1>1. workflow \in Workflows /\ inProcess = {}
  BY DEF IInv, Placed, OneInProcess, Between
<1>2. PICK a \in Aggs \ completed : DependsOn(a) \cap (Aggs \ completed) = {}
  BY <1>1, Workflow
<1>3. DependsOn(a) \subseteq completed
  BY <1>1, <1>2, Workflow
<1> QED BY <1>1, <1>2, <1>3 DEF Ready, DependenciesComplete

\* While the circuit is not complete some aggregate is ready (NeverStalls): the
\* launcher's "no ready aggregates" can only mean that its time is up.
THEOREM LauncherNeverStalls == Spec => []NeverStalls
BY Inductive, SomeIsReady, PTL

\* An aggregate is asked only while all it depends on is reserved
\* (DependenciesFirst).
THEOREM DependenciesAreFirst == Spec => []DependenciesFirst
<1>1. IInv => DependenciesFirst
  BY DEF IInv
<1> QED BY <1>1, Inductive, PTL

\* An aggregate counts as complete only with a manifest and a reservation, and a
\* manifest means a reservation, but for ExoGENI (CompleteMeansHeld).
THEOREM CompleteIsHeld == Spec => []CompleteMeansHeld
<1>1. IInv => CompleteMeansHeld
  BY DEF IInv, HeldOrUnread, CompleteMeansHeld
<1> QED BY <1>1, Inductive, PTL

-----------------------------------------------------------------------------
(* The way of a tag. *)

\* A hop imports its tag from a hop of another aggregate, on which its own
\* depends.
LEMMA Imported ==
  ASSUME workflow \in Workflows, NEW h \in workflow.hops, Imports(h)
  PROVE  /\ From(h) \in workflow.hops
         /\ Owner[h] \in Aggs /\ Owner[From(h)] \in Aggs
         /\ Owner[From(h)] \in DependsOn(Owner[h])
         /\ Owner[From(h)] # Owner[h]
<1>1. /\ workflow.from \in [workflow.hops -> workflow.hops \cup {NoHop}]
      /\ \A x \in workflow.hops : workflow.from[x] # NoHop => workflow.from[x] \in workflow.needs[x]
      /\ \A x \in workflow.hops, y \in workflow.hops :
           y \in workflow.needs[x] => Owner[y] \in workflow.deps[Owner[x]]
  BY WorkflowAssumption
<1>2. From(h) \in workflow.hops /\ Owner[From(h)] \in DependsOn(Owner[h])
  BY <1>1 DEF Imports, From, DependsOn
<1>3. Owner[h] \in Aggs /\ Owner[From(h)] \in Aggs
  BY <1>2 DEF Aggs
<1> QED BY <1>2, <1>3, Workflow

\* Of some hops one imports its tag from none of the others.
LEMMA SomeFirst ==
  ASSUME workflow \in Workflows, NEW B \in SUBSET workflow.hops, B # {}
  PROVE  \E h \in B : Imports(h) => From(h) \notin B
<1>1. {Owner[h] : h \in B} \in SUBSET Aggs /\ {Owner[h] : h \in B} # {}
  BY DEF Aggs
<1>2. PICK a \in {Owner[h] : h \in B} : DependsOn(a) \cap {Owner[h] : h \in B} = {}
  BY <1>1, Workflow
<1>3. PICK h \in B : Owner[h] = a
  BY <1>2
<1> QED BY <1>2, <1>3, Imported

\* The recursion of Upstream is well founded: it has the least solution, the hops
\* in every set that contains h and whatever its members import from.
LEMMA UpstreamIs ==
  ASSUME workflow \in Workflows
  PROVE  \A h \in workflow.hops :
           Upstream[h] = {h} \cup (IF Imports(h) THEN Upstream[From(h)] ELSE {})
<1> DEFINE Closed(S) == \A x \in S : Imports(x) => From(x) \in S
           U(h) == {g \in workflow.hops :
                      \A S \in SUBSET workflow.hops : h \in S /\ Closed(S) => g \in S}
           Solves(up) == up = [h \in workflow.hops |->
                                 {h} \cup (IF Imports(h) THEN up[From(h)] ELSE {})]
<1>1. ASSUME NEW h \in workflow.hops
      PROVE  /\ h \in U(h) /\ U(h) \subseteq workflow.hops /\ Closed(U(h))
             /\ \A S \in SUBSET workflow.hops : h \in S /\ Closed(S) => U(h) \subseteq S
  BY Imported
<1>2. ASSUME NEW h \in workflow.hops
      PROVE  U(h) = {h} \cup (IF Imports(h) THEN U(From(h)) ELSE {})
  <2> DEFINE S == {h} \cup (IF Imports(h) THEN U(From(h)) ELSE {})
  <2>1. Imports(h) => From(h) \in workflow.hops
    BY Imported
  <2>2. S \in SUBSET workflow.hops /\ h \in S /\ Closed(S)
    BY <1>1, <2>1
  <2>3. U(h) \subseteq S
    BY <1>1, <2>2
  <2>4. Imports(h) => U(From(h)) \subseteq U(h)
    BY <1>1, <2>1
  <2> QED BY <1>1, <2>3, <2>4
<1>3. Solves([h \in workflow.hops |-> U(h)])
  <2> HIDE DEF U
  <2>1. \A h \in workflow.hops : Imports(h) => From(h) \in workflow.hops
    BY Imported
  <2> QED BY <1>2, <2>1
<1>4. Upstream = CHOOSE up : Solves(up)
  BY DEF Upstream
<1>5. Solves(Upstream)
  <2> HIDE DEF Solves
  <2> QED BY <1>3, <1>4
<1> QED BY <1>5

\* A tag has one source.
LEMMA OneSource ==
  ASSUME workflow \in Workflows, NEW h \in workflow.hops
  PROVE  /\ Upstream[h] \subseteq workflow.hops /\ h \in Upstream[h]
         /\ Source(h) \in Upstream[h] /\ ~Imports(Source(h))
         /\ \A g \in Upstream[h] : ~Imports(g) => g = Source(h)
<1> DEFINE One(x) == /\ Upstream[x] \subseteq workflow.hops
                     /\ \E r \in Upstream[x] :
                          ~Imports(r) /\ \A g \in Upstream[x] : ~Imports(g) => g = r
           B == {x \in workflow.hops : ~One(x)}
<1>1. ASSUME B # {} PROVE FALSE
  <2>1. PICK x \in B : Imports(x) => From(x) \notin B
    BY <1>1, SomeFirst
  <2>2. x \in workflow.hops /\ ~One(x)
    BY <2>1
  <2>3. CASE Imports(x)
    <3>1. From(x) \in workflow.hops /\ One(From(x)) /\ Upstream[x] = {x} \cup Upstream[From(x)]
      BY <2>1, <2>2, <2>3, Imported, UpstreamIs
    <3> QED BY <2>2, <2>3, <3>1
  <2>4. CASE ~Imports(x)
    <3>1. Upstream[x] = {x}
      BY <2>2, <2>4, UpstreamIs
    <3> QED BY <2>2, <2>4, <3>1
  <2> QED BY <2>3, <2>4
<1>2. One(h)
  BY <1>1
<1>3. h \in Upstream[h]
  BY UpstreamIs
<1> QED BY <1>2, <1>3 DEF Source

\* What a hop on the way up imports from is on the way too.
LEMMA UpstreamIsClosed ==
  ASSUME workflow \in Workflows, NEW h \in workflow.hops, NEW g \in Upstream[h], Imports(g)
  PROVE  From(g) \in Upstream[h]
<1> DEFINE T == {y \in workflow.hops : \A z \in Upstream[y] : Imports(z) => From(z) \in Upstream[y]}
<1>1. ASSUME NEW y \in workflow.hops \ T, Imports(y) => From(y) \in T
      PROVE  FALSE
  <2>1. CASE Imports(y)
    <3>1. From(y) \in T /\ From(y) \in Upstream[From(y)] /\ Upstream[y] = {y} \cup Upstream[From(y)]
      BY <1>1, <2>1, UpstreamIs, Imported, OneSource
    <3> QED BY <1>1, <3>1
  <2>2. CASE ~Imports(y)
    <3>1. Upstream[y] = {y}
      BY <1>1, <2>2, UpstreamIs
    <3> QED BY <1>1, <2>2, <3>1
  <2> QED BY <2>1, <2>2
<1>2. workflow.hops \ T = {}
  <2>1. SUFFICES ASSUME workflow.hops \ T # {} PROVE FALSE
    OBVIOUS
  <2> HIDE DEF T
  <2>2. PICK y \in workflow.hops \ T : Imports(y) => From(y) \notin workflow.hops \ T
    BY <2>1, SomeFirst, workflow.hops \ T \in SUBSET workflow.hops
  <2> QED BY <1>1, <2>2, Imported
<1> QED BY <1>2

\* A tag does not come back to the aggregate that it comes from.
LEMMA UpstreamIsElsewhere ==
  ASSUME workflow \in Workflows, NEW h \in workflow.hops, NEW g \in Upstream[h] \ {h}
  PROVE  Owner[g] # Owner[h]
<1> SUFFICES ASSUME Owner[g] = Owner[h] PROVE FALSE
  OBVIOUS
<1> DEFINE B == {x \in Upstream[h] : x # g /\ g \in Upstream[x]}
           S == {Owner[x] : x \in B}
<1>1. h \in B /\ B \subseteq workflow.hops
  BY OneSource
<1>2. S \in SUBSET Aggs /\ S # {}
  BY <1>1 DEF Aggs
<1>3. PICK a \in S : DependsOn(a) \cap S = {}
  BY <1>2, Workflow
<1>4. PICK x \in B : Owner[x] = a
  BY <1>3
<1>5. x \in workflow.hops /\ Imports(x) /\ g \in Upstream[From(x)] /\ Owner[From(x)] \in DependsOn(a)
  BY <1>1, <1>4, UpstreamIs, Imported
<1>6. From(x) \in Upstream[h]
  BY <1>4, <1>5, UpstreamIsClosed
<1>7. Owner[From(x)] \in S
  <2>1. CASE From(x) = g
    BY <1>1, <2>1
  <2>2. CASE From(x) # g
    BY <1>5, <1>6, <2>2
  <2> QED BY <2>1, <2>2
<1> QED BY <1>3, <1>5, <1>7

\* A hop above another has the same source.
LEMMA SameSource ==
  ASSUME workflow \in Workflows, NEW f \in workflow.hops, NEW g \in Upstream[f]
  PROVE  Source(g) = Source(f)
<1> DEFINE Good(y) == \A x \in Upstream[y] : Upstream[x] \subseteq Upstream[y]
           B == {y \in workflow.hops : ~Good(y)}
<1>1. ASSUME NEW y \in B, Imports(y) => From(y) \notin B PROVE FALSE
  <2>1. CASE Imports(y)
    <3>1. From(y) \in workflow.hops /\ Good(From(y)) /\ Upstream[y] = {y} \cup Upstream[From(y)]
      BY <1>1, <2>1, UpstreamIs, Imported
    <3> QED BY <1>1, <3>1
  <2>2. CASE ~Imports(y)
    <3>1. Upstream[y] = {y}
      BY <1>1, <2>2, UpstreamIs
    <3> QED BY <1>1, <3>1
  <2> QED BY <2>1, <2>2
<1>2. B = {}
  <2>1. B \in SUBSET workflow.hops
    OBVIOUS
  <2> HIDE DEF B
  <2> QED BY <1>1, <2>1, SomeFirst
<1>3. g \in workflow.hops /\ Upstream[g] \subseteq Upstream[f]
  BY <1>2, OneSource
<1> QED BY <1>3, OneSource

\* The hops that use the tag with f are those above it and the least set that
\* contains it and its source, the hops that import from its members, and those of
\* the source's aggregate that pick a tag.
LEMMA SpreadIsLeast ==
  ASSUME workflow \in Workflows, NEW f \in workflow.hops
  PROVE  /\ {f, Source(f)} \subseteq Spread(f) /\ Spread(f) \subseteq workflow.hops
         /\ \A E \in SUBSET workflow.hops :
              /\ Upstream[f] \subseteq E
              /\ \A h \in workflow.hops :
                   (IF Imports(h) THEN From(h) \in E \ Translates ELSE Owner[h] = Owner[Source(f)]) => h \in E
              => Spread(f) \subseteq E
<1> DEFINE r == Source(f)
           Follows(D) == {h \in workflow.hops : IF Imports(h) THEN From(h) \in D \ Translates
                                                             ELSE Owner[h] = Owner[r]}
           Closed(D) == Follows(D) \subseteq D
           IsLeast(D) == /\ {f, r} \subseteq D /\ Closed(D)
                         /\ \A E \in SUBSET workflow.hops : {f, r} \subseteq E /\ Closed(E) => D \subseteq E
           Least == CHOOSE D \in SUBSET workflow.hops : IsLeast(D)
           I == {h \in workflow.hops : \A E \in SUBSET workflow.hops : {f, r} \subseteq E /\ Closed(E) => h \in E}
<1>1. r \in workflow.hops
  BY OneSource
<1>2. I \in SUBSET workflow.hops /\ {f, r} \subseteq I
  BY <1>1
<1>3. \A E \in SUBSET workflow.hops : {f, r} \subseteq E /\ Closed(E) => I \subseteq E
  OBVIOUS
<1>4. Closed(I)
  <2>1. SUFFICES ASSUME NEW h \in Follows(I), NEW E \in SUBSET workflow.hops, {f, r} \subseteq E, Closed(E)
                 PROVE  h \in E
    OBVIOUS
  <2>2. I \subseteq E
    BY <2>1, <1>3
  <2>3. h \in Follows(E)
    BY <2>1, <2>2
  <2> QED BY <2>1, <2>3
<1>5. IsLeast(I)
  BY <1>2, <1>3, <1>4
<1>6. Least \in SUBSET workflow.hops /\ IsLeast(Least)
  <2> HIDE DEF IsLeast, I
  <2> QED BY <1>2, <1>5
<1>7. Spread(f) = Least \cup Upstream[f]
  BY DEF Spread
<1>8. ASSUME NEW E \in SUBSET workflow.hops, Upstream[f] \subseteq E,
             \A h \in workflow.hops :
               (IF Imports(h) THEN From(h) \in E \ Translates ELSE Owner[h] = Owner[Source(f)]) => h \in E
      PROVE  Spread(f) \subseteq E
  <2>1. {f, r} \subseteq E
    BY <1>8, OneSource
  <2>2. Closed(E)
    BY <1>8
  <2>3. Least \subseteq E
    BY <1>6, <2>1, <2>2
  <2> QED BY <1>7, <1>8, <2>3
<1>9. Upstream[f] \subseteq workflow.hops
  BY OneSource
<1> HIDE DEF IsLeast, Least
<1> QED BY <1>6, <1>7, <1>8, <1>9 DEF IsLeast

\* Those of them that pick a tag belong to the aggregate of its source.
LEMMA SpreadIs ==
  ASSUME workflow \in Workflows, NEW f \in workflow.hops
  PROVE  /\ {f, Source(f)} \subseteq Spread(f) /\ Spread(f) \subseteq workflow.hops
         /\ Imports(f) => \A h \in Spread(f) : ~Imports(h) => Owner[h] = Owner[Source(f)]
<1> DEFINE E == {h \in workflow.hops : Imports(h) \/ Owner[h] = Owner[Source(f)]}
<1>1. E \in SUBSET workflow.hops /\ Upstream[f] \subseteq E
  BY OneSource
<1>2. \A h \in workflow.hops :
        (IF Imports(h) THEN From(h) \in E \ Translates ELSE Owner[h] = Owner[Source(f)]) => h \in E
  OBVIOUS
<1>3. Spread(f) \subseteq E
  <2> HIDE DEF E
  <2> QED BY <1>1, <1>2, SpreadIsLeast
<1> QED BY <1>3, SpreadIsLeast

-----------------------------------------------------------------------------
(* What a failure teaches. *)

\* No hop translates its tag, and the hops of an aggregate, which share one, get
\* it in the same way.
Plain ==
  /\ Translates = {}
  /\ \A w \in Workflows : \A g \in w.hops, h \in w.hops :
       Owner[g] = Owner[h] => (w.from[g] = NoHop <=> w.from[h] = NoHop)

\* There are tags left to ask for, none of which was found to be unavailable.
Fresh(h) == range[h] # {} /\ range[h] \cap unavail[h] = {}

\* The request asks for one of them.
Asks(h) == Fresh(h) /\ sug[h] \in range[h] \cup {AnyTag}

KnownTags == \A h \in Hop : range[h] \subseteq Tag /\ man[h] \in Tag \cup {NoTag}

\* Just the hops that pick a tag are asked for any, where the software can.
AnyIsForPickers ==
  \A h \in workflow.hops : sug[h] = AnyTag <=> ~Imports(h) /\ SupportsAny(Owner[h])

ReadIsInManifest == \A h \in workflow.hops : man[h] # NoTag => Owner[h] \in manifest

FreshWorkflow == pc \in {"planned", "avail"} => \A h \in workflow.hops : Fresh(h)

\* A hop that picks its tag, and of which copyVLANsAndDetectRedo has nothing to
\* pick as the manifest named one, while another hop has none yet.
FreshPicks ==
  pc \notin Giving =>
    \A h \in workflow.hops :
      ~Imports(h) /\ man[h] # NoTag /\ Unread(Owner[h]) /\ ~(pc \in After /\ Owner[h] = cur)
        => Fresh(h) /\ ~SupportsAny(Owner[h])

FreshRequest ==
  /\ pc \in Before \cup Asking => \A h \in HopsOf(cur) : Fresh(h)
  /\ pc \in Asking => \A h \in HopsOf(cur) : Asks(h)

FreshFailure ==
  pc \in After => /\ bad \in HopsOf(cur) \cup {NoHop}
                  /\ \A h \in HopsOf(cur) : bad \in {h, NoHop} => Asks(h)

LInv ==
  /\ KnownTags
  /\ AnyIsForPickers
  /\ ReadIsInManifest
  /\ FreshWorkflow
  /\ FreshPicks
  /\ FreshRequest
  /\ FreshFailure

\* In a plain circuit the hops of an aggregate import their tags, or none does.
LEMMA AllOrNoneImport ==
  ASSUME Plain, workflow \in Workflows, NEW g \in workflow.hops, NEW h \in workflow.hops,
         Owner[g] = Owner[h]
  PROVE  Imports(g) <=> Imports(h)
BY DEF Plain, Imports, From

\* Every aggregate of the circuit has a hop on it.
LEMMA SomeHop == \A a \in Aggs : HopsOf(a) # {}
BY DEF Aggs, HopsOf

\* What a deletion does to the manifests: what is left of them is as it was.
LEMMA DeletionReads ==
  ASSUME workflow' = workflow, workflow.hops \subseteq Hop, KnownTags, ReadIsInManifest,
         range' = range \/ \A h \in Hop : range'[h] \subseteq Tag,
         NEW D, NEW failing, Delete(D, failing)
  PROVE  /\ KnownTags' /\ ReadIsInManifest'
         /\ \A h \in workflow.hops :
              man'[h] # NoTag => man'[h] = man[h] /\ (Unread(Owner[h])' => Unread(Owner[h]))
<1>1. /\ manifest' = manifest \ (D \ failing)
      /\ man' = [h \in Hop |-> IF Owner[h] \in D \ failing THEN NoTag ELSE man[h]]
  BY DEF Delete, Forget
<1>2. KnownTags'
  BY <1>1 DEF KnownTags
<1>3. ReadIsInManifest'
  BY <1>1 DEF ReadIsInManifest
<1>4. ASSUME NEW h \in workflow.hops, man'[h] # NoTag
      PROVE  man'[h] = man[h] /\ (Unread(Owner[h])' => Unread(Owner[h]))
  <2>1. Owner[h] \notin D \ failing
    BY <1>1, <1>4
  <2> QED BY <1>1, <1>4, <2>1 DEF Unread, HopsOf
<1> QED BY <1>2, <1>3, <1>4

\* A step that leaves tags and manifests alone.
LEMMA HopsAside ==
  ASSUME LInv, UNCHANGED <<workflow, sug, range, unavail, man, manifest>>, pc \notin After,
         pc' \in {"planned", "avail"} => pc \in {"planned", "avail"},
         pc' \notin Giving => pc \notin Giving,
         pc' \in Before \cup Asking => pc \in Before \cup Asking /\ cur' = cur,
         pc' \in Asking => pc \in Asking \/ \A h \in HopsOf(cur) : Sane(h),
         pc' \in After => pc \in Asking /\ cur' = cur /\ bad' \in HopsOf(cur) \cup {NoHop}
  PROVE  LInv'
<1>1. KnownTags' /\ AnyIsForPickers' /\ ReadIsInManifest' /\ FreshWorkflow'
  BY DEF LInv, KnownTags, AnyIsForPickers, ReadIsInManifest, FreshWorkflow, Fresh, Imports, From
<1>2. FreshPicks'
  BY DEF LInv, FreshPicks, Fresh, Unread, HopsOf, Imports, From
<1>3. FreshRequest'
  BY DEF LInv, FreshRequest, Fresh, Asks, Sane, HopsOf
<1>4. FreshFailure'
  BY DEF LInv, FreshFailure, FreshRequest, Fresh, Asks, HopsOf
<1> QED BY <1>1, <1>2, <1>3, <1>4 DEF LInv

\* A step that gives the circuit up.
LEMMA GivenUp ==
  ASSUME KnownTags', AnyIsForPickers', ReadIsInManifest', pc' \in Giving
  PROVE  LInv'
BY DEF LInv, FreshWorkflow, FreshPicks, FreshRequest, FreshFailure, Giving, Before, Asking, After

\* A new workflow excludes the tags that were found to be unavailable.
LEMMA ScsLearns == CallScs => LInv'
<1> SUFFICES ASSUME CallScs PROVE LInv'
  OBVIOUS
<1>1. PICK w \in Workflows, pick \in [Hop -> Tag] :
        /\ Avoids(w, pick)
        /\ workflow' = w
        /\ unavail' = [h \in Hop |-> Kept(w, h)]
        /\ range' = [h \in Hop |-> IF h \in w.hops THEN ScsRange[h] \ Kept(w, h) ELSE {}]
        /\ sug' = [h \in Hop |-> IF h \in w.hops /\ ~AskForAny(w, h) THEN pick[h] ELSE AnyTag]
  BY DEF CallScs
<1>2. pc' = "planned" /\ man' = [h \in Hop |-> NoTag]
  BY DEF CallScs, Stop, Goto
<1>3. w.hops \subseteq Hop
  BY WorkflowAssumption
<1>4. AnyTag \notin Tag /\ ScsRange \in [Hop -> SUBSET Tag]
  BY CircuitAssumption
<1>5. KnownTags'
  BY <1>1, <1>2, <1>4 DEF KnownTags
<1>6. AnyIsForPickers'
  BY <1>1, <1>3, <1>4 DEF AnyIsForPickers, AskForAny, Imports, From, SupportsAny
<1>7. FreshWorkflow'
  <2>1. ASSUME NEW h \in w.hops PROVE Fresh(h)'
    <3>1. pick[h] \in ScsRange[h] \ Kept(w, h)
      BY <1>1, <2>1 DEF Avoids, Kept
    <3> QED BY <1>1, <1>3, <3>1 DEF Fresh
  <2> QED BY <1>1, <2>1 DEF FreshWorkflow
<1>8. ReadIsInManifest' /\ FreshPicks'
  BY <1>1, <1>2, <1>3 DEF ReadIsInManifest, FreshPicks
<1>9. FreshRequest' /\ FreshFailure'
  BY <1>2 DEF FreshRequest, FreshFailure, Before, Asking, After
<1> QED BY <1>5, <1>6, <1>7, <1>8, <1>9 DEF LInv

\* What an aggregate lacks it lacks at its own hops.
LEMMA LacksHere ==
  ASSUME NEW a, NEW gone \in Lacks(a), NEW h \in Hop, h \notin HopsOf(a)
  PROVE  gone[h] = {}
BY DEF Lacks

\* After a check that does not end the workflow every hop has a tag left.
LEMMA StillFreeIsFresh ==
  ASSUME workflow \in Workflows, NEW a, NEW gone \in Lacks(a), StillFree(a, gone),
         \A h \in workflow.hops : Fresh(h)
  PROVE  \A h \in workflow.hops : range'[h] \subseteq range[h] /\ Fresh(h)'
<1> SUFFICES ASSUME NEW h \in workflow.hops PROVE range'[h] \subseteq range[h] /\ Fresh(h)'
  OBVIOUS
<1>1. h \in Hop
  BY Workflow
<1>2. unavail'[h] = unavail[h] \cup (gone[h] \cap range[h])
  BY <1>1 DEF StillFree
<1>3. range'[h] = IF ~Changes(gone) THEN range[h]
                  ELSE IF \E k \in HopsOf(a) : h \in Upstream[k] \ {k} THEN Narrowed(a, gone, h) \ gone[h]
                  ELSE range[h] \ gone[h]
  BY <1>1 DEF StillFree
<1>4. CASE ~Changes(gone)
  BY <1>1, <1>2, <1>3, <1>4 DEF Changes, Fresh
<1>5. ASSUME Changes(gone), NEW k \in HopsOf(a), h \in Upstream[k] \ {k}
      PROVE  range'[h] \subseteq range[h] /\ Fresh(h)'
  <2>1. h \notin HopsOf(a)
    BY <1>5, UpstreamIsElsewhere DEF HopsOf
  <2>2. gone[h] = {}
    BY <1>1, <2>1, LacksHere
  <2>3. Narrowed(a, gone, h) # {} /\ Narrowed(a, gone, h) \subseteq range[h]
    BY <1>5 DEF StillFree, Fits, Unsuited, Narrowed
  <2> QED BY <1>2, <1>3, <1>5, <2>2, <2>3 DEF Fresh
<1>6. CASE Changes(gone) /\ ~ \E k \in HopsOf(a) : h \in Upstream[k] \ {k}
  <2>1. range[h] \ gone[h] # {}
    <3>1. CASE h \in HopsOf(a)
      BY <3>1 DEF StillFree, NoneFree
    <3>2. CASE h \notin HopsOf(a)
      BY <1>1, <3>2, LacksHere DEF Fresh
    <3> QED BY <3>1, <3>2
  <2> QED BY <1>2, <1>3, <1>6, <2>1 DEF Fresh
<1> QED BY <1>4, <1>5, <1>6

\* The check of the availability.
LEMMA AvailLearns == IInv /\ LInv /\ UpdateAvailRanges => LInv'
<1> SUFFICES ASSUME IInv, LInv, UpdateAvailRanges PROVE LInv'
  OBVIOUS
<1>1. pc = "avail" /\ UNCHANGED <<workflow, sug, man, manifest>>
  BY DEF UpdateAvailRanges, aggVars
<1>2. workflow \in Workflows /\ workflow.hops \subseteq Hop
  BY <1>1, Workflow DEF IInv, Placed
<1>3. AnyIsForPickers' /\ ReadIsInManifest'
  BY <1>1 DEF LInv, AnyIsForPickers, ReadIsInManifest, Imports, From
<1>4. CASE pc' \in {"avail", "round"} /\ UNCHANGED <<range, unavail>>
  BY <1>1, <1>4, HopsAside DEF Before, Asking, After, Giving
<1>5. ASSUME NEW a \in todo, NEW gone \in Lacks(a), StillFree(a, gone)
      PROVE  LInv'
  <2>1. \A h \in workflow.hops : range'[h] \subseteq range[h] /\ Fresh(h)'
    BY <1>1, <1>2, <1>5, StillFreeIsFresh DEF LInv, FreshWorkflow
  <2>2. KnownTags'
    <3>1. \A h \in Hop : range'[h] \subseteq range[h]
      BY <1>5 DEF StillFree, Narrowed
    <3> QED BY <1>1, <3>1 DEF LInv, KnownTags
  <2>3. pc' = "avail"
    BY <1>1, <1>5 DEF StillFree
  <2>4. FreshPicks'
    <3>1. \A h \in workflow.hops : ~Imports(h) /\ man[h] # NoTag /\ Unread(Owner[h]) => ~SupportsAny(Owner[h])
      BY <1>1 DEF LInv, FreshPicks, After, Giving
    <3> QED BY <1>1, <2>1, <3>1 DEF FreshPicks, Imports, From, Unread, HopsOf
  <2>5. FreshWorkflow' /\ FreshRequest' /\ FreshFailure'
    BY <1>1, <2>1, <2>3 DEF FreshWorkflow, FreshRequest, FreshFailure, Before, Asking, After
  <2> QED BY <1>3, <2>2, <2>4, <2>5 DEF LInv
<1>6. ASSUME NEW a \in todo, NEW gone \in Lacks(a), NotFree(a, gone)
      PROVE  LInv'
  <2>1. KnownTags'
    <3>1. \A h \in Hop : range'[h] \subseteq range[h]
      BY <1>6 DEF NotFree, Free
    <3> QED BY <1>1, <3>1 DEF LInv, KnownTags
  <2>2. pc' \in Giving
    BY <1>6 DEF NotFree, GiveUpWorkflow, Goto, Giving
  <2> QED BY <1>3, <2>1, <2>2, GivenUp
<1> QED BY <1>1, <1>4, <1>5, <1>6 DEF UpdateAvailRanges, CheckAvail, ListFails, Goto

\* The main loop and the launcher.
LEMMA LoopLearns ==
  IInv /\ LInv /\ (\/ ScsFails \/ LoopTimesOut \/ CallScs \/ Planned \/ UpdateAvailRanges
                   \/ CircuitFailed \/ StitchingFailed \/ EndPartiallyReserved) => LInv'
<1> SUFFICES ASSUME IInv, LInv,
                    \/ ScsFails \/ LoopTimesOut \/ CallScs \/ Planned \/ UpdateAvailRanges
                    \/ CircuitFailed \/ StitchingFailed \/ EndPartiallyReserved
             PROVE  LInv'
  OBVIOUS
<1>1. CASE ScsFails \/ LoopTimesOut \/ EndPartiallyReserved \/ Planned
  <2>1. /\ pc \in {"scs", "planned", "circuit", "failing"}
        /\ pc' \in {"failed", "avail"} /\ (pc' = "avail" => pc = "planned")
        /\ UNCHANGED <<workflow, sug, range, unavail, man, manifest>>
    BY <1>1 DEF ScsFails, LoopTimesOut, EndPartiallyReserved, Planned, Stop, Goto, aggVars, hopVars
  <2> QED BY <2>1, HopsAside DEF Before, Asking, After, Giving
<1>2. CASE CircuitFailed \/ StitchingFailed
  <2>1. PICK failing : DeleteAll(failing)
    BY <1>2 DEF CircuitFailed, StitchingFailed
  <2>2. /\ pc \in {"circuit", "failing"} /\ pc' \in Giving /\ UNCHANGED <<workflow, sug, range>>
    BY <1>2 DEF CircuitFailed, StitchingFailed, Stop, Goto, Giving
  <2>3. workflow.hops \subseteq Hop
    BY <2>2, Workflow DEF IInv, Placed
  <2>4. KnownTags' /\ ReadIsInManifest'
    BY <2>1, <2>2, <2>3, DeletionReads DEF LInv, DeleteAll
  <2>5. AnyIsForPickers'
    BY <2>2 DEF LInv, AnyIsForPickers, Imports, From
  <2> QED BY <2>2, <2>4, <2>5, GivenUp
<1> QED BY <1>1, <1>2, ScsLearns, AvailLearns

\* The launcher leaves the tags alone.
LEMMA LaunchLearns == LInv /\ Launch => LInv'
<1> SUFFICES ASSUME LInv, Launch PROVE LInv'
  OBVIOUS
<1>1. /\ pc \in {"round", "next", "pause"} /\ pc' \in {"done", "failing", "next", "round"}
      /\ UNCHANGED <<workflow, sug, range, unavail, man, manifest>>
  BY DEF Launch, AllComplete, NoneReady, StopBeforeTransit, ListReady, EndRound, TimedOut, Pause,
         Stop, Goto, UnchangedHere, aggVars, hopVars
<1> QED BY <1>1, HopsAside DEF Before, Asking, After, Giving

\* What copyVLANsAndDetectRedo leaves to ask for.
LEMMA CopyIsFresh ==
  ASSUME Plain, LInv, workflow \in Workflows, pc = "next", NEW a \in Aggs, CopyVLANs(a),
         UNCHANGED <<workflow, unavail, man>>
  PROVE  /\ KnownTags' /\ AnyIsForPickers'
         /\ \A h \in workflow.hops : ~Imports(h) /\ man[h] # NoTag => range'[h] = range[h]
         /\ ~AlreadyDone(a) => \A h \in HopsOf(a) : Fresh(h)'
<1>1. workflow.hops \subseteq Hop /\ HopsOf(a) \subseteq workflow.hops
  BY Workflow DEF HopsOf
<1>2. /\ \A h \in HopsOf(a) : Picks(h) => ~PickFatal(h) /\ SharedRange(h) # {}
      /\ \A h \in HopsOf(a) : Imports(h) => ~ImportClash(h) /\ ~ImportFatal(h)
      /\ range' = [h \in Hop |-> IF h \notin HopsOf(a) THEN range[h]
                                 ELSE IF Picks(h) THEN SharedRange(h)
                                 ELSE IF Imports(h) THEN NewRange(h)
                                 ELSE range[h]]
  BY DEF CopyVLANs
<1>3. PICK s \in [{h \in HopsOf(a) : Picks(h)} -> Tag \cup {AnyTag}] :
        /\ \A h \in DOMAIN s : s[h] \in PickSug(h) /\ ~PickClash(h, s[h])
        /\ sug' = [h \in Hop |-> IF h \in DOMAIN s THEN s[h]
                                 ELSE IF h \in HopsOf(a) /\ Imports(h) THEN Wants(h)
                                 ELSE sug[h]]
  BY DEF CopyVLANs
<1>4. AnyTag \notin Tag /\ NoTag # AnyTag
  BY CircuitAssumption
<1>5. \A h \in Hop : range[h] \subseteq Tag /\ man[h] \in Tag \cup {NoTag}
  BY DEF LInv, KnownTags
<1>6. \A h \in Hop : range'[h] \subseteq range[h]
  BY <1>2 DEF SharedRange, PickRange, NewRange
<1>7. KnownTags'
  BY <1>5, <1>6 DEF KnownTags
<1>8. AnyIsForPickers'
  <2>1. SUFFICES ASSUME NEW h \in workflow.hops
                 PROVE  sug'[h] = AnyTag <=> ~Imports(h) /\ SupportsAny(Owner[h])
    BY DEF AnyIsForPickers, Imports, From
  <2>2. sug[h] = AnyTag <=> ~Imports(h) /\ SupportsAny(Owner[h])
    BY DEF LInv, AnyIsForPickers
  <2>3. CASE h \in DOMAIN s
    <3>1. sug'[h] \in PickSug(h)
      BY <1>1, <1>3, <2>3
    <3> QED BY <1>1, <1>4, <1>5, <2>2, <3>1 DEF PickSug, PickRange
  <2>4. CASE h \in HopsOf(a) /\ Imports(h)
    <3>1. h \notin DOMAIN s
      BY <1>3, <2>4 DEF Picks
    <3>2. sug'[h] = Wants(h)
      BY <1>1, <1>3, <2>4, <3>1
    <3>3. Wants(h) # AnyTag
      BY <1>1, <1>4, <1>5, <2>4, Imported DEF Wants
    <3> QED BY <2>4, <3>2, <3>3
  <2> QED BY <1>1, <1>3, <2>2, <2>3, <2>4
<1>9. \A h \in workflow.hops : ~Imports(h) /\ man[h] # NoTag => range'[h] = range[h]
  BY <1>1, <1>2 DEF Picks
<1>10. ASSUME ~AlreadyDone(a), NEW h \in HopsOf(a)
       PROVE  Fresh(h)'
  <2>1. CASE Picks(h)
    <3>1. range'[h] = SharedRange(h) /\ SharedRange(h) # {}
      BY <1>1, <1>2, <2>1
    <3> QED BY <3>1 DEF SharedRange, PickRange, Fresh
  <2>2. CASE Imports(h)
    <3>1. range'[h] = NewRange(h) /\ Wants(h) \in NewRange(h)
      BY <1>1, <1>2, <2>2 DEF Picks, ImportFatal
    <3> QED BY <3>1 DEF NewRange, Fresh
  <2>3. CASE ~Imports(h) /\ man[h] # NoTag
    <3>1. Owner[h] = a /\ a \in manifest
      BY <1>1, <2>3 DEF LInv, ReadIsInManifest, HopsOf
    <3>2. \A g \in HopsOf(a) : ~Imports(g)
      BY <1>1, <2>3, AllOrNoneImport DEF HopsOf
    <3>3. Unread(a)
      BY <1>10, <3>1, <3>2 DEF AlreadyDone, MustDelete, Unread
    <3>4. Fresh(h)
      BY <1>1, <2>3, <3>1, <3>3 DEF LInv, FreshPicks, Giving, After
    <3> QED BY <1>1, <1>9, <2>3, <3>4 DEF Fresh
  <2> QED BY <2>1, <2>2, <2>3 DEF Picks
<1> QED BY <1>7, <1>8, <1>9, <1>10

\* Taking up an aggregate: there are tags to ask for at its hops, or it is complete.
LEMMA CopyLearns ==
  ASSUME Plain, IInv, LInv, NEW a \in todo, CopyFails(a) \/ Copy(a)
  PROVE  LInv'
<1>1. /\ pc = "next" /\ cur' = a /\ UNCHANGED <<workflow, man, manifest>>
  BY DEF CopyFails, Copy, Begin
<1>2. a \in Aggs /\ workflow \in Workflows
  BY <1>1 DEF IInv, Placed
<1>3. ReadIsInManifest'
  BY <1>1 DEF LInv, ReadIsInManifest
<1>4. CASE CopyFails(a)
  <2>1. pc' \in Giving /\ UNCHANGED <<sug, range>>
    BY <1>4 DEF CopyFails, Goto, Giving
  <2>2. KnownTags' /\ AnyIsForPickers'
    BY <1>1, <2>1 DEF LInv, KnownTags, AnyIsForPickers, Imports, From
  <2> QED BY <1>3, <2>1, <2>2, GivenUp
<1>5. CASE Copy(a)
  <2>1. CopyVLANs(a) /\ unavail' = unavail
    BY <1>5 DEF Copy
  <2>2. /\ KnownTags' /\ AnyIsForPickers'
        /\ \A h \in workflow.hops : ~Imports(h) /\ man[h] # NoTag => range'[h] = range[h]
        /\ ~AlreadyDone(a) => \A h \in HopsOf(a) : Fresh(h)'
    BY <1>1, <1>2, <2>1, CopyIsFresh
  <2>3. pc' \in {"redo", "look", "next"} /\ (pc' \in {"redo", "look"} => ~AlreadyDone(a))
    BY <1>5 DEF Copy, Goto, AlreadyDone
  <2>4. FreshPicks'
    <3>1. \A h \in workflow.hops :
            ~Imports(h) /\ man[h] # NoTag /\ Unread(Owner[h]) => Fresh(h) /\ ~SupportsAny(Owner[h])
      BY <1>1 DEF LInv, FreshPicks, Giving, After
    <3> QED BY <1>1, <2>1, <2>2, <3>1 DEF FreshPicks, Fresh, Imports, From, Unread, HopsOf
  <2>5. FreshRequest'
    BY <1>1, <2>2, <2>3 DEF FreshRequest, HopsOf, Before, Asking
  <2>6. FreshWorkflow' /\ FreshFailure'
    BY <2>3 DEF FreshWorkflow, FreshFailure, After
  <2> QED BY <1>3, <2>2, <2>4, <2>5, <2>6 DEF LInv
<1> QED BY <1>4, <1>5

\* A deletion takes tags of the manifest away, and nothing else.
LEMMA RedoLearns == IInv /\ LInv /\ Redo => LInv'
<1> SUFFICES ASSUME IInv, LInv, Redo PROVE LInv'
  OBVIOUS
<1>1. PICK failing : Delete({cur}, failing)
  BY DEF Redo
<1>2. /\ pc = "redo" /\ pc' \in {"look", "failing"}
      /\ UNCHANGED <<workflow, cur, sug, range, unavail>>
  BY DEF Redo, Goto
<1>3. workflow.hops \subseteq Hop
  BY <1>2, Workflow DEF IInv, Placed, Before
<1>4. /\ KnownTags' /\ ReadIsInManifest'
      /\ \A h \in workflow.hops :
           man'[h] # NoTag => man'[h] = man[h] /\ (Unread(Owner[h])' => Unread(Owner[h]))
  BY <1>1, <1>2, <1>3, DeletionReads DEF LInv
<1>5. AnyIsForPickers'
  BY <1>2 DEF LInv, AnyIsForPickers, Imports, From
<1>6. FreshPicks'
  <2>1. \A h \in workflow.hops :
          ~Imports(h) /\ man[h] # NoTag /\ Unread(Owner[h]) => Fresh(h) /\ ~SupportsAny(Owner[h])
    BY <1>2 DEF LInv, FreshPicks, Giving, After
  <2> QED BY <1>2, <1>4, <2>1 DEF FreshPicks, Fresh, Imports, From
<1>7. FreshRequest'
  BY <1>2 DEF LInv, FreshRequest, Fresh, HopsOf, Before, Asking
<1>8. FreshWorkflow' /\ FreshFailure'
  BY <1>2 DEF FreshWorkflow, FreshFailure, After
<1> QED BY <1>4, <1>5, <1>6, <1>7, <1>8 DEF LInv

\* A hop at which not all is gone has a tag left.
LEMMA FreeIsFresh ==
  ASSUME NEW gone, Free(gone), NEW h \in Hop, Fresh(h),
         ~(range[h] \subseteq gone[h]) \/ gone[h] = {}
  PROVE  Fresh(h)'
BY DEF Free, Fresh

\* From the last look at the tags to the request, which asks for free ones.
LEMMA RequestLearns ==
  IInv /\ LInv /\ (Look \/ NotSane \/ Request) => LInv'
<1> SUFFICES ASSUME IInv, LInv, Look \/ NotSane \/ Request PROVE LInv'
  OBVIOUS
<1>1. pc \in {"look", "request"} /\ UNCHANGED <<workflow, cur, bad, sug, man, manifest>>
  BY DEF Look, NotSane, Request, UnchangedHere, aggVars, hopVars
<1>2. workflow \in Workflows /\ workflow.hops \subseteq Hop
  BY <1>1, Workflow DEF IInv, Placed, Before
<1>3. CASE /\ pc' \in {"request", "failing", "ask"} /\ UNCHANGED <<range, unavail>>
           /\ pc' = "ask" => \A h \in HopsOf(cur) : Sane(h)
  BY <1>1, <1>3, HopsAside DEF Before, Asking, After, Giving
<1>4. ASSUME NEW gone \in Lacks(cur), Free(gone), pc = "look",
             IF NoneFree(cur, gone) THEN pc' = "circuit" ELSE pc' = "request"
      PROVE  LInv'
  <2>1. KnownTags'
    <3>1. \A h \in Hop : range'[h] \subseteq range[h]
      BY <1>4 DEF Free
    <3> QED BY <1>1, <3>1 DEF LInv, KnownTags
  <2>2. AnyIsForPickers' /\ ReadIsInManifest'
    BY <1>1 DEF LInv, AnyIsForPickers, ReadIsInManifest, Imports, From
  <2>3. CASE NoneFree(cur, gone)
    BY <1>4, <2>1, <2>2, <2>3, GivenUp DEF Giving
  <2>4. CASE ~NoneFree(cur, gone)
    <3>1. ASSUME NEW h \in workflow.hops, Fresh(h) PROVE Fresh(h)'
      <4>1. CASE h \in HopsOf(cur)
        BY <1>2, <1>4, <2>4, <3>1, <4>1, FreeIsFresh DEF NoneFree
      <4>2. CASE h \notin HopsOf(cur)
        BY <1>2, <1>4, <3>1, <4>2, FreeIsFresh, LacksHere
      <4> QED BY <4>1, <4>2
    <3>2. FreshPicks'
      <4>1. \A h \in workflow.hops :
              ~Imports(h) /\ man[h] # NoTag /\ Unread(Owner[h]) => Fresh(h) /\ ~SupportsAny(Owner[h])
        BY <1>4 DEF LInv, FreshPicks, Giving, After
      <4> QED BY <1>1, <3>1, <4>1 DEF FreshPicks, Imports, From, Unread, HopsOf
    <3>3. FreshRequest'
      BY <1>1, <1>4, <2>4, <3>1 DEF LInv, FreshRequest, HopsOf, Before, Asking
    <3>4. FreshWorkflow' /\ FreshFailure'
      BY <1>4, <2>4 DEF FreshWorkflow, FreshFailure, After
    <3> QED BY <2>1, <2>2, <3>2, <3>3, <3>4 DEF LInv
  <2> QED BY <2>3, <2>4
<1>5. CASE Look
  BY <1>3, <1>4, <1>5 DEF Look, LookAgain, Goto
<1>6. CASE NotSane \/ Request
  BY <1>3, <1>6 DEF NotSane, Request, Goto, UnchangedHere, hopVars
<1> QED BY <1>5, <1>6

\* Any answer that is not a manifest, and the wait for a DCN aggregate, leave the
\* tags alone.
LEMMA AnswerLearns ==
  IInv /\ LInv /\ (\/ Reserved \/ VlanError \/ Fatal \/ FromThePathService \/ AskAgain \/ BrokenAnswer
                   \/ PollFails \/ PollReady \/ NotReadyDeleteFails \/ NotReady) => LInv'
<1> SUFFICES ASSUME IInv, LInv,
                    \/ Reserved \/ VlanError \/ Fatal \/ FromThePathService \/ AskAgain \/ BrokenAnswer
                    \/ PollFails \/ PollReady \/ NotReadyDeleteFails \/ NotReady
             PROVE  LInv'
  OBVIOUS
<1>1. pc \in {"ask", "poll"} /\ UNCHANGED <<workflow, cur, sug, range, unavail, man, manifest>>
  BY DEF Reserved, VlanError, Fatal, FromThePathService, AskAgain, BrokenAnswer, PollFails,
         PollReady, NotReadyDeleteFails, NotReady, UnchangedAnswer, hopVars
<1>2. pc' \in {"poll", "manifest", "circuit", "failing", "pause"}
      \/ (pc' \in After /\ bad' \in HopsOf(cur) \cup {NoHop})
  BY DEF Reserved, VlanError, Fatal, FromThePathService, AskAgain, BrokenAnswer, PollFails,
         PollReady, NotReadyDeleteFails, NotReady, Goto, Retry, After
<1> QED BY <1>1, <1>2, HopsAside DEF Before, Asking, After, Giving

\* What of a manifest is read is of hops of the aggregate that was asked.
LEMMA TagsAreRead ==
  ASSUME KnownTags, ReadIsInManifest, workflow \in Workflows, UNCHANGED <<workflow, range>>,
         NEW S \in SUBSET HopsOf(cur), NEW got \in [S -> Tag], TakeTags(S, got),
         manifest' = manifest \cup {cur}
  PROVE  /\ KnownTags' /\ ReadIsInManifest'
         /\ \A h \in Hop \ S : man'[h] = man[h] /\ unavail'[h] = unavail[h]
<1>1. /\ man' = [h \in Hop |-> IF h \in S THEN got[h] ELSE man[h]]
      /\ unavail' = [h \in Hop |-> IF h \in S /\ sug[h] \notin {AnyTag, got[h]} THEN unavail[h] \cup {sug[h]}
                                                                                ELSE unavail[h]]
  BY DEF TakeTags, Refused
<1>2. KnownTags'
  BY <1>1 DEF KnownTags
<1>3. ReadIsInManifest'
  BY <1>1, Workflow DEF ReadIsInManifest, HopsOf
<1> QED BY <1>1, <1>2, <1>3

\* Reading a manifest: all of it, or up to a hop without a tag, of which nothing
\* is learned.
LEMMA ManifestLearns == IInv /\ LInv /\ (Manifest \/ NoTagGiven \/ BrokenManifest) => LInv'
<1> SUFFICES ASSUME IInv, LInv, Manifest \/ NoTagGiven \/ BrokenManifest PROVE LInv'
  OBVIOUS
<1>1. /\ pc = "manifest" /\ manifest' = manifest \cup {cur}
      /\ UNCHANGED <<workflow, cur, sug, range>>
  BY DEF Manifest, NoTagGiven, BrokenManifest, NotRead
<1>2. workflow \in Workflows /\ workflow.hops \subseteq Hop /\ KnownTags /\ ReadIsInManifest
  BY <1>1, Workflow DEF IInv, Placed, LInv
<1>3. AnyIsForPickers'
  BY <1>1 DEF LInv, AnyIsForPickers, Imports, From
<1>4. \A h \in workflow.hops :
        ~Imports(h) /\ man[h] # NoTag /\ Unread(Owner[h]) => Fresh(h) /\ ~SupportsAny(Owner[h])
  BY <1>1 DEF LInv, FreshPicks, Giving, After
<1>5. CASE Manifest
  <2>1. PICK got \in Grants(cur) : TakeTags(HopsOf(cur), got)
    BY <1>5 DEF Manifest
  <2>2. got \in [HopsOf(cur) -> Tag]
    BY <2>1 DEF Grants
  <2>3. /\ KnownTags' /\ ReadIsInManifest'
        /\ \A h \in Hop \ HopsOf(cur) : man'[h] = man[h] /\ unavail'[h] = unavail[h]
    BY <1>1, <1>2, <2>1, <2>2, TagsAreRead
  <2>4. pc' \in {"failing", "next"}
    BY <1>5 DEF Manifest, Goto
  <2>5. CASE pc' = "failing"
    BY <1>3, <2>3, <2>5, GivenUp DEF Giving
  <2>6. CASE pc' = "next"
    <3>1. ~Unread(cur)'
      <4>1. \A h \in HopsOf(cur) : man'[h] = got[h]
        BY <1>2, <2>1 DEF TakeTags, HopsOf
      <4>2. NoTag \notin Tag
        BY CircuitAssumption
      <4> QED BY <1>1, <2>2, <4>1, <4>2 DEF Unread, HopsOf
    <3>2. FreshPicks'
      <4>1. SUFFICES ASSUME NEW h \in workflow.hops, ~Imports(h), man'[h] # NoTag, Unread(Owner[h])'
                     PROVE  Fresh(h)' /\ ~SupportsAny(Owner[h])
        BY <1>1 DEF FreshPicks, Imports, From
      <4>2. Owner[h] # cur
        BY <1>1, <3>1, <4>1
      <4>3. \A g \in HopsOf(Owner[h]) : man'[g] = man[g]
        BY <1>2, <2>3, <4>2 DEF HopsOf
      <4>4. Unread(Owner[h]) /\ man[h] # NoTag /\ unavail'[h] = unavail[h]
        BY <1>1, <1>2, <2>3, <4>1, <4>2, <4>3 DEF Unread, HopsOf
      <4> QED BY <1>1, <1>4, <4>1, <4>4 DEF Fresh
    <3>3. FreshWorkflow' /\ FreshRequest' /\ FreshFailure'
      BY <2>6 DEF FreshWorkflow, FreshRequest, FreshFailure, Before, Asking, After
    <3> QED BY <1>3, <2>3, <3>2, <3>3 DEF LInv
  <2> QED BY <2>4, <2>5, <2>6
<1>6. CASE NoTagGiven \/ BrokenManifest
  <2>1. PICK k \in HopsOf(cur) : /\ ReadUpTo(k)
                                 /\ pc' = "failing" \/ (pc' = "unavail" /\ bad' = k)
    BY <1>6 DEF NoTagGiven, BrokenManifest, Goto
  <2>2. PICK S \in SUBSET (HopsOf(cur) \ {k}) : \E got \in [S -> Tag] : TakeTags(S, got)
    BY <2>1 DEF ReadUpTo
  <2>3. PICK got \in [S -> Tag] : TakeTags(S, got)
    BY <2>2
  <2>4. /\ KnownTags' /\ ReadIsInManifest'
        /\ \A h \in Hop \ S : man'[h] = man[h] /\ unavail'[h] = unavail[h]
    BY <1>1, <1>2, <2>3, TagsAreRead
  <2>5. CASE pc' = "failing"
    BY <1>3, <2>4, <2>5, GivenUp DEF Giving
  <2>6. CASE pc' = "unavail" /\ bad' = k
    <3>1. FreshPicks'
      <4>1. SUFFICES ASSUME NEW h \in workflow.hops, ~Imports(h), man'[h] # NoTag, Unread(Owner[h])',
                            Owner[h] # cur
                     PROVE  Fresh(h)' /\ ~SupportsAny(Owner[h])
        BY <1>1, <2>6 DEF FreshPicks, Imports, From, After
      <4>2. \A g \in HopsOf(Owner[h]) : man'[g] = man[g]
        BY <1>2, <2>4, <4>1 DEF HopsOf
      <4>3. Unread(Owner[h]) /\ man[h] # NoTag /\ unavail'[h] = unavail[h]
        BY <1>1, <1>2, <2>4, <4>1, <4>2 DEF Unread, HopsOf
      <4> QED BY <1>1, <1>4, <4>1, <4>3 DEF Fresh
    <3>2. FreshFailure'
      <4>1. Asks(k) /\ k \in Hop \ S /\ k # NoHop
        BY <1>1, <1>2, CircuitAssumption DEF LInv, FreshRequest, Asking, HopsOf
      <4>2. Asks(k)'
        BY <1>1, <2>4, <4>1 DEF Asks, Fresh
      <4> QED BY <1>1, <2>6, <4>1, <4>2 DEF FreshFailure, HopsOf
    <3>3. FreshWorkflow' /\ FreshRequest'
      BY <2>6 DEF FreshWorkflow, FreshRequest, Before, Asking
    <3> QED BY <1>3, <2>4, <3>1, <3>2, <3>3 DEF LInv
  <2> QED BY <2>1, <2>5, <2>6
<1> QED BY <1>5, <1>6

\* The hop that an error is about, if one is known, is one of the aggregate's, and
\* free tags were asked for there, or else at all its hops.
LEMMA FailedHopIsHere ==
  ASSUME IInv, LInv, pc \in After
  PROVE  LET f == FailedHop(cur, bad) IN
           /\ f \in HopsOf(cur) \cup {NoHop}
           /\ f \in HopsOf(cur) => f \in workflow.hops /\ Owner[f] = cur /\ f # NoHop /\ Asks(f)
           /\ f = NoHop => \A h \in HopsOf(cur) : Asks(h)
<1> DEFINE f == FailedHop(cur, bad)
<1>1. /\ workflow \in Workflows /\ workflow.hops \subseteq Hop /\ NoHop \notin Hop
      /\ HopsOf(cur) \subseteq workflow.hops /\ HopsOf(cur) # {}
  BY Workflow, SomeHop, CircuitAssumption DEF IInv, Placed, HopsOf, After
<1>2. /\ bad \in HopsOf(cur) \cup {NoHop}
      /\ \A h \in HopsOf(cur) : bad \in {h, NoHop} => Asks(h)
  BY DEF LInv, FreshFailure
<1>3. f \in HopsOf(cur) \/ f = bad
  BY <1>1 DEF FailedHop
<1>4. f = bad \/ bad = NoHop
  BY DEF FailedHop
<1> QED BY <1>1, <1>2, <1>3, <1>4 DEF HopsOf

\* Case one of handleVlanUnavailable: the source and the hops on the way get new
\* ranges; a source that is to pick any tag does not pick a certain one.
LEMMA RetryChainLearns ==
  ASSUME Plain, IInv, LInv, pc \in After, UNCHANGED <<workflow, cur, bad>>,
         NEW f \in HopsOf(cur), f # NoHop, SourceWasAny(f), RetryChain(cur, f)
  PROVE  LInv'
<1>1. /\ workflow \in Workflows /\ workflow.hops \subseteq Hop
      /\ f \in workflow.hops /\ Owner[f] = cur /\ Imports(f) /\ sug[Source(f)] = AnyTag
  BY Workflow DEF IInv, Placed, HopsOf, After, SourceWasAny
<1>2. AnyTag \notin Tag /\ ScsRange \in [Hop -> SUBSET Tag]
  BY CircuitAssumption
<1>3. Source(f) \in workflow.hops /\ Spread(f) \subseteq workflow.hops
  BY <1>1, OneSource, SpreadIs
<1>4. \A h \in Hop : RetryRange(f, h) \subseteq Tag
  BY <1>2 DEF LInv, KnownTags, RetryRange
<1>5. CASE pc' = "circuit" /\ UNCHANGED <<manifest, man, sug, range>>
  BY <1>5, GivenUp DEF LInv, KnownTags, AnyIsForPickers, ReadIsInManifest, Imports, From, Giving
<1>6. CASE /\ unavail' = RetryUnavail(f, Spread(f))
           /\ range' = [h \in Hop |-> IF h \in Spread(f) THEN RetryRange(f, h) ELSE range[h]]
           /\ \E s \in [Spread(f) -> Tag \cup {AnyTag}] :
                /\ \A h \in Spread(f) :
                     s[h] \in NextSug(f, h, [g \in Hop |-> IF g \in Spread(f) THEN s[g] ELSE sug[g]])
                /\ sug' = [h \in Hop |-> IF h \in Spread(f) THEN s[h] ELSE sug[h]]
           /\ DeleteUpstream(cur, f)
  <2>1. pc' \in {"pause", "failing"} /\ \E D, failing : Delete(D, failing)
    BY <1>6 DEF DeleteUpstream, Retry, Goto
  <2>2. /\ KnownTags' /\ ReadIsInManifest'
        /\ \A h \in workflow.hops :
             man'[h] # NoTag => man'[h] = man[h] /\ (Unread(Owner[h])' => Unread(Owner[h]))
    <3>1. \A h \in Hop : range'[h] \subseteq Tag
      BY <1>4, <1>6 DEF LInv, KnownTags
    <3> QED BY <1>1, <2>1, <3>1, DeletionReads DEF LInv
  <2>3. AnyIsForPickers'
    <3>1. PICK s \in [Spread(f) -> Tag \cup {AnyTag}] :
            /\ \A h \in Spread(f) :
                 s[h] \in NextSug(f, h, [g \in Hop |-> IF g \in Spread(f) THEN s[g] ELSE sug[g]])
            /\ sug' = [h \in Hop |-> IF h \in Spread(f) THEN s[h] ELSE sug[h]]
      BY <1>6
    <3>2. ASSUME NEW h \in Spread(f)
          PROVE  s[h] = AnyTag <=> ~Imports(h) /\ SupportsAny(Owner[h])
      <4>1. sug[h] = AnyTag <=> ~Imports(h) /\ SupportsAny(Owner[h])
        BY <1>3, <3>2 DEF LInv, AnyIsForPickers
      <4>2. RetryRange(f, f) \subseteq Tag /\ RetryRange(f, h) \subseteq Tag
        BY <1>1, <1>3, <1>4, <3>2
      <4>3. \/ h = f /\ s[h] \in RetryRange(f, f)
            \/ s[h] = sug[h]
            \/ Imports(h) /\ s[h] \in Tag
            \/ sug[h] # AnyTag /\ s[h] \in RetryRange(f, h)
        BY <3>1, <3>2 DEF NextSug
      <4> QED BY <1>1, <1>2, <4>1, <4>2, <4>3
    <3>3. \A h \in workflow.hops : sug'[h] = AnyTag <=> ~Imports(h) /\ SupportsAny(Owner[h])
      BY <1>1, <3>1, <3>2 DEF LInv, AnyIsForPickers
    <3> QED BY <3>3 DEF AnyIsForPickers, Imports, From
  <2>4. FreshPicks'
    <3>1. SUFFICES ASSUME NEW h \in workflow.hops, ~Imports(h), man'[h] # NoTag, Unread(Owner[h])'
                   PROVE  Fresh(h)' /\ ~SupportsAny(Owner[h])
      BY DEF FreshPicks, Imports, From
    <3>2. man[h] # NoTag /\ Unread(Owner[h])
      BY <2>2, <3>1
    <3>3. Owner[h] # cur
      BY <1>1, <3>1, AllOrNoneImport
    <3>4. Fresh(h) /\ ~SupportsAny(Owner[h])
      BY <3>1, <3>2, <3>3 DEF LInv, FreshPicks, After, Giving
    <3>5. h \notin Spread(f)
      <4>1. SupportsAny(Owner[Source(f)])
        BY <1>1, <1>3 DEF LInv, AnyIsForPickers
      <4> QED BY <1>1, <3>1, <3>4, <4>1, SpreadIs
    <3>6. range'[h] = range[h] /\ unavail'[h] = unavail[h]
      BY <1>1, <1>6, <3>5 DEF RetryUnavail
    <3> QED BY <3>4, <3>6 DEF Fresh
  <2>5. FreshWorkflow' /\ FreshRequest' /\ FreshFailure'
    BY <2>1 DEF FreshWorkflow, FreshRequest, FreshFailure, Before, Asking, After
  <2> QED BY <2>2, <2>3, <2>4, <2>5 DEF LInv
<1> QED BY <1>5, <1>6 DEF RetryChain, Goto

\* An aggregate is asked for another tag only where all its hops pick theirs.
LEMMA NoneImportsHere ==
  ASSUME Translates = {}, workflow \in Workflows, NEW f \in HopsOf(cur) \cup {NoHop}, RedoHere(cur, f)
  PROVE  \A h \in HopsOf(cur) : ~Imports(h)
<1>1. SUFFICES ASSUME NEW h \in HopsOf(cur), Imports(h) PROVE FALSE
  OBVIOUS
<1>2. ~NeedsSource(f, h)
  BY <1>1 DEF RedoHere
<1>3. f # NoHop /\ From(h) = f
  BY <1>1, <1>2 DEF NeedsSource
<1>4. h \in workflow.hops /\ Owner[From(h)] # Owner[h]
  BY <1>1, Imported DEF HopsOf
<1> QED BY <1>1, <1>3, <1>4 DEF HopsOf

\* Case two: no hop of the aggregate imports its tag, none is asked for any, and
\* each has a tag left that was not found unavailable.
LEMMA RedoHereLearns ==
  ASSUME Plain, IInv, LInv, pc \in After, UNCHANGED <<workflow, cur, bad, manifest, man>>,
         NEW f \in HopsOf(cur) \cup {NoHop}, RedoHere(cur, f)
  PROVE  LInv'
<1>1. /\ workflow \in Workflows /\ workflow.hops \subseteq Hop /\ NoHop \notin Hop
      /\ HopsOf(cur) \subseteq workflow.hops /\ HopsOf(cur) # {} /\ Translates = {}
  BY Workflow, SomeHop, CircuitAssumption DEF IInv, Placed, HopsOf, After, Plain
<1>2. FailedHops(cur, f) = HopsOf(cur)
  BY <1>1 DEF FailedHops, OneTag
<1>3. \A h \in HopsOf(cur) : ~Imports(h)
  BY <1>1, NoneImportsHere
<1>4. ~SupportsAny(cur)
  <2>1. PICK h \in HopsOf(cur) : TRUE
    BY <1>1
  <2>2. sug[h] # AnyTag
    BY <1>2, <2>1 DEF RedoHere, NothingLeft
  <2> QED BY <1>1, <1>3, <2>1, <2>2 DEF LInv, AnyIsForPickers, HopsOf
<1>5. CASE pc' = "circuit" /\ UNCHANGED <<sug, range>>
  BY <1>5, GivenUp DEF LInv, KnownTags, AnyIsForPickers, ReadIsInManifest, Imports, From, Giving
<1>6. CASE /\ \A h \in FailedHops(cur, f) : Remaining(cur, f, h) # {}
           /\ \E s \in NewTags(cur, f) :
                sug' = [h \in Hop |-> IF h \in DOMAIN s THEN s[h] ELSE sug[h]]
           /\ range' = [h \in Hop |->
                          IF \E g \in FailedHops(cur, f) : h \in HopsOf(cur) /\ (g = h \/ OneTag(g, h))
                          THEN Remaining(cur, f, h) ELSE range[h]]
           /\ pc' = "pause"
  <2>1. unavail' = ExcludeTogether(cur, f)
    BY DEF RedoHere
  <2>2. \A h \in HopsOf(cur) : range'[h] = Remaining(cur, f, h) /\ range'[h] # {}
    BY <1>1, <1>2, <1>6
  <2>3. \A h \in Hop \ HopsOf(cur) : range'[h] = range[h] /\ unavail'[h] = unavail[h]
    BY <1>6, <2>1 DEF ExcludeTogether
  <2>4. KnownTags' /\ ReadIsInManifest'
    <3>1. \A h \in Hop : range'[h] \subseteq range[h]
      BY <2>2, <2>3 DEF Remaining
    <3> QED BY <3>1 DEF LInv, KnownTags, ReadIsInManifest
  <2>5. AnyIsForPickers'
    <3>1. PICK s \in NewTags(cur, f) : sug' = [h \in Hop |-> IF h \in DOMAIN s THEN s[h] ELSE sug[h]]
      BY <1>6
    <3>2. \A h \in HopsOf(cur) : NextTags(cur, f, h) \subseteq Tag
      BY <1>1, <1>4 DEF NextTags, Remaining, LInv, KnownTags
    <3>3. DOMAIN s = HopsOf(cur) /\ \A h \in HopsOf(cur) : s[h] \in Tag
      <4>1. PICK first \in HopsOf(cur) :
              /\ s[first] \in NextTags(cur, f, first)
              /\ \A h \in HopsOf(cur) \ {first} :
                   IF s[first] # AnyTag /\ h \notin Translates THEN s[h] = s[first]
                                                         ELSE s[h] \in NextTags(cur, f, h)
        BY <1>2, <3>1 DEF NewTags
      <4>2. DOMAIN s = HopsOf(cur)
        BY <1>2, <3>1 DEF NewTags
      <4> QED BY <3>2, <4>1, <4>2
    <3>4. \A h \in workflow.hops : sug'[h] = AnyTag <=> ~Imports(h) /\ SupportsAny(Owner[h])
      BY <1>1, <1>4, <3>1, <3>3, CircuitAssumption DEF LInv, AnyIsForPickers, HopsOf
    <3> QED BY <3>4 DEF AnyIsForPickers, Imports, From
  <2>6. FreshPicks'
    <3>1. SUFFICES ASSUME NEW h \in workflow.hops, ~Imports(h), man[h] # NoTag, Unread(Owner[h])
                   PROVE  Fresh(h)' /\ ~SupportsAny(Owner[h])
      BY DEF FreshPicks, Imports, From, Unread, HopsOf
    <3>2. CASE Owner[h] = cur
      <4>1. h \in HopsOf(cur)
        BY <3>2 DEF HopsOf
      <4>2. range'[h] # {} /\ range'[h] \cap unavail'[h] = {}
        BY <2>1, <2>2, <4>1 DEF Remaining
      <4> QED BY <1>4, <3>2, <4>2 DEF Fresh
    <3>3. CASE Owner[h] # cur
      <4>1. Fresh(h) /\ ~SupportsAny(Owner[h])
        BY <3>1, <3>3 DEF LInv, FreshPicks, After, Giving
      <4>2. range'[h] = range[h] /\ unavail'[h] = unavail[h]
        BY <1>1, <2>3, <3>3 DEF HopsOf
      <4> QED BY <4>1, <4>2 DEF Fresh
    <3> QED BY <3>2, <3>3
  <2>7. FreshWorkflow' /\ FreshRequest' /\ FreshFailure'
    BY <1>6 DEF FreshWorkflow, FreshRequest, FreshFailure, Before, Asking, After
  <2> QED BY <2>4, <2>5, <2>6, <2>7 DEF LInv
<1> QED BY <1>5, <1>6 DEF RedoHere, Goto, Retry

\* However a tag that is not available is dealt with.
LEMMA UnavailableLearns ==
  ASSUME Plain, IInv, LInv, Unavailable
  PROVE  LInv'
<1> DEFINE f == FailedHop(cur, bad)
<1>1. pc \in After /\ UNCHANGED <<workflow, cur, bad>>
  BY DEF Unavailable, After
<1>2. f \in HopsOf(cur) \cup {NoHop}
  BY <1>1, FailedHopIsHere
<1>3. \/ SourceWasAny(f) /\ RetryChain(cur, f)
      \/ SourceWasAny(f) /\ RetryChainTooOften(cur, f)
      \/ RetryHere(cur, f)
  BY DEF Unavailable, HandleVlanUnavailable
<1> HIDE DEF f
<1>4. CASE SourceWasAny(f) /\ RetryChain(cur, f)
  <2>1. f # NoHop
    BY <1>4 DEF SourceWasAny
  <2> QED BY <1>1, <1>2, <1>4, <2>1, RetryChainLearns
<1>5. CASE /\ pc' \in {"circuit", "failing"}
           /\ UNCHANGED <<manifest, man, sug, range>>
  BY <1>1, <1>5, GivenUp DEF LInv, KnownTags, AnyIsForPickers, ReadIsInManifest, Imports, From, Giving
<1>6. CASE RetryChainTooOften(cur, f)
  BY <1>5, <1>6 DEF RetryChainTooOften, Goto
<1>7. CASE RetryHere(cur, f)
  <2>1. UNCHANGED <<manifest, man>>
    BY <1>7 DEF RetryHere
  <2>2. CASE CannotRedo(cur, f)
    BY <1>5, <2>1, <2>2 DEF CannotRedo, Goto
  <2>3. CASE RedoHere(cur, f)
    BY <1>1, <1>2, <2>1, <2>3, RedoHereLearns
  <2> QED BY <1>7, <2>2, <2>3 DEF RetryHere
<1> QED BY <1>3, <1>4, <1>6, <1>7

\* Every step of a plain circuit.
LEMMA StepLearns ==
  ASSUME Plain, IInv, LInv, [Next]_vars
  PROVE  LInv'
<1>1. CASE \/ ScsFails \/ LoopTimesOut \/ CallScs \/ Planned \/ UpdateAvailRanges
           \/ CircuitFailed \/ StitchingFailed \/ EndPartiallyReserved
  BY <1>1, LoopLearns
<1>2. CASE Launch
  BY <1>2, LaunchLearns
<1>3. CASE Prepare
  BY <1>3, CopyLearns, RedoLearns, RequestLearns DEF Prepare
<1>4. CASE Reserve
  BY <1>4, AnswerLearns, ManifestLearns, UnavailableLearns DEF Reserve
<1>5. CASE UNCHANGED vars
  <2>1. UNCHANGED <<pc, workflow, cur, bad, manifest, sug, range, man, unavail>>
    BY <1>5 DEF vars, aggVars, hopVars
  <2>2. KnownTags' /\ AnyIsForPickers' /\ ReadIsInManifest' /\ FreshWorkflow'
    BY <2>1 DEF LInv, KnownTags, AnyIsForPickers, ReadIsInManifest, FreshWorkflow, Fresh, Imports, From
  <2>3. FreshPicks'
    BY <2>1 DEF LInv, FreshPicks, Fresh, Unread, HopsOf, Imports, From
  <2>4. FreshRequest' /\ FreshFailure'
    BY <2>1 DEF LInv, FreshRequest, FreshFailure, Fresh, Asks, HopsOf
  <2> QED BY <2>2, <2>3, <2>4 DEF LInv
<1> QED BY <1>1, <1>2, <1>3, <1>4, <1>5 DEF Next

LEMMA InitLearns == Init => LInv
<1> SUFFICES ASSUME Init PROVE LInv
  OBVIOUS
<1>1. /\ pc = "scs" /\ workflow.hops = {}
      /\ range = [h \in Hop |-> {}] /\ man = [h \in Hop |-> NoTag]
  BY DEF Init, NoWorkflow
<1> QED BY <1>1 DEF LInv, KnownTags, AnyIsForPickers, ReadIsInManifest, FreshWorkflow, FreshPicks,
                    FreshRequest, FreshFailure, Giving, Before, Asking, After

\* In a plain circuit there are free tags left wherever the stitcher asks.
THEOREM PlainCircuitsLearn ==
  ASSUME Plain
  PROVE  Spec => []LInv
<1>1. IInv /\ LInv /\ [Next]_vars => LInv'
  BY StepLearns
<1> QED BY <1>1, InitLearns, Inductive, PTL DEF Spec

\* A check that finds no tag free for a hop, or none that suits the hops above.
LEMMA LackTeaches ==
  ASSUME NEW a \in Aggs, NEW gone \in Lacks(a), workflow \in Workflows, \A h \in HopsOf(a) : Fresh(h),
         NoneFree(a, gone) \/ Changes(gone),
         \A h \in Hop : unavail[h] \cup (gone[h] \cap range[h]) \subseteq unavail'[h]
  PROVE  unavail' # unavail
<1>1. HopsOf(a) \subseteq Hop
  BY Workflow DEF HopsOf
<1>2. \E h \in HopsOf(a) : gone[h] \cap range[h] # {}
  <2>1. CASE NoneFree(a, gone)
    BY <2>1 DEF NoneFree, Fresh
  <2>2. CASE Changes(gone)
    BY <2>2, LacksHere DEF Changes
  <2> QED BY <2>1, <2>2
<1> QED BY <1>1, <1>2 DEF Fresh

\* Of a hop that the failure is about, a tag is marked that was not before.
LEMMA FailureMarks ==
  ASSUME IInv, LInv, pc \in After
  PROVE  \E h \in HopsOf(cur) : h \in Hop /\ ~(MarkFailed(cur, FailedHop(cur, bad))[h] \subseteq unavail[h])
<1> DEFINE f == FailedHop(cur, bad)
<1>1. HopsOf(cur) # {} /\ HopsOf(cur) \subseteq Hop
  BY Workflow, SomeHop DEF IInv, Placed, HopsOf, After
<1>2. PICK h \in HopsOf(cur) : h \in FailedHops(cur, f) /\ Asks(h)
  <2>1. /\ f \in HopsOf(cur) \cup {NoHop}
        /\ f \in HopsOf(cur) => f # NoHop /\ Asks(f)
        /\ f = NoHop => \A h \in HopsOf(cur) : Asks(h)
    BY FailedHopIsHere
  <2> HIDE DEF f
  <2> QED BY <1>1, <2>1 DEF FailedHops
<1> HIDE DEF f
<1>3. MarkFailed(cur, f)[h] = unavail[h] \cup (IF sug[h] = AnyTag THEN range[h] ELSE {sug[h]})
  BY <1>1, <1>2 DEF MarkFailed
<1>4. ~(MarkFailed(cur, f)[h] \subseteq unavail[h])
  BY <1>3, <1>2 DEF Asks, Fresh
<1> QED BY <1>1, <1>4 DEF f

\* What handleVlanUnavailable leaves behind when it gives up the circuit.
LEMMA UnavailableTeaches ==
  ASSUME IInv, LInv, Unavailable, pc' = "circuit"
  PROVE  unavail' # unavail
<1> DEFINE f == FailedHop(cur, bad)
<1>1. pc \in After
  BY DEF Unavailable, After
<1>2. PICK h \in HopsOf(cur) : h \in Hop /\ ~(MarkFailed(cur, f)[h] \subseteq unavail[h])
  BY <1>1, FailureMarks
<1>3. /\ f \in HopsOf(cur) \cup {NoHop}
      /\ f \in HopsOf(cur) => f \in workflow.hops /\ Asks(f)
  BY <1>1, FailedHopIsHere
<1>4. \/ SourceWasAny(f) /\ RetryChain(cur, f)
      \/ SourceWasAny(f) /\ RetryChainTooOften(cur, f)
      \/ CannotRedo(cur, f) \/ RedoHere(cur, f)
  BY DEF Unavailable, HandleVlanUnavailable, RetryHere
<1>5. workflow.hops \subseteq Hop
  BY <1>1, Workflow DEF IInv, Placed, After
<1> HIDE DEF f
<1>6. ASSUME SourceWasAny(f), NEW S, f \in S, unavail' = RetryUnavail(f, S)
      PROVE  unavail' # unavail
  <2>1. f \in workflow.hops /\ f \in Hop /\ Imports(f) /\ Asks(f)
    BY <1>3, <1>5, <1>6 DEF SourceWasAny
  <2>2. sug[f] # AnyTag
    BY <2>1 DEF LInv, AnyIsForPickers
  <2>3. sug[f] \in unavail'[f] /\ sug[f] \notin unavail[f]
    BY <1>6, <2>1, <2>2 DEF RetryUnavail, Asks, Fresh
  <2> QED BY <2>3
<1>7. CASE SourceWasAny(f) /\ RetryChain(cur, f)
  <2>1. ~DeleteUpstream(cur, f)
    BY DEF DeleteUpstream, Retry, Goto
  <2>2. \E S \in SUBSET Spread(f) : {f, Source(f)} \subseteq S /\ unavail' = RetryUnavail(f, S)
    BY <1>7, <2>1 DEF RetryChain
  <2> QED BY <1>6, <1>7, <2>2
<1>8. CASE SourceWasAny(f) /\ RetryChainTooOften(cur, f)
  BY <1>6, <1>8 DEF RetryChainTooOften
<1>9. CASE CannotRedo(cur, f)
  <2> DEFINE un == MarkFailed(cur, f)
  <2>1. un = [x \in Hop |-> un[x]]
    BY DEF MarkFailed
  <2>2. unavail' = un \/ \E k \in HopsOf(cur) : unavail' = MarkSource(f, k, un)
    BY <1>9 DEF CannotRedo
  <2> HIDE DEF un
  <2>3. un[h] \subseteq unavail'[h]
    BY <1>2, <2>1, <2>2 DEF MarkSource
  <2> QED BY <1>2, <2>3 DEF un
<1>10. CASE RedoHere(cur, f)
  <2>1. MarkFailed(cur, f)[h] \subseteq unavail'[h]
    BY <1>2, <1>10 DEF RedoHere, ExcludeTogether
  <2> QED BY <1>2, <2>1
<1> QED BY <1>4, <1>7, <1>8, <1>9, <1>10

\* No other action goes to the path service from one of these places.
LEMMA WhoGoesBack ==
  Next => /\ pc = "avail" => UpdateAvailRanges
          /\ pc = "look" => Look
          /\ pc \in After => Unavailable
<1> SUFFICES ASSUME Next, pc \in {"avail", "look"} \cup After PROVE UpdateAvailRanges \/ Look \/ Unavailable
  BY DEF UpdateAvailRanges, Look, Unavailable, After
<1>1. ~(\/ ScsFails \/ LoopTimesOut \/ CallScs \/ Planned \/ CircuitFailed \/ StitchingFailed
        \/ EndPartiallyReserved \/ Launch)
  BY DEF ScsFails, LoopTimesOut, CallScs, Planned, CircuitFailed, StitchingFailed, After,
         EndPartiallyReserved, Launch, AllComplete, NoneReady, StopBeforeTransit, ListReady, EndRound,
         TimedOut, Pause
<1>2. Prepare => Look
  BY DEF Prepare, CopyFails, Copy, Begin, Redo, NotSane, Request, After
<1>3. Reserve => Unavailable
  BY DEF Reserve, Reserved, VlanError, Fatal, FromThePathService, AskAgain, BrokenAnswer,
         PollFails, PollReady, NotReadyDeleteFails, NotReady, Manifest, NoTagGiven, BrokenManifest,
         NotRead, After
<1> QED BY <1>1, <1>2, <1>3 DEF Next

LEMMA FailureTeaches ==
  ASSUME IInv, LInv, [Next]_vars, pc \in {"unavail", "doubt", "avail", "look"},
         pc' \in {"circuit", "scs", "failed"}
  PROVE  unavail' # unavail \/ excluded' # excluded
<1>1. Next
  BY DEF vars
<1>2. workflow \in Workflows
  BY DEF IInv, Placed
<1>3. CASE pc = "avail"
  <2>1. UpdateAvailRanges
    BY <1>1, <1>3, WhoGoesBack
  <2>2. PICK a \in todo : \E gone \in Lacks(a) : NotFree(a, gone)
    BY <1>3, <2>1 DEF UpdateAvailRanges, CheckAvail, ListFails, StillFree, Goto
  <2>3. PICK gone \in Lacks(a) : NotFree(a, gone)
    BY <2>2
  <2>4. a \in Aggs /\ \A h \in HopsOf(a) : Fresh(h)
    BY <1>3 DEF IInv, Placed, LInv, FreshWorkflow, HopsOf
  <2>5. /\ NoneFree(a, gone) \/ Changes(gone)
        /\ \A h \in Hop : unavail[h] \cup (gone[h] \cap range[h]) \subseteq unavail'[h]
    BY <2>3 DEF NotFree, Free
  <2> QED BY <1>2, <2>4, <2>5, LackTeaches
<1>4. CASE pc = "look"
  <2>1. Look
    BY <1>1, <1>4, WhoGoesBack
  <2>2. PICK gone \in Lacks(cur) : Free(gone) /\ NoneFree(cur, gone)
    BY <2>1 DEF Look, LookAgain, Goto
  <2>3. cur \in Aggs /\ \A h \in HopsOf(cur) : Fresh(h)
    BY <1>4 DEF IInv, Placed, LInv, FreshRequest, Before
  <2>4. \A h \in Hop : unavail[h] \cup (gone[h] \cap range[h]) \subseteq unavail'[h]
    BY <2>2 DEF Free
  <2> QED BY <1>2, <2>2, <2>3, <2>4, LackTeaches
<1>5. CASE pc \in After
  <2>1. Unavailable
    BY <1>1, <1>5, WhoGoesBack
  <2>2. pc' = "circuit"
    BY <2>1, UnavailableGivesUp DEF Unavailable, GivesUp
  <2> QED BY <2>1, <2>2, UnavailableTeaches
<1> QED BY <1>3, <1>4, <1>5 DEF After

\* When a tag that is not available sends the stitcher back to the path service,
\* the service is told something new (LearnsFromFailure).
THEOREM FailureIsLearned ==
  ASSUME Plain
  PROVE  Spec => LearnsFromFailure
<1>1. IInv /\ LInv /\ [Next]_vars =>
        [(pc \in {"unavail", "doubt", "avail", "look"} /\ pc' \in {"circuit", "scs", "failed"})
            => (unavail' # unavail \/ excluded' # excluded)]_vars
  BY FailureTeaches
<1>2. Spec => []LInv
  BY PlainCircuitsLearn
<1> QED BY <1>1, <1>2, Inductive, PTL DEF Spec, LearnsFromFailure

-----------------------------------------------------------------------------
(* Why the tags agree. *)

\* All hops of b have been read, and those that import a tag have their source's.
Agree(b) == \A h \in HopsOf(b) : man[h] # NoTag /\ (Imports(h) => man[h] = man[From(h)])

CompleteAgrees ==
  /\ completed \subseteq Aggs
  /\ \A b \in completed : Agree(b) /\ \A a \in DependsOn(b) : ~Unread(a)

ReadTags == man \in [Hop -> Tag \cup {NoTag}]

\* The aggregate that is asked has not told all: nothing that is complete depends
\* on it.
AskedIsUnread == pc \in {"look", "request"} \cup Asking => Unread(cur)

AsksForSource ==
  pc \in Before \cup Asking => \A h \in HopsOf(cur) : Imports(h) => sug[h] = man[From(h)]

\* Only an ExoGENI aggregate is asked again while some tags of an earlier manifest
\* stay.
AskedIsBlank ==
  pc = "manifest" /\ Kind[cur] # "eg" => \A h \in HopsOf(cur) : man[h] = NoTag

\* The tag of h may count without another answer of its aggregate.
Settled(h) == man[h] # NoTag /\ (Kind[Owner[h]] = "eg" \/ ~Unread(Owner[h]))

\* What a hop that imports its tag has is what was suggested, or the suggestion has
\* been refused, unless it has just been replaced and the reservation goes too.
SuggestsWhatIsRead ==
  pc \notin Giving =>
    \A h \in workflow.hops :
      Imports(h) /\ Settled(h) /\ ~(pc = "redo" /\ Owner[h] = cur)
        => sug[h] \in unavail[h] \cup {man[h]}

AInv ==
  /\ CompleteAgrees
  /\ ReadTags
  /\ ReadIsInManifest
  /\ AskedIsUnread
  /\ AskedIsBlank
  /\ AsksForSource
  /\ SuggestsWhatIsRead

\* A retry suggests another tag to a hop that imports its tag and keeps the one of
\* an earlier reservation, and the stitcher goes on with it.
SuggestsAnew ==
  /\ pc \in After /\ pc' \notin Giving
  /\ \E h \in workflow.hops : Imports(h) /\ Settled(h)' /\ sug'[h] # sug[h]

\* A step that leaves manifests and suggestions alone.
LEMMA TagsAside ==
  ASSUME AInv, UNCHANGED <<workflow, sug, man, manifest>>, completed' \subseteq completed,
         pc' \notin Giving => /\ pc \notin Giving \cup {"redo"}
                              /\ \A h \in workflow.hops : unavail[h] \subseteq unavail'[h],
         pc' \in Before \cup Asking => pc \in {"look", "request"} \cup Asking /\ cur' = cur /\ pc' # "redo",
         pc' = "manifest" /\ Kind[cur] # "eg" => cur \notin manifest
  PROVE  AInv'
<1>1. CompleteAgrees'
  BY DEF AInv, CompleteAgrees, Agree, Unread, HopsOf, Aggs, DependsOn, Imports, From
<1>2. ReadTags' /\ ReadIsInManifest'
  BY DEF AInv, ReadTags, ReadIsInManifest
<1>3. AskedIsUnread'
  BY DEF AInv, AskedIsUnread, Unread, HopsOf, Before
<1>4. AsksForSource'
  BY DEF AInv, AsksForSource, HopsOf, Imports, From, Before
<1>5. SuggestsWhatIsRead'
  BY DEF AInv, SuggestsWhatIsRead, Settled, Unread, HopsOf, Imports, From, Before
<1>6. AskedIsBlank'
  BY DEF AInv, AskedIsBlank, ReadIsInManifest, HopsOf, Asking
<1> QED BY <1>1, <1>2, <1>3, <1>4, <1>5, <1>6 DEF AInv

\* With a reservation all those go from completed that depend on it.
LEMMA DeletionAgrees ==
  ASSUME workflow \in Workflows, workflow' = workflow, CompleteAgrees, ReadTags, ReadIsInManifest,
         NEW D, NEW failing, Delete(D, failing)
  PROVE  /\ CompleteAgrees' /\ ReadTags' /\ ReadIsInManifest'
         /\ \A h \in workflow.hops : man'[h] # NoTag => man'[h] = man[h]
<1>1. /\ completed' = completed \ (D \cup UNION {Dependents(a) : a \in D})
      /\ manifest' = manifest \ (D \ failing)
      /\ man' = [h \in Hop |-> IF Owner[h] \in D \ failing THEN NoTag ELSE man[h]]
  BY DEF Delete, Uncomplete, Forget
<1>2. workflow.hops \subseteq Hop
  BY Workflow
<1>3. \A h \in workflow.hops : Owner[h] \notin D => man'[h] = man[h]
  BY <1>1, <1>2
<1>4. ASSUME NEW b \in completed'
      PROVE  b \in Aggs /\ Agree(b)' /\ \A a \in DependsOn(b) : ~Unread(a)'
  <2>1. b \in completed /\ b \in Aggs /\ b \notin D /\ DependsOn(b) \cap D = {}
    BY <1>1, <1>4 DEF CompleteAgrees, Dependents
  <2>2. Agree(b)'
    <3>1. SUFFICES ASSUME NEW h \in HopsOf(b)
                   PROVE  man'[h] # NoTag /\ (Imports(h) => man'[h] = man'[From(h)])
      BY DEF Agree, HopsOf, Imports, From
    <3>2. h \in workflow.hops /\ Owner[h] = b /\ man'[h] = man[h]
      BY <1>3, <2>1, <3>1 DEF HopsOf
    <3>3. Imports(h) => man'[From(h)] = man[From(h)]
      BY <1>3, <2>1, <3>2, Imported
    <3> QED BY <2>1, <3>1, <3>2, <3>3 DEF CompleteAgrees, Agree
  <2>3. ASSUME NEW a \in DependsOn(b) PROVE ~Unread(a)'
    <3>1. ~Unread(a) /\ a \notin D
      BY <2>1, <2>3 DEF CompleteAgrees
    <3> QED BY <1>3, <3>1 DEF Unread, HopsOf
  <2> QED BY <2>1, <2>2, <2>3
<1>5. CompleteAgrees'
  BY <1>4 DEF CompleteAgrees, Aggs, DependsOn
<1>6. ReadTags' /\ ReadIsInManifest'
  BY <1>1, <1>2 DEF ReadTags, ReadIsInManifest
<1> QED BY <1>1, <1>2, <1>5, <1>6

\* The main loop and the launcher.
LEMMA LoopAgrees ==
  IInv /\ AInv /\ (\/ ScsFails \/ LoopTimesOut \/ CallScs \/ Planned \/ UpdateAvailRanges
                   \/ CircuitFailed \/ StitchingFailed \/ EndPartiallyReserved \/ Launch) => AInv'
<1> SUFFICES ASSUME IInv, AInv,
                    \/ ScsFails \/ LoopTimesOut \/ CallScs \/ Planned \/ UpdateAvailRanges
                    \/ CircuitFailed \/ StitchingFailed \/ EndPartiallyReserved \/ Launch
             PROVE  AInv'
  OBVIOUS
<1>1. CASE ScsFails \/ LoopTimesOut \/ EndPartiallyReserved \/ Planned
  <2>1. /\ pc' \in {"failed", "avail"} /\ (pc' = "avail" => pc = "planned")
        /\ UNCHANGED <<workflow, sug, unavail, man, manifest, completed>>
    BY <1>1 DEF ScsFails, LoopTimesOut, EndPartiallyReserved, Planned, Stop, Goto, aggVars, hopVars
  <2> QED BY <2>1, TagsAside DEF Before, Asking, Giving
<1>2. CASE Launch
  <2>1. /\ pc \in {"round", "next", "pause"} /\ pc' \in {"done", "failing", "next", "round"}
        /\ UNCHANGED <<workflow, sug, unavail, man, manifest, completed>>
    BY <1>2 DEF Launch, AllComplete, NoneReady, StopBeforeTransit, ListReady, EndRound, TimedOut,
                Pause, Stop, Goto, UnchangedHere, aggVars, hopVars
  <2> QED BY <2>1, TagsAside DEF Before, Asking, Giving
<1>3. CASE CallScs
  <2>1. /\ pc' = "planned" /\ completed' = {} /\ workflow' \in Workflows
        /\ man' = [h \in Hop |-> NoTag]
    BY <1>3 DEF CallScs, Stop, Goto
  <2>2. workflow'.hops \subseteq Hop
    BY <2>1, WorkflowAssumption
  <2> QED BY <2>1, <2>2 DEF AInv, CompleteAgrees, ReadTags, ReadIsInManifest, AskedIsUnread,
                            AskedIsBlank, AsksForSource, SuggestsWhatIsRead, Settled, Before, Asking
<1>4. CASE CircuitFailed \/ StitchingFailed
  <2>1. PICK failing : DeleteAll(failing)
    BY <1>4 DEF CircuitFailed, StitchingFailed
  <2>2. pc \in {"circuit", "failing"} /\ pc' \in {"scs", "failed"} /\ workflow' = workflow
    BY <1>4 DEF CircuitFailed, StitchingFailed, Stop, Goto
  <2>3. workflow \in Workflows
    BY <2>2 DEF IInv, Placed
  <2>4. CompleteAgrees' /\ ReadTags' /\ ReadIsInManifest'
    BY <2>1, <2>2, <2>3, DeletionAgrees DEF AInv, DeleteAll
  <2> QED BY <2>2, <2>4 DEF AInv, AskedIsUnread, AskedIsBlank, AsksForSource, SuggestsWhatIsRead,
                            Before, Asking, Giving
<1>5. CASE UpdateAvailRanges
  <2>1. pc = "avail" /\ UNCHANGED <<workflow, sug, man, manifest, completed>>
    BY <1>5 DEF UpdateAvailRanges, aggVars
  <2>2. /\ pc' \in {"avail", "round", "scs", "failed"}
        /\ pc' \notin Giving => \A h \in Hop : unavail[h] \subseteq unavail'[h]
    <3>1. CASE pc' = "round" /\ unavail' = unavail
      BY <3>1
    <3>2. ASSUME NEW a \in todo, CheckAvail(a)
          PROVE  /\ pc' \in {"avail", "scs", "failed"}
                 /\ pc' \notin Giving => \A h \in Hop : unavail[h] \subseteq unavail'[h]
      <4>1. CASE ListFails(a)
        BY <2>1, <4>1 DEF ListFails
      <4>2. ASSUME NEW gone, StillFree(a, gone)
            PROVE  pc' = pc /\ \A h \in Hop : unavail[h] \subseteq unavail'[h]
        BY <4>2 DEF StillFree
      <4>3. ASSUME NEW gone, NotFree(a, gone)
            PROVE  pc' \in {"scs", "failed"}
        BY <4>3 DEF NotFree, GiveUpWorkflow, Goto
      <4> QED BY <2>1, <3>2, <4>1, <4>2, <4>3 DEF CheckAvail, Giving
    <3> QED BY <1>5, <3>1, <3>2 DEF UpdateAvailRanges, Goto
  <2>3. workflow.hops \subseteq Hop
    BY <2>1, Workflow DEF IInv, Placed
  <2> QED BY <2>1, <2>2, <2>3, TagsAside DEF Before, Asking, Giving
<1> QED BY <1>1, <1>2, <1>3, <1>4, <1>5

\* Taking up an aggregate: what it imports is copied, and it is complete at once only
\* if it has just that.
LEMMA CopyAgrees ==
  ASSUME IInv, AInv, NEW a \in todo, CopyFails(a) \/ Copy(a)
  PROVE  AInv'
<1>1. pc = "next" /\ Ready(a) /\ cur' = a /\ UNCHANGED <<workflow, man, manifest>>
  BY DEF CopyFails, Copy, Begin
<1>2. a \in Aggs /\ workflow \in Workflows /\ workflow.hops \subseteq Hop
  BY <1>1, Workflow DEF IInv, Placed
<1>3. CASE CopyFails(a)
  <2>1. pc' \in {"failing", "circuit"} /\ UNCHANGED <<sug, completed>>
    BY <1>3 DEF CopyFails, Goto
  <2> QED BY <1>1, <2>1, TagsAside DEF Before, Asking, Giving
<1>4. CASE Copy(a)
  <2>1. /\ \A h \in HopsOf(a) : Imports(h) => ~ImportClash(h) /\ ~ImportFatal(h)
        /\ unavail' = unavail
    BY <1>4 DEF Copy, CopyVLANs
  <2>2. \A h \in workflow.hops :
          Imports(h) => sug'[h] = IF Owner[h] = a THEN Wants(h) ELSE sug[h]
    <3>1. PICK s \in [{h \in HopsOf(a) : Picks(h)} -> Tag \cup {AnyTag}] :
            sug' = [h \in Hop |-> IF h \in DOMAIN s THEN s[h]
                                  ELSE IF h \in HopsOf(a) /\ Imports(h) THEN Wants(h)
                                  ELSE sug[h]]
      BY <1>4 DEF Copy, CopyVLANs
    <3>2. \A h \in DOMAIN s : ~Imports(h)
      BY <3>1 DEF Picks
    <3> QED BY <1>2, <3>1, <3>2 DEF HopsOf
  <2>3. \A d \in DependsOn(a) : ~Unread(d)
    BY <1>1 DEF Ready, DependenciesComplete, AInv, CompleteAgrees, Agree, Unread
  <2>4. ASSUME ~MustDelete(a), NEW h \in HopsOf(a), Imports(h), Settled(h)
        PROVE  man[h] = Wants(h)
    <3>1. sug[h] = Wants(h) \/ man[h] = Wants(h)
      BY <2>4 DEF MustDelete, Outdated, Settled
    <3>2. sug[h] \in unavail[h] \cup {man[h]}
      BY <1>1, <2>4 DEF AInv, SuggestsWhatIsRead, Giving, HopsOf
    <3>3. Wants(h) \notin unavail[h]
      BY <2>1, <2>4 DEF ImportClash, ImportFatal
    <3> QED BY <3>1, <3>2, <3>3
  <2>5. \/ pc' = "redo" /\ completed' = completed
        \/ pc' = "look" /\ completed' = completed /\ ~MustDelete(a) /\ ~AlreadyDone(a)
        \/ pc' = "next" /\ completed' = completed \cup {a} /\ AlreadyDone(a)
    BY <1>4 DEF Copy, Goto
  <2>6. CompleteAgrees'
    <3>1. ASSUME AlreadyDone(a) PROVE Agree(a)
      <4>1. \A h \in HopsOf(a) : Settled(h)
        BY <3>1 DEF AlreadyDone, Settled, Unread, HopsOf
      <4> QED BY <2>4, <3>1, <4>1 DEF AlreadyDone, Agree, Wants
    <3>2. \A b \in completed' : b \in Aggs /\ Agree(b) /\ \A d \in DependsOn(b) : ~Unread(d)
      BY <1>2, <2>3, <2>5, <3>1 DEF AInv, CompleteAgrees
    <3> QED BY <1>1, <3>2 DEF CompleteAgrees, Agree, Unread, HopsOf, Aggs, DependsOn, Imports, From
  <2>7. ReadTags' /\ ReadIsInManifest'
    BY <1>1 DEF AInv, ReadTags, ReadIsInManifest
  <2>8. AskedIsUnread'
    <3>1. ASSUME ~MustDelete(a), ~AlreadyDone(a) PROVE Unread(a)
      <4>1. PICK h \in HopsOf(a) : TRUE
        BY <1>2, SomeHop
      <4> QED BY <3>1, <4>1 DEF AlreadyDone, AInv, ReadIsInManifest, Unread, HopsOf
    <3> QED BY <1>1, <2>5, <3>1 DEF AskedIsUnread, Asking, Unread, HopsOf
  <2>9. AsksForSource'
    BY <1>1, <2>2 DEF AsksForSource, Wants, HopsOf, Imports, From
  <2>10. SuggestsWhatIsRead'
    <3>1. SUFFICES ASSUME NEW h \in workflow.hops, Imports(h), Settled(h),
                          ~(pc' = "redo" /\ Owner[h] = a)
                   PROVE  sug'[h] \in unavail[h] \cup {man[h]}
      BY <1>1, <2>1 DEF SuggestsWhatIsRead, Settled, Unread, HopsOf, Imports, From
    <3>2. CASE Owner[h] = a
      <4>1. ~MustDelete(a)
        BY <2>5, <3>1, <3>2 DEF AlreadyDone
      <4> QED BY <2>2, <2>4, <3>1, <3>2, <4>1 DEF HopsOf
    <3>3. CASE Owner[h] # a
      BY <1>1, <2>2, <3>1, <3>3 DEF AInv, SuggestsWhatIsRead, Giving
    <3> QED BY <3>2, <3>3
  <2>11. AskedIsBlank'
    BY <2>5 DEF AskedIsBlank
  <2> QED BY <2>6, <2>7, <2>8, <2>9, <2>10, <2>11 DEF AInv
<1> QED BY <1>3, <1>4

\* From the deletion of an outdated reservation to the request.
LEMMA RequestAgrees ==
  IInv /\ AInv /\ (Redo \/ Look \/ NotSane \/ Request) => AInv'
<1> SUFFICES ASSUME IInv, AInv, Redo \/ Look \/ NotSane \/ Request PROVE AInv'
  OBVIOUS
<1>1. pc \in Before /\ UNCHANGED <<workflow, cur, sug>>
  BY DEF Redo, Look, NotSane, Request, UnchangedHere, hopVars, Before
<1>2. workflow \in Workflows /\ workflow.hops \subseteq Hop /\ cur \in Aggs
  BY <1>1, Workflow DEF IInv, Placed, Before
<1>3. CASE Redo
  <2>1. PICK failing : Delete({cur}, failing) /\ (pc' = "look" => failing = {})
    BY <1>3 DEF Redo, Goto
  <2>2. pc = "redo" /\ pc' \in {"look", "failing"} /\ unavail' = unavail
    BY <1>3 DEF Redo, Goto
  <2>3. /\ CompleteAgrees' /\ ReadTags' /\ ReadIsInManifest'
        /\ \A h \in workflow.hops : man'[h] # NoTag => man'[h] = man[h]
    BY <1>1, <1>2, <2>1, DeletionAgrees DEF AInv
  <2>4. \A h \in workflow.hops :
          man'[h] = IF Owner[h] \in {cur} \ failing THEN NoTag ELSE man[h]
    BY <1>2, <2>1 DEF Delete, Forget
  <2>5. AskedIsUnread'
    <3>1. PICK h \in HopsOf(cur) : TRUE
      BY <1>2, SomeHop
    <3>2. pc' = "look" => man'[h] = NoTag
      BY <2>1, <2>4, <3>1 DEF HopsOf
    <3> QED BY <1>1, <2>2, <3>1, <3>2 DEF AskedIsUnread, Asking, Unread, HopsOf
  <2>6. AsksForSource'
    <3>1. SUFFICES ASSUME NEW h \in HopsOf(cur), Imports(h) PROVE sug[h] = man'[From(h)]
      BY <1>1 DEF AsksForSource, HopsOf, Imports, From
    <3>2. From(h) \in workflow.hops /\ Owner[From(h)] # cur
      BY <1>2, <3>1, Imported DEF HopsOf
    <3>3. man'[From(h)] = man[From(h)]
      BY <2>4, <3>2
    <3> QED BY <1>1, <3>1, <3>3 DEF AInv, AsksForSource
  <2>7. SuggestsWhatIsRead'
    <3>1. SUFFICES ASSUME pc' = "look", NEW h \in workflow.hops, Imports(h), Settled(h)'
                   PROVE  sug[h] \in unavail[h] \cup {man'[h]}
      BY <1>1, <2>2 DEF SuggestsWhatIsRead, Imports, From, Giving
    <3>2. Owner[h] # cur /\ man'[h] = man[h]
      BY <2>1, <2>4, <3>1 DEF Settled
    <3>3. Settled(h)
      BY <1>1, <2>4, <3>1, <3>2 DEF Settled, Unread, HopsOf
    <3> QED BY <2>2, <3>1, <3>2, <3>3 DEF AInv, SuggestsWhatIsRead, Giving
  <2>8. AskedIsBlank'
    BY <2>2 DEF AskedIsBlank
  <2> QED BY <2>3, <2>5, <2>6, <2>7, <2>8 DEF AInv
<1>4. CASE Look \/ NotSane \/ Request
  <2>1. /\ pc \in {"look", "request"} /\ UNCHANGED <<man, manifest>> /\ completed' \subseteq completed
        /\ pc' \in {"request", "circuit", "failing", "ask"}
    BY <1>4 DEF Look, LookAgain, NotSane, Request, UnchangedHere, Goto, aggVars, hopVars
  <2>2. \A h \in Hop : unavail[h] \subseteq unavail'[h]
    BY <1>4 DEF Look, LookAgain, Free, NotSane, Request, UnchangedHere, hopVars
  <2> QED BY <1>1, <1>2, <2>1, <2>2, TagsAside DEF Before, Asking, Giving
<1> QED BY <1>3, <1>4

\* Any answer that is not a manifest.
LEMMA AnswerAgrees ==
  IInv /\ AInv /\ (\/ Reserved \/ VlanError \/ Fatal \/ FromThePathService \/ AskAgain \/ BrokenAnswer
                   \/ PollFails \/ PollReady \/ NotReadyDeleteFails \/ NotReady) => AInv'
<1> SUFFICES ASSUME IInv, AInv,
                    \/ Reserved \/ VlanError \/ Fatal \/ FromThePathService \/ AskAgain \/ BrokenAnswer
                    \/ PollFails \/ PollReady \/ NotReadyDeleteFails \/ NotReady
             PROVE  AInv'
  OBVIOUS
<1>1. /\ pc \in {"ask", "poll"}
      /\ UNCHANGED <<workflow, cur, sug, unavail, man, manifest, completed>>
  BY DEF Reserved, VlanError, Fatal, FromThePathService, AskAgain, BrokenAnswer, PollFails,
         PollReady, NotReadyDeleteFails, NotReady, UnchangedAnswer, hopVars
<1>2. pc' \in {"poll", "manifest", "circuit", "failing", "pause", "unavail", "doubt"}
  BY DEF Reserved, VlanError, Fatal, FromThePathService, AskAgain, BrokenAnswer, PollFails,
         PollReady, NotReadyDeleteFails, NotReady, Goto, Retry
<1>3. pc' = "manifest" /\ Kind[cur] # "eg" => cur \notin manifest
  <2>1. SUFFICES ASSUME pc' = "manifest", Kind[cur] # "eg" PROVE cur \notin manifest
    OBVIOUS
  <2>2. Reserved \/ PollReady
    BY <1>1, <2>1 DEF VlanError, Fatal, FromThePathService, AskAgain, BrokenAnswer, PollFails,
                      NotReadyDeleteFails, NotReady, Goto, Retry
  <2>3. cur \notin held \/ pc = "poll"
    BY <2>2 DEF Reserved, PollReady
  <2> QED BY <2>1, <2>3 DEF IInv, HeldOrUnread, AskedForMore
<1> QED BY <1>1, <1>2, <1>3, TagsAside DEF Before, Asking, Giving

\* What is read of a manifest, and when it completes its aggregate.
LEMMA ManifestReads ==
  ASSUME Manifest \/ NoTagGiven \/ BrokenManifest
  PROVE  /\ pc' \in {"next", "failing", "unavail"}
         /\ \E S \in SUBSET HopsOf(cur) : \E got \in [S -> Tag] :
              /\ TakeTags(S, got)
              /\ \/ completed' = completed
                 \/ /\ completed' = completed \cup {cur} /\ S = HopsOf(cur)
                    /\ \A h \in HopsOf(cur) : sug[h] \in {AnyTag, got[h]}
<1>1. CASE Manifest
  <2>1. PICK got \in Grants(cur) :
          /\ TakeTags(HopsOf(cur), got)
          /\ \/ completed' = completed
             \/ /\ completed' = completed \cup {cur}
                /\ \A h \in HopsOf(cur) : sug[h] \in {AnyTag, got[h]}
    BY <1>1 DEF Manifest
  <2>2. got \in [HopsOf(cur) -> Tag] /\ pc' \in {"next", "failing"}
    BY <1>1, <2>1 DEF Grants, Manifest, Goto
  <2> QED BY <2>1, <2>2
<1>2. CASE NoTagGiven \/ BrokenManifest
  <2>1. PICK h \in HopsOf(cur) : ReadUpTo(h) /\ completed' = completed /\ pc' \in {"unavail", "failing"}
    BY <1>2 DEF NoTagGiven, BrokenManifest, Goto
  <2>2. PICK S \in SUBSET (HopsOf(cur) \ {h}) : \E got \in [S -> Tag] : TakeTags(S, got)
    BY <2>1 DEF ReadUpTo
  <2> QED BY <2>1, <2>2
<1> QED BY <1>1, <1>2

\* Reading the manifest: what differs from the suggestion makes the suggestion
\* unavailable, and the aggregate is complete only if nothing does.
LEMMA ManifestAgrees == IInv /\ AInv /\ (Manifest \/ NoTagGiven \/ BrokenManifest) => AInv'
<1> SUFFICES ASSUME IInv, AInv, Manifest \/ NoTagGiven \/ BrokenManifest PROVE AInv'
  OBVIOUS
<1>1. /\ pc = "manifest" /\ manifest' = manifest \cup {cur}
      /\ UNCHANGED <<workflow, cur, sug>>
  BY DEF Manifest, NoTagGiven, BrokenManifest, NotRead
<1>2. /\ workflow \in Workflows /\ workflow.hops \subseteq Hop /\ cur \in Aggs
      /\ DependenciesComplete(cur) /\ Unread(cur)
  BY <1>1, Workflow DEF IInv, Placed, DependenciesFirst, AInv, AskedIsUnread, Asking
<1>3. pc' \in {"next", "failing", "unavail"}
  BY ManifestReads
<1>4. PICK S \in SUBSET HopsOf(cur) : \E got \in [S -> Tag] :
           /\ TakeTags(S, got)
           /\ \/ completed' = completed
              \/ /\ completed' = completed \cup {cur} /\ S = HopsOf(cur)
                 /\ \A h \in HopsOf(cur) : sug[h] \in {AnyTag, got[h]}
  BY ManifestReads
<1>5. PICK got \in [S -> Tag] :
           /\ TakeTags(S, got)
           /\ \/ completed' = completed
              \/ /\ completed' = completed \cup {cur} /\ S = HopsOf(cur)
                 /\ \A h \in HopsOf(cur) : sug[h] \in {AnyTag, got[h]}
  BY <1>4
<1>6. \A h \in Hop :
        /\ man'[h] = IF h \in S THEN got[h] ELSE man[h]
        /\ unavail'[h] = IF h \in S /\ sug[h] \notin {AnyTag, got[h]} THEN unavail[h] \cup {sug[h]} ELSE unavail[h]
  BY <1>5 DEF TakeTags, Refused
<1>7. ReadTags' /\ ReadIsInManifest'
  <2>1. ReadTags'
    BY <1>5 DEF TakeTags, AInv, ReadTags
  <2>2. ReadIsInManifest'
    BY <1>1, <1>2, <1>6 DEF AInv, ReadIsInManifest, HopsOf
  <2> QED BY <2>1, <2>2
<1>8. ASSUME NEW h \in HopsOf(cur), Imports(h)
      PROVE  /\ sug[h] = man[From(h)] /\ sug[h] # AnyTag
             /\ From(h) \in workflow.hops /\ From(h) \notin HopsOf(cur)
             /\ man'[From(h)] = man[From(h)]
  <2>1. sug[h] = man[From(h)]
    BY <1>1, <1>8 DEF AInv, AsksForSource, Asking
  <2>2. From(h) \in workflow.hops /\ From(h) \in Hop /\ From(h) \notin HopsOf(cur)
    BY <1>2, <1>8, Imported DEF HopsOf
  <2>3. man[From(h)] # AnyTag
    BY <2>2, CircuitAssumption DEF AInv, ReadTags
  <2> QED BY <1>6, <2>1, <2>2, <2>3
<1>9. CompleteAgrees'
  <2>1. ASSUME NEW b \in completed
        PROVE  b \in Aggs /\ Agree(b)' /\ \A d \in DependsOn(b) : ~Unread(d)'
    <3>1. b \in Aggs /\ Agree(b) /\ \A d \in DependsOn(b) : ~Unread(d)
      BY <2>1 DEF AInv, CompleteAgrees
    <3>2. b # cur /\ cur \notin DependsOn(b)
      BY <1>2, <3>1 DEF Agree, Unread
    <3>3. \A h \in workflow.hops : Owner[h] # cur => man'[h] = man[h]
      BY <1>2, <1>6 DEF HopsOf
    <3>4. ASSUME NEW h \in HopsOf(b) PROVE man'[h] # NoTag /\ (Imports(h) => man'[h] = man'[From(h)])
      <4>1. h \in workflow.hops /\ Owner[h] = b
        BY <3>4 DEF HopsOf
      <4>2. Imports(h) => man'[From(h)] = man[From(h)]
        BY <1>2, <3>2, <3>3, <4>1, Imported
      <4> QED BY <3>1, <3>2, <3>3, <3>4, <4>1, <4>2 DEF Agree
    <3>5. \A d \in DependsOn(b) : ~Unread(d)'
      BY <1>1, <3>1, <3>2, <3>3 DEF Unread, HopsOf
    <3> QED BY <1>1, <3>1, <3>4, <3>5 DEF Agree, HopsOf, Imports, From
  <2>2. ASSUME completed' = completed \cup {cur}, S = HopsOf(cur),
               \A h \in HopsOf(cur) : sug[h] \in {AnyTag, got[h]}
        PROVE  Agree(cur)' /\ \A d \in DependsOn(cur) : ~Unread(d)'
    <3>1. ASSUME NEW h \in HopsOf(cur) PROVE man'[h] # NoTag /\ (Imports(h) => man'[h] = man'[From(h)])
      <4>1. man'[h] = got[h] /\ got[h] \in Tag /\ h \in Hop
        BY <1>2, <1>6, <2>2, <3>1 DEF HopsOf
      <4> QED BY <1>8, <2>2, <3>1, <4>1, CircuitAssumption
    <3>2. ASSUME NEW d \in DependsOn(cur) PROVE ~Unread(d)'
      <4>1. d \in completed
        BY <1>2, <3>2 DEF DependenciesComplete
      <4>2. Agree(d)'
        BY <2>1, <4>1
      <4> QED BY <4>2 DEF Agree, Unread
    <3> QED BY <1>1, <3>1, <3>2 DEF Agree, HopsOf, Imports, From
  <2> QED BY <1>1, <1>2, <1>5, <2>1, <2>2 DEF CompleteAgrees, Aggs, DependsOn
<1>10. SuggestsWhatIsRead'
  <2>1. SUFFICES ASSUME NEW h \in workflow.hops, Imports(h), Settled(h)'
                 PROVE  sug[h] \in unavail'[h] \cup {man'[h]}
    BY <1>1 DEF SuggestsWhatIsRead, Imports, From
  <2>2. h \in Hop
    BY <1>2
  <2>3. CASE h \in S
    BY <1>6, <1>8, <2>1, <2>2, <2>3
  <2>4. CASE h \notin S
    <3>1. man'[h] = man[h] /\ unavail'[h] = unavail[h] /\ man[h] # NoTag
      BY <1>6, <2>1, <2>2, <2>4 DEF Settled
    <3>2. Kind[Owner[h]] = "eg" \/ ~Unread(Owner[h])
      <4>1. SUFFICES ASSUME Kind[Owner[h]] # "eg" PROVE ~Unread(Owner[h])
        OBVIOUS
      <4>2. Owner[h] # cur
        BY <1>1, <3>1, <4>1 DEF AInv, AskedIsBlank, HopsOf
      <4>3. \A g \in HopsOf(Owner[h]) : man'[g] = man[g]
        BY <1>2, <1>6, <4>2 DEF HopsOf
      <4>4. ~Unread(Owner[h])'
        BY <2>1, <4>1 DEF Settled
      <4> QED BY <1>1, <4>3, <4>4 DEF Unread, HopsOf
    <3> QED BY <1>1, <2>1, <3>1, <3>2 DEF AInv, SuggestsWhatIsRead, Settled, Giving
  <2> QED BY <2>3, <2>4
<1>11. AskedIsUnread' /\ AskedIsBlank' /\ AsksForSource'
  BY <1>3 DEF AskedIsUnread, AskedIsBlank, AsksForSource, Before, Asking
<1> QED BY <1>7, <1>9, <1>10, <1>11 DEF AInv

\* A tag that was found to be unavailable stays so.
LEMMA UnavailableGrows ==
  ASSUME NEW a, NEW h, HandleVlanUnavailable(a, h)
  PROVE  \A x \in Hop : unavail[x] \subseteq unavail'[x]
<1> DEFINE f == FailedHop(a, h)
<1>1. RetryChain(a, f) \/ RetryChainTooOften(a, f) \/ CannotRedo(a, f) \/ RedoHere(a, f)
  BY DEF HandleVlanUnavailable, RetryHere
<1> HIDE DEF f
<1>2. CASE RetryChain(a, f) \/ RetryChainTooOften(a, f)
  <2>1. \E S : unavail' = RetryUnavail(f, S)
    BY <1>2 DEF RetryChain, RetryChainTooOften
  <2> QED BY <2>1 DEF RetryUnavail
<1>3. \A x \in Hop : unavail[x] \subseteq MarkFailed(a, f)[x]
  BY DEF MarkFailed
<1>4. CASE CannotRedo(a, f)
  <2> DEFINE un == MarkFailed(a, f)
  <2>1. un = [x \in Hop |-> un[x]]
    BY DEF MarkFailed
  <2>2. unavail' = un \/ \E k \in HopsOf(a) : unavail' = MarkSource(f, k, un)
    BY <1>4 DEF CannotRedo
  <2>3. \A x \in Hop : unavail[x] \subseteq un[x]
    BY <1>3
  <2> HIDE DEF un
  <2> QED BY <2>1, <2>2, <2>3 DEF MarkSource
<1>5. CASE RedoHere(a, f)
  BY <1>3, <1>5 DEF RedoHere, ExcludeTogether
<1> QED BY <1>1, <1>2, <1>4, <1>5

\* A retry, if it suggests another tag to no hop that keeps one.
LEMMA UnavailableAgrees ==
  ASSUME IInv, AInv, Unavailable, ~SuggestsAnew
  PROVE  AInv'
<1>1. pc \in After /\ UNCHANGED <<workflow, cur>> /\ GivesUp(cur)
  BY UnavailableGivesUp DEF Unavailable, After
<1>2. workflow \in Workflows /\ workflow.hops \subseteq Hop
  BY <1>1, Workflow DEF IInv, Placed, After
<1>3. /\ CompleteAgrees' /\ ReadTags' /\ ReadIsInManifest'
      /\ \A h \in workflow.hops : man'[h] # NoTag => man'[h] = man[h]
  <2>1. CASE Keeps
    <3>1. /\ UNCHANGED <<workflow, manifest, man>> /\ completed' = completed
      BY <1>1, <2>1 DEF Keeps
    <3> QED BY <3>1 DEF AInv, CompleteAgrees, ReadTags, ReadIsInManifest, Agree, Unread, HopsOf, Aggs,
                       DependsOn, Imports, From
  <2>2. CASE Deletes
    BY <1>1, <1>2, <2>2, DeletionAgrees DEF Deletes, AInv
  <2> QED BY <1>1, <2>1, <2>2 DEF GivesUp
<1>4. SuggestsWhatIsRead'
  <2>1. \A h \in Hop : unavail[h] \subseteq unavail'[h]
    BY UnavailableGrows DEF Unavailable
  <2>2. ASSUME pc' \notin Giving, NEW h \in workflow.hops, Imports(h), Settled(h)'
        PROVE  sug'[h] \in unavail'[h] \cup {man'[h]}
    <3>1. sug'[h] = sug[h] /\ man'[h] = man[h]
      BY <1>1, <1>3, <2>2 DEF SuggestsAnew, Settled
    <3>2. Settled(h)
      BY <1>1, <1>3, <2>2, <3>1 DEF Settled, Unread, HopsOf
    <3>3. sug[h] \in unavail[h] \cup {man[h]}
      BY <1>1, <2>2, <3>2 DEF AInv, SuggestsWhatIsRead, After, Giving
    <3> QED BY <1>2, <2>1, <3>1, <3>3
  <2> QED BY <1>1, <2>2 DEF SuggestsWhatIsRead, Imports, From
<1>5. AskedIsUnread' /\ AskedIsBlank' /\ AsksForSource'
  BY <1>1 DEF GivesUp, AskedIsUnread, AskedIsBlank, AsksForSource, Before, Asking
<1> QED BY <1>3, <1>4, <1>5 DEF AInv

\* Every step that suggests nothing anew.
LEMMA StepAgrees ==
  IInv /\ AInv /\ [Next]_vars /\ [~SuggestsAnew]_vars => AInv'
<1> SUFFICES ASSUME IInv, AInv, [Next]_vars, [~SuggestsAnew]_vars PROVE AInv'
  OBVIOUS
<1>1. CASE \/ ScsFails \/ LoopTimesOut \/ CallScs \/ Planned \/ UpdateAvailRanges
           \/ CircuitFailed \/ StitchingFailed \/ EndPartiallyReserved \/ Launch
  BY <1>1, LoopAgrees
<1>2. CASE Prepare
  BY <1>2, CopyAgrees, RequestAgrees DEF Prepare
<1>3. CASE UNCHANGED vars
  <2>1. UNCHANGED <<pc, workflow, cur, completed, manifest, sug, man, unavail>>
    BY <1>3 DEF vars, aggVars, hopVars
  <2>2. CompleteAgrees' /\ ReadTags' /\ ReadIsInManifest'
    BY <2>1 DEF AInv, CompleteAgrees, ReadTags, ReadIsInManifest, Agree, Unread, HopsOf, Aggs,
                DependsOn, Imports, From
  <2>3. AskedIsUnread' /\ AskedIsBlank' /\ AsksForSource' /\ SuggestsWhatIsRead'
    BY <2>1 DEF AInv, AskedIsUnread, AskedIsBlank, AsksForSource, SuggestsWhatIsRead, Settled, Unread,
                HopsOf, Aggs, Imports, From
  <2> QED BY <2>2, <2>3 DEF AInv
<1>4. CASE Unavailable
  <2>1. CASE UNCHANGED vars
    BY <1>3, <2>1
  <2>2. CASE ~SuggestsAnew
    BY <1>4, <2>2, UnavailableAgrees
  <2> QED BY <2>1, <2>2
<1>5. CASE Reserve
  BY <1>4, <1>5, AnswerAgrees, ManifestAgrees DEF Reserve
<1> QED BY <1>1, <1>2, <1>3, <1>5 DEF Next

LEMMA InitAgrees == Init => AInv
BY DEF Init, NoWorkflow, AInv, CompleteAgrees, ReadTags, ReadIsInManifest, AskedIsUnread,
       AskedIsBlank, AsksForSource, SuggestsWhatIsRead, Before, Asking, Giving

\* No aggregate that picks a tag for others can be asked for any tag.
Certain(w) ==
  \A h \in w.hops :
    w.from[h] # NoHop /\ w.from[w.from[h]] = NoHop => ~SupportsAny(Owner[w.from[h]])

\* Aggregates that import tags are worked on one after the other if they depend on
\* a common one, no aggregate between is passed over by a tag, and an ExoGENI
\* aggregate has one hop.
InTurn(w) ==
  /\ \A a \in DOMAIN w.deps : \A b \in w.deps[a] : w.deps[b] \subseteq w.deps[a]
  /\ \A g \in w.hops, h \in w.hops :
       w.from[g] # NoHop /\ w.from[h] # NoHop /\ w.deps[Owner[g]] \cap w.deps[Owner[h]] # {}
         => \/ Owner[g] = Owner[h]
            \/ Owner[g] \in w.deps[Owner[h]] \/ Owner[h] \in w.deps[Owner[g]]
  /\ \A h \in w.hops :
       w.from[h] # NoHop => \A b \in w.deps[Owner[h]] : Owner[w.from[h]] \notin w.deps[b]
  /\ \A g \in w.hops, h \in w.hops : Owner[g] = Owner[h] /\ Kind[Owner[g]] = "eg" => g = h

Orderly == \A w \in Workflows : Certain(w) \/ InTurn(w)

\* The first three parts of InTurn, as the stitcher's operators put them.
LEMMA Turns ==
  ASSUME workflow \in Workflows, InTurn(workflow)
  PROVE  /\ \A a \in Aggs : \A b \in DependsOn(a) : DependsOn(b) \subseteq DependsOn(a)
         /\ \A g \in workflow.hops, h \in workflow.hops :
              Imports(g) /\ Imports(h) /\ DependsOn(Owner[g]) \cap DependsOn(Owner[h]) # {}
                => \/ Owner[g] = Owner[h]
                   \/ Owner[g] \in DependsOn(Owner[h]) \/ Owner[h] \in DependsOn(Owner[g])
         /\ \A h \in workflow.hops :
              Imports(h) => \A b \in DependsOn(Owner[h]) : Owner[From(h)] \notin DependsOn(b)
<1>1. DOMAIN workflow.deps = Aggs
  BY WorkflowAssumption DEF Aggs
<1> QED BY <1>1 DEF InTurn, DependsOn, Imports, From

\* The aggregate of a hop depends on those of all hops above it.
LEMMA UpstreamIsNeeded ==
  ASSUME workflow \in Workflows, InTurn(workflow), NEW f \in workflow.hops,
         NEW g \in Upstream[f] \ {f}
  PROVE  Owner[g] \in DependsOn(Owner[f])
<1> DEFINE Good(y) == \A x \in Upstream[y] \ {y} : Owner[x] \in DependsOn(Owner[y])
           B == {y \in workflow.hops : ~Good(y)}
<1>1. ASSUME NEW y \in B, Imports(y) => From(y) \notin B PROVE FALSE
  <2>1. PICK x \in Upstream[y] \ {y} : Owner[x] \notin DependsOn(Owner[y])
    BY <1>1
  <2>2. Imports(y) /\ Upstream[y] = {y} \cup Upstream[From(y)]
    BY <2>1, UpstreamIs
  <2>3. /\ From(y) \in workflow.hops /\ Owner[From(y)] \in DependsOn(Owner[y])
        /\ Owner[y] \in Aggs
    BY <2>2, Imported
  <2>4. Good(From(y))
    BY <1>1, <2>2, <2>3
  <2>5. x = From(y) \/ Owner[x] \in DependsOn(Owner[From(y)])
    BY <2>1, <2>2, <2>4
  <2>6. DependsOn(Owner[From(y)]) \subseteq DependsOn(Owner[y])
    BY <2>3, Turns
  <2> QED BY <2>1, <2>3, <2>5, <2>6
<1>2. B = {}
  <2>1. B \in SUBSET workflow.hops
    OBVIOUS
  <2> HIDE DEF B
  <2> QED BY <1>1, <2>1, SomeFirst
<1> QED BY <1>2

\* An aggregate between that of f and one above it, of which it imports, is on the
\* way of the tag.
LEMMA NoneIsPassedOver ==
  ASSUME workflow \in Workflows, InTurn(workflow), NEW f \in workflow.hops, Imports(f),
         NEW g \in Upstream[f], NEW y \in workflow.hops, Imports(y),
         Owner[y] \in DependsOn(Owner[f]), Owner[g] \in DependsOn(Owner[y])
  PROVE  \E x \in Upstream[f] : Owner[x] = Owner[y]
<1> DEFINE B == {x \in Upstream[f] : Imports(x) /\ Owner[y] \in DependsOn(Owner[x]) /\ g \in Upstream[x]}
<1>1. Upstream[f] \subseteq workflow.hops /\ f \in Upstream[f]
  BY OneSource
<1>2. B \in SUBSET workflow.hops /\ B # {}
  BY <1>1
<1>3. PICK x \in B : Imports(x) => From(x) \notin B
  <2> HIDE DEF B
  <2> QED BY <1>2, SomeFirst
<1> DEFINE u == From(x)
<1>4. /\ x \in workflow.hops /\ Imports(x) /\ u \in Upstream[f] /\ u \in workflow.hops
      /\ Owner[u] \in DependsOn(Owner[x]) /\ Owner[y] \in DependsOn(Owner[x])
      /\ Owner[x] \in Aggs /\ Owner[y] \in Aggs
  BY <1>1, <1>3, Imported, UpstreamIsClosed
<1>5. SUFFICES ASSUME Owner[u] # Owner[y] PROVE FALSE
  BY <1>4
<1>6. Owner[u] \notin DependsOn(Owner[y])
  BY <1>4, Turns
<1>7. g # x
  BY <1>4, Workflow
<1>8. g \in Upstream[u] /\ g # u
  BY <1>3, <1>4, <1>6, <1>7, UpstreamIs
<1>9. Imports(u) /\ Owner[g] \in DependsOn(Owner[u])
  <2> HIDE DEF u
  <2> QED BY <1>4, <1>8, UpstreamIs, UpstreamIsNeeded
<1>10. Owner[y] \in DependsOn(Owner[u])
  <2> HIDE DEF u
  <2> QED BY <1>4, <1>5, <1>6, <1>9, Turns
<1> QED BY <1>3, <1>4, <1>8, <1>9, <1>10

\* The hops that share their tag with f and import it have aggregates that depend
\* on that of the source.
LEMMA SpreadNeedsSource ==
  ASSUME workflow \in Workflows, InTurn(workflow), NEW f \in workflow.hops, Imports(f),
         NEW h \in Spread(f), Imports(h)
  PROVE  Owner[Source(f)] \in DependsOn(Owner[h])
<1> DEFINE r == Source(f)
           E == {x \in workflow.hops : IF Imports(x) THEN Owner[r] \in DependsOn(Owner[x])
                                                     ELSE Owner[x] = Owner[r]}
<1>1. r \in Upstream[f] /\ ~Imports(r) /\ Upstream[f] \subseteq workflow.hops
  BY OneSource
<1>2. ASSUME NEW x \in Upstream[f] PROVE x \in E
  <2>1. CASE Imports(x)
    <3>1. Source(x) = r
      BY <1>1, <2>1, <1>2, SameSource
    <3>2. r \in Upstream[x] \ {x}
      BY <1>1, <1>2, <2>1, <3>1, OneSource
    <3> QED BY <1>1, <1>2, <2>1, <3>2, UpstreamIsNeeded
  <2>2. CASE ~Imports(x)
    BY <1>1, <1>2, <2>2, OneSource
  <2> QED BY <2>1, <2>2
<1>3. ASSUME NEW x \in workflow.hops, IF Imports(x) THEN From(x) \in E \ Translates ELSE Owner[x] = Owner[r]
      PROVE  x \in E
  <2>1. CASE Imports(x)
    <3>1. From(x) \in E /\ Owner[From(x)] \in DependsOn(Owner[x]) /\ Owner[x] \in Aggs
      BY <1>3, <2>1, Imported
    <3>2. DependsOn(Owner[From(x)]) \subseteq DependsOn(Owner[x])
      BY <3>1, Turns
    <3> QED BY <2>1, <3>1, <3>2
  <2> QED BY <1>3, <2>1
<1>4. f \in E /\ r \in E
  BY <1>1, <1>2, OneSource
<1>5. Spread(f) \subseteq E
  <2>1. E \in SUBSET workflow.hops
    OBVIOUS
  <2> HIDE DEF E
  <2> QED BY <1>2, <1>3, <1>4, <2>1, SpreadIsLeast
<1> QED BY <1>5

\* Where each aggregate waits its turn, what has told its tags has all that it
\* depends on complete, until the circuit is given up.
InOrder ==
  pc \notin Giving =>
    \A y \in workflow.hops :
      Imports(y) /\ ~Unread(Owner[y]) => DependsOn(Owner[y]) \subseteq completed

\* What is deleted to be reserved anew was not complete, and an aggregate whose tag
\* is not available has not told all.
WorkIsLeft ==
  /\ pc = "redo" => cur \notin completed
  /\ pc \in After => Unread(cur) /\ DependenciesComplete(cur)

RInv == InTurn(workflow) => InOrder /\ WorkIsLeft

\* The reservations below what a retry deletes: they go with it.
LEMMA WhatIsReadGoes ==
  ASSUME IInv, AInv, RInv, workflow \in Workflows, InTurn(workflow), pc \in After,
         NEW f \in HopsOf(cur), Imports(f), NEW g \in Upstream[f] \ {f},
         NEW y \in workflow.hops, Imports(y), ~Unread(Owner[y]),
         Owner[g] \in DependsOn(Owner[y])
  PROVE  Owner[y] \in {Owner[x] : x \in Upstream[f]} \cap completed
<1>1. f \in workflow.hops /\ Owner[f] = cur
  BY DEF HopsOf
<1>2. Unread(cur) /\ DependenciesComplete(cur) /\ InOrder /\ pc \notin Giving
  BY DEF RInv, WorkIsLeft, After, Giving
<1>3. cur \notin completed
  BY <1>2 DEF AInv, CompleteAgrees, Agree, Unread
<1>4. cur # Owner[y] /\ cur \notin DependsOn(Owner[y])
  BY <1>2, <1>3 DEF InOrder
<1>5. Owner[g] \in DependsOn(cur)
  BY <1>1, UpstreamIsNeeded
<1>6. Owner[y] \in DependsOn(cur)
  BY <1>1, <1>4, <1>5, Turns
<1>7. Owner[y] \in completed
  BY <1>2, <1>6 DEF DependenciesComplete
<1>8. \E x \in Upstream[f] : Owner[x] = Owner[y]
  BY <1>1, <1>6, NoneIsPassedOver
<1> QED BY <1>7, <1>8

\* A retry that goes on keeps all reservations, or has deleted those above the hop
\* whose tag was not available.
LEMMA RetryKeepsOrDeletes ==
  ASSUME Unavailable, pc' \notin Giving
  PROVE  \/ UNCHANGED <<completed, man>>
         \/ LET f == FailedHop(cur, bad) IN
              /\ f # NoHop /\ Imports(f)
              /\ Delete({Owner[x] : x \in Upstream[f]} \cap completed, {})
<1> DEFINE f == FailedHop(cur, bad)
<1>1. \/ SourceWasAny(f) /\ RetryChain(cur, f)
      \/ RetryChainTooOften(cur, f) \/ RetryHere(cur, f)
  BY DEF Unavailable, HandleVlanUnavailable
<1> HIDE DEF f
<1>2. CASE RetryChainTooOften(cur, f) \/ RetryHere(cur, f)
  BY <1>2 DEF RetryChainTooOften, RetryHere
<1>3. CASE SourceWasAny(f) /\ RetryChain(cur, f)
  <2>1. UNCHANGED <<completed, man>> \/ DeleteUpstream(cur, f)
    BY <1>3 DEF RetryChain
  <2>2. CASE DeleteUpstream(cur, f)
    <3>1. pc' # "failing"
      BY DEF Giving
    <3>2. Delete({Owner[x] : x \in Upstream[f]} \cap completed, {})
      BY <2>2, <3>1 DEF DeleteUpstream, Goto
    <3> QED BY <1>3, <3>2 DEF SourceWasAny, f
  <2> QED BY <2>1, <2>2
<1> QED BY <1>1, <1>2, <1>3

\* A deletion: what stays has nothing deleted above it.
LEMMA DeletionKeepsOrder ==
  ASSUME workflow \in Workflows, workflow' = workflow, InTurn(workflow), InOrder, pc \notin Giving,
         NEW D, Delete(D, {}),
         \A y \in workflow.hops :
           Imports(y) /\ ~Unread(Owner[y]) /\ Owner[y] \notin D => D \cap DependsOn(Owner[y]) = {}
  PROVE  InOrder'
<1>1. /\ completed' = completed \ (D \cup UNION {Dependents(a) : a \in D})
      /\ man' = [h \in Hop |-> IF Owner[h] \in D THEN NoTag ELSE man[h]]
  BY DEF Delete, Uncomplete, Forget
<1>2. workflow.hops \subseteq Hop
  BY Workflow
<1>3. SUFFICES ASSUME NEW y \in workflow.hops, Imports(y), ~Unread(Owner[y])',
                      NEW a \in DependsOn(Owner[y])
               PROVE  a \in completed'
  BY DEF InOrder, Imports, From, DependsOn
<1>4. Owner[y] \notin D /\ ~Unread(Owner[y])
  <2>1. \A h \in workflow.hops : Owner[h] = Owner[y] => man'[h] # NoTag
    BY <1>3 DEF Unread, HopsOf
  <2>2. Owner[y] \notin D
    BY <1>1, <1>2, <2>1
  <2> QED BY <1>1, <1>2, <2>1, <2>2 DEF Unread, HopsOf
<1>5. a \in completed
  BY <1>3, <1>4 DEF InOrder
<1>6. D \cap DependsOn(Owner[y]) = {}
  BY <1>3, <1>4
<1>7. Owner[y] \in Aggs /\ DependsOn(a) \subseteq DependsOn(Owner[y])
  BY <1>3, Turns DEF Aggs
<1> QED BY <1>1, <1>3, <1>5, <1>6, <1>7 DEF Dependents

\* A step that deletes nothing and reads nothing.
LEMMA OrderAside ==
  ASSUME RInv, AInv, IInv, pc' # "redo", pc' \in After => pc \in Asking /\ cur' = cur,
         pc' \notin Giving => /\ UNCHANGED <<workflow, man>> /\ completed \subseteq completed'
                              /\ pc \notin Giving
  PROVE  RInv'
<1> SUFFICES ASSUME pc' \notin Giving, InTurn(workflow) PROVE InOrder' /\ WorkIsLeft'
  BY DEF RInv, InOrder, WorkIsLeft, After, Giving
<1>1. InOrder'
  BY DEF RInv, InOrder, Unread, HopsOf, Imports, From, DependsOn
<1>2. pc' \in After => Unread(cur) /\ DependenciesComplete(cur)
  BY DEF AInv, AskedIsUnread, IInv, DependenciesFirst, Asking
<1>3. WorkIsLeft'
  <2>1. SUFFICES ASSUME pc' \in After PROVE (Unread(cur) /\ DependenciesComplete(cur))'
    BY DEF WorkIsLeft
  <2>2. cur' = cur /\ Unread(cur) /\ DependenciesComplete(cur)
    BY <1>2, <2>1
  <2> QED BY <2>2 DEF Unread, HopsOf, DependenciesComplete, DependsOn
<1> QED BY <1>1, <1>3

\* What a manifest tells: cur, which all depends on, may have told all, unless a tag
\* is missing.
LEMMA ReadingKeepsOrder ==
  IInv /\ AInv /\ RInv /\ (Manifest \/ NoTagGiven \/ BrokenManifest) => RInv'
<1> SUFFICES ASSUME IInv, AInv, RInv, Manifest \/ NoTagGiven \/ BrokenManifest,
                    InTurn(workflow), pc' \notin Giving
             PROVE  InOrder' /\ WorkIsLeft'
  BY DEF RInv, InOrder, WorkIsLeft, After, Giving, Manifest, NoTagGiven, BrokenManifest, NotRead
<1>1. pc = "manifest" /\ UNCHANGED <<workflow, cur>>
  BY DEF Manifest, NoTagGiven, BrokenManifest, NotRead
<1>2. /\ workflow \in Workflows /\ workflow.hops \subseteq Hop /\ cur \in Aggs
      /\ DependenciesComplete(cur) /\ Unread(cur) /\ InOrder
  BY <1>1, Workflow DEF IInv, Placed, DependenciesFirst, AInv, AskedIsUnread, Asking, RInv
<1>3. completed \subseteq completed' /\ pc' \in {"next", "unavail"}
  BY ManifestReads DEF Giving
<1>4. PICK S \in SUBSET HopsOf(cur) : \E got \in [S -> Tag] : TakeTags(S, got)
  BY ManifestReads
<1>5. \A h \in workflow.hops : h \notin S => man'[h] = man[h]
  BY <1>2, <1>4 DEF TakeTags
<1>6. InOrder'
  <2>1. SUFFICES ASSUME NEW y \in workflow.hops, Imports(y), ~Unread(Owner[y])'
                 PROVE  DependsOn(Owner[y]) \subseteq completed'
    BY <1>1 DEF InOrder, Imports, From, DependsOn
  <2>2. CASE Owner[y] = cur
    BY <1>2, <1>3, <2>2 DEF DependenciesComplete
  <2>3. CASE Owner[y] # cur
    <3>1. \A h \in HopsOf(Owner[y]) : man'[h] = man[h]
      BY <1>5, <2>3 DEF HopsOf
    <3>2. ~Unread(Owner[y])
      BY <1>1, <2>1, <3>1 DEF Unread, HopsOf
    <3> QED BY <1>1, <1>2, <1>3, <2>1, <3>2 DEF InOrder, Giving
  <2> QED BY <2>2, <2>3
<1>7. WorkIsLeft'
  <2>1. SUFFICES ASSUME pc' = "unavail" PROVE (Unread(cur) /\ DependenciesComplete(cur))'
    BY <1>3 DEF WorkIsLeft, After
  <2>2. NoTagGiven
    BY <2>1 DEF Manifest, BrokenManifest, Goto
  <2>3. PICK h \in HopsOf(cur) : ReadUpTo(h)
    BY <2>2 DEF NoTagGiven
  <2>4. h \in workflow.hops /\ man'[h] = man[h]
    BY <1>2, <2>3 DEF ReadUpTo, TakeTags, HopsOf
  <2>5. man[h] = NoTag
    <3>1. CASE Kind[cur] = "eg"
      <4>1. \A g \in HopsOf(cur) : g = h
        BY <2>3, <3>1 DEF InTurn, HopsOf
      <4> QED BY <1>2, <4>1 DEF Unread
    <3>2. CASE Kind[cur] # "eg"
      BY <1>1, <2>3, <3>2 DEF AInv, AskedIsBlank
    <3> QED BY <3>1, <3>2
  <2> QED BY <1>1, <1>2, <1>3, <2>3, <2>4, <2>5 DEF Unread, HopsOf, DependenciesComplete, DependsOn
<1> QED BY <1>6, <1>7

\* The retry.
LEMMA RetryKeepsOrder ==
  IInv /\ LInv /\ AInv /\ RInv /\ Unavailable => RInv'
<1> SUFFICES ASSUME IInv, LInv, AInv, RInv, Unavailable, InTurn(workflow), pc' \notin Giving
             PROVE  InOrder' /\ WorkIsLeft'
  BY DEF RInv, InOrder, WorkIsLeft, After, Giving, Unavailable
<1> DEFINE f == FailedHop(cur, bad)
           D == {Owner[x] : x \in Upstream[f]} \cap completed
<1>1. pc \in After /\ workflow' = workflow /\ GivesUp(cur)
  BY UnavailableGivesUp DEF Unavailable, After
<1>2. workflow \in Workflows /\ InOrder /\ pc \notin Giving
  BY <1>1 DEF IInv, Placed, After, Giving, RInv
<1>3. WorkIsLeft'
  BY <1>1 DEF WorkIsLeft, GivesUp, After
<1>4. CASE UNCHANGED <<completed, man>>
  <2>1. \A a : Unread(a)' = Unread(a) /\ DependsOn(a)' = DependsOn(a)
    BY <1>1, <1>4 DEF Unread, HopsOf, DependsOn
  <2>2. \A h : Imports(h)' = Imports(h)
    BY <1>1 DEF Imports, From
  <2>3. InOrder'
    BY <1>1, <1>2, <1>4, <2>1, <2>2 DEF InOrder
  <2> QED BY <1>3, <2>3
<1>5. CASE f # NoHop /\ Imports(f) /\ Delete(D, {})
  <2>1. f \in HopsOf(cur) /\ f \in workflow.hops
    BY <1>1, <1>5, FailedHopIsHere
  <2>2. cur \notin completed
    BY <1>1 DEF AInv, CompleteAgrees, Agree, Unread, RInv, WorkIsLeft
  <2>3. ASSUME NEW y \in workflow.hops, Imports(y), ~Unread(Owner[y]), NEW d \in D,
               d \in DependsOn(Owner[y])
        PROVE  Owner[y] \in D
    <3>1. PICK g \in Upstream[f] : Owner[g] = d
      BY <2>3
    <3>2. g # f
      BY <2>1, <2>2, <2>3, <3>1 DEF HopsOf
    <3> HIDE DEF f
    <3> QED BY <1>1, <1>2, <1>5, <2>1, <2>3, <3>1, <3>2, WhatIsReadGoes
  <2>4. InOrder'
    <3> HIDE DEF D
    <3> QED BY <1>1, <1>2, <1>5, <2>3, DeletionKeepsOrder
  <2> QED BY <1>3, <2>4
<1> QED BY <1>3, <1>4, <1>5, RetryKeepsOrDeletes

\* Every step.
LEMMA StepKeepsOrder ==
  IInv /\ LInv /\ AInv /\ RInv /\ [Next]_vars => RInv'
<1> SUFFICES ASSUME IInv, LInv, AInv, RInv, [Next]_vars PROVE RInv'
  OBVIOUS
<1>1. CASE \/ ScsFails \/ LoopTimesOut \/ Planned \/ UpdateAvailRanges \/ EndPartiallyReserved
           \/ Launch
  <2>1. /\ pc' \in {"failed", "avail", "round", "scs", "done", "failing", "next"}
        /\ UNCHANGED <<workflow, man, completed>>
        /\ pc' \notin Giving => pc \notin Giving
    <3>1. CASE \/ ScsFails \/ LoopTimesOut \/ Planned \/ EndPartiallyReserved \/ Launch
      BY <3>1 DEF ScsFails, LoopTimesOut, Planned, EndPartiallyReserved, Launch, AllComplete, NoneReady,
                  StopBeforeTransit, ListReady, EndRound, TimedOut, Pause, Stop, Goto, UnchangedHere,
                  aggVars, hopVars, Giving
    <3>2. CASE UpdateAvailRanges
      BY <3>2 DEF UpdateAvailRanges, CheckAvail, ListFails, StillFree, NotFree, GiveUpWorkflow, Goto,
                  aggVars, Giving
    <3> QED BY <1>1, <3>1, <3>2
  <2> QED BY <2>1, OrderAside DEF After
<1>2. CASE CallScs
  <2>1. pc' = "planned" /\ workflow' \in Workflows /\ man' = [h \in Hop |-> NoTag]
    BY <1>2 DEF CallScs, Stop, Goto
  <2>2. workflow'.hops \subseteq Hop
    BY <2>1, WorkflowAssumption
  <2>3. \A y \in workflow'.hops : Unread(Owner[y])'
    BY <2>1, <2>2 DEF Unread, HopsOf
  <2> QED BY <2>1, <2>3 DEF RInv, InOrder, WorkIsLeft, After
<1>3. CASE CircuitFailed \/ StitchingFailed
  <2>1. pc' \in {"scs", "failed"}
    BY <1>3 DEF CircuitFailed, StitchingFailed, Stop, Goto
  <2> QED BY <2>1, OrderAside DEF After, Giving
<1>4. CASE Prepare
  <2>1. ASSUME NEW a \in todo, CopyFails(a) \/ Copy(a) PROVE RInv'
    <3>1. /\ pc = "next" /\ UNCHANGED <<workflow, man>> /\ cur' = a /\ a \notin completed
          /\ pc' \in {"failing", "circuit", "redo", "look", "next"}
          /\ \/ completed' = completed
             \/ completed' = completed \cup {a} /\ pc' = "next"
      BY <2>1 DEF CopyFails, Copy, Begin, Ready, Goto
    <3>2. CASE pc' # "redo"
      BY <3>1, <3>2, OrderAside DEF After, Giving
    <3>3. CASE pc' = "redo"
      <4>1. InTurn(workflow) => InOrder'
        BY <3>1, <3>3 DEF RInv, InOrder, Giving, Unread, HopsOf, Imports, From, DependsOn
      <4> QED BY <3>1, <3>3, <4>1 DEF RInv, WorkIsLeft, After
    <3> QED BY <3>2, <3>3
  <2>2. CASE Redo
    <3>1. pc = "redo" /\ workflow' = workflow /\ pc' \in {"look", "failing"}
      BY <2>2 DEF Redo, Goto
    <3>2. CASE pc' = "failing"
      BY <3>2, OrderAside DEF After, Giving
    <3>3. CASE pc' = "look"
      <4>1. Delete({cur}, {})
        BY <2>2, <3>3 DEF Redo, Goto
      <4>2. workflow \in Workflows
        BY <3>1 DEF IInv, Placed
      <4>3. ASSUME InTurn(workflow) PROVE InOrder'
        <5>1. InOrder /\ cur \notin completed /\ pc \notin Giving
          BY <3>1, <4>3 DEF RInv, WorkIsLeft, Giving
        <5>2. \A y \in workflow.hops :
                Imports(y) /\ ~Unread(Owner[y]) => {cur} \cap DependsOn(Owner[y]) = {}
          BY <5>1 DEF InOrder
        <5> QED BY <3>1, <4>1, <4>2, <4>3, <5>1, <5>2, DeletionKeepsOrder
      <4> QED BY <3>1, <3>3, <4>3 DEF RInv, WorkIsLeft, After
    <3> QED BY <3>1, <3>2, <3>3
  <2>3. CASE Look \/ NotSane \/ Request
    <3>1. /\ pc \in {"look", "request"} /\ UNCHANGED <<workflow, man, cur>>
          /\ pc' \in {"request", "circuit", "failing", "ask"}
          /\ completed' = completed \/ completed' = completed \ {cur}
      BY <2>3 DEF Look, LookAgain, NotSane, Request, UnchangedHere, Goto, aggVars, hopVars
    <3>2. cur \notin completed
      BY <3>1 DEF AInv, AskedIsUnread, CompleteAgrees, Agree, Unread
    <3> QED BY <3>1, <3>2, OrderAside DEF After, Giving
  <2> QED BY <1>4, <2>1, <2>2, <2>3 DEF Prepare
<1>5. CASE \/ Reserved \/ VlanError \/ Fatal \/ FromThePathService \/ AskAgain \/ BrokenAnswer
           \/ PollFails \/ PollReady \/ NotReadyDeleteFails \/ NotReady
  <2>1. /\ pc \in {"ask", "poll"} /\ UNCHANGED <<workflow, cur, man, completed>>
        /\ pc' # "redo"
    BY <1>5 DEF Reserved, VlanError, Fatal, FromThePathService, AskAgain, BrokenAnswer, PollFails,
                PollReady, NotReadyDeleteFails, NotReady, UnchangedAnswer, hopVars, Goto, Retry
  <2> QED BY <2>1, OrderAside DEF Asking, Giving
<1>6. CASE UNCHANGED vars
  BY <1>6 DEF vars, aggVars, hopVars, RInv, InOrder, WorkIsLeft, Unread, HopsOf, Imports, From,
              DependsOn, DependenciesComplete
<1> QED BY <1>1, <1>2, <1>3, <1>4, <1>5, <1>6, ReadingKeepsOrder, RetryKeepsOrder DEF Next, Reserve

LEMMA InitInOrder == Init => RInv
BY DEF Init, RInv, InOrder, WorkIsLeft, After, Giving

\* The source of a tag hands it to some hop.
LEMMA SourceHandsOn ==
  ASSUME workflow \in Workflows, NEW h \in workflow.hops, Imports(h)
  PROVE  \E x \in workflow.hops : Imports(x) /\ From(x) = Source(h)
<1> DEFINE B == {y \in Upstream[h] : Imports(y)}
<1>1. Upstream[h] \subseteq workflow.hops /\ h \in B
  BY OneSource
<1>2. PICK x \in B : Imports(x) => From(x) \notin B
  <2>1. B \in SUBSET workflow.hops /\ B # {}
    BY <1>1
  <2> HIDE DEF B
  <2> QED BY <2>1, SomeFirst
<1>3. x \in Upstream[h] /\ Imports(x) /\ From(x) \in Upstream[h] /\ ~Imports(From(x))
  BY <1>2, UpstreamIsClosed
<1> QED BY <1>1, <1>3, OneSource

\* Where the aggregates are orderly, a retry suggests no other tag to a hop that
\* imports its tag, without a deletion of what its aggregate has told.
LEMMA OrderlySuggestions ==
  ASSUME Plain, Orderly, IInv, LInv, AInv, RInv, [Next]_vars
  PROVE  [~SuggestsAnew]_vars
<1> SUFFICES ASSUME Next, SuggestsAnew PROVE FALSE
  OBVIOUS
<1> DEFINE f == FailedHop(cur, bad)
           D == {Owner[x] : x \in Upstream[f]} \cap completed
<1>1. pc \in After /\ Unavailable /\ pc' \notin Giving /\ workflow' = workflow
  BY WhoGoesBack DEF SuggestsAnew, Unavailable
<1>2. workflow \in Workflows /\ workflow.hops \subseteq Hop /\ Translates = {}
  BY <1>1, Workflow DEF IInv, Placed, Plain, After
<1>3. f \in HopsOf(cur) \cup {NoHop} /\ (f # NoHop => f \in workflow.hops)
  BY <1>1, FailedHopIsHere DEF HopsOf
<1>4. PICK h \in workflow.hops : Imports(h) /\ Settled(h)' /\ sug'[h] # sug[h]
  BY <1>1 DEF SuggestsAnew
<1>5. \/ SourceWasAny(f) /\ RetryChain(cur, f)
      \/ RedoHere(cur, f)
  <2> HIDE DEF f
  <2>1. sug' # sug
    BY <1>4
  <2> QED BY <1>1, <2>1 DEF Unavailable, HandleVlanUnavailable, RetryHere, RetryChainTooOften,
                            CannotRedo, f
<1>6. CASE RedoHere(cur, f)
  <2> HIDE DEF f
  <2>1. sug' # sug
    BY <1>4
  <2>2. PICK s \in NewTags(cur, f) : sug' = [x \in Hop |-> IF x \in DOMAIN s THEN s[x] ELSE sug[x]]
    BY <1>6, <2>1 DEF RedoHere
  <2>3. h \in FailedHops(cur, f)
    BY <1>2, <1>4, <2>2 DEF NewTags
  <2>4. h \in HopsOf(cur)
    BY <1>3, <2>3 DEF FailedHops
  <2> QED BY <1>2, <1>3, <1>4, <1>6, <2>4, NoneImportsHere
<1>7. CASE SourceWasAny(f) /\ RetryChain(cur, f)
  <2>1. f \in HopsOf(cur) /\ f \in workflow.hops /\ Imports(f) /\ sug[Source(f)] = AnyTag
    BY <1>3, <1>7 DEF SourceWasAny
  <2>2. Source(f) \in Upstream[f] \ {f} /\ ~Imports(Source(f)) /\ Source(f) \in workflow.hops
    BY <2>1, OneSource, <1>2
  <2>3. CASE Certain(workflow)
    <3> HIDE DEF f
    <3>1. SupportsAny(Owner[Source(f)])
      BY <2>1, <2>2 DEF LInv, AnyIsForPickers
    <3>2. PICK x \in workflow.hops : Imports(x) /\ From(x) = Source(f)
      BY <1>2, <2>1, SourceHandsOn
    <3> QED BY <2>2, <2>3, <3>1, <3>2 DEF Certain, Imports, From
  <2>4. CASE InTurn(workflow)
    <3>1. h \in Spread(f) /\ Delete(D, {})
      <4> HIDE DEF f
      <4>1. sug' # sug
        BY <1>4
      <4>2. DeleteUpstream(cur, f)
        BY <1>7, <4>1 DEF RetryChain
      <4>3. pc' # "failing"
        BY <1>1 DEF Giving
      <4>4. Delete({Owner[x] : x \in Upstream[f]} \cap completed, {})
        BY <4>2, <4>3 DEF DeleteUpstream, Goto
      <4>5. \E s : sug' = [x \in Hop |-> IF x \in Spread(f) THEN s[x] ELSE sug[x]]
        BY <1>7, <4>1 DEF RetryChain
      <4> QED BY <1>2, <1>4, <4>4, <4>5 DEF D
    <3>2. man' = [x \in Hop |-> IF Owner[x] \in D THEN NoTag ELSE man[x]]
      <4> HIDE DEF D
      <4> QED BY <3>1 DEF Delete, Forget
    <3>3. Owner[h] \notin D /\ ~Unread(Owner[h])
      <4> HIDE DEF D
      <4>1. Owner[h] \notin D /\ man[h] # NoTag
        BY <1>2, <1>4, <3>2 DEF Settled
      <4>2. CASE Kind[Owner[h]] = "eg"
        <5>1. \A g \in HopsOf(Owner[h]) : g = h
          BY <2>4, <4>2 DEF InTurn, HopsOf
        <5> QED BY <4>1, <5>1 DEF Unread
      <4>3. CASE Kind[Owner[h]] # "eg"
        <5>1. ~Unread(Owner[h])'
          BY <1>4, <4>3 DEF Settled
        <5> QED BY <1>1, <1>2, <3>2, <4>1, <5>1 DEF Unread, HopsOf
      <4> QED BY <4>1, <4>2, <4>3
    <3>4. Owner[Source(f)] \in DependsOn(Owner[h])
      <4> HIDE DEF f
      <4> QED BY <1>2, <1>4, <2>1, <2>4, <3>1, SpreadNeedsSource
    <3>5. Owner[h] \in D
      <4> DEFINE g == Source(f)
      <4>1. g \in Upstream[f] \ {f} /\ Owner[g] \in DependsOn(Owner[h])
        BY <2>2, <3>4
      <4> HIDE DEF f, g
      <4> QED BY <1>1, <1>2, <1>4, <2>1, <2>4, <3>3, <4>1, WhatIsReadGoes DEF D
    <3> QED BY <3>3, <3>5
  <2> QED BY <1>2, <2>3, <2>4 DEF Orderly
<1> QED BY <1>5, <1>6, <1>7

-----------------------------------------------------------------------------
(* The schedule. *)

\* A step that reserves and withdraws nothing.
LEMMA IdleStep ==
  ASSUME AInv, UNCHANGED <<workflow, man, completed>>, pc \notin {"done", "failed"},
         pc' = "done" => Aggs \subseteq completed
  PROVE  [Schedule!Next]_(Schedule!vars)
<1>1. CASE pc' = "done"
  <2>1. Schedule!Finish
    BY <1>1 DEF Schedule!Finish, Schedule!Aggregates, Aggs
  <2> QED BY <2>1 DEF Schedule!Next
<1>2. CASE pc' = "failed"
  <2>1. Schedule!Withdraw({}, {})
    BY <1>2 DEF Schedule!Withdraw, Schedule!Waiting, AInv, ReadTags
  <2> QED BY <2>1 DEF Schedule!Next
<1>3. CASE pc' \notin {"done", "failed"}
  BY <1>3 DEF Schedule!vars
<1> QED BY <1>1, <1>2, <1>3

\* A deletion.
LEMMA DeletionWithdraws ==
  ASSUME workflow' = workflow, pc \notin {"done", "failed"}, pc' # "done",
         NEW D \in SUBSET Aggs, NEW failing, Delete(D, failing)
  PROVE  [Schedule!Next]_(Schedule!vars)
<1>1. completed' = completed \ (D \cup UNION {Dependents(a) : a \in D})
  BY DEF Delete, Uncomplete
<1>2. Schedule!Waiting(D) = UNION {Dependents(a) : a \in D}
  BY DEF Schedule!Waiting, Schedule!Aggregates, Dependents, DependsOn, Aggs
<1>3. man' = [h \in Hop |-> IF Owner[h] \in D \ failing THEN NoTag ELSE man[h]]
  BY DEF Delete, Forget
<1>4. Schedule!Withdraw(D, D \ failing)
  BY <1>1, <1>2, <1>3 DEF Schedule!Withdraw
<1>5. D \in SUBSET Schedule!Aggregates
  BY DEF Schedule!Aggregates, Aggs
<1> QED BY <1>4, <1>5 DEF Schedule!Next

\* What handleVlanUnavailable deletes was complete.
LEMMA UnavailableDeletes ==
  ASSUME NEW a, NEW h, HandleVlanUnavailable(a, h)
  PROVE  Keeps \/ \E D \in SUBSET completed : \E failing : Delete(D, failing)
<1> DEFINE f == FailedHop(a, h)
<1>1. RetryChain(a, f) \/ RetryChainTooOften(a, f) \/ RetryHere(a, f)
  BY DEF HandleVlanUnavailable
<1> HIDE DEF f
<1>2. CASE RetryChainTooOften(a, f) \/ RetryHere(a, f)
  BY <1>2 DEF RetryChainTooOften, RetryHere, Keeps, amVars
<1>3. CASE RetryChain(a, f)
  <2>1. \/ UNCHANGED <<completed, manifest, man, held>>
        \/ DeleteUpstream(a, f)
    BY <1>3 DEF RetryChain, amVars
  <2>2. CASE DeleteUpstream(a, f)
    <3> DEFINE Done(S) == {Owner[g] : g \in S} \cap completed
    <3>1. \/ Delete(Done(Upstream[f]), {})
          \/ \E b \in Done(Upstream[f]), g \in Upstream[f] :
               Delete(Done(Upstream[f] \ Upstream[g]) \cup {b}, {b})
      BY <2>2 DEF DeleteUpstream
    <3>2. CASE Delete(Done(Upstream[f]), {})
      <4>1. Done(Upstream[f]) \in SUBSET completed
        OBVIOUS
      <4> QED BY <3>2, <4>1
    <3>3. ASSUME NEW b \in Done(Upstream[f]), NEW g \in Upstream[f],
                 Delete(Done(Upstream[f] \ Upstream[g]) \cup {b}, {b})
          PROVE  \E D \in SUBSET completed : \E failing : Delete(D, failing)
      <4>1. Done(Upstream[f] \ Upstream[g]) \cup {b} \in SUBSET completed
        OBVIOUS
      <4> QED BY <3>3, <4>1
    <3> QED BY <3>1, <3>2, <3>3
  <2> QED BY <2>1, <2>2 DEF Keeps
<1> QED BY <1>1, <1>2, <1>3

\* What is left to do once the stitcher has ended: nothing.
LEMMA NothingAfterTheEnd == Next => pc \notin {"done", "failed"}
<1>1. CASE \/ ScsFails \/ LoopTimesOut \/ CallScs \/ Planned \/ UpdateAvailRanges
           \/ CircuitFailed \/ StitchingFailed \/ EndPartiallyReserved
  BY <1>1 DEF ScsFails, LoopTimesOut, CallScs, Planned, UpdateAvailRanges, CircuitFailed,
              StitchingFailed, EndPartiallyReserved
<1>2. CASE Launch
  BY <1>2 DEF Launch, AllComplete, NoneReady, StopBeforeTransit, ListReady, EndRound, TimedOut,
              Pause
<1>3. CASE Prepare
  BY <1>3 DEF Prepare, CopyFails, Copy, Begin, Redo, Look, NotSane, Request
<1>4. CASE Reserve
  BY <1>4 DEF Reserve, Reserved, VlanError, Fatal, FromThePathService, AskAgain, BrokenAnswer,
              PollFails, PollReady, NotReadyDeleteFails, NotReady, Manifest, NoTagGiven,
              BrokenManifest, NotRead, Unavailable
<1> QED BY <1>1, <1>2, <1>3, <1>4 DEF Next

\* The main loop and the launcher: another plan, the end, or nothing.
LEMMA LoopIsScheduled ==
  ASSUME IInv, AInv,
         \/ ScsFails \/ LoopTimesOut \/ CallScs \/ Planned \/ UpdateAvailRanges
         \/ CircuitFailed \/ StitchingFailed \/ EndPartiallyReserved \/ Launch
  PROVE  [Schedule!Next]_(Schedule!vars)
<1>1. pc \notin {"done", "failed"}
  BY NothingAfterTheEnd DEF Next
<1>2. CASE CallScs
  <2>1. workflow' \in Workflows /\ man' = [h \in Hop |-> NoTag] /\ completed' = {} /\ pc' = "planned"
    BY <1>2 DEF CallScs, Stop, Goto
  <2> QED BY <1>1, <2>1 DEF Schedule!Next, Schedule!Replan
<1>3. CASE CircuitFailed \/ StitchingFailed
  <2>1. PICK failing : DeleteAll(failing)
    BY <1>3 DEF CircuitFailed, StitchingFailed
  <2>2. workflow' = workflow /\ pc' # "done"
    BY <1>3 DEF CircuitFailed, StitchingFailed, Stop, Goto
  <2> QED BY <1>1, <2>1, <2>2, DeletionWithdraws DEF DeleteAll
<1>4. CASE \/ ScsFails \/ LoopTimesOut \/ Planned \/ UpdateAvailRanges \/ EndPartiallyReserved
           \/ Launch
  <2>1. UNCHANGED <<workflow, man, completed>>
    BY <1>4 DEF ScsFails, LoopTimesOut, Planned, UpdateAvailRanges, EndPartiallyReserved, Launch,
                AllComplete, NoneReady, StopBeforeTransit, ListReady, EndRound, TimedOut, Pause,
                UnchangedHere, aggVars, hopVars
  <2>2. CASE UpdateAvailRanges
    <3>1. pc' # "done"
      BY <1>1, <2>2 DEF UpdateAvailRanges, CheckAvail, ListFails, StillFree, NotFree, GiveUpWorkflow,
                        Goto
    <3> QED BY <1>1, <2>1, <3>1, IdleStep
  <2>3. CASE ~UpdateAvailRanges
    <3>1. pc' = "done" => Aggs \subseteq completed
      BY <1>4, <2>3 DEF ScsFails, LoopTimesOut, Planned, EndPartiallyReserved, Launch, AllComplete,
                        NoneReady, StopBeforeTransit, ListReady, EndRound, TimedOut, Pause, Stop, Goto
    <3> QED BY <1>1, <2>1, <3>1, IdleStep
  <2> QED BY <2>2, <2>3
<1> QED BY <1>2, <1>3, <1>4

\* Work on an aggregate before the request: what it has reserved is found to fit, is
\* deleted, or is not of interest.
LEMMA PrepareIsScheduled ==
  ASSUME IInv, AInv, AInv', Prepare
  PROVE  [Schedule!Next]_(Schedule!vars)
<1>1. pc \notin {"done", "failed"}
  BY NothingAfterTheEnd DEF Next
<1>2. ASSUME NEW a \in todo, CopyFails(a) \/ Copy(a)
      PROVE  [Schedule!Next]_(Schedule!vars)
  <2>1. UNCHANGED <<workflow, man>> /\ Ready(a) /\ a \in Aggs
    BY <1>2 DEF CopyFails, Copy, Begin, IInv, Placed
  <2>2. \/ completed' = completed /\ pc' # "done"
        \/ completed' = completed \cup {a} /\ pc' = "next"
    BY <1>2 DEF CopyFails, Copy, Goto
  <2>3. CASE completed' = completed \cup {a} /\ pc' = "next"
    <3>1. Agree(a)
      BY <2>1, <2>3 DEF AInv, CompleteAgrees, Agree, HopsOf, Imports, From
    <3>2. Schedule!Keep(a)
      BY <1>1, <2>1, <2>3, <3>1 DEF Schedule!Keep, Schedule!Reserved, Schedule!Fits, Schedule!Ends,
                                    Agree, HopsOf, Imports, From, Ready, DependenciesComplete, DependsOn
    <3> QED BY <1>1, <2>1, <3>2 DEF Schedule!Next, Schedule!Aggregates, Aggs
  <2> QED BY <1>1, <2>1, <2>2, <2>3, IdleStep
<1>3. CASE Redo
  <2>1. PICK failing : Delete({cur}, failing)
    BY <1>3 DEF Redo
  <2>2. workflow' = workflow /\ pc' # "done" /\ {cur} \in SUBSET Aggs
    BY <1>3 DEF Redo, Goto, IInv, Placed, Before
  <2> QED BY <1>1, <2>1, <2>2, DeletionWithdraws
<1>4. CASE Look \/ NotSane \/ Request
  <2>1. UNCHANGED <<workflow, man>> /\ pc' # "done"
    BY <1>4 DEF Look, LookAgain, NotSane, Request, UnchangedHere, Goto, hopVars
  <2>2. completed' = completed
    <3>1. CASE Request
      <4>1. Unread(cur) /\ completed' = completed \ {cur}
        BY <3>1 DEF AInv, AskedIsUnread, Request
      <4>2. cur \notin completed
        BY <4>1 DEF AInv, CompleteAgrees, Agree, Unread
      <4> QED BY <4>1, <4>2
    <3> QED BY <1>4, <3>1 DEF Look, NotSane, UnchangedHere, aggVars
  <2> QED BY <1>1, <2>1, <2>2, IdleStep
<1> QED BY <1>2, <1>3, <1>4 DEF Prepare

\* The request, its answer, and what is made of a tag that is not available.
LEMMA ReserveIsScheduled ==
  ASSUME IInv, AInv, AInv', Reserve
  PROVE  [Schedule!Next]_(Schedule!vars)
<1>1. pc \notin {"done", "failed"}
  BY NothingAfterTheEnd DEF Next
<1>2. CASE \/ Reserved \/ VlanError \/ Fatal \/ FromThePathService \/ AskAgain \/ BrokenAnswer
           \/ PollFails \/ PollReady \/ NotReadyDeleteFails \/ NotReady
  <2>1. UNCHANGED <<workflow, man, completed>> /\ pc' # "done"
    BY <1>2 DEF Reserved, VlanError, Fatal, FromThePathService, AskAgain, BrokenAnswer, PollFails,
                PollReady, NotReadyDeleteFails, NotReady, UnchangedAnswer, hopVars, Goto, Retry
  <2> QED BY <1>1, <2>1, IdleStep
<1>3. CASE Manifest \/ NoTagGiven \/ BrokenManifest
  <2>1. pc = "manifest" /\ workflow' = workflow
    BY <1>3 DEF Manifest, NoTagGiven, BrokenManifest, NotRead
  <2>2. cur \in Aggs /\ DependenciesComplete(cur) /\ Unread(cur)
    BY <2>1 DEF IInv, Placed, DependenciesFirst, AInv, AskedIsUnread, Asking
  <2>3. pc' \in {"next", "failing", "unavail"}
    BY <1>3, ManifestReads
  <2>4. \E S \in SUBSET HopsOf(cur) : \E got \in [S -> Tag] :
          man' = [h \in Hop |-> IF h \in S THEN got[h] ELSE man[h]]
    BY <1>3, ManifestReads DEF TakeTags
  <2>5. completed' = completed \/ completed' = completed \cup {cur}
    BY <1>3, ManifestReads
  <2>6. completed' = completed \cup {cur} => Schedule!Reserved(cur)' /\ Schedule!Fits(cur)'
    <3>1. cur \in completed' => Agree(cur)'
      <4>1. PICK a : a = cur
        OBVIOUS
      <4>2. a \in completed' => Agree(a)'
        BY DEF AInv, CompleteAgrees
      <4>3. cur' = cur
        BY <1>3 DEF Manifest, NoTagGiven, BrokenManifest, NotRead
      <4> QED BY <4>1, <4>2, <4>3
    <3> QED BY <2>1, <3>1 DEF Agree, HopsOf, Imports, From, Schedule!Reserved, Schedule!Fits,
                             Schedule!Ends
  <2>7. Schedule!Reserve(cur)
    <3>1. ~Schedule!Reserved(cur) /\ Schedule!Ends(cur) = HopsOf(cur)
      BY <2>2 DEF Unread, HopsOf, Schedule!Reserved, Schedule!Ends
    <3>2. workflow.deps[cur] \subseteq completed
      BY <2>2 DEF DependenciesComplete, DependsOn
    <3> QED BY <1>1, <2>1, <2>3, <2>4, <2>5, <2>6, <3>1, <3>2 DEF Schedule!Reserve
  <2> QED BY <1>1, <2>2, <2>7 DEF Schedule!Next, Schedule!Aggregates, Aggs
<1>4. CASE Unavailable
  <2>1. workflow' = workflow /\ GivesUp(cur)
    BY <1>4, UnavailableGivesUp DEF Unavailable
  <2>2. pc' # "done"
    BY <2>1 DEF GivesUp
  <2>3. Keeps \/ \E D \in SUBSET Aggs : \E failing : Delete(D, failing)
    BY <1>4, UnavailableDeletes DEF Unavailable, AInv, CompleteAgrees
  <2>4. CASE Keeps
    BY <1>1, <2>1, <2>2, <2>4, IdleStep DEF Keeps
  <2> QED BY <1>1, <2>1, <2>2, <2>3, <2>4, DeletionWithdraws
<1> QED BY <1>2, <1>3, <1>4 DEF Reserve

LEMMA StepIsScheduled ==
  IInv /\ AInv /\ AInv' /\ [Next]_vars => [Schedule!Next]_(Schedule!vars)
<1> SUFFICES ASSUME IInv, AInv, AInv', [Next]_vars PROVE [Schedule!Next]_(Schedule!vars)
  OBVIOUS
<1>1. CASE UNCHANGED vars
  BY <1>1 DEF vars, aggVars, hopVars, Schedule!vars
<1>2. CASE Next
  BY <1>2, LoopIsScheduled, PrepareIsScheduled, ReserveIsScheduled DEF Next
<1> QED BY <1>1, <1>2

LEMMA InitIsScheduled == Init => Schedule!Init
BY DEF Init, Schedule!Init

\* The stitcher keeps the schedule (ImplementsSchedule), whatever the hops, unless
\* a retry suggests another tag to a hop and keeps what is reserved for it.
THEOREM ScheduleUnlessSuggestedAnew ==
  Spec /\ [][~SuggestsAnew]_vars => ImplementsSchedule
<1>1. Spec /\ [][~SuggestsAnew]_vars => []AInv
  BY StepAgrees, InitAgrees, Inductive, PTL DEF Spec
<1>2. QED
  BY <1>1, Inductive, StepIsScheduled, InitIsScheduled, PTL
     DEF Spec, ImplementsSchedule, Schedule!Spec

\* Where no hop translates and the aggregates are orderly, the stitcher keeps the
\* schedule (ImplementsSchedule), whatever fails.
THEOREM OrderlyCircuitsKeepSchedule ==
  ASSUME Plain, Orderly
  PROVE  Spec => ImplementsSchedule
<1>1. IInv /\ LInv /\ AInv /\ RInv /\ [Next]_vars => [~SuggestsAnew]_vars
  BY OrderlySuggestions
<1>2. IInv /\ LInv /\ AInv /\ RInv /\ [Next]_vars => AInv' /\ RInv'
  BY <1>1, StepAgrees, StepKeepsOrder
<1>3. Spec => []LInv
  BY PlainCircuitsLearn
<1>4. Spec => [](AInv /\ RInv)
  BY <1>2, <1>3, InitAgrees, InitInOrder, Inductive, PTL DEF Spec
<1>5. Spec => [][~SuggestsAnew]_vars
  BY <1>1, <1>3, <1>4, Inductive, PTL DEF Spec
<1> QED BY <1>5, ScheduleUnlessSuggestedAnew, PTL

\* What the schedule alone says of every state.
Scheduled ==
  /\ workflow \in Workflows \cup {NoWorkflow}
  /\ CompleteAgrees
  /\ ReadTags
  /\ pc = "done" => Aggs \subseteq completed

\* No aggregate is complete before there is a workflow, and what an aggregate that
\* is complete imports comes from those it depends on.
LEMMA CompleteDepends ==
  ASSUME Scheduled, NEW b \in completed
  PROVE  /\ workflow \in Workflows
         /\ \A h \in HopsOf(b) : Imports(h) => Owner[From(h)] \in DependsOn(b) /\ From(h) \in Hop
         /\ DependsOn(b) \subseteq Aggs
<1>1. workflow \in Workflows
  BY DEF Scheduled, CompleteAgrees, Aggs, NoWorkflow
<1>2. b \in Aggs
  BY DEF Scheduled, CompleteAgrees
<1> QED BY <1>1, <1>2, Imported, Workflow DEF HopsOf

\* New tags at an aggregate that has not told all: nothing that is complete
\* depends on it.
LEMMA ReservingFits ==
  ASSUME Scheduled, NEW a \in Schedule!Aggregates, Schedule!Reserve(a)
  PROVE  CompleteAgrees' /\ ReadTags'
<1>1. workflow' = workflow /\ a \in Aggs /\ Unread(a) /\ DependsOn(a) \subseteq completed
  BY DEF Schedule!Reserve, Schedule!Aggregates, Aggs, Schedule!Reserved, Schedule!Ends, Unread,
         HopsOf, DependsOn
<1>2. PICK S \in SUBSET HopsOf(a) : \E got \in [S -> Tag] :
              man' = [h \in Hop |-> IF h \in S THEN got[h] ELSE man[h]]
  BY DEF Schedule!Reserve, Schedule!Ends, HopsOf
<1>3. PICK got \in [S -> Tag] : man' = [h \in Hop |-> IF h \in S THEN got[h] ELSE man[h]]
  BY <1>2
<1>4. \A h \in Hop : Owner[h] # a => man'[h] = man[h]
  BY <1>3 DEF HopsOf
<1>5. ReadTags'
  BY <1>3 DEF Scheduled, ReadTags
<1>6. \A b \in completed : b # a /\ Agree(b)' /\ \A x \in DependsOn(b) : ~Unread(x)'
  <2> SUFFICES ASSUME NEW b \in completed
               PROVE  b # a /\ Agree(b)' /\ \A x \in DependsOn(b) : ~Unread(x)'
    OBVIOUS
  <2>1. Agree(b) /\ \A x \in DependsOn(b) : ~Unread(x)
    BY DEF Scheduled, CompleteAgrees
  <2>2. b # a /\ a \notin DependsOn(b)
    BY <1>1, <2>1 DEF Agree, Unread
  <2>3. workflow.hops \subseteq Hop
    BY CompleteDepends, Workflow
  <2>4. Agree(b)'
    <3>1. \A h \in HopsOf(b) : man'[h] = man[h]
      BY <1>4, <2>2, <2>3 DEF HopsOf
    <3>2. \A h \in HopsOf(b) : Imports(h) => man'[From(h)] = man[From(h)]
      BY <1>4, <2>2, CompleteDepends
    <3> QED BY <1>1, <2>1, <3>1, <3>2 DEF Agree, HopsOf, Imports, From
  <2>5. \A x \in DependsOn(b) : ~Unread(x)'
    BY <1>1, <1>4, <2>1, <2>2, <2>3 DEF Unread, HopsOf
  <2> QED BY <2>2, <2>4, <2>5
<1>7. CASE completed' = completed
  <2>1. Aggs' = Aggs /\ \A b : DependsOn(b)' = DependsOn(b)
    BY <1>1 DEF Aggs, DependsOn
  <2> QED BY <1>5, <1>6, <1>7, <2>1 DEF Scheduled, CompleteAgrees
<1>8. CASE completed' = completed \cup {a} /\ Schedule!Reserved(a)' /\ Schedule!Fits(a)'
  <2>1. Aggs' = Aggs /\ \A b : DependsOn(b)' = DependsOn(b)
    BY <1>1 DEF Aggs, DependsOn
  <2>2. Agree(a)'
    BY <1>8 DEF Agree, HopsOf, Imports, From, Schedule!Reserved, Schedule!Fits, Schedule!Ends
  <2>3. \A x \in DependsOn(a) : ~Unread(x)'
    BY <1>1, <1>6 DEF Agree, Unread
  <2> QED BY <1>1, <1>5, <1>6, <1>8, <2>1, <2>2, <2>3 DEF Scheduled, CompleteAgrees
<1> QED BY <1>7, <1>8 DEF Schedule!Reserve

\* A withdrawal takes the completeness of all that could miss what is gone.
LEMMA WithdrawingFits ==
  ASSUME Scheduled, NEW D \in SUBSET Schedule!Aggregates, NEW E \in SUBSET D,
         Schedule!Withdraw(D, E)
  PROVE  CompleteAgrees' /\ ReadTags'
<1>1. /\ workflow' = workflow
      /\ completed' = completed \ (D \cup Schedule!Waiting(D))
      /\ man' = [h \in Hop |-> IF Owner[h] \in E THEN NoTag ELSE man[h]]
  BY DEF Schedule!Withdraw
<1>2. ReadTags'
  BY <1>1 DEF Scheduled, ReadTags
<1>3. \A b \in completed' : Agree(b)' /\ \A x \in DependsOn(b) : ~Unread(x)'
  <2> SUFFICES ASSUME NEW b \in completed'
               PROVE  Agree(b)' /\ \A x \in DependsOn(b) : ~Unread(x)'
    OBVIOUS
  <2>1. b \in completed /\ b \in Aggs /\ Agree(b) /\ \A x \in DependsOn(b) : ~Unread(x)
    BY <1>1 DEF Scheduled, CompleteAgrees
  <2>2. b \notin D /\ DependsOn(b) \cap D = {}
    BY <1>1, <2>1 DEF Schedule!Waiting, Schedule!Aggregates, Aggs, DependsOn
  <2>3. \A h \in Hop : Owner[h] \in DependsOn(b) \cup {b} => man'[h] = man[h]
    BY <1>1, <2>2
  <2>4. workflow.hops \subseteq Hop
    BY <2>1, CompleteDepends, Workflow
  <2>5. Agree(b)'
    <3>1. \A h \in HopsOf(b) : man'[h] = man[h]
      BY <2>3, <2>4 DEF HopsOf
    <3>2. \A h \in HopsOf(b) : Imports(h) => man'[From(h)] = man[From(h)]
      BY <2>1, <2>3, CompleteDepends
    <3> QED BY <1>1, <2>1, <3>1, <3>2 DEF Agree, HopsOf, Imports, From
  <2>6. \A x \in DependsOn(b) : ~Unread(x)'
    BY <1>1, <2>1, <2>3, <2>4 DEF Unread, HopsOf
  <2> QED BY <2>5, <2>6
<1>4. Aggs' = Aggs /\ \A b : DependsOn(b)' = DependsOn(b)
  BY <1>1 DEF Aggs, DependsOn
<1> QED BY <1>1, <1>2, <1>3, <1>4 DEF Scheduled, CompleteAgrees

LEMMA ScheduleStep ==
  Scheduled /\ [Schedule!Next]_(Schedule!vars) => Scheduled'
<1> SUFFICES ASSUME Scheduled, [Schedule!Next]_(Schedule!vars) PROVE Scheduled'
  OBVIOUS
<1> DEFINE Outcome == IF pc \in {"done", "failed"} THEN pc ELSE "working"
<1>1. CASE UNCHANGED Schedule!vars
  <2>1. UNCHANGED <<workflow, man, completed>> /\ Outcome' = Outcome
    BY <1>1 DEF Schedule!vars
  <2>2. pc' = "done" => pc = "done"
    BY <2>1
  <2> QED BY <2>1, <2>2 DEF Scheduled, CompleteAgrees, ReadTags, Agree, Unread, HopsOf, Aggs,
                           DependsOn, Imports, From
<1>2. ASSUME Schedule!Replan, Outcome = "working" PROVE Scheduled'
  <2>1. workflow' \in Workflows /\ man' = [h \in Hop |-> NoTag] /\ completed' = {}
    BY <1>2 DEF Schedule!Replan
  <2>2. Outcome' = Outcome
    BY <1>2 DEF Schedule!Replan
  <2>3. pc' # "done"
    BY <1>2, <2>2
  <2> QED BY <2>1, <2>3 DEF Scheduled, CompleteAgrees, ReadTags
<1>3. ASSUME NEW a \in Schedule!Aggregates, Schedule!Reserve(a), Outcome = "working"
      PROVE  Scheduled'
  <2>1. workflow' = workflow /\ Outcome' = Outcome
    BY <1>3 DEF Schedule!Reserve
  <2>2. pc' # "done"
    BY <1>3, <2>1
  <2>3. CompleteAgrees' /\ ReadTags'
    BY <1>3, ReservingFits
  <2> QED BY <2>1, <2>2, <2>3 DEF Scheduled
<1>4. ASSUME NEW a \in Schedule!Aggregates, Schedule!Keep(a), Outcome = "working"
      PROVE  Scheduled'
  <2>1. UNCHANGED <<workflow, man>> /\ completed' = completed \cup {a} /\ Outcome' = Outcome
    BY <1>4 DEF Schedule!Keep
  <2>2. pc' # "done"
    BY <1>4, <2>1
  <2>3. a \in Aggs /\ Agree(a)
    BY <1>4 DEF Schedule!Keep, Schedule!Aggregates, Aggs, Schedule!Reserved, Schedule!Fits,
                Schedule!Ends, Agree, HopsOf, Imports, From
  <2>4. DependsOn(a) \subseteq completed
    BY <1>4 DEF Schedule!Keep, DependsOn
  <2>5. \A x \in DependsOn(a) : ~Unread(x)
    BY <2>4 DEF Scheduled, CompleteAgrees, Agree, Unread
  <2>6. CompleteAgrees' /\ ReadTags'
    BY <2>1, <2>3, <2>5 DEF Scheduled, CompleteAgrees, ReadTags, Agree, Unread, HopsOf, Aggs,
                           DependsOn, Imports, From
  <2> QED BY <2>1, <2>2, <2>6 DEF Scheduled
<1>5. ASSUME NEW D \in SUBSET Schedule!Aggregates, NEW E \in SUBSET D, Schedule!Withdraw(D, E)
      PROVE  Scheduled'
  <2>1. workflow' = workflow /\ Outcome' \in {"working", "failed"}
    BY <1>5 DEF Schedule!Withdraw
  <2>2. pc' # "done"
    BY <2>1
  <2> QED BY <1>5, <2>1, <2>2, WithdrawingFits DEF Scheduled
<1>6. CASE Schedule!Finish
  <2>1. UNCHANGED <<workflow, man, completed>> /\ Aggs \subseteq completed
    BY <1>6 DEF Schedule!Finish, Schedule!Aggregates, Aggs
  <2> QED BY <2>1 DEF Scheduled, CompleteAgrees, ReadTags, Agree, Unread, HopsOf, Aggs,
                     DependsOn, Imports, From
<1> QED BY <1>1, <1>2, <1>3, <1>4, <1>5, <1>6 DEF Schedule!Next

\* A schedule is all it takes: a circuit that is done after one has one tag on
\* either side of each connection (TagsAgree).
THEOREM ScheduledTagsAgree == ImplementsSchedule => []TagsAgree
<1>1. Schedule!Init => Scheduled
  <2> SUFFICES ASSUME Schedule!Init PROVE Scheduled
    OBVIOUS
  <2>1. pc # "done"
    BY DEF Schedule!Init
  <2> QED BY <2>1 DEF Schedule!Init, Scheduled, NoWorkflow, CompleteAgrees, ReadTags
<1>2. Scheduled => TagsAgree
  <2> SUFFICES ASSUME Scheduled, pc = "done", NEW h \in workflow.hops, Imports(h)
               PROVE  man[h] = man[From(h)]
    BY DEF TagsAgree
  <2>1. Owner[h] \in completed /\ h \in HopsOf(Owner[h])
    BY DEF Scheduled, Aggs, HopsOf
  <2> QED BY <2>1 DEF Scheduled, CompleteAgrees, Agree
<1> QED BY <1>1, <1>2, ScheduleStep, PTL DEF ImplementsSchedule, Schedule!Spec

\* So a circuit that is done has one tag on either side of each connection
\* (TagsAgree), whatever the hops, unless a retry suggested another tag to a hop and
\* kept what was reserved for it: this is the only way to a circuit that does not
\* fit.
THEOREM TagsAgreeUnlessSuggestedAnew ==
  Spec /\ [][~SuggestsAnew]_vars => []TagsAgree
BY ScheduleUnlessSuggestedAnew, ScheduledTagsAgree, PTL

\* And where no hop translates and the aggregates are orderly, it has (TagsAgree).
THEOREM OrderlyCircuitsAgree ==
  ASSUME Plain, Orderly
  PROVE  Spec => []TagsAgree
<1>1. Spec => ImplementsSchedule
  BY OrderlyCircuitsKeepSchedule
<1> QED BY <1>1, ScheduledTagsAgree, PTL
=============================================================================
