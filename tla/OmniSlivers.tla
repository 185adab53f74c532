---------------------------- MODULE OmniSlivers ----------------------------
(***************************************************************************)
(* The AM API commands of Omni (amhandler.py), each with what it makes of  *)
(* the answer of an aggregate and what it tells the clearinghouse, while   *)
(* slivers expire at the aggregates.                                       *)
(***************************************************************************)
EXTENDS OmniCalls

-----------------------------------------------------------------------------
(* The commands that tell the clearinghouse nothing. *)

Untold(op, effects, okay(_)) ==
  /\ Calling(op)
  /\ \E o \in Answers(effects, Unknown) :
       IF Raises(o.ans) THEN Abort(o.at)
       ELSE Handle(o, [Quiet EXCEPT !.ok = Worked(o.ans) /\ okay(o.ans)])

ListResources == Untold("ListResources", Reads(am, Targets), LAMBDA ans : TRUE)

Describe == Untold("Describe", Reads(am, Targets), LAMBDA ans : Whole(ans, run.asked))

\* Whatever state the slivers are in.
Allocate ==
  \E new \in SUBSET (Mine \ Present(am, run.at)) :
    Untold("Allocate", Changes(am, new, [s \in Sliver |-> [alloc |-> "geni_allocated", exp |-> 1]]),
           LAMBDA ans : TRUE)

PerformOperationalAction ==
  Untold("PerformOperationalAction", Reads(am, Targets), LAMBDA ans : Whole(ans, run.asked))

Shutdown == Untold("Shutdown", Reads(am, Targets), LAMBDA ans : TRUE)

Update == Untold("Update", Reads(am, Targets), LAMBDA ans : Whole(ans, run.asked))

\* A change that is cancelled leaves a sliver as it was, or gone.
Cancel ==
  Untold("Cancel", Changes(am, Targets, [s \in Sliver |-> IF am[s].alloc = "geni_allocated" THEN Nothing ELSE am[s]]),
         LAMBDA ans : /\ Whole(ans, run.asked)
                      /\ SliversNotIn(ans, {"geni_unallocated", "geni_provisioned"}) = {})

CreateImage == Untold("CreateImage", Reads(am, Targets), LAMBDA ans : TRUE)

ListImages == Untold("ListImages", Reads(am, {}), LAMBDA ans : TRUE)

\* The first aggregate that has the image ends the search.
DeleteImage ==
  /\ Calling("DeleteImage")
  /\ \E o \in Answers(Reads(am, {}), TRUE) :
       IF Raises(o.ans) THEN Abort(o.at)
       ELSE Handle(o, [Quiet EXCEPT !.ok = Worked(o.ans),
                                    !.todo = IF Worked(o.ans) /\ ~run.opts.devmode THEN {} ELSE @])

\* AM API v2: sort() of the expirations returns nothing, and reading the first
\* of several fails.
PrintSliverExpirations ==
  /\ Calling("PrintSliverExpirations")
  /\ \E o \in Answers(Reads(am, Targets), Unknown), v2 \in BOOLEAN :
       IF v2 /\ Cardinality(StatusExpirations(o.ans)) > 1 THEN Abort(o.at)
       ELSE Handle(o, [Quiet EXCEPT !.ok = Worked(o.ans)])
-----------------------------------------------------------------------------
(* The commands that record slivers: AM API v1 and v2. *)

\* The manifest may say when the slivers expire; if not, with the slice.
CreateSliver ==
  /\ Calling("CreateSliver")
  /\ \E new \in SUBSET (Mine \ Present(am, run.at)) :
       \E o \in Answers(Changes(am, new, [s \in Sliver |-> [alloc |-> "geni_provisioned", exp |-> 1]]), FALSE) :
         IF Raises(o.ans) THEN Abort(o.at)
         ELSE IF Worked(o.ans)
         THEN Handle(o, [Quiet EXCEPT
                !.ok = TRUE,
                !.work = <<{Create(s, Told(o.ans.list[s].exp, MaxTime)) : s \in Listed(o.ans)}>>,
                !.claim = [s \in Listed(o.ans) |-> AnyRecord]])
         ELSE Handle(o, Quiet)

\* The records there are get the new expiration.  When there is none the code
\* asks for the slivers and means to record them, but gets no further than the
\* first: it reads a variable that does not exist.
RenewSliver ==
  /\ Calling("RenewSliver")
  /\ \E t \in Time, known \in Listings :
       \E o \in Answers(Changes(am, Running(am, run.at), [s \in Sliver |-> [alloc |-> "geni_provisioned", exp |-> t]]),
                        Running(am, run.at) = {}) :
         IF Raises(o.ans) THEN Abort(o.at)
         ELSE IF Worked(o.ans)
         THEN Handle(o, [Quiet EXCEPT
                !.ok = TRUE,
                !.work = <<{Extend(s, t) : s \in known}>>,
                !.claim = [s \in known |-> {t}],
                !.trouble = Mislaid(known)])
         ELSE Handle(o, Quiet)

\* One expiration for all that are listed, and for those that are not recorded
\* the one they have themselves.
SliverStatusWork(list, known, exp) ==
  LET listed == DOMAIN list
      create(S) == {Create(s, Told(list[s].exp, exp)) : s \in S}
      stale == {s \in known \cap listed : exp # NoTime /\ ch[s] # exp}
  IN IF known = {} THEN <<create(listed)>>
     ELSE <<{Drop(s) : s \in known \ listed} \cup {Extend(s, exp) : s \in stale}, create(listed \ known)>>

\* What the record should be: exactly the slivers of the answer.
SliverStatusClaim(list, exp) ==
  [s \in Mine |-> IF s \notin DOMAIN list THEN {NoRecord}
                  ELSE IF exp = NoTime THEN AnyRecord ELSE {exp}]

\* Several expirations: sort() again.  The error of an AM API v2 aggregate, when
\* it is to be raised, is raised after the clearinghouse is told.
SliverStatus ==
  /\ Calling("SliverStatus")
  /\ \E known \in Listings, o \in Answers(Reads(am, Running(am, run.at)), Running(am, run.at) = {}) :
       LET exps == StatusExpirations(o.ans)
           exp == IF exps = {} THEN NoTime ELSE CHOOSE t \in exps : TRUE
           onward == IF Raises(o.ans) THEN {} ELSE run.todo
       IN IF Worked(o.ans)
          THEN IF Cardinality(exps) > 1 THEN Abort(o.at)
               ELSE Handle(o, [Quiet EXCEPT !.ok = TRUE,
                                            !.work = SliverStatusWork(o.ans.list, known, exp),
                                            !.claim = SliverStatusClaim(o.ans.list, exp),
                                            !.trouble = Mislaid(known)])
          ELSE Handle(o, [IF Gone(o.ans) THEN Forget(known) ELSE Quiet EXCEPT !.todo = onward])

DeleteSliver ==
  /\ Calling("DeleteSliver")
  /\ \E known \in Listings,
        o \in Answers(Changes(am, Present(am, run.at), [s \in Sliver |-> Nothing]), Present(am, run.at) = {}) :
       LET whole == Worked(o.ans) /\ DidSliversFail(o.ans) = {}
           onward == IF Raises(o.ans) THEN {} ELSE run.todo
       IN /\ Worked(o.ans) => whole
          /\ Handle(o, [IF whole \/ Gone(o.ans) THEN Forget(known) ELSE Quiet
                        EXCEPT !.ok = whole, !.todo = onward])

-----------------------------------------------------------------------------
(* The commands that record slivers: AM API v3. *)

\* Every sliver of the answer is recorded, those that failed too.
Provision ==
  /\ Calling("Provision")
  /\ \E o \in Answers(Changes(am, Targets, [s \in Sliver |-> [am[s] EXCEPT !.alloc = "geni_provisioned"]]), Unknown) :
       Handle(o, [Quiet EXCEPT
         !.ok = Worked(o.ans) /\ Whole(o.ans, run.asked),
         !.work = <<{Create(s, Told(o.ans.list[s].exp, MaxTime)) : s \in Listed(o.ans)}>>,
         !.claim = [s \in Provisioned(o.ans) |-> AnyRecord]])

\* The slivers of the answer that are more than allocated and did not fail.
Renewed(ans) ==
  {s \in Listed(ans) \ DidSliversFail(ans) :
     ans.list[s].exp # NoTime /\ ans.list[s].alloc # "geni_allocated"}

\* The code cannot say that a sliver failed, nor that they expire at several
\* times: it fails over its own messages, before the clearinghouse is told.  It
\* also takes the slivers of this answer for the ones asked for at the next
\* aggregate, which misses them all.
Renew ==
  /\ Calling("Renew")
  /\ \E t \in Time :
       \E o \in Answers(Changes(am, Targets, [s \in Sliver |-> [am[s] EXCEPT !.exp = t]]), Unknown) :
         LET missing == IF run.structs THEN Listed(o.ans) # {}
                        ELSE FindMissingSlivers(o.ans, run.asked) # {}
         IN IF DidSliversFail(o.ans) # {} \/ Cardinality(SliverExpirations(o.ans)) > 1 THEN Abort(o.at)
            ELSE Handle(o, [Quiet EXCEPT
                   !.ok = Worked(o.ans) /\ ~missing,
                   !.structs = IF Worked(o.ans) /\ ~run.opts.noExtraCHCalls THEN Listed(o.ans) # {} ELSE @,
                   !.work = <<{Extend(s, o.ans.list[s].exp) : s \in Renewed(o.ans)}>>,
                   !.claim = [s \in Renewed(o.ans) |-> {o.ans.list[s].exp}]])

\* An error tells of all slivers of the slice only when none was named.
\* Fault: it is taken to mean that when some were.
MeansNothing_always(ans) == Gone(ans)

MeansNothing(ans) == Gone(ans) /\ run.asked = {}

\* A sliver that is not said to expire is taken to expire with the slice, but
\* then that time cannot be parsed.
StatusCreate(list, s) ==
  IF list[s].exp # NoTime THEN Create(s, list[s].exp)
  ELSE IF run.opts.devmode THEN Create(s, MaxTime) ELSE Raise(s)

StatusRefresh(list, s) ==
  IF StatusCreate(list, s).call = "raise" THEN {Raise(s)}
  ELSE IF ch[s] # StatusCreate(list, s).exp THEN {Extend(s, StatusCreate(list, s).exp)} ELSE {}

\* Fault: records of slivers that are not at the aggregate stay.
StatusWork_keeps(ans, known) ==
  LET prov == Provisioned(ans)
      bad == DidSliversFail(ans)
  IN IF known = {} THEN <<{StatusCreate(ans.list, s) : s \in prov}>>
     ELSE <<{StatusCreate(ans.list, s) : s \in (prov \ bad) \ known}
            \cup UNION {StatusRefresh(ans.list, s) : s \in (prov \ bad) \cap known}>>

\* In this order: the slivers asked for that are not in the answer, those that
\* failed, the records that nothing running stands behind, and the rest.
StatusWork(ans, known) ==
  LET prov == Provisioned(ans)
      bad == DidSliversFail(ans)
      inScope == IF run.asked = {} THEN known ELSE known \cap run.asked
  IN IF known = {} THEN <<{StatusCreate(ans.list, s) : s \in prov}>>
     ELSE <<{Drop(s) : s \in FindMissingSlivers(ans, run.asked) \cap known},
            {StatusCreate(ans.list, s) : s \in (bad \cap prov) \ known}
              \cup {Drop(s) : s \in (bad \ prov) \cap known},
            {Drop(s) : s \in inScope \ Listed(ans)} \cup {Drop(s) : s \in (known \cap Listed(ans)) \ prov},
            {StatusCreate(ans.list, s) : s \in (prov \ bad) \ known}
              \cup UNION {StatusRefresh(ans.list, s) : s \in (prov \ bad) \cap known}>>

\* What the record should be afterwards, for the slivers the command is about.
StatusClaim(ans) ==
  [s \in (IF run.asked = {} THEN Mine ELSE run.asked \cap Mine) \cup Listed(ans) |->
     IF s \notin Provisioned(ans) THEN {NoRecord}
     ELSE IF ans.list[s].err THEN AnyRecord
     ELSE {Told(ans.list[s].exp, MaxTime)}]

Status ==
  /\ Calling("Status")
  /\ \E known \in Listings, o \in Answers(Reads(am, Targets), Unknown) :
       IF Worked(o.ans)
       THEN Handle(o, [Quiet EXCEPT !.ok = Whole(o.ans, run.asked),
                                    !.work = StatusWork(o.ans, known),
                                    !.claim = StatusClaim(o.ans),
                                    !.trouble = Mislaid(known)])
       ELSE Handle(o, IF MeansNothing(o.ans) THEN Forget(known) ELSE Quiet)

\* Slivers that failed stay on record.
\* Fault: the failures are not looked at.
Deleted_all(ans) == Listed(ans)

Deleted(ans) == Listed(ans) \ DidSliversFail(ans)

Delete ==
  /\ Calling("Delete")
  /\ \E known \in Listings,
        o \in Answers(Changes(am, Targets, [s \in Sliver |-> Nothing]), Unknown) :
       IF Worked(o.ans)
       THEN Handle(o, [Quiet EXCEPT !.ok = DidSliversFail(o.ans) = {},
                                    !.work = <<{Drop(s) : s \in Deleted(o.ans)}>>,
                                    !.claim = [s \in Listed(o.ans) \ DidSliversFail(o.ans) |-> {NoRecord}]])
       ELSE Handle(o, IF MeansNothing(o.ans) THEN Forget(known) ELSE Quiet)

-----------------------------------------------------------------------------
(* A sliver expires. *)
Expire ==
  /\ \E s \in Sliver : am[s] # Nothing /\ am' = [am EXCEPT ![s] = Nothing]
  /\ UNCHANGED <<ch, run, work>>

Omni ==
  \/ Ask \/ Skip \/ Retry \/ Resend \/ WrongPassPhrase \/ Finish \/ Tell \/ TellRaises
  \/ ListResources \/ Describe \/ Allocate \/ PerformOperationalAction \/ Shutdown \/ Update \/ Cancel
  \/ CreateImage \/ DeleteImage \/ ListImages \/ PrintSliverExpirations
  \/ CreateSliver \/ RenewSliver \/ SliverStatus \/ DeleteSliver
  \/ Provision \/ Renew \/ Status \/ Delete

Next == Start \/ Omni \/ Expire

Spec == Init /\ [][Next]_vars /\ WF_vars(Omni)

-----------------------------------------------------------------------------
\* Once the clearinghouse is told, and every call to it worked, its record is
\* what the answer of the aggregate says: after any command that records.
RecordFollowsAnswer ==
  Ready /\ ~run.trouble => \A s \in DOMAIN run.claim : ch[s] \in run.claim[s]

\* A record is deleted only for a sliver that was not running when the
\* aggregate last answered, at that aggregate or at another.
NothingForgotten ==
  [][\A s \in Sliver : ch[s] # NoRecord /\ ch'[s] = NoRecord => s \notin run.held]_vars

\* Once the clearinghouse is told, and every call to it worked, it has a record of
\* just those slivers, of the ones the command was about, that were running when
\* the aggregate answered: whatever answers and calls were lost before, and whatever
\* expired.  CreateSliver records all that the manifest lists, and RenewSliver
\* renews what is on record without a look at what runs.
RecordIsTrue ==
  Ready /\ ~run.trouble /\ run.op \notin {"CreateSliver", "RenewSliver"} =>
    \A s \in DOMAIN run.claim : ch[s] # NoRecord <=> s \in run.held

\* Every command comes to an end.
CommandsEnd == run.op # "none" ~> run.op = "none"
=============================================================================
