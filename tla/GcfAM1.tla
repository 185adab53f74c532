------------------------------- MODULE GcfAM1 -------------------------------
(***************************************************************************)
(* The aggregate manager of the GENI AM API version 1 (gcf/geni/am1.py).   *)
(* A request names the resources it wants; those on offer are in one list, *)
(* the others in the sliver of their slice.  Errors are faults or False.   *)
(* Calls are handled one at a time.                                        *)
(***************************************************************************)
EXTENDS Naturals, FiniteSets

CONSTANTS
  Slice, Resource,
  NoSlice,      \* what a URN stands for that is not in _slivers
  MaxTime,      \* the clock stops here
  Horizon,      \* no slice credential outlives this time
  MaxLease,     \* REFAM_MAXLEASE_DAYS
  RequestTimes  \* the times RenewSliver may be asked for

VARIABLES
  now,        \* datetime.utcnow()
  sliceExp,   \* expiration of the slice at its clearinghouse
  slivers,    \* _slivers
  pool,       \* _resources, the resources on offer
  down,       \* the resources with STATUS_SHUTDOWN
  reply       \* what the last call returned

vars == <<now, sliceExp, slivers, pool, down, reply>>

Time == 0..MaxTime

Ops == {"GetVersion", "ListResources", "CreateSliver", "DeleteSliver",
        "SliverStatus", "RenewSliver", "Shutdown"}

Reply(op, code) == reply' = [op |-> op, code |-> code]

Unchanged == UNCHANGED <<now, sliceExp, slivers, pool, down>>

Exists(s) == slivers[s] # NoSlice

Held(s) == IF Exists(s) THEN slivers[s].resources ELSE {}

\* Sliver.status() = STATUS_SHUTDOWN.
IsShutdown(s) == Held(s) \cap down # {}

\* Of the credentials of a call on s, one decides.
Credentials(s) == {c \in Time : now <= c /\ c <= sliceExp[s]}

-----------------------------------------------------------------------------

Tick ==
  /\ now < MaxTime
  /\ now' = now + 1
  /\ Reply("GetVersion", "NONE")
  /\ UNCHANGED <<sliceExp, slivers, pool, down>>

RenewSlice(s) ==
  /\ \E t \in Time : /\ t > now /\ t > sliceExp[s] /\ t <= Horizon
                     /\ sliceExp' = [sliceExp EXCEPT ![s] = t]
  /\ Reply("GetVersion", "NONE")
  /\ UNCHANGED <<now, slivers, pool, down>>

\* The credentials do not verify, or an argument cannot be parsed.
Rejected(op) == op # "GetVersion" /\ Reply(op, "FAULT") /\ Unchanged

GetVersion == Reply("GetVersion", "SUCCESS") /\ Unchanged

\* A slice without sliver has no resources; that is no error here.
ListResources == Reply("ListResources", "SUCCESS") /\ Unchanged

SliverStatus(s) == Exists(s) /\ Reply("SliverStatus", "SUCCESS") /\ Unchanged

NoSuchSlice(op, s) == ~Exists(s) /\ Reply(op, "FAULT") /\ Unchanged

-----------------------------------------------------------------------------

\* Fault: what another sliver holds may be asked for as well.
Grantable_any(R) == TRUE

Grantable(R) == R \subseteq pool

CreateSliver(s, c) ==
  /\ ~Exists(s)
  /\ \E R \in SUBSET Resource :
       /\ Grantable(R)
       /\ slivers' = [slivers EXCEPT ![s] =
                        [resources |-> R, expiration |-> IF c < now + MaxLease THEN c
                                                                  ELSE now + MaxLease]]
       /\ pool' = pool \ R
       /\ down' = down \ R
  /\ Reply("CreateSliver", "SUCCESS")
  /\ UNCHANGED <<now, sliceExp>>

\* The request names a resource twice: each time it is found in the list, and
\* the second time it cannot be removed.  What was removed by then is in no
\* sliver and not on offer.
CreateSliverTwice(s) ==
  /\ ~Exists(s)
  /\ \E R \in SUBSET pool \ {{}} : pool' = pool \ R
  /\ Reply("CreateSliver", "FAULT")
  /\ UNCHANGED <<now, sliceExp, slivers, down>>

CreateSliverRefused(s) ==
  /\ Exists(s) \/ pool # Resource
  /\ Reply("CreateSliver", "FAULT")
  /\ Unchanged

\* Fault: the resources are marked as available only.
GivenBack_not(s) == {}

GivenBack(s) == Held(s)

DeleteSliver(s) ==
  /\ Exists(s)
  /\ ~IsShutdown(s)
  /\ pool' = pool \cup GivenBack(s)
  /\ slivers' = [slivers EXCEPT ![s] = NoSlice]
  /\ Reply("DeleteSliver", "SUCCESS")
  /\ UNCHANGED <<now, sliceExp, down>>

\* DeleteSliver and RenewSliver of a slice that is shut down.
ReturnedFalse(op, s) == IsShutdown(s) /\ Reply(op, "FALSE") /\ Unchanged

\* Up to the credential's expiration; the maximal lease does not count.
RenewSliver(s, c, requested) ==
  /\ Exists(s)
  /\ ~IsShutdown(s)
  /\ IF requested <= c
       THEN /\ slivers' = [slivers EXCEPT ![s].expiration = requested]
            /\ Reply("RenewSliver", "SUCCESS")
       ELSE UNCHANGED slivers /\ Reply("RenewSliver", "FALSE")
  /\ UNCHANGED <<now, sliceExp, pool, down>>

Shutdown(s) ==
  /\ Exists(s)
  /\ down' = down \cup Held(s)
  /\ Reply("Shutdown", "SUCCESS")
  /\ UNCHANGED <<now, sliceExp, slivers, pool>>

-----------------------------------------------------------------------------

Init ==
  /\ now = 0
  /\ sliceExp = [s \in Slice |-> 0]
  /\ slivers = [s \in Slice |-> NoSlice]
  /\ pool = Resource
  /\ down = {}
  /\ reply = [op |-> "GetVersion", code |-> "NONE"]

SliceCall(s) ==
  \/ \E op \in {"DeleteSliver", "SliverStatus", "RenewSliver", "Shutdown"} : NoSuchSlice(op, s)
  \/ \E op \in {"DeleteSliver", "RenewSliver"} : ReturnedFalse(op, s)
  \/ SliverStatus(s)
  \/ CreateSliverTwice(s) \/ CreateSliverRefused(s)
  \/ \E c \in Credentials(s) : CreateSliver(s, c)
  \/ DeleteSliver(s)
  \/ \E c \in Credentials(s), t \in RequestTimes : RenewSliver(s, c, t)
  \/ Shutdown(s)

Next ==
  \/ Tick
  \/ \E s \in Slice : RenewSlice(s)
  \/ \E op \in Ops : Rejected(op)
  \/ GetVersion
  \/ ListResources
  \/ \E s \in Slice : Credentials(s) # {} /\ SliceCall(s)

Spec == Init /\ [][Next]_vars

-----------------------------------------------------------------------------

\* No resource is on offer and in a sliver, or in two slivers, whatever is
\* asked for, deleted and lost in between.
OneOwner ==
  \A s \in Slice : /\ Held(s) \cap pool = {}
                   /\ \A t \in Slice \ {s} : Held(s) \cap Held(t) = {}

InUse == pool \cup UNION {Held(s) : s \in Slice}

\* A resource leaves the manager's lists only in a refused CreateSliver, and
\* nothing in use is in one list less after any other call.
LostOnlyByDoubleRequest ==
  [][InUse' # InUse => reply' = [op |-> "CreateSliver", code |-> "FAULT"]]_vars

=============================================================================
