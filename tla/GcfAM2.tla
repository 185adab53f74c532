------------------------------- MODULE GcfAM2 -------------------------------
(***************************************************************************)
(* The reference aggregate manager of the GENI AM API version 2            *)
(* (gcf/geni/am/am2.py).  A slice has one sliver here: all its VMs, one    *)
(* expiration.  The manager never acts on an expiration.  Which VMs a      *)
(* slice has is written down twice, in the Slice object and in the         *)
(* container of the aggregate that has the slice's URN: CreateSliver and   *)
(* SliverStatus use the first, DeleteSliver, RenewSliver and Shutdown the  *)
(* second.  Calls are handled one at a time.                               *)
(***************************************************************************)
EXTENDS Naturals, FiniteSets

CONSTANTS
  Slice,        \* slice URNs
  User,         \* user URNs
  Resource,     \* the fake VMs
  NoSlice,      \* what a URN stands for that is not in _slices
  NoContainer,  \* a name that is no key of Aggregate.containers
  MaxTime,      \* the clock stops here
  Horizon,      \* no slice credential outlives this time
  MaxLease,     \* REFAM_MAXLEASE_DAYS
  RequestTimes, \* the times RenewSliver may be asked for
  MaxHold       \* longest run of one resource in a container list

ASSUME TimesAssumption ==
  /\ MaxTime \in Nat /\ Horizon \in 0..MaxTime
  /\ MaxLease \in Nat /\ MaxHold \in Nat
  /\ RequestTimes \subseteq 0..MaxTime

ASSUME NamesAssumption ==
  /\ Slice \cap User = {}
  /\ NoSlice \notin [expiration : 0..MaxTime, resources : SUBSET Resource]
  /\ NoContainer \notin [Resource -> Nat]

VARIABLES
  now,         \* datetime.utcnow()
  sliceExp,    \* expiration of the slice at its clearinghouse
  slices,      \* ReferenceAggregateManager._slices
  available,   \* the resources whose available flag is True
  status,      \* Resource.status
  containers,  \* Aggregate.containers
  reply        \* what the last call returned

vars == <<now, sliceExp, slices, available, status, containers, reply>>

INSTANCE GcfAggregate WITH Container <- Slice \cup User

Time == 0..MaxTime

SliceObjects == [expiration : Time, resources : SUBSET Resource]

(* STATUS_CONFIGURING and STATUS_FAILED are never set. *)
Statuses == {"unknown", "ready", "shutdown"}

Ops == {"GetVersion", "ListResources", "CreateSliver", "DeleteSliver",
        "SliverStatus", "RenewSliver", "Shutdown"}

Codes == {"SUCCESS", "FAULT", "BAD_ARGS", "TOO_BIG", "UNAVAILABLE",
          "NO_SUCH_SLICE", "ALREADY_EXISTS", "OUT_OF_RANGE", "NONE"}

NoReply == [op |-> "GetVersion", code |-> "NONE"]

Reply(op, code) == reply' = [op |-> op, code |-> code]

Earlier(a, b) == IF a <= b THEN a ELSE b

(* The earliest expiration of the credentials of a call on slice s that    *)
(* verify.                                                                 *)
Credentials(s) ==
  {c \in Time : now <= c /\ c <= sliceExp[s]}

(* Aggregate.catalog(slice_urn) *)
Catalog(s) == {r \in Resource : Occurs(containers, s, r) > 0}

(* Slice.status() = STATUS_SHUTDOWN *)
IsShutdown(s) == \E r \in Catalog(s) : status[r] = "shutdown"

(* Fault: no look at the status. *)
Usable_ignoresShutdown(s) == slices[s] # NoSlice

(* The slice exists and may be deleted and renewed. *)
Usable(s) == slices[s] # NoSlice /\ ~IsShutdown(s)

Unchanged == UNCHANGED <<now, sliceExp, slices, available, status, containers>>

-----------------------------------------------------------------------------

Tick ==
  /\ now < MaxTime
  /\ now' = now + 1
  /\ reply' = NoReply
  /\ UNCHANGED <<sliceExp, slices, available, status, containers>>

RenewSlice(s) ==
  /\ \E t \in Time : /\ t > now /\ t > sliceExp[s] /\ t <= Horizon
                     /\ sliceExp' = [sliceExp EXCEPT ![s] = t]
  /\ reply' = NoReply
  /\ UNCHANGED <<now, slices, available, status, containers>>

(* The credentials do not verify, or an option or the RSpec is malformed. *)
Rejected(op) ==
  /\ \/ op # "GetVersion" /\ Reply(op, "FAULT")
     \/ op \in {"ListResources", "CreateSliver"} /\ Reply(op, "BAD_ARGS")
  /\ Unchanged

Report(op) == Reply(op, "SUCCESS") /\ Unchanged

GetVersion == Report("GetVersion")

ListResources == Report("ListResources")

SliverStatus(s) == slices[s] # NoSlice /\ Report("SliverStatus")

(* The calls on a slice that the manager does not know. *)
NoSuchSlice(op, s) ==
  /\ slices[s] = NoSlice
  /\ Reply(op, "NO_SUCH_SLICE")
  /\ Unchanged

-----------------------------------------------------------------------------
(* CreateSliver.  Nodes that share a client_id use up one available        *)
(* resource each, but only one of them is allocated.                       *)

(* Fault: the lease ignores the credentials. *)
LeaseEnd_noCredential(c) == now + MaxLease

LeaseEnd(c) == Earlier(c, now + MaxLease)

(* Fault: a slice that exists gets another sliver. *)
Creatable_always(s) == TRUE

Creatable(s) == slices[s] = NoSlice

CreateSliver(s, u, c) ==
  /\ Creatable(s)
  /\ \E R \in SUBSET available :
       /\ slices' = [slices EXCEPT ![s] = [expiration |-> LeaseEnd(c), resources |-> R]]
       /\ containers' = AllocateIn(AllocateIn(containers, s, BagOf(R)), u, BagOf(R))
       /\ status' = [r \in Resource |-> IF r \in R THEN "ready" ELSE status[r]]
       /\ available' = available \ R
  /\ \A r \in Resource : Occurs(containers', u, r) <= MaxHold
  /\ Reply("CreateSliver", "SUCCESS")
  /\ UNCHANGED <<now, sliceExp>>

CreateSliverRefused(s) ==
  /\ \/ ~Creatable(s) /\ Reply("CreateSliver", "ALREADY_EXISTS")
     \/ Creatable(s) /\ Reply("CreateSliver", "TOO_BIG")
  /\ Unchanged

-----------------------------------------------------------------------------
(* DeleteSliver empties the list of the slice and the whole list of the    *)
(* caller, whichever slices the caller's resources belong to.              *)

DeleteSliver(s, u) ==
  /\ Usable(s)
  /\ slices' = [slices EXCEPT ![s] = NoSlice]
  /\ available' = available \cup Catalog(s)
  /\ status' = [r \in Resource |-> IF r \in Catalog(s) THEN "unknown" ELSE status[r]]
  /\ containers' = DeallocateAll(DeallocateAll(containers, s), u)
  /\ Reply("DeleteSliver", "SUCCESS")
  /\ UNCHANGED <<now, sliceExp>>

(* DeleteSliver and RenewSliver of a slice that is shut down. *)
Unavailable(op, s) ==
  /\ slices[s] # NoSlice /\ IsShutdown(s)
  /\ Reply(op, "UNAVAILABLE")
  /\ Unchanged

-----------------------------------------------------------------------------
(* RenewSliver.  A time that has passed is as good as any.                 *)

RenewSliver(s, c, requested, alap) ==
  LET limit == LeaseEnd(c)
  IN /\ Usable(s)
     /\ IF requested <= limit \/ alap
        THEN /\ slices' = [slices EXCEPT ![s].expiration = Earlier(requested, limit)]
             /\ Reply("RenewSliver", "SUCCESS")
        ELSE UNCHANGED slices /\ Reply("RenewSliver", "OUT_OF_RANGE")
     /\ UNCHANGED <<now, sliceExp, available, status, containers>>

Shutdown(s) ==
  /\ slices[s] # NoSlice
  /\ status' = [r \in Resource |-> IF r \in Catalog(s) THEN "shutdown" ELSE status[r]]
  /\ Reply("Shutdown", "SUCCESS")
  /\ UNCHANGED <<now, sliceExp, slices, available, containers>>

-----------------------------------------------------------------------------

Init ==
  /\ now = 0
  /\ sliceExp = [s \in Slice |-> 0]
  /\ slices = [s \in Slice |-> NoSlice]
  /\ available = Resource
  /\ status = [r \in Resource |-> "unknown"]
  /\ containers = NoContainers
  /\ reply = NoReply

SliceCall(s) ==
  \/ \E op \in Ops \ {"GetVersion", "CreateSliver"} : NoSuchSlice(op, s)
  \/ \E op \in {"DeleteSliver", "RenewSliver"} : Unavailable(op, s)
  \/ SliverStatus(s)
  \/ CreateSliverRefused(s)
  \/ \E u \in User, c \in Credentials(s) : CreateSliver(s, u, c)
  \/ \E u \in User : DeleteSliver(s, u)
  \/ \E c \in Credentials(s), requested \in RequestTimes, alap \in BOOLEAN :
       RenewSliver(s, c, requested, alap)
  \/ Shutdown(s)

Next ==
  \/ Tick
  \/ \E s \in Slice : RenewSlice(s)
  \/ \E op \in Ops : Rejected(op)
  \/ GetVersion
  \/ ListResources
  \/ \E s \in Slice : Credentials(s) # {} /\ SliceCall(s)

Spec == Init /\ [][Next]_vars

-----------------------------------------------------------------------------
(* Every variable keeps to the values that the attributes can take. *)
TypeOK ==
  /\ now \in Time
  /\ sliceExp \in [Slice -> Time]
  /\ slices \in [Slice -> {NoSlice} \cup SliceObjects]
  /\ available \subseteq Resource
  /\ status \in [Resource -> Statuses]
  /\ containers \in Dictionaries
  /\ reply \in [op : Ops, code : Codes]

(* The resources a slice object lists. *)
Held(s) == IF slices[s] = NoSlice THEN {} ELSE slices[s].resources

(* The two records of a slice's VMs agree, one entry for each, although    *)
(* deletions by other users empty lists that are not theirs alone: what    *)
(* DeleteSliver resets and Shutdown marks is what CreateSliver took.       *)
CatalogIsSlice ==
  \A s \in Slice, r \in Resource :
    Occurs(containers, s, r) = IF r \in Held(s) THEN 1 ELSE 0

(* Every VM is in one slice or on offer: none is shared, none is lost.     *)
Partition ==
  /\ available = Resource \ UNION {Held(s) : s \in Slice}
  /\ \A s, t \in Slice : s # t => Held(s) \cap Held(t) = {}

(* A VM on offer carries no trace of the slice that had it, and the VMs of *)
(* a slice are shut down all or none.                                      *)
StatusFollowsSlice ==
  /\ \A r \in available : status[r] = "unknown"
  /\ \A s \in Slice : \A r, q \in Held(s) : status[r] = status[q]

(* A sliver's expiration never passes the expiration of the slice.         *)
NoSliverOutlivesSlice ==
  \A s \in Slice : slices[s] # NoSlice => slices[s].expiration <= sliceExp[s]

(* A slice with a VM that is shut down keeps its VMs, its expiration and   *)
(* the mark for good: no call renews, deletes or replaces it.              *)
ShutdownHolds ==
  [][\A s \in Slice : (\E r \in Held(s) : status[r] = "shutdown") =>
       /\ slices'[s] = slices[s]
       /\ \A r \in Held(s) : status'[r] = "shutdown"]_vars

=============================================================================
