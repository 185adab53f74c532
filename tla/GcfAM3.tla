------------------------------- MODULE GcfAM3 -------------------------------
(***************************************************************************)
(* The reference aggregate manager of the GENI AM API version 3            *)
(* (gcf/geni/am/am3.py), a server that leases fake virtual machines to     *)
(* slices.  The server handles one XML-RPC call at a time                  *)
(* (SecureXMLRPCServer is not threaded), so a call is one step; clients,   *)
(* the clearinghouse that renews slices and the clock act between calls.   *)
(*                                                                         *)
(* Every call first goes through AMMethodContext.__enter__, which resolves *)
(* the URNs of the request; only when they resolve does the delegate run.  *)
(* The delegate first removes every expired sliver (expire_slivers), then  *)
(* resolves the URNs again and does its work on what is left.  "Kept" in a *)
(* name below means "as expire_slivers leaves it".                         *)
(***************************************************************************)
EXTENDS Naturals, FiniteSets

CONSTANTS
  Slice,        \* slice URNs
  User,         \* user URNs
  Resource,     \* the fake VMs
  SliverId,     \* sliver URNs (uuid4 in the code, so never reused while alive)
  NoSliver,     \* a sliver URN that names no sliver
  NoContainer,  \* a name that is no key of Aggregate.containers
  MaxTime,      \* the clock stops here
  Horizon,      \* no slice credential outlives this time
  MaxAlloc,     \* ALLOCATE_EXPIRATION_SECONDS
  MaxLease,     \* REFAM_MAXLEASE_MINUTES
  RequestTimes, \* the times a request may carry, 0 for none
  MaxHold       \* longest run of one resource in a container list

ASSUME TimesAssumption ==
  /\ MaxTime \in Nat /\ Horizon \in 0..MaxTime
  /\ MaxAlloc \in Nat /\ MaxLease \in Nat /\ MaxHold \in Nat
  /\ RequestTimes \subseteq 0..MaxTime

ASSUME NamesAssumption ==
  /\ Slice \cap User = {}
  /\ NoSliver \notin [slice : Slice, resource : Resource, expiration : 0..MaxTime,
                      start : 0..MaxTime, end : 0..MaxTime,
                      state : {"allocated", "provisioned"},
                      op : {"pending_allocation", "notready", "ready"}]
  /\ NoContainer \notin [Resource -> Nat]

ASSUME ResourcesAssumption == IsFiniteSet(Resource)

VARIABLES
  now,         \* datetime.utcnow()
  sliceExp,    \* expiration of the slice at its clearinghouse
  slices,      \* ReferenceAggregateManager._slices and Slice._shutdown
  slivers,     \* the Sliver objects, by URN
  available,   \* the resources whose available flag is True
  containers,  \* Aggregate.containers
  reply        \* what the last call returned

vars == <<now, sliceExp, slices, slivers, available, containers, reply>>

INSTANCE GcfAggregate WITH Container <- Slice \cup User

Time == 0..MaxTime

Slivers == [slice : Slice, resource : Resource,
            expiration : Time, start : Time, end : Time,
            state : {"allocated", "provisioned"},
            op : {"pending_allocation", "notready", "ready"}]

SliceStates == {"absent", "active", "shutdown"}

(* The urns argument of a call: the slice URNs come first in the list. *)
Names == [slices : SUBSET Slice, ids : SUBSET SliverId]

Ops == {"GetVersion", "ListResources", "Allocate", "Provision", "Delete",
        "PerformOperationalAction", "Status", "Describe", "Renew", "Shutdown"}

(* GENI codes, with SEARCH_FAILED split by its message text, which         *)
(* Describe looks at.  ERROR is any other exception.  NONE: no call yet.   *)
Codes == {"SUCCESS", "ERROR", "BAD_ARGS", "TOO_BIG", "REFUSED", "UNAVAILABLE",
          "UNKNOWN_SLICE", "UNKNOWN_SLIVER", "UNSUPPORTED", "ALREADY_EXISTS",
          "OUT_OF_RANGE", "NONE"}

NoReply == [op |-> "GetVersion", code |-> "NONE"]

Reply(op, code) == reply' = [op |-> op, code |-> code]

-----------------------------------------------------------------------------
(* Times. *)

Earlier(a, b) == IF a <= b THEN a ELSE b
Later(a, b) == IF a >= b THEN a ELSE b

(* min_expire's last argument: a requested time in the past is ignored, so *)
(* 0 stands for a request that does not carry the option.                  *)
Requested(limit, requested) ==
  IF requested > now THEN Earlier(limit, requested) ELSE limit

(* The earliest expiration among the verified credentials of a call on     *)
(* slice s: any credential issued since the slice exists, not expired.     *)
Credentials(s) == {c \in Time : now <= c /\ c <= sliceExp[s]}

-----------------------------------------------------------------------------
(* Removing slivers: Slice.delete_sliver and the deletion of empty slices, *)
(* for a set D of slivers of the table sv.                                 *)

Live(sv) == {i \in SliverId : sv[i] # NoSliver}

SliversOf(sv, s) == {i \in Live(sv) : sv[i].slice = s}

ResourcesOf(sv, D) == {sv[i].resource : i \in D}

Without(sv, D) == [i \in SliverId |-> IF i \in D THEN NoSliver ELSE sv[i]]

(* Fault: the slice goes with any of its slivers. *)
SlicesWithout_anySliver(sl, sv, D) ==
  [s \in Slice |-> IF SliversOf(sv, s) \cap D # {} THEN "absent" ELSE sl[s]]

SlicesWithout(sl, sv, D) ==
  [s \in Slice |-> IF SliversOf(sv, s) # {} /\ SliversOf(sv, s) \subseteq D
                   THEN "absent" ELSE sl[s]]

ContainersWithout(cs, sv, D) ==
  Deprovision(cs, ResourcesOf(sv, {i \in D : sv[i].state = "provisioned"}))

(* Faults: a sliver goes at its expiration already; only a reservation     *)
(* goes, not what was provisioned.                                         *)
Expired_tooEarly == {i \in Live(slivers) : slivers[i].expiration <= now}
Expired_allocatedOnly ==
  {i \in Live(slivers) : slivers[i].expiration < now /\ slivers[i].state = "allocated"}

(* expire_slivers *)
Expired == {i \in Live(slivers) : slivers[i].expiration < now}

(* Faults: Resource.reset() runs for slivers that stay; it does not run.   *)
KeptAvailable_tooEarly == available \cup ResourcesOf(slivers, Expired_tooEarly)
KeptAvailable_noReset == available

Kept == Without(slivers, Expired)
KeptSlices == SlicesWithout(slices, slivers, Expired)
KeptAvailable == available \cup ResourcesOf(slivers, Expired)
KeptContainers == ContainersWithout(containers, slivers, Expired)

ExpireSlivers ==
  /\ slivers' = Kept
  /\ slices' = KeptSlices
  /\ available' = KeptAvailable
  /\ containers' = KeptContainers

-----------------------------------------------------------------------------
(* decode_urns, on a table of slivers and a table of slices. *)

Named(sv, n) == n.ids \cup {i \in Live(sv) : sv[i].slice \in n.slices}

SlicesNamed(sv, n) == {sv[i].slice : i \in Named(sv, n)}

(* The slice the slivers have in common, when they have exactly one. *)
SliceNamed(sv, n) == CHOOSE s \in Slice : SlicesNamed(sv, n) = {s}

(* Fault: no test for a slice that is shut down. *)
Decode_ignoresShutdown(sv, sl, n) ==
  IF \E s \in n.slices : sl[s] = "absent" THEN "UNKNOWN_SLICE"
  ELSE IF ~(n.ids \subseteq Live(sv)) THEN "UNKNOWN_SLIVER"
  ELSE IF \A s \in Slice : SlicesNamed(sv, n) # {s} THEN "ERROR"
  ELSE "SUCCESS"

Decode(sv, sl, n) ==
  IF \E s \in n.slices : sl[s] = "absent" THEN "UNKNOWN_SLICE"
  ELSE IF ~(n.ids \subseteq Live(sv)) THEN "UNKNOWN_SLIVER"
  ELSE IF \A s \in Slice : SlicesNamed(sv, n) # {s} THEN "ERROR"
  ELSE IF sl[SliceNamed(sv, n)] = "shutdown" THEN "REFUSED"
  ELSE "SUCCESS"

(* The URNs resolve both before and after expiry: the delegate goes on. *)
Decodes(n) ==
  /\ Decode(slivers, slices, n) = "SUCCESS"
  /\ Decode(Kept, KeptSlices, n) = "SUCCESS"

(* AMMethodContext fails to resolve the URNs and the delegate never runs.  *)
UrnsRefused(op, n) ==
  /\ Decode(slivers, slices, n) # "SUCCESS"
  /\ Reply(op, Decode(slivers, slices, n))
  /\ UNCHANGED <<now, sliceExp, slices, slivers, available, containers>>

(* The URNs named what expire_slivers has just removed. *)
UrnsExpired(op, n) ==
  /\ Decode(slivers, slices, n) = "SUCCESS"
  /\ Decode(Kept, KeptSlices, n) # "SUCCESS"
  /\ Reply(op, Decode(Kept, KeptSlices, n))
  /\ ExpireSlivers
  /\ UNCHANGED <<now, sliceExp>>

-----------------------------------------------------------------------------
(* The clock, and the clearinghouse that renews a slice. *)

Tick ==
  /\ now < MaxTime
  /\ now' = now + 1
  /\ reply' = NoReply
  /\ UNCHANGED <<sliceExp, slices, slivers, available, containers>>

RenewSlice(s) ==
  /\ \E t \in Time :
       /\ t > Later(now, sliceExp[s]) /\ t <= Horizon
       /\ sliceExp' = [sliceExp EXCEPT ![s] = t]
  /\ reply' = NoReply
  /\ UNCHANGED <<now, slices, slivers, available, containers>>

-----------------------------------------------------------------------------
(* Calls that only report. *)

GetVersion ==
  /\ ExpireSlivers
  /\ Reply("GetVersion", "SUCCESS")
  /\ UNCHANGED <<now, sliceExp>>

ListResources ==
  /\ ExpireSlivers
  /\ Reply("ListResources", "SUCCESS")
  /\ UNCHANGED <<now, sliceExp>>

(* Status, Describe *)
Report(op, n) ==
  /\ Decodes(n)
  /\ ExpireSlivers
  /\ Reply(op, "SUCCESS")
  /\ UNCHANGED <<now, sliceExp>>

(* The delegate runs, but the credentials do not verify (an XML-RPC Fault, *)
(* so ERROR) or an option or the RSpec is malformed; for a malformed time  *)
(* of an Allocate see AllocateBroken.                                      *)
Rejected(op) ==
  /\ op \in Ops \ {"GetVersion", "ListResources", "Allocate", "Shutdown"}
       => \E n \in Names : Decodes(n)
  /\ \/ op # "GetVersion" /\ Reply(op, "ERROR")
     \/ op \in {"ListResources", "Allocate", "Provision", "Describe", "Shutdown"}
          /\ Reply(op, "BAD_ARGS")
  /\ ExpireSlivers
  /\ UNCHANGED <<now, sliceExp>>

-----------------------------------------------------------------------------
(* Allocate.  The request comes from user u on slice s with credentials    *)
(* that expire at c, for a window from reqStart to reqEnd.                 *)

StartTime(reqStart) == Later(now, reqStart)

(* Fault: the requested end is taken as it is. *)
EndTime_asRequested(c, reqEnd) == IF reqEnd > now THEN reqEnd ELSE c

EndTime(c, reqEnd) == Requested(c, reqEnd)

(* Fault: the hold on a reservation ignores the credentials. *)
AllocExpiration_noCredential(c, reqStart, reqEnd) == StartTime(reqStart) + MaxAlloc

(* A reservation for the future waits MaxAlloc from its start time. *)
AllocExpiration(c, reqStart, reqEnd) ==
  IF StartTime(reqStart) > now
  THEN Earlier(StartTime(reqStart) + MaxAlloc, c)
  ELSE Requested(Earlier(c, now + MaxAlloc), reqEnd)

Overlaps(s, start, end) ==
  \E i \in SliversOf(Kept, s) : Kept[i].start < end /\ Kept[i].end > start

(* More nodes than available resources. *)
AllocateTooBig(s, n) ==
  /\ Credentials(s) # {}
  /\ n > Cardinality(KeptAvailable)
  /\ ExpireSlivers
  /\ Reply("Allocate", "TOO_BIG")
  /\ UNCHANGED <<now, sliceExp>>

(* The times are looked at only after the resources R were taken off the   *)
(* available list; when they stop the call, nothing puts those back.       *)
TakenInVain ==
  /\ \E R \in SUBSET KeptAvailable : available' = KeptAvailable \ R
  /\ slivers' = Kept
  /\ slices' = KeptSlices
  /\ containers' = KeptContainers
  /\ UNCHANGED <<now, sliceExp>>

(* geni_end_time or geni_start_time does not parse: the parser raises.     *)
AllocateBroken(s) ==
  /\ Credentials(s) # {}
  /\ Reply("Allocate", "ERROR")
  /\ TakenInVain

(* The window is refused.                                                  *)
AllocateRefused(s, c, reqStart, reqEnd) ==
  /\ \/ /\ StartTime(reqStart) > c
        /\ Reply("Allocate", "BAD_ARGS")
     \/ /\ StartTime(reqStart) <= c
        /\ Overlaps(s, StartTime(reqStart), EndTime(c, reqEnd))
        /\ Reply("Allocate", "ALREADY_EXISTS")
  /\ TakenInVain

NewSliver(s, r, c, reqStart, reqEnd) ==
  [slice |-> s, resource |-> r,
   expiration |-> AllocExpiration(c, reqStart, reqEnd),
   start |-> StartTime(reqStart), end |-> EndTime(c, reqEnd),
   state |-> "allocated", op |-> "pending_allocation"]

(* One entry for each resource of the slice, new and old. *)
SliceBag(sv, s) ==
  [r \in Resource |-> IF r \in ResourcesOf(sv, SliversOf(sv, s)) THEN 1 ELSE 0]

(* The new slivers I get the resources g; the two container lists are      *)
(* extended with ALL the resources of the slice.  An RSpec without nodes   *)
(* (I = {}) leaves a slice that has no slivers.                            *)
\* The new slivers are those of I.
AllocateFor(I, s, u, c, reqStart, reqEnd) ==
  /\ StartTime(reqStart) <= c
  /\ ~Overlaps(s, StartTime(reqStart), EndTime(c, reqEnd))
  /\ \E g \in [I -> KeptAvailable] :
       /\ \A i, j \in I : g[i] = g[j] => i = j
       /\ slivers' = [i \in SliverId |->
                        IF i \in I THEN NewSliver(s, g[i], c, reqStart, reqEnd)
                        ELSE Kept[i]]
       /\ available' = KeptAvailable \ {g[i] : i \in I}
  /\ slices' = [KeptSlices EXCEPT ![s] = IF @ = "absent" THEN "active" ELSE @]
  /\ containers' = AllocateIn(AllocateIn(KeptContainers, s, SliceBag(slivers', s)),
                              u, SliceBag(slivers', s))
  /\ \A k \in Slice \cup User, r \in Resource : Occurs(containers', k, r) <= MaxHold
  /\ Reply("Allocate", "SUCCESS")
  /\ UNCHANGED <<now, sliceExp>>

AllocateGranted(s, u, c, reqStart, reqEnd) ==
  \E I \in SUBSET {i \in SliverId : slivers[i] = NoSliver} :
    AllocateFor(I, s, u, c, reqStart, reqEnd)

Allocate(s, u) ==
  \/ \E n \in 1..(Cardinality(Resource) + 1) : AllocateTooBig(s, n)
  \/ AllocateBroken(s)
  \/ \E c \in Credentials(s), reqStart, reqEnd \in RequestTimes :
       \/ AllocateRefused(s, c, reqStart, reqEnd)
       \/ AllocateGranted(s, u, c, reqStart, reqEnd)

-----------------------------------------------------------------------------
(* Provision: only the named slivers whose window is open, and those get   *)
(* one time as both expiration and end of window.                          *)

Provisionable(n) ==
  {i \in Named(Kept, n) : Kept[i].start <= now /\ now <= Kept[i].end}

(* Fault: no max_lease. *)
LeaseExpiration_noMaxLease(i, c, reqEnd) == Earlier(Kept[i].end, Requested(c, reqEnd))

LeaseExpiration(i, c, reqEnd) ==
  Earlier(Kept[i].end, Requested(Earlier(c, now + MaxLease), reqEnd))

Provision(n) ==
  /\ Decodes(n)
  /\ \E c \in Credentials(SliceNamed(Kept, n)), reqEnd \in RequestTimes :
       /\ slivers' = [i \in SliverId |->
                        IF i \in Provisionable(n)
                        THEN [Kept[i] EXCEPT !.end = LeaseExpiration(i, c, reqEnd),
                                             !.expiration = LeaseExpiration(i, c, reqEnd),
                                             !.state = "provisioned",
                                             !.op = "notready"]
                        ELSE Kept[i]]
       /\ Reply("Provision",
                IF Provisionable(n) = {} THEN "UNAVAILABLE" ELSE "SUCCESS")
  /\ slices' = KeptSlices
  /\ available' = KeptAvailable
  /\ containers' = KeptContainers
  /\ UNCHANGED <<now, sliceExp>>

-----------------------------------------------------------------------------
(* Delete, called by user u: first the list of the slice, then the list of *)
(* the user gives up the resources, and either may raise ValueError; only  *)
(* then do the slivers go.                                                 *)

(* How often the request names the sliver that holds a resource. *)
NamedBag(n) ==
  [r \in Resource |->
     (IF r \in ResourcesOf(Kept, Named(Kept, [n EXCEPT !.ids = {}])) THEN 1 ELSE 0)
     + (IF r \in ResourcesOf(Kept, n.ids) THEN 1 ELSE 0)]

DeleteInterrupted(u, n) ==
  LET s == SliceNamed(Kept, n)
      afterSlice == DeallocateFrom(KeptContainers, s, NamedBag(n))
  IN /\ \/ /\ ~CanDeallocate(KeptContainers, s, NamedBag(n))
           /\ containers' \in InterruptedDeallocate(KeptContainers, s, NamedBag(n))
        \/ /\ CanDeallocate(KeptContainers, s, NamedBag(n))
           /\ ~CanDeallocate(afterSlice, u, NamedBag(n))
           /\ containers' \in InterruptedDeallocate(afterSlice, u, NamedBag(n))
     /\ slivers' = Kept
     /\ slices' = KeptSlices
     /\ available' = KeptAvailable
     /\ Reply("Delete", "ERROR")

(* A sliver named twice is deleted, then deleting it again raises. *)
DeleteCompleted(u, n) ==
  LET s == SliceNamed(Kept, n)
      T == Named(Kept, n)
      afterSlice == DeallocateFrom(KeptContainers, s, NamedBag(n))
      afterUser == DeallocateFrom(afterSlice, u, NamedBag(n))
  IN /\ CanDeallocate(KeptContainers, s, NamedBag(n))
     /\ CanDeallocate(afterSlice, u, NamedBag(n))
     /\ slivers' = Without(Kept, T)
     /\ slices' = SlicesWithout(KeptSlices, Kept, T)
     /\ available' = KeptAvailable \cup ResourcesOf(Kept, T)
     /\ containers' = ContainersWithout(afterUser, Kept, T)
     /\ Reply("Delete", IF n.slices # {} /\ n.ids # {} THEN "ERROR" ELSE "SUCCESS")

Delete(u, n) ==
  /\ Decodes(n)
  /\ Credentials(SliceNamed(Kept, n)) # {}
  /\ DeleteInterrupted(u, n) \/ DeleteCompleted(u, n)
  /\ UNCHANGED <<now, sliceExp>>

-----------------------------------------------------------------------------
(* PerformOperationalAction *)

Actions == {"geni_start", "geni_restart", "geni_stop"}

OpBefore(action) == IF action = "geni_start" THEN "notready" ELSE "ready"

OpAfter(action) == IF action = "geni_stop" THEN "notready" ELSE "ready"

InRightState(i, action) ==
  /\ Kept[i].state = "provisioned"
  /\ Kept[i].op = OpBefore(action)

(* Without best effort, one sliver in the wrong state refuses them all. *)
PerformOperationalAction(n, action, bestEffort) ==
  /\ Decodes(n)
  /\ Credentials(SliceNamed(Kept, n)) # {}
  /\ \/ /\ bestEffort \/ \A i \in Named(Kept, n) : InRightState(i, action)
        /\ slivers' = [i \in SliverId |->
                         IF i \in Named(Kept, n) /\ InRightState(i, action)
                         THEN [Kept[i] EXCEPT !.op = OpAfter(action)] ELSE Kept[i]]
        /\ Reply("PerformOperationalAction", "SUCCESS")
     \/ /\ ~bestEffort
        /\ \E i \in Named(Kept, n) : ~InRightState(i, action)
        /\ slivers' = Kept
        /\ Reply("PerformOperationalAction", "UNSUPPORTED")
  /\ slices' = KeptSlices
  /\ available' = KeptAvailable
  /\ containers' = KeptContainers
  /\ UNCHANGED <<now, sliceExp>>

(* Any other action. *)
PerformUnknownAction(n) ==
  /\ Decodes(n)
  /\ ExpireSlivers
  /\ Reply("PerformOperationalAction", "UNSUPPORTED")
  /\ UNCHANGED <<now, sliceExp>>

-----------------------------------------------------------------------------
(* Renew *)

(* Fault: renewal into the past. *)
RenewGranted_past(requested, limit) == requested <= limit

RenewGranted(requested, limit) == requested <= limit /\ requested >= now

(* alap: settle for the latest time that can be granted. *)
RenewTime(c, requested, alap) ==
  IF alap THEN Earlier(requested, Earlier(c, now + MaxLease)) ELSE requested

\* On a credential that expires at c.
RenewWith(n, requested, alap, c) ==
  LET until == RenewTime(c, requested, alap)
      granted == RenewGranted(until, Earlier(c, now + MaxLease))
  IN /\ Decodes(n)
     /\ c \in Credentials(SliceNamed(Kept, n))
     /\ slivers' = [i \in SliverId |->
                      IF granted /\ i \in Named(Kept, n)
                      THEN [Kept[i] EXCEPT !.expiration = until, !.end = Later(@, until)]
                      ELSE Kept[i]]
     /\ Reply("Renew", IF granted THEN "SUCCESS" ELSE "OUT_OF_RANGE")
     /\ slices' = KeptSlices
     /\ available' = KeptAvailable
     /\ containers' = KeptContainers
     /\ UNCHANGED <<now, sliceExp>>

Renew(n, requested, alap) == \E c \in Time : RenewWith(n, requested, alap, c)

-----------------------------------------------------------------------------
(* Shutdown.  The slice URN is resolved by the delegate, after expiry; a   *)
(* slice that is shut down already does not resolve.                       *)

Shutdown(s) ==
  LET code == Decode(Kept, KeptSlices, [slices |-> {s}, ids |-> {}])
  IN /\ Credentials(s) # {}
     /\ slices' = IF code = "SUCCESS"
                  THEN [KeptSlices EXCEPT ![s] = "shutdown"] ELSE KeptSlices
     /\ Reply("Shutdown", code)
     /\ slivers' = Kept
     /\ available' = KeptAvailable
     /\ containers' = KeptContainers
     /\ UNCHANGED <<now, sliceExp>>

-----------------------------------------------------------------------------

Init ==
  /\ now = 0
  /\ sliceExp = [s \in Slice |-> 0]
  /\ slices = [s \in Slice |-> "absent"]
  /\ slivers = [i \in SliverId |-> NoSliver]
  /\ available = Resource
  /\ containers = NoContainers
  /\ reply = NoReply

UrnOps == {"Provision", "Delete", "PerformOperationalAction", "Status",
           "Describe", "Renew"}

UrnCall(n) ==
  \/ \E op \in UrnOps : UrnsRefused(op, n) \/ UrnsExpired(op, n)
  \/ \E op \in {"Status", "Describe"} : Report(op, n)
  \/ Provision(n)
  \/ \E u \in User : Delete(u, n)
  \/ \E action \in Actions, bestEffort \in BOOLEAN :
        PerformOperationalAction(n, action, bestEffort)
  \/ PerformUnknownAction(n)
  \/ \E requested \in RequestTimes, alap \in BOOLEAN : Renew(n, requested, alap)

Next ==
  \/ Tick
  \/ \E s \in Slice : RenewSlice(s)
  \/ GetVersion
  \/ ListResources
  \/ \E op \in Ops : Rejected(op)
  \/ \E s \in Slice, u \in User : Allocate(s, u)
  \/ \E s \in Slice : Shutdown(s)
  \/ \E n \in Names : UrnCall(n)

Spec == Init /\ [][Next]_vars

-----------------------------------------------------------------------------
(* Every variable keeps to the values that the attributes it models can    *)
(* take: in particular no list of a container loses a resource it does not *)
(* hold, and no time of a sliver leaves the range of the clock.            *)
TypeOK ==
  /\ now \in Time
  /\ sliceExp \in [Slice -> Time]
  /\ slices \in [Slice -> SliceStates]
  /\ slivers \in [SliverId -> {NoSliver} \cup Slivers]
  /\ available \subseteq Resource
  /\ containers \in Dictionaries
  /\ reply \in [op : Ops, code : Codes]

(* A fake VM belongs to one sliver at most, and while it belongs to one it *)
(* is not on the list that Allocate takes from.                            *)
LeaseExclusive ==
  /\ \A i, j \in Live(slivers) : slivers[i].resource = slivers[j].resource => i = j
  /\ \A i \in Live(slivers) : slivers[i].resource \notin available

(* A sliver can be reached: its slice is in the table that decode_urns and *)
(* expire_slivers search, however slices emptied and came back.            *)
SlicesTracked ==
  \A i \in Live(slivers) : slices[slivers[i].slice] # "absent"

(* "do not create a sliver that will outlive the slice!": neither time of  *)
(* a sliver is ever later than the expiration of its slice, whatever older *)
(* credentials, start times and renewals produced it.                      *)
NoSliverOutlivesSlice ==
  \A i \in Live(slivers) :
    /\ slivers[i].expiration <= sliceExp[slivers[i].slice]
    /\ slivers[i].end <= sliceExp[slivers[i].slice]

(* A provisioned sliver holds its resource for max_lease from now at most, *)
(* although the window it was allocated for may be longer.                 *)
LeaseBounded ==
  \A i \in Live(slivers) :
    slivers[i].state = "provisioned" => slivers[i].end <= now + MaxLease

(* A call that succeeds leaves no expired sliver: neither those of other   *)
(* slices, nor one that the call itself dated into the past.               *)
CallsExpire ==
  [][reply'.code = "SUCCESS" =>
       \A i \in SliverId : slivers'[i] # NoSliver => slivers'[i].expiration >= now]_vars

(* A sliver whose expiration has not passed goes only by Delete, and never *)
(* from a slice that is shut down.                                         *)
OnlyDeleteRemoves ==
  [][\A i \in Live(slivers) :
       slivers[i].expiration >= now /\ slivers'[i] = NoSliver =>
         reply'.op = "Delete" /\ slices[slivers[i].slice] = "active"]_vars

(* Nothing changes a sliver that is there when its slice is shut down,     *)
(* before it expires.  (Allocate may still add slivers to such a slice.)   *)
ShutdownFreezes ==
  [][\A i \in Live(slivers) :
       slices[slivers[i].slice] = "shutdown" /\ slivers[i].expiration >= now =>
         slivers'[i] = slivers[i]]_vars

(* The resources that are neither available nor in a sliver. *)
Lost(av, sv) == Resource \ (av \cup ResourcesOf(sv, Live(sv)))

(* A resource is lost to the aggregate by nothing but an Allocate that     *)
(* fails over its times: no deletion, no expiry and no other refusal       *)
(* forgets one, neither an Allocate that is granted nor one for too much.  *)
LostOnlyByRefusedAllocate ==
  [][Lost(available', slivers') \subseteq Lost(available, slivers)
     \/ /\ reply'.op = "Allocate"
        /\ reply'.code \in {"BAD_ARGS", "ALREADY_EXISTS", "ERROR"}]_vars

(* As long as somebody calls, every sliver is reclaimed in the end: no     *)
(* sequence of calls keeps one past the last credential of its slice.      *)
Reclaimed ==
  \A i \in SliverId : slivers[i] # NoSliver ~> slivers[i] = NoSliver

=============================================================================
