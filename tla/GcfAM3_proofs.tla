---------------------------- MODULE GcfAM3_proofs ----------------------------
(* Proofs about GcfAM3, for any slices, users, resources and times: its own *)
(* invariants and action properties, that it implements the pool that       *)
(* LeasedPool describes, and that the aggregate governed by rules           *)
(* (GovernedAM3) implements it and keeps to the quotas.                     *)
EXTENDS GcfAM3Pool, GovernedAM3, TLAPS, FiniteSetTheorems

-----------------------------------------------------------------------------
(* The container dictionary: every operator of GcfAggregate that returns a *)
(* dictionary returns one whose lists hold no negative number of resources. *)

(* deallocate forgets the names whose lists are empty                      *)
(* (aggregate.py:72-78): no list that stays changes.                       *)
LEMMA DropEmptyType ==
  ASSUME NEW cs \in Dictionaries
  PROVE  DropEmpty(cs) \in Dictionaries
BY DEF Dictionaries, DropEmpty

(* FakeVM.deprovision takes a resource out of every list that has it.      *)
LEMMA DeprovisionType ==
  ASSUME NEW cs \in Dictionaries, NEW R
  PROVE  Deprovision(cs, R) \in Dictionaries
<1> DEFINE ds == [k \in Slice \cup User |->
                    IF cs[k] = NoContainer THEN NoContainer
                    ELSE [r \in Resource |->
                            IF r \in R /\ cs[k][r] > 0 THEN cs[k][r] - 1 ELSE cs[k][r]]]
<1>1. ds \in Dictionaries
  BY DEF Dictionaries, Bags
<1>2. DropEmpty(ds) \in Dictionaries
  BY <1>1, DropEmptyType
<1>3. QED BY <1>2 DEF Deprovision

(* Aggregate.allocate only adds to a list.                                 *)
LEMMA AllocateInType ==
  ASSUME NEW cs \in Dictionaries, NEW k \in Slice \cup User, NEW bag \in Bags
  PROVE  AllocateIn(cs, k, bag) \in Dictionaries
BY DEF Dictionaries, Bags, AllocateIn, Occurs

(* A complete deallocate takes from a list no more than it holds.          *)
LEMMA DeallocateFromType ==
  ASSUME NEW cs \in Dictionaries, NEW k \in Slice \cup User, NEW bag \in Bags,
         CanDeallocate(cs, k, bag)
  PROVE  DeallocateFrom(cs, k, bag) \in Dictionaries
<1>1. CASE cs[k] = NoContainer
  BY <1>1 DEF DeallocateFrom
<1>2. CASE cs[k] # NoContainer
  <2>1. cs[k] \in Bags /\ \A r \in Resource : bag[r] <= cs[k][r]
    BY <1>2 DEF CanDeallocate, Dictionaries
  <2>2. [r \in Resource |-> cs[k][r] - bag[r]] \in Bags
    BY <2>1 DEF Bags
  <2>3. RemoveFrom(cs, k, bag) \in Dictionaries
    BY <2>2 DEF RemoveFrom, Dictionaries
  <2>4. QED BY <1>2, <2>3, DropEmptyType DEF DeallocateFrom
<1>3. QED BY <1>1, <1>2

(* Nor does one that raises ValueError half way.                           *)
LEMMA InterruptedDeallocateType ==
  ASSUME NEW cs \in Dictionaries, NEW k \in Slice \cup User, NEW bag \in Bags,
         ~CanDeallocate(cs, k, bag),
         NEW ds \in InterruptedDeallocate(cs, k, bag)
  PROVE  ds \in Dictionaries
<1>1. PICK p \in [Resource -> 0..2] :
        /\ \A r \in Resource : p[r] <= bag[r] /\ p[r] <= cs[k][r]
        /\ ds = RemoveFrom(cs, k, p)
  BY DEF InterruptedDeallocate
<1>2. cs[k] \in Bags
  BY DEF CanDeallocate, Dictionaries
<1>3. [r \in Resource |-> cs[k][r] - p[r]] \in Bags
  BY <1>1, <1>2 DEF Bags
<1>4. QED BY <1>1, <1>3 DEF RemoveFrom, Dictionaries

-----------------------------------------------------------------------------
(* Times. *)

(* min_expire of two times is below both.                                  *)
LEMMA EarlierIsBoth ==
  ASSUME NEW a \in Nat, NEW b \in Nat
  PROVE  Earlier(a, b) \in Nat /\ Earlier(a, b) <= a /\ Earlier(a, b) <= b
BY DEF Earlier

(* A requested time can lower a limit and never raise it.                  *)
LEMMA RequestedIsEarlier ==
  ASSUME NEW a \in Nat, NEW b \in Nat
  PROVE  Requested(a, b) \in Nat /\ Requested(a, b) <= a
BY DEF Requested, Earlier

-----------------------------------------------------------------------------
(* The part of the invariant that is about slivers, on any tables: it is   *)
(* applied to the tables before a call, to those that expire_slivers       *)
(* leaves, and to those after the call.                                    *)

Leases(sv, sl, av, ex) ==
  /\ sv \in [SliverId -> {NoSliver} \cup Slivers]
  /\ sl \in [Slice -> SliceStates]
  /\ av \subseteq Resource
  /\ \A i, j \in Live(sv) : sv[i].resource = sv[j].resource => i = j
  /\ \A i \in Live(sv) : sv[i].resource \notin av
  /\ \A i \in Live(sv) : sl[sv[i].slice] # "absent"
  /\ \A i \in Live(sv) : sv[i].expiration <= ex[sv[i].slice]
                          /\ sv[i].end <= ex[sv[i].slice]

IInv ==
  /\ TypeOK
  /\ LeaseExclusive
  /\ SlicesTracked
  /\ NoSliverOutlivesSlice

(* The invariant puts the tables of the current state in the relation      *)
(* Leases.                                                                 *)
LEMMA IInvLeases == IInv => Leases(slivers, slices, available, sliceExp)
BY DEF IInv, Leases, TypeOK, LeaseExclusive, SlicesTracked, NoSliverOutlivesSlice

(* The absence of a sliver is no sliver.                                   *)
LEMMA NoSliverIsNone == NoSliver \notin Slivers
BY NamesAssumption DEF Slivers, Time

(* A live URN names a well-formed sliver.                                  *)
LEMMA LiveAreSlivers ==
  ASSUME NEW sv \in [SliverId -> {NoSliver} \cup Slivers], NEW i \in Live(sv)
  PROVE  i \in SliverId /\ sv[i] \in Slivers
BY DEF Live

(* Removing slivers with Slice.delete_sliver, and the slices this empties, *)
(* frees no resource that is still in a sliver and drops no slice in use.  *)
LEMMA WithoutKeepsLeases ==
  ASSUME NEW sv, NEW sl, NEW av, NEW ex, NEW D \in SUBSET Live(sv),
         Leases(sv, sl, av, ex)
  PROVE  Leases(Without(sv, D), SlicesWithout(sl, sv, D),
                av \cup ResourcesOf(sv, D), ex)
<1> DEFINE sw == Without(sv, D)
           sx == SlicesWithout(sl, sv, D)
           aw == av \cup ResourcesOf(sv, D)
<1>1. sv \in [SliverId -> {NoSliver} \cup Slivers] /\ sl \in [Slice -> SliceStates]
  BY DEF Leases
<1>2. /\ sw \in [SliverId -> {NoSliver} \cup Slivers]
      /\ Live(sw) = Live(sv) \ D
      /\ \A i \in Live(sw) : sw[i] = sv[i]
  BY <1>1 DEF Without, Live
<1>3. \A i \in Live(sv) : sv[i] \in Slivers
  BY <1>1, LiveAreSlivers
<1>4. sx \in [Slice -> SliceStates]
  BY <1>1 DEF SlicesWithout, SliceStates
<1>5. aw \subseteq Resource
  BY <1>3 DEF Leases, ResourcesOf, Slivers
<1>6. \A i, j \in Live(sw) : sw[i].resource = sw[j].resource => i = j
  BY <1>2 DEF Leases
<1>7. ASSUME NEW i \in Live(sw)
      PROVE  sw[i].resource \notin aw
  <2>1. i \in Live(sv) /\ i \notin D /\ sw[i] = sv[i]
    BY <1>2
  <2>2. \A j \in D : sv[j].resource # sv[i].resource
    BY <2>1 DEF Leases
  <2>3. QED BY <2>1, <2>2 DEF Leases, ResourcesOf
<1>8. ASSUME NEW i \in Live(sw)
      PROVE  sx[sw[i].slice] # "absent"
  <2>1. i \in Live(sv) /\ i \notin D /\ sw[i] = sv[i] /\ sv[i].slice \in Slice
    BY <1>2, <1>3 DEF Slivers
  <2>2. i \in SliversOf(sv, sv[i].slice)
    BY <2>1 DEF SliversOf
  <2>3. sx[sv[i].slice] = sl[sv[i].slice]
    BY <2>1, <2>2 DEF SlicesWithout
  <2>4. QED BY <2>1, <2>3 DEF Leases
<1>9. \A i \in Live(sw) : sw[i].expiration <= ex[sw[i].slice]
                            /\ sw[i].end <= ex[sw[i].slice]
  BY <1>2 DEF Leases
<1>10. QED
  BY <1>2, <1>4, <1>5, <1>6, <1>7, <1>8, <1>9 DEF Leases

(* Changing the times and states of slivers, not their slice or resource.  *)
LEMMA UpdateKeepsLeases ==
  ASSUME NEW sv, NEW sw, NEW sl, NEW av, NEW ex,
         Leases(sv, sl, av, ex),
         sw \in [SliverId -> {NoSliver} \cup Slivers],
         \A i \in SliverId :
           \/ sw[i] = sv[i]
           \/ /\ i \in Live(sv)
              /\ sw[i].slice = sv[i].slice
              /\ sw[i].resource = sv[i].resource
              /\ sw[i].expiration <= ex[sv[i].slice]
              /\ sw[i].end <= ex[sv[i].slice]
  PROVE  Leases(sw, sl, av, ex)
<1>1. \A i \in Live(sw) :
        /\ i \in Live(sv)
        /\ sw[i].slice = sv[i].slice
        /\ sw[i].resource = sv[i].resource
        /\ sw[i].expiration <= ex[sv[i].slice]
        /\ sw[i].end <= ex[sv[i].slice]
  BY DEF Leases, Live
<1>2. QED BY <1>1 DEF Leases

(* The tables are in order after expire_slivers.                           *)
LEMMA KeptLeases ==
  ASSUME IInv
  PROVE  /\ Leases(Kept, KeptSlices, KeptAvailable, sliceExp)
         /\ KeptContainers \in Dictionaries
<1>1. Expired \subseteq Live(slivers)
  BY DEF Expired
<1>2. Leases(Kept, KeptSlices, KeptAvailable, sliceExp)
  BY <1>1, IInvLeases, WithoutKeepsLeases DEF Kept, KeptSlices, KeptAvailable
<1>3. KeptContainers \in Dictionaries
  BY DeprovisionType DEF IInv, TypeOK, KeptContainers, ContainersWithout
<1>4. QED BY <1>2, <1>3

-----------------------------------------------------------------------------
(* decode_urns: what it accepts is live and belongs to one slice. *)

(* URNs that decode_urns accepts name live slivers of one slice, which is  *)
(* the slice the call acts on.                                             *)
LEMMA DecodedAreLive ==
  ASSUME NEW sv, NEW sl, NEW n, Decode(sv, sl, n) = "SUCCESS"
  PROVE  /\ Named(sv, n) \subseteq Live(sv)
         /\ SliceNamed(sv, n) \in Slice
         /\ sl[SliceNamed(sv, n)] # "shutdown"
         /\ \A i \in Named(sv, n) : sv[i].slice = SliceNamed(sv, n)
<1>1. /\ n.ids \subseteq Live(sv)
      /\ \E s \in Slice : SlicesNamed(sv, n) = {s}
      /\ sl[SliceNamed(sv, n)] # "shutdown"
  BY DEF Decode
<1>2. SliceNamed(sv, n) \in Slice /\ SlicesNamed(sv, n) = {SliceNamed(sv, n)}
  BY <1>1 DEF SliceNamed
<1>3. Named(sv, n) \subseteq Live(sv)
  BY <1>1 DEF Named
<1>4. \A i \in Named(sv, n) : sv[i].slice = SliceNamed(sv, n)
  BY <1>2 DEF SlicesNamed
<1>5. QED BY <1>1, <1>2, <1>3, <1>4

(* decode_urns answers with a code that AM_API defines.                    *)
LEMMA DecodeCodes ==
  ASSUME NEW sv, NEW sl, NEW n
  PROVE  Decode(sv, sl, n) \in Codes
BY DEF Decode, Codes

(* Delete asks for a natural number of each resource.                      *)
LEMMA NamedBagType ==
  ASSUME NEW n
  PROVE  NamedBag(n) \in Bags
BY DEF NamedBag, Bags

-----------------------------------------------------------------------------
(* The inductive step, action by action.  The parts of IInv' that concern  *)
(* slivers come from Leases of the new tables; the rest is typing.         *)

(* A well-typed step that leaves the tables in order keeps the invariant.  *)
LEMMA IInvFromLeases ==
  ASSUME Leases(slivers, slices, available, sliceExp)',
         now' \in Time, sliceExp' \in [Slice -> Time],
         containers' \in Dictionaries,
         reply' \in [op : Ops, code : Codes]
  PROVE  IInv'
<1>1. TypeOK'
  BY DEF TypeOK, Leases, Dictionaries
<1>2. LeaseExclusive'
  BY DEF LeaseExclusive, Leases
<1>3. SlicesTracked'
  BY DEF SlicesTracked, Leases
<1>4. NoSliverOutlivesSlice'
  BY DEF NoSliverOutlivesSlice, Leases
<1>5. QED BY <1>1, <1>2, <1>3, <1>4 DEF IInv

(* A step that does what expire_slivers does and answers. *)
LEMMA ExpireStep ==
  ASSUME IInv, ExpireSlivers, UNCHANGED <<now, sliceExp>>,
         reply' \in [op : Ops, code : Codes]
  PROVE  IInv'
<1>1. Leases(slivers, slices, available, sliceExp)'
  BY KeptLeases DEF ExpireSlivers, Leases, Live
<1>2. containers' \in Dictionaries /\ now' \in Time /\ sliceExp' \in [Slice -> Time]
  BY KeptLeases DEF ExpireSlivers, IInv, TypeOK
<1>3. QED BY <1>1, <1>2, IInvFromLeases

(* A step that, after expiry, changes times and states of slivers only. *)
LEMMA UpdateStep ==
  ASSUME IInv, UNCHANGED <<now, sliceExp>>,
         slices' = KeptSlices, available' = KeptAvailable, containers' = KeptContainers,
         reply' \in [op : Ops, code : Codes],
         slivers' \in [SliverId -> {NoSliver} \cup Slivers],
         \A i \in SliverId :
           \/ slivers'[i] = Kept[i]
           \/ /\ i \in Live(Kept)
              /\ slivers'[i].slice = Kept[i].slice
              /\ slivers'[i].resource = Kept[i].resource
              /\ slivers'[i].expiration <= sliceExp[Kept[i].slice]
              /\ slivers'[i].end <= sliceExp[Kept[i].slice]
  PROVE  IInv'
<1>1. Leases(slivers', KeptSlices, KeptAvailable, sliceExp)
  BY KeptLeases, UpdateKeepsLeases
<1>2. Leases(slivers, slices, available, sliceExp)'
  BY <1>1 DEF Leases, Live
<1>3. containers' \in Dictionaries /\ now' \in Time /\ sliceExp' \in [Slice -> Time]
  BY KeptLeases DEF IInv, TypeOK
<1>4. QED BY <1>2, <1>3, IInvFromLeases

(* The clock keeps the invariant.                                          *)
LEMMA TickStep == IInv /\ Tick => IInv'
<1> SUFFICES ASSUME IInv, Tick PROVE IInv'
  OBVIOUS
<1>1. now' \in Time /\ sliceExp' \in [Slice -> Time] /\ containers' \in Dictionaries
      /\ reply' \in [op : Ops, code : Codes]
  BY TimesAssumption DEF Tick, IInv, TypeOK, Time, NoReply, Ops, Codes
<1>2. Leases(slivers, slices, available, sliceExp)'
  BY IInvLeases DEF Tick, Leases, Live
<1>3. QED BY <1>1, <1>2, IInvFromLeases

(* A slice renewal raises the bound that slivers are held to.              *)
LEMMA RenewSliceStep ==
  ASSUME IInv, NEW s \in Slice, RenewSlice(s)
  PROVE  IInv'
<1>1. PICK t \in Time : t > Later(now, sliceExp[s]) /\ sliceExp' = [sliceExp EXCEPT ![s] = t]
  BY DEF RenewSlice
<1>2. sliceExp \in [Slice -> Time] /\ now \in Nat /\ Time \subseteq Nat
  BY DEF IInv, TypeOK, Time
<1>3. t \in Nat /\ sliceExp[s] \in Nat /\ t > sliceExp[s]
  <2>1. t \in Nat /\ sliceExp[s] \in Nat
    BY <1>2
  <2>2. QED BY <1>1, <1>2, <2>1 DEF Later
<1>4. sliceExp' \in [Slice -> Time] /\ \A z \in Slice : sliceExp[z] <= sliceExp'[z]
  <2>1. sliceExp' \in [Slice -> Time]
    BY <1>1, <1>2
  <2>2. \A z \in Slice : sliceExp[z] \in Nat /\ sliceExp'[z] = IF z = s THEN t ELSE sliceExp[z]
    BY <1>1, <1>2
  <2>3. \A z \in Slice : sliceExp[z] <= sliceExp'[z]
    BY <1>3, <2>2
  <2>4. QED BY <2>1, <2>3
<1>5. \A i \in Live(slivers) : /\ slivers[i].slice \in Slice
                               /\ slivers[i].expiration \in Nat /\ slivers[i].end \in Nat
  BY <1>2, LiveAreSlivers DEF IInv, TypeOK, Slivers
<1>6. \A i \in Live(slivers) : /\ slivers[i].expiration <= sliceExp'[slivers[i].slice]
                               /\ slivers[i].end <= sliceExp'[slivers[i].slice]
  <2> TAKE i \in Live(slivers)
  <2> DEFINE a == sliceExp[slivers[i].slice]
             b == sliceExp'[slivers[i].slice]
  <2>1. a \in Nat /\ b \in Nat /\ a <= b
    BY <1>2, <1>4, <1>5
  <2>2. slivers[i].expiration <= a /\ slivers[i].end <= a
    BY IInvLeases DEF Leases
  <2>3. QED BY <1>5, <2>1, <2>2
<1>7. Leases(slivers, slices, available, sliceExp)'
  BY <1>6, IInvLeases DEF RenewSlice, Leases, Live
<1>8. now' \in Time /\ containers' \in Dictionaries
      /\ reply' \in [op : Ops, code : Codes]
  BY DEF RenewSlice, IInv, TypeOK, NoReply, Ops, Codes
<1>9. QED BY <1>4, <1>7, <1>8, IInvFromLeases

(* The calls that only report keep the invariant, and so does a rejected   *)
(* one.                                                                    *)
LEMMA ReportSteps ==
  ASSUME IInv,
         \/ GetVersion
         \/ ListResources
         \/ \E op \in Ops : Rejected(op)
         \/ \E op \in UrnOps, n \in Names : UrnsExpired(op, n)
         \/ \E op \in {"Status", "Describe"}, n \in Names : Report(op, n)
         \/ \E n \in Names : PerformUnknownAction(n)
         \/ \E s \in Slice, n \in 1..(Cardinality(Resource) + 1) : AllocateTooBig(s, n)
  PROVE  IInv'
<1>1. CASE GetVersion
  BY <1>1, ExpireStep DEF GetVersion, Reply, Ops, Codes
<1>2. CASE ListResources
  BY <1>2, ExpireStep DEF ListResources, Reply, Ops, Codes
<1>3. CASE \E op \in Ops : Rejected(op)
  BY <1>3, ExpireStep DEF Rejected, Reply, Codes
<1>4. CASE \E op \in UrnOps, n \in Names : UrnsExpired(op, n)
  BY <1>4, ExpireStep, DecodeCodes DEF UrnsExpired, Reply, UrnOps, Ops
<1>5. CASE \E op \in {"Status", "Describe"}, n \in Names : Report(op, n)
  BY <1>5, ExpireStep DEF Report, Reply, Ops, Codes
<1>6. CASE \E n \in Names : PerformUnknownAction(n)
  BY <1>6, ExpireStep DEF PerformUnknownAction, Reply, Ops, Codes
<1>7. CASE \E s \in Slice, n \in 1..(Cardinality(Resource) + 1) : AllocateTooBig(s, n)
  BY <1>7, ExpireStep DEF AllocateTooBig, Reply, Ops, Codes
<1>8. QED BY <1>1, <1>2, <1>3, <1>4, <1>5, <1>6, <1>7

(* A call whose URNs do not resolve changes nothing but the reply.         *)
LEMMA UrnsRefusedStep ==
  ASSUME IInv, NEW op \in UrnOps, NEW n \in Names, UrnsRefused(op, n)
  PROVE  IInv'
<1>1. reply' \in [op : Ops, code : Codes]
  BY DecodeCodes DEF UrnsRefused, Reply, UrnOps, Ops
<1>2. Leases(slivers, slices, available, sliceExp)'
  BY IInvLeases DEF UrnsRefused, Leases, Live
<1>3. now' \in Time /\ sliceExp' \in [Slice -> Time] /\ containers' \in Dictionaries
  BY DEF UrnsRefused, IInv, TypeOK
<1>4. QED BY <1>1, <1>2, <1>3, IInvFromLeases

(* The times Allocate gives a sliver. *)
LEMMA NewSliverTimes ==
  ASSUME IInv, NEW s \in Slice, NEW c \in Credentials(s),
         NEW reqStart \in RequestTimes, NEW reqEnd \in RequestTimes,
         StartTime(reqStart) <= c, NEW r \in Resource
  PROVE  /\ NewSliver(s, r, c, reqStart, reqEnd) \in Slivers
         /\ AllocExpiration(c, reqStart, reqEnd) <= sliceExp[s]
         /\ EndTime(c, reqEnd) <= sliceExp[s]
<1>1. /\ now \in Nat /\ MaxTime \in Nat /\ MaxAlloc \in Nat /\ c \in Nat
      /\ reqStart \in Nat /\ reqEnd \in Nat /\ c <= MaxTime /\ c <= sliceExp[s] /\ sliceExp[s] \in Nat
  BY TimesAssumption DEF IInv, TypeOK, Time, Credentials
<1>2. StartTime(reqStart) \in Nat
  BY <1>1 DEF StartTime, Later
<1>3. EndTime(c, reqEnd) \in Nat /\ EndTime(c, reqEnd) <= c
  BY <1>1, RequestedIsEarlier DEF EndTime
<1>4. AllocExpiration(c, reqStart, reqEnd) \in Nat /\ AllocExpiration(c, reqStart, reqEnd) <= c
  <2>1. CASE StartTime(reqStart) > now
    BY <1>1, <1>2, <2>1 DEF AllocExpiration, Earlier
  <2>2. CASE ~(StartTime(reqStart) > now)
    <3>1. Earlier(c, now + MaxAlloc) \in Nat /\ Earlier(c, now + MaxAlloc) <= c
      BY <1>1 DEF Earlier
    <3>2. AllocExpiration(c, reqStart, reqEnd) = Requested(Earlier(c, now + MaxAlloc), reqEnd)
      BY <2>2 DEF AllocExpiration
    <3>3. Requested(Earlier(c, now + MaxAlloc), reqEnd) \in Nat
          /\ Requested(Earlier(c, now + MaxAlloc), reqEnd) <= Earlier(c, now + MaxAlloc)
      BY <1>1, <3>1, RequestedIsEarlier
    <3>4. QED BY <1>1, <3>1, <3>2, <3>3
  <2>3. QED BY <2>1, <2>2
<1>5. /\ StartTime(reqStart) \in Time /\ EndTime(c, reqEnd) \in Time
      /\ AllocExpiration(c, reqStart, reqEnd) \in Time
  BY <1>1, <1>2, <1>3, <1>4 DEF Time
<1>6. NewSliver(s, r, c, reqStart, reqEnd) \in Slivers
  BY <1>5 DEF NewSliver, Slivers
<1>7. QED BY <1>1, <1>3, <1>4, <1>6

(* The resources of a slice are a list of resources.                       *)
LEMMA SliceBagType ==
  ASSUME NEW sv, NEW s
  PROVE  SliceBag(sv, s) \in Bags
BY DEF SliceBag, Bags

(* An Allocate that fails over its times keeps the invariant: it only      *)
(* takes resources off the available list.                                 *)
LEMMA AllocateRefusedStep ==
  ASSUME IInv, NEW s \in Slice, NEW c, NEW reqStart, NEW reqEnd,
         AllocateBroken(s) \/ AllocateRefused(s, c, reqStart, reqEnd)
  PROVE  IInv'
<1>1. /\ slivers' = Kept /\ slices' = KeptSlices /\ containers' = KeptContainers
      /\ available' \subseteq KeptAvailable /\ UNCHANGED <<now, sliceExp>>
      /\ reply' \in [op : Ops, code : Codes]
  BY DEF AllocateBroken, AllocateRefused, TakenInVain, Reply, Ops, Codes
<1>2. Leases(slivers, slices, available, sliceExp)'
  BY <1>1, KeptLeases DEF Leases, Live
<1>3. containers' \in Dictionaries /\ now' \in Time /\ sliceExp' \in [Slice -> Time]
  BY <1>1, KeptLeases DEF IInv, TypeOK
<1>4. QED BY <1>1, <1>2, <1>3, IInvFromLeases

(* A granted Allocate keeps it: new URNs, distinct available resources,    *)
(* times within the credentials.                                           *)
LEMMA AllocateGrantedStep ==
  ASSUME IInv, NEW s \in Slice, NEW u \in User, NEW c \in Credentials(s),
         NEW reqStart \in RequestTimes, NEW reqEnd \in RequestTimes,
         AllocateGranted(s, u, c, reqStart, reqEnd)
  PROVE  IInv'
<1>1. PICK I \in SUBSET {i \in SliverId : slivers[i] = NoSliver} :
        \E g \in [I -> KeptAvailable] :
          /\ \A i, j \in I : g[i] = g[j] => i = j
          /\ slivers' = [i \in SliverId |->
                           IF i \in I THEN NewSliver(s, g[i], c, reqStart, reqEnd)
                           ELSE Kept[i]]
          /\ available' = KeptAvailable \ {g[i] : i \in I}
  BY DEF AllocateGranted, AllocateFor
<1>2. PICK g \in [I -> KeptAvailable] :
        /\ \A i, j \in I : g[i] = g[j] => i = j
        /\ slivers' = [i \in SliverId |->
                         IF i \in I THEN NewSliver(s, g[i], c, reqStart, reqEnd)
                         ELSE Kept[i]]
        /\ available' = KeptAvailable \ {g[i] : i \in I}
  BY <1>1
<1>3. /\ StartTime(reqStart) <= c
      /\ slices' = [KeptSlices EXCEPT ![s] = IF @ = "absent" THEN "active" ELSE @]
      /\ UNCHANGED <<now, sliceExp>>
      /\ reply' \in [op : Ops, code : Codes]
  BY DEF AllocateGranted, AllocateFor, Reply, Ops, Codes
<1>4. Leases(Kept, KeptSlices, KeptAvailable, sliceExp)
  BY KeptLeases
<1>5. \A i \in I : /\ i \in SliverId /\ g[i] \in KeptAvailable /\ g[i] \in Resource
                  /\ slivers'[i] = NewSliver(s, g[i], c, reqStart, reqEnd)
                  /\ slivers'[i] \in Slivers
                  /\ slivers'[i].resource = g[i] /\ slivers'[i].slice = s
                  /\ slivers'[i].expiration <= sliceExp[s]
                  /\ slivers'[i].end <= sliceExp[s]
  <2> TAKE i \in I
  <2>1. i \in SliverId /\ g[i] \in KeptAvailable /\ g[i] \in Resource
    BY <1>4 DEF Leases
  <2>2. slivers'[i] = NewSliver(s, g[i], c, reqStart, reqEnd)
    BY <1>2, <2>1
  <2>3. QED BY <1>3, <2>1, <2>2, NewSliverTimes DEF NewSliver
<1>6. \A i \in SliverId \ I : slivers'[i] = Kept[i]
  BY <1>2
<1>7. slivers' \in [SliverId -> {NoSliver} \cup Slivers]
  BY <1>2, <1>4, <1>5 DEF Leases
<1>8. \A i \in Live(slivers') \ I : i \in Live(Kept) /\ slivers'[i] = Kept[i]
  BY <1>6 DEF Live
<1>9. slices' \in [Slice -> SliceStates]
  BY <1>3, <1>4 DEF Leases, SliceStates
<1>10. available' \subseteq Resource
  BY <1>2, <1>4 DEF Leases
<1>11. ASSUME NEW i \in Live(slivers'), NEW j \in Live(slivers'),
              slivers'[i].resource = slivers'[j].resource
       PROVE  i = j
  <2>1. CASE i \in I /\ j \in I
    BY <1>2, <1>5, <1>11, <2>1
  <2>2. CASE i \notin I /\ j \notin I
    BY <1>4, <1>8, <1>11, <2>2 DEF Leases
  <2>3. CASE i \in I /\ j \notin I
    BY <1>4, <1>5, <1>8, <1>11, <2>3 DEF Leases
  <2>4. CASE i \notin I /\ j \in I
    BY <1>4, <1>5, <1>8, <1>11, <2>4 DEF Leases
  <2>5. QED BY <2>1, <2>2, <2>3, <2>4
<1>12. ASSUME NEW i \in Live(slivers')
       PROVE  slivers'[i].resource \notin available'
  <2>1. CASE i \in I
    BY <1>2, <1>5, <2>1
  <2>2. CASE i \notin I
    BY <1>2, <1>4, <1>8, <2>2 DEF Leases
  <2>3. QED BY <2>1, <2>2
<1>13. ASSUME NEW i \in Live(slivers')
       PROVE  slices'[slivers'[i].slice] # "absent"
  <2>1. CASE i \in I
    BY <1>3, <1>4, <1>5, <2>1 DEF Leases
  <2>2. CASE i \notin I
    <3>1. i \in Live(Kept) /\ slivers'[i] = Kept[i] /\ Kept[i] \in Slivers
      BY <1>4, <1>8, <2>2, LiveAreSlivers DEF Leases
    <3>2. KeptSlices[Kept[i].slice] # "absent" /\ Kept[i].slice \in Slice
      BY <1>4, <3>1 DEF Leases, Slivers
    <3>3. QED BY <1>3, <1>4, <3>1, <3>2 DEF Leases
  <2>3. QED BY <2>1, <2>2
<1>14. ASSUME NEW i \in Live(slivers')
       PROVE  /\ slivers'[i].expiration <= sliceExp[slivers'[i].slice]
              /\ slivers'[i].end <= sliceExp[slivers'[i].slice]
  <2>1. CASE i \in I
    BY <1>5, <2>1
  <2>2. CASE i \notin I
    BY <1>4, <1>8, <2>2 DEF Leases
  <2>3. QED BY <2>1, <2>2
<1>15. Leases(slivers', slices', available', sliceExp)
  BY <1>7, <1>9, <1>10, <1>11, <1>12, <1>13, <1>14 DEF Leases
<1>16. Leases(slivers, slices, available, sliceExp)'
  BY <1>3, <1>15 DEF Leases, Live
<1>17. containers' \in Dictionaries
  <2>1. AllocateIn(KeptContainers, s, SliceBag(slivers', s)) \in Dictionaries
    BY KeptLeases, SliceBagType, AllocateInType
  <2>2. containers' = AllocateIn(AllocateIn(KeptContainers, s, SliceBag(slivers', s)),
                                 u, SliceBag(slivers', s))
    BY DEF AllocateGranted, AllocateFor
  <2>3. QED BY <2>1, <2>2, SliceBagType, AllocateInType
<1>18. now' \in Time /\ sliceExp' \in [Slice -> Time]
  BY <1>3 DEF IInv, TypeOK
<1>19. QED BY <1>3, <1>16, <1>17, <1>18, IInvFromLeases

(* What is known of the slivers that a decoded request names. *)
LEMMA DecodedSlivers ==
  ASSUME IInv, NEW n \in Names, Decodes(n)
  PROVE  /\ SliceNamed(Kept, n) \in Slice
         /\ KeptSlices[SliceNamed(Kept, n)] # "shutdown"
         /\ \A i \in Named(Kept, n) : /\ i \in Live(Kept) /\ Kept[i] \in Slivers
                                     /\ Kept[i].slice = SliceNamed(Kept, n)
<1>1. Decode(Kept, KeptSlices, n) = "SUCCESS"
  BY DEF Decodes
<1>2. Kept \in [SliverId -> {NoSliver} \cup Slivers]
  BY KeptLeases DEF Leases
<1>3. QED BY <1>1, <1>2, DecodedAreLive, LiveAreSlivers

(* Assigning to attributes of a sliver. *)

Provisioned(v, t) ==
  [v EXCEPT !.end = t, !.expiration = t, !.state = "provisioned", !.op = "notready"]

Operated(v, action) == [v EXCEPT !.op = OpAfter(action)]

Renewed(v, t) == [v EXCEPT !.expiration = t, !.end = Later(@, t)]

(* What Provision does to a sliver leaves its slice, resource and start    *)
(* alone.                                                                  *)
LEMMA ProvisionedSliver ==
  ASSUME NEW v \in Slivers, NEW t \in Time
  PROVE  /\ Provisioned(v, t) \in Slivers
         /\ Provisioned(v, t).slice = v.slice
         /\ Provisioned(v, t).resource = v.resource
         /\ Provisioned(v, t).expiration = t /\ Provisioned(v, t).end = t
BY DEF Slivers, Provisioned

(* What an operational action does to a sliver leaves its lease alone.     *)
LEMMA OperatedSliver ==
  ASSUME NEW v \in Slivers, NEW action
  PROVE  /\ Operated(v, action) \in Slivers
         /\ Operated(v, action).slice = v.slice
         /\ Operated(v, action).resource = v.resource
         /\ Operated(v, action).expiration = v.expiration
         /\ Operated(v, action).end = v.end
BY DEF Slivers, OpAfter, Operated

(* What Renew does to a sliver leaves its slice and resource alone.        *)
LEMMA RenewedSliver ==
  ASSUME NEW v \in Slivers, NEW t \in Time
  PROVE  /\ Renewed(v, t) \in Slivers
         /\ Renewed(v, t).slice = v.slice
         /\ Renewed(v, t).resource = v.resource
         /\ Renewed(v, t).expiration = t /\ Renewed(v, t).end \in {v.end, t}
         /\ Renewed(v, t).end = Later(v.end, t) /\ Renewed(v, t).state = v.state
BY DEF Slivers, Later, Renewed

(* Provision keeps the invariant.                                          *)
LEMMA ProvisionStep ==
  ASSUME IInv, NEW n \in Names, Provision(n)
  PROVE  IInv'
<1>1. PICK c \in Credentials(SliceNamed(Kept, n)), reqEnd \in RequestTimes :
        /\ slivers' = [i \in SliverId |->
                         IF i \in Provisionable(n)
                         THEN [Kept[i] EXCEPT !.end = LeaseExpiration(i, c, reqEnd),
                                              !.expiration = LeaseExpiration(i, c, reqEnd),
                                              !.state = "provisioned",
                                              !.op = "notready"]
                         ELSE Kept[i]]
        /\ Reply("Provision",
                 IF Provisionable(n) = {} THEN "UNAVAILABLE" ELSE "SUCCESS")
  BY DEF Provision
<1>2. /\ Decodes(n) /\ slices' = KeptSlices /\ available' = KeptAvailable
      /\ containers' = KeptContainers /\ UNCHANGED <<now, sliceExp>>
      /\ reply' \in [op : Ops, code : Codes]
  BY <1>1 DEF Provision, Reply, Ops, Codes
<1>3. /\ now \in Nat /\ MaxTime \in Nat /\ MaxLease \in Nat /\ reqEnd \in Nat
      /\ c \in Nat /\ c <= MaxTime /\ c <= sliceExp[SliceNamed(Kept, n)]
      /\ sliceExp[SliceNamed(Kept, n)] \in Nat
  BY <1>2, DecodedSlivers, TimesAssumption DEF IInv, TypeOK, Time, Credentials
<1>4. \A i \in Provisionable(n) :
        /\ i \in Live(Kept) /\ Kept[i] \in Slivers
        /\ Kept[i].slice = SliceNamed(Kept, n)
  BY <1>2, DecodedSlivers DEF Provisionable
<1>5. \A i \in Provisionable(n) : /\ LeaseExpiration(i, c, reqEnd) \in Time
                                 /\ LeaseExpiration(i, c, reqEnd) <= c
  <2> TAKE i \in Provisionable(n)
  <2> DEFINE cap == Earlier(c, now + MaxLease)
  <2>1. cap \in Nat /\ cap <= c
    BY <1>3 DEF Earlier
  <2>2. Requested(cap, reqEnd) \in Nat /\ Requested(cap, reqEnd) <= cap
    BY <1>3, <2>1, RequestedIsEarlier
  <2>3. Kept[i].end \in Nat
    BY <1>4 DEF Slivers, Time
  <2>4. LeaseExpiration(i, c, reqEnd) \in Nat /\ LeaseExpiration(i, c, reqEnd) <= Requested(cap, reqEnd)
    BY <2>2, <2>3, EarlierIsBoth DEF LeaseExpiration
  <2> HIDE DEF cap
  <2>5. QED BY <1>3, <2>1, <2>2, <2>4 DEF Time
<1>6. \A i \in Provisionable(n) :
        /\ slivers'[i] \in Slivers
        /\ slivers'[i].slice = Kept[i].slice /\ slivers'[i].resource = Kept[i].resource
        /\ slivers'[i].expiration = LeaseExpiration(i, c, reqEnd)
        /\ slivers'[i].end = LeaseExpiration(i, c, reqEnd)
  <2> TAKE i \in Provisionable(n)
  <2>1. i \in SliverId
    BY <1>4 DEF Live
  <2>2. slivers'[i] = Provisioned(Kept[i], LeaseExpiration(i, c, reqEnd))
    BY <1>1, <2>1 DEF Provisioned
  <2>3. QED BY <1>4, <1>5, <2>2, ProvisionedSliver
<1>7. \A i \in SliverId \ Provisionable(n) : slivers'[i] = Kept[i]
  BY <1>1
<1>8. slivers' \in [SliverId -> {NoSliver} \cup Slivers]
  <2>1. Kept \in [SliverId -> {NoSliver} \cup Slivers]
    BY KeptLeases DEF Leases
  <2>2. \A i \in SliverId : slivers'[i] \in {NoSliver} \cup Slivers
    BY <1>6, <1>7, <2>1
  <2>3. QED BY <1>1, <2>2
<1>9. \A i \in Provisionable(n) : /\ slivers'[i].expiration <= sliceExp[Kept[i].slice]
                                 /\ slivers'[i].end <= sliceExp[Kept[i].slice]
  <2> TAKE i \in Provisionable(n)
  <2>1. LeaseExpiration(i, c, reqEnd) \in Nat /\ LeaseExpiration(i, c, reqEnd) <= c
    BY <1>3, <1>5 DEF Time
  <2>2. QED BY <1>3, <1>4, <1>6, <2>1
<1>10. QED BY <1>2, <1>4, <1>6, <1>7, <1>8, <1>9, UpdateStep

(* PerformOperationalAction keeps the invariant.                           *)
LEMMA PerformOperationalActionStep ==
  ASSUME IInv, NEW n \in Names, NEW action, NEW bestEffort,
         PerformOperationalAction(n, action, bestEffort)
  PROVE  IInv'
<1>1. /\ Decodes(n) /\ slices' = KeptSlices /\ available' = KeptAvailable
      /\ containers' = KeptContainers /\ UNCHANGED <<now, sliceExp>>
      /\ reply' \in [op : Ops, code : Codes]
  BY DEF PerformOperationalAction, Reply, Ops, Codes
<1>2. Leases(Kept, KeptSlices, KeptAvailable, sliceExp)
  BY KeptLeases
<1>3. CASE slivers' = Kept
  BY <1>1, <1>2, <1>3, UpdateStep DEF Leases
<1>4. CASE slivers' = [i \in SliverId |->
                        IF i \in Named(Kept, n) /\ InRightState(i, action)
                        THEN [Kept[i] EXCEPT !.op = OpAfter(action)] ELSE Kept[i]]
  <2>1. \A i \in SliverId :
          \/ slivers'[i] = Kept[i]
          \/ /\ i \in Live(Kept) /\ Kept[i] \in Slivers
             /\ slivers'[i] = Operated(Kept[i], action)
    BY <1>1, <1>4, DecodedSlivers DEF Operated
  <2>2. slivers' \in [SliverId -> {NoSliver} \cup Slivers]
    BY <1>2, <1>4, <2>1, OperatedSliver DEF Leases
  <2>3. \A i \in SliverId :
          \/ slivers'[i] = Kept[i]
          \/ /\ i \in Live(Kept)
             /\ slivers'[i].slice = Kept[i].slice
             /\ slivers'[i].resource = Kept[i].resource
             /\ slivers'[i].expiration <= sliceExp[Kept[i].slice]
             /\ slivers'[i].end <= sliceExp[Kept[i].slice]
    BY <1>2, <2>1, OperatedSliver DEF Leases
  <2>4. QED BY <1>1, <2>2, <2>3, UpdateStep
<1>5. QED BY <1>3, <1>4 DEF PerformOperationalAction

(* Renew keeps the invariant: it grants no time past the credentials.      *)
LEMMA RenewStep ==
  ASSUME IInv, NEW n \in Names, NEW requested \in RequestTimes, NEW alap \in BOOLEAN,
         Renew(n, requested, alap)
  PROVE  IInv'
<1>1. PICK c \in Credentials(SliceNamed(Kept, n)) :
        /\ slivers' = [i \in SliverId |->
                         IF RenewGranted(RenewTime(c, requested, alap),
                                         Earlier(c, now + MaxLease)) /\ i \in Named(Kept, n)
                         THEN [Kept[i] EXCEPT !.expiration = RenewTime(c, requested, alap),
                                              !.end = Later(@, RenewTime(c, requested, alap))]
                         ELSE Kept[i]]
        /\ Reply("Renew", IF RenewGranted(RenewTime(c, requested, alap),
                                          Earlier(c, now + MaxLease))
                          THEN "SUCCESS" ELSE "OUT_OF_RANGE")
  BY DEF Renew, RenewWith
<1>2. /\ Decodes(n) /\ slices' = KeptSlices /\ available' = KeptAvailable
      /\ containers' = KeptContainers /\ UNCHANGED <<now, sliceExp>>
      /\ reply' \in [op : Ops, code : Codes]
  BY <1>1, Zenon DEF Renew, RenewWith, Reply, Ops, Codes
<1> DEFINE until == RenewTime(c, requested, alap)
           limit == Earlier(c, now + MaxLease)
           ex == sliceExp[SliceNamed(Kept, n)]
<1>3. /\ now \in Nat /\ MaxTime \in Nat /\ MaxLease \in Nat /\ requested \in Nat
      /\ c \in Nat /\ c <= MaxTime /\ c <= ex /\ ex \in Nat
  BY <1>2, DecodedSlivers, TimesAssumption DEF IInv, TypeOK, Time, Credentials
<1>4. Leases(Kept, KeptSlices, KeptAvailable, sliceExp)
  BY KeptLeases
<1>5. CASE ~RenewGranted(until, limit)
  <2>1. slivers' = [i \in SliverId |-> Kept[i]]
    BY <1>1, <1>5
  <2>2. slivers' = Kept
    BY <1>4, <2>1 DEF Leases
  <2>3. QED BY <1>1, <1>2, <1>4, <2>2, UpdateStep DEF Leases
<1>6. CASE RenewGranted(until, limit)
  <2>1. until \in Time /\ until \in Nat /\ until <= ex
    BY <1>3, <1>6 DEF RenewGranted, RenewTime, Earlier, Time
  <2>2. slivers' = [i \in SliverId |-> IF i \in Named(Kept, n)
                                      THEN Renewed(Kept[i], until) ELSE Kept[i]]
    BY <1>1, <1>6 DEF Renewed
  <2> HIDE DEF until, ex
  <2>3. \A i \in Named(Kept, n) : /\ i \in Live(Kept) /\ i \in SliverId /\ Kept[i] \in Slivers
                                 /\ sliceExp[Kept[i].slice] = ex
                                 /\ Kept[i].end <= ex
    BY <1>2, <1>4, DecodedSlivers DEF Leases, Live, ex
  <2>4. \A i \in Named(Kept, n) : /\ slivers'[i] \in Slivers
                                 /\ slivers'[i].slice = Kept[i].slice
                                 /\ slivers'[i].resource = Kept[i].resource
                                 /\ slivers'[i].expiration <= ex
                                 /\ slivers'[i].end <= ex
    BY <2>1, <2>2, <2>3, RenewedSliver
  <2>5. \A i \in SliverId \ Named(Kept, n) : slivers'[i] = Kept[i]
    BY <2>2
  <2>6. slivers' \in [SliverId -> {NoSliver} \cup Slivers]
    BY <1>4, <2>2, <2>4, <2>5 DEF Leases
  <2>7. QED BY <1>1, <1>2, <2>3, <2>4, <2>5, <2>6, UpdateStep
<1>7. QED BY <1>5, <1>6

(* Delete keeps the invariant, whether it completes or is interrupted.     *)
LEMMA DeleteStep ==
  ASSUME IInv, NEW u \in User, NEW n \in Names, Delete(u, n)
  PROVE  IInv'
<1> DEFINE s == SliceNamed(Kept, n)
           T == Named(Kept, n)
           afterSlice == DeallocateFrom(KeptContainers, s, NamedBag(n))
           afterUser == DeallocateFrom(afterSlice, u, NamedBag(n))
<1>1. Decodes(n) /\ UNCHANGED <<now, sliceExp>>
  BY DEF Delete
<1>2. s \in Slice /\ T \subseteq Live(Kept)
  BY <1>1, DecodedSlivers
<1>3. Leases(Kept, KeptSlices, KeptAvailable, sliceExp) /\ KeptContainers \in Dictionaries
  BY KeptLeases
<1>4. NamedBag(n) \in Bags
  BY NamedBagType
<1>5. now' \in Time /\ sliceExp' \in [Slice -> Time]
  BY <1>1 DEF IInv, TypeOK
<1>6. CanDeallocate(KeptContainers, s, NamedBag(n)) => afterSlice \in Dictionaries
  BY <1>2, <1>3, <1>4, DeallocateFromType
<1>7. CASE DeleteInterrupted(u, n)
  <2>1. /\ slivers' = Kept /\ slices' = KeptSlices /\ available' = KeptAvailable
        /\ reply' \in [op : Ops, code : Codes]
    BY <1>7 DEF DeleteInterrupted, Reply, Ops, Codes
  <2>2. \/ /\ ~CanDeallocate(KeptContainers, s, NamedBag(n))
           /\ containers' \in InterruptedDeallocate(KeptContainers, s, NamedBag(n))
        \/ /\ CanDeallocate(KeptContainers, s, NamedBag(n))
           /\ ~CanDeallocate(afterSlice, u, NamedBag(n))
           /\ containers' \in InterruptedDeallocate(afterSlice, u, NamedBag(n))
    BY <1>7 DEF DeleteInterrupted
  <2> HIDE DEF afterSlice, s
  <2>3. containers' \in Dictionaries
    BY <1>2, <1>3, <1>4, <1>6, <2>2, InterruptedDeallocateType
  <2>4. Leases(slivers, slices, available, sliceExp)'
    BY <1>1, <1>3, <2>1 DEF Leases, Live
  <2>5. QED BY <1>5, <2>1, <2>3, <2>4, IInvFromLeases
<1>8. CASE DeleteCompleted(u, n)
  <2>1. /\ CanDeallocate(KeptContainers, s, NamedBag(n))
        /\ CanDeallocate(afterSlice, u, NamedBag(n))
        /\ slivers' = Without(Kept, T)
        /\ slices' = SlicesWithout(KeptSlices, Kept, T)
        /\ available' = KeptAvailable \cup ResourcesOf(Kept, T)
        /\ containers' = ContainersWithout(afterUser, Kept, T)
    BY <1>8 DEF DeleteCompleted
  <2>2. reply' \in [op : Ops, code : Codes]
    BY <1>8 DEF DeleteCompleted, Reply, Ops, Codes
  <2>3. Leases(slivers', slices', available', sliceExp)
    BY <1>2, <1>3, <2>1, WithoutKeepsLeases
  <2>4. Leases(slivers, slices, available, sliceExp)'
    BY <1>1, <2>3 DEF Leases, Live
  <2>5. afterUser \in Dictionaries
    <3> HIDE DEF afterSlice
    <3>1. QED BY <1>4, <1>6, <2>1, DeallocateFromType
  <2>6. containers' \in Dictionaries
    <3> HIDE DEF afterUser
    <3>1. QED BY <2>1, <2>5, DeprovisionType DEF ContainersWithout
  <2>7. QED BY <1>5, <2>2, <2>4, <2>6, IInvFromLeases
<1>9. QED BY <1>7, <1>8 DEF Delete

(* Shutdown keeps the invariant: it drops no slice.                        *)
LEMMA ShutdownStep ==
  ASSUME IInv, NEW s \in Slice, Shutdown(s)
  PROVE  IInv'
<1> DEFINE code == Decode(Kept, KeptSlices, [slices |-> {s}, ids |-> {}])
<1>1. /\ slices' = IF code = "SUCCESS" THEN [KeptSlices EXCEPT ![s] = "shutdown"] ELSE KeptSlices
      /\ slivers' = Kept /\ available' = KeptAvailable /\ containers' = KeptContainers
      /\ UNCHANGED <<now, sliceExp>>
      /\ reply' = [op |-> "Shutdown", code |-> code]
  BY DEF Shutdown, Reply
<1>2. reply' \in [op : Ops, code : Codes]
  BY <1>1, DecodeCodes DEF Ops
<1>3. Leases(Kept, KeptSlices, KeptAvailable, sliceExp) /\ KeptContainers \in Dictionaries
  BY KeptLeases
<1> HIDE DEF code
<1>4. slices' \in [Slice -> SliceStates]
  BY <1>1, <1>3 DEF Leases, SliceStates
<1>5. \A i \in Live(Kept) : slices'[Kept[i].slice] # "absent"
  <2> TAKE i \in Live(Kept)
  <2>1. Kept[i].slice \in Slice /\ KeptSlices[Kept[i].slice] # "absent"
    BY <1>3, LiveAreSlivers DEF Leases, Slivers
  <2>2. QED BY <1>1, <1>3, <2>1 DEF Leases
<1>6. Leases(Kept, slices', KeptAvailable, sliceExp)
  BY <1>3, <1>4, <1>5 DEF Leases
<1>7. Leases(slivers, slices, available, sliceExp)'
  BY <1>1, <1>6 DEF Leases, Live
<1>8. now' \in Time /\ sliceExp' \in [Slice -> Time] /\ containers' \in Dictionaries
  BY <1>1, <1>3 DEF IInv, TypeOK
<1>9. QED BY <1>2, <1>7, <1>8, IInvFromLeases

-----------------------------------------------------------------------------

(* A server that has just started satisfies the invariant.                 *)
LEMMA InitIInv == Init => IInv
<1> SUFFICES ASSUME Init PROVE IInv
  OBVIOUS
<1>1. \A i \in SliverId : slivers[i] = NoSliver
  BY DEF Init
<1>2. Live(slivers) = {}
  BY <1>1 DEF Live
<1>3. TypeOK
  BY TimesAssumption DEF Init, TypeOK, Time, SliceStates, NoContainers, Dictionaries,
                         NoReply, Ops, Codes
<1>4. QED
  BY <1>2, <1>3 DEF IInv, LeaseExclusive, SlicesTracked, NoSliverOutlivesSlice

(* Every step keeps the invariant.                                         *)
LEMMA NextIInv == IInv /\ [Next]_vars => IInv'
<1> SUFFICES ASSUME IInv, [Next]_vars PROVE IInv'
  OBVIOUS
<1>1. CASE Tick
  BY <1>1, TickStep
<1>2. CASE \E s \in Slice : RenewSlice(s)
  BY <1>2, RenewSliceStep
<1>3. CASE GetVersion \/ ListResources \/ \E op \in Ops : Rejected(op)
  BY <1>3, ReportSteps
<1>4. CASE \E s \in Slice, u \in User : Allocate(s, u)
  <2>1. PICK s \in Slice, u \in User : Allocate(s, u)
    BY <1>4
  <2>2. CASE \E n \in 1..(Cardinality(Resource) + 1) : AllocateTooBig(s, n)
    BY <2>2, ReportSteps
  <2>3. CASE \E c \in Credentials(s), reqStart, reqEnd \in RequestTimes :
               AllocateRefused(s, c, reqStart, reqEnd)
    BY <2>3, AllocateRefusedStep
  <2>4. CASE \E c \in Credentials(s), reqStart, reqEnd \in RequestTimes :
               AllocateGranted(s, u, c, reqStart, reqEnd)
    BY <2>4, AllocateGrantedStep
  <2>5. CASE AllocateBroken(s)
    BY <2>5, AllocateRefusedStep
  <2>6. QED BY <2>1, <2>2, <2>3, <2>4, <2>5 DEF Allocate
<1>5. CASE \E s \in Slice : Shutdown(s)
  BY <1>5, ShutdownStep
<1>6. CASE \E n \in Names : UrnCall(n)
  <2>1. PICK n \in Names : UrnCall(n)
    BY <1>6
  <2>2. CASE \E op \in UrnOps : UrnsRefused(op, n)
    BY <2>2, UrnsRefusedStep
  <2>3. CASE \/ \E op \in UrnOps : UrnsExpired(op, n)
             \/ \E op \in {"Status", "Describe"} : Report(op, n)
             \/ PerformUnknownAction(n)
    BY <2>3, ReportSteps
  <2>4. CASE Provision(n)
    BY <2>4, ProvisionStep
  <2>5. CASE \E u \in User : Delete(u, n)
    BY <2>5, DeleteStep
  <2>6. CASE \E action \in Actions, bestEffort \in BOOLEAN :
               PerformOperationalAction(n, action, bestEffort)
    BY <2>6, PerformOperationalActionStep
  <2>7. CASE \E requested \in RequestTimes, alap \in BOOLEAN : Renew(n, requested, alap)
    BY <2>7, RenewStep
  <2>8. QED BY <2>1, <2>2, <2>3, <2>4, <2>5, <2>6, <2>7 DEF UrnCall
<1>7. CASE UNCHANGED vars
  BY <1>7 DEF vars, IInv, TypeOK, LeaseExclusive, SlicesTracked, NoSliverOutlivesSlice,
              Live, Dictionaries
<1>8. QED BY <1>1, <1>2, <1>3, <1>4, <1>5, <1>6, <1>7 DEF Next

(* IInv, the conjunction of the four invariants below, is inductive:       *)
(* exclusivity needs that tables are well typed, tracking that slices go   *)
(* with their last sliver, and the bound on times that credentials expire  *)
(* with the slice.                                                         *)
THEOREM Inductive == Spec => []IInv
BY InitIInv, NextIInv, PTL DEF Spec

(* Every attribute keeps to its range, whatever the calls.                 *)
THEOREM TypeCorrect == Spec => []TypeOK
<1>1. IInv => TypeOK
  BY DEF IInv
<1>2. QED BY <1>1, Inductive, PTL

(* No fake VM is in two slivers or on offer while it is in one, whatever   *)
(* mixture of expiry, deletion and refused or repeated calls led there.    *)
THEOREM Exclusivity == Spec => []LeaseExclusive
<1>1. IInv => LeaseExclusive
  BY DEF IInv
<1>2. QED BY <1>1, Inductive, PTL

(* No sliver is left behind by the deletion of its slice's record.         *)
THEOREM Tracking == Spec => []SlicesTracked
<1>1. IInv => SlicesTracked
  BY DEF IInv
<1>2. QED BY <1>1, Inductive, PTL

(* No call gives a sliver more time than the slice's credentials allow.    *)
THEOREM SlicesOutliveSlivers == Spec => []NoSliverOutlivesSlice
<1>1. IInv => NoSliverOutlivesSlice
  BY DEF IInv
<1>2. QED BY <1>1, Inductive, PTL

-----------------------------------------------------------------------------
(* What one step can do to the slivers.  A call sweeps away what has       *)
(* expired and then does one of four things: nothing more; it lends        *)
(* available resources to one slice; it changes slivers of one slice; it   *)
(* removes slivers of one slice.  The action properties, and the           *)
(* refinement of LeasedPool, follow from this.                             *)

Overruled ==
  reply'.op = "Allocate" /\ reply'.code \in {"BAD_ARGS", "ALREADY_EXISTS", "ERROR"}

(* No resource that was on offer or in a sliver after the sweep is gone. *)
KeepsResources ==
  KeptAvailable \cup ResourcesOf(Kept, Live(Kept))
    \subseteq available' \cup ResourcesOf(slivers', Live(slivers'))

Sweeps == slivers' = Kept /\ (KeepsResources \/ Overruled)

(* A sliver v lent to slice s by this call. *)
LentTo(s, v) ==
  /\ v \in Slivers /\ v.slice = s /\ v.state = "allocated"
  /\ v.resource \in KeptAvailable
  /\ now <= v.expiration /\ v.expiration <= sliceExp[s]

Lends(s) ==
  /\ \A i \in SliverId :
       slivers'[i] = Kept[i] \/ (slivers[i] = NoSliver /\ LentTo(s, slivers'[i]))
  /\ KeepsResources

(* What may become of a sliver v of slice s that stays. *)
ChangedTo(s, v, w) ==
  /\ v.slice = s /\ w \in Slivers
  /\ w.slice = s /\ w.resource = v.resource
  /\ now <= w.expiration /\ w.expiration <= sliceExp[s]
  /\ \/ w.state = v.state /\ w.end = v.end
     \/ w.state = v.state /\ w.end <= Later(v.end, now + MaxLease)
     \/ w.end <= now + MaxLease

Changes(s) ==
  /\ KeptSlices[s] # "shutdown"
  /\ \A i \in SliverId :
       slivers'[i] = Kept[i] \/ (i \in Live(Kept) /\ ChangedTo(s, Kept[i], slivers'[i]))
  /\ KeepsResources

Removes(s) ==
  /\ KeptSlices[s] # "shutdown"
  /\ reply'.op = "Delete"
  /\ \A i \in SliverId :
       slivers'[i] = Kept[i]
       \/ (i \in Live(Kept) /\ Kept[i].slice = s /\ slivers'[i] = NoSliver)
  /\ KeepsResources

Calls ==
  /\ UNCHANGED <<now, sliceExp>>
  /\ slivers' \in [SliverId -> {NoSliver} \cup Slivers]
  /\ \/ Sweeps
     \/ \E s \in Slice : Lends(s) \/ Changes(s) \/ Removes(s)

(* A call that ends before the delegate runs. *)
Refuses == \E op \in UrnOps, n \in Names : UrnsRefused(op, n)

(* A call that leaves every resource with a sliver that had it keeps them. *)
LEMMA SameResources ==
  ASSUME Kept \in [SliverId -> {NoSliver} \cup Slivers],
         slivers' \in [SliverId -> {NoSliver} \cup Slivers],
         KeptAvailable \subseteq available',
         \A i \in Live(Kept) : i \in Live(slivers') /\ slivers'[i].resource = Kept[i].resource
  PROVE  KeepsResources
BY DEF KeepsResources, ResourcesOf

(* The calls that only report, or fail in the delegate, only sweep.        *)
LEMMA ReportsSweep ==
  ASSUME IInv, ExpireSlivers, UNCHANGED <<now, sliceExp>>
  PROVE  Calls
<1>1. Leases(Kept, KeptSlices, KeptAvailable, sliceExp)
  BY KeptLeases
<1>2. KeepsResources
  BY <1>1, SameResources DEF ExpireSlivers, Leases
<1>3. QED BY <1>1, <1>2 DEF Calls, Sweeps, ExpireSlivers, Leases

(* So does a Shutdown, which changes the mark of the slice only.           *)
LEMMA ShutdownSweeps ==
  ASSUME IInv, NEW s \in Slice, Shutdown(s)
  PROVE  Calls
<1>1. slivers' = Kept /\ available' = KeptAvailable /\ UNCHANGED <<now, sliceExp>>
  BY DEF Shutdown
<1>2. Leases(Kept, KeptSlices, KeptAvailable, sliceExp)
  BY KeptLeases
<1>3. KeepsResources
  BY <1>1, <1>2, SameResources DEF Leases
<1>4. QED BY <1>1, <1>2, <1>3 DEF Calls, Sweeps, Leases

(* So does an Allocate that fails over its times, which may leave          *)
(* resources off the list.                                                 *)
LEMMA AllocateRefusedSweeps ==
  ASSUME IInv, NEW s, NEW c, NEW reqStart, NEW reqEnd,
         AllocateBroken(s) \/ AllocateRefused(s, c, reqStart, reqEnd)
  PROVE  Calls
<1>1. slivers' = Kept /\ UNCHANGED <<now, sliceExp>> /\ Overruled
  BY DEF AllocateBroken, AllocateRefused, TakenInVain, Overruled, Reply
<1>2. Kept \in [SliverId -> {NoSliver} \cup Slivers]
  BY KeptLeases DEF Leases
<1>3. QED BY <1>1, <1>2 DEF Calls, Sweeps

(* The hold on a reservation is not over when it is made.                  *)
LEMMA HoldIsNotOver ==
  ASSUME IInv, NEW s \in Slice, NEW c \in Credentials(s),
         NEW reqStart \in RequestTimes, NEW reqEnd \in RequestTimes
  PROVE  now <= AllocExpiration(c, reqStart, reqEnd)
<1>1. /\ now \in Nat /\ MaxAlloc \in Nat /\ c \in Nat /\ reqStart \in Nat /\ reqEnd \in Nat
      /\ now <= c
  BY TimesAssumption DEF IInv, TypeOK, Time, Credentials
<1>2. QED BY <1>1 DEF AllocExpiration, Requested, StartTime, Earlier, Later

(* A granted Allocate lends: new URNs, resources that were available.      *)
LEMMA AllocateGrantedLends ==
  ASSUME IInv, NEW s \in Slice, NEW u \in User, NEW c \in Credentials(s),
         NEW reqStart \in RequestTimes, NEW reqEnd \in RequestTimes,
         AllocateGranted(s, u, c, reqStart, reqEnd)
  PROVE  Calls
<1>1. PICK I \in SUBSET {i \in SliverId : slivers[i] = NoSliver} :
        \E g \in [I -> KeptAvailable] :
          /\ slivers' = [i \in SliverId |->
                           IF i \in I THEN NewSliver(s, g[i], c, reqStart, reqEnd)
                           ELSE Kept[i]]
          /\ available' = KeptAvailable \ {g[i] : i \in I}
  BY DEF AllocateGranted, AllocateFor
<1>2. PICK g \in [I -> KeptAvailable] :
        /\ slivers' = [i \in SliverId |->
                         IF i \in I THEN NewSliver(s, g[i], c, reqStart, reqEnd)
                         ELSE Kept[i]]
        /\ available' = KeptAvailable \ {g[i] : i \in I}
  BY <1>1
<1>3. StartTime(reqStart) <= c /\ UNCHANGED <<now, sliceExp>>
  BY DEF AllocateGranted, AllocateFor
<1>4. Leases(Kept, KeptSlices, KeptAvailable, sliceExp)
  BY KeptLeases
<1>5. \A i \in I : /\ i \in SliverId /\ slivers[i] = NoSliver /\ i \in Live(slivers')
                  /\ LentTo(s, slivers'[i]) /\ slivers'[i].resource = g[i]
  <2> TAKE i \in I
  <2>1. i \in SliverId /\ slivers[i] = NoSliver /\ g[i] \in KeptAvailable /\ g[i] \in Resource
    BY <1>4 DEF Leases
  <2>2. slivers'[i] = NewSliver(s, g[i], c, reqStart, reqEnd)
    BY <1>2, <2>1
  <2>3. NewSliver(s, g[i], c, reqStart, reqEnd) \in Slivers
        /\ AllocExpiration(c, reqStart, reqEnd) <= sliceExp[s]
    BY <1>3, <2>1, NewSliverTimes
  <2>4. LentTo(s, slivers'[i]) /\ slivers'[i].resource = g[i]
    BY <2>1, <2>2, <2>3, HoldIsNotOver DEF LentTo, NewSliver
  <2>5. QED BY <2>1, <2>2, <2>3, <2>4, NoSliverIsNone DEF Live
<1>6. \A i \in SliverId \ I : slivers'[i] = Kept[i]
  BY <1>2
<1>7. slivers' \in [SliverId -> {NoSliver} \cup Slivers]
  BY <1>2, <1>4, <1>5, <1>6 DEF Leases, LentTo
<1>8. KeepsResources
  <2>1. \A i \in Live(Kept) : i \notin I /\ slivers'[i] = Kept[i] /\ i \in Live(slivers')
    BY <1>6 DEF Live, Kept, Without
  <2>2. ResourcesOf(Kept, Live(Kept)) \subseteq ResourcesOf(slivers', Live(slivers'))
    BY <2>1 DEF ResourcesOf
  <2>3. KeptAvailable \subseteq available' \cup ResourcesOf(slivers', Live(slivers'))
    BY <1>2, <1>5 DEF ResourcesOf
  <2>4. QED BY <2>2, <2>3 DEF KeepsResources
<1>9. Lends(s)
  BY <1>5, <1>6, <1>8 DEF Lends
<1>10. QED BY <1>3, <1>7, <1>9 DEF Calls

(* Slivers that keep their URN and their resource keep the resources.      *)
LEMMA ChangesKeepResources ==
  ASSUME IInv, available' = KeptAvailable, NEW s,
         slivers' \in [SliverId -> {NoSliver} \cup Slivers],
         \A i \in SliverId :
           slivers'[i] = Kept[i] \/ (i \in Live(Kept) /\ ChangedTo(s, Kept[i], slivers'[i]))
  PROVE  KeepsResources
<1>1. Kept \in [SliverId -> {NoSliver} \cup Slivers]
  BY KeptLeases DEF Leases
<1>2. \A i \in Live(Kept) : i \in Live(slivers') /\ slivers'[i].resource = Kept[i].resource
  BY NoSliverIsNone DEF Live, ChangedTo
<1>3. QED BY <1>1, <1>2, SameResources

(* A sliver that was kept has not expired.                                 *)
LEMMA KeptAreCurrent ==
  ASSUME IInv, NEW i \in Live(Kept)
  PROVE  /\ i \in SliverId /\ i \in Live(slivers) /\ Kept[i] = slivers[i]
         /\ Kept[i] \in Slivers
         /\ now <= Kept[i].expiration
         /\ Kept[i].expiration <= sliceExp[Kept[i].slice]
<1>1. i \in SliverId /\ i \in Live(slivers) /\ Kept[i] = slivers[i] /\ i \notin Expired
  BY DEF Live, Kept, Without
<1>2. Kept[i] \in Slivers
  BY KeptLeases, LiveAreSlivers DEF Leases
<1>3. now \in Nat /\ Kept[i].expiration \in Nat
  BY <1>2 DEF IInv, TypeOK, Slivers, Time
<1>4. now <= Kept[i].expiration
  BY <1>1, <1>3 DEF Expired
<1>5. Kept[i].expiration <= sliceExp[Kept[i].slice]
  BY <1>1 DEF IInv, NoSliverOutlivesSlice
<1>6. QED BY <1>1, <1>2, <1>4, <1>5

(* What Provision grants lasts until now at least, and within max_lease.   *)
LEMMA LeaseTimes ==
  ASSUME IInv, NEW s \in Slice, NEW c \in Credentials(s), NEW reqEnd \in RequestTimes,
         NEW n, NEW i \in Provisionable(n), Kept[i] \in Slivers
  PROVE  /\ LeaseExpiration(i, c, reqEnd) \in Time
         /\ now <= LeaseExpiration(i, c, reqEnd)
         /\ LeaseExpiration(i, c, reqEnd) <= now + MaxLease
         /\ LeaseExpiration(i, c, reqEnd) <= sliceExp[s]
<1>1. /\ now \in Nat /\ MaxTime \in Nat /\ MaxLease \in Nat /\ reqEnd \in Nat
      /\ c \in Nat /\ c <= MaxTime /\ now <= c /\ c <= sliceExp[s] /\ sliceExp[s] \in Nat
  BY TimesAssumption DEF IInv, TypeOK, Time, Credentials
<1>2. Kept[i].end \in Nat /\ now <= Kept[i].end
  BY DEF Provisionable, Slivers, Time
<1> DEFINE cap == Earlier(c, now + MaxLease)
           top == Requested(cap, reqEnd)
<1>3. cap \in Nat /\ cap <= c /\ cap <= now + MaxLease /\ now <= cap
  BY <1>1 DEF Earlier
<1> HIDE DEF cap
<1>4. top \in Nat /\ top <= cap /\ now <= top
  BY <1>1, <1>3 DEF Requested, Earlier
<1> HIDE DEF top
<1>5. LeaseExpiration(i, c, reqEnd) = Earlier(Kept[i].end, top)
  BY DEF LeaseExpiration, top, cap
<1>6. /\ LeaseExpiration(i, c, reqEnd) \in Nat /\ now <= LeaseExpiration(i, c, reqEnd)
      /\ LeaseExpiration(i, c, reqEnd) <= top
  BY <1>2, <1>4, <1>5 DEF Earlier
<1> HIDE DEF LeaseExpiration
<1>7. QED BY <1>1, <1>3, <1>4, <1>6 DEF Time

(* Provision changes slivers of the slice it names.                        *)
LEMMA ProvisionChanges ==
  ASSUME IInv, NEW n \in Names, Provision(n)
  PROVE  Calls
<1> DEFINE s == SliceNamed(Kept, n)
<1>1. PICK c \in Credentials(s), reqEnd \in RequestTimes :
        slivers' = [i \in SliverId |->
                      IF i \in Provisionable(n)
                      THEN [Kept[i] EXCEPT !.end = LeaseExpiration(i, c, reqEnd),
                                           !.expiration = LeaseExpiration(i, c, reqEnd),
                                           !.state = "provisioned",
                                           !.op = "notready"]
                      ELSE Kept[i]]
  BY DEF Provision
<1>2. Decodes(n) /\ available' = KeptAvailable /\ UNCHANGED <<now, sliceExp>>
  BY DEF Provision
<1>3. s \in Slice /\ KeptSlices[s] # "shutdown"
  BY <1>2, DecodedSlivers
<1>4. Kept \in [SliverId -> {NoSliver} \cup Slivers]
  BY KeptLeases DEF Leases
<1>5. ASSUME NEW i \in SliverId, i \in Provisionable(n)
      PROVE  i \in Live(Kept) /\ slivers'[i] \in Slivers /\ ChangedTo(s, Kept[i], slivers'[i])
  <2>1. i \in Live(Kept) /\ Kept[i] \in Slivers /\ Kept[i].slice = s
    BY <1>2, <1>5, DecodedSlivers DEF Provisionable
  <2>2. slivers'[i] = Provisioned(Kept[i], LeaseExpiration(i, c, reqEnd))
    BY <1>1, <1>5 DEF Provisioned
  <2>3. /\ LeaseExpiration(i, c, reqEnd) \in Time
        /\ now <= LeaseExpiration(i, c, reqEnd)
        /\ LeaseExpiration(i, c, reqEnd) <= now + MaxLease
        /\ LeaseExpiration(i, c, reqEnd) <= sliceExp[s]
    BY <1>3, <1>5, <2>1, LeaseTimes
  <2> HIDE DEF s
  <2>4. QED BY <2>1, <2>2, <2>3, ProvisionedSliver DEF ChangedTo
<1>6. \A i \in SliverId :
        slivers'[i] = Kept[i] \/ (i \in Live(Kept) /\ ChangedTo(s, Kept[i], slivers'[i]))
  BY <1>1, <1>5
<1>7. slivers' \in [SliverId -> {NoSliver} \cup Slivers]
  BY <1>1, <1>4, <1>5
<1> HIDE DEF s
<1>8. Changes(s)
  BY <1>2, <1>3, <1>6, <1>7, ChangesKeepResources DEF Changes
<1>9. QED BY <1>2, <1>3, <1>7, <1>8 DEF Calls

(* So does an operational action.                                          *)
LEMMA OperationChanges ==
  ASSUME IInv, NEW n \in Names, NEW action, NEW bestEffort,
         PerformOperationalAction(n, action, bestEffort)
  PROVE  Calls
<1> DEFINE s == SliceNamed(Kept, n)
<1>1. Decodes(n) /\ available' = KeptAvailable /\ UNCHANGED <<now, sliceExp>>
  BY DEF PerformOperationalAction
<1>2. s \in Slice /\ KeptSlices[s] # "shutdown"
  BY <1>1, DecodedSlivers
<1>3. Kept \in [SliverId -> {NoSliver} \cup Slivers]
  BY KeptLeases DEF Leases
<1>4. slivers' \in [SliverId -> {NoSliver} \cup Slivers]
      /\ \A i \in SliverId :
           slivers'[i] = Kept[i] \/ (i \in Live(Kept) /\ ChangedTo(s, Kept[i], slivers'[i]))
  <2>1. CASE slivers' = Kept
    BY <1>3, <2>1
  <2>2. CASE slivers' = [i \in SliverId |->
                          IF i \in Named(Kept, n) /\ InRightState(i, action)
                          THEN [Kept[i] EXCEPT !.op = OpAfter(action)] ELSE Kept[i]]
    <3>1. ASSUME NEW i \in SliverId, slivers'[i] # Kept[i]
          PROVE  /\ i \in Live(Kept) /\ slivers'[i] \in Slivers
                 /\ ChangedTo(s, Kept[i], slivers'[i])
      <4>1. i \in Live(Kept) /\ Kept[i] \in Slivers /\ Kept[i].slice = s
        BY <1>1, <2>2, <3>1, DecodedSlivers
      <4>2. /\ slivers'[i] = Operated(Kept[i], action)
            /\ Operated(Kept[i], action).state = Kept[i].state
        BY <2>2, <3>1, <4>1 DEF Operated, Slivers
      <4> HIDE DEF s
      <4>3. QED BY <4>1, <4>2, OperatedSliver, KeptAreCurrent DEF ChangedTo
    <3>2. slivers' \in [SliverId -> {NoSliver} \cup Slivers]
      BY <1>3, <2>2, <3>1
    <3>3. QED BY <3>1, <3>2
  <2>3. QED BY <2>1, <2>2 DEF PerformOperationalAction
<1> HIDE DEF s
<1>5. Changes(s)
  BY <1>1, <1>2, <1>4, ChangesKeepResources DEF Changes
<1>6. QED BY <1>1, <1>2, <1>4, <1>5 DEF Calls

(* Renew changes slivers of the slice it names, or none.                   *)
LEMMA RenewChanges ==
  ASSUME IInv, NEW n \in Names, NEW requested \in RequestTimes, NEW alap \in BOOLEAN,
         Renew(n, requested, alap)
  PROVE  Calls
<1> DEFINE s == SliceNamed(Kept, n)
<1>1. PICK c \in Credentials(s) :
        slivers' = [i \in SliverId |->
                      IF RenewGranted(RenewTime(c, requested, alap),
                                      Earlier(c, now + MaxLease)) /\ i \in Named(Kept, n)
                      THEN [Kept[i] EXCEPT !.expiration = RenewTime(c, requested, alap),
                                           !.end = Later(@, RenewTime(c, requested, alap))]
                      ELSE Kept[i]]
  BY DEF Renew, RenewWith
<1>2. Decodes(n) /\ available' = KeptAvailable /\ UNCHANGED <<now, sliceExp>>
  BY Zenon DEF Renew, RenewWith
<1>3. s \in Slice /\ KeptSlices[s] # "shutdown"
  BY <1>2, DecodedSlivers
<1>4. Kept \in [SliverId -> {NoSliver} \cup Slivers]
  BY KeptLeases DEF Leases
<1> DEFINE until == RenewTime(c, requested, alap)
           limit == Earlier(c, now + MaxLease)
<1>5. /\ now \in Nat /\ MaxTime \in Nat /\ MaxLease \in Nat /\ requested \in Nat
      /\ c \in Nat /\ c <= MaxTime /\ c <= sliceExp[s] /\ sliceExp[s] \in Nat
  BY <1>3, TimesAssumption DEF IInv, TypeOK, Time, Credentials
<1>6. ASSUME NEW i \in SliverId, slivers'[i] # Kept[i]
      PROVE  i \in Live(Kept) /\ slivers'[i] \in Slivers /\ ChangedTo(s, Kept[i], slivers'[i])
  <2>1. RenewGranted(until, limit) /\ i \in Named(Kept, n)
        /\ slivers'[i] = Renewed(Kept[i], until)
    BY <1>1, <1>6 DEF Renewed
  <2>2. i \in Live(Kept) /\ Kept[i] \in Slivers /\ Kept[i].slice = s
    BY <1>2, <2>1, DecodedSlivers
  <2>3. /\ until \in Nat /\ until \in Time /\ now <= until
        /\ until <= sliceExp[s] /\ until <= now + MaxLease
    BY <1>5, <2>1 DEF RenewGranted, RenewTime, Earlier, Time
  <2> HIDE DEF until, s
  <2>4. /\ slivers'[i] \in Slivers /\ slivers'[i].slice = s
        /\ slivers'[i].resource = Kept[i].resource /\ slivers'[i].state = Kept[i].state
        /\ slivers'[i].expiration = until /\ slivers'[i].end = Later(Kept[i].end, until)
    BY <2>1, <2>2, <2>3, RenewedSliver
  <2>5. Kept[i].end \in Nat
    BY <2>2 DEF Slivers, Time
  <2>6. Later(Kept[i].end, until) <= Later(Kept[i].end, now + MaxLease)
    BY <1>5, <2>3, <2>5 DEF Later
  <2>7. QED BY <2>2, <2>3, <2>4, <2>6 DEF ChangedTo
<1>7. slivers' \in [SliverId -> {NoSliver} \cup Slivers]
  BY <1>1, <1>4, <1>6
<1> HIDE DEF s
<1>8. Changes(s)
  BY <1>2, <1>3, <1>6, <1>7, ChangesKeepResources DEF Changes
<1>9. QED BY <1>2, <1>3, <1>7, <1>8 DEF Calls

(* Delete removes slivers of the slice it names and puts their resources   *)
(* on offer, unless it is interrupted.                                     *)
LEMMA DeleteRemoves ==
  ASSUME IInv, NEW u \in User, NEW n \in Names, Delete(u, n)
  PROVE  Calls
<1> DEFINE s == SliceNamed(Kept, n)
           T == Named(Kept, n)
<1>1. Decodes(n) /\ UNCHANGED <<now, sliceExp>>
  BY DEF Delete
<1>2. s \in Slice /\ KeptSlices[s] # "shutdown"
      /\ \A i \in T : i \in Live(Kept) /\ Kept[i].slice = s
  BY <1>1, DecodedSlivers
<1>3. Kept \in [SliverId -> {NoSliver} \cup Slivers]
  BY KeptLeases DEF Leases
<1>4. CASE DeleteInterrupted(u, n)
  <2>1. slivers' = Kept /\ available' = KeptAvailable
    BY <1>4 DEF DeleteInterrupted
  <2>2. KeepsResources
    BY <1>3, <2>1, SameResources
  <2>3. QED BY <1>1, <1>3, <2>1, <2>2 DEF Calls, Sweeps
<1>5. CASE DeleteCompleted(u, n)
  <2>1. /\ slivers' = Without(Kept, T)
        /\ available' = KeptAvailable \cup ResourcesOf(Kept, T)
        /\ reply'.op = "Delete"
    BY <1>5 DEF DeleteCompleted, Reply
  <2> HIDE DEF s, T
  <2>2. \A i \in SliverId : slivers'[i] = IF i \in T THEN NoSliver ELSE Kept[i]
    BY <2>1 DEF Without
  <2>3. slivers' \in [SliverId -> {NoSliver} \cup Slivers]
    BY <1>3, <2>1 DEF Without
  <2>4. KeepsResources
    <3>1. \A i \in Live(Kept) : i \in T \/ (i \in Live(slivers') /\ slivers'[i] = Kept[i])
      BY <2>2 DEF Live
    <3>2. QED BY <2>1, <3>1 DEF KeepsResources, ResourcesOf
  <2>5. Removes(s)
    BY <1>2, <2>1, <2>2, <2>4 DEF Removes
  <2>6. QED BY <1>1, <1>2, <2>3, <2>5 DEF Calls
<1>6. QED BY <1>4, <1>5 DEF Delete

(* Every step is one of these.                                             *)
LEMMA NextSteps ==
  ASSUME IInv, Next
  PROVE  Tick \/ (\E s \in Slice : RenewSlice(s)) \/ Refuses \/ Calls
<1>1. CASE GetVersion \/ ListResources \/ \E op \in Ops : Rejected(op)
  BY <1>1, ReportsSweep DEF GetVersion, ListResources, Rejected
<1>2. CASE \E s \in Slice, u \in User : Allocate(s, u)
  <2>1. PICK s \in Slice, u \in User : Allocate(s, u)
    BY <1>2
  <2>2. CASE \E n \in 1..(Cardinality(Resource) + 1) : AllocateTooBig(s, n)
    BY <2>2, ReportsSweep DEF AllocateTooBig
  <2>3. CASE \E c \in Credentials(s), reqStart, reqEnd \in RequestTimes :
               AllocateRefused(s, c, reqStart, reqEnd)
    BY <2>3, AllocateRefusedSweeps
  <2>4. CASE \E c \in Credentials(s), reqStart, reqEnd \in RequestTimes :
               AllocateGranted(s, u, c, reqStart, reqEnd)
    BY <2>4, AllocateGrantedLends
  <2>5. CASE AllocateBroken(s)
    BY <2>5, AllocateRefusedSweeps
  <2>6. QED BY <2>1, <2>2, <2>3, <2>4, <2>5 DEF Allocate
<1>3. CASE \E s \in Slice : Shutdown(s)
  BY <1>3, ShutdownSweeps
<1>4. CASE \E n \in Names : UrnCall(n)
  <2>1. PICK n \in Names : UrnCall(n)
    BY <1>4
  <2>2. CASE \E op \in UrnOps : UrnsRefused(op, n)
    BY <2>2 DEF Refuses
  <2>3. CASE \/ \E op \in UrnOps : UrnsExpired(op, n)
             \/ \E op \in {"Status", "Describe"} : Report(op, n)
             \/ PerformUnknownAction(n)
    BY <2>3, ReportsSweep DEF UrnsExpired, Report, PerformUnknownAction
  <2>4. CASE Provision(n)
    BY <2>4, ProvisionChanges
  <2>5. CASE \E u \in User : Delete(u, n)
    BY <2>5, DeleteRemoves
  <2>6. CASE \E action \in Actions, bestEffort \in BOOLEAN :
               PerformOperationalAction(n, action, bestEffort)
    BY <2>6, OperationChanges
  <2>7. CASE \E requested \in RequestTimes, alap \in BOOLEAN : Renew(n, requested, alap)
    BY <2>7, RenewChanges
  <2>8. QED BY <2>1, <2>2, <2>3, <2>4, <2>5, <2>6, <2>7 DEF UrnCall
<1>5. QED BY <1>1, <1>2, <1>3, <1>4 DEF Next

(* What has not expired is still there after the sweep, and its slice is   *)
(* marked as before.                                                       *)
LEMMA CurrentAreKept ==
  ASSUME IInv, NEW i \in Live(slivers), slivers[i].expiration >= now
  PROVE  /\ i \in SliverId /\ i \in Live(Kept) /\ Kept[i] = slivers[i]
         /\ slivers[i] \in Slivers
         /\ KeptSlices[slivers[i].slice] = slices[slivers[i].slice]
<1>1. i \in SliverId /\ slivers[i] \in Slivers
  BY LiveAreSlivers DEF IInv, TypeOK
<1>2. now \in Nat /\ slivers[i].expiration \in Nat
  BY <1>1 DEF IInv, TypeOK, Slivers, Time
<1>3. i \notin Expired
  BY <1>2 DEF Expired
<1>4. i \in Live(Kept) /\ Kept[i] = slivers[i]
  BY <1>1, <1>3 DEF Kept, Without, Live
<1>5. i \in SliversOf(slivers, slivers[i].slice) /\ slivers[i].slice \in Slice
  BY <1>1 DEF SliversOf, Slivers
<1>6. KeptSlices[slivers[i].slice] = slices[slivers[i].slice]
  BY <1>3, <1>5 DEF KeptSlices, SlicesWithout
<1>7. QED BY <1>1, <1>4, <1>6

(* What a call leaves of a sliver, or makes of it, has not expired.        *)
LEMMA CallsLeaveCurrent ==
  ASSUME IInv, Calls, NEW i \in SliverId, slivers'[i] # NoSliver
  PROVE  slivers'[i] \in Slivers /\ slivers'[i].expiration >= now
<1>1. slivers'[i] \in Slivers
  BY DEF Calls
<1>2. now \in Nat /\ slivers'[i].expiration \in Nat
  BY <1>1 DEF IInv, TypeOK, Slivers, Time
<1>3. CASE slivers'[i] = Kept[i]
  BY <1>1, <1>3, KeptAreCurrent DEF Live
<1>4. CASE \E s \in Slice : LentTo(s, slivers'[i]) \/ ChangedTo(s, Kept[i], slivers'[i])
  BY <1>2, <1>4 DEF LentTo, ChangedTo
<1>5. QED BY <1>3, <1>4 DEF Calls, Sweeps, Lends, Changes, Removes

(* A call that is answered with success leaves nothing expired.            *)
THEOREM SuccessMeansSwept == Spec => CallsExpire
<1> DEFINE A == reply'.code = "SUCCESS" =>
                  \A i \in SliverId :
                    slivers'[i] # NoSliver => slivers'[i].expiration >= now
<1>1. IInv /\ Next => A
  <2> SUFFICES ASSUME IInv, Next, reply'.code = "SUCCESS" PROVE A
    OBVIOUS
  <2>1. CASE Tick \/ (\E s \in Slice : RenewSlice(s)) \/ Refuses
    BY <2>1 DEF Tick, RenewSlice, NoReply, Refuses, UrnsRefused, Reply
  <2>2. CASE Calls
    BY <2>2, CallsLeaveCurrent
  <2>3. QED BY <2>1, <2>2, NextSteps
<1>2. IInv /\ [Next]_vars => [A]_vars
  BY <1>1
<1>3. QED BY <1>2, Inductive, PTL DEF Spec, CallsExpire

(* A lease that has not run out ends by Delete only, of an active slice.   *)
THEOREM LeasesAreKept == Spec => OnlyDeleteRemoves
<1> DEFINE A == \A i \in Live(slivers) :
                  slivers[i].expiration >= now /\ slivers'[i] = NoSliver =>
                    reply'.op = "Delete" /\ slices[slivers[i].slice] = "active"
<1>1. IInv /\ Next => A
  <2> SUFFICES ASSUME IInv, Next, NEW i \in Live(slivers),
                      slivers[i].expiration >= now, slivers'[i] = NoSliver
               PROVE  reply'.op = "Delete" /\ slices[slivers[i].slice] = "active"
    OBVIOUS
  <2>1. /\ i \in SliverId /\ i \in Live(Kept) /\ Kept[i] = slivers[i]
        /\ slivers[i] \in Slivers
        /\ KeptSlices[slivers[i].slice] = slices[slivers[i].slice]
    BY CurrentAreKept
  <2>2. slivers'[i] # slivers[i] /\ slivers'[i] \notin Slivers
    BY <2>1, NoSliverIsNone
  <2>3. CASE Tick \/ (\E s \in Slice : RenewSlice(s)) \/ Refuses
    BY <2>2, <2>3 DEF Tick, RenewSlice, Refuses, UrnsRefused
  <2>4. CASE Calls
    <3>1. \E s \in Slice : Removes(s) /\ Kept[i].slice = s
      BY <2>1, <2>2, <2>4 DEF Calls, Sweeps, Lends, Changes, Removes, LentTo, ChangedTo
    <3>2. reply'.op = "Delete" /\ slices[slivers[i].slice] # "shutdown"
      BY <2>1, <3>1 DEF Removes
    <3>3. slices[slivers[i].slice] \in SliceStates /\ slices[slivers[i].slice] # "absent"
      BY <2>1 DEF IInv, TypeOK, SlicesTracked, Slivers
    <3>4. QED BY <3>2, <3>3 DEF SliceStates
  <2>5. QED BY <2>3, <2>4, NextSteps
<1>2. IInv /\ [Next]_vars => [A]_vars
  BY <1>1
<1>3. QED BY <1>2, Inductive, PTL DEF Spec, OnlyDeleteRemoves

(* No call changes a sliver that a slice has while it is shut down, until  *)
(* it expires; of slivers that Allocate adds to the slice nothing is said. *)
THEOREM ShutdownHolds == Spec => ShutdownFreezes
<1> DEFINE A == \A i \in Live(slivers) :
                  slices[slivers[i].slice] = "shutdown" /\ slivers[i].expiration >= now =>
                    slivers'[i] = slivers[i]
<1>1. IInv /\ Next => A
  <2> SUFFICES ASSUME IInv, Next, NEW i \in Live(slivers),
                      slices[slivers[i].slice] = "shutdown", slivers[i].expiration >= now
               PROVE  slivers'[i] = slivers[i]
    OBVIOUS
  <2>1. /\ i \in SliverId /\ Kept[i] = slivers[i] /\ slivers[i] # NoSliver
        /\ KeptSlices[slivers[i].slice] = slices[slivers[i].slice]
    BY CurrentAreKept DEF Live
  <2>2. CASE Tick \/ (\E s \in Slice : RenewSlice(s)) \/ Refuses
    BY <2>2 DEF Tick, RenewSlice, Refuses, UrnsRefused
  <2>3. CASE Calls
    BY <2>1, <2>3 DEF Calls, Sweeps, Lends, Changes, Removes, ChangedTo
  <2>4. QED BY <2>2, <2>3, NextSteps
<1>2. IInv /\ [Next]_vars => [A]_vars
  BY <1>1
<1>3. QED BY <1>2, Inductive, PTL DEF Spec, ShutdownFreezes

(* The sweep itself loses no resource.                                     *)
LEMMA SweepLosesNone ==
  ASSUME IInv
  PROVE  available \cup ResourcesOf(slivers, Live(slivers))
           \subseteq KeptAvailable \cup ResourcesOf(Kept, Live(Kept))
<1>1. \A i \in Live(slivers) : i \in Expired \/ (i \in Live(Kept) /\ Kept[i] = slivers[i])
  BY DEF Kept, Without, Live
<1>2. QED BY <1>1 DEF KeptAvailable, ResourcesOf

(* No step but an Allocate that fails over its times, with a refusal or an *)
(* exception, loses a resource: none that is granted or asks for too much, *)
(* no deletion and no expiry.                                              *)
THEOREM OnlyRefusalsLose == Spec => LostOnlyByRefusedAllocate
<1> DEFINE A == Lost(available', slivers') \subseteq Lost(available, slivers)
                \/ /\ reply'.op = "Allocate"
                   /\ reply'.code \in {"BAD_ARGS", "ALREADY_EXISTS", "ERROR"}
<1>1. IInv /\ Next => A
  <2> SUFFICES ASSUME IInv, Next PROVE A
    OBVIOUS
  <2>1. CASE Tick \/ (\E s \in Slice : RenewSlice(s)) \/ Refuses
    BY <2>1 DEF Tick, RenewSlice, Refuses, UrnsRefused
  <2>2. CASE Calls
    <3>1. KeepsResources \/ Overruled
      BY <2>2 DEF Calls, Sweeps, Lends, Changes, Removes
    <3>2. QED BY <3>1, SweepLosesNone DEF KeepsResources, Overruled, Lost
  <2>3. QED BY <2>1, <2>2, NextSteps
<1>2. IInv /\ [Next]_vars => [A]_vars
  BY <1>1
<1>3. QED BY <1>2, Inductive, PTL DEF Spec, LostOnlyByRefusedAllocate

(* A provisioned sliver holds its resource for max_lease at most: with     *)
(* IInv, inductive, because Allocate makes no provisioned sliver and only  *)
(* Provision and Renew move an end.                                        *)
THEOREM LeasesAreBounded == Spec => []LeaseBounded
<1>1. Init => LeaseBounded
  BY DEF Init, LeaseBounded, Live
<1>2. IInv /\ IInv' /\ LeaseBounded /\ [Next]_vars => LeaseBounded'
  <2> SUFFICES ASSUME IInv, IInv', LeaseBounded, [Next]_vars,
                      NEW i \in Live(slivers)', slivers'[i].state = "provisioned"
               PROVE  slivers'[i].end <= now' + MaxLease
    BY DEF LeaseBounded
  <2>1. now \in Nat /\ now' \in Nat /\ MaxLease \in Nat
    BY TimesAssumption DEF IInv, TypeOK, Time
  <2>2. i \in SliverId /\ slivers'[i] \in Slivers /\ slivers'[i].end \in Nat
    BY DEF IInv, TypeOK, Live, Slivers, Time
  <2>3. ASSUME slivers'[i] = slivers[i], now <= now'
        PROVE  slivers'[i].end <= now' + MaxLease
    <3>1. i \in Live(slivers) /\ slivers[i].end <= now + MaxLease
      BY <2>2, <2>3, NoSliverIsNone DEF Live, LeaseBounded
    <3>2. QED BY <2>1, <2>2, <2>3, <3>1
  <2>4. CASE Tick \/ (\E s \in Slice : RenewSlice(s)) \/ Refuses \/ UNCHANGED vars
    BY <2>1, <2>3, <2>4 DEF Tick, RenewSlice, Refuses, UrnsRefused, vars
  <2>5. CASE Calls
    <3>1. now' = now
      BY <2>5 DEF Calls
    <3>2. CASE slivers'[i] = Kept[i]
      <4>1. i \in Live(Kept)
        BY <2>2, <3>2, NoSliverIsNone DEF Live
      <4>2. QED BY <2>1, <2>3, <3>1, <3>2, <4>1, KeptAreCurrent
    <3>3. CASE \E s \in Slice : i \in Live(Kept) /\ ChangedTo(s, Kept[i], slivers'[i])
      <4>1. i \in Live(slivers) /\ Kept[i] = slivers[i] /\ Kept[i] \in Slivers
        BY <3>3, KeptAreCurrent
      <4>2. Kept[i].end \in Nat
        BY <4>1 DEF Slivers, Time
      <4>3. Kept[i].state = "provisioned" => Kept[i].end <= now + MaxLease
        BY <4>1 DEF LeaseBounded
      <4>4. QED BY <2>1, <2>2, <3>1, <3>3, <4>2, <4>3 DEF ChangedTo, Later
    <3>4. CASE \E s \in Slice : LentTo(s, slivers'[i])
      BY <3>4 DEF LentTo
    <3>5. QED BY <2>2, <2>5, <3>2, <3>3, <3>4, NoSliverIsNone
               DEF Calls, Sweeps, Lends, Changes, Removes
  <2>6. QED BY <2>4, <2>5, NextSteps
<1>3. QED BY <1>1, <1>2, Inductive, PTL DEF Spec

-----------------------------------------------------------------------------
(* The refinement mapping. *)

(* The holder and the due time of a resource are those of its only sliver. *)
Mapped ==
  \A r \in Resource :
    /\ \A i \in Live(slivers) : slivers[i].resource = r =>
         /\ slivers[i] \in Slivers
         /\ HolderOf(r) = slivers[i].slice
         /\ DueOf(r) = slivers[i].expiration
    /\ (\A i \in Live(slivers) : slivers[i].resource # r)
         => HolderOf(r) = Free /\ DueOf(r) = 0

(* The mapping is well defined since no two slivers have one resource.     *)
LEMMA MappingIsExact == IInv => Mapped
<1> SUFFICES ASSUME IInv, NEW r \in Resource
             PROVE  /\ \A i \in Live(slivers) : slivers[i].resource = r =>
                         /\ slivers[i] \in Slivers
                         /\ HolderOf(r) = slivers[i].slice
                         /\ DueOf(r) = slivers[i].expiration
                    /\ (\A i \in Live(slivers) : slivers[i].resource # r)
                         => HolderOf(r) = Free /\ DueOf(r) = 0
  BY DEF Mapped
<1>1. ASSUME NEW i \in Live(slivers), slivers[i].resource = r
      PROVE  /\ slivers[i] \in Slivers
             /\ HolderOf(r) = slivers[i].slice
             /\ DueOf(r) = slivers[i].expiration
  <2>1. Holding(r) = {i}
    BY <1>1 DEF Holding, IInv, LeaseExclusive
  <2>2. (CHOOSE j \in Holding(r) : TRUE) = i
    BY <2>1
  <2>3. slivers[i] \in Slivers
    BY LiveAreSlivers DEF IInv, TypeOK
  <2>4. QED BY <2>1, <2>2, <2>3 DEF HolderOf, DueOf
<1>2. ASSUME \A i \in Live(slivers) : slivers[i].resource # r
      PROVE  HolderOf(r) = Free /\ DueOf(r) = 0
  BY <1>2 DEF Holding, HolderOf, DueOf
<1>3. QED BY <1>1, <1>2

(* What the pool takes for overdue is what expire_slivers removes.         *)
LEMMA SweepIsMapped ==
  ASSUME IInv
  PROVE  /\ \A i \in Live(Kept) :
              /\ Kept[i].resource \in Resource
              /\ Kept[i].slice \in Slice /\ Kept[i].slice # Free
              /\ Pool!HolderNow(Kept[i].resource) = Kept[i].slice
              /\ Pool!DueNow(Kept[i].resource) = Kept[i].expiration
         /\ \A r \in Resource :
              (\A i \in Live(Kept) : Kept[i].resource # r)
                => Pool!HolderNow(r) = Free /\ Pool!DueNow(r) = 0
<1>1. Mapped
  BY MappingIsExact
<1>2. now \in Nat
  BY DEF IInv, TypeOK, Time
<1>3. ASSUME NEW i \in Live(Kept)
      PROVE  /\ Kept[i].resource \in Resource
             /\ Kept[i].slice \in Slice /\ Kept[i].slice # Free
             /\ Pool!HolderNow(Kept[i].resource) = Kept[i].slice
             /\ Pool!DueNow(Kept[i].resource) = Kept[i].expiration
  <2>1. /\ i \in Live(slivers) /\ Kept[i] = slivers[i] /\ Kept[i] \in Slivers
        /\ now <= Kept[i].expiration
    BY KeptAreCurrent
  <2>2. /\ Kept[i].resource \in Resource /\ Kept[i].slice \in Slice
        /\ Kept[i].slice # Free /\ Kept[i].expiration \in Nat
    BY <2>1, FreeAssumption DEF Slivers, Time
  <2>3. /\ HolderOf(Kept[i].resource) = Kept[i].slice
        /\ DueOf(Kept[i].resource) = Kept[i].expiration
    BY <1>1, <2>1, <2>2 DEF Mapped
  <2>4. ~Pool!Overdue(Kept[i].resource)
    BY <1>2, <2>1, <2>2, <2>3 DEF Pool!Overdue
  <2>5. QED BY <2>2, <2>3, <2>4 DEF Pool!HolderNow, Pool!DueNow
<1>4. ASSUME NEW r \in Resource, \A i \in Live(Kept) : Kept[i].resource # r
      PROVE  Pool!HolderNow(r) = Free /\ Pool!DueNow(r) = 0
  <2>1. CASE \A i \in Live(slivers) : slivers[i].resource # r
    BY <1>1, <2>1 DEF Mapped, Pool!HolderNow, Pool!DueNow, Pool!Overdue
  <2>2. CASE \E i \in Live(slivers) : slivers[i].resource = r
    <3>1. PICK i \in Live(slivers) : slivers[i].resource = r
      BY <2>2
    <3>2. i \in Expired
      BY <1>4, <3>1 DEF Kept, Without, Live
    <3>3. slivers[i].slice # Free
      BY <3>1, LiveAreSlivers, FreeAssumption DEF IInv, TypeOK, Slivers
    <3>4. Pool!Overdue(r)
      BY <1>1, <3>1, <3>2, <3>3 DEF Mapped, Expired, Pool!Overdue
    <3>5. QED BY <3>4 DEF Pool!HolderNow, Pool!DueNow
  <2>3. QED BY <2>1, <2>2
<1>5. QED BY <1>3, <1>4

-----------------------------------------------------------------------------
(* The pool as it is after a step, in terms of the slivers after it. *)

HolderNext(x) == HolderOf(x)'
DueNext(x) == DueOf(x)'

(* The mapping after a step, resource by resource.                         *)
LEMMA MappedAfter ==
  ASSUME IInv', NEW x \in Resource
  PROVE  /\ \A i \in Live(slivers') : slivers'[i].resource = x =>
              /\ slivers'[i] \in Slivers
              /\ HolderNext(x) = slivers'[i].slice
              /\ DueNext(x) = slivers'[i].expiration
         /\ (\A i \in Live(slivers') : slivers'[i].resource # x)
              => HolderNext(x) = Free /\ DueNext(x) = 0
<1>1. Mapped'
  BY MappingIsExact, PTL
<1>2. QED BY <1>1 DEF Mapped, HolderNext, DueNext, Live

(* Due times stay within the clock's range.                                *)
LEMMA DueInRange ==
  ASSUME IInv'
  PROVE  \A x \in Resource : DueNext(x) \in 0..MaxTime
<1> TAKE x \in Resource
<1>1. CASE \A i \in Live(slivers') : slivers'[i].resource # x
  BY <1>1, MappedAfter, TimesAssumption
<1>2. CASE \E i \in Live(slivers') : slivers'[i].resource = x
  <2>1. PICK i \in Live(slivers') : slivers'[i].resource = x
    BY <1>2
  <2>2. DueNext(x) = slivers'[i].expiration /\ slivers'[i] \in Slivers
    BY <2>1, MappedAfter
  <2>3. QED BY <2>2 DEF Slivers, Time
<1>3. QED BY <1>1, <1>2

(* A resource whose sliver the call leaves as the sweep left it, or that   *)
(* is in no sliver before and after the call, is left alone in the pool.   *)
LEMMA OthersAreLeft ==
  ASSUME IInv, IInv', NEW x \in Resource,
         \/ \E i \in Live(Kept) : Kept[i].resource = x /\ slivers'[i] = Kept[i]
         \/ /\ \A i \in Live(Kept) : Kept[i].resource # x
            /\ \A i \in Live(slivers') : slivers'[i].resource # x
  PROVE  HolderNext(x) = Pool!HolderNow(x) /\ DueNext(x) = Pool!DueNow(x)
<1>1. CASE \E i \in Live(Kept) : Kept[i].resource = x /\ slivers'[i] = Kept[i]
  <2>1. PICK i \in Live(Kept) : Kept[i].resource = x /\ slivers'[i] = Kept[i]
    BY <1>1
  <2>2. i \in Live(slivers')
    BY <2>1 DEF Live
  <2>3. QED BY <2>1, <2>2, MappedAfter, SweepIsMapped
<1>2. CASE /\ \A i \in Live(Kept) : Kept[i].resource # x
           /\ \A i \in Live(slivers') : slivers'[i].resource # x
  BY <1>2, MappedAfter, SweepIsMapped
<1>3. QED BY <1>1, <1>2

(* The mapped variables after a step are functions on the resources.       *)
LEMMA LendIsMapped ==
  ASSUME IInv', NEW s, NEW S \in SUBSET Resource, UNCHANGED <<now, sliceExp>>,
         \A x \in Resource :
           IF x \in S
           THEN HolderNext(x) = s /\ now <= DueNext(x) /\ DueNext(x) <= sliceExp[s]
           ELSE HolderNext(x) = Pool!HolderNow(x) /\ DueNext(x) = Pool!DueNow(x)
  PROVE  Pool!Lend(s, S)
<1>1. [r \in Resource |-> HolderOf(r)]'
        = [x \in Resource |-> IF x \in S THEN s ELSE Pool!HolderNow(x)]
  BY DEF HolderNext
<1>2. [r \in Resource |-> DueOf(r)]' \in [Resource -> 0..MaxTime]
  BY DueInRange DEF DueNext
<1>3. \A x \in Resource :
        IF x \in S THEN now <= [r \in Resource |-> DueOf(r)]'[x]
                        /\ [r \in Resource |-> DueOf(r)]'[x] <= sliceExp[s]
        ELSE [r \in Resource |-> DueOf(r)]'[x] = Pool!DueNow(x)
  BY DEF DueNext
<1>4. QED BY <1>1, <1>2, <1>3 DEF Pool!Lend

-----------------------------------------------------------------------------
(* What a call does to the slivers is a step of the pool, or none. *)

(* A sweep is a grant of nothing to anybody; where there are no slices     *)
(* there is nothing to sweep.                                              *)
LEMMA SweepsGrant ==
  ASSUME IInv, IInv', UNCHANGED <<now, sliceExp>>, slivers' = Kept
  PROVE  (\E s \in Slice : Pool!Grant(s)) \/ UNCHANGED Pool!pool
<1>1. ASSUME NEW x \in Resource
      PROVE  HolderNext(x) = Pool!HolderNow(x) /\ DueNext(x) = Pool!DueNow(x)
  BY OthersAreLeft DEF Live
<1>2. CASE Slice # {}
  <2>1. PICK s \in Slice : TRUE
    BY <1>2
  <2>2. Pool!Lend(s, {})
    BY <1>1, LendIsMapped
  <2>3. Pool!Grant(s)
    BY <2>2 DEF Pool!Grant
  <2>4. QED BY <2>3
<1>3. CASE Slice = {}
  <2>1. Live(slivers) = {} /\ slivers \in [SliverId -> {NoSliver} \cup Slivers]
    BY <1>3, LiveAreSlivers DEF IInv, TypeOK, Slivers
  <2>2. \A i \in SliverId : slivers[i] = NoSliver /\ Kept[i] = NoSliver
    BY <2>1 DEF Live, Kept, Without
  <2>3. \A i \in SliverId : slivers'[i] = NoSliver
    BY <2>2
  <2>4. \A r \in Resource : /\ HolderOf(r) = Free /\ DueOf(r) = 0
                            /\ HolderNext(r) = Free /\ DueNext(r) = 0
    BY <2>2, <2>3, MappingIsExact, MappedAfter DEF Mapped, Live
  <2>5. QED BY <2>4 DEF Pool!pool, HolderNext, DueNext
<1>4. QED BY <1>2, <1>3

(* Lending slivers to a slice grants it the resources they are on.         *)
LEMMA LendsGrant ==
  ASSUME IInv, IInv', UNCHANGED <<now, sliceExp>>, NEW s \in Slice, Lends(s)
  PROVE  Pool!Grant(s)
<1> DEFINE S == {x \in Resource :
                   /\ \A i \in Live(Kept) : Kept[i].resource # x
                   /\ \E i \in Live(slivers') : slivers'[i].resource = x}
<1>1. S \in SUBSET {x \in Resource : Pool!HolderNow(x) = Free}
  BY SweepIsMapped
<1>2. ASSUME NEW x \in S
      PROVE  HolderNext(x) = s /\ now <= DueNext(x) /\ DueNext(x) <= sliceExp[s]
  <2>1. PICK i \in Live(slivers') : slivers'[i].resource = x
    BY <1>2
  <2>2. slivers'[i] # Kept[i]
    BY <1>2, <2>1 DEF Live
  <2>3. LentTo(s, slivers'[i])
    BY <2>1, <2>2 DEF Lends, Live
  <2>4. QED BY <2>1, <2>3, MappedAfter DEF LentTo
<1>3. ASSUME NEW x \in Resource, x \notin S
      PROVE  HolderNext(x) = Pool!HolderNow(x) /\ DueNext(x) = Pool!DueNow(x)
  <2>1. \A i \in Live(Kept) : slivers'[i] = Kept[i]
    BY KeptAreCurrent DEF Lends, Live
  <2>2. QED BY <1>3, <2>1, OthersAreLeft
<1> HIDE DEF S
<1>4. Pool!Lend(s, S)
  BY <1>1, <1>2, <1>3, LendIsMapped
<1>5. QED BY <1>1, <1>4 DEF Pool!Grant

(* Changing slivers of a slice renews its resources.                       *)
LEMMA ChangesRenew ==
  ASSUME IInv, IInv', UNCHANGED <<now, sliceExp>>, NEW s \in Slice, Changes(s)
  PROVE  Pool!Renew(s)
<1> DEFINE S == {x \in Resource :
                   \E i \in Live(Kept) : /\ Kept[i].resource = x
                                         /\ ChangedTo(s, Kept[i], slivers'[i])}
<1>1. S \in SUBSET {x \in Resource : Pool!HolderNow(x) = s}
  BY SweepIsMapped DEF ChangedTo
<1>2. ASSUME NEW x \in S
      PROVE  HolderNext(x) = s /\ now <= DueNext(x) /\ DueNext(x) <= sliceExp[s]
  <2>1. PICK i \in Live(Kept) : Kept[i].resource = x /\ ChangedTo(s, Kept[i], slivers'[i])
    BY <1>2
  <2>2. i \in Live(slivers') /\ slivers'[i].resource = x
    BY <2>1, NoSliverIsNone DEF ChangedTo, Live
  <2>3. QED BY <2>1, <2>2, MappedAfter DEF ChangedTo
<1>3. ASSUME NEW x \in Resource, x \notin S
      PROVE  HolderNext(x) = Pool!HolderNow(x) /\ DueNext(x) = Pool!DueNow(x)
  <2>1. \A i \in Live(Kept) : Kept[i].resource = x => slivers'[i] = Kept[i]
    BY <1>3 DEF Changes, Live
  <2>2. \A i \in Live(slivers') : i \in Live(Kept) /\ slivers'[i].resource = Kept[i].resource
    BY DEF Changes, ChangedTo, Live
  <2>3. QED BY <2>1, <2>2, OthersAreLeft
<1> HIDE DEF S
<1>4. Pool!Lend(s, S)
  BY <1>1, <1>2, <1>3, LendIsMapped
<1>5. QED BY <1>1, <1>4 DEF Pool!Renew

(* Removing slivers of a slice releases its resources.                     *)
LEMMA RemovesRelease ==
  ASSUME IInv, IInv', UNCHANGED <<now, sliceExp>>, NEW s \in Slice, Removes(s)
  PROVE  Pool!Release(s)
<1> DEFINE S == {x \in Resource :
                   \E i \in Live(Kept) : /\ Kept[i].resource = x /\ Kept[i].slice = s
                                         /\ slivers'[i] = NoSliver}
<1>1. S \in SUBSET {x \in Resource : Pool!HolderNow(x) = s}
  BY SweepIsMapped
<1>2. \A i \in Live(slivers') : i \in Live(Kept) /\ slivers'[i] = Kept[i]
  BY DEF Removes, Live
<1>3. \A i, j \in Live(Kept) : Kept[i].resource = Kept[j].resource => i = j
  BY KeptLeases DEF Leases
<1>4. ASSUME NEW x \in S
      PROVE  HolderNext(x) = Free /\ DueNext(x) = 0
  <2>1. PICK i \in Live(Kept) : Kept[i].resource = x /\ slivers'[i] = NoSliver
    BY <1>4
  <2>2. \A j \in Live(slivers') : slivers'[j].resource # x
    BY <1>2, <1>3, <2>1 DEF Live
  <2>3. QED BY <2>2, MappedAfter
<1>5. ASSUME NEW x \in Resource, x \notin S
      PROVE  HolderNext(x) = Pool!HolderNow(x) /\ DueNext(x) = Pool!DueNow(x)
  <2>1. \A i \in Live(Kept) : Kept[i].resource = x => slivers'[i] = Kept[i]
    BY <1>5 DEF Removes, Live
  <2>2. QED BY <1>2, <2>1, OthersAreLeft
<1> HIDE DEF S
<1>6. [r \in Resource |-> HolderOf(r)]'
        = [x \in Resource |-> IF x \in S THEN Free ELSE Pool!HolderNow(x)]
  BY <1>4, <1>5 DEF HolderNext
<1>7. [r \in Resource |-> DueOf(r)]'
        = [x \in Resource |-> IF x \in S THEN 0 ELSE Pool!DueNow(x)]
  BY <1>4, <1>5 DEF DueNext
<1>8. QED BY <1>1, <1>6, <1>7 DEF Pool!Release

(* Every call is a step of the pool, or none.                              *)
LEMMA CallsArePoolSteps ==
  ASSUME IInv, IInv', Calls
  PROVE  Pool!Next \/ UNCHANGED Pool!pool
<1>1. UNCHANGED <<now, sliceExp>>
  BY DEF Calls
<1>2. CASE Sweeps
  BY <1>1, <1>2, SweepsGrant DEF Sweeps, Pool!Next
<1>3. CASE \E s \in Slice : Lends(s) \/ Changes(s) \/ Removes(s)
  BY <1>1, <1>3, LendsGrant, ChangesRenew, RemovesRelease DEF Pool!Next
<1>4. QED BY <1>2, <1>3 DEF Calls

(* Steps that change no sliver do not change the mapping.                  *)
LEMMA SameSliversSamePool ==
  ASSUME UNCHANGED slivers
  PROVE  /\ [r \in Resource |-> HolderOf(r)]' = [r \in Resource |-> HolderOf(r)]
         /\ [r \in Resource |-> DueOf(r)]' = [r \in Resource |-> DueOf(r)]
BY DEF HolderOf, DueOf, Holding, Live

(* The clock of the server is the clock of the pool.                       *)
LEMMA TickIsMapped ==
  ASSUME IInv, Tick
  PROVE  Pool!Tick
<1>1. now \in Nat /\ MaxTime \in Nat /\ now < MaxTime /\ now' = now + 1
  BY TimesAssumption DEF Tick, IInv, TypeOK, Time
<1>2. now' \in now..MaxTime
  BY <1>1
<1>3. UNCHANGED sliceExp /\ UNCHANGED slivers
  BY DEF Tick
<1>4. QED BY <1>2, <1>3, SameSliversSamePool DEF Pool!Tick

(* A slice that is renewed at its clearinghouse is entitled to more time.  *)
LEMMA RenewSliceIsMapped ==
  ASSUME IInv, NEW s \in Slice, RenewSlice(s)
  PROVE  Pool!Extend(s)
<1>1. PICK t \in Time : t > Later(now, sliceExp[s]) /\ sliceExp' = [sliceExp EXCEPT ![s] = t]
  BY DEF RenewSlice
<1>2. now \in Nat /\ sliceExp[s] \in Nat /\ t \in Nat /\ t <= MaxTime /\ MaxTime \in Nat
  BY TimesAssumption DEF IInv, TypeOK, Time
<1>3. t \in sliceExp[s]..MaxTime
  BY <1>1, <1>2 DEF Later
<1>4. UNCHANGED now /\ UNCHANGED slivers
  BY DEF RenewSlice
<1>5. QED BY <1>1, <1>3, <1>4, SameSliversSamePool DEF Pool!Extend

(* The server starts as the pool does.                                     *)
LEMMA InitIsMapped == Init => Pool!Init
<1> SUFFICES ASSUME Init PROVE Pool!Init
  OBVIOUS
<1>1. Live(slivers) = {}
  BY DEF Init, Live
<1>2. \A r \in Resource : HolderOf(r) = Free /\ DueOf(r) = 0
  BY <1>1 DEF HolderOf, DueOf, Holding
<1>3. QED BY <1>2 DEF Init, Pool!Init

(* Each step of the server is one of the pool or changes nothing there.    *)
LEMMA NextIsMapped == IInv /\ IInv' /\ [Next]_vars => [Pool!Next]_(Pool!pool)
<1> SUFFICES ASSUME IInv, IInv', [Next]_vars
             PROVE  Pool!Next \/ UNCHANGED Pool!pool
  OBVIOUS
<1>1. CASE Tick
  BY <1>1, TickIsMapped DEF Pool!Next
<1>2. CASE \E s \in Slice : RenewSlice(s)
  BY <1>2, RenewSliceIsMapped DEF Pool!Next
<1>3. CASE Refuses \/ UNCHANGED vars
  <2>1. UNCHANGED <<now, sliceExp>> /\ UNCHANGED slivers
    BY <1>3 DEF Refuses, UrnsRefused, vars
  <2>2. QED BY <2>1, SameSliversSamePool DEF Pool!pool
<1>4. CASE Calls
  BY <1>4, CallsArePoolSteps
<1>5. QED BY <1>1, <1>2, <1>3, <1>4, NextSteps

(* The server implements the pool: what it does, call by call, is what     *)
(* LeasedPool promises to those who rent.                                  *)
THEOREM AggregateIsPool == Spec => ImplementsPool
<1>1. QED BY InitIsMapped, NextIsMapped, Inductive, PTL DEF Spec, ImplementsPool, Pool!Spec

-----------------------------------------------------------------------------
(* The rules let a call through or stop it, and do nothing else. *)

(* What the rules let through of a call is a call of the server.           *)
LEMMA GovernedCallIsCall ==
  ASSUME NEW u \in User, NEW op \in Ops \ {"GetVersion", "Allocate", "Renew"},
         GovernedCall(u, op)
  PROVE  Next \/ UNCHANGED vars
<1>1. CASE op \in UrnOps /\ \E n \in Resolved : UrnMethod(op, u, n)
  <2>1. PICK n \in Names : UrnMethod(op, u, n)
    BY <1>1 DEF Resolved
  <2>2. UrnCall(n)
    BY <1>1, <2>1 DEF UrnMethod, UrnCall
  <2>3. QED BY <2>2 DEF Next
<1>2. CASE Rejected(op) \/ ListResources \/ \E s \in Slice : Shutdown(s)
  BY <1>2 DEF Next
<1>3. QED BY <1>1, <1>2 DEF GovernedCall, Asks

(* So is what they let through of an Allocate: no request for no nodes is  *)
(* too big.                                                                *)
LEMMA GovernedAllocateIsAllocate ==
  ASSUME IInv, NEW s \in Slice, NEW u \in User, GovernedAllocate(s, u)
  PROVE  Next \/ UNCHANGED vars
<1>1. Cardinality(KeptAvailable) \in Nat /\ Cardinality(Resource) \in Nat
  <2>1. KeptAvailable \subseteq Resource
    BY KeptLeases DEF Leases
  <2>2. QED BY <2>1, ResourcesAssumption, FS_Subset, FS_CardinalityType
<1>2. PICK c \in Credentials(s), reqStart \in RequestTimes, reqEnd \in RequestTimes :
        \/ \E n \in 0..(Cardinality(Resource) + 1) :
             AllocateTooBig(s, n) \/ AllocateRefused(s, c, reqStart, reqEnd)
        \/ \E I \in SUBSET {i \in SliverId : slivers[i] = NoSliver} :
             AllocateFor(I, s, u, c, reqStart, reqEnd)
        \/ UNCHANGED vars
  BY DEF GovernedAllocate, Asks
<1>3. ASSUME NEW n \in 0..(Cardinality(Resource) + 1), AllocateTooBig(s, n)
      PROVE  Allocate(s, u)
  <2>1. n \in 1..(Cardinality(Resource) + 1)
    BY <1>1, <1>3 DEF AllocateTooBig
  <2>2. QED BY <1>3, <2>1 DEF Allocate
<1>4. CASE AllocateRefused(s, c, reqStart, reqEnd)
  BY <1>4 DEF Allocate, Next
<1>5. CASE \E I \in SUBSET {i \in SliverId : slivers[i] = NoSliver} :
             AllocateFor(I, s, u, c, reqStart, reqEnd)
  BY <1>5 DEF AllocateGranted, Allocate, Next
<1>6. QED BY <1>2, <1>3, <1>4, <1>5 DEF Next

(* And of a Renew.                                                         *)
LEMMA GovernedRenewIsRenew ==
  ASSUME NEW u \in User, NEW n \in Resolved, NEW requested \in RequestTimes,
         NEW alap \in BOOLEAN, GovernedRenew(u, n, requested, alap)
  PROVE  Next \/ UNCHANGED vars
<1>1. n \in Names
  BY DEF Resolved
<1>2. PICK c \in Credentials(SliceNamed(slivers, n)) :
        UrnsExpired("Renew", n) \/ RenewWith(n, requested, alap, c) \/ UNCHANGED vars
  BY DEF GovernedRenew, Asks
<1>3. CASE UrnsExpired("Renew", n)
  BY <1>1, <1>3 DEF UrnOps, UrnCall, Next
<1>4. CASE RenewWith(n, requested, alap, c)
  <2>1. Renew(n, requested, alap)
    BY <1>4 DEF Renew, Credentials
  <2>2. QED BY <1>1, <2>1 DEF UrnCall, Next
<1>5. QED BY <1>2, <1>3, <1>4

(* A step of the governed server is one of the server, or none.            *)
LEMMA GovernedNextIsNext == IInv /\ [GovernedNext]_governedVars => [Next]_vars
<1> SUFFICES ASSUME IInv, [GovernedNext]_governedVars PROVE Next \/ UNCHANGED vars
  OBVIOUS
<1>1. CASE UngovernedCall
  <2>1. CASE \E op \in UrnOps : Unresolved(op)
    <3>1. PICK op \in UrnOps, n \in Names : UrnsRefused(op, n)
      BY <2>1 DEF Unresolved, UrnsRefused
    <3>2. QED BY <3>1 DEF UrnCall, Next
  <2>2. CASE Tick \/ (\E s \in Slice : RenewSlice(s)) \/ GetVersion
    BY <2>2 DEF Next
  <2>3. QED BY <1>1, <2>1, <2>2 DEF UngovernedCall
<1>2. CASE \E u \in User, op \in Ops \ {"GetVersion", "Allocate", "Renew"} :
             GovernedCall(u, op)
  BY <1>2, GovernedCallIsCall
<1>3. CASE \E u \in User, s \in Slice : GovernedAllocate(s, u)
  BY <1>3, GovernedAllocateIsAllocate
<1>4. CASE \E u \in User, n \in Resolved, requested \in RequestTimes, alap \in BOOLEAN :
             GovernedRenew(u, n, requested, alap)
  BY <1>4, GovernedRenewIsRenew
<1>5. CASE UNCHANGED governedVars
  BY <1>5 DEF governedVars, vars
<1>6. QED BY <1>1, <1>2, <1>3, <1>4, <1>5 DEF GovernedNext

(* The governed server implements the server, whatever the rules: all that *)
(* is proved of the server, its leases, its promises to the pool and what  *)
(* its calls may do, holds of it.                                          *)
THEOREM GovernedIsServer == GovernedSpec => Spec
<1>1. GovernedInit => Init
  BY DEF GovernedInit
<1>2. QED
  BY <1>1, InitIInv, NextIInv, GovernedNextIsNext, PTL DEF GovernedSpec, Spec

-----------------------------------------------------------------------------
(* Numbers and finite sets. *)

(* A set of natural numbers has a least element.                           *)
LEMMA LeastNatural ==
  ASSUME NEW S \in SUBSET Nat, S # {}
  PROVE  \E m \in S : \A k \in S : m <= k
<1>1. PICK m \in S : \A k \in S : <<k, m>> \notin OpToRel(<, Nat)
  BY NatLessThanWellFounded, WFMin
<1>2. \A k \in S : ~(k < m)
  BY <1>1 DEF OpToRel
<1>3. QED BY <1>2

(* And a greatest one when it is bounded.                                  *)
LEMMA GreatestNatural ==
  ASSUME NEW S \in SUBSET Nat, S # {}, NEW b \in Nat, \A k \in S : k <= b
  PROVE  \E m \in S : \A k \in S : k <= m
<1> DEFINE T == {b - k : k \in S}
<1>1. T \in SUBSET Nat /\ T # {}
  <2>1. \A k \in S : b - k \in Nat
    OBVIOUS
  <2>2. QED BY <2>1
<1> HIDE DEF T
<1>2. PICK d \in T : \A e \in T : d <= e
  BY <1>1, LeastNatural
<1>3. PICK m \in S : d = b - m
  BY DEF T
<1>4. \A k \in S : b - k \in T
  BY DEF T
<1>5. QED BY <1>2, <1>3, <1>4

(* A set that maps one to one into a finite set has no more elements.      *)
LEMMA CountedInto ==
  ASSUME NEW S, NEW T, IsFiniteSet(T), NEW f \in [S -> T],
         \A i, j \in S : f[i] = f[j] => i = j
  PROVE  /\ IsFiniteSet(S) /\ Cardinality(S) \in Nat /\ Cardinality(T) \in Nat
         /\ Cardinality(S) <= Cardinality(T)
<1>1. f \in Injection(S, T)
  BY DEF Injection, IsInjective
<1>2. QED BY <1>1, FS_Injection, FS_CardinalityType

(* Max of a finite set of natural numbers is an upper bound of it.         *)
LEMMA MaxBounds ==
  ASSUME NEW S \in SUBSET Nat, NEW b \in Nat, \A k \in S : k <= b, NEW n \in S
  PROVE  Max(S) \in Nat /\ n <= Max(S)
<1>1. \E m \in S : \A k \in S : k <= m
  BY GreatestNatural
<1>2. \E m \in S : \A k \in S : m >= k
  BY <1>1
<1>3. Max(S) \in S /\ \A k \in S : Max(S) >= k
  BY <1>2 DEF Max
<1>4. QED BY <1>3

-----------------------------------------------------------------------------
(* Measurements and decisions. *)

(* Allocations with their times, as the resource manager reports them. *)
Measurable(A) ==
  /\ IsFiniteSet(A)
  /\ \A a \in A : a.start \in Nat /\ a.end \in Nat

At(A, t) == {a \in A : a.start <= t /\ t < a.end}

(* The peak that is measured between neighbouring times is the peak of     *)
(* every instant.                                                          *)
LEMMA PeakIsEverywhere ==
  ASSUME NEW A, Measurable(A), NEW t \in Nat
  PROVE  /\ Peak(A) \in Nat /\ Cardinality(At(A, t)) \in Nat
         /\ Cardinality(At(A, t)) <= Peak(A)
<1> DEFINE B == Boundaries(A)
           N == {p \in B \X B : p[1] < p[2] /\ \A b \in B : b <= p[1] \/ b >= p[2]}
           During(p) == {a \in A : a.start < p[2] /\ a.end > p[1]}
           C == {0} \cup {Cardinality(During(p)) : p \in N}
<1>1. Cardinality(A) \in Nat
  BY FS_CardinalityType DEF Measurable
<1>2. \A D \in SUBSET A : /\ IsFiniteSet(D) /\ Cardinality(D) \in Nat
                          /\ Cardinality(D) <= Cardinality(A)
  BY FS_Subset, FS_CardinalityType DEF Measurable
<1>3. C \in SUBSET Nat /\ \A n \in C : n <= Cardinality(A)
  <2>1. \A p \in N : During(p) \in SUBSET A
    OBVIOUS
  <2> HIDE DEF During, N
  <2>2. QED BY <1>1, <1>2, <2>1
<1>4. Peak(A) = Max(C)
  BY Zenon DEF Peak
<1>5. CASE At(A, t) = {}
  <2>1. Cardinality(At(A, t)) = 0 /\ 0 \in C
    BY <1>5, FS_EmptySet
  <2> HIDE DEF C
  <2>2. QED BY <1>1, <1>3, <1>4, <2>1, MaxBounds
<1>6. CASE At(A, t) # {}
  <2>1. PICK a \in A : a.start <= t /\ t < a.end
    BY <1>6 DEF At
  <2>2. B \in SUBSET Nat /\ a.start \in B /\ a.end \in B
    BY DEF Boundaries, Measurable
  <2>3. PICK lo \in B : lo <= t /\ \A b \in B : b <= t => b <= lo
    <3> DEFINE L == {b \in B : b <= t}
    <3>1. L \in SUBSET Nat /\ L # {} /\ \A b \in L : b <= t
      BY <2>1, <2>2
    <3>2. PICK m \in L : \A b \in L : b <= m
      BY <3>1, GreatestNatural
    <3>3. QED BY <3>2
  <2>4. PICK hi \in B : t < hi /\ \A b \in B : t < b => hi <= b
    <3> DEFINE H == {b \in B : t < b}
    <3>1. H \in SUBSET Nat /\ H # {}
      BY <2>1, <2>2
    <3>2. PICK m \in H : \A b \in H : m <= b
      BY <3>1, LeastNatural
    <3>3. QED BY <3>2
  <2> HIDE DEF B
  <2>5. <<lo, hi>> \in N
    BY <2>2, <2>3, <2>4
  <2>6. At(A, t) \subseteq During(<<lo, hi>>)
    <3>1. \A x \in At(A, t) : /\ x \in A /\ x.start \in Nat /\ x.end \in Nat
                              /\ x.start <= t /\ t < x.end
      BY DEF At, Measurable
    <3>2. QED BY <2>2, <2>3, <2>4, <3>1
  <2>7. Cardinality(During(<<lo, hi>>)) \in C
    BY <2>5
  <2>8. Cardinality(At(A, t)) <= Cardinality(During(<<lo, hi>>))
    <3>1. During(<<lo, hi>>) \in SUBSET A
      OBVIOUS
    <3> HIDE DEF During
    <3>2. QED BY <1>2, <2>6, <3>1, FS_Subset
  <2>9. Cardinality(At(A, t)) \in Nat
    BY <1>2 DEF At
  <2> HIDE DEF C, During
  <2>10. /\ Cardinality(During(<<lo, hi>>)) \in Nat /\ Max(C) \in Nat
         /\ Cardinality(During(<<lo, hi>>)) <= Max(C)
    BY <1>1, <1>3, <2>7, MaxBounds
  <2>11. QED BY <1>4, <2>8, <2>9, <2>10
<1>7. QED BY <1>5, <1>6

(* The slices whose allocations count for a call on s in a scope. *)
Counts(scope, s, z) ==
  \/ scope = "SLICE" /\ z = s
  \/ scope = "PROJECT" /\ Project[z] = Project[s]
  \/ scope \in {"USER", "AUTHORITY"}

(* An allocation is in scope by its slice alone.                           *)
LEMMA ScopeIsBySlice ==
  ASSUME NEW scope \in Scopes, NEW s, NEW A
  PROVE  InScope(scope, s, A) = {a \in A : Counts(scope, s, a.slice)}
<1>1. CASE scope = "SLICE"
  BY <1>1 DEF InScope, Counts
<1>2. CASE scope = "PROJECT"
  BY <1>2 DEF InScope, Counts
<1>3. CASE scope \in {"USER", "AUTHORITY"}
  BY <1>3 DEF InScope, Counts
<1>4. QED BY <1>1, <1>2, <1>3 DEF Scopes

(* A call that is permitted exceeds no limit: the clause that would put    *)
(* the caller into the role it must not have does not apply.               *)
LEMMA LimitsDecide ==
  ASSUME NEW rules, NEW method \in {"Allocate", "Renew"}, NEW call,
         Decide(rules, method, call), NEW l \in Limits(rules)
  PROVE  \A value \in Bound(l[1], l[2], call) : ~(value > l[3])
<1>1. 1 \in DOMAIN rules.clauseSets /\ rules.clauseSets[1].precondition = {}
  BY DEF Limits
<1>2. PICK x \in rules.clauseSets[1].clauses :
        /\ x.condition = {l}
        /\ \E q \in rules.queries :
             /\ x.assertion = <<q.role, Caller>> /\ ~q.positive
             /\ {"Allocate", "Renew"} \subseteq q.methods
  BY <1>1 DEF Limits
<1>3. PICK q \in rules.queries :
        /\ x.assertion = <<q.role, Caller>> /\ ~q.positive
        /\ {"Allocate", "Renew"} \subseteq q.methods
  BY <1>2
<1>4. ~Proves(Assertions(rules, call), q.role)
  BY <1>3 DEF Decide
<1>5. Applies(rules.clauseSets, 1, call)
  BY <1>1 DEF Applies, Satisfied
<1>6. ASSUME Satisfied(x.condition, call)
      PROVE  Proves(Assertions(rules, call), q.role)
  <2> DEFINE First == {cl.assertion : cl \in {y \in rules.clauseSets[1].clauses :
                                                Satisfied(y.condition, call)}}
  <2>1. <<q.role, Caller>> \in Assertions(rules, call)
    <3>1. <<q.role, Caller>> \in First
      BY <1>3, <1>6
    <3>2. First \subseteq Assertions(rules, call)
      BY <1>1, <1>5, Zenon DEF Assertions
    <3>3. QED BY <3>1, <3>2
  <2> HIDE DEF Assertions
  <2>2. \A S : q.role \in S
               /\ (\A a \in Assertions(rules, call) : a[1] \in S => a[2] \in S)
                 => Caller \in S
    BY <2>1
  <2>3. QED BY <2>2 DEF Proves
<1>7. ~Satisfied(x.condition, call)
  BY <1>4, <1>6
<1>8. QED BY <1>2, <1>7 DEF Satisfied

(* So what a permitted Allocate or Renew was judged by keeps to the limits *)
(* that every rule set of the policy has, at every instant.                *)
LEMMA PermittedKeepsLimits ==
  ASSUME NEW u, NEW method \in {"Allocate", "Renew"}, NEW s, NEW A, Measurable(A),
         policy \in Policies, Permits(u, method, s, A), NEW l \in LimitsOf(policy)
  PROVE  LET J == {a \in A : Counts(l[1], s, a.slice)}
         IN /\ l[2] = "TOTAL" => Cardinality(J) <= l[3]
            /\ l[2] = "MAX" => \A t \in Nat : Cardinality(At(J, t)) <= l[3]
<1> DEFINE J == {a \in A : Counts(l[1], s, a.slice)}
           call == Request(AuthorityOf[u], TRUE, s, A)
<1>1. l \in Limits(Rules(u)) /\ l[1] \in Scopes /\ l[3] \in Nat
  BY PoliciesAssumption DEF LimitsOf, Rules
<1>2. \A value \in Bound(l[1], l[2], call) : ~(value > l[3])
  BY <1>1, LimitsDecide, Zenon DEF Permits
<1>3. InScope(l[1], call.slice, call.allocations) = J
  BY <1>1, ScopeIsBySlice DEF Request
<1>4. Bound(l[1], l[2], call) = Measured(l[1], l[2], call)
  BY <1>1 DEF Bound, Scopes
<1>5. Measurable(J)
  BY FS_Subset DEF Measurable
<1> HIDE DEF J, call
<1>6. CASE J = {}
  <2>1. Cardinality(J) = 0 /\ \A t \in Nat : At(J, t) = {}
    BY <1>6, FS_EmptySet DEF At
  <2>2. QED BY <1>1, <2>1, FS_EmptySet DEF J
<1>7. CASE J # {}
  <2>1. ASSUME l[2] = "TOTAL"
        PROVE  Cardinality(J) <= l[3]
    <3>1. Bound(l[1], l[2], call) = {Cardinality(J)}
      BY <1>3, <1>4, <1>7, <2>1 DEF Measured, Total
    <3>2. Cardinality(J) \in Nat
      BY <1>5, FS_CardinalityType DEF Measurable
    <3>3. QED BY <1>1, <1>2, <3>1, <3>2
  <2>2. ASSUME l[2] = "MAX", NEW t \in Nat
        PROVE  Cardinality(At(J, t)) <= l[3]
    <3>1. Bound(l[1], l[2], call) = {Peak(J)}
      BY <1>3, <1>4, <1>7, <2>2 DEF Measured
    <3>2. /\ Peak(J) \in Nat /\ Cardinality(At(J, t)) \in Nat
          /\ Cardinality(At(J, t)) <= Peak(J)
      BY <1>5, PeakIsEverywhere
    <3>3. QED BY <1>1, <1>2, <3>1, <3>2
  <2>3. QED BY <2>1, <2>2 DEF J
<1>8. QED BY <1>6, <1>7

-----------------------------------------------------------------------------
(* The quotas, counted on slivers.  They are kept on any table whose       *)
(* slivers and windows are a part of those of a table where they are kept. *)

Held(sv, scope, s) == {i \in Live(sv) : Counts(scope, s, sv[i].slice)}

HeldAt(sv, scope, s, t) == {i \in Held(sv, scope, s) : sv[i].start <= t /\ t < sv[i].end}

Keeps(sv, l, s) ==
  /\ l[2] = "TOTAL" => Cardinality(Held(sv, l[1], s)) <= l[3]
  /\ l[2] = "MAX" => \A t \in Time : Cardinality(HeldAt(sv, l[1], s, t)) <= l[3]

Shrinks(sv, sw) ==
  \A i \in Live(sw) :
    /\ i \in Live(sv) /\ sw[i].slice = sv[i].slice
    /\ sw[i].start = sv[i].start /\ sw[i].end <= sv[i].end

(* The quotas, as an invariant on any policy that may be configured. *)
QInv ==
  /\ policy \in Policies
  /\ \A l \in LimitsOf(policy), s \in Slice : Keeps(slivers, l, s)

(* There are no more slivers than resources.                               *)
LEMMA LiveIsFinite == IInv => IsFiniteSet(Live(slivers))
<1> SUFFICES ASSUME IInv PROVE IsFiniteSet(Live(slivers))
  OBVIOUS
<1> DEFINE f == [i \in Live(slivers) |-> slivers[i].resource]
<1>1. f \in [Live(slivers) -> Resource]
  BY LiveAreSlivers DEF IInv, TypeOK, Slivers
<1>2. \A i, j \in Live(slivers) : f[i] = f[j] => i = j
  BY DEF IInv, LeaseExclusive
<1> HIDE DEF f
<1>3. QED BY <1>1, <1>2, ResourcesAssumption, CountedInto

(* One allocation is reported for each sliver, so counting the ones is     *)
(* counting the others.                                                    *)
LEMMA FactsAreSlivers ==
  ASSUME IInv, NEW D \in SUBSET Live(slivers)
  PROVE  /\ IsFiniteSet({Fact(i) : i \in D})
         /\ Cardinality({Fact(i) : i \in D}) = Cardinality(D)
         /\ Cardinality(D) \in Nat /\ IsFiniteSet(D)
<1> DEFINE F == {Fact(i) : i \in D}
           f == [i \in D |-> Fact(i)]
<1>1. IsFiniteSet(D) /\ Cardinality(D) \in Nat
  BY LiveIsFinite, FS_Subset, FS_CardinalityType
<1>2. \A i, j \in D : Fact(i) = Fact(j) => i = j
  BY DEF Fact, Allocation
<1>3. f \in Bijection(D, F)
  BY <1>2 DEF Bijection, Injection, Surjection, IsInjective
<1>4. ExistsBijection(D, F)
  BY <1>3 DEF ExistsBijection
<1> HIDE DEF F, f
<1>5. IsFiniteSet(F) /\ Cardinality(F) = Cardinality(D)
  BY <1>1, <1>4, FS_Bijection
<1>6. QED BY <1>1, <1>5 DEF F

(* QuotasKept counts allocations and QInv slivers.                         *)
LEMMA QuotasOnSlivers == IInv /\ QInv => QuotasKept
<1> SUFFICES ASSUME IInv, QInv, NEW l \in LimitsOf(policy), NEW s \in Slice
             PROVE  /\ l[2] = "TOTAL" => Total(InScope(l[1], s, Current)) <= l[3]
                    /\ l[2] = "MAX" =>
                         \A t \in Time :
                           Cardinality({a \in InScope(l[1], s, Current) :
                                          a.start <= t /\ t < a.end}) <= l[3]
  BY DEF QuotasKept
<1>1. l[1] \in Scopes
  BY DEF LimitsOf
<1>2. InScope(l[1], s, Current) = {Fact(i) : i \in Held(slivers, l[1], s)}
  BY <1>1, ScopeIsBySlice DEF Current, Fact, Allocation, Held
<1>3. ASSUME NEW t \in Time
      PROVE  {a \in InScope(l[1], s, Current) : a.start <= t /\ t < a.end}
               = {Fact(i) : i \in HeldAt(slivers, l[1], s, t)}
  BY <1>2 DEF HeldAt, Fact, Allocation
<1>4. Keeps(slivers, l, s)
  BY DEF QInv
<1>5. /\ Held(slivers, l[1], s) \in SUBSET Live(slivers)
      /\ \A t \in Time : HeldAt(slivers, l[1], s, t) \in SUBSET Live(slivers)
  BY DEF Held, HeldAt
<1>6. QED BY <1>2, <1>3, <1>4, <1>5, FactsAreSlivers DEF Keeps, Total

(* Quotas stay kept where nothing is held that was not.                    *)
LEMMA PartKeeps ==
  ASSUME IInv, NEW l, NEW s, Keeps(slivers, l, s), l[3] \in Nat,
         Held(slivers', l[1], s) \subseteq Held(slivers, l[1], s),
         \A t \in Time : HeldAt(slivers', l[1], s, t) \subseteq HeldAt(slivers, l[1], s, t)
  PROVE  Keeps(slivers', l, s)
<1>1. IsFiniteSet(Live(slivers))
  BY LiveIsFinite
<1>2. /\ Held(slivers, l[1], s) \in SUBSET Live(slivers)
      /\ \A t \in Time : HeldAt(slivers, l[1], s, t) \in SUBSET Live(slivers)
  BY DEF Held, HeldAt
<1>3. \A D \in SUBSET Live(slivers) : \A C \in SUBSET D :
        Cardinality(C) \in Nat /\ Cardinality(D) \in Nat /\ Cardinality(C) <= Cardinality(D)
  BY <1>1, FS_Subset, FS_CardinalityType
<1>4. l[2] = "TOTAL" => Cardinality(Held(slivers', l[1], s)) <= l[3]
  BY <1>2, <1>3 DEF Keeps
<1>5. ASSUME l[2] = "MAX", NEW t \in Time
      PROVE  Cardinality(HeldAt(slivers', l[1], s, t)) <= l[3]
  <2>1. Cardinality(HeldAt(slivers, l[1], s, t)) <= l[3]
    BY <1>5 DEF Keeps
  <2>2. /\ Cardinality(HeldAt(slivers', l[1], s, t)) \in Nat
        /\ Cardinality(HeldAt(slivers, l[1], s, t)) \in Nat
        /\ Cardinality(HeldAt(slivers', l[1], s, t)) <= Cardinality(HeldAt(slivers, l[1], s, t))
    BY <1>2, <1>3
  <2>3. QED BY <2>1, <2>2
<1>6. QED BY <1>4, <1>5 DEF Keeps

(* So they do where slivers only go and windows only shrink.               *)
LEMMA ShrinkingKeeps ==
  ASSUME IInv, IInv', Shrinks(slivers, slivers'), NEW l, NEW s, Keeps(slivers, l, s),
         l[3] \in Nat
  PROVE  Keeps(slivers', l, s)
<1>1. Held(slivers', l[1], s) \subseteq Held(slivers, l[1], s)
  BY DEF Shrinks, Held
<1>2. \A i \in Live(slivers') : /\ slivers'[i].start \in Nat /\ slivers'[i].end \in Nat
                                /\ slivers[i].start \in Nat /\ slivers[i].end \in Nat
  BY DEF Shrinks, IInv, TypeOK, Live, Slivers, Time
<1>3. \A t \in Time : HeldAt(slivers', l[1], s, t) \subseteq HeldAt(slivers, l[1], s, t)
  BY <1>1, <1>2 DEF Shrinks, Held, HeldAt, Time
<1>4. QED BY <1>1, <1>3, PartKeeps

-----------------------------------------------------------------------------
(* Which calls only shrink what is held. *)

(* A call that, after the sweep, leaves a sliver's slice and start alone   *)
(* and its end no later, shrinks what is held.                             *)
LEMMA AfterSweepShrinks ==
  ASSUME IInv,
         \A i \in Live(slivers') :
           \/ slivers'[i] = Kept[i]
           \/ /\ i \in Live(Kept) /\ slivers'[i].slice = Kept[i].slice
              /\ slivers'[i].start = Kept[i].start /\ slivers'[i].end <= Kept[i].end
  PROVE  Shrinks(slivers, slivers')
<1> SUFFICES ASSUME NEW i \in Live(slivers')
             PROVE  /\ i \in Live(slivers) /\ slivers'[i].slice = slivers[i].slice
                    /\ slivers'[i].start = slivers[i].start
                    /\ slivers'[i].end <= slivers[i].end
  BY DEF Shrinks
<1>1. i \in Live(Kept)
  BY DEF Live
<1>2. Kept[i] = slivers[i] /\ i \in Live(slivers) /\ slivers[i].end \in Nat
  BY <1>1, KeptAreCurrent DEF Slivers, Time
<1>3. QED BY <1>1, <1>2

(* Provision cuts windows.                                                 *)
LEMMA ProvisionShrinks ==
  ASSUME IInv, NEW n \in Names, Provision(n)
  PROVE  Shrinks(slivers, slivers')
<1>1. PICK c \in Credentials(SliceNamed(Kept, n)), reqEnd \in RequestTimes :
        slivers' = [i \in SliverId |->
                      IF i \in Provisionable(n)
                      THEN [Kept[i] EXCEPT !.end = LeaseExpiration(i, c, reqEnd),
                                           !.expiration = LeaseExpiration(i, c, reqEnd),
                                           !.state = "provisioned",
                                           !.op = "notready"]
                      ELSE Kept[i]]
  BY DEF Provision
<1>2. SliceNamed(Kept, n) \in Slice /\ Decodes(n)
  BY DecodedSlivers DEF Provision
<1>3. ASSUME NEW i \in Live(slivers'), i \in Provisionable(n)
      PROVE  /\ i \in Live(Kept) /\ slivers'[i].slice = Kept[i].slice
             /\ slivers'[i].start = Kept[i].start /\ slivers'[i].end <= Kept[i].end
  <2>1. i \in SliverId /\ i \in Live(Kept) /\ Kept[i] \in Slivers
    BY <1>2, <1>3, DecodedSlivers DEF Provisionable, Live
  <2>2. slivers'[i] = Provisioned(Kept[i], LeaseExpiration(i, c, reqEnd))
    BY <1>1, <1>3, <2>1 DEF Provisioned
  <2>3. /\ slivers'[i].slice = Kept[i].slice /\ slivers'[i].start = Kept[i].start
        /\ slivers'[i].end = LeaseExpiration(i, c, reqEnd)
    BY <2>1, <2>2 DEF Provisioned, Slivers
  <2>4. /\ now \in Nat /\ MaxLease \in Nat /\ reqEnd \in Nat /\ c \in Nat
        /\ Kept[i].end \in Nat
    BY <2>1, TimesAssumption DEF IInv, TypeOK, Credentials, Time, Slivers
  <2>5. LeaseExpiration(i, c, reqEnd) <= Kept[i].end
    BY <2>4 DEF LeaseExpiration, Requested, Earlier
  <2>6. QED BY <2>1, <2>3, <2>5
<1>4. \A i \in Live(slivers') : i \in Provisionable(n) \/ slivers'[i] = Kept[i]
  BY <1>1 DEF Live
<1>5. QED BY <1>3, <1>4, AfterSweepShrinks

(* Operational actions leave windows alone.                                *)
LEMMA OperationShrinks ==
  ASSUME IInv, NEW n \in Names, NEW action, NEW bestEffort,
         PerformOperationalAction(n, action, bestEffort)
  PROVE  Shrinks(slivers, slivers')
<1>1. Decodes(n)
  BY DEF PerformOperationalAction
<1>2. ASSUME NEW i \in Live(slivers'), slivers'[i] # Kept[i]
      PROVE  /\ i \in Live(Kept) /\ slivers'[i].slice = Kept[i].slice
             /\ slivers'[i].start = Kept[i].start /\ slivers'[i].end <= Kept[i].end
  <2>1. i \in SliverId /\ i \in Named(Kept, n)
        /\ slivers'[i] = [Kept[i] EXCEPT !.op = OpAfter(action)]
    BY <1>2 DEF PerformOperationalAction, Live
  <2>2. i \in Live(Kept) /\ Kept[i] \in Slivers
    BY <1>1, <2>1, DecodedSlivers
  <2>3. Kept[i].end \in Nat
    BY <2>2 DEF Slivers, Time
  <2>4. QED BY <2>1, <2>2, <2>3 DEF Slivers
<1>3. QED BY <1>2, AfterSweepShrinks

(* All other calls but a granted Allocate and a Renew only drop slivers.   *)
LEMMA DroppingShrinks ==
  ASSUME IInv,
         \/ slivers' = Kept
         \/ \E u \in User, n \in Names : Delete(u, n)
  PROVE  Shrinks(slivers, slivers')
<1>1. \A i \in Live(slivers') : slivers'[i] = Kept[i]
  BY DEF Delete, DeleteInterrupted, DeleteCompleted, Without, Live
<1>2. QED BY <1>1, AfterSweepShrinks

(* And steps that are no calls of the delegate change no sliver.           *)
LEMMA SameShrinks ==
  ASSUME IInv, UNCHANGED slivers
  PROVE  Shrinks(slivers, slivers')
<1>1. \A i \in Live(slivers) : slivers[i].end \in Nat
  BY LiveAreSlivers DEF IInv, TypeOK, Slivers, Time
<1>2. QED BY <1>1 DEF Shrinks, Live

-----------------------------------------------------------------------------
(* A granted Allocate.  What it makes of the slivers maps one to one into  *)
(* what the rules judged, windows included.                                *)

(* The allocations that are reported have times, and there are finitely    *)
(* many.                                                                   *)
LEMMA CurrentIsMeasurable == IInv => Measurable(Current)
<1> SUFFICES ASSUME IInv PROVE Measurable(Current)
  OBVIOUS
<1>1. IsFiniteSet(Current)
  BY FactsAreSlivers DEF Current
<1>2. \A i \in Live(slivers) : Fact(i).start \in Nat /\ Fact(i).end \in Nat
  BY LiveAreSlivers DEF IInv, TypeOK, Slivers, Time, Fact, Allocation
<1>3. QED BY <1>1, <1>2 DEF Current, Measurable

(* So have those that are asked for.                                       *)
LEMMA AskedIsMeasurable ==
  ASSUME IInv, NEW s \in Slice, NEW n \in Nat, NEW c \in Credentials(s),
         NEW reqStart \in RequestTimes, NEW reqEnd \in RequestTimes
  PROVE  Measurable(Asked(s, n, c, reqStart, reqEnd))
<1> DEFINE A == Asked(s, n, c, reqStart, reqEnd)
           f == [a \in A |-> a.id]
<1>1. \A a \in A : \E k \in 1..n :
        a = Allocation(k, s, IF reqStart = 0 THEN now ELSE reqStart, EndTime(c, reqEnd))
  BY DEF Asked
<1>2. f \in [A -> 1..n] /\ \A a, b \in A : f[a] = f[b] => a = b
  BY <1>1 DEF Allocation
<1>3. IsFiniteSet(1..n)
  BY FS_Interval
<1>4. now \in Nat /\ reqStart \in Nat /\ reqEnd \in Nat /\ c \in Nat
  BY TimesAssumption DEF IInv, TypeOK, Time, Credentials
<1>5. EndTime(c, reqEnd) \in Nat
  BY <1>4 DEF EndTime, Requested, Earlier
<1> HIDE DEF A, f
<1>6. IsFiniteSet(A)
  BY <1>2, <1>3, CountedInto
<1>7. \A a \in A : a.start \in Nat /\ a.end \in Nat
  BY <1>1, <1>4, <1>5 DEF Allocation
<1>8. QED BY <1>6, <1>7 DEF Measurable, A

(* Each new sliver is one of those asked for, each old one is reported.    *)
LEMMA GrantIsJudged ==
  ASSUME IInv, IInv', NEW s \in Slice, NEW u \in User, NEW c \in Credentials(s),
         NEW reqStart \in RequestTimes, NEW reqEnd \in RequestTimes,
         NEW I \in SUBSET {i \in SliverId : slivers[i] = NoSliver},
         AllocateFor(I, s, u, c, reqStart, reqEnd)
  PROVE  LET A == Current \cup Asked(s, Cardinality(I), c, reqStart, reqEnd)
         IN /\ Measurable(A)
            /\ \A i \in Live(slivers') \ I : /\ i \in Live(slivers) /\ slivers'[i] = slivers[i]
            /\ \A i \in I : slivers'[i].slice = s
            /\ \E f \in [Live(slivers') -> A] :
                 /\ \A i, j \in Live(slivers') : f[i] = f[j] => i = j
                 /\ \A i \in Live(slivers') :
                      /\ f[i].slice = slivers'[i].slice
                      /\ f[i].start <= slivers'[i].start /\ f[i].end = slivers'[i].end
<1> DEFINE n == Cardinality(I)
           A == Current \cup Asked(s, n, c, reqStart, reqEnd)
           from == IF reqStart = 0 THEN now ELSE reqStart
<1>1. PICK g \in [I -> KeptAvailable] :
        /\ \A i, j \in I : g[i] = g[j] => i = j
        /\ slivers' = [i \in SliverId |->
                         IF i \in I THEN NewSliver(s, g[i], c, reqStart, reqEnd)
                         ELSE Kept[i]]
  BY DEF AllocateFor
<1>2. IsFiniteSet(I) /\ n \in Nat
  <2>1. KeptAvailable \subseteq Resource
    BY KeptLeases DEF Leases
  <2>2. IsFiniteSet(KeptAvailable)
    BY <2>1, ResourcesAssumption, FS_Subset
  <2>3. QED BY <1>1, <2>2, CountedInto
<1>3. PICK h \in Bijection(1..n, I) : TRUE
  BY <1>2, FS_CardinalityType DEF ExistsBijection
<1> DEFINE number == [i \in I |-> CHOOSE k \in 1..n : h[k] = i]
<1>4. \A i \in I : number[i] \in 1..n /\ h[number[i]] = i
  BY <1>3 DEF Bijection, Surjection
<1>5. Measurable(A)
  <2>1. Measurable(Current) /\ Measurable(Asked(s, n, c, reqStart, reqEnd))
    BY <1>2, CurrentIsMeasurable, AskedIsMeasurable
  <2>2. QED BY <2>1, FS_Union DEF Measurable
<1>6. \A i \in Live(slivers') \ I : i \in Live(slivers) /\ slivers'[i] = slivers[i]
  BY <1>1 DEF Live, Kept, Without
<1>7. \A i \in I : /\ i \in SliverId /\ slivers'[i].slice = s
                  /\ slivers'[i].start = StartTime(reqStart)
                  /\ slivers'[i].end = EndTime(c, reqEnd)
  BY <1>1 DEF NewSliver
<1>8. from <= StartTime(reqStart)
  <2>1. now \in Nat /\ reqStart \in Nat
    BY TimesAssumption DEF IInv, TypeOK, Time
  <2>2. QED BY <2>1 DEF StartTime, Later
<1> DEFINE f == [i \in Live(slivers') |->
                   IF i \in I THEN Allocation(number[i], s, from, EndTime(c, reqEnd))
                   ELSE Fact(i)]
<1> HIDE DEF number, n
<1>9. ASSUME NEW i \in Live(slivers')
      PROVE  /\ i \in SliverId /\ f[i] \in A
             /\ f[i].slice = slivers'[i].slice
             /\ f[i].start <= slivers'[i].start /\ f[i].end = slivers'[i].end
             /\ f[i].id = IF i \in I THEN number[i] ELSE i
  <2>1. i \in SliverId /\ slivers'[i].start \in Nat
    BY DEF Live, IInv, TypeOK, Slivers, Time
  <2>2. CASE i \in I
    <3>1. f[i] = Allocation(number[i], s, from, EndTime(c, reqEnd))
      BY <2>2
    <3>2. f[i] \in Asked(s, n, c, reqStart, reqEnd)
      BY <1>4, <2>2, <3>1 DEF Asked
    <3>3. QED BY <1>7, <1>8, <2>1, <2>2, <3>1, <3>2 DEF Allocation
  <2>3. CASE i \notin I
    <3>1. f[i] = Fact(i) /\ i \in Live(slivers) /\ slivers'[i] = slivers[i]
      BY <1>6, <2>3
    <3>2. QED BY <2>1, <2>3, <3>1 DEF Fact, Allocation, Current
  <2>4. QED BY <2>2, <2>3
<1>10. f \in [Live(slivers') -> A]
  BY <1>9
<1> HIDE DEF f, A
<1>11. \A i, j \in Live(slivers') : f[i] = f[j] => i = j
  <2> SUFFICES ASSUME NEW i \in Live(slivers'), NEW j \in Live(slivers'), f[i] = f[j]
               PROVE  i = j
    OBVIOUS
  <2>1. (IF i \in I THEN number[i] ELSE i) = (IF j \in I THEN number[j] ELSE j)
    BY <1>9
  <2>2. i \in SliverId /\ j \in SliverId /\ SliverId \cap Nat = {}
    BY <1>9, PoliciesAssumption
  <2>3. QED BY <1>2, <1>4, <2>1, <2>2
<1>12. QED BY <1>5, <1>6, <1>7, <1>9, <1>10, <1>11 DEF A, n

(* So a permitted Allocate leaves every slice within its quotas.           *)
LEMMA GrantKeepsQuotas ==
  ASSUME IInv, IInv', QInv, NEW s \in Slice, NEW u \in User, NEW c \in Credentials(s),
         NEW reqStart \in RequestTimes, NEW reqEnd \in RequestTimes,
         NEW I \in SUBSET {i \in SliverId : slivers[i] = NoSliver},
         AllocateFor(I, s, u, c, reqStart, reqEnd),
         Permits(u, "Allocate", s, Current \cup Asked(s, Cardinality(I), c, reqStart, reqEnd)),
         NEW l \in LimitsOf(policy), NEW z \in Slice
  PROVE  Keeps(slivers', l, z)
<1> DEFINE A == Current \cup Asked(s, Cardinality(I), c, reqStart, reqEnd)
           J == {a \in A : Counts(l[1], s, a.slice)}
<1>0. /\ Measurable(A)
      /\ \A i \in Live(slivers') \ I : /\ i \in Live(slivers) /\ slivers'[i] = slivers[i]
      /\ \A i \in I : slivers'[i].slice = s
      /\ \E f \in [Live(slivers') -> A] :
           /\ \A i, j \in Live(slivers') : f[i] = f[j] => i = j
           /\ \A i \in Live(slivers') :
                /\ f[i].slice = slivers'[i].slice
                /\ f[i].start <= slivers'[i].start /\ f[i].end = slivers'[i].end
  BY GrantIsJudged
<1>1. /\ Measurable(A)
      /\ \A i \in Live(slivers') \ I : /\ i \in Live(slivers) /\ slivers'[i] = slivers[i]
      /\ \A i \in I : slivers'[i].slice = s
  BY <1>0
<1>2. PICK f \in [Live(slivers') -> A] :
        /\ \A i, j \in Live(slivers') : f[i] = f[j] => i = j
        /\ \A i \in Live(slivers') :
             /\ f[i].slice = slivers'[i].slice
             /\ f[i].start <= slivers'[i].start /\ f[i].end = slivers'[i].end
  BY <1>0
<1>3. /\ l[2] = "TOTAL" => Cardinality(J) <= l[3]
      /\ l[2] = "MAX" => \A t \in Nat : Cardinality(At(J, t)) <= l[3]
  BY <1>1, PermittedKeepsLimits DEF QInv
<1>4. l[3] \in Nat /\ Keeps(slivers, l, z)
  BY PoliciesAssumption DEF QInv
<1> HIDE DEF A
<1>5. CASE ~Counts(l[1], z, s)
  <2>1. Held(slivers', l[1], z) \subseteq Held(slivers, l[1], z)
    BY <1>1, <1>5 DEF Held
  <2>2. \A i \in Held(slivers', l[1], z) : slivers'[i] = slivers[i]
    BY <1>1, <1>5 DEF Held
  <2>3. \A t \in Time : HeldAt(slivers', l[1], z, t) \subseteq HeldAt(slivers, l[1], z, t)
    BY <2>1, <2>2 DEF HeldAt
  <2>4. QED BY <1>4, <2>1, <2>3, PartKeeps
<1>6. CASE Counts(l[1], z, s)
  <2>1. \A w : Counts(l[1], z, w) => Counts(l[1], s, w)
    BY <1>6 DEF Counts
  <2>2. \A i \in Held(slivers', l[1], z) : i \in Live(slivers') /\ f[i] \in J
    BY <1>2, <2>1 DEF Held
  <2>3. IsFiniteSet(J) /\ \A t \in Time : IsFiniteSet(At(J, t))
    BY <1>1, FS_Subset DEF Measurable, At
  <2>4. ASSUME l[2] = "TOTAL"
        PROVE  Cardinality(Held(slivers', l[1], z)) <= l[3]
    <3> DEFINE D == Held(slivers', l[1], z)
               e == [i \in D |-> f[i]]
    <3>1. e \in [D -> J] /\ \A i, j \in D : e[i] = e[j] => i = j
      BY <1>2, <2>2
    <3> HIDE DEF D, e, J
    <3>2. /\ Cardinality(D) \in Nat /\ Cardinality(J) \in Nat
          /\ Cardinality(D) <= Cardinality(J)
      BY <2>3, <3>1, CountedInto
    <3>3. QED BY <1>3, <1>4, <2>4, <3>2 DEF D
  <2>5. ASSUME l[2] = "MAX", NEW t \in Time
        PROVE  Cardinality(HeldAt(slivers', l[1], z, t)) <= l[3]
    <3> DEFINE D == HeldAt(slivers', l[1], z, t)
               e == [i \in D |-> f[i]]
    <3>1. ASSUME NEW i \in D
          PROVE  i \in Live(slivers') /\ f[i] \in At(J, t)
      <4>1. i \in Live(slivers') /\ f[i] \in J /\ slivers'[i].start <= t /\ t < slivers'[i].end
        BY <2>2 DEF HeldAt
      <4>2. f[i].start \in Nat /\ slivers'[i].start \in Nat /\ t \in Nat
        BY <1>1, <4>1 DEF Measurable, IInv, TypeOK, Live, Slivers, Time
      <4>3. QED BY <1>2, <4>1, <4>2 DEF At
    <3>2. e \in [D -> At(J, t)] /\ \A i, j \in D : e[i] = e[j] => i = j
      BY <1>2, <3>1
    <3> HIDE DEF D, e, J
    <3>3. /\ Cardinality(D) \in Nat /\ Cardinality(At(J, t)) \in Nat
          /\ Cardinality(D) <= Cardinality(At(J, t))
      BY <2>3, <3>2, CountedInto
    <3>4. Cardinality(At(J, t)) <= l[3]
      BY <1>3, <2>5 DEF Time
    <3>5. QED BY <1>4, <3>3, <3>4 DEF D
  <2>6. QED BY <2>4, <2>5 DEF Keeps
<1>7. QED BY <1>5, <1>6

-----------------------------------------------------------------------------
(* A Renew.  Before the new end the slivers are those that the rules       *)
(* judged; from then on those that were held anyhow.                       *)

(* What a Renew does to the slivers, beyond the sweep.                     *)
LEMMA RenewWindows ==
  ASSUME IInv, NEW n \in Resolved, NEW requested \in RequestTimes, NEW alap \in BOOLEAN,
         NEW c \in Credentials(SliceNamed(slivers, n)), RenewWith(n, requested, alap, c)
  PROVE  /\ RenewTime(c, requested, alap) \in Nat
         /\ \A i \in Live(slivers') :
              /\ i \in SliverId /\ i \in Live(slivers)
              /\ slivers'[i].slice = slivers[i].slice
              /\ slivers'[i].start = slivers[i].start
              /\ \/ slivers'[i].end = slivers[i].end
                 \/ /\ i \in Named(slivers, n)
                    /\ slivers[i].slice = SliceNamed(slivers, n)
                    /\ slivers'[i].end = Later(slivers[i].end, RenewTime(c, requested, alap))
<1> DEFINE until == RenewTime(c, requested, alap)
<1>1. Decodes(n) /\ n \in Names
  BY DEF RenewWith, Resolved
<1>2. \A i \in SliverId : \/ slivers'[i] = Kept[i]
                          \/ /\ i \in Named(Kept, n)
                             /\ slivers'[i] = Renewed(Kept[i], until)
  BY DEF RenewWith, Renewed
<1>3. until \in Nat /\ until \in Nat
  BY TimesAssumption DEF RenewTime, Earlier, Credentials, IInv, TypeOK, Time
<1>4. \A i \in Named(Kept, n) : i \in Live(Kept) /\ Kept[i] \in Slivers
  BY <1>1, DecodedSlivers
<1>5. \A i \in Named(slivers, n) : slivers[i].slice = SliceNamed(slivers, n)
  BY <1>1, DecodedAreLive DEF Decodes
<1>6. ASSUME NEW i \in Live(slivers'), slivers'[i] # Kept[i]
      PROVE  /\ i \in Live(Kept) /\ i \in Named(slivers, n)
             /\ slivers'[i] = Renewed(Kept[i], until) /\ Kept[i] \in Slivers
  <2>1. i \in Named(Kept, n) /\ slivers'[i] = Renewed(Kept[i], until)
    BY <1>2, <1>6 DEF Live
  <2>2. i \in Live(Kept) /\ Kept[i] \in Slivers /\ i \in Live(slivers) /\ Kept[i] = slivers[i]
    BY <1>4, <2>1, KeptAreCurrent
  <2>3. i \in Named(slivers, n)
    BY <2>1, <2>2 DEF Named
  <2>4. QED BY <2>1, <2>2, <2>3
<1> HIDE DEF until
<1>7. ASSUME NEW i \in Live(slivers')
      PROVE  /\ i \in SliverId /\ i \in Live(slivers)
             /\ slivers'[i].slice = slivers[i].slice
             /\ slivers'[i].start = slivers[i].start
             /\ \/ slivers'[i].end = slivers[i].end
                \/ /\ i \in Named(slivers, n)
                   /\ slivers[i].slice = SliceNamed(slivers, n)
                   /\ slivers'[i].end = Later(slivers[i].end, until)
  <2>1. i \in Live(Kept)
    BY <1>6 DEF Live
  <2>2. i \in SliverId /\ i \in Live(slivers) /\ Kept[i] = slivers[i]
    BY <2>1, KeptAreCurrent
  <2>3. CASE slivers'[i] = Kept[i]
    BY <2>2, <2>3
  <2>4. CASE slivers'[i] # Kept[i]
    <3>1. i \in Named(slivers, n) /\ slivers[i] \in Slivers
          /\ slivers'[i] = Renewed(slivers[i], until)
      BY <1>6, <2>2, <2>4
    <3>2. /\ slivers'[i].slice = slivers[i].slice /\ slivers'[i].start = slivers[i].start
          /\ slivers'[i].end = Later(slivers[i].end, until)
      BY <3>1 DEF Renewed, Slivers
    <3>3. QED BY <1>5, <2>2, <3>1, <3>2
  <2>5. QED BY <2>3, <2>4
<1>8. QED BY <1>3, <1>7 DEF until

(* The allocation that a Renew is judged by, for each sliver. *)
Judged(n, until, i) ==
  Allocation(i, slivers[i].slice, slivers[i].start,
             IF i \in Named(slivers, n) THEN until ELSE slivers[i].end)

(* There are finitely many of them, and they have times.                   *)
LEMMA RenewingIsMeasurable ==
  ASSUME IInv, NEW n, NEW until \in Nat
  PROVE  /\ Measurable(Renewing(n, until))
         /\ Renewing(n, until) = {Judged(n, until, i) : i \in Live(slivers)}
<1> DEFINE R == Renewing(n, until)
           f == [a \in R |-> a.id]
<1>1. \A i \in Live(slivers) :
        (IF Fact(i).id \in Named(slivers, n) THEN [Fact(i) EXCEPT !.end = until] ELSE Fact(i))
          = Judged(n, until, i)
  BY DEF Fact, Allocation, Judged
<1>2. R = {Judged(n, until, i) : i \in Live(slivers)}
  BY <1>1 DEF Renewing, Current
<1>3. \A i \in Live(slivers) : slivers[i].start \in Nat /\ slivers[i].end \in Nat
  BY LiveAreSlivers DEF IInv, TypeOK, Slivers, Time
<1> HIDE DEF R
<1>4. f \in [R -> Live(slivers)] /\ \A a, b \in R : f[a] = f[b] => a = b
  BY <1>2 DEF Judged, Allocation
<1>5. \A a \in R : a.start \in Nat /\ a.end \in Nat
  BY <1>2, <1>3 DEF Judged, Allocation
<1> HIDE DEF f
<1>6. IsFiniteSet(R)
  BY <1>4, LiveIsFinite, CountedInto
<1>7. QED BY <1>2, <1>5, <1>6 DEF Measurable, R

(* So a permitted Renew leaves every slice within its quotas.              *)
LEMMA RenewKeepsQuotas ==
  ASSUME IInv, IInv', QInv, NEW u, NEW n \in Resolved, NEW requested \in RequestTimes,
         NEW alap \in BOOLEAN, NEW c \in Credentials(SliceNamed(slivers, n)),
         RenewWith(n, requested, alap, c),
         Permits(u, "Renew", SliceNamed(slivers, n),
                 Renewing(n, RenewTime(c, requested, alap))),
         NEW l \in LimitsOf(policy), NEW z \in Slice
  PROVE  Keeps(slivers', l, z)
<1> DEFINE s == SliceNamed(slivers, n)
           until == RenewTime(c, requested, alap)
           A == Renewing(n, until)
           J == {a \in A : Counts(l[1], s, a.slice)}
<1>1. /\ until \in Nat
      /\ \A i \in Live(slivers') :
           /\ i \in SliverId /\ i \in Live(slivers)
           /\ slivers'[i].slice = slivers[i].slice
           /\ slivers'[i].start = slivers[i].start
           /\ \/ slivers'[i].end = slivers[i].end
              \/ /\ i \in Named(slivers, n) /\ slivers[i].slice = s
                 /\ slivers'[i].end = Later(slivers[i].end, until)
  BY RenewWindows
<1>2. Measurable(A) /\ A = {Judged(n, until, i) : i \in Live(slivers)}
  BY <1>1, RenewingIsMeasurable
<1>3. l[2] = "MAX" => \A t \in Nat : Cardinality(At(J, t)) <= l[3]
  BY <1>2, PermittedKeepsLimits DEF QInv
<1>4. l[3] \in Nat /\ Keeps(slivers, l, z)
  BY PoliciesAssumption DEF QInv
<1>5. \A i \in Live(slivers') : /\ slivers'[i].start \in Nat /\ slivers'[i].end \in Nat
                                /\ slivers[i].end \in Nat
  BY <1>1, LiveAreSlivers DEF IInv, TypeOK, Live, Slivers, Time
<1> HIDE DEF A, until, s
<1>6. Held(slivers', l[1], z) \subseteq Held(slivers, l[1], z)
  BY <1>1 DEF Held
<1>7. ASSUME NEW t \in Time, ~(Counts(l[1], z, s) /\ t < until)
      PROVE  HeldAt(slivers', l[1], z, t) \subseteq HeldAt(slivers, l[1], z, t)
  <2> SUFFICES ASSUME NEW i \in HeldAt(slivers', l[1], z, t)
               PROVE  t < slivers[i].end
    BY <1>1, <1>6 DEF HeldAt, Held
  <2>1. /\ i \in Live(slivers') /\ t < slivers'[i].end
        /\ Counts(l[1], z, slivers[i].slice)
    BY <1>1 DEF HeldAt, Held
  <2>2. t \in Nat
    BY DEF Time
  <2>3. QED BY <1>1, <1>5, <1>7, <2>1, <2>2 DEF Later
<1>8. ASSUME NEW t \in Time, Counts(l[1], z, s), t < until, l[2] = "MAX"
      PROVE  Cardinality(HeldAt(slivers', l[1], z, t)) <= l[3]
  <2> DEFINE D == HeldAt(slivers', l[1], z, t)
             e == [i \in D |-> Judged(n, until, i)]
  <2>1. \A w : Counts(l[1], z, w) => Counts(l[1], s, w)
    BY <1>8 DEF Counts
  <2>2. ASSUME NEW i \in D
        PROVE  Judged(n, until, i) \in At(J, t)
    <3>1. /\ i \in Live(slivers') /\ i \in Live(slivers)
          /\ Counts(l[1], s, slivers[i].slice)
          /\ slivers[i].start <= t /\ t < slivers'[i].end
      BY <1>1, <2>1 DEF HeldAt, Held
    <3>2. Judged(n, until, i) \in J
      BY <1>2, <3>1 DEF Judged, Allocation
    <3>3. i \in Named(slivers, n) \/ slivers'[i].end = slivers[i].end
      BY <1>1, <3>1
    <3>4. QED BY <1>8, <3>1, <3>2, <3>3 DEF Judged, Allocation, At
  <2>3. e \in [D -> At(J, t)] /\ \A i, j \in D : e[i] = e[j] => i = j
    BY <2>2 DEF Judged, Allocation
  <2>4. IsFiniteSet(At(J, t))
    BY <1>2, FS_Subset DEF Measurable, At
  <2>5. Cardinality(At(J, t)) <= l[3]
    BY <1>3, <1>8 DEF Time
  <2> HIDE DEF D, e, J
  <2>6. /\ Cardinality(D) \in Nat /\ Cardinality(At(J, t)) \in Nat
        /\ Cardinality(D) <= Cardinality(At(J, t))
    BY <2>3, <2>4, CountedInto
  <2>7. QED BY <1>4, <2>5, <2>6 DEF D
<1>9. \A D \in SUBSET Live(slivers) : \A C \in SUBSET D :
        Cardinality(C) \in Nat /\ Cardinality(D) \in Nat /\ Cardinality(C) <= Cardinality(D)
  BY LiveIsFinite, FS_Subset, FS_CardinalityType
<1>10. /\ Held(slivers, l[1], z) \in SUBSET Live(slivers)
       /\ \A t \in Time : HeldAt(slivers, l[1], z, t) \in SUBSET Live(slivers)
  BY DEF Held, HeldAt
<1>11. l[2] = "TOTAL" => Cardinality(Held(slivers', l[1], z)) <= l[3]
  BY <1>4, <1>6, <1>9, <1>10 DEF Keeps
<1>12. ASSUME l[2] = "MAX", NEW t \in Time
       PROVE  Cardinality(HeldAt(slivers', l[1], z, t)) <= l[3]
  <2>1. CASE Counts(l[1], z, s) /\ t < until
    BY <1>8, <1>12, <2>1
  <2>2. CASE ~(Counts(l[1], z, s) /\ t < until)
    <3>1. /\ Cardinality(HeldAt(slivers', l[1], z, t)) \in Nat
          /\ Cardinality(HeldAt(slivers, l[1], z, t)) \in Nat
          /\ Cardinality(HeldAt(slivers', l[1], z, t))
               <= Cardinality(HeldAt(slivers, l[1], z, t))
      BY <1>7, <1>9, <1>10, <2>2
    <3>2. Cardinality(HeldAt(slivers, l[1], z, t)) <= l[3]
      BY <1>4, <1>12 DEF Keeps
    <3>3. QED BY <1>4, <3>1, <3>2
  <2>3. QED BY <2>1, <2>2
<1>13. QED BY <1>11, <1>12 DEF Keeps

-----------------------------------------------------------------------------

(* What no rules decide only drops slivers or cuts windows.                *)
LEMMA UngovernedShrinks ==
  ASSUME IInv, UngovernedCall
  PROVE  Shrinks(slivers, slivers')
<1>1. CASE GetVersion
  BY <1>1, DroppingShrinks DEF GetVersion, ExpireSlivers
<1>2. CASE Tick \/ (\E s \in Slice : RenewSlice(s)) \/ \E op \in UrnOps : Unresolved(op)
  BY <1>2, SameShrinks DEF Tick, RenewSlice, Unresolved
<1>3. QED BY <1>1, <1>2 DEF UngovernedCall

(* So does what the rules decide without measuring.                        *)
LEMMA GovernedCallShrinks ==
  ASSUME IInv, NEW u \in User, NEW op, GovernedCall(u, op)
  PROVE  Shrinks(slivers, slivers')
<1>1. CASE UNCHANGED vars
  BY <1>1, SameShrinks DEF vars
<1>2. CASE Rejected(op) \/ ListResources \/ \E s \in Slice : Shutdown(s)
  BY <1>2, DroppingShrinks DEF Rejected, ListResources, Shutdown, ExpireSlivers
<1>3. CASE \E n \in Resolved : UrnMethod(op, u, n)
  <2>1. PICK n \in Names : UrnMethod(op, u, n)
    BY <1>3 DEF Resolved
  <2>2. CASE UrnsExpired(op, n) \/ Report(op, n) \/ PerformUnknownAction(n)
    BY <2>2, DroppingShrinks DEF UrnsExpired, Report, PerformUnknownAction, ExpireSlivers
  <2>3. CASE Provision(n)
    BY <2>3, ProvisionShrinks
  <2>4. CASE Delete(u, n)
    BY <2>4, DroppingShrinks
  <2>5. CASE \E action \in Actions, bestEffort \in BOOLEAN :
               PerformOperationalAction(n, action, bestEffort)
    BY <2>5, OperationShrinks
  <2>6. QED BY <2>1, <2>2, <2>3, <2>4, <2>5 DEF UrnMethod
<1>4. QED BY <1>1, <1>2, <1>3 DEF GovernedCall, Asks

(* Every step leaves every slice within its quotas.                        *)
LEMMA NextKeepsQuotas == IInv /\ IInv' /\ QInv /\ [GovernedNext]_governedVars => QInv'
<1> SUFFICES ASSUME IInv, IInv', QInv, [GovernedNext]_governedVars PROVE QInv'
  OBVIOUS
<1>1. policy' = policy
  BY DEF GovernedNext, governedVars
<1>2. policy \in Policies /\ \A l \in LimitsOf(policy), z \in Slice :
        Keeps(slivers, l, z) /\ l[3] \in Nat
  BY PoliciesAssumption DEF QInv
<1>3. SUFFICES ASSUME NEW l \in LimitsOf(policy), NEW z \in Slice
               PROVE  Keeps(slivers', l, z)
  <2>1. \A l \in LimitsOf(policy'), z \in Slice : Keeps(slivers', l, z)
    BY <1>1, <1>3
  <2>2. QED BY <1>1, <1>2, <2>1 DEF QInv, Keeps, Held, HeldAt, Live
<1>4. CASE Shrinks(slivers, slivers')
  BY <1>2, <1>4, ShrinkingKeeps
<1>5. CASE UngovernedCall \/ UNCHANGED governedVars
  BY <1>4, <1>5, UngovernedShrinks, SameShrinks DEF governedVars
<1>6. CASE \E u \in User, op \in Ops : GovernedCall(u, op)
  BY <1>4, <1>6, GovernedCallShrinks
<1>7. ASSUME NEW u \in User, NEW s \in Slice, GovernedAllocate(s, u)
      PROVE  Keeps(slivers', l, z)
  <2>1. PICK c \in Credentials(s), reqStart \in RequestTimes, reqEnd \in RequestTimes :
          \/ \E n \in 0..(Cardinality(Resource) + 1) :
               AllocateTooBig(s, n) \/ AllocateRefused(s, c, reqStart, reqEnd)
          \/ \E I \in SUBSET {i \in SliverId : slivers[i] = NoSliver} :
               /\ Permits(u, "Allocate", s,
                          Current \cup Asked(s, Cardinality(I), c, reqStart, reqEnd))
               /\ AllocateFor(I, s, u, c, reqStart, reqEnd)
          \/ UNCHANGED vars
    BY <1>7 DEF GovernedAllocate, Asks
  <2>2. CASE \/ \E n \in 0..(Cardinality(Resource) + 1) :
                  AllocateTooBig(s, n) \/ AllocateRefused(s, c, reqStart, reqEnd)
             \/ UNCHANGED vars
    BY <1>4, <2>2, DroppingShrinks, SameShrinks
       DEF AllocateTooBig, AllocateRefused, TakenInVain, ExpireSlivers, vars
  <2>3. CASE \E I \in SUBSET {i \in SliverId : slivers[i] = NoSliver} :
               /\ Permits(u, "Allocate", s,
                          Current \cup Asked(s, Cardinality(I), c, reqStart, reqEnd))
               /\ AllocateFor(I, s, u, c, reqStart, reqEnd)
    BY <2>3, GrantKeepsQuotas
  <2>4. QED BY <2>1, <2>2, <2>3
<1>8. ASSUME NEW u \in User, NEW n \in Resolved, NEW requested \in RequestTimes,
             NEW alap \in BOOLEAN, GovernedRenew(u, n, requested, alap)
      PROVE  Keeps(slivers', l, z)
  <2>1. PICK c \in Credentials(SliceNamed(slivers, n)) :
          \/ UrnsExpired("Renew", n)
          \/ /\ Permits(u, "Renew", SliceNamed(slivers, n),
                        Renewing(n, RenewTime(c, requested, alap)))
             /\ RenewWith(n, requested, alap, c)
          \/ UNCHANGED vars
    BY <1>8 DEF GovernedRenew, Asks
  <2>2. CASE UrnsExpired("Renew", n) \/ UNCHANGED vars
    BY <1>4, <2>2, DroppingShrinks, SameShrinks DEF UrnsExpired, ExpireSlivers, vars
  <2>3. CASE /\ Permits(u, "Renew", SliceNamed(slivers, n),
                        Renewing(n, RenewTime(c, requested, alap)))
             /\ RenewWith(n, requested, alap, c)
    BY <2>3, RenewKeepsQuotas
  <2>4. QED BY <2>1, <2>2, <2>3
<1>9. QED BY <1>5, <1>6, <1>7, <1>8 DEF GovernedNext

(* A policy's quotas hold before the first call: nothing is held.          *)
LEMMA InitKeepsQuotas == GovernedInit => QInv
<1> SUFFICES ASSUME GovernedInit PROVE QInv
  OBVIOUS
<1>1. Live(slivers) = {}
  BY DEF GovernedInit, Init, Live
<1>2. \A scope, s, t : Held(slivers, scope, s) = {} /\ HeldAt(slivers, scope, s, t) = {}
  BY <1>1 DEF Held, HeldAt
<1>3. policy \in Policies /\ \A l \in LimitsOf(policy) : l[3] \in Nat
  BY PoliciesAssumption DEF GovernedInit
<1>4. QED BY <1>2, <1>3, FS_EmptySet DEF QInv, Keeps

(* Whatever policy is configured, its quotas on slivers are kept, in       *)
(* number and at every instant: by slices, by projects and by everybody.   *)
(* QInv, with IInv, is inductive: what Allocate and Renew make of the      *)
(* slivers maps one to one into what the rules judged before the sweep,    *)
(* and no other call adds a sliver or extends a window.                    *)
THEOREM PoliciesAreKept == GovernedSpec => []QuotasKept
<1>1. GovernedSpec => [](IInv /\ QInv)
  <2>1. GovernedInit => Init
    BY DEF GovernedInit
  <2>2. QED
    BY <2>1, InitIInv, InitKeepsQuotas, NextIInv, GovernedNextIsNext, NextKeepsQuotas, PTL
       DEF GovernedSpec
<1>2. QED BY <1>1, QuotasOnSlivers, PTL

(* The runs of the governed server check these too; they hold of it as of  *)
(* the server.                                                             *)
THEOREM GovernedKeepsPromises ==
  GovernedSpec => /\ [](LeaseExclusive /\ NoSliverOutlivesSlice /\ LeaseBounded)
                  /\ CallsExpire /\ OnlyDeleteRemoves /\ ShutdownFreezes
                  /\ ImplementsPool
BY GovernedIsServer, Exclusivity, SlicesOutliveSlivers, LeasesAreBounded, SuccessMeansSwept,
   LeasesAreKept, ShutdownHolds, AggregateIsPool, PTL
=============================================================================
