---------------------------- MODULE GcfAM2_proofs ----------------------------
(* Theorems about the version 2 aggregate manager, proved for any number   *)
(* of slices, users and VMs and any clock, and about the version 1 manager *)
(* as it is started beside it.                                             *)
EXTENDS MCGcfAM2, TLAPS

-----------------------------------------------------------------------------
(* The container dictionary. *)

(* Aggregate.allocate adds to one list and leaves the others alone.        *)
LEMMA AllocateInOccurs ==
  ASSUME NEW cs \in Dictionaries, NEW k \in Slice \cup User, NEW R \in SUBSET Resource
  PROVE  /\ AllocateIn(cs, k, BagOf(R)) \in Dictionaries
         /\ \A j \in Slice \cup User, r \in Resource :
              Occurs(AllocateIn(cs, k, BagOf(R)), j, r)
                = Occurs(cs, j, r) + (IF j = k /\ r \in R THEN 1 ELSE 0)
<1>1. \A j \in Slice \cup User, r \in Resource : Occurs(cs, j, r) \in Nat
  BY DEF Dictionaries, Bags, Occurs
<1>2. \A r \in Resource : BagOf(R)[r] = IF r \in R THEN 1 ELSE 0
  BY DEF BagOf
<1>3. [r \in Resource |-> Occurs(cs, k, r) + BagOf(R)[r]] \in Bags
  BY <1>1, <1>2 DEF Bags
<1>4. AllocateIn(cs, k, BagOf(R)) \in Dictionaries
  BY <1>3 DEF AllocateIn, Dictionaries
<1>5. \A j \in Slice \cup User :
        AllocateIn(cs, k, BagOf(R))[j]
          = IF j = k THEN [r \in Resource |-> Occurs(cs, k, r) + BagOf(R)[r]] ELSE cs[j]
  BY DEF AllocateIn, Dictionaries
<1>6. [r \in Resource |-> Occurs(cs, k, r) + BagOf(R)[r]] # NoContainer
  BY <1>3, NamesAssumption DEF Bags
<1>7. ASSUME NEW j \in Slice \cup User, NEW r \in Resource
      PROVE  Occurs(AllocateIn(cs, k, BagOf(R)), j, r)
               = Occurs(cs, j, r) + (IF j = k /\ r \in R THEN 1 ELSE 0)
  <2>1. CASE j = k
    <3>1. Occurs(AllocateIn(cs, k, BagOf(R)), j, r) = Occurs(cs, k, r) + BagOf(R)[r]
      BY <1>5, <1>6, <2>1 DEF Occurs
    <3>2. QED BY <1>1, <1>2, <2>1, <3>1
  <2>2. CASE j # k
    <3>1. Occurs(AllocateIn(cs, k, BagOf(R)), j, r) = Occurs(cs, j, r)
      BY <1>5, <2>2 DEF Occurs
    <3>2. QED BY <1>1, <2>2, <3>1
  <2>3. QED BY <2>1, <2>2
<1>8. QED BY <1>4, <1>7

(* deallocate without resources empties one list and leaves the others     *)
(* alone, apart from forgetting the names of lists that are empty anyway.  *)
LEMMA DeallocateAllOccurs ==
  ASSUME NEW cs \in Dictionaries, NEW k \in Slice \cup User
  PROVE  /\ DeallocateAll(cs, k) \in Dictionaries
         /\ \A j \in Slice \cup User, r \in Resource :
              Occurs(DeallocateAll(cs, k), j, r)
                = IF j = k THEN 0 ELSE Occurs(cs, j, r)
<1>1. CASE cs[k] = NoContainer
  BY <1>1 DEF DeallocateAll, Occurs
<1>2. CASE cs[k] # NoContainer
  <2>. DEFINE ds == [cs EXCEPT ![k] = EmptyBag]
  <2>1. EmptyBag \in Bags /\ \A r \in Resource : EmptyBag[r] = 0
    BY DEF EmptyBag, Bags
  <2>2. ds \in Dictionaries
    BY <2>1 DEF Dictionaries
  <2>3. DropEmpty(ds) \in Dictionaries
    BY <2>2 DEF Dictionaries, DropEmpty
  <2>4. ASSUME NEW j \in Slice \cup User, NEW r \in Resource
        PROVE  Occurs(DropEmpty(ds), j, r) = IF j = k THEN 0 ELSE Occurs(cs, j, r)
    <3>1. DropEmpty(ds)[j] = IF ds[j] = EmptyBag THEN NoContainer ELSE ds[j]
      BY DEF DropEmpty
    <3>2. ds[j] = IF j = k THEN EmptyBag ELSE cs[j]
      BY DEF Dictionaries
    <3>3. EmptyBag # NoContainer
      BY <2>1, NamesAssumption DEF Bags
    <3>4. QED BY <2>1, <3>1, <3>2, <3>3 DEF Occurs
  <2>5. QED BY <1>2, <2>3, <2>4 DEF DeallocateAll
<1>3. QED BY <1>1, <1>2

-----------------------------------------------------------------------------
(* The inductive invariant: none of its parts is inductive alone.  The     *)
(* catalog of a slice decides what DeleteSliver gives back, so the         *)
(* partition needs CatalogIsSlice; a mark of one VM stands for the slice,  *)
(* so the shutdown needs StatusFollowsSlice.                               *)
IInv ==
  /\ TypeOK
  /\ CatalogIsSlice
  /\ Partition
  /\ StatusFollowsSlice
  /\ NoSliverOutlivesSlice

(* The absence of a slice is no slice object.                              *)
LEMMA NoSliceIsNone == NoSlice \notin SliceObjects
BY NamesAssumption DEF SliceObjects, Time

(* What the manager reads of a slice in the aggregate is what it wrote in  *)
(* the slice object.                                                       *)
LEMMA CatalogIsHeld ==
  ASSUME IInv, NEW s \in Slice
  PROVE  Catalog(s) = Held(s) /\ Held(s) \subseteq Resource
<1>1. Held(s) \subseteq Resource
  BY DEF IInv, TypeOK, SliceObjects, Held
<1>2. QED BY <1>1 DEF IInv, CatalogIsSlice, Catalog

(* A step that changes the reply only.                                     *)
LEMMA UnchangedStep ==
  ASSUME IInv, Unchanged,
         reply' \in [op : Ops, code : Codes]
  PROVE  IInv'
BY DEF IInv, Unchanged, TypeOK, CatalogIsSlice, Partition, StatusFollowsSlice,
       NoSliverOutlivesSlice, Held, Occurs

(* The clock and the clearinghouse only raise bounds.                      *)
LEMMA TickStep ==
  ASSUME IInv, Tick
  PROVE  IInv'
<1>1. now' \in Time
  BY TimesAssumption DEF IInv, TypeOK, Tick, Time
<1>2. reply' \in [op : Ops, code : Codes]
  BY DEF Tick, NoReply, Ops, Codes
<1>3. QED
  BY <1>1, <1>2 DEF IInv, Tick, TypeOK, CatalogIsSlice, Partition,
     StatusFollowsSlice, NoSliverOutlivesSlice, Held, Occurs

LEMMA RenewSliceStep ==
  ASSUME IInv, NEW s \in Slice, RenewSlice(s)
  PROVE  IInv'
<1>1. PICK t \in Time : t > sliceExp[s] /\ sliceExp' = [sliceExp EXCEPT ![s] = t]
  BY DEF RenewSlice
<1>2. sliceExp' \in [Slice -> Time]
  BY <1>1 DEF IInv, TypeOK
<1>3. reply' \in [op : Ops, code : Codes]
  BY DEF RenewSlice, NoReply, Ops, Codes
<1>4. TypeOK' /\ CatalogIsSlice' /\ Partition' /\ StatusFollowsSlice'
  BY <1>2, <1>3 DEF IInv, RenewSlice, TypeOK, CatalogIsSlice, Partition,
     StatusFollowsSlice, Held, Occurs
<1>5. ASSUME NEW x \in Slice, slices'[x] # NoSlice
      PROVE  slices'[x].expiration <= sliceExp'[x]
  <2>1. slices' = slices
    BY DEF RenewSlice
  <2>2. slices[x].expiration <= sliceExp[x] /\ slices[x].expiration \in Time
    BY <1>5, <2>1 DEF IInv, NoSliverOutlivesSlice, TypeOK, SliceObjects
  <2>3. sliceExp[x] <= sliceExp'[x] /\ sliceExp[x] \in Time /\ sliceExp'[x] \in Time
    BY <1>1, <1>2 DEF IInv, TypeOK, Time
  <2>4. QED BY <2>1, <2>2, <2>3 DEF Time
<1>6. QED BY <1>4, <1>5 DEF IInv, NoSliverOutlivesSlice

(* The lease is within the earliest credential.                            *)
LEMMA LimitIsCredential ==
  ASSUME IInv, NEW s \in Slice, NEW c \in Credentials(s)
  PROVE  /\ LeaseEnd(c) \in Time
         /\ LeaseEnd(c) <= sliceExp[s]
<1>1. c \in Time /\ c <= sliceExp[s]
  BY DEF Credentials
<1>2. now \in Nat /\ MaxLease \in Nat /\ MaxTime \in Nat /\ sliceExp[s] \in Nat
  BY TimesAssumption DEF IInv, TypeOK, Time
<1>3. QED BY <1>1, <1>2 DEF LeaseEnd, Earlier, Time

(* CreateSliver moves available VMs into a new slice.                      *)
LEMMA CreateSliverStep ==
  ASSUME IInv, NEW s \in Slice, NEW u \in User, NEW c \in Credentials(s),
         CreateSliver(s, u, c)
  PROVE  IInv'
<1>1. PICK R \in SUBSET available :
        /\ slices' = [slices EXCEPT ![s] = [expiration |-> LeaseEnd(c), resources |-> R]]
        /\ containers' = AllocateIn(AllocateIn(containers, s, BagOf(R)), u, BagOf(R))
        /\ status' = [r \in Resource |-> IF r \in R THEN "ready" ELSE status[r]]
        /\ available' = available \ R
  BY DEF CreateSliver
<1>2. slices[s] = NoSlice /\ R \subseteq Resource /\ s # u
  BY NamesAssumption DEF CreateSliver, Creatable, IInv, TypeOK
<1>. DEFINE new == [expiration |-> LeaseEnd(c), resources |-> R]
            cs == AllocateIn(containers, s, BagOf(R))
<1>3. new \in SliceObjects /\ new # NoSlice
  BY <1>2, LimitIsCredential, NoSliceIsNone DEF SliceObjects
<1>4. \A x \in Slice : slices'[x] = IF x = s THEN new ELSE slices[x]
  BY <1>1 DEF IInv, TypeOK
<1>5. \A x \in Slice : Held(x)' = IF x = s THEN R ELSE Held(x)
  BY <1>3, <1>4 DEF Held
<1>6. Held(s) = {}
  BY <1>2 DEF Held
<1>7. cs \in Dictionaries
      /\ \A j \in Slice \cup User, r \in Resource :
           Occurs(cs, j, r) = Occurs(containers, j, r) + (IF j = s /\ r \in R THEN 1 ELSE 0)
  BY <1>2, AllocateInOccurs DEF IInv, TypeOK
<1>8. containers' \in Dictionaries
      /\ \A j \in Slice \cup User, r \in Resource :
           Occurs(containers', j, r) = Occurs(cs, j, r) + (IF j = u /\ r \in R THEN 1 ELSE 0)
  BY <1>1, <1>2, <1>7, AllocateInOccurs
<1>9. TypeOK'
  <2>1. slices' \in [Slice -> {NoSlice} \cup SliceObjects]
    BY <1>1, <1>3 DEF IInv, TypeOK
  <2>2. status' \in [Resource -> Statuses] /\ available' \subseteq Resource
    BY <1>1, <1>2 DEF IInv, TypeOK, Statuses
  <2>3. reply' \in [op : Ops, code : Codes]
    BY DEF CreateSliver, Reply, Ops, Codes
  <2>4. QED BY <1>8, <2>1, <2>2, <2>3 DEF CreateSliver, IInv, TypeOK
<1>10. CatalogIsSlice'
  <2>1. ASSUME NEW x \in Slice, NEW r \in Resource
        PROVE  Occurs(containers', x, r) = IF r \in Held(x)' THEN 1 ELSE 0
    <3>1. Occurs(containers, x, r) = IF r \in Held(x) THEN 1 ELSE 0
      BY DEF IInv, CatalogIsSlice
    <3>2. x # u
      BY NamesAssumption
    <3>3. QED BY <1>5, <1>6, <1>7, <1>8, <3>1, <3>2
  <2>2. QED BY <2>1 DEF CatalogIsSlice, Occurs
<1>11. Partition'
  <2>1. \A x \in Slice : Held(x) \cap R = {}
    BY <1>1 DEF IInv, Partition
  <2>2. \A x, y \in Slice : x # y => Held(x)' \cap Held(y)' = {}
    BY <1>5, <2>1 DEF IInv, Partition
  <2>3. available' = Resource \ UNION {Held(x)' : x \in Slice}
    <3>1. UNION {Held(x)' : x \in Slice} = R \cup UNION {Held(x) : x \in Slice}
      BY <1>5, <1>6
    <3>2. QED BY <1>1, <3>1 DEF IInv, Partition
  <2>4. QED BY <2>2, <2>3 DEF Partition
<1>12. StatusFollowsSlice'
  <2>1. \A r \in available' : status'[r] = "unknown"
    BY <1>1 DEF IInv, StatusFollowsSlice, TypeOK
  <2>2. ASSUME NEW x \in Slice, NEW r \in Held(x)', NEW q \in Held(x)'
        PROVE  status'[r] = status'[q]
    <3>1. CASE x = s
      BY <1>1, <1>2, <1>5, <3>1
    <3>2. CASE x # s
      <4>1. Held(x) \cap R = {} /\ Held(x) \subseteq Resource
        BY <1>1, CatalogIsHeld DEF IInv, Partition
      <4>2. QED BY <1>1, <1>5, <3>2, <4>1 DEF IInv, StatusFollowsSlice
    <3>3. QED BY <3>1, <3>2
  <2>3. QED BY <2>1, <2>2 DEF StatusFollowsSlice
<1>13. NoSliverOutlivesSlice'
  <2>1. sliceExp' = sliceExp
    BY DEF CreateSliver
  <2>2. QED BY <1>4, <2>1, LimitIsCredential DEF IInv, NoSliverOutlivesSlice
<1>14. QED BY <1>9, <1>10, <1>11, <1>12, <1>13 DEF IInv

(* DeleteSliver gives back what the slice held, and nothing of another     *)
(* slice although it empties the caller's whole list.                      *)
LEMMA DeleteSliverStep ==
  ASSUME IInv, NEW s \in Slice, NEW u \in User, DeleteSliver(s, u)
  PROVE  IInv'
<1>1. /\ slices' = [slices EXCEPT ![s] = NoSlice]
      /\ available' = available \cup Held(s)
      /\ status' = [r \in Resource |-> IF r \in Held(s) THEN "unknown" ELSE status[r]]
      /\ containers' = DeallocateAll(DeallocateAll(containers, s), u)
      /\ Held(s) \subseteq Resource
  BY CatalogIsHeld DEF DeleteSliver
<1>2. \A x \in Slice : slices'[x] = IF x = s THEN NoSlice ELSE slices[x]
  BY <1>1 DEF IInv, TypeOK
<1>3. \A x \in Slice : Held(x)' = IF x = s THEN {} ELSE Held(x)
  BY <1>2 DEF Held
<1>. DEFINE cs == DeallocateAll(containers, s)
<1>4. cs \in Dictionaries
      /\ \A j \in Slice \cup User, r \in Resource :
           Occurs(cs, j, r) = IF j = s THEN 0 ELSE Occurs(containers, j, r)
  BY DeallocateAllOccurs DEF IInv, TypeOK
<1>5. containers' \in Dictionaries
      /\ \A j \in Slice \cup User, r \in Resource :
           Occurs(containers', j, r) = IF j = u THEN 0 ELSE Occurs(cs, j, r)
  BY <1>1, <1>4, DeallocateAllOccurs
<1>6. TypeOK'
  <2>1. slices' \in [Slice -> {NoSlice} \cup SliceObjects]
    BY <1>1 DEF IInv, TypeOK
  <2>2. status' \in [Resource -> Statuses] /\ available' \subseteq Resource
    BY <1>1 DEF IInv, TypeOK, Statuses
  <2>3. reply' \in [op : Ops, code : Codes]
    BY DEF DeleteSliver, Reply, Ops, Codes
  <2>4. QED BY <1>5, <2>1, <2>2, <2>3 DEF DeleteSliver, IInv, TypeOK
<1>7. CatalogIsSlice'
  <2>1. ASSUME NEW x \in Slice, NEW r \in Resource
        PROVE  Occurs(containers', x, r) = IF r \in Held(x)' THEN 1 ELSE 0
    <3>1. Occurs(containers, x, r) = IF r \in Held(x) THEN 1 ELSE 0
      BY DEF IInv, CatalogIsSlice
    <3>2. x # u
      BY NamesAssumption
    <3>3. QED BY <1>3, <1>4, <1>5, <3>1, <3>2
  <2>2. QED BY <2>1 DEF CatalogIsSlice, Occurs
<1>8. Partition'
  <2>1. \A x, y \in Slice : x # y => Held(x)' \cap Held(y)' = {}
    BY <1>3 DEF IInv, Partition
  <2>2. available' = Resource \ UNION {Held(x)' : x \in Slice}
    <3>1. UNION {Held(x)' : x \in Slice} = (UNION {Held(x) : x \in Slice}) \ Held(s)
      BY <1>3 DEF IInv, Partition
    <3>2. QED BY <1>1, <3>1 DEF IInv, Partition
  <2>3. QED BY <2>1, <2>2 DEF Partition
<1>9. StatusFollowsSlice'
  <2>1. \A r \in available' : status'[r] = "unknown"
    BY <1>1 DEF IInv, StatusFollowsSlice, TypeOK
  <2>2. ASSUME NEW x \in Slice, NEW r \in Held(x)', NEW q \in Held(x)'
        PROVE  status'[r] = status'[q]
    <3>1. x # s /\ r \in Held(x) /\ q \in Held(x) /\ Held(x) \cap Held(s) = {}
      BY <1>3, <2>2 DEF IInv, Partition
    <3>2. Held(x) \subseteq Resource
      BY CatalogIsHeld
    <3>3. QED BY <1>1, <3>1, <3>2 DEF IInv, StatusFollowsSlice
  <2>3. QED BY <2>1, <2>2 DEF StatusFollowsSlice
<1>10. NoSliverOutlivesSlice'
  <2>1. sliceExp' = sliceExp
    BY DEF DeleteSliver
  <2>2. QED BY <1>2, <2>1 DEF IInv, NoSliverOutlivesSlice
<1>11. QED BY <1>6, <1>7, <1>8, <1>9, <1>10 DEF IInv

(* RenewSliver changes an expiration only, within the earliest credential. *)
LEMMA RenewSliverStep ==
  ASSUME IInv, NEW s \in Slice, NEW c \in Credentials(s), NEW requested \in RequestTimes,
         NEW alap \in BOOLEAN, RenewSliver(s, c, requested, alap)
  PROVE  IInv'
<1>. DEFINE limit == LeaseEnd(c)
<1>1. requested \in Time /\ limit \in Time /\ limit <= sliceExp[s]
  BY LimitIsCredential, TimesAssumption DEF Time
<1>2. reply' \in [op : Ops, code : Codes]
  BY DEF RenewSliver, Reply, Ops, Codes
<1>3. CASE slices' = slices
  BY <1>2, <1>3, UnchangedStep DEF RenewSliver, Unchanged
<1>4. CASE slices' = [slices EXCEPT ![s].expiration = Earlier(requested, limit)]
  <2>1. slices[s] \in SliceObjects
    BY DEF RenewSliver, Usable, IInv, TypeOK
  <2>2. Earlier(requested, limit) \in Time /\ Earlier(requested, limit) <= sliceExp[s]
    <3>1. sliceExp[s] \in Time
      BY DEF IInv, TypeOK
    <3>2. QED BY <1>1, <3>1 DEF Earlier, Time
  <2>. DEFINE new == [slices[s] EXCEPT !.expiration = Earlier(requested, limit)]
  <2>3. /\ new \in SliceObjects /\ new # NoSlice /\ slices[s] # NoSlice
        /\ new.resources = slices[s].resources
        /\ new.expiration = Earlier(requested, limit)
    BY <2>1, <2>2, NoSliceIsNone DEF SliceObjects
  <2>4. \A x \in Slice : slices'[x] = IF x = s THEN new ELSE slices[x]
    BY <1>4 DEF IInv, TypeOK
  <2>5. \A x \in Slice : Held(x)' = Held(x)
    BY <2>3, <2>4 DEF Held
  <2>6. UNCHANGED <<now, sliceExp, available, status, containers>>
    BY DEF RenewSliver
  <2>7. slices' \in [Slice -> {NoSlice} \cup SliceObjects]
    BY <1>4, <2>3 DEF IInv, TypeOK
  <2>8. TypeOK'
    BY <1>2, <2>6, <2>7 DEF IInv, TypeOK
  <2>9. CatalogIsSlice'
    BY <2>5, <2>6 DEF IInv, CatalogIsSlice, Occurs
  <2>10. Partition'
    BY <2>5, <2>6 DEF IInv, Partition
  <2>11. StatusFollowsSlice'
    BY <2>5, <2>6 DEF IInv, StatusFollowsSlice
  <2>12. NoSliverOutlivesSlice'
    BY <2>2, <2>3, <2>4, <2>6 DEF IInv, NoSliverOutlivesSlice
  <2>13. QED BY <2>8, <2>9, <2>10, <2>11, <2>12 DEF IInv
<1>5. slices' = slices \/ slices' = [slices EXCEPT ![s].expiration = Earlier(requested, limit)]
  BY DEF RenewSliver, LeaseEnd
<1>6. QED BY <1>3, <1>4, <1>5

(* Shutdown marks all the VMs of the slice and no other.                   *)
LEMMA ShutdownStep ==
  ASSUME IInv, NEW s \in Slice, Shutdown(s)
  PROVE  IInv'
<1>1. /\ status' = [r \in Resource |-> IF r \in Held(s) THEN "shutdown" ELSE status[r]]
      /\ UNCHANGED <<now, sliceExp, slices, available, containers>>
      /\ Held(s) \subseteq Resource
  BY CatalogIsHeld DEF Shutdown
<1>2. \A x \in Slice : Held(x)' = Held(x)
  BY <1>1 DEF Held
<1>3. TypeOK'
  BY <1>1 DEF IInv, TypeOK, Statuses, Shutdown, Reply, Ops, Codes
<1>4. CatalogIsSlice' /\ Partition' /\ NoSliverOutlivesSlice'
  BY <1>1, <1>2 DEF IInv, CatalogIsSlice, Partition, NoSliverOutlivesSlice, Occurs
<1>5. StatusFollowsSlice'
  <2>1. \A r \in available : status'[r] = "unknown"
    BY <1>1 DEF IInv, StatusFollowsSlice, Partition, TypeOK
  <2>2. ASSUME NEW x \in Slice, NEW r \in Held(x), NEW q \in Held(x)
        PROVE  status'[r] = status'[q]
    <3>1. Held(x) \subseteq Resource /\ (x # s => Held(x) \cap Held(s) = {})
      BY CatalogIsHeld DEF IInv, Partition
    <3>2. QED BY <1>1, <3>1 DEF IInv, StatusFollowsSlice
  <2>3. QED BY <1>1, <1>2, <2>1, <2>2 DEF StatusFollowsSlice
<1>6. QED BY <1>3, <1>4, <1>5 DEF IInv

(* Calls that are refused or only report.                                  *)
LEMMA ReplyStep ==
  ASSUME IInv, NEW op \in Ops, NEW code \in Codes, Reply(op, code), Unchanged
  PROVE  IInv'
<1>1. reply' \in [op : Ops, code : Codes]
  BY DEF Reply
<1>2. QED BY <1>1, UnchangedStep

(* A server that has just started satisfies the invariant.                 *)
LEMMA InitIInv == Init => IInv
<1>. SUFFICES ASSUME Init PROVE IInv
  OBVIOUS
<1>1. \A s \in Slice : Held(s) = {}
  BY DEF Init, Held
<1>2. TypeOK
  BY TimesAssumption DEF Init, TypeOK, Time, Statuses, NoContainers, Dictionaries,
                         NoReply, Ops, Codes
<1>3. CatalogIsSlice
  BY <1>1 DEF Init, CatalogIsSlice, Occurs, NoContainers
<1>4. Partition
  BY <1>1 DEF Init, Partition
<1>5. StatusFollowsSlice
  BY <1>1 DEF Init, StatusFollowsSlice
<1>6. NoSliverOutlivesSlice
  BY DEF Init, NoSliverOutlivesSlice
<1>7. QED BY <1>2, <1>3, <1>4, <1>5, <1>6 DEF IInv

(* Every call on a slice keeps the invariant.                              *)
LEMMA SliceCallStep ==
  ASSUME IInv, NEW s \in Slice, SliceCall(s)
  PROVE  IInv'
<1>1. ASSUME NEW op \in Ops \ {"GetVersion", "CreateSliver"}, NoSuchSlice(op, s)
      PROVE  IInv'
  BY <1>1, ReplyStep DEF NoSuchSlice, Codes
<1>2. ASSUME NEW op \in {"DeleteSliver", "RenewSliver"}, Unavailable(op, s)
      PROVE  IInv'
  BY <1>2, ReplyStep DEF Unavailable, Codes, Ops
<1>3. ASSUME SliverStatus(s)
      PROVE  IInv'
  BY <1>3, ReplyStep DEF SliverStatus, Report, Codes, Ops
<1>4. ASSUME CreateSliverRefused(s)
      PROVE  IInv'
  BY <1>4, ReplyStep DEF CreateSliverRefused, Codes, Ops
<1>5. QED
  BY <1>1, <1>2, <1>3, <1>4, CreateSliverStep, DeleteSliverStep, RenewSliverStep,
     ShutdownStep DEF SliceCall

(* Every step keeps the invariant.                                         *)
LEMMA NextIInv == IInv /\ [Next]_vars => IInv'
<1>. SUFFICES ASSUME IInv, [Next]_vars PROVE IInv'
  OBVIOUS
<1>1. ASSUME NEW op \in Ops, Rejected(op)
      PROVE  IInv'
  BY <1>1, ReplyStep DEF Rejected, Codes
<1>2. ASSUME GetVersion \/ ListResources
      PROVE  IInv'
  BY <1>2, ReplyStep DEF GetVersion, ListResources, Report, Codes, Ops
<1>3. CASE UNCHANGED vars
  BY <1>3, UnchangedStep DEF vars, Unchanged, IInv, TypeOK
<1>4. QED
  BY <1>1, <1>2, <1>3, TickStep, RenewSliceStep, SliceCallStep DEF Next

-----------------------------------------------------------------------------

(* IInv is an invariant of the manager.                                    *)
THEOREM Inductive == Spec => []IInv
BY InitIInv, NextIInv, PTL DEF Spec

(* Both records of a slice's VMs agree at all times, although deletion     *)
(* empties lists that are not the slice's.                                 *)
THEOREM Agreement == Spec => []CatalogIsSlice
<1>1. IInv => CatalogIsSlice
  BY DEF IInv
<1>2. QED BY <1>1, Inductive, PTL

(* No VM is lost and none is shared, whatever is created and deleted.      *)
THEOREM NoneLost == Spec => []Partition
<1>1. IInv => Partition
  BY DEF IInv
<1>2. QED BY <1>1, Inductive, PTL

(* No sliver's expiration is past its slice's.                             *)
THEOREM SlicesOutliveSlivers == Spec => []NoSliverOutlivesSlice
<1>1. IInv => NoSliverOutlivesSlice
  BY DEF IInv
<1>2. QED BY <1>1, Inductive, PTL

(* What is shut down stays as it is, and stays shut down.                  *)
THEOREM ShutdownIsFinal == Spec => ShutdownHolds
<1>. DEFINE P == \A s \in Slice : (\E r \in Held(s) : status[r] = "shutdown") =>
                   /\ slices'[s] = slices[s]
                   /\ \A r \in Held(s) : status'[r] = "shutdown"
<1>1. ASSUME IInv, [Next]_vars PROVE [P]_vars
  <2>. SUFFICES ASSUME Next, NEW s \in Slice, NEW q \in Held(s), status[q] = "shutdown"
                PROVE  /\ slices'[s] = slices[s]
                       /\ \A r \in Held(s) : status'[r] = "shutdown"
    BY <1>1
  <2>1. Held(s) = Catalog(s) /\ Held(s) \subseteq Resource /\ IsShutdown(s)
        /\ slices[s] # NoSlice /\ \A r \in Held(s) : status[r] = "shutdown"
    BY <1>1, CatalogIsHeld DEF IsShutdown, Held, IInv, StatusFollowsSlice
  <2>2. ASSUME UNCHANGED <<slices, status>>
        PROVE  /\ slices'[s] = slices[s]
               /\ \A r \in Held(s) : status'[r] = "shutdown"
    BY <2>1, <2>2
  <2>3. ASSUME NEW t \in Slice, NEW u \in User, NEW c \in Credentials(t),
               CreateSliver(t, u, c)
        PROVE  /\ slices'[s] = slices[s]
               /\ \A r \in Held(s) : status'[r] = "shutdown"
    <3>1. t # s /\ \E R \in SUBSET available :
            /\ slices' = [slices EXCEPT ![t] = [expiration |-> LeaseEnd(c), resources |-> R]]
            /\ status' = [r \in Resource |-> IF r \in R THEN "ready" ELSE status[r]]
      BY <2>1, <2>3 DEF CreateSliver, Creatable
    <3>2. Held(s) \cap available = {}
      BY <1>1 DEF IInv, Partition
    <3>3. QED BY <1>1, <2>1, <3>1, <3>2 DEF IInv, TypeOK
  <2>4. ASSUME NEW t \in Slice, NEW u \in User, DeleteSliver(t, u)
        PROVE  /\ slices'[s] = slices[s]
               /\ \A r \in Held(s) : status'[r] = "shutdown"
    <3>1. t # s /\ Catalog(t) \cap Held(s) = {}
      BY <1>1, <2>1, <2>4, CatalogIsHeld DEF DeleteSliver, Usable, IInv, Partition
    <3>2. QED BY <1>1, <2>1, <2>4, <3>1 DEF DeleteSliver, IInv, TypeOK
  <2>5. ASSUME NEW t \in Slice, NEW c \in Credentials(t), NEW requested \in RequestTimes,
               NEW alap \in BOOLEAN, RenewSliver(t, c, requested, alap)
        PROVE  /\ slices'[s] = slices[s]
               /\ \A r \in Held(s) : status'[r] = "shutdown"
    <3>1. t # s /\ status' = status
      BY <2>1, <2>5 DEF RenewSliver, Usable
    <3>2. slices'[s] = slices[s]
      BY <1>1, <2>5, <3>1 DEF RenewSliver, IInv, TypeOK
    <3>3. QED BY <2>1, <3>1, <3>2
  <2>6. ASSUME NEW t \in Slice, Shutdown(t)
        PROVE  /\ slices'[s] = slices[s]
               /\ \A r \in Held(s) : status'[r] = "shutdown"
    BY <2>1, <2>6 DEF Shutdown
  <2>7. QED
    BY <2>2, <2>3, <2>4, <2>5, <2>6
    DEF Next, Tick, RenewSlice, Rejected, Report, GetVersion, ListResources, SliverStatus,
        SliceCall, NoSuchSlice, Unavailable,
        CreateSliverRefused, Unchanged
<1>2. QED BY <1>1, Inductive, PTL DEF Spec, ShutdownHolds

-----------------------------------------------------------------------------
(* Version 1. *)

(* What version 1 keeps: a sliver has an expiration and resources, and no  *)
(* two of the slivers and the resources on offer share one.                *)
OneTyped ==
  /\ now \in Nat
  /\ slivers \in [Slice -> {NoSlice} \cup SliceObjects]
  /\ pool \in SUBSET Resource

(* No step of either manager but the clock's changes the clock.            *)
LEMMA ClockTicks ==
  ASSUME Next \/ One!Next
  PROVE  now' = now \/ now' = now + 1
<1>1. CASE Next
  BY <1>1 DEF Next, Tick, RenewSlice, Rejected, Report, GetVersion, ListResources,
     SliverStatus, SliceCall, NoSuchSlice, Unavailable, CreateSliverRefused, Unchanged,
     CreateSliver, DeleteSliver, RenewSliver, Shutdown
<1>2. CASE One!Next
  BY <1>2 DEF One!Next, One!Tick, One!RenewSlice, One!Rejected, One!GetVersion,
     One!ListResources, One!SliverStatus, One!SliceCall, One!NoSuchSlice, One!ReturnedFalse,
     One!CreateSliver, One!CreateSliverTwice, One!CreateSliverRefused, One!DeleteSliver,
     One!RenewSliver, One!Shutdown, One!Unchanged
<1>3. QED BY <1>1, <1>2

(* A step leaves slivers and offer alone, gives resources on offer to a    *)
(* slice that has none, loses some in a refused request, puts back what a  *)
(* slice had, or changes an expiration.                                    *)
LEMMA OneSteps ==
  ASSUME OneTyped, [MCNext]_<<vars, version, slivers, pool, down>>
  PROVE  \/ UNCHANGED <<slivers, pool>>
         \/ \E s \in Slice, R \in SUBSET pool, e \in Time :
              /\ slivers[s] = NoSlice
              /\ slivers' = [slivers EXCEPT ![s] = [expiration |-> e, resources |-> R]]
              /\ pool' = pool \ R
         \/ /\ pool' \in SUBSET pool /\ slivers' = slivers
            /\ reply' = [op |-> "CreateSliver", code |-> "FAULT"]
         \/ \E s \in Slice :
              /\ slivers[s] # NoSlice
              /\ slivers' = [slivers EXCEPT ![s] = NoSlice]
              /\ pool' = pool \cup slivers[s].resources
         \/ \E s \in Slice, e \in Time :
              /\ slivers[s] # NoSlice
              /\ slivers' = [slivers EXCEPT ![s].expiration = e]
              /\ pool' = pool
<1>1. ASSUME NEW s \in Slice, NEW c \in One!Credentials(s), One!CreateSliver(s, c)
      PROVE  \E R \in SUBSET pool, e \in Time :
               /\ slivers[s] = NoSlice
               /\ slivers' = [slivers EXCEPT ![s] = [expiration |-> e, resources |-> R]]
               /\ pool' = pool \ R
  <2>1. PICK R \in SUBSET Resource :
          /\ R \subseteq pool
          /\ slivers' = [slivers EXCEPT ![s] =
                           [resources |-> R, expiration |-> IF c < now + MaxLease THEN c
                                                                     ELSE now + MaxLease]]
          /\ pool' = pool \ R
    BY <1>1 DEF One!CreateSliver, One!Grantable
  <2>2. c \in Time
    BY DEF One!Credentials, One!Time, Time
  <2>3. (IF c < now + MaxLease THEN c ELSE now + MaxLease) \in Time
    BY <2>2, TimesAssumption DEF Time, OneTyped
  <2>4. slivers[s] = NoSlice
    BY <1>1 DEF One!CreateSliver, One!Exists
  <2>5. \A e : [resources |-> R, expiration |-> e] = [expiration |-> e, resources |-> R]
    OBVIOUS
  <2>6. QED BY <2>1, <2>3, <2>4, <2>5
<1>2. ASSUME NEW s \in Slice, NEW c \in One!Credentials(s), NEW t \in RequestTimes,
             One!RenewSliver(s, c, t)
      PROVE  \/ UNCHANGED <<slivers, pool>>
             \/ \E e \in Time : /\ slivers[s] # NoSlice
                                /\ slivers' = [slivers EXCEPT ![s].expiration = e]
                                /\ pool' = pool
  <2>1. t \in Time
    BY TimesAssumption DEF Time
  <2>2. QED BY <1>2, <2>1 DEF One!RenewSliver, One!Exists
<1>3. ASSUME NEW s \in Slice, One!DeleteSliver(s)
      PROVE  /\ slivers[s] # NoSlice
             /\ slivers' = [slivers EXCEPT ![s] = NoSlice]
             /\ pool' = pool \cup slivers[s].resources
  BY <1>3 DEF One!DeleteSliver, One!GivenBack, One!Held, One!Exists
<1>4. ASSUME NEW s \in Slice, One!CreateSliverTwice(s)
      PROVE  /\ pool' \in SUBSET pool /\ slivers' = slivers
             /\ reply' = [op |-> "CreateSliver", code |-> "FAULT"]
  BY <1>4 DEF One!CreateSliverTwice, One!Reply
<1>5. ASSUME NEW s \in Slice, One!SliceCall(s)
      PROVE  \/ UNCHANGED <<slivers, pool>>
             \/ One!CreateSliverTwice(s)
             \/ \E c \in One!Credentials(s) : One!CreateSliver(s, c)
             \/ One!DeleteSliver(s)
             \/ \E c \in One!Credentials(s), t \in RequestTimes : One!RenewSliver(s, c, t)
  BY <1>5 DEF One!SliceCall, One!NoSuchSlice, One!ReturnedFalse, One!SliverStatus,
     One!CreateSliverRefused, One!Shutdown, One!Unchanged
<1>6. CASE UNCHANGED <<slivers, pool>>
  BY <1>6
<1>7. CASE One!Next
  <2>1. UNCHANGED <<slivers, pool>> \/ \E s \in Slice : One!SliceCall(s)
    BY <1>7 DEF One!Next, One!Tick, One!RenewSlice, One!Rejected, One!GetVersion,
       One!ListResources, One!Unchanged
  <2>2. QED BY <2>1, <1>1, <1>2, <1>3, <1>4, <1>5
<1>8. QED BY <1>6, <1>7 DEF MCNext, vars

LEMMA OneTyping == MCSpec => []OneTyped
<1>1. MCInit => OneTyped
  BY DEF MCInit, Init, One!Init, OneTyped
<1>2. OneTyped /\ [MCNext]_<<vars, version, slivers, pool, down>> => OneTyped'
  <2> SUFFICES ASSUME OneTyped, [MCNext]_<<vars, version, slivers, pool, down>>
               PROVE  OneTyped'
    OBVIOUS
  <2>1. now' \in Nat
    BY ClockTicks DEF OneTyped, MCNext, vars
  <2>2. CASE UNCHANGED <<slivers, pool>>
    BY <2>1, <2>2 DEF OneTyped
  <2>3. ASSUME NEW s \in Slice, NEW R \in SUBSET pool, NEW e \in Time,
               slivers' = [slivers EXCEPT ![s] = [expiration |-> e, resources |-> R]],
               pool' = pool \ R
        PROVE  OneTyped'
    BY <2>1, <2>3 DEF OneTyped, SliceObjects
  <2>4. CASE pool' \in SUBSET pool /\ slivers' = slivers
    BY <2>1, <2>4 DEF OneTyped
  <2>5. ASSUME NEW s \in Slice, slivers[s] # NoSlice,
               slivers' = [slivers EXCEPT ![s] = NoSlice],
               pool' = pool \cup slivers[s].resources
        PROVE  OneTyped'
    BY <2>1, <2>5 DEF OneTyped, SliceObjects
  <2>6. ASSUME NEW s \in Slice, NEW e \in Time, slivers[s] # NoSlice,
               slivers' = [slivers EXCEPT ![s].expiration = e], pool' = pool
        PROVE  OneTyped'
    BY <2>1, <2>6 DEF OneTyped, SliceObjects
  <2>7. QED BY <2>2, <2>3, <2>4, <2>5, <2>6, OneSteps
<1>3. QED BY <1>1, <1>2, PTL DEF MCSpec

(* What a slice holds after its sliver has been written, or taken away.    *)
LEMMA OneHolds ==
  ASSUME OneTyped, NEW s \in Slice, NEW t \in Slice
  PROVE  /\ \A R \in SUBSET Resource, e \in Time :
              slivers' = [slivers EXCEPT ![s] = [expiration |-> e, resources |-> R]]
              => One!Held(t)' = IF t = s THEN R ELSE One!Held(t)
         /\ slivers' = [slivers EXCEPT ![s] = NoSlice]
              => One!Held(t)' = IF t = s THEN {} ELSE One!Held(t)
         /\ \A e \in Time :
              slivers[s] # NoSlice /\ slivers' = [slivers EXCEPT ![s].expiration = e]
              => One!Held(t)' = One!Held(t)
<1>1. \A R \in SUBSET Resource, e \in Time : [expiration |-> e, resources |-> R] # NoSlice
  BY NamesAssumption DEF Time
<1>2. ASSUME NEW R \in SUBSET Resource, NEW e \in Time,
             slivers' = [slivers EXCEPT ![s] = [expiration |-> e, resources |-> R]]
      PROVE  One!Held(t)' = IF t = s THEN R ELSE One!Held(t)
  BY <1>1, <1>2 DEF OneTyped, One!Held, One!Exists
<1>3. ASSUME slivers' = [slivers EXCEPT ![s] = NoSlice]
      PROVE  One!Held(t)' = IF t = s THEN {} ELSE One!Held(t)
  BY <1>3 DEF OneTyped, One!Held, One!Exists
<1>4. ASSUME NEW e \in Time, slivers[s] # NoSlice,
             slivers' = [slivers EXCEPT ![s].expiration = e]
      PROVE  One!Held(t)' = One!Held(t)
  <2>1. slivers[s] \in SliceObjects
    BY <1>4 DEF OneTyped
  <2>2. [slivers[s] EXCEPT !.expiration = e]
          = [expiration |-> e, resources |-> slivers[s].resources]
    BY <2>1 DEF SliceObjects
  <2>3. slivers[s].resources \in SUBSET Resource
    BY <2>1 DEF SliceObjects
  <2>4. slivers' = [slivers EXCEPT ![s] = [expiration |-> e, resources |-> slivers[s].resources]]
    BY <1>4, <2>2
  <2>5. One!Held(s) = slivers[s].resources
    BY <1>4 DEF One!Held, One!Exists
  <2>6. QED BY <1>2, <2>3, <2>4, <2>5
<1>5. QED BY <1>2, <1>3, <1>4

(* OneOwner: in version 1 a resource is on offer or in one sliver, never   *)
(* both and never in two, whatever was asked for and lost before.          *)
THEOREM OneOwnerEach == MCSpec => []OneOwner
<1>1. MCInit => OneOwner
  BY DEF MCInit, One!Init, OneOwner, One!OneOwner, One!Held, One!Exists
<1>2. OneTyped /\ OneOwner /\ [MCNext]_<<vars, version, slivers, pool, down>> => OneOwner'
  <2> SUFFICES ASSUME OneTyped, OneOwner,
                      [MCNext]_<<vars, version, slivers, pool, down>>
               PROVE  OneOwner'
    OBVIOUS
  <2>1. \A s \in Slice : /\ One!Held(s) \cap pool = {}
                         /\ \A t \in Slice \ {s} : One!Held(s) \cap One!Held(t) = {}
    BY DEF OneOwner, One!OneOwner
  <2> SUFFICES \A s \in Slice : /\ One!Held(s)' \cap pool' = {}
                                /\ \A t \in Slice \ {s} : One!Held(s)' \cap One!Held(t)' = {}
    BY DEF OneOwner, One!OneOwner
  <2>2. CASE slivers' = slivers /\ pool' \in SUBSET pool
    <3>1. \A t \in Slice : One!Held(t)' = One!Held(t)
      BY <2>2 DEF One!Held, One!Exists
    <3>2. QED BY <2>1, <2>2, <3>1
  <2>3. ASSUME NEW s \in Slice, NEW R \in SUBSET pool, NEW e \in Time,
               slivers' = [slivers EXCEPT ![s] = [expiration |-> e, resources |-> R]],
               pool' = pool \ R
        PROVE  \A u \in Slice : /\ One!Held(u)' \cap pool' = {}
                                /\ \A t \in Slice \ {u} : One!Held(u)' \cap One!Held(t)' = {}
    <3>1. R \in SUBSET Resource
      BY DEF OneTyped
    <3>2. \A t \in Slice : One!Held(t)' = IF t = s THEN R ELSE One!Held(t)
      BY <2>3, <3>1, OneHolds
    <3>3. QED BY <2>1, <2>3, <3>2
  <2>4. ASSUME NEW s \in Slice, slivers[s] # NoSlice,
               slivers' = [slivers EXCEPT ![s] = NoSlice],
               pool' = pool \cup slivers[s].resources
        PROVE  \A u \in Slice : /\ One!Held(u)' \cap pool' = {}
                                /\ \A t \in Slice \ {u} : One!Held(u)' \cap One!Held(t)' = {}
    <3>1. \A t \in Slice : One!Held(t)' = IF t = s THEN {} ELSE One!Held(t)
      BY <2>4, OneHolds
    <3>2. One!Held(s) = slivers[s].resources
      BY <2>4 DEF One!Held, One!Exists
    <3>3. QED BY <2>1, <2>4, <3>1, <3>2
  <2>5. ASSUME NEW s \in Slice, NEW e \in Time, slivers[s] # NoSlice,
               slivers' = [slivers EXCEPT ![s].expiration = e], pool' = pool
        PROVE  \A u \in Slice : /\ One!Held(u)' \cap pool' = {}
                                /\ \A t \in Slice \ {u} : One!Held(u)' \cap One!Held(t)' = {}
    <3>1. \A t \in Slice : One!Held(t)' = One!Held(t)
      BY <2>5, OneHolds
    <3>2. QED BY <2>1, <2>5, <3>1
  <2>6. QED BY <2>2, <2>3, <2>4, <2>5, OneSteps
<1>3. QED BY <1>1, <1>2, OneTyping, PTL DEF MCSpec

(* LostOnlyByDoubleRequest: a resource leaves offer and slivers in a       *)
(* refused CreateSliver only, and what a slice gives back is all it had.   *)
THEOREM OneLosesNone == MCSpec => LostOnlyByDoubleRequest
<1> DEFINE Kept == One!InUse' # One!InUse =>
                     reply' = [op |-> "CreateSliver", code |-> "FAULT"]
<1>1. ASSUME OneTyped, [MCNext]_<<vars, version, slivers, pool, down>>
      PROVE  Kept
  <2>1. CASE UNCHANGED <<slivers, pool>>
    BY <2>1 DEF One!InUse, One!Held, One!Exists
  <2>2. ASSUME NEW s \in Slice, NEW R \in SUBSET pool, NEW e \in Time,
               slivers[s] = NoSlice,
               slivers' = [slivers EXCEPT ![s] = [expiration |-> e, resources |-> R]],
               pool' = pool \ R
        PROVE  Kept
    <3>1. R \in SUBSET Resource
      BY <1>1 DEF OneTyped
    <3>2. \A t \in Slice : One!Held(t)' = IF t = s THEN R ELSE One!Held(t)
      BY <1>1, <2>2, <3>1, OneHolds
    <3>3. One!Held(s) = {}
      BY <2>2 DEF One!Held, One!Exists
    <3>4. One!InUse' = pool' \cup UNION {One!Held(t)' : t \in Slice}
      BY DEF One!InUse
    <3>5. QED BY <2>2, <3>2, <3>3, <3>4 DEF One!InUse
  <2>3. ASSUME NEW s \in Slice, slivers[s] # NoSlice,
               slivers' = [slivers EXCEPT ![s] = NoSlice],
               pool' = pool \cup slivers[s].resources
        PROVE  Kept
    <3>1. \A t \in Slice : One!Held(t)' = IF t = s THEN {} ELSE One!Held(t)
      BY <1>1, <2>3, OneHolds
    <3>2. One!Held(s) = slivers[s].resources
      BY <2>3 DEF One!Held, One!Exists
    <3>3. One!InUse' = pool' \cup UNION {One!Held(t)' : t \in Slice}
      BY DEF One!InUse
    <3>4. QED BY <2>3, <3>1, <3>2, <3>3 DEF One!InUse
  <2>4. ASSUME NEW s \in Slice, NEW e \in Time, slivers[s] # NoSlice,
               slivers' = [slivers EXCEPT ![s].expiration = e], pool' = pool
        PROVE  Kept
    <3>1. \A t \in Slice : One!Held(t)' = One!Held(t)
      BY <1>1, <2>4, OneHolds
    <3>2. One!InUse' = pool' \cup UNION {One!Held(t)' : t \in Slice}
      BY DEF One!InUse
    <3>3. QED BY <2>4, <3>1, <3>2 DEF One!InUse
  <2>5. QED BY <1>1, <2>1, <2>2, <2>3, <2>4, OneSteps
<1>2. ASSUME OneTyped, [MCNext]_<<vars, version, slivers, pool, down>>
      PROVE  [Kept]_(One!vars)
  BY <1>1, <1>2
<1> HIDE DEF Kept
<1>3. MCSpec => [][Kept]_(One!vars)
  BY <1>2, OneTyping, PTL DEF MCSpec
<1>4. QED BY <1>3 DEF Kept, LostOnlyByDoubleRequest, One!LostOnlyByDoubleRequest
=============================================================================
