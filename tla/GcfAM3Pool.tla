----------------------------- MODULE GcfAM3Pool -----------------------------
(***************************************************************************)
(* The reference aggregate manager implements LeasedPool: slices rent fake *)
(* VMs, and are due to return them at the expiration of the sliver.        *)
(***************************************************************************)
EXTENDS GcfAM3

CONSTANT Free   \* the holder of a resource that is in no sliver

ASSUME FreeAssumption == Free \notin Slice

(* The sliver that has a resource; one at most has (LeaseExclusive). *)
Holding(r) == {i \in Live(slivers) : slivers[i].resource = r}

HolderOf(r) ==
  IF Holding(r) = {} THEN Free ELSE slivers[CHOOSE i \in Holding(r) : TRUE].slice

DueOf(r) ==
  IF Holding(r) = {} THEN 0 ELSE slivers[CHOOSE i \in Holding(r) : TRUE].expiration

Pool == INSTANCE LeasedPool
          WITH Owner <- Slice, Item <- Resource, LastTime <- MaxTime,
               clock <- now, limit <- sliceExp,
               holder <- [r \in Resource |-> HolderOf(r)],
               due <- [r \in Resource |-> DueOf(r)]

(* Every behaviour of the aggregate is a behaviour of the pool: a call     *)
(* takes back what is overdue and otherwise touches one slice's VMs only.  *)
ImplementsPool == Pool!Spec
=============================================================================
