---------------------------- MODULE GcfAggregate ----------------------------
(***************************************************************************)
(* The bookkeeping object that both reference aggregate managers share     *)
(* (gcf/geni/am/aggregate.py, class Aggregate): a dictionary of named      *)
(* lists of resources.  A name is a slice URN or a user URN.  Nothing here *)
(* is a variable: an operator takes the dictionary and returns the next.   *)
(*                                                                         *)
(* A list is a bag of resources: Python appends duplicates without         *)
(* complaint, list.remove() takes out one occurrence and raises ValueError *)
(* when there is none.  A name that is not a key is NoContainer, which     *)
(* differs from a key whose list is empty: an unknown name makes           *)
(* deallocate() return silently, an empty list makes it raise.             *)
(***************************************************************************)
EXTENDS Naturals

CONSTANTS Resource, Container, NoContainer

EmptyBag == [r \in Resource |-> 0]

Bags == [Resource -> Nat]

BagOf(R) == [r \in Resource |-> IF r \in R THEN 1 ELSE 0]

Dictionaries == [Container -> {NoContainer} \cup Bags]

NoContainers == [k \in Container |-> NoContainer]

(* The occurrences of a resource under a name. *)
Occurs(cs, k, r) == IF cs[k] = NoContainer THEN 0 ELSE cs[k][r]

(* The end of deallocate(): every empty list, whoever owns it, goes. *)
DropEmpty(cs) ==
  [k \in Container |-> IF cs[k] = EmptyBag THEN NoContainer ELSE cs[k]]

(* allocate(): the list is created on demand, then extended. *)
AllocateIn(cs, k, bag) ==
  [cs EXCEPT ![k] = [r \in Resource |-> Occurs(cs, k, r) + bag[r]]]

(* Taking out part of a list, one occurrence at a time. *)
RemoveFrom(cs, k, bag) ==
  [cs EXCEPT ![k] = [r \in Resource |-> cs[k][r] - bag[r]]]

(* Fault: remove() of a missing resource goes unnoticed. *)
CanDeallocate_unchecked(cs, k, bag) == TRUE

(* deallocate(k, resources) gets through its list without a ValueError. *)
CanDeallocate(cs, k, bag) ==
  cs[k] # NoContainer => \A r \in Resource : bag[r] <= cs[k][r]

DeallocateFrom(cs, k, bag) ==
  IF cs[k] = NoContainer THEN cs ELSE DropEmpty(RemoveFrom(cs, k, bag))

(* Fault: the list stays. *)
DeallocateAll_keeps(cs, k) == cs

(* deallocate(k, None): everything under one name. *)
DeallocateAll(cs, k) ==
  IF cs[k] = NoContainer THEN cs ELSE DropEmpty([cs EXCEPT ![k] = EmptyBag])

(* What list.remove() may have taken out when it raises: the resources     *)
(* that preceded, in some order of the request, one that is missing.  The  *)
(* clean-up of empty lists is not reached.                                 *)
InterruptedDeallocate(cs, k, bag) ==
  {RemoveFrom(cs, k, part) :
     part \in {p \in [Resource -> 0..2] :
                 /\ \A r \in Resource : p[r] <= bag[r] /\ p[r] <= cs[k][r]
                 /\ \E r \in Resource : p[r] < bag[r] /\ p[r] = cs[k][r]}}

(* FakeVM.deprovision() of each resource of R: deallocate(None, [r]) takes *)
(* one occurrence out of every list that has one.                          *)
Deprovision(cs, R) ==
  IF R = {} THEN cs
  ELSE DropEmpty(
         [k \in Container |->
            IF cs[k] = NoContainer THEN NoContainer
            ELSE [r \in Resource |->
                    IF r \in R /\ cs[k][r] > 0 THEN cs[k][r] - 1 ELSE cs[k][r]]])
=============================================================================
