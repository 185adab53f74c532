--------------------------- MODULE SliceRegistry ---------------------------
(***************************************************************************)
(* What a clearinghouse promises about slices.  A slice has one identity   *)
(* (the gid of its certificate) from its creation to its removal; nobody   *)
(* but a caller becomes its owner; it never expires later than the longest *)
(* life from now; and it is removed when it is deleted or has expired.     *)
(***************************************************************************)
EXTENDS Integers

CONSTANTS Urn, User, MaxLife

VARIABLES slices, now

Slices == DOMAIN slices

Others(S) == \A s \in Slices \ S : s \in DOMAIN slices' /\ slices'[s] = slices[s]

Within(e) == e <= now + MaxLife

\* A slice is made, or renewed by u: whoever does it becomes the owner.
Write(u, s) ==
  /\ DOMAIN slices' = Slices \cup {s}
  /\ Others({s})
  /\ slices'[s].owner = u /\ slices'[s].urn = s
  /\ Within(slices'[s].exp)
  /\ IF s \in Slices THEN slices'[s].gid = slices[s].gid
     ELSE \A x \in Slices : slices[x].gid # slices'[s].gid
  /\ now' = now

Remove(s) ==
  /\ s \in Slices
  /\ DOMAIN slices' = Slices \ {s}
  /\ Others({s})
  /\ now' = now

Init == slices = <<>> /\ now \in Nat

\* deleted(s): whether somebody is deleting s.
Next(deleted(_)) ==
  \/ \E u \in User, s \in Urn : Write(u, s)
  \/ \E s \in Slices : Remove(s) /\ (deleted(s) \/ slices[s].exp <= now)
  \/ now' > now /\ UNCHANGED slices
=============================================================================
