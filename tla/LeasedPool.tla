----------------------------- MODULE LeasedPool -----------------------------
(***************************************************************************)
(* What an aggregate promises to those who rent from it, without slivers,  *)
(* states, containers or replies: items are lent to owners until a due     *)
(* time.  Whoever calls, everything overdue is taken back first; a call    *)
(* then acts for one owner only: it lends that owner free items, moves due *)
(* times of that owner's items, or returns some of them.  A due time that  *)
(* a call sets is neither in the past nor beyond the limit of the owner.   *)
(***************************************************************************)
EXTENDS Naturals

CONSTANTS Owner, Item, Free, LastTime

VARIABLES clock, limit, holder, due

pool == <<clock, limit, holder, due>>

Overdue(x) == holder[x] # Free /\ due[x] < clock

(* The holders and due times once everything overdue is back; the due time *)
(* of a free item is 0.                                                    *)
HolderNow(x) == IF Overdue(x) THEN Free ELSE holder[x]
DueNow(x) == IF Overdue(x) THEN 0 ELSE due[x]

Init ==
  /\ clock = 0
  /\ limit = [o \in Owner |-> 0]
  /\ holder = [x \in Item |-> Free]
  /\ due = [x \in Item |-> 0]

Tick ==
  /\ clock' \in clock..LastTime
  /\ UNCHANGED <<limit, holder, due>>

(* An owner is entitled to more time. *)
Extend(o) ==
  /\ \E t \in limit[o]..LastTime : limit' = [limit EXCEPT ![o] = t]
  /\ UNCHANGED <<clock, holder, due>>

(* The items S, free or the owner's own, are the owner's now; their due    *)
(* times are good and all other items are left as they are.                *)
Lend(o, S) ==
  /\ holder' = [x \in Item |-> IF x \in S THEN o ELSE HolderNow(x)]
  /\ due' \in [Item -> 0..LastTime]
  /\ \A x \in Item : IF x \in S THEN clock <= due'[x] /\ due'[x] <= limit[o]
                     ELSE due'[x] = DueNow(x)
  /\ UNCHANGED <<clock, limit>>

Grant(o) == \E S \in SUBSET {x \in Item : HolderNow(x) = Free} : Lend(o, S)

Renew(o) == \E S \in SUBSET {x \in Item : HolderNow(x) = o} : Lend(o, S)

Release(o) ==
  /\ \E S \in SUBSET {x \in Item : HolderNow(x) = o} :
       /\ holder' = [x \in Item |-> IF x \in S THEN Free ELSE HolderNow(x)]
       /\ due' = [x \in Item |-> IF x \in S THEN 0 ELSE DueNow(x)]
  /\ UNCHANGED <<clock, limit>>

Next ==
  \/ Tick
  \/ \E o \in Owner : Extend(o) \/ Grant(o) \/ Renew(o) \/ Release(o)

Spec == Init /\ [][Next]_pool
=============================================================================
