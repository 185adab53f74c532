---------------------------- MODULE OmniAnswers ----------------------------
(***************************************************************************)
(* What Omni reads out of an aggregate's answer (amhandler.py), and what   *)
(* an aggregate may answer.                                                *)
(*                                                                         *)
(* An answer has a code and, for each sliver it lists, the allocation      *)
(* state, the expiration (NoTime when it is left out) and whether the      *)
(* sliver carries a geni_error.  Code Silent stands for no answer at all,  *)
(* or one without a return struct.                                         *)
(***************************************************************************)
EXTENDS Integers, FiniteSets

CONSTANTS AM, Sliver, Home, MaxTime

ASSUME AnswersAssumption ==
  /\ Home \in [Sliver -> AM]
  /\ MaxTime \in Nat \ {0}

NoTime == 0
Time == 1..MaxTime

Silent == -1
Success == 0
Failure == 1
SearchFailed == 12
Busy == 14
Expired == 15

\* The codes that mean the slice has nothing at the aggregate.
NothingThere == {SearchFailed, Expired}

States == {"geni_unallocated", "geni_allocated", "geni_provisioned"}

Entry == [alloc : States, exp : {NoTime} \cup Time, err : BOOLEAN]

Answer(c, l) == [code |-> c, list |-> l]
NoAnswer == Answer(Silent, <<>>)

-----------------------------------------------------------------------------
(* Readers of an answer. *)

\* Whether there is a value: the result of an answer with another code is None.
Worked(ans) == ans.code = Success

Gone(ans) == ans.code \in NothingThere

Listed(ans) == IF Worked(ans) THEN DOMAIN ans.list ELSE {}

DidSliversFail(ans) == {s \in Listed(ans) : ans.list[s].err}

\* An answer that lists nothing misses nothing.
FindMissingSlivers(ans, asked) ==
  IF asked = {} \/ Listed(ans) = {} THEN {} ELSE asked \ Listed(ans)

SliversNotIn(ans, expected) == {s \in Listed(ans) : ans.list[s].alloc \notin expected}

\* Fault: a reservation counts too.
Provisioned_allocated(ans) == {s \in Listed(ans) : ans.list[s].alloc # "geni_unallocated"}

Provisioned(ans) == {s \in Listed(ans) : ans.list[s].alloc = "geni_provisioned"}

SliverExpirations(ans) == {ans.list[s].exp : s \in Listed(ans)} \ {NoTime}

\* AM API v2 has one expiration for all, or one for each resource.
StatusExpirations(ans) == SliverExpirations(ans)

\* Whether every sliver asked for is listed and none failed.
Whole(ans, asked) == FindMissingSlivers(ans, asked) = {} /\ DidSliversFail(ans) = {}

-----------------------------------------------------------------------------
(* The aggregates.  at[s] is the state of sliver s and its expiration. *)

Nothing == [alloc |-> "geni_unallocated", exp |-> NoTime]

Present(at, a) == {s \in Sliver : Home[s] = a /\ at[s].alloc # "geni_unallocated"}

Running(at, a) == {s \in Sliver : Home[s] = a /\ at[s].alloc = "geni_provisioned"}

\* A call on slivers T that moves each to new[s], but for those that fail; the
\* answer lists T, with the expirations of some left out.
Change(at, T, new, bad, mute) ==
  [at |-> [s \in Sliver |-> IF s \in T \ bad THEN new[s] ELSE at[s]],
   list |-> [s \in T |->
              [alloc |-> IF s \in bad THEN at[s].alloc ELSE new[s].alloc,
               exp |-> IF s \in mute THEN NoTime
                       ELSE IF s \in bad THEN at[s].exp ELSE new[s].exp,
               err |-> s \in bad]]]

Changes(at, T, new) ==
  {Change(at, T, new, bad, mute) : bad \in SUBSET T, mute \in SUBSET T}

Reads(at, T) == Changes(at, T, at)

\* What comes back for a call with these possible effects: the answer, nothing
\* although it was carried out, or nothing or an error because it was not.  An
\* aggregate without slivers of the slice may say so.
Outcomes(at, effects, nothingThere) ==
  {[at |-> e.at, ans |-> Answer(Success, e.list)] : e \in effects}
  \cup {[at |-> e.at, ans |-> NoAnswer] : e \in effects}
  \cup {[at |-> at, ans |-> NoAnswer], [at |-> at, ans |-> Answer(Failure, <<>>)]}
  \cup {[at |-> at, ans |-> Answer(c, <<>>)] : c \in IF nothingThere THEN NothingThere ELSE {}}
=============================================================================
