------------------------------ MODULE MCGcfAM2 ------------------------------
(* The two older aggregate managers for TLC: gcf-am.py starts one of them. *)
EXTENDS GcfAM2, TLC

VARIABLES
  version,              \* the option api_version
  slivers, pool, down   \* the state of the version 1 manager

One == INSTANCE GcfAM1

MCInit == Init /\ One!Init /\ version \in {1, 2}

MCNext ==
  \/ /\ version = 2
     /\ Next
     /\ UNCHANGED <<version, slivers, pool, down>>
  \/ /\ version = 1
     /\ One!Next
     /\ UNCHANGED <<version, slices, available, status, containers>>

MCSpec == MCInit /\ [][MCNext]_<<vars, version, slivers, pool, down>>

(* What GcfAM1 says of its resources: one owner each, and none is lost but *)
(* by a request that names one twice.                                      *)
OneOwner == One!OneOwner
LostOnlyByDoubleRequest == One!LostOnlyByDoubleRequest

(* Slices, users and resources are interchangeable. *)
Symmetry ==
  Permutations(Slice) \cup Permutations(User) \cup Permutations(Resource)

(* No step depends on the reply to an earlier call. *)
ButReply == <<now, sliceExp, slices, available, status, containers,
              version, slivers, pool, down>>
=============================================================================
