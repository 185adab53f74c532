---------------------------- MODULE MCGcfAM3Pool ----------------------------
(* Instances of GcfAM3Pool for TLC. *)
EXTENDS GcfAM3Pool, TLC

(* Slices, resources and sliver URNs are interchangeable. *)
Symmetry == Permutations(Slice) \cup Permutations(Resource) \cup Permutations(SliverId)

(* No step depends on the reply to an earlier call. *)
ButReply == <<now, sliceExp, slices, slivers, available, containers>>
=============================================================================
