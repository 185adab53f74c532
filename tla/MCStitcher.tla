----------------------------- MODULE MCStitcher -----------------------------
(* Instances of Stitcher for TLC: a left and a right aggregate with an end   *)
(* of the link each, and one between them that has two hops.                 *)
EXTENDS Stitcher, TLC

CONSTANTS left, middle, right, hl, h1, h2, hr

MCOwner == hl :> left @@ h1 :> middle @@ h2 :> middle @@ hr :> right

AllTags == [h \in Hop |-> Tag]

\* The software at the left, in the middle and at the right.
CircuitKind == left :> "eg" @@ middle :> "pg" @@ right :> "dcn"
EndsKind == left :> "pg" @@ middle :> "oess" @@ right :> "gram"
TagsKind == left :> "sfa" @@ middle :> "pg" @@ right :> "sfa"

\* The ends import the tags of the middle.
FromMiddle ==
  [hops |-> Hop,
   from |-> hl :> h1 @@ h1 :> NoHop @@ h2 :> NoHop @@ hr :> h2,
   needs |-> hl :> {h1} @@ h1 :> {} @@ h2 :> {} @@ hr :> {h2},
   deps |-> left :> {middle} @@ middle :> {} @@ right :> {middle}]

\* The tag is handed on from left to right.
FromLeft ==
  [hops |-> Hop,
   from |-> hl :> NoHop @@ h1 :> hl @@ h2 :> hl @@ hr :> h2,
   needs |-> hl :> {} @@ h1 :> {hl} @@ h2 :> {hl} @@ hr :> {h2},
   deps |-> left :> {} @@ middle :> {left} @@ right :> {middle, left}]

\* The middle imports one tag from each end.
FromEnds ==
  [hops |-> Hop,
   from |-> hl :> NoHop @@ h1 :> hl @@ h2 :> hr @@ hr :> NoHop,
   needs |-> hl :> {} @@ h1 :> {hl} @@ h2 :> {hr} @@ hr :> {},
   deps |-> left :> {} @@ middle :> {left, right} @@ right :> {}]

\* The path service knows a way past the middle.
Direct ==
  [hops |-> {hl, hr},
   from |-> hl :> NoHop @@ hr :> hl,
   needs |-> hl :> {} @@ hr :> {hl},
   deps |-> left :> {} @@ right :> {left}]

MiddleFirst == {FromMiddle}
AnyOrder == {FromMiddle, FromLeft, FromEnds, Direct}
NoOptions == {{}}
StopEarly == {{}, {"noDeleteAtEnd"}, {"noDeleteAtEnd", "noTransitAMs"}}

Symmetry == Permutations(Tag)

=============================================================================
