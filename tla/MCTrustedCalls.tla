--------------------------- MODULE MCTrustedCalls ---------------------------
(***************************************************************************)
(* Two authorities that trust each other.  One has an authority of a       *)
(* project below it, with a slice; each has a user.                        *)
(***************************************************************************)
EXTENDS TrustedCalls

MCGid == {"geni", "proj", "slice", "alice", "far", "farslice", "bob"}

MCHrn == [geni |-> <<"geni">>, proj |-> <<"geni", "proj">>,
          slice |-> <<"geni", "proj", "slice">>, alice |-> <<"geni", "alice">>,
          far |-> <<"far">>, farslice |-> <<"far", "slice">>, bob |-> <<"far", "bob">>]

MCSignedBy == [geni |-> "geni", proj |-> "geni", slice |-> "proj", alice |-> "geni",
               far |-> "far", farslice |-> "far", bob |-> "far"]

MCPresents == [geni |-> <<"geni">>, proj |-> <<"proj", "geni">>,
               slice |-> <<"slice", "proj">>, alice |-> <<"alice", "geni">>,
               far |-> <<"far">>, farslice |-> <<"farslice">>, bob |-> <<"bob">>]

MCCertEnd == [g \in MCGid |-> MaxTime]

MCForeignRights ==
  {{Right("control", TRUE)}, {Right("authority", TRUE)}}
=============================================================================
