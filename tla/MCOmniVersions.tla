--------------------------- MODULE MCOmniVersions ---------------------------
(***************************************************************************)
(* Three URLs, kinds of server that differ in versions and formats, and two *)
(* commands at once.                                                       *)
(***************************************************************************)
EXTENDS OmniVersions, TLC

CONSTANTS u1, u2, u3, old, new

MCOrder == <<u1, u2, u3>>

MCServer == {"speaks2", "both2", "both3", "away", "only3", "only1", "garbled", "down"}
MCDown == "down"

\* "both": another URL of the same aggregate speaks the other version;
\* "away" sends version 2 on to u3.
MCSays ==
  "speaks2" :> Answer(2, 2 :> u1, {old}, old)
  @@ "both2" :> Answer(2, 2 :> u1 @@ 3 :> u2, {old, new}, new)
  @@ "both3" :> Answer(3, 2 :> u1 @@ 3 :> u2, {old, new}, new)
  @@ "away" :> Answer(3, 2 :> u3 @@ 3 :> u2, {new}, new)
  @@ "only3" :> Answer(3, <<>>, {new}, new)
  @@ "only1" :> Answer(1, 1 :> u3, {old}, old)
  @@ "garbled" :> Garbled

MCStarted ==
  {<<"speaks2", "both3", "only1">>, <<"away", "both3", "both3">>}
MCStart == {u1 :> t[1] @@ u2 :> t[2] @@ u3 :> t[3] : t \in MCStarted}

MCReplacement == {"garbled"}

Command(op, named, v, explicit, dev, cache, format) ==
  [op |-> op, named |-> named, version |-> v, explicitVersion |-> explicit, dev |-> dev,
   cache |-> cache, format |-> format, explicitFormat |-> op # "provision",
   ofSlice |-> op # "listresources", bySlice |-> op = "describe", recorded |-> {u2, u3},
   lookup |-> TRUE]

MCLine ==
  "list" :> Command("listresources", {}, 2, FALSE, FALSE, TRUE, new)
  @@ "list, clearinghouse down" :>
       [Command("listresources", {}, 2, FALSE, FALSE, TRUE, new) EXCEPT !.lookup = FALSE]
  @@ "describe" :> Command("describe", {}, 2, TRUE, FALSE, TRUE, new)
  @@ "list one" :> Command("listresources", {u1}, 3, FALSE, FALSE, FALSE, new)
  @@ "create" :> Command("createsliver", {}, 2, FALSE, FALSE, TRUE, new)
  @@ "image" :> Command("createimage", {u1, u2}, 2, FALSE, FALSE, TRUE, new)
  @@ "provision" :> Command("provision", {u1, u3}, 3, FALSE, TRUE, TRUE, new)
MCInvocation == DOMAIN MCLine

MCSymmetry == Permutations(Proc)
=============================================================================
