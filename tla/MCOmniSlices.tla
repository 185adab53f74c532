---------------------------- MODULE MCOmniSlices ----------------------------
(***************************************************************************)
(* Two users at one clearinghouse, and two slices.                         *)
(***************************************************************************)
EXTENDS OmniSlices, TLC

CONSTANTS alice, bob

MCSymmetry == Permutations({alice, bob})

Site(kind, threaded, needcred) == [kind |-> kind, threaded |-> threaded, needcred |-> needcred]

MCSites == {Site("gcf", FALSE, FALSE), Site("gcf", TRUE, FALSE), Site("pg", TRUE, FALSE),
            Site("chapi", TRUE, FALSE), Site("chapi", TRUE, TRUE), Site("sfa", TRUE, TRUE)}

Do(kind, s, exp, save) == [kind |-> kind, urn |-> s, exp |-> exp, save |-> save]

On1(kinds) == {Do(k, "s1", 0, FALSE) : k \in kinds}

OnSlice ==
  {Do("createslice", "s1", 0, FALSE), Do("getslicecred", "s1", 0, TRUE),
   Do("renewslice", "s1", 2, FALSE)}
  \cup On1({"print_slice_expiration", "deleteslice"})

\* A renewal past the limit, and two slices.
OnSlices ==
  OnSlice \cup {Do("renewslice", "s1", 3, FALSE), Do("createslice", "s2", 0, TRUE),
               Do("listmyslices", "s2", 0, FALSE)}

OnMembers ==
  OnSlice \cup On1({"addslicemember", "removeslicemember", "listslicemembers", "listprojectmembers",
                   "listmyslices", "listmyprojects", "listkeys", "getusercred",
                   "listaggregates", "get_ch_version", "listslivers"})

MCCommands ==
  [gcf |-> OnSlices \cup On1({"listaggregates", "get_ch_version"}),
   pg |-> OnSlice \cup On1({"listmyslices", "listaggregates", "get_ch_version", "listkeys"}),
   chapi |-> OnMembers,
   sfa |-> OnSlice \cup On1({"listmyslices", "listkeys", "listaggregates", "get_ch_version"})]

\* Of a command only the renewal matters once it has begun.
MCView ==
  <<server, authority, plan, file, told, left, had,
    [u \in User |-> [cmd[u] EXCEPT !.kind = IF @ \in {"none", "renewslice"} THEN @ ELSE "other",
                                    !.save = FALSE]]>>
=============================================================================
