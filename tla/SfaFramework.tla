---------------------------- MODULE SfaFramework ----------------------------
(***************************************************************************)
(* The framework sfa of Omni (framework_sfa.py) and the registry it calls, *)
(* which is not part of this code.  The registry keeps the table of slices *)
(* and their researchers as the slice authority of ChapiFramework does,    *)
(* and forgets a slice that is removed.                                    *)
(***************************************************************************)
EXTENDS ChapiFramework

RegistryRemove(u) ==
  LET s == call[u].urn IN
  /\ site.kind = "sfa"
  /\ IF Has(s)
     THEN Serves(u, "sa remove", Yes(NoCred)) /\ slices' = Without(s) /\ members' = [members EXCEPT ![s] = {}]
     ELSE Serves(u, "sa remove", No) /\ UNCHANGED <<slices, members>>
  /\ UNCHANGED <<site, now, gids>>

-----------------------------------------------------------------------------
(* The framework's calls, with two purposes more: when what is "once" asked *)
(* for is not got, the next call is left out, and with what is got "if any" *)
(* the command is done.                                                     *)

\* get_user_cred: no call is made without a user credential.
SfaUserCred(for) == <<Op("usercred", for)>>

\* The credential of the authority, which only its head gets.
SfaAuthority == Op("ask", "need")

SfaSliceCred(without, for) == Append(SfaUserCred(without), Op("sa credential", for))

\* create_slice: a slice whose credential can be got is there already; otherwise it is
\* registered, and whatever comes of that, its credential is asked for once more.
SfaCreateSlice(for, ifAny) ==
  SfaSliceCred("once", ifAny)
  \o SfaUserCred("need") \o <<SfaAuthority, Op("sa create", "show")>>
  \o SfaSliceCred("need", for)

\* renew_slice reads the record, sends it back changed and reads it again.
SfaRenewSlice ==
  SfaSliceCred("cred", "cred") \o <<Op("sa lookup", "cred"), Op("sa update", "renew")>>
SfaRenewedUntil == <<Op("sa lookup", "confirm")>>

\* delete_slice: a slice that is not found counts as deleted.
SfaDeleteSlice ==
  SfaUserCred("need") \o <<SfaAuthority, Op("sa lookup", "find"), Op("sa remove", "show")>>

\* list_my_slices, list_ssh_keys: the record of the user.
SfaListMySlices == Append(SfaUserCred("need"), Op("ask", "show"))
SfaListKeys == Append(SfaUserCred("need"), Op("ask", "show"))

\* list_aggregates: what the slice manager says in its version.
SfaListAggregates == Append(SfaUserCred("need"), Op("ask", "show"))

SfaVersion == <<Op("ask", "show")>>
=============================================================================
