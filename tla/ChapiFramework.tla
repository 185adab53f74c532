--------------------------- MODULE ChapiFramework ---------------------------
(***************************************************************************)
(* The framework chapi of Omni (framework_chapi.py) and the services it    *)
(* calls: a slice authority and a member authority of the Federation API,  *)
(* which are not part of this code.  The table of slices is that of module *)
(* Clearinghouse; here each slice has members, and only they get its       *)
(* credential.                                                             *)
(***************************************************************************)
EXTENDS Clearinghouse, SequencesExt

VARIABLES
  members,  \* URN -> the members of the slice
  usercred  \* the users whose framework has a user credential by now

authority == <<members, usercred>>

AuthorityInit ==
  /\ members = [s \in Urn |-> {}]
  /\ usercred = {}

-----------------------------------------------------------------------------
(* The services.  Each call is carried out at once.                         *)

Live(s) == Has(s) /\ slices[s].exp > now

\* A call of u that takes one step and answers a.
Serves(u, op, a) == At(u, op, "look") /\ Done(u, a)

Exists == [kind |-> "exists", cred |-> NoCred]
Nothing == [kind |-> "nothing", cred |-> NoCred]
AllOf(S) == [kind |-> "yes", cred |-> NoCred, size |-> Cardinality(S)]

MayUse(u, s) == Live(s) /\ u \in members[s]

\* The name of a slice is free again once that has expired.
SaCreate(u) ==
  LET s == call[u].urn
      c == Cred(s, gids + 1, u, now + CredLife)
  IN
  \/ /\ Live(s)
     /\ Serves(u, "sa create", Exists)
     /\ UNCHANGED <<slices, gids, members>>
  \/ /\ ~Live(s) /\ gids < MaxGids
     /\ Serves(u, "sa create", Yes(c))
     /\ gids' = gids + 1
     /\ slices' = Put(s, c)
     /\ members' = [members EXCEPT ![s] = {u}]

SaUpdate(u) ==
  LET c == call[u] IN
  \/ /\ MayUse(u, c.urn) /\ c.exp >= now /\ c.exp <= now + MaxLife
     /\ Serves(u, "sa update", Yes(NoCred))
     /\ slices' = [slices EXCEPT ![c.urn].exp = c.exp]
     /\ UNCHANGED <<gids, members>>
  \/ /\ ~(MayUse(u, c.urn) /\ c.exp >= now /\ c.exp <= now + MaxLife)
     /\ Serves(u, "sa update", No)
     /\ UNCHANGED <<slices, gids, members>>

\* Somebody becomes a member, or a member leaves.
SaMembership(u) ==
  LET s == call[u].urn IN
  \/ /\ ~MayUse(u, s)
     /\ Serves(u, "sa membership", No)
     /\ UNCHANGED <<slices, gids, members>>
  \/ /\ MayUse(u, s)
     /\ Serves(u, "sa membership", Yes(NoCred))
     /\ \E v \in User : members' = [members EXCEPT ![s] = @ \cup {v}] \/ members' = [members EXCEPT ![s] = @ \ {v}]
     /\ UNCHANGED <<slices, gids>>

\* What only reads: the credential of a slice, its expiration, its members, and
\* what is known about users and projects.
SaRead(u) ==
  LET s == call[u].urn IN
  /\ \/ Serves(u, "sa credential", IF MayUse(u, s) THEN Yes(slices[s]) ELSE No)
     \/ Serves(u, "sa lookup", IF Live(s) THEN Yes(slices[s]) ELSE No)
     \/ Serves(u, "sa members", IF MayUse(u, s) THEN AllOf(members[s]) ELSE No)
     \/ \E S \in SUBSET User : Serves(u, "project members", AllOf(S))
     \/ \E a \in {Yes(NoCred), No, Nothing} : Serves(u, "email", a)
     \/ \E a \in {Yes(NoCred), No} : Serves(u, "ask", a)
  /\ UNCHANGED <<slices, gids, members>>

ServeAuthority(u) ==
  /\ site.kind \in {"chapi", "sfa"}
  /\ SaCreate(u) \/ SaUpdate(u) \/ SaMembership(u) \/ SaRead(u)
  /\ UNCHANGED <<site, now>>

-----------------------------------------------------------------------------
(* The framework's calls.  A call has an operation and a purpose: "find"    *)
(* must find the slice, "look" may not; without what "need" gets the        *)
(* command is over, without what "cred" gets only the renewal is.           *)

Op(op, for) == [op |-> op, for |-> for]

\* get_user_cred: only if the configuration says that calls need it, and they are
\* made without it if there is none.
ChapiUserCred == IF site.needcred THEN <<Op("usercred", "show")>> ELSE <<>>

\* get_slice_cred.
ChapiSliceCred(for) == Append(ChapiUserCred, Op("sa credential", for))

\* Changes of a slice need a credential of it.
ChapiProof(for) == IF site.needcred THEN ChapiSliceCred(for) ELSE <<>>

\* create_slice: that there is a slice of this name already is no error, and the
\* credential is that of the slice there is.
ChapiCreateSlice(for) == ChapiUserCred \o <<Op("sa create", "made"), Op("sa credential", for)>>

\* renew_slice, which ends with a lookup of what came of it (get_slice_expiration).
ChapiRenewSlice == Append(ChapiProof("cred"), Op("sa update", "renew"))
ChapiRenewedUntil == Append(ChapiUserCred, Op("sa lookup", "told"))

\* delete_slice: there is no such call.
ChapiDeleteSlice == Append(ChapiUserCred, Op("sa lookup", "show"))

ChapiListMySlices == Append(ChapiUserCred, Op("ask", "show"))
ChapiListMyProjects == Append(ChapiUserCred, Op("ask", "show"))
ChapiListKeys == Append(ChapiUserCred, Op("ask", "show"))

\* get_version: of the three services, whatever each of them answers.
ChapiVersion == <<Op("ask", "show"), Op("ask", "show"), Op("ask", "show")>>
ChapiListAggregates == <<Op("ask", "show")>>

\* list_sliver_infos_for_slice: nothing is asked about a slice without expiration.
ChapiListSlivers ==
  ChapiProof("show") \o ChapiUserCred \o <<Op("sa lookup", "find"), Op("ask", "show")>>

\* add_member_to_slice, remove_member_from_slice.
ChapiMembership == Append(ChapiProof("need"), Op("sa membership", "show"))

\* get_members_of_slice, then _get_member_email and _get_member_keys of each;
\* get_members_of_project, then _get_member_email.
ChapiListMembers ==
  ChapiProof("need") \o ChapiUserCred \o <<Op("sa lookup", "find"), Op("sa members", "each")>>
ChapiListProjectMembers == Append(ChapiUserCred, Op("project members", "each"))

ChapiMember == Append(ChapiUserCred, Op("email", "email"))
ChapiMemberKeys == Append(ChapiUserCred, Op("ask", "show"))
ChapiMembers(of, n) ==
  LET each == IF of = "sa members" THEN ChapiMember \o ChapiMemberKeys ELSE ChapiMember
      k == Len(each)
  IN [i \in 1..(n * k) |-> each[1 + ((i - 1) % k)]]

=============================================================================
