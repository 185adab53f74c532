---------------------------- MODULE OmniSlices ----------------------------
(***************************************************************************)
(* Omni's slice commands (chhandler.py) through the frameworks gcf and     *)
(* pgch, against the clearinghouse of module Clearinghouse, and through    *)
(* chapi and sfa.                                                          *)
(*                                                                         *)
(* A command is a series of calls.  Each is made when the one before is    *)
(* answered, and what the command does next depends on the answer.  An     *)
(* answer may never come.  Each user has one file for a slice credential   *)
(* (--slicecredfile), read by some commands and written by others.         *)
(***************************************************************************)
EXTENDS SfaFramework

CONSTANTS
  Commands,    \* for each kind of clearinghouse, the commands users may give:
               \* [kind, urn, exp, save]
  MaxCommands, \* bound of the commands
  MaxLost      \* bound of the calls that go unanswered

Kinds ==
  {"createslice", "renewslice", "deleteslice", "listmyslices", "getslicecred",
   "print_slice_expiration", "getusercred", "listmyprojects", "listkeys", "listaggregates",
   "get_ch_version", "listslivers", "listprojectmembers", "listslicemembers",
   "addslicemember", "removeslicemember"}

ASSUME SlicesAssumption ==
  /\ MaxCommands \in Nat /\ MaxLost \in Nat
  /\ IsFiniteSet(User)
  /\ \A t \in Sites :
       Commands[t.kind] \subseteq [kind : Kinds, urn : Urn, exp : Nat, save : BOOLEAN]

VARIABLES
  cmd,   \* the command of each user
  plan,  \* the calls it still means to make, the one under way first
  file,  \* the slice credential file of each user
  told,  \* the expiration renewslice reports
  left,  \* commands and losses still allowed
  had    \* what the clearinghouse has held for the slice since the command began

omni == <<cmd, plan, file, told, left, had>>
vars == <<server, authority, omni>>

NoCommand == [kind |-> "none", urn |-> "none", exp |-> 0, save |-> FALSE]
NoTime == -1

Init ==
  /\ ServerInit /\ AuthorityInit
  /\ cmd = [u \in User |-> NoCommand]
  /\ plan = [u \in User |-> <<>>]
  /\ file = [u \in User |-> NoCred]
  /\ told = [u \in User |-> NoTime]
  /\ left = [commands |-> MaxCommands, lost |-> MaxLost]
  /\ had = [u \in User |-> {}]

-----------------------------------------------------------------------------
(* The calls of a command. *)

\* pgch: GetCredential of a slice, like Register, is CreateSlice.
GetCredential(for) == Op("create", for)
Register(for) == Op("create", for)
\* pgch: what Resolve of a user does is ListMySlices.
ResolveUser(for) == Op("list", for)

\* _maybe_save_slicecred, with -o.
Kept(c) == IF c.save THEN "save" ELSE "show"
IfAny(for) == IF for = "save" THEN "save if any" ELSE "show if any"

\* The frameworks: get_user_cred, get_slice_cred, create_slice, renew_slice,
\* delete_slice, which pgch never does, and list_my_slices.
GetUserCred(for) == Op("usercred", for)

GetSliceCred(for) ==
  CASE site.kind = "gcf" -> <<Op("create", for)>>
    [] site.kind = "pg" -> <<GetUserCred("need"), Op("resolve", "find"), GetCredential(for)>>
    [] site.kind = "chapi" -> ChapiSliceCred(for)
    [] site.kind = "sfa" -> SfaSliceCred("need", for)

\* What follows a resolved slice depends on the answer, not what it does here.
CreateSlice(for) ==
  CASE site.kind = "gcf" -> <<Op("create", for)>>
    [] site.kind = "pg" -> <<GetUserCred("need"), Op("resolve", "look"), Register(for)>>
    [] site.kind = "chapi" -> ChapiCreateSlice(for)
    [] site.kind = "sfa" -> SfaCreateSlice(for, IfAny(for))

RenewSlice ==
  CASE site.kind = "gcf" -> <<Op("renew", "renew")>>
    [] site.kind = "pg" -> <<GetUserCred("cred"), GetCredential("cred"), Op("renew at pgch", "renew")>>
    [] site.kind = "chapi" -> ChapiRenewSlice
    [] site.kind = "sfa" -> SfaRenewSlice

\* gcf: the credential is got to report what it says.
RenewedUntil ==
  CASE site.kind \in {"gcf", "pg"} -> <<Op("create", "told")>>
    [] site.kind = "chapi" -> ChapiRenewedUntil
    [] site.kind = "sfa" -> SfaRenewedUntil

DeleteSlice ==
  CASE site.kind = "gcf" -> <<Op("delete", "show")>>
    [] site.kind = "pg" -> <<GetUserCred("need"), GetCredential("show")>>
    [] site.kind = "chapi" -> ChapiDeleteSlice
    [] site.kind = "sfa" -> SfaDeleteSlice

ListMySlices ==
  CASE site.kind = "gcf" -> <<Op("list", "show")>>
    [] site.kind = "pg" -> <<GetUserCred("need"), ResolveUser("show")>>
    [] site.kind = "chapi" -> ChapiListMySlices
    [] site.kind = "sfa" -> SfaListMySlices

\* Keys, aggregates and versions; gcf has no keys.
ListKeys ==
  CASE site.kind = "gcf" -> <<>>
    [] site.kind = "pg" -> <<GetUserCred("need"), Op("keys", "show")>>
    [] site.kind = "chapi" -> ChapiListKeys
    [] site.kind = "sfa" -> SfaListKeys

FrameworkAggregates ==
  CASE site.kind = "gcf" -> <<Op("aggregates", "show")>>
    [] site.kind = "pg" -> <<GetUserCred("need"), Op("aggregates", "show")>>
    [] site.kind = "chapi" -> ChapiListAggregates
    [] site.kind = "sfa" -> SfaListAggregates

FrameworkVersion ==
  CASE site.kind \in {"gcf", "pg"} -> <<Op("version", "show")>>
    [] site.kind = "chapi" -> ChapiVersion
    [] site.kind = "sfa" -> SfaVersion

\* The other frameworks have no members, no projects and no records of slivers.
OnlyAtChapi(calls) == IF site.kind = "chapi" THEN calls ELSE <<>>

\* _print_slice_expiration: a credential in the file spares the calls; if it is
\* for another slice, nothing is printed.
PrintExpiration(u) == IF file[u] # NoCred THEN <<>> ELSE GetSliceCred("show")

\* The second half of renewslice: a credential in a file is replaced.
Renewed(u) ==
  RenewedUntil
  \o (IF file[u] # NoCred THEN GetSliceCred("save") ELSE <<>>)
  \o PrintExpiration(u)


\* The commands.  print_slice_expiration uses a credential in the file if it is
\* for the slice named; getslicecred ignores it.
createslice(c) == CreateSlice(Kept(c))
renewslice == RenewSlice
deleteslice == DeleteSlice
listmyslices == ListMySlices
getslicecred(c) == GetSliceCred(Kept(c))
print_slice_expiration(u, c) == IF file[u].urn = c.urn THEN <<>> ELSE GetSliceCred("show")

getusercred == IF site.kind = "chapi" THEN ChapiUserCred ELSE <<GetUserCred("show")>>
listkeys == ListKeys
listaggregates == FrameworkAggregates
get_ch_version == FrameworkVersion
listslivers == OnlyAtChapi(ChapiListSlivers)
listmyprojects == OnlyAtChapi(ChapiListMyProjects)
listprojectmembers == OnlyAtChapi(ChapiListProjectMembers)
listslicemembers == OnlyAtChapi(ChapiListMembers)
addslicemember == OnlyAtChapi(ChapiMembership)
removeslicemember == OnlyAtChapi(ChapiMembership)

CallsOf(u, c) ==
  CASE c.kind = "createslice" -> createslice(c)
    [] c.kind = "renewslice" -> renewslice
    [] c.kind = "deleteslice" -> deleteslice
    [] c.kind = "listmyslices" -> listmyslices
    [] c.kind = "getslicecred" -> getslicecred(c)
    [] c.kind = "print_slice_expiration" -> print_slice_expiration(u, c)
    [] c.kind = "getusercred" -> getusercred
    [] c.kind = "listmyprojects" -> listmyprojects
    [] c.kind = "listkeys" -> listkeys
    [] c.kind = "listaggregates" -> listaggregates
    [] c.kind = "get_ch_version" -> get_ch_version
    [] c.kind = "listslivers" -> listslivers
    [] c.kind = "listprojectmembers" -> listprojectmembers
    [] c.kind = "listslicemembers" -> listslicemembers
    [] c.kind = "addslicemember" -> addslicemember
    [] c.kind = "removeslicemember" -> removeslicemember

Sent(c, p) == [op |-> p.op, urn |-> c.urn, exp |-> c.exp, pc |-> "look", seen |-> NoCred, left |-> {}]

\* What to do after the call for p was answered a: the calls that follow.
Then(u, p, a, rest) ==
  CASE p.for = "renew" -> IF a.kind = "yes" THEN Renewed(u) ELSE PrintExpiration(u)
    [] p.for \in {"cred", "confirm"} /\ a.kind # "yes" -> PrintExpiration(u)
    [] p.for = "once" /\ a.kind # "yes" -> Tail(rest)
    [] p.for \in {"save if any", "show if any"} /\ a.kind = "yes" -> <<>>
    [] p.for \in {"need", "find"} /\ a.kind # "yes" -> <<>>
    [] p.for = "look" /\ a.kind = "lost" -> <<>>
    [] p.for = "made" /\ a.kind \notin {"yes", "exists"} -> <<>>
    [] p.for = "each" -> IF a.kind = "yes" THEN ChapiMembers(p.op, a.size) ELSE <<>>
    [] p.for = "email" /\ a.kind = "nothing" -> <<>>
    [] OTHER -> rest

\* The framework asks for a user credential only once: what comes next is the first
\* call for something else.
HasUserCred(u) == u \in usercred \/ (plan[u][1].op = "usercred" /\ answer[u].kind = "yes")
Needed(u, calls) ==
  LET next == SelectInSeq(calls, LAMBDA p : p.op # "usercred") IN
  IF ~HasUserCred(u) THEN calls
  ELSE IF next = 0 THEN <<>> ELSE SubSeq(calls, next, Len(calls))

-----------------------------------------------------------------------------
Begin(u) ==
  /\ cmd[u] = NoCommand
  /\ left.commands > 0
  /\ left' = [left EXCEPT !.commands = @ - 1]
  /\ \E c \in Commands[site.kind] :
       LET calls == CallsOf(u, c) IN
       /\ calls # <<>>
       /\ cmd' = [cmd EXCEPT ![u] = c]
       /\ plan' = [plan EXCEPT ![u] = calls]
       /\ call' = [call EXCEPT ![u] = Sent(c, calls[1])]
       /\ had' = [had EXCEPT ![u] = {slices[s] : s \in DOMAIN slices \cap {c.urn}}]
  /\ UNCHANGED <<site, slices, gids, now, answer, authority, file, told>>

\* Fault: what was asked for is reported, whatever the credential says.
Tells_asked(u, p, a) ==
  told' = [told EXCEPT ![u] = IF p.for = "renew" THEN cmd[u].exp ELSE @]

\* The expiration renewslice reports is the credential's, or the one asked for
\* when no credential could be got.
Tells(u, p, a) ==
  told' = [told EXCEPT ![u] =
             IF p.for \notin {"told", "confirm"} THEN @
             ELSE IF a.kind = "yes" THEN a.cred.exp ELSE cmd[u].exp]

\* Fault: the file is written without a look at the answer.
Saves_unchecked(u, p, a) ==
  file' = [file EXCEPT ![u] = IF p.for \in {"save", "save if any"} THEN a.cred ELSE @]

Saves(u, p, a) ==
  file' = [file EXCEPT ![u] = IF p.for \in {"save", "save if any"} /\ a.kind = "yes" THEN a.cred ELSE @]

\* The answer to the call under way.
Handle(u) ==
  LET p == plan[u][1]
      a == answer[u]
      rest == Needed(u, Then(u, p, a, Tail(plan[u])))
  IN
  /\ a # NoAnswer
  /\ IF rest = <<>> THEN told' = [told EXCEPT ![u] = NoTime] ELSE Tells(u, p, a)
  /\ Saves(u, p, a)
  /\ plan' = [plan EXCEPT ![u] = rest]
  /\ cmd' = [cmd EXCEPT ![u] = IF rest = <<>> THEN NoCommand ELSE @]
  /\ call' = [call EXCEPT ![u] = IF rest = <<>> THEN NoCall ELSE Sent(cmd[u], rest[1])]
  /\ answer' = [answer EXCEPT ![u] = NoAnswer]
  /\ had' = [had EXCEPT ![u] = IF rest = <<>> THEN {} ELSE @]
  /\ usercred' = IF rest # <<>> /\ HasUserCred(u) THEN usercred \cup {u} ELSE usercred \ {u}
  /\ UNCHANGED <<site, slices, gids, now, members, left>>

\* A call fails on its way, or its answer does.
Lose(u) ==
  /\ left.lost > 0
  /\ call[u].pc = "look" \/ answer[u] \notin {NoAnswer, Lost}
  /\ left' = [left EXCEPT !.lost = @ - 1]
  /\ call' = [call EXCEPT ![u] = NoCall]
  /\ answer' = [answer EXCEPT ![u] = Lost]
  /\ UNCHANGED <<site, slices, gids, now, authority, cmd, plan, file, told, had>>

\* What a step of the clearinghouse adds to what the commands may report.
Noted ==
  had' = [u \in User |->
            IF cmd[u] = NoCommand THEN {}
            ELSE had[u] \cup {slices'[s] : s \in DOMAIN slices' \cap {cmd[u].urn}}]

Served(u) ==
  /\ \/ Serve(u) /\ UNCHANGED members
     \/ ServeAuthority(u)
     \/ RegistryRemove(u)
  /\ Noted
  /\ UNCHANGED <<usercred, cmd, plan, file, told, left>>

Next ==
  \/ \E u \in User : Begin(u) \/ Handle(u) \/ Lose(u) \/ Served(u)
  \/ Tick /\ UNCHANGED <<authority, omni>>

\* The clearinghouse works at every call, and Omni at every answer.
Spec ==
  /\ Init /\ [][Next]_vars
  /\ \A u \in User :
       /\ WF_vars(Handle(u))
       /\ WF_vars(Served(u))

-----------------------------------------------------------------------------
(* Properties. *)

\* The tables are well formed: a slice is filed under its own URN, its gid is one
\* that was made, no two slices share one, and it never expires too late.
TypeOK ==
  /\ \A s \in DOMAIN slices :
       /\ s \in Urn /\ slices[s].urn = s
       /\ slices[s].gid \in 1..gids /\ slices[s].owner \in User
       /\ slices[s].exp <= now + MaxLife
       /\ \A x \in DOMAIN slices \ {s} : slices[x].gid # slices[s].gid
  /\ \A u \in User :
       /\ cmd[u] = NoCommand <=> plan[u] = <<>>
       /\ cmd[u] # NoCommand => (call[u] # NoCall) # (answer[u] # NoAnswer)

\* The expiration renewslice reports is one the clearinghouse gave the slice
\* while the command ran, although others renew, delete and re-create it and
\* answers are lost.
ReportsWhatWas ==
  \A u \in User : cmd[u].kind = "renewslice" /\ told[u] # NoTime =>
                    \E c \in had[u] : c.exp = told[u]

\* A credential that replaces the one in the file is one the clearinghouse held
\* for the slice of the command while the command ran.
SavedIsCurrent ==
  [][\A u \in User : file'[u] # file[u] => file'[u] \in had[u]]_vars
=============================================================================
