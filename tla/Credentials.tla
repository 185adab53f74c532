---------------------------- MODULE Credentials ----------------------------
(***************************************************************************)
(* Certificates, credentials and statements, and when they are believed:   *)
(* gcf/sfa/trust (certificate, gid, rights, credential, abac_credential)   *)
(* and gcf/geni/util (cred_util, speaksfor_util).                          *)
(*                                                                         *)
(* A certificate is a name; what it says is in the constants.  A credential *)
(* is the sequence of its delegations, the one an authority signed first,  *)
(* the one its holder presents last.  Signatures are modelled by who made  *)
(* them: nobody signs for another, xmlsec1 recognises every certificate    *)
(* that a trusted root vouches for.                                        *)
(***************************************************************************)
EXTENDS Naturals, SequencesExt

CONSTANTS
  Gid,       \* certificates, each of one principal
  Root,      \* the trusted roots
  Authority, \* certificates of type authority, with CA:TRUE
  Hrn,       \* the name of each principal, a sequence from the top authority on
  SignedBy,  \* whose key signed each certificate
  Presents,  \* what the file of a certificate holds: itself, its parent, ...
  CertEnd    \* notAfter

ASSUME CertificatesAssumption ==
  /\ Root \subseteq Gid /\ Authority \subseteq Gid
  /\ SignedBy \in [Gid -> Gid]
  /\ CertEnd \in [Gid -> Nat]
  /\ \A g \in Gid : Presents[g] \in Seq(Gid) /\ Presents[g] # <<>> /\ Head(Presents[g]) = g

-----------------------------------------------------------------------------
(* Certificates. *)

\* hrn_authfor_hrn, which every name is for itself.
Over(a, g) == IsPrefix(Hrn[a], Hrn[g])

RootOf(g) == {r \in Root : SignedBy[g] = r}

\* Certificate.verify_chain, one certificate: the clock, then a root, then
\* the parent that comes with it.
Vouched(path, i, now) ==
  \/ \E r \in RootOf(path[i]) : now <= CertEnd[r]
  \/ /\ RootOf(path[i]) = {}
     /\ i < Len(path)
     /\ SignedBy[path[i]] = path[i + 1]
     /\ path[i + 1] \in Authority

\* GID.verify_chain, one certificate: who vouches for it rules its name.
Ruled(path, i) ==
  IF i < Len(path)
  THEN path[i + 1] \in Authority /\ Over(path[i + 1], path[i])
  ELSE \E r \in RootOf(path[i]) : r \in Authority /\ Over(r, path[i])

PathTrusted(path, now) ==
  \A i \in DOMAIN path :
    now <= CertEnd[path[i]] /\ Vouched(path, i, now) /\ Ruled(path, i)

Trusted(g, now) == PathTrusted(Presents[g], now)

\* What xmlsec1 --verify asks of a signer: a chain to a root, whatever the names.
Recognised(g, now) ==
  LET path == Presents[g]
  IN \A i \in DOMAIN path : now <= CertEnd[path[i]] /\ Vouched(path, i, now)

-----------------------------------------------------------------------------
(* Rights. *)

privilege_table ==
  [authority |-> {"register", "remove", "update", "resolve", "list", "getcredential", "*"},
   refresh |-> {"remove", "update"},
   resolve |-> {"resolve", "list", "getcredential"},
   sa |-> {"getticket", "redeemslice", "redeemticket", "createslice", "createsliver",
           "deleteslice", "deletesliver", "updateslice", "getsliceresources",
           "loanresources", "stopslice", "startslice", "renewsliver", "resetslice",
           "listslices", "listnodes", "getpolicy", "sliverstatus"},
   embed |-> {"getticket", "redeemslice", "redeemticket", "createslice", "createsliver",
              "renewsliver", "deleteslice", "deletesliver", "updateslice",
              "sliverstatus", "getsliceresources", "shutdown"},
   bind |-> {"getticket", "loanresources", "redeemticket"},
   control |-> {"updateslice", "createslice", "createsliver", "renewsliver",
                "sliverstatus", "stopslice", "startslice", "deleteslice",
                "deletesliver", "resetslice", "getsliceresources", "getgids"},
   info |-> {"listslices", "listnodes", "getpolicy"},
   ma |-> {"setbootstate", "getbootstate", "reboot", "getgids", "gettrustedcerts"},
   operator |-> {"gettrustedcerts", "getgids"}]

Kinds == DOMAIN privilege_table

Right(kind, delegate) == [kind |-> kind, delegate |-> delegate]

Rights == [kind : Kinds, delegate : BOOLEAN]

determine_rights(type) ==
  CASE type = "user" -> {"refresh", "resolve", "info"}
    [] type = "sa" -> {"authority", "sa"}
    [] type = "ma" -> {"authority", "ma"}
    [] type = "authority" -> {"authority", "sa", "ma"}
    [] type = "slice" -> {"refresh", "embed", "bind", "control", "info"}
    [] type = "component" -> {"operator"}

delegate_all(rights, delegate) == {Right(r.kind, delegate) : r \in rights}

\* Right.can_perform, Rights.can_perform
Allows(kind, op) == "*" \in privilege_table[kind] \/ op \in privilege_table[kind]

can_perform(rights, op) == \E r \in rights : Allows(r.kind, op)

\* Right.is_superset
Covers(mine, other) ==
  /\ mine.delegate
  /\ \/ "*" \in privilege_table[mine.kind]
     \/ privilege_table[other.kind] \subseteq privilege_table[mine.kind]

is_superset(mine, others) == \A o \in others : \E m \in mine : Covers(m, o)

-----------------------------------------------------------------------------
(* Credentials. *)

\* One delegation: what Credential.encode writes, and who signed it.
Link(owner, target, rights, expiration, signer) ==
  [owner |-> owner, target |-> target, rights |-> rights,
   expiration |-> expiration, signer |-> signer]

\* Credential.decode: what is outermost; get_credential_list: the list ends with
\* the one an authority signed.
Presented(cred) == Last(cred)

Granted(cred) == Head(cred)

\* Fault: the holder of the parent is not the signer of the child.
verify_parent_anySigner(child, parent) ==
  /\ is_superset(parent.rights, child.rights)
  /\ parent.target = child.target
  /\ parent.expiration >= child.expiration

verify_parent(child, parent) ==
  /\ is_superset(parent.rights, child.rights)
  /\ parent.target = child.target
  /\ parent.expiration >= child.expiration
  /\ parent.owner = child.signer

verify_issuer(root, now) ==
  \/ SignedBy[root.target] = root.signer
  \/ /\ Trusted(root.signer, now)
     /\ root.signer \in Authority
     /\ Over(root.signer, root.target)

\* Credential.verify
Verifies(cred, now) ==
  /\ now <= Presented(cred).expiration
  /\ \A i \in DOMAIN cred :
       /\ Trusted(cred[i].target, now) /\ Trusted(cred[i].owner, now)
       /\ Recognised(cred[i].signer, now)
  /\ \A i \in 2..Len(cred) : verify_parent(cred[i], cred[i - 1])
  /\ verify_issuer(Granted(cred), now)

Types == {"user", "sa", "ma", "authority", "slice", "component"}

\* create_credential, which checks its own work last.
create_credential(owner, target, expiration, type, issuer, delegatable) ==
  Link(owner, target, {Right(k, delegatable) : k \in determine_rights(type)},
       expiration, issuer)

MayCreate(cred, type, now) ==
  LET root == Granted(cred)
  IN /\ root.expiration > now
     /\ type \in Types
     /\ \/ root.target = root.signer
        \/ root.signer \in Authority /\ Over(root.signer, root.target)
     /\ Verifies(cred, now)

\* What delegateSliceCred and Credential.delegate write and sign.
Delegated(cred, delegee, expiration, delegatable) ==
  Link(delegee, Presented(cred).target, delegate_all(Presented(cred).rights, delegatable),
       expiration, Presented(cred).owner)

\* delegateSliceCred checks what it is given, and its work.
MayDelegate(cred, link, now) ==
  /\ link.expiration <= Presented(cred).expiration
  /\ link.expiration = Presented(cred).expiration \/ link.expiration > now
  /\ \A r \in Presented(cred).rights : r.delegate
  /\ Verifies(cred, now)
  /\ Verifies(Append(cred, link), now)

-----------------------------------------------------------------------------
(* Speaks-for statements: head.speaks_for_head <- tail, signed by signer.  *)

Statement(head, tail, expiration, signer) ==
  [head |-> head, tail |-> tail, expiration |-> expiration, signer |-> signer]

\* create_speaks_for, create_sign_abaccred
SpeaksFor(user, tool, expiration) == Statement(user, tool, expiration, user)

\* A tool whose certificate came without its parent may borrow the user's.
Borrowed(tool, user) == Presents[tool] \o Tail(Presents[user])

ToolTrusted(tool, user, now) ==
  \/ Trusted(tool, now)
  \/ /\ SignedBy[tool] = SignedBy[user]
     /\ Len(Presents[tool]) = 1 /\ Len(Presents[user]) > 1
     /\ PathTrusted(Borrowed(tool, user), now)

\* Fault: the last instant of a statement is no part of it.
verify_speaks_for_strictly(st, tool, user, roots, now) ==
  /\ now < st.expiration
  /\ st.signer = user
  /\ Recognised(st.signer, now)
  /\ st.head = st.signer /\ st.tail = tool
  /\ roots => Trusted(user, now) /\ ToolTrusted(tool, user, now)

verify_speaks_for(st, tool, user, roots, now) ==
  /\ now <= st.expiration
  /\ st.signer = user
  /\ Recognised(st.signer, now)
  /\ st.head = st.signer /\ st.tail = tool
  /\ roots => Trusted(user, now) /\ ToolTrusted(tool, user, now)

\* determine_speaks_for: option is the user spoken for, or the caller itself.
Speaker(statements, caller, option, roots, now) ==
  IF \E st \in statements : verify_speaks_for(st, caller, option, roots, now)
  THEN option ELSE caller

-----------------------------------------------------------------------------
(* CredentialVerifier *)

\* Fault: the caller is to be the one that the authority named.
Grants_firstOwner(cred, source, target, privileges, now) ==
  /\ Granted(cred).owner = source
  /\ Presented(cred).target = target
  /\ \A op \in privileges : can_perform(Presented(cred).rights, op)
  /\ Verifies(cred, now)

\* verify_source, verify_target, verify_privileges and Credential.verify
Grants(cred, source, target, privileges, now) ==
  /\ Presented(cred).owner = source
  /\ Presented(cred).target = target
  /\ \A op \in privileges : can_perform(Presented(cred).rights, op)
  /\ Verifies(cred, now)

\* verify_from_strings: the credentials that count, out of those presented.
verify(statements, creds, caller, option, target, privileges, now) ==
  LET source == Speaker(statements, caller, option, TRUE, now)
  IN {c \in creds : Grants(c, source, target, privileges, now)}
=============================================================================
