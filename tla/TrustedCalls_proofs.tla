------------------------ MODULE TrustedCalls_proofs ------------------------
(***************************************************************************)
(* Theorems about the calls of TrustedCalls, for any certificates, users,  *)
(* slices and any number of papers: nothing is let through that no         *)
(* signatures entitle to, what this code issues is honoured, and a tool is *)
(* treated like the user it speaks for.                                    *)
(***************************************************************************)
EXTENDS TrustedCalls, TLAPS, NaturalsInduction, WellFoundedInduction

(* The papers are made of what they are said to be made of.  Every         *)
(* credential has a first link.                                            *)
Links ==
  [owner : Gid, target : Gid, rights : SUBSET Rights, expiration : Nat, signer : Gid]

TypeOK ==
  /\ now \in Time
  /\ creds \in SUBSET (Seq(Links) \ {<<>>})
  /\ ours \in SUBSET creds

-----------------------------------------------------------------------------
(* Types. *)

(* What create_credential and delegate_all_privileges write are rights.    *)
LEMMA RightsAreRights ==
  /\ \A type \in Types, d \in BOOLEAN :
       {Right(k, d) : k \in determine_rights(type)} \in SUBSET Rights
  /\ \A r \in SUBSET Rights, d \in BOOLEAN : delegate_all(r, d) \in SUBSET Rights
<1>1. \A type \in Types : determine_rights(type) \subseteq Kinds
  BY DEF determine_rights, Types, Kinds, privilege_table
<1>2. \A k \in Kinds, d \in BOOLEAN : Right(k, d) \in Rights
  BY DEF Right, Rights
<1>3. \A r \in Rights : r.kind \in Kinds
  BY DEF Rights
<1>4. QED BY <1>1, <1>2, <1>3 DEF delegate_all

(* A link after a credential, or alone, makes a credential.                *)
LEMMA Longer ==
  ASSUME NEW c \in Seq(Links), NEW l \in Links
  PROVE  /\ Append(c, l) \in Seq(Links) \ {<<>>}
         /\ <<l>> \in Seq(Links) \ {<<>>}
<1>1. /\ Append(c, l) \in Seq(Links) /\ Len(Append(c, l)) = Len(c) + 1
      /\ Len(c) \in Nat /\ Len(<<>>) = 0
  OBVIOUS
<1>2. Append(c, l) # <<>>
  BY <1>1
<1>3. <<l>> \in Seq(Links) /\ <<l>> # <<>>
  OBVIOUS
<1>4. QED BY <1>1, <1>2, <1>3

(* The last link of a credential is one of its links.                      *)
LEMMA LastIsLink ==
  ASSUME NEW c \in Seq(Links) \ {<<>>}
  PROVE  /\ Len(c) \in Nat \ {0}
         /\ Last(c) = c[Len(c)]
         /\ Last(c) \in Links
<1>1. Len(c) \in Nat \ {0}
  OBVIOUS
<1>2. QED BY <1>1 DEF Last

(* Every step keeps the types.                                             *)
LEMMA Typing == Spec => []TypeOK
<1> USE CallsAssumption, CertificatesAssumption
<1>1. Init => TypeOK
  BY DEF Init, TypeOK, Time
<1>2. TypeOK /\ [Next]_vars => TypeOK'
  <2> SUFFICES ASSUME TypeOK, [Next]_vars PROVE TypeOK'
    OBVIOUS
  <2>1. CASE Tick
    BY <2>1 DEF TypeOK, Tick, Time
  <2>2. ASSUME NEW a \in Authority, NEW u \in User, NEW s \in Slice, NEW e \in Ends,
               NEW d \in BOOLEAN, Create(a, u, s, e, d)
        PROVE TypeOK'
    <3> DEFINE l == create_credential(u, s, e, "slice", a, d)
    <3>1. {Right(k, d) : k \in determine_rights("slice")} \in SUBSET Rights
      BY RightsAreRights DEF Types
    <3>2. l \in Links
      BY <3>1 DEF create_credential, Link, Links, Time
    <3>3. <<l>> \in Seq(Links) \ {<<>>}
      BY <3>2
    <3>4. creds' = creds \cup {<<l>>} /\ ours' = ours \cup {<<l>>} /\ now' = now
      BY <2>2 DEF Create
    <3> HIDE DEF l
    <3>5. QED BY <3>3, <3>4 DEF TypeOK
  <2>3. ASSUME NEW c \in creds, NEW u \in User, NEW e \in Ends, NEW d \in BOOLEAN,
               PassOn(c, u, e, d)
        PROVE TypeOK'
    <3> DEFINE l == Delegated(c, u, e, d)
    <3>1. c \in Seq(Links) \ {<<>>}
      BY DEF TypeOK
    <3>2. Last(c) \in Links
      BY <3>1, LastIsLink
    <3>3. Last(c).target \in Gid /\ Last(c).owner \in Gid /\ Last(c).rights \in SUBSET Rights
      BY <3>2 DEF Links
    <3>4. delegate_all(Last(c).rights, d) \in SUBSET Rights
      BY <3>3, RightsAreRights
    <3>5. l \in Links
      BY <3>3, <3>4 DEF Delegated, Presented, Link, Links, Time
    <3>6. Append(c, l) \in Seq(Links) \ {<<>>}
      BY <3>1, <3>5, Longer
    <3>7. /\ creds' = creds \cup {Append(c, l)} /\ now' = now
          /\ ours' \in {ours, ours \cup {Append(c, l)}}
      BY <2>3 DEF PassOn
    <3> HIDE DEF l
    <3>8. QED BY <3>6, <3>7 DEF TypeOK
  <2>4. ASSUME NEW c \in creds \cup {<<>>}, NEW u \in User, NEW v \in Signer, NEW s \in Slice,
               NEW r \in ForeignRights, NEW e \in Ends, Foreign(c, u, s, r, e, v)
        PROVE TypeOK'
    <3> DEFINE l == Link(u, s, r, e, v)
    <3>1. c \in Seq(Links)
      <4>1. CASE c \in creds
        BY <4>1 DEF TypeOK
      <4>2. CASE c = <<>>
        BY <4>2
      <4>3. QED BY <4>1, <4>2
    <3>2. l \in Links
      <4>1. u \in Gid /\ s \in Gid /\ v \in Gid /\ r \in SUBSET Rights /\ e \in Nat
        OBVIOUS
      <4>2. QED BY <4>1 DEF Link, Links
    <3>3. Append(c, l) \in Seq(Links) \ {<<>>}
      BY <3>1, <3>2, Longer
    <3>4. creds' = creds \cup {Append(c, l)} /\ ours' = ours /\ now' = now
      BY <2>4 DEF Foreign
    <3> HIDE DEF l
    <3>5. QED BY <3>3, <3>4 DEF TypeOK
  <2>5. ASSUME UNCHANGED <<now, creds, ours>>
        PROVE TypeOK'
    BY <2>5 DEF TypeOK
  <2>6. QED
    BY <2>1, <2>2, <2>3, <2>4, <2>5 DEF Next, vars, Speak, ForeignStatement, Call
<1>3. QED BY <1>1, <1>2, PTL DEF Spec

-----------------------------------------------------------------------------
(* Chains of delegations. *)

(* Who may pass on the rights that cover others may pass on, and use, every *)
(* operation these allow.                                                  *)
LEMMA SupersetAllows ==
  ASSUME NEW mine, NEW others, NEW op, is_superset(mine, others), can_perform(others, op)
  PROVE  /\ can_perform(mine, op)
         /\ \E r \in mine : r.delegate /\ Allows(r.kind, op)
<1>1. PICK o \in others : Allows(o.kind, op)
  BY DEF can_perform
<1>2. PICK m \in mine : Covers(m, o)
  BY DEF is_superset
<1>3. m.delegate /\ Allows(m.kind, op)
  BY <1>1, <1>2 DEF Covers, Allows
<1>4. QED BY <1>3 DEF can_perform

(* A set of natural numbers that is not empty has a least one.             *)
LEMMA LeastNatural ==
  ASSUME NEW S \in SUBSET Nat, S # {}
  PROVE  \E m \in S : \A k \in S : m <= k
<1>1. PICK m \in S : \A k \in S : <<k, m>> \notin OpToRel(<, Nat)
  BY NatLessThanWellFounded, WFMin
<1>2. \A k \in S : ~(k < m)
  BY <1>1 DEF OpToRel
<1>3. QED BY <1>2

(* An operation that a verified credential allows is one that each of its  *)
(* links allows, and each but the last may pass on.                        *)
LEMMA AllLinksAllow ==
  ASSUME NEW c \in Seq(Links) \ {<<>>}, NEW t, Verifies(c, t),
         NEW op, can_perform(Last(c).rights, op)
  PROVE  /\ \A i \in 1..Len(c) : can_perform(c[i].rights, op)
         /\ \A i \in 1..Len(c) : i # Len(c) => Delegable(c[i], op)
<1>1. Len(c) \in Nat \ {0} /\ Last(c) = c[Len(c)]
  BY LastIsLink
<1>2. \A i \in 1..Len(c) : i # Len(c) => is_superset(c[i].rights, c[i + 1].rights)
  <2> SUFFICES ASSUME NEW i \in 1..Len(c), i # Len(c)
               PROVE  is_superset(c[i].rights, c[i + 1].rights)
    OBVIOUS
  <2>1. i + 1 \in 2..Len(c) /\ (i + 1) - 1 = i
    BY <1>1
  <2>2. verify_parent(c[i + 1], c[i])
    BY <2>1 DEF Verifies
  <2>3. QED BY <2>2 DEF verify_parent
<1> DEFINE Bad == {k \in 0..(Len(c) - 1) : ~can_perform(c[Len(c) - k].rights, op)}
<1>3. Bad = {}
  <2> SUFFICES ASSUME Bad # {} PROVE FALSE
    OBVIOUS
  <2>1. Bad \in SUBSET Nat
    BY <1>1
  <2>2. PICK k \in Bad : \A j \in Bad : k <= j
    <3> HIDE DEF Bad
    <3>1. QED BY <2>1, LeastNatural
  <2>3. k # 0
    BY <1>1
  <2>4. k - 1 \in 0..(Len(c) - 1) /\ ~(k <= k - 1)
    BY <1>1, <2>3
  <2>5. k - 1 \notin Bad
    BY <2>2, <2>4
  <2>6. can_perform(c[Len(c) - (k - 1)].rights, op)
    BY <2>4, <2>5
  <2>7. Len(c) - k \in 1..Len(c) /\ Len(c) - k # Len(c) /\ (Len(c) - k) + 1 = Len(c) - (k - 1)
    BY <1>1, <2>3
  <2>8. is_superset(c[Len(c) - k].rights, c[Len(c) - (k - 1)].rights)
    BY <1>2, <2>7
  <2>9. can_perform(c[Len(c) - k].rights, op)
    BY <2>6, <2>8, SupersetAllows
  <2>10. QED BY <2>9
<1>4. ASSUME NEW i \in 1..Len(c) PROVE can_perform(c[i].rights, op)
  <2>1. Len(c) - i \in 0..(Len(c) - 1) /\ Len(c) - (Len(c) - i) = i
    BY <1>1
  <2>2. QED BY <1>3, <2>1
<1>5. ASSUME NEW i \in 1..Len(c), i # Len(c) PROVE Delegable(c[i], op)
  <2>1. i + 1 \in 1..Len(c)
    BY <1>1, <1>5
  <2>2. is_superset(c[i].rights, c[i + 1].rights) /\ can_perform(c[i + 1].rights, op)
    BY <1>2, <1>4, <1>5, <2>1
  <2>3. QED BY <2>2, SupersetAllows DEF Delegable
<1>6. QED BY <1>4, <1>5

(* The links of a verified credential lead back to an authority.           *)
LEMMA LinksAreGiven ==
  ASSUME TypeOK, NEW c \in creds, NEW t, Verifies(c, t),
         NEW op, can_perform(Last(c).rights, op)
  PROVE  Last(c) \in Given(op)
<1>1. c \in Seq(Links) \ {<<>>}
  BY DEF TypeOK
<1>2. Len(c) \in Nat \ {0} /\ Last(c) = c[Len(c)] /\ DOMAIN c = 1..Len(c)
  BY <1>1, LastIsLink
<1>3. \A i \in 1..Len(c) : c[i] \in Signed(op)
  <2>1. \A i \in 1..Len(c) : c[i] \in ToSet(c)
    BY <1>2 DEF ToSet
  <2>2. QED BY <1>1, <2>1, AllLinksAllow DEF Signed
<1>4. c[1] \in FromAuthority(op)
  <2>1. c[1] \in Signed(op)
    BY <1>2, <1>3
  <2>2. Head(c) = c[1]
    BY <1>1
  <2>3. verify_issuer(c[1], t)
    BY <2>2 DEF Verifies, Granted
  <2>4. QED BY <2>1, <2>3 DEF verify_issuer, FromAuthority
<1>5. ASSUME NEW given \in SUBSET Signed(op), NEW i \in 2..Len(c), c[i - 1] \in given
      PROVE  c[i] \in PassedOn(op, given)
  <2>1. i \in 1..Len(c) /\ i - 1 \in 1..Len(c) /\ i - 1 # Len(c)
    BY <1>2
  <2>2. Delegable(c[i - 1], op)
    BY <1>1, <2>1, AllLinksAllow
  <2>3. verify_parent(c[i], c[i - 1])
    BY DEF Verifies
  <2>4. QED BY <1>3, <1>5, <2>1, <2>2, <2>3 DEF verify_parent, PassedOn
<1>6. ASSUME NEW given \in SUBSET Signed(op),
             FromAuthority(op) \cup PassedOn(op, given) \subseteq given
      PROVE  \A i \in 1..Len(c) : c[i] \in given
  <2> DEFINE Lacks == {i \in 1..Len(c) : c[i] \notin given}
  <2> SUFFICES ASSUME Lacks # {} PROVE FALSE
    OBVIOUS
  <2>1. Lacks \in SUBSET Nat
    BY <1>2
  <2>2. PICK i \in Lacks : \A j \in Lacks : i <= j
    <3> HIDE DEF Lacks
    <3>1. QED BY <2>1, LeastNatural
  <2>3. i # 1
    BY <1>4, <1>6
  <2>4. i \in 2..Len(c) /\ i - 1 \in 1..Len(c) /\ ~(i <= i - 1)
    BY <1>2, <2>3
  <2>5. c[i - 1] \in given
    BY <2>2, <2>4
  <2>6. c[i] \in PassedOn(op, given)
    BY <1>5, <2>4, <2>5
  <2>7. QED BY <1>6, <2>6
<1>7. Last(c) \in Signed(op)
  BY <1>2, <1>3
<1>8. \A given \in SUBSET Signed(op) :
        FromAuthority(op) \cup PassedOn(op, given) \subseteq given => Last(c) \in given
  BY <1>2, <1>6
<1>9. QED BY <1>7, <1>8 DEF Given

-----------------------------------------------------------------------------
(* The theorems. *)

(* What verifies for somebody, he or she is entitled to.                   *)
LEMMA GrantsEntitle ==
  ASSUME TypeOK, NEW c \in creds, NEW source, NEW target, NEW privileges,
         Grants(c, source, target, privileges, now)
  PROVE  \A op \in privileges : Entitled(source, target, op)
<1>1. /\ Last(c).owner = source /\ Last(c).target = target /\ now <= Last(c).expiration
      /\ Verifies(c, now)
      /\ \A op \in privileges : can_perform(Last(c).rights, op)
  BY DEF Grants, Presented, Verifies
<1>2. \A op \in privileges : Last(c) \in Given(op)
  BY <1>1, LinksAreGiven
<1>3. QED BY <1>1, <1>2 DEF Entitled

(* Who is taken for the caller is the caller, or signed that the caller    *)
(* speaks for it.                                                          *)
LEMMA SpeakerIsPrincipal ==
  ASSUME NEW caller, NEW option, NEW roots
  PROVE  Speaker(statements, caller, option, roots, now) \in Principals(caller, option)
BY DEF Speaker, verify_speaks_for, Principals

(* What is given changes with the credentials in circulation only.         *)
LEMMA SameGiven ==
  ASSUME UNCHANGED creds, NEW op
  PROVE  Given(op)' = Given(op)
<1>1. Signed(op)' = Signed(op)
  BY DEF Signed
<1>2. FromAuthority(op)' = FromAuthority(op)
  BY <1>1 DEF FromAuthority
<1>3. \A given : PassedOn(op, given)' = PassedOn(op, given)
  BY <1>1 DEF PassedOn
<1>4. QED BY <1>1, <1>2, <1>3 DEF Given

(* OnlyEntitled: a call is let through only when signatures lead from its  *)
(* user back to an authority over the slice, for every privilege that the  *)
(* method asks for, whatever other tools write into their papers.          *)
THEOREM NothingUnsigned == Spec => []OnlyEntitled
<1>1. Init => OnlyEntitled
  BY DEF Init, OnlyEntitled
<1>2. TypeOK /\ OnlyEntitled /\ [Next]_vars => OnlyEntitled'
  <2> SUFFICES ASSUME TypeOK, OnlyEntitled, [Next]_vars PROVE OnlyEntitled'
    OBVIOUS
  <2>1. ASSUME NEW c \in creds, NEW u \in User, NEW v \in User, NEW s \in Slice,
               NEW m \in Method, Call(u, v, c, s, m)
        PROVE OnlyEntitled'
    <3>1. PICK w : w = Speaker(statements, u, v, TRUE, now)
      OBVIOUS
    <3>2. \A op \in Privileges[m] : Entitled(w, s, op)
      <4>1. Grants(c, w, s, Privileges[m], now)
        BY <2>1, <3>1 DEF Call, Accepted, HandlerAccepts, Suffices, Counted, verify
      <4>2. QED BY <4>1, GrantsEntitle
    <3>3. w \in Principals(u, v)
      BY <3>1, SpeakerIsPrincipal
    <3>4. /\ served'.caller = u /\ served'.option = v /\ served'.slice = s
          /\ served'.method = m
          /\ UNCHANGED <<now, creds, statements>>
      BY <2>1 DEF Call
    <3>5. w \in Principals(u, v)'
      BY <3>3, <3>4 DEF Principals
    <3>6. \A op \in Privileges[m] : Entitled(w, s, op)'
      BY <3>2, <3>4, SameGiven DEF Entitled
    <3>7. QED BY <3>4, <3>5, <3>6 DEF OnlyEntitled
  <2>2. ASSUME served' = NoCall
        PROVE OnlyEntitled'
    BY <2>2 DEF OnlyEntitled
  <2>3. CASE UNCHANGED vars
    <3>1. \A op : Given(op)' = Given(op)
      BY <2>3, SameGiven DEF vars
    <3>2. \A u, s, op : Entitled(u, s, op)' <=> Entitled(u, s, op)
      BY <2>3, <3>1 DEF vars, Entitled
    <3>3. \A u, v : Principals(u, v)' = Principals(u, v)
      BY <2>3 DEF vars, Principals
    <3>4. QED BY <2>3, <3>2, <3>3 DEF vars, OnlyEntitled
  <2>4. QED
    BY <2>1, <2>2, <2>3 DEF Next, Tick, Create, PassOn, Foreign, Speak, ForeignStatement
<1>3. QED BY <1>1, <1>2, Typing, PTL DEF Spec

-----------------------------------------------------------------------------
(* What this code issues. *)

(* What was once trusted is trusted until a certificate expires.           *)
LEMMA StillTrusted ==
  ASSUME NEW g \in Gid, NEW t, NEW u, \A h \in Gid : u <= CertEnd[h]
  PROVE  /\ Trusted(g, t) => Trusted(g, u)
         /\ Recognised(g, t) => Recognised(g, u)
<1>1. Presents[g] \in Seq(Gid)
  BY CertificatesAssumption
<1>2. \A i \in DOMAIN Presents[g] : Presents[g][i] \in Gid
  BY <1>1
<1>3. \A i \in DOMAIN Presents[g] : Vouched(Presents[g], i, t) => Vouched(Presents[g], i, u)
  <2>1. \A x : RootOf(x) \subseteq Gid
    BY CertificatesAssumption DEF RootOf
  <2>2. QED BY <2>1 DEF Vouched
<1>4. QED BY <1>2, <1>3 DEF Trusted, PathTrusted, Recognised

(* What once verified, verifies until it or a certificate expires.         *)
LEMMA StillVerifies ==
  ASSUME NEW c \in Seq(Links) \ {<<>>}, NEW t, Verifies(c, t), NEW u,
         u <= Last(c).expiration, \A h \in Gid : u <= CertEnd[h]
  PROVE  Verifies(c, u)
<1>1. \A i \in DOMAIN c : c[i].target \in Gid /\ c[i].owner \in Gid /\ c[i].signer \in Gid
  <2>1. \A i \in DOMAIN c : c[i] \in Links
    OBVIOUS
  <2>2. QED BY <2>1 DEF Links
<1>2. \A i \in DOMAIN c : /\ Trusted(c[i].target, u) /\ Trusted(c[i].owner, u)
                          /\ Recognised(c[i].signer, u)
  BY <1>1, StillTrusted DEF Verifies
<1>3. Head(c).signer \in Gid
  BY <1>1
<1>4. verify_issuer(Head(c), u)
  BY <1>3, StillTrusted DEF Verifies, Granted, verify_issuer
<1>5. QED BY <1>2, <1>4 DEF Verifies, Granted, Presented

(* Whatever this code made verified when it was made.                      *)
OursVerified == \A c \in ours : \E t \in Time : Verifies(c, t)

LEMMA MadeVerified == Spec => []OursVerified
<1>1. Init => OursVerified
  BY DEF Init, OursVerified
<1>2. TypeOK /\ OursVerified /\ [Next]_vars => OursVerified'
  <2> SUFFICES ASSUME TypeOK, OursVerified, [Next]_vars PROVE OursVerified'
    OBVIOUS
  <2>1. now \in Time
    BY DEF TypeOK
  <2>2. ASSUME NEW c, Verifies(c, now), ours' \subseteq ours \cup {c}
        PROVE OursVerified'
    BY <2>1, <2>2 DEF OursVerified
  <2>3. ASSUME NEW a \in Authority, NEW u \in User, NEW s \in Slice, NEW e \in Ends,
               NEW d \in BOOLEAN, Create(a, u, s, e, d)
        PROVE OursVerified'
    BY <2>2, <2>3 DEF Create, MayCreate
  <2>4. ASSUME NEW c \in creds, NEW u \in User, NEW e \in Ends, NEW d \in BOOLEAN,
               PassOn(c, u, e, d)
        PROVE OursVerified'
    BY <2>2, <2>4 DEF PassOn, MayDelegate
  <2>5. ASSUME ours' = ours
        PROVE OursVerified'
    BY <2>5 DEF OursVerified
  <2>6. QED
    BY <2>3, <2>4, <2>5 DEF Next, vars, Tick, Foreign, Speak, ForeignStatement, Call
<1>3. QED BY <1>1, <1>2, Typing, PTL DEF Spec

(* One credential that grants what a method asks for gets its owner        *)
(* through both checks, the authorizer's and the manager's.                *)
LEMMA GrantedIsAccepted ==
  ASSUME NEW c, NEW m, Grants(c, Last(c).owner, Last(c).target, Privileges[m], now)
  PROVE  Accepted(Last(c).owner, Last(c).owner, {c}, Last(c).target, m)
<1>1. \A roots \in BOOLEAN : Speaker(statements, Last(c).owner, Last(c).owner, roots, now)
                              = Last(c).owner
  BY DEF Speaker
<1>2. Counted(Last(c).owner, Last(c).owner, {c}, Last(c).target, m) # {}
  BY <1>1 DEF Counted, verify
<1>3. QED
  BY <1>1, <1>2 DEF Accepted, HandlerAccepts, authorize, ContextCaller, Suffices

(* OursAreHonoured: whoever holds a credential made with this code gets    *)
(* through every call its rights allow, until it or a certificate expires; *)
(* the checks made when it is written are those made when it is used.      *)
THEOREM IssuedIsHonoured == Spec => []OursAreHonoured
<1>1. TypeOK /\ OursVerified => OursAreHonoured
  <2> SUFFICES ASSUME TypeOK, OursVerified, NEW c \in ours, NEW m \in Method,
                      now <= Last(c).expiration, \A g \in Gid : now <= CertEnd[g],
                      \A op \in Privileges[m] : can_perform(Last(c).rights, op)
               PROVE  Accepted(Last(c).owner, Last(c).owner, {c}, Last(c).target, m)
    BY DEF OursAreHonoured
  <2>1. c \in Seq(Links) \ {<<>>}
    BY DEF TypeOK
  <2>2. PICK t \in Time : Verifies(c, t)
    BY DEF OursVerified
  <2>3. Verifies(c, now)
    BY <2>1, <2>2, StillVerifies
  <2>4. Grants(c, Last(c).owner, Last(c).target, Privileges[m], now)
    BY <2>3 DEF Grants, Presented
  <2>5. QED BY <2>4, GrantedIsAccepted
<1>2. QED BY <1>1, Typing, MadeVerified, PTL

(* SpokenForAlike: while a user's statement lasts, the context and the     *)
(* manager take the tool it names for the user, with roots asked about or  *)
(* not, so the tool is let do what the user is let do and nothing else.    *)
THEOREM ToolsAreTheirUsers == Spec => []SpokenForAlike
<1>1. ASSUME NEW st \in statements, st.signer = st.head, now <= st.expiration,
             Trusted(st.tail, now), Trusted(st.head, now), NEW roots \in BOOLEAN
      PROVE  /\ Speaker(statements, st.tail, st.head, roots, now) = st.head
             /\ Speaker(statements, st.head, st.head, roots, now) = st.head
  <2>1. Recognised(st.head, now)
    BY <1>1 DEF Trusted, PathTrusted, Recognised
  <2>2. verify_speaks_for(st, st.tail, st.head, roots, now)
    BY <1>1, <2>1 DEF verify_speaks_for, ToolTrusted
  <2>3. QED BY <2>2 DEF Speaker
<1>2. SpokenForAlike
  <2> SUFFICES ASSUME NEW st \in statements, NEW c \in creds, NEW m \in Method,
                      st.signer = st.head, now <= st.expiration,
                      Trusted(st.tail, now), Trusted(st.head, now)
               PROVE  Accepted(st.tail, st.head, {c}, Last(c).target, m)
                        <=> Accepted(st.head, st.head, {c}, Last(c).target, m)
    BY DEF SpokenForAlike
  <2>1. \A u : Counted(st.tail, st.head, {c}, u, m) = Counted(st.head, st.head, {c}, u, m)
    BY <1>1 DEF Counted, verify
  <2>2. ContextCaller(st.tail, st.head) = st.head /\ ContextCaller(st.head, st.head) = st.head
    BY <1>1 DEF ContextCaller
  <2>3. QED BY <2>1, <2>2 DEF Accepted, HandlerAccepts, authorize
<1>3. QED BY <1>2, PTL
=============================================================================
