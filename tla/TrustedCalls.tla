---------------------------- MODULE TrustedCalls ----------------------------
(***************************************************************************)
(* Calls to an aggregate manager, and the papers they come with: slice     *)
(* credentials that authorities make and holders pass on, statements by    *)
(* which users let a tool speak for them, and the way of a call through    *)
(* AMMethodContext, the authorizer and the verifier of the manager itself  *)
(* (gcf/geni/am/am_method_context.py, gcf/geni/auth/sfa_authorizer.py).    *)
(*                                                                         *)
(* Papers are made with this code, or with other tools, which put into     *)
(* them what they like but sign for their users only.  A paper made stays. *)
(***************************************************************************)
EXTENDS Credentials, FiniteSets

CONSTANTS
  User,       \* certificates of users and tools, who may call
  Slice,      \* certificates of slices
  Method,     \* the methods that are called
  Authorizers,\* what a manager may be configured with: "none", "sfa"
  Signer,     \* those whom other tools sign for
  ForeignRights, \* the rights other tools may write into a credential
  Ends,       \* the expirations of what is made
  MaxTime,    \* the clock stops here
  MaxRoots,   \* bound of the credentials that are begun
  MaxForeign, \* other tools write while fewer credentials of theirs circulate
  MaxStatements, \* bound of the statements made
  MaxPapers   \* bound of the credentials and statements made

ASSUME CallsAssumption ==
  /\ User \subseteq Gid /\ Slice \subseteq Gid
  /\ Signer \subseteq Gid
  /\ MaxTime \in Nat /\ MaxRoots \in Nat /\ MaxForeign \in Nat
  /\ MaxStatements \in Nat /\ MaxPapers \in Nat
  /\ Ends \subseteq 0..MaxTime
  /\ \A r \in ForeignRights : r \subseteq Rights

VARIABLES
  now,        \* the clock of the manager
  authorizer, \* the authorizer it is configured with
  creds,      \* the credentials in circulation
  ours,       \* those of them made by this code alone
  statements, \* the statements in circulation
  served      \* the last call, when it was let through

vars == <<now, authorizer, creds, ours, statements, served>>

Time == 0..MaxTime

NoCall == [caller |-> "none"]

-----------------------------------------------------------------------------
(* The methods: what each asks for. *)

\* SFA_Authorizer.METHOD_ATTRIBUTES, and what the handlers ask for themselves.
Privileges ==
  [ListResources |-> {}, CreateSliver |-> {"createsliver"}, Allocate |-> {"createsliver"},
   Provision |-> {"createsliver"}, PerformOperationalAction |-> {"createsliver"},
   Delete |-> {"deleteslice"}, Renew |-> {"renewsliver"},
   Status |-> {"getsliceresources"}, Describe |-> {"getsliceresources"},
   Shutdown |-> {"shutdown"}]

\* Only ListResources without a slice gets by with no credential at all.
SliceRequired(method) == method # "ListResources"

\* verify: something must count, unless nothing was asked for.
Suffices(counted, presented, slices) ==
  counted # {} \/ (presented = {} /\ slices = {})

Counted(caller, option, presented, slice, method) ==
  verify(statements, presented, caller, option, slice, Privileges[method], now)

\* getVerifiedCredentials, by the handler, for the caller of the connection.
HandlerAccepts(caller, option, presented, slice, method) ==
  Suffices(Counted(caller, option, presented, slice, method), presented, {slice})

\* SFA_Authorizer.authorize, for the caller the context has worked out.
authorize(source, option, presented, slice, method) ==
  SliceRequired(method) =>
    Suffices(Counted(source, option, presented, slice, method), presented, {slice})

\* AMMethodContext.__enter__: who calls.  Roots are not asked about here.
ContextCaller(caller, option) == Speaker(statements, caller, option, FALSE, now)

Accepted(caller, option, presented, slice, method) ==
  /\ authorizer = "sfa" =>
       authorize(ContextCaller(caller, option), option, presented, slice, method)
  /\ HandlerAccepts(caller, option, presented, slice, method)

-----------------------------------------------------------------------------

Init ==
  /\ now = 0
  /\ authorizer \in Authorizers
  /\ creds = {} /\ ours = {}
  /\ statements = {}
  /\ served = NoCall

MayWrite == Cardinality(creds) + Cardinality(statements) < MaxPapers

MayState == MayWrite /\ Cardinality(statements) < MaxStatements

MayBegin == MayWrite /\ Cardinality({Head(c) : c \in creds}) < MaxRoots

Tick ==
  /\ now < MaxTime
  /\ now' = now + 1
  /\ served' = NoCall
  /\ UNCHANGED <<authorizer, creds, ours, statements>>

\* create_credential, as the clearinghouse calls it.
Create(issuer, owner, slice, expiration, delegatable) ==
  LET cred == <<create_credential(owner, slice, expiration, "slice", issuer, delegatable)>>
  IN /\ MayBegin
     /\ MayCreate(cred, "slice", now)
     /\ creds' = creds \cup {cred}
     /\ ours' = ours \cup {cred}
     /\ served' = NoCall
     /\ UNCHANGED <<now, authorizer, statements>>

\* delegateSliceCred: the holder passes it on.
PassOn(cred, delegee, expiration, delegatable) ==
  LET link == Delegated(cred, delegee, expiration, delegatable)
  IN /\ MayWrite
     /\ MayDelegate(cred, link, now)
     /\ creds' = creds \cup {Append(cred, link)}
     /\ ours' = IF cred \in ours THEN ours \cup {Append(cred, link)} ELSE ours
     /\ served' = NoCall
     /\ UNCHANGED <<now, authorizer, statements>>

\* Another tool begins a credential, or passes one on.
Foreign(cred, owner, slice, rights, expiration, signer) ==
  /\ IF cred = <<>> THEN MayBegin ELSE MayWrite
  /\ Cardinality(creds \ ours) < MaxForeign
  /\ creds' = creds \cup {Append(cred, Link(owner, slice, rights, expiration, signer))}
  /\ served' = NoCall
  /\ UNCHANGED <<now, authorizer, ours, statements>>

Speak(user, tool, expiration) ==
  /\ MayState
  /\ statements' = statements \cup {SpeaksFor(user, tool, expiration)}
  /\ served' = NoCall
  /\ UNCHANGED <<now, authorizer, creds, ours>>

\* Another tool writes a statement.
ForeignStatement(head, tail, expiration, signer) ==
  /\ MayState
  /\ statements' = statements \cup {Statement(head, tail, expiration, signer)}
  /\ served' = NoCall
  /\ UNCHANGED <<now, authorizer, creds, ours>>

\* A call of one credential; a refused call leaves nothing behind.  A tool gives
\* the option when it holds a statement.
Call(caller, option, cred, slice, method) ==
  /\ option = caller \/ \E st \in statements : st.head = option
  /\ Accepted(caller, option, {cred}, slice, method)
  /\ served' = [caller |-> caller, option |-> option, slice |-> slice, method |-> method]
  /\ UNCHANGED <<now, authorizer, creds, ours, statements>>

Next ==
  \/ Tick
  \/ \E a \in Authority, u \in User, s \in Slice, e \in Ends, d \in BOOLEAN : Create(a, u, s, e, d)
  \/ \E c \in creds, u \in User, e \in Ends, d \in BOOLEAN : PassOn(c, u, e, d)
  \/ \E c \in creds \cup {<<>>}, u \in User, v \in Signer, s \in Slice, r \in ForeignRights, e \in Ends :
       Foreign(c, u, s, r, e, v)
  \/ \E u, v \in User, e \in Ends : Speak(u, v, e)
  \/ \E u, v, w \in User, e \in Ends : ForeignStatement(u, v, e, w)
  \/ \E c \in creds, u, v \in User, s \in Slice, m \in Method : Call(u, v, c, s, m)

Spec == Init /\ [][Next]_vars

-----------------------------------------------------------------------------
(* Who may do what, from all that was ever signed.  A signature counts for *)
(* an operation when the signer rules the slice, or was itself given the   *)
(* operation to pass on, for as long at least.                             *)

Signed(op) ==
  {l \in UNION {ToSet(c) : c \in creds} : can_perform(l.rights, op)}

Delegable(l, op) == \E r \in l.rights : r.delegate /\ Allows(r.kind, op)

FromAuthority(op) ==
  {l \in Signed(op) : \/ SignedBy[l.target] = l.signer
                      \/ l.signer \in Authority /\ Over(l.signer, l.target)}

PassedOn(op, given) ==
  {l \in Signed(op) : \E g \in given :
     /\ g.owner = l.signer /\ g.target = l.target
     /\ Delegable(g, op) /\ g.expiration >= l.expiration}

\* The least set that holds what authorities signed, and with a link all that
\* was passed on from it.
Given(op) ==
  {l \in Signed(op) :
     \A given \in SUBSET Signed(op) :
       FromAuthority(op) \cup PassedOn(op, given) \subseteq given => l \in given}

Entitled(user, slice, op) ==
  \E l \in Given(op) : l.owner = user /\ l.target = slice /\ now <= l.expiration

\* The user whose call it is: the caller, or who signed that it speaks for it.
Principals(caller, option) ==
  {caller} \cup {u \in {option} :
     \E st \in statements : st.signer = u /\ st.head = u /\ st.tail = caller
                            /\ now <= st.expiration}

-----------------------------------------------------------------------------
(* CredentialVerifier: a call that is let through is one its user is       *)
(* entitled to: signatures lead from it to an authority over the slice,    *)
(* none of them gave more, or for longer, than its signer had to give.     *)
OnlyEntitled ==
  served # NoCall =>
    \E u \in Principals(served.caller, served.option) :
      \A op \in Privileges[served.method] : Entitled(u, served.slice, op)

(* create_credential and delegate: until it expires, or some certificate   *)
(* does, the holder of a credential made with them gets every call that    *)
(* its rights allow.                                                       *)
OursAreHonoured ==
  \A c \in ours : \A m \in Method :
    /\ now <= Last(c).expiration /\ \A g \in Gid : now <= CertEnd[g]
    /\ \A op \in Privileges[m] : can_perform(Last(c).rights, op)
    => Accepted(Last(c).owner, Last(c).owner, {c}, Last(c).target, m)

(* determine_speaks_for: a tool that speaks for a user is let do neither   *)
(* more nor less than the user, as far as its statement lasts.             *)
SpokenForAlike ==
  \A st \in statements : \A c \in creds : \A m \in Method :
    /\ st.signer = st.head /\ now <= st.expiration
    /\ Trusted(st.tail, now) /\ Trusted(st.head, now)
    => (Accepted(st.tail, st.head, {c}, Last(c).target, m)
        <=> Accepted(st.head, st.head, {c}, Last(c).target, m))
=============================================================================
