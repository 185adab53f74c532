--------------------------- MODULE Clearinghouse ---------------------------
(***************************************************************************)
(* The GCF clearinghouse (ch.py) and its ProtoGENI interface (pgch.py, run *)
(* on the slices of ch.py).                                                *)
(*                                                                         *)
(* The slice table maps the URN of a slice to its last credential: the     *)
(* slice's gid, its owner and its expiration.  In a threaded server each   *)
(* call has a thread of its own, and the threads interleave between two    *)
(* uses of the table; otherwise one call is finished before the next is    *)
(* begun.                                                                  *)
(***************************************************************************)
EXTENDS Integers, Sequences, FiniteSets

CONSTANTS
  User,       \* the callers, each with one call at a time
  Urn,        \* URNs of slices
  Sites,      \* the servers considered: ch.py or pgch.py, with THREADED of ch.py or not,
              \* or those of another clearinghouse, which may need a user credential
  CredLife,   \* SLICE_CRED_LIFE
  MaxLife,    \* SLICE_MAX_LIFE_SECS
  MaxTime,    \* bound of the clock
  MaxGids     \* bound of the certificates made

ASSUME ClearinghouseAssumption ==
  /\ Sites \subseteq [kind : {"gcf", "pg", "chapi", "sfa"}, threaded : BOOLEAN, needcred : BOOLEAN]
  /\ CredLife \in Nat \ {0} /\ MaxLife \in Nat /\ CredLife <= MaxLife
  /\ MaxTime \in Nat /\ MaxGids \in Nat

VARIABLES
  site,    \* the server: one of Sites, for good
  slices,  \* URN -> [urn, gid, owner, exp]
  gids,    \* certificates made so far
  now,
  call,    \* the call of each user: [op, urn, exp, pc, seen, left]
  answer   \* what it came to: [kind, cred]

server == <<site, slices, gids, now, call, answer>>

NoCred == [urn |-> "none", gid |-> 0, owner |-> "none", exp |-> 0]
NoCall == [op |-> "none", urn |-> "none", exp |-> 0, pc |-> "none", seen |-> NoCred, left |-> {}]
Cred(s, g, u, e) == [urn |-> s, gid |-> g, owner |-> u, exp |-> e]

\* Answers: yes (with a credential where there is one), no, a fault, or none at all.
Yes(c) == [kind |-> "yes", cred |-> c]
No == [kind |-> "no", cred |-> NoCred]
Fault == [kind |-> "fault", cred |-> NoCred]
Lost == [kind |-> "lost", cred |-> NoCred]
NoAnswer == [kind |-> "none", cred |-> NoCred]

Has(s) == s \in DOMAIN slices
Put(s, c) == [x \in DOMAIN slices \cup {s} |-> IF x = s THEN c ELSE slices[x]]
Without(s) == [x \in DOMAIN slices \ {s} |-> slices[x]]

ServerInit ==
  /\ site \in Sites
  /\ slices = <<>>
  /\ gids = 0
  /\ now = 0
  /\ call = [u \in User |-> NoCall]
  /\ answer = [u \in User |-> NoAnswer]

\* Whether the server works at the call of u, and whether it may.
Inside(u) == call[u].pc \notin {"none", "look"}
Scheduled(u) == site.threaded \/ \A v \in User \ {u} : ~Inside(v)

Done(u, a) ==
  /\ call' = [call EXCEPT ![u] = NoCall]
  /\ answer' = [answer EXCEPT ![u] = a]

Goes(u, pc, seen) ==
  /\ call' = [call EXCEPT ![u].pc = pc, ![u].seen = seen]
  /\ UNCHANGED answer

At(u, op, pc) == call[u].op = op /\ call[u].pc = pc /\ Scheduled(u)

-----------------------------------------------------------------------------
(* CreateSlice: also how a slice credential is got, and the Register and    *)
(* GetCredential of pgch.                                                   *)

CreateLook(u) ==
  /\ At(u, "create", "look")
  /\ Goes(u, IF Has(call[u].urn) THEN "read" ELSE "make", NoCred)
  /\ UNCHANGED <<site, slices, gids, now>>

\* Fault: the expired credential makes way for a slice with a gid of its own.
CreateRead_newgid(u) ==
  LET s == call[u].urn IN
  /\ At(u, "create", "read")
  /\ IF ~Has(s) THEN Done(u, Fault)
     ELSE IF slices[s].exp > now THEN Done(u, Yes(slices[s]))
     ELSE Goes(u, "make", NoCred)
  /\ UNCHANGED <<site, slices, gids, now>>

\* A credential that is still valid is returned as it is, whoever owns it.
CreateRead(u) ==
  LET s == call[u].urn IN
  /\ At(u, "create", "read")
  /\ IF ~Has(s) THEN Done(u, Fault)
     ELSE IF slices[s].exp > now THEN Done(u, Yes(slices[s]))
     ELSE Goes(u, "make", slices[s])
  /\ UNCHANGED <<site, slices, gids, now>>

\* An expired slice keeps its gid; a new one gets a certificate.
CreateMake(u) ==
  LET s == call[u].urn
      old == call[u].seen
      c == Cred(s, IF old = NoCred THEN gids + 1 ELSE old.gid, u, now + CredLife)
  IN
  /\ At(u, "create", "make")
  /\ old = NoCred => gids < MaxGids
  /\ gids' = IF old = NoCred THEN gids + 1 ELSE gids
  /\ slices' = Put(s, c)
  /\ Done(u, Yes(c))
  /\ UNCHANGED <<site, now>>

-----------------------------------------------------------------------------
(* RenewSlice. *)

\* Fault: a slice may be renewed for as long as anybody likes.
RenewLook_forever(u) ==
  LET c == call[u] IN
  /\ At(u, "renew", "look")
  /\ IF Has(c.urn) /\ c.exp >= now THEN Goes(u, "read", NoCred) ELSE Done(u, No)
  /\ UNCHANGED <<site, slices, gids, now>>

RenewLook(u) ==
  LET c == call[u] IN
  /\ At(u, "renew", "look")
  /\ IF Has(c.urn) /\ c.exp >= now /\ c.exp <= now + MaxLife
     THEN Goes(u, "read", NoCred) ELSE Done(u, No)
  /\ UNCHANGED <<site, slices, gids, now>>

RenewRead(u) ==
  /\ At(u, "renew", "read")
  /\ IF Has(call[u].urn) THEN Goes(u, "write", slices[call[u].urn]) ELSE Done(u, Fault)
  /\ UNCHANGED <<site, slices, gids, now>>

\* Whoever renews a slice owns it from then on.
RenewWrite(u) ==
  LET c == call[u] IN
  /\ At(u, "renew", "write")
  /\ slices' = Put(c.urn, Cred(c.urn, c.seen.gid, u, c.exp))
  /\ Done(u, Yes(NoCred))
  /\ UNCHANGED <<site, gids, now>>

\* RenewSlice of pgch calls the method it overrides with too many arguments.
RenewAtPg(u) ==
  /\ At(u, "renew at pgch", "look")
  /\ Done(u, Fault)
  /\ UNCHANGED <<site, slices, gids, now>>

-----------------------------------------------------------------------------
(* What the clearinghouse says of itself, and the keys of pgch: without the *)
(* other clearinghouse it gets them from, GetKeys fails.                    *)

GetVersion(u) ==
  /\ At(u, "version", "look")
  /\ Done(u, Yes(NoCred))
  /\ UNCHANGED <<site, slices, gids, now>>

ListAggregates(u) ==
  /\ At(u, "aggregates", "look")
  /\ Done(u, Yes(NoCred))
  /\ UNCHANGED <<site, slices, gids, now>>

GetKeys(u) ==
  /\ At(u, "keys", "look")
  /\ Done(u, Fault)
  /\ UNCHANGED <<site, slices, gids, now>>

-----------------------------------------------------------------------------
(* CreateUserCredential: made for whoever asks, and kept nowhere. *)

UserCredential(u) ==
  /\ At(u, "usercred", "look")
  /\ Done(u, Yes(NoCred))
  /\ UNCHANGED <<site, slices, gids, now>>

-----------------------------------------------------------------------------
(* DeleteSlice, ListMySlices and the Resolve of pgch. *)

DeleteLook(u) ==
  /\ At(u, "delete", "look")
  /\ IF Has(call[u].urn) THEN Goes(u, "pop", NoCred) ELSE Done(u, No)
  /\ UNCHANGED <<site, slices, gids, now>>

DeletePop(u) ==
  /\ At(u, "delete", "pop")
  /\ IF Has(call[u].urn) THEN slices' = Without(call[u].urn) /\ Done(u, Yes(NoCred))
     ELSE UNCHANGED slices /\ Done(u, Fault)
  /\ UNCHANGED <<site, gids, now>>

\* The credentials of the caller's slices, as they are now.
ListLook(u) ==
  LET mine == {slices[s] : s \in {x \in DOMAIN slices : slices[x].owner = u}} IN
  /\ At(u, "list", "look")
  /\ call' = [call EXCEPT ![u].pc = "sweep", ![u].left = mine]
  /\ UNCHANGED <<site, slices, gids, now, answer>>

\* The next of them: an expired one is removed.
ListSweep(u) ==
  /\ At(u, "list", "sweep")
  /\ \E c \in call[u].left :
       IF c.exp <= now /\ ~Has(c.urn) THEN Done(u, Fault) /\ UNCHANGED slices
       ELSE /\ slices' = IF c.exp <= now THEN Without(c.urn) ELSE slices
            /\ call' = [call EXCEPT ![u].left = @ \ {c}]
            /\ UNCHANGED answer
  /\ UNCHANGED <<site, gids, now>>

ListEnd(u) ==
  /\ At(u, "list", "sweep") /\ call[u].left = {}
  /\ Done(u, Yes(NoCred))
  /\ UNCHANGED <<site, slices, gids, now>>

ResolveLook(u) ==
  /\ At(u, "resolve", "look")
  /\ IF Has(call[u].urn) THEN Goes(u, "read", NoCred) ELSE Done(u, Fault)
  /\ UNCHANGED <<site, slices, gids, now>>

ResolveRead(u) ==
  /\ At(u, "resolve", "read")
  /\ IF Has(call[u].urn) THEN Done(u, Yes(NoCred)) ELSE Done(u, Fault)
  /\ UNCHANGED <<site, slices, gids, now>>

-----------------------------------------------------------------------------
Serve(u) ==
  \/ CreateLook(u) \/ CreateRead(u) \/ CreateMake(u)
  \/ RenewLook(u) \/ RenewRead(u) \/ RenewWrite(u) \/ RenewAtPg(u)
  \/ DeleteLook(u) \/ DeletePop(u)
  \/ ListLook(u) \/ ListSweep(u) \/ ListEnd(u)
  \/ ResolveLook(u) \/ ResolveRead(u) \/ UserCredential(u)
  \/ GetVersion(u) \/ ListAggregates(u) \/ GetKeys(u)

Tick ==
  /\ now < MaxTime
  /\ now' = now + 1
  /\ UNCHANGED <<site, slices, gids, call, answer>>

-----------------------------------------------------------------------------
(* Properties. *)

Registry == INSTANCE SliceRegistry

Deleted(s) == \E u \in User : call[u].op = "delete" /\ call[u].urn = s

\* A clearinghouse without threads keeps the promises of a registry: every step
\* on the table is a step of SliceRegistry.
KeepsPromises ==
  Registry!Init /\ [][site.threaded \/ site.kind \in {"chapi", "sfa"} \/ Registry!Next(Deleted)]_<<slices, now>>
=============================================================================
