-------------------------- MODULE OmniSlices_proofs --------------------------
(***************************************************************************)
(* Theorems about OmniSlices, for any users, slices, servers, commands and *)
(* bounds: the slice table keeps a slice's identity and its bound on life, *)
(* with threads and without; a server without threads implements           *)
(* SliceRegistry; and what a command reports or saves is what the server   *)
(* held for its slice while it ran.                                        *)
(***************************************************************************)
EXTENDS OmniSlices, TLAPS, SequenceTheorems, FiniteSetTheorems, NaturalsInduction,
        WellFoundedInduction

-----------------------------------------------------------------------------
(* Types. *)

Owners == User \cup {"none"}
Credential == [urn : Urn \cup {"none"}, gid : Nat, owner : Owners, exp : Int]

Ops ==
  {"create", "renew", "renew at pgch", "delete", "list", "resolve", "usercred", "keys",
   "aggregates", "version", "sa create", "sa credential", "sa lookup", "sa update",
   "sa members", "sa membership", "sa remove", "project members", "email", "ask"}
Purposes ==
  {"show", "save", "show if any", "save if any", "need", "find", "look", "cred", "confirm",
   "once", "made", "renew", "told", "each", "email"}
Places == {"none", "look", "read", "make", "write", "pop", "sweep"}
AnswerKinds == {"none", "yes", "no", "fault", "lost", "exists", "nothing"}

Command == [kind : Kinds, urn : Urn, exp : Nat, save : BOOLEAN]

Call == [op : Ops \cup {"none"}, urn : Urn \cup {"none"}, exp : Int, pc : Places,
         seen : Credential, left : SUBSET Credential]

Answer ==
  [kind : AnswerKinds, cred : Credential] \cup [kind : AnswerKinds, cred : Credential, size : Nat]

\* Calls that get a slice's credential or expiration, that change the latter, and
\* that count members; and the purposes for which a command makes them.
Gets == {"create", "sa credential", "sa lookup"}
Renews == {"renew", "sa update", "renew at pgch"}
Counts == {"sa members", "project members"}
Tellings == {"told", "confirm"}

Planned ==
  {p \in [op : Ops, for : Purposes] :
     /\ p.for \in {"save", "save if any", "told", "confirm"} => p.op \in Gets
     /\ p.for = "renew" => p.op \in Renews
     /\ p.for = "each" => p.op \in Counts}

\* Those of them from which no expiration is reported.
Quiet == {p \in Planned : p.for \notin Tellings}

Typing ==
  /\ site \in Sites /\ gids \in Nat /\ now \in Nat
  /\ slices \in [DOMAIN slices -> Credential]
  /\ members \in [Urn -> SUBSET User]
  /\ call \in [User -> Call]
  /\ answer \in [User -> Answer]
  /\ cmd \in [User -> Command \cup {NoCommand}]
  /\ plan \in [User -> Seq(Planned)]
  /\ file \in [User -> Credential]
  /\ told \in [User -> Int]
  /\ had \in [User -> SUBSET Credential]

-----------------------------------------------------------------------------
(* The invariant. *)

\* Who is under way at what.
UnderWay(u) ==
  /\ cmd[u] = NoCommand <=> plan[u] = <<>>
  /\ cmd[u] = NoCommand => call[u] = NoCall /\ answer[u] = NoAnswer /\ told[u] = NoTime
  /\ cmd[u] # NoCommand => (call[u] # NoCall) # (answer[u] # NoAnswer)
  /\ call[u] = NoCall <=> call[u].pc = "none"
  /\ call[u] # NoCall => /\ call[u].op = plan[u][1].op
                         /\ call[u].urn = cmd[u].urn /\ call[u].exp = cmd[u].exp

\* The tables: a slice is filed under its own URN and does not live too long.
Filed ==
  \A s \in DOMAIN slices :
    /\ s \in Urn /\ slices[s].urn = s
    /\ slices[s].owner \in User /\ slices[s].exp <= now + MaxLife

\* A gid is of one slice only, in the table and in what the threads have read.
Knows(g, s) ==
  /\ g # 0
  /\ \/ s \in DOMAIN slices /\ slices[s].gid = g
     \/ \E u \in User : call[u].seen.gid = g /\ call[u].urn = s

GidsMade ==
  /\ \A s \in DOMAIN slices : slices[s].gid # 0
  /\ \A u \in User : call[u].seen = NoCred \/ call[u].seen.gid # 0
  /\ \A u \in User : call[u].op = "renew" /\ call[u].pc = "write" => call[u].seen.gid # 0
  /\ \A g, s : Knows(g, s) => g \in 1..gids
  /\ \A g, s, x : Knows(g, s) /\ Knows(g, x) => s = x

\* A renewal under way was found to be within bounds.
Bounded(u) ==
  call[u].op = "renew" /\ call[u].pc \in {"read", "write"} => call[u].exp <= now + MaxLife

\* The slice was seen with the expiration the command asked for.
WasRenewed(u) == \E c \in had[u] : c.exp = cmd[u].exp

\* What a command was answered is what the server held while it ran.
Answered(u) ==
  answer[u].kind = "yes" =>
    /\ plan[u][1].op \in Gets => answer[u].cred \in had[u]
    /\ plan[u][1].op \in Renews => WasRenewed(u)
    /\ plan[u][1].op \in Counts => answer[u].size \in Nat

\* An expiration is to be reported only of what was renewed, and one that is
\* reported was held.
Reports(u) ==
  /\ plan[u] \in Seq(Quiet) \/ WasRenewed(u)
  /\ told[u] # NoTime => \E c \in had[u] : c.exp = told[u]

IInv ==
  /\ Typing /\ Filed /\ GidsMade
  /\ \A u \in User : UnderWay(u) /\ Bounded(u) /\ Answered(u) /\ Reports(u)

-----------------------------------------------------------------------------
(* Without threads, what the server has read is as it was. *)

Alone == ~site.threaded /\ site.kind \in {"gcf", "pg"}

Current(u) ==
  LET c == call[u] IN
  /\ c.op \in {"create", "renew"} /\ c.pc = "read" => Has(c.urn)
  /\ c.op = "create" /\ c.pc = "make" =>
       IF Has(c.urn) THEN c.seen = slices[c.urn] ELSE c.seen = NoCred
  /\ c.op = "renew" /\ c.pc = "write" => Has(c.urn) /\ c.seen = slices[c.urn]
  /\ c.op = "delete" /\ c.pc = "pop" => Has(c.urn)
  /\ c.op = "list" /\ c.pc = "sweep" =>
       \A x \in c.left : Has(x.urn) /\ slices[x.urn] = x

OneInside ==
  Alone => /\ \A u, v \in User : Inside(u) /\ Inside(v) => u = v
           /\ \A u \in User : Current(u)

-----------------------------------------------------------------------------
(* A step of the server at one call, in general: the thread goes on, having *)
(* read nothing new or the slice; or the call is answered.  The table stays *)
(* as it is, one slice is filed, or one is removed.                         *)

Reads(u, c) ==
  \/ c = NoCred \/ c = call[u].seen
  \/ Has(call[u].urn) /\ c = slices[call[u].urn]

GoesOn(u) ==
  /\ answer'[u] = answer[u]
  /\ call'[u].op = call[u].op /\ call'[u].urn = call[u].urn /\ call'[u].exp = call[u].exp
  /\ call'[u].pc \notin {"none", "look"}
  /\ Reads(u, call'[u].seen)
  /\ call[u].op = "renew" => call[u].exp <= now + MaxLife
  /\ call[u].op = "renew" /\ call'[u].pc = "write" => call'[u].seen.gid # 0

\* The answer is what now holds of the slice.
Ends(u) ==
  /\ call'[u] = NoCall /\ answer'[u].kind # "none"
  /\ answer'[u].kind = "yes" =>
       /\ call[u].op \in Gets =>
            call[u].urn \in DOMAIN slices' /\ answer'[u].cred = slices'[call[u].urn]
       /\ call[u].op \in Renews =>
            call[u].urn \in DOMAIN slices' /\ slices'[call[u].urn].exp = call[u].exp
       /\ call[u].op \in Counts => answer'[u].size \in Nat

Moves(u) ==
  /\ call' \in [User -> Call] /\ answer' \in [User -> Answer]
  /\ \A v \in User \ {u} : call'[v] = call[v] /\ answer'[v] = answer[v]
  /\ GoesOn(u) \/ Ends(u)

Stays == slices' = slices /\ gids' = gids

Files(s, c) ==
  /\ slices' = Put(s, c)
  /\ s \in Urn /\ c \in Credential /\ c.urn = s /\ c.owner \in User
  /\ c.exp <= now + MaxLife
  /\ (gids' = gids + 1 /\ c.gid = gids + 1) \/ (gids' = gids /\ Knows(c.gid, s))

Drops(s) == slices' = Without(s) /\ gids' = gids

Work(u) ==
  /\ site' = site /\ now' = now /\ members' \in [Urn -> SUBSET User]
  /\ call[u].pc # "none" /\ Scheduled(u)
  /\ Moves(u)
  /\ Stays \/ (\E s, c : Files(s, c)) \/ (\E s : Drops(s))

\* What the steps of the server need to know of the state.
Context(u) == Typing /\ Filed /\ GidsMade /\ UnderWay(u) /\ Bounded(u)

(* A call under way is that of the command, about a slice.                 *)
LEMMA InCall ==
  ASSUME NEW u \in User, Typing, UnderWay(u), call[u].pc # "none"
  PROVE  /\ cmd[u] \in Command /\ cmd[u] # NoCommand /\ plan[u] # <<>>
         /\ call[u].op = plan[u][1].op
         /\ call[u].urn = cmd[u].urn /\ call[u].urn \in Urn
         /\ call[u].exp = cmd[u].exp /\ call[u].exp \in Nat
         /\ answer[u] = NoAnswer
<1>1. call[u] # NoCall /\ cmd[u] # NoCommand
  BY DEF UnderWay
<1>2. cmd[u] \in Command
  BY <1>1 DEF Typing
<1>3. cmd[u].urn \in Urn /\ cmd[u].exp \in Nat
  BY <1>2 DEF Command
<1>4. QED BY <1>1, <1>2, <1>3 DEF UnderWay

(* NoCred and NoCall are well typed.                                       *)
LEMMA Nones ==
  /\ NoCred \in Credential /\ NoCall \in Call /\ NoCred.gid = 0
  /\ NoCall.pc = "none" /\ NoCall.seen = NoCred /\ NoCall.op = "none"
  /\ {No, Fault, Lost, NoAnswer, Exists, Nothing} \subseteq Answer
  /\ \A c \in Credential : Yes(c) \in Answer /\ Yes(c).kind = "yes" /\ Yes(c).cred = c
<1>1. NoCred \in Credential /\ NoCred.gid = 0
  BY DEF NoCred, Credential, Owners
<1>2. NoCall \in Call /\ NoCall.pc = "none" /\ NoCall.seen = NoCred /\ NoCall.op = "none"
  BY <1>1 DEF NoCall, Call, Ops, Places
<1>3. {No, Fault, Lost, NoAnswer, Exists, Nothing} \subseteq Answer
  BY <1>1 DEF No, Fault, Lost, NoAnswer, Exists, Nothing, Answer, AnswerKinds
<1>4. \A c \in Credential : Yes(c) \in Answer /\ Yes(c).kind = "yes" /\ Yes(c).cred = c
  BY DEF Yes, Answer, AnswerKinds
<1>5. QED BY <1>1, <1>2, <1>3, <1>4

(* Done: the call is over.                                                 *)
LEMMA DoneMoves ==
  ASSUME NEW u \in User, Typing, NEW a \in Answer, Done(u, a)
  PROVE  /\ call' \in [User -> Call] /\ answer' \in [User -> Answer]
         /\ \A v \in User \ {u} : call'[v] = call[v] /\ answer'[v] = answer[v]
         /\ call'[u] = NoCall /\ answer'[u] = a
BY Nones DEF Done, Typing

(* Goes: the thread goes on.                                               *)
LEMMA GoesMoves ==
  ASSUME NEW u \in User, Typing, NEW pc \in Places, NEW c \in Credential, Goes(u, pc, c)
  PROVE  /\ call' \in [User -> Call] /\ answer' \in [User -> Answer]
         /\ \A v \in User \ {u} : call'[v] = call[v] /\ answer'[v] = answer[v]
         /\ answer'[u] = answer[u]
         /\ call'[u].op = call[u].op /\ call'[u].urn = call[u].urn /\ call'[u].exp = call[u].exp
         /\ call'[u].pc = pc /\ call'[u].seen = c
<1>1. call[u] \in Call /\ call \in [User -> Call] /\ answer \in [User -> Answer]
  BY DEF Typing
<1>2. PICK w : w = [call[u] EXCEPT !.pc = pc, !.seen = c]
  OBVIOUS
<1>3. w \in Call /\ w.op = call[u].op /\ w.urn = call[u].urn /\ w.exp = call[u].exp
      /\ w.pc = pc /\ w.seen = c
  BY <1>1, <1>2 DEF Call
<1>4. call' = [call EXCEPT ![u] = w] /\ answer' = answer
  BY <1>2 DEF Goes
<1>5. QED BY <1>1, <1>3, <1>4

(* An answer that is no success says nothing.                              *)
LEMMA Refuses ==
  ASSUME NEW u \in User, Typing, NEW a \in {No, Fault, Exists, Nothing}, Done(u, a)
  PROVE  Moves(u)
<1>1. a \in Answer /\ a.kind \notin {"yes", "none"}
  BY Nones DEF No, Fault, Exists, Nothing
<1>2. QED BY <1>1, DoneMoves DEF Moves, Ends

(* A success of a call that neither gets, nor renews, nor counts.          *)
LEMMA Succeeds ==
  ASSUME NEW u \in User, Typing, Done(u, Yes(NoCred)),
         call[u].op \notin Gets \cup Renews \cup Counts
  PROVE  Moves(u)
<1>1. Yes(NoCred) \in Answer /\ Yes(NoCred).kind = "yes"
  BY Nones
<1>2. QED BY <1>1, DoneMoves DEF Moves, Ends

(* A credential that is in the table is one.                               *)
LEMMA InTable ==
  ASSUME Typing, Filed, GidsMade, NEW s, Has(s)
  PROVE  /\ slices[s] \in Credential /\ slices[s].gid # 0 /\ s \in Urn
         /\ Knows(slices[s].gid, s) /\ slices[s].urn = s /\ slices[s].owner \in User
         /\ slices[s].exp <= now + MaxLife
BY DEF Typing, Filed, GidsMade, Has, Knows

(* A thread goes on after reading nothing, or the slice.                   *)
LEMMA Continues ==
  ASSUME NEW u \in User, Typing, Filed, GidsMade,
         NEW pc \in {"read", "make", "write", "pop"}, NEW c,
         c = NoCred \/ (Has(call[u].urn) /\ c = slices[call[u].urn]),
         Goes(u, pc, c),
         call[u].op = "renew" => call[u].exp <= now + MaxLife /\ (pc = "write" => c # NoCred)
  PROVE  Moves(u)
<1>1. c \in Credential /\ (c # NoCred => c.gid # 0)
  BY Nones, InTable
<1>2. pc \in Places /\ pc \notin {"none", "look"}
  BY DEF Places
<1>3. GoesOn(u)
  BY <1>1, <1>2, GoesMoves DEF GoesOn, Reads
<1>4. QED BY <1>1, <1>2, <1>3, GoesMoves DEF Moves

(* A thread goes on after reading nothing.                                 *)
LEMMA GoesOnBlind ==
  ASSUME NEW u \in User, Typing, Filed, GidsMade,
         NEW pc \in {"read", "make", "pop"}, Goes(u, pc, NoCred),
         call[u].op = "renew" => call[u].exp <= now + MaxLife
  PROVE  Moves(u)
<1>1. pc \in {"read", "make", "write", "pop"} /\ pc # "write"
  OBVIOUS
<1>2. PICK c : c = NoCred
  OBVIOUS
<1>3. Goes(u, pc, c)
  BY <1>2
<1>4. call[u].op = "renew" => call[u].exp <= now + MaxLife /\ (pc = "write" => c # NoCred)
  BY <1>1
<1>5. c = NoCred \/ (Has(call[u].urn) /\ c = slices[call[u].urn])
  BY <1>2
<1>6. QED BY <1>1, <1>3, <1>4, <1>5, Continues

-----------------------------------------------------------------------------
(* The calls of the clearinghouse. *)

(* Filing a credential of the slice of the call.                           *)
LEMMA Filing ==
  ASSUME NEW u \in User, Context(u), call[u].pc # "none",
         NEW g \in Nat, NEW w \in User, NEW e \in Int, e <= now + MaxLife,
         slices' = Put(call[u].urn, Cred(call[u].urn, g, w, e)),
         (gids' = gids + 1 /\ g = gids + 1) \/ (gids' = gids /\ Knows(g, call[u].urn))
  PROVE  /\ \E s, c : Files(s, c)
         /\ Cred(call[u].urn, g, w, e) \in Credential
         /\ call[u].urn \in DOMAIN slices'
         /\ slices'[call[u].urn] = Cred(call[u].urn, g, w, e)
<1>1. call[u].urn \in Urn
  BY InCall DEF Context
<1>2. PICK s, c : s = call[u].urn /\ c = Cred(s, g, w, e)
  OBVIOUS
<1>3. c \in Credential /\ c.urn = s /\ c.owner = w /\ c.exp = e /\ c.gid = g
  BY <1>1, <1>2 DEF Cred, Credential, Owners
<1>4. slices' = Put(s, c) /\ ((gids' = gids + 1 /\ g = gids + 1) \/ (gids' = gids /\ Knows(g, s)))
  BY <1>2
<1>5. Files(s, c)
  BY <1>1, <1>2, <1>3, <1>4 DEF Files
<1>6. s \in DOMAIN slices' /\ slices'[s] = c
  BY <1>4 DEF Put
<1>7. QED BY <1>2, <1>3, <1>5, <1>6

LEMMA CreateWorks ==
  ASSUME NEW u \in User, Context(u), UNCHANGED members,
         CreateLook(u) \/ CreateRead(u) \/ CreateMake(u)
  PROVE  Work(u)
<1>1. /\ members' \in [Urn -> SUBSET User] /\ call[u].op = "create" /\ call[u].pc # "none"
      /\ Scheduled(u) /\ site' = site /\ now' = now
  BY DEF Context, Typing, CreateLook, CreateRead, CreateMake, At
<1>2. Typing /\ Filed /\ GidsMade
  BY DEF Context
<1>3. CASE CreateLook(u)
  <2>1. Stays
    BY <1>3 DEF CreateLook, Stays
  <2>2. PICK pc \in {"read", "make", "pop"} : Goes(u, pc, NoCred)
    BY <1>3 DEF CreateLook
  <2>3. Moves(u)
    BY <1>1, <1>2, <2>2, GoesOnBlind
  <2>4. QED BY <1>1, <2>1, <2>3 DEF Work
<1>4. CASE CreateRead(u)
  <2>1. Stays
    BY <1>4 DEF CreateRead, Stays
  <2>2. CASE ~Has(call[u].urn)
    <3>1. Done(u, Fault)
      BY <1>4, <2>2 DEF CreateRead
    <3>2. QED BY <1>2, <3>1, Refuses, <1>1, <2>1 DEF Work
  <2>3. CASE Has(call[u].urn) /\ slices[call[u].urn].exp > now
    <3>1. Done(u, Yes(slices[call[u].urn]))
      BY <1>4, <2>3 DEF CreateRead
    <3>2. slices[call[u].urn] \in Credential
      BY <1>2, <2>3, InTable
    <3>3. Yes(slices[call[u].urn]) \in Answer /\ Yes(slices[call[u].urn]).kind = "yes"
          /\ Yes(slices[call[u].urn]).cred = slices[call[u].urn]
      BY <3>2, Nones
    <3>4. Ends(u)
      BY <1>1, <1>2, <2>1, <2>3, <3>1, <3>3, DoneMoves DEF Ends, Renews, Counts, Stays, Has
    <3>5. Moves(u)
      BY <1>2, <3>1, <3>3, <3>4, DoneMoves DEF Moves
    <3>6. QED BY <1>1, <2>1, <3>5 DEF Work
  <2>4. CASE Has(call[u].urn) /\ ~(slices[call[u].urn].exp > now)
    <3>1. Goes(u, "make", slices[call[u].urn])
      BY <1>4, <2>4 DEF CreateRead
    <3>2. Moves(u)
      BY <1>1, <1>2, <2>4, <3>1, Continues
    <3>3. QED BY <1>1, <2>1, <3>2 DEF Work
  <2>5. QED BY <2>2, <2>3, <2>4
<1>5. CASE CreateMake(u)
  <2> DEFINE old == call[u].seen
             g == IF old = NoCred THEN gids + 1 ELSE old.gid
             c == Cred(call[u].urn, g, u, now + CredLife)
  <2>1. slices' = Put(call[u].urn, c) /\ Done(u, Yes(c))
        /\ gids' = IF old = NoCred THEN gids + 1 ELSE gids
    BY <1>5 DEF CreateMake
  <2>2. old \in Credential /\ gids \in Nat /\ now \in Nat
    BY <1>2 DEF Typing, Call
  <2>3. g \in Nat
    BY <2>2 DEF Credential
  <2>4. now + CredLife \in Int /\ now + CredLife <= now + MaxLife
    BY <2>2, ClearinghouseAssumption
  <2>5. old # NoCred => Knows(old.gid, call[u].urn)
    BY <1>2 DEF GidsMade, Knows
  <2>6. (gids' = gids + 1 /\ g = gids + 1) \/ (gids' = gids /\ Knows(g, call[u].urn))
    <3>1. CASE old = NoCred
      <4>1. gids' = gids + 1
        BY <2>1, <3>1
      <4>2. g = gids + 1
        BY <3>1
      <4>3. QED BY <4>1, <4>2
    <3>2. CASE old # NoCred
      <4>1. g = old.gid /\ gids' = gids
        BY <2>1, <3>2
      <4>2. QED BY <2>5, <3>2, <4>1
    <3>3. QED BY <3>1, <3>2
  <2> HIDE DEF g
  <2>7. /\ \E s, d : Files(s, d)
        /\ c \in Credential /\ call[u].urn \in DOMAIN slices' /\ slices'[call[u].urn] = c
    BY <1>1, <2>1, <2>3, <2>4, <2>6, Filing
  <2> HIDE DEF c
  <2>8. Yes(c) \in Answer /\ Yes(c).kind = "yes" /\ Yes(c).cred = c
    BY <2>7, Nones
  <2>9. Ends(u)
    BY <1>1, <1>2, <2>1, <2>7, <2>8, DoneMoves DEF Ends, Renews, Counts
  <2>10. Moves(u)
    BY <1>2, <2>1, <2>8, <2>9, DoneMoves DEF Moves
  <2>11. QED BY <1>1, <2>7, <2>10 DEF Work
<1>6. QED BY <1>3, <1>4, <1>5

LEMMA RenewWorks ==
  ASSUME NEW u \in User, Context(u), UNCHANGED members,
         RenewLook(u) \/ RenewRead(u) \/ RenewWrite(u) \/ RenewAtPg(u)
  PROVE  Work(u)
<1>1. /\ members' \in [Urn -> SUBSET User] /\ call[u].op \in {"renew", "renew at pgch"}
      /\ call[u].pc # "none" /\ Scheduled(u) /\ site' = site /\ now' = now
  BY DEF Context, Typing, RenewLook, RenewRead, RenewWrite, RenewAtPg, At
<1>2. Typing /\ Filed /\ GidsMade /\ Bounded(u)
  BY DEF Context
<1>3. CASE RenewLook(u)
  <2>1. Stays
    BY <1>3 DEF RenewLook, Stays
  <2>2. CASE Goes(u, "read", NoCred) /\ call[u].exp <= now + MaxLife
    BY <1>1, <1>2, <2>1, <2>2, GoesOnBlind DEF Work
  <2>3. CASE Done(u, No)
    BY <1>1, <1>2, <2>1, <2>3, Refuses DEF Work
  <2>4. QED BY <1>3, <2>2, <2>3 DEF RenewLook
<1>4. CASE RenewRead(u)
  <2>1. Stays
    BY <1>4 DEF RenewRead, Stays
  <2>2. call[u].op = "renew" /\ call[u].exp <= now + MaxLife
    BY <1>2, <1>4 DEF RenewRead, At, Bounded
  <2>3. CASE Has(call[u].urn)
    <3>1. Goes(u, "write", slices[call[u].urn])
      BY <1>4, <2>3 DEF RenewRead
    <3>2. slices[call[u].urn] # NoCred
      BY <1>2, <2>3, InTable, Nones
    <3>3. Moves(u)
      BY <1>2, <2>2, <2>3, <3>1, <3>2, Continues
    <3>4. QED BY <1>1, <2>1, <3>3 DEF Work
  <2>4. CASE ~Has(call[u].urn)
    <3>1. Done(u, Fault)
      BY <1>4, <2>4 DEF RenewRead
    <3>2. QED BY <1>1, <1>2, <2>1, <3>1, Refuses DEF Work
  <2>5. QED BY <2>3, <2>4
<1>5. CASE RenewWrite(u)
  <2> DEFINE g == call[u].seen.gid
             c == Cred(call[u].urn, g, u, call[u].exp)
  <2>1. slices' = Put(call[u].urn, c) /\ Done(u, Yes(NoCred)) /\ gids' = gids
        /\ call[u].op = "renew" /\ call[u].pc = "write"
    BY <1>5 DEF RenewWrite, At
  <2>2. g \in Nat /\ call[u].exp \in Int
    BY <1>2 DEF Typing, Call, Credential
  <2>3. call[u].exp <= now + MaxLife
    BY <1>2, <2>1 DEF Bounded
  <2>4. Knows(g, call[u].urn)
    BY <1>2, <2>1 DEF GidsMade, Knows
  <2> HIDE DEF g
  <2>5. /\ \E s, d : Files(s, d)
        /\ call[u].urn \in DOMAIN slices' /\ slices'[call[u].urn] = c
    BY <1>1, <2>1, <2>2, <2>3, <2>4, Filing
  <2>6. slices'[call[u].urn].exp = call[u].exp
    BY <2>5 DEF Cred
  <2>7. Yes(NoCred) \in Answer /\ Yes(NoCred).kind = "yes"
    BY Nones
  <2>8. Ends(u)
    BY <1>2, <2>1, <2>5, <2>6, <2>7, DoneMoves DEF Ends, Gets, Counts
  <2>9. Moves(u)
    BY <1>2, <2>1, <2>7, <2>8, DoneMoves DEF Moves
  <2>10. QED BY <1>1, <2>5, <2>9 DEF Work
<1>6. CASE RenewAtPg(u)
  BY <1>1, <1>2, <1>6, Refuses DEF RenewAtPg, Stays, Work
<1>7. QED BY <1>3, <1>4, <1>5, <1>6

LEMMA DeleteWorks ==
  ASSUME NEW u \in User, Context(u), UNCHANGED members, DeleteLook(u) \/ DeletePop(u)
  PROVE  Work(u)
<1>1. /\ members' \in [Urn -> SUBSET User] /\ call[u].op = "delete"
      /\ call[u].pc # "none" /\ Scheduled(u) /\ site' = site /\ now' = now
  BY DEF Context, Typing, DeleteLook, DeletePop, At
<1>2. Typing /\ Filed /\ GidsMade /\ call[u].op \notin Gets \cup Renews \cup Counts
  BY <1>1 DEF Context, Gets, Renews, Counts
<1>3. CASE DeleteLook(u)
  <2>1. Stays
    BY <1>3 DEF DeleteLook, Stays
  <2>2. CASE Goes(u, "pop", NoCred)
    BY <1>1, <1>2, <2>1, <2>2, GoesOnBlind DEF Work
  <2>3. CASE Done(u, No)
    BY <1>1, <1>2, <2>1, <2>3, Refuses DEF Work
  <2>4. QED BY <1>3, <2>2, <2>3 DEF DeleteLook
<1>4. CASE DeletePop(u) /\ Has(call[u].urn)
  <2>1. Drops(call[u].urn) /\ Done(u, Yes(NoCred))
    BY <1>4 DEF DeletePop, Drops
  <2>2. Moves(u)
    BY <1>2, <2>1, Succeeds
  <2>3. QED BY <1>1, <2>1, <2>2 DEF Work
<1>5. CASE DeletePop(u) /\ ~Has(call[u].urn)
  <2>1. Stays /\ Done(u, Fault)
    BY <1>5 DEF DeletePop, Stays
  <2>2. QED BY <1>1, <1>2, <2>1, Refuses DEF Work
<1>6. QED BY <1>3, <1>4, <1>5

LEMMA ListWorks ==
  ASSUME NEW u \in User, Context(u), UNCHANGED members,
         ListLook(u) \/ ListSweep(u) \/ ListEnd(u)
  PROVE  Work(u)
<1>1. /\ members' \in [Urn -> SUBSET User] /\ call[u].op = "list"
      /\ call[u].pc # "none" /\ Scheduled(u) /\ site' = site /\ now' = now
  BY DEF Context, Typing, ListLook, ListSweep, ListEnd, At
<1>2. Typing /\ Filed /\ GidsMade /\ call[u].op \notin Gets \cup Renews \cup Counts
      /\ call[u] \in Call /\ call \in [User -> Call] /\ answer \in [User -> Answer]
  BY <1>1 DEF Context, Gets, Renews, Counts, Typing
<1>3. ASSUME NEW l \in SUBSET Credential, NEW w, w = [call[u] EXCEPT !.pc = "sweep", !.left = l],
             call' = [call EXCEPT ![u] = w], answer' = answer
      PROVE  Moves(u)
  <2>1. /\ w \in Call /\ w.op = call[u].op /\ w.urn = call[u].urn /\ w.exp = call[u].exp
        /\ w.pc = "sweep" /\ w.seen = call[u].seen
    BY <1>2, <1>3 DEF Call, Places
  <2>2. call' \in [User -> Call] /\ call'[u] = w /\ \A v \in User \ {u} : call'[v] = call[v]
    BY <1>2, <1>3, <2>1
  <2>3. GoesOn(u)
    BY <1>1, <1>3, <2>1, <2>2 DEF GoesOn, Reads
  <2>4. QED BY <1>2, <1>3, <2>2, <2>3 DEF Moves
<1>4. CASE ListLook(u)
  <2> DEFINE mine == {slices[s] : s \in {x \in DOMAIN slices : slices[x].owner = u}}
  <2>1. mine \in SUBSET Credential
    BY <1>2 DEF Typing
  <2> HIDE DEF mine
  <2>2. call' = [call EXCEPT ![u] = [call[u] EXCEPT !.pc = "sweep", !.left = mine]]
        /\ answer' = answer
    BY <1>4 DEF ListLook, mine
  <2>3. Moves(u)
    BY <1>3, <2>1, <2>2
  <2>4. QED BY <1>1, <1>4, <2>3 DEF ListLook, Stays, Work
<1>5. CASE ListSweep(u)
  <2>1. PICK c \in call[u].left :
          IF c.exp <= now /\ ~Has(c.urn) THEN Done(u, Fault) /\ UNCHANGED slices
          ELSE /\ slices' = IF c.exp <= now THEN Without(c.urn) ELSE slices
               /\ call' = [call EXCEPT ![u].left = @ \ {c}]
               /\ UNCHANGED answer
    BY <1>5 DEF ListSweep
  <2>2. gids' = gids /\ call[u].pc = "sweep"
    BY <1>5 DEF ListSweep, At
  <2>3. CASE c.exp <= now /\ ~Has(c.urn)
    BY <1>1, <1>2, <2>1, <2>2, <2>3, Refuses DEF Stays, Work
  <2>4. CASE ~(c.exp <= now /\ ~Has(c.urn))
    <3> DEFINE l == call[u].left \ {c}
    <3>1. l \in SUBSET Credential
      BY <1>2 DEF Call
    <3>2. call' = [call EXCEPT ![u] = [call[u] EXCEPT !.left = l]] /\ answer' = answer
      BY <2>1, <2>4
    <3>3. [call[u] EXCEPT !.left = l] = [call[u] EXCEPT !.pc = "sweep", !.left = l]
      BY <1>2, <2>2 DEF Call
    <3> HIDE DEF l
    <3>4. Moves(u)
      BY <1>3, <3>1, <3>2, <3>3
    <3>5. Stays \/ Drops(c.urn)
      BY <2>1, <2>2, <2>4 DEF Stays, Drops
    <3>6. QED BY <1>1, <3>4, <3>5 DEF Work
  <2>5. QED BY <2>3, <2>4
<1>6. CASE ListEnd(u)
  BY <1>1, <1>2, <1>6, Succeeds DEF ListEnd, Stays, Work
<1>7. QED BY <1>4, <1>5, <1>6

LEMMA OtherWorks ==
  ASSUME NEW u \in User, Context(u), UNCHANGED members,
         ResolveLook(u) \/ ResolveRead(u) \/ UserCredential(u)
         \/ GetVersion(u) \/ ListAggregates(u) \/ GetKeys(u)
  PROVE  Work(u)
<1>1. /\ members' \in [Urn -> SUBSET User]
      /\ call[u].op \in {"resolve", "usercred", "version", "aggregates", "keys"}
      /\ call[u].pc # "none" /\ Scheduled(u) /\ site' = site /\ now' = now /\ Stays
  BY DEF Context, Typing, ResolveLook, ResolveRead, UserCredential, GetVersion, ListAggregates,
         GetKeys, At, Stays
<1>2. Typing /\ Filed /\ GidsMade /\ call[u].op \notin Gets \cup Renews \cup Counts
  BY <1>1 DEF Context, Gets, Renews, Counts
<1>3. Goes(u, "read", NoCred) \/ Done(u, Fault) \/ Done(u, Yes(NoCred))
  BY DEF ResolveLook, ResolveRead, UserCredential, GetVersion, ListAggregates, GetKeys
<1>4. CASE Goes(u, "read", NoCred)
  BY <1>1, <1>2, <1>4, GoesOnBlind DEF Work
<1>5. CASE Done(u, Fault)
  BY <1>1, <1>2, <1>5, Refuses DEF Work
<1>6. CASE Done(u, Yes(NoCred))
  BY <1>1, <1>2, <1>6, Succeeds DEF Work
<1>7. QED BY <1>3, <1>4, <1>5, <1>6

LEMMA ServeWorks ==
  ASSUME NEW u \in User, Context(u), UNCHANGED members, Serve(u)
  PROVE  Work(u)
BY CreateWorks, RenewWorks, DeleteWorks, ListWorks, OtherWorks DEF Serve

-----------------------------------------------------------------------------
(* The calls of the other authorities. *)

LEMMA SaCreateWorks ==
  ASSUME NEW u \in User, Context(u), UNCHANGED <<site, now>>, SaCreate(u)
  PROVE  Work(u)
<1> DEFINE s == call[u].urn
           c == Cred(s, gids + 1, u, now + CredLife)
<1>1. Typing /\ Filed /\ GidsMade /\ call[u].op = "sa create" /\ call[u].pc # "none" /\ Scheduled(u)
  BY DEF Context, SaCreate, Serves, At
<1>2. CASE Live(s)
  <2>1. Done(u, Exists) /\ UNCHANGED <<slices, gids, members>>
    BY <1>2 DEF SaCreate, Serves
  <2>2. Moves(u)
    BY <1>1, <2>1, Refuses
  <2>3. QED BY <1>1, <2>1, <2>2 DEF Work, Stays, Typing
<1>3. CASE ~Live(s)
  <2>1. /\ Done(u, Yes(c)) /\ gids' = gids + 1 /\ slices' = Put(s, c)
        /\ members' = [members EXCEPT ![s] = {u}]
    BY <1>3 DEF SaCreate, Serves
  <2>2. gids \in Nat /\ now \in Nat /\ members' \in [Urn -> SUBSET User]
    BY <1>1, <2>1 DEF Typing
  <2>3. now + CredLife \in Int /\ now + CredLife <= now + MaxLife /\ gids + 1 \in Nat
    BY <2>2, ClearinghouseAssumption
  <2>4. PICK g : g = gids + 1
    OBVIOUS
  <2>5. /\ \E t, d : Files(t, d)
        /\ c \in Credential /\ s \in DOMAIN slices' /\ slices'[s] = c
    <3>1. g \in Nat /\ gids' = gids + 1 /\ g = gids + 1
      BY <2>1, <2>3, <2>4
    <3>2. c = Cred(s, g, u, now + CredLife)
      BY <2>4
    <3>3. slices' = Put(s, Cred(s, g, u, now + CredLife))
      BY <2>1, <3>2
    <3>4. QED BY <1>1, <2>3, <3>1, <3>2, <3>3, Filing
  <2> HIDE DEF c
  <2>6. Yes(c) \in Answer /\ Yes(c).kind = "yes" /\ Yes(c).cred = c
    BY <2>5, Nones
  <2>7. Ends(u)
    BY <1>1, <2>1, <2>5, <2>6, DoneMoves DEF Ends, Renews, Counts
  <2>8. Moves(u)
    BY <1>1, <2>1, <2>6, <2>7, DoneMoves DEF Moves
  <2>9. QED BY <1>1, <2>2, <2>5, <2>8 DEF Work
<1>4. QED BY <1>2, <1>3

LEMMA SaUpdateWorks ==
  ASSUME NEW u \in User, Context(u), UNCHANGED <<site, now>>, SaUpdate(u)
  PROVE  Work(u)
<1> DEFINE s == call[u].urn
           e == call[u].exp
<1>1. /\ Typing /\ Filed /\ GidsMade /\ UnderWay(u) /\ call[u].op = "sa update"
      /\ call[u].pc # "none" /\ Scheduled(u) /\ UNCHANGED <<gids, members>>
  BY DEF Context, SaUpdate, Serves, At
<1>2. CASE ~(MayUse(u, s) /\ e >= now /\ e <= now + MaxLife)
  <2>1. Done(u, No) /\ UNCHANGED <<slices, gids, members>>
    BY <1>2 DEF SaUpdate, Serves
  <2>2. Moves(u)
    BY <1>1, <2>1, Refuses
  <2>3. QED BY <1>1, <2>1, <2>2 DEF Work, Stays, Typing
<1>3. CASE MayUse(u, s) /\ e >= now /\ e <= now + MaxLife
  <2>1. Done(u, Yes(NoCred)) /\ slices' = [slices EXCEPT ![s].exp = e]
    BY <1>3 DEF SaUpdate, Serves
  <2>2. Has(s) /\ e \in Nat
    BY <1>1, <1>3, InCall DEF MayUse, Live
  <2>3. slices[s] \in Credential /\ Knows(slices[s].gid, s) /\ slices[s].urn = s
        /\ slices[s].owner \in User /\ s \in Urn
    BY <1>1, <2>2, InTable
  <2>4. slices' = Put(s, Cred(s, slices[s].gid, slices[s].owner, e))
    <3>1. [slices[s] EXCEPT !.exp = e] = Cred(s, slices[s].gid, slices[s].owner, e)
      BY <2>3 DEF Credential, Cred
    <3>2. PICK d : d = [slices[s] EXCEPT !.exp = e]
      OBVIOUS
    <3>3. slices' = [slices EXCEPT ![s] = d]
      BY <2>1, <3>2
    <3>4. slices \in [DOMAIN slices -> Credential] /\ s \in DOMAIN slices
      BY <1>1, <2>2 DEF Typing, Has
    <3>5. slices' = Put(s, d)
      BY <3>3, <3>4 DEF Put
    <3>6. QED BY <3>1, <3>2, <3>5
  <2>5. slices[s].gid \in Nat /\ e \in Int /\ e <= now + MaxLife
    BY <1>3, <2>2, <2>3 DEF Credential
  <2> DEFINE c == Cred(s, slices[s].gid, slices[s].owner, e)
  <2>6. /\ \E t, d : Files(t, d)
        /\ s \in DOMAIN slices' /\ slices'[s] = c
    BY <1>1, <2>3, <2>4, <2>5, Filing
  <2>7. slices'[s].exp = e
    BY <2>6 DEF Cred
  <2>8. Yes(NoCred) \in Answer /\ Yes(NoCred).kind = "yes"
    BY Nones
  <2>9. Ends(u)
    BY <1>1, <2>1, <2>6, <2>7, <2>8, DoneMoves DEF Ends, Gets, Counts
  <2>10. Moves(u)
    BY <1>1, <2>1, <2>8, <2>9, DoneMoves DEF Moves
  <2>11. QED BY <1>1, <2>6, <2>10 DEF Work, Typing
<1>4. QED BY <1>2, <1>3

LEMMA SaMembershipWorks ==
  ASSUME NEW u \in User, Context(u), UNCHANGED <<site, now>>, SaMembership(u)
  PROVE  Work(u)
<1>1. /\ Typing /\ call[u].op = "sa membership" /\ call[u].pc # "none" /\ Scheduled(u) /\ Stays
      /\ call[u].op \notin Gets \cup Renews \cup Counts
  BY DEF Context, SaMembership, Serves, At, Stays, Gets, Renews, Counts
<1>2. members' \in [Urn -> SUBSET User]
  <2> DEFINE s == call[u].urn
  <2>1. s \in Urn /\ members \in [Urn -> SUBSET User]
    BY <1>1, InCall DEF Context, Typing
  <2>2. members' = members
        \/ \E v \in User : \/ members' = [members EXCEPT ![s] = members[s] \cup {v}]
                          \/ members' = [members EXCEPT ![s] = members[s] \ {v}]
    BY DEF SaMembership
  <2> HIDE DEF s
  <2>3. CASE members' = members
    BY <2>1, <2>3
  <2>4. ASSUME NEW S \in SUBSET User, members' = [members EXCEPT ![s] = S]
        PROVE  members' \in [Urn -> SUBSET User]
    BY <2>1, <2>4
  <2>5. members[s] \in SUBSET User
    BY <2>1
  <2>6. ASSUME NEW v \in User
        PROVE  members[s] \cup {v} \in SUBSET User /\ members[s] \ {v} \in SUBSET User
    BY <2>5
  <2>7. QED BY <2>2, <2>3, <2>4, <2>6
<1>3. Done(u, No) \/ Done(u, Yes(NoCred))
  BY DEF SaMembership, Serves
<1>4. Moves(u)
  BY <1>1, <1>3, Refuses, Succeeds
<1>5. QED BY <1>1, <1>2, <1>4 DEF Work

(* A number of members is a number.                                        *)
LEMMA Counted ==
  ASSUME NEW S \in SUBSET User
  PROVE  AllOf(S) \in Answer /\ AllOf(S).kind = "yes" /\ AllOf(S).size \in Nat
<1>1. Cardinality(S) \in Nat
  BY SlicesAssumption, FS_Subset, FS_CardinalityType
<1>2. QED BY <1>1, Nones DEF AllOf, Answer, AnswerKinds

LEMMA SaReadWorks ==
  ASSUME NEW u \in User, Context(u), UNCHANGED <<site, now>>, SaRead(u)
  PROVE  Work(u)
<1> DEFINE s == call[u].urn
<1>1. /\ Typing /\ Filed /\ GidsMade /\ UnderWay(u) /\ Stays /\ members' = members
      /\ call[u].pc # "none" /\ Scheduled(u)
  BY DEF Context, SaRead, Serves, At, Stays
<1>2. s \in Urn
  BY <1>1, InCall
<1>3. ASSUME Moves(u)
      PROVE  Work(u)
  BY <1>1, <1>3 DEF Work, Typing
<1>4. ASSUME call[u].op \in Gets, Has(s), Done(u, Yes(slices[s]))
      PROVE  Moves(u)
  <2>1. slices[s] \in Credential
    BY <1>1, <1>4, InTable
  <2>2. Yes(slices[s]) \in Answer /\ Yes(slices[s]).kind = "yes" /\ Yes(slices[s]).cred = slices[s]
    BY <2>1, Nones
  <2>3. Ends(u)
    BY <1>1, <1>4, <2>2, DoneMoves DEF Ends, Gets, Renews, Counts, Stays, Has
  <2>4. QED BY <1>1, <1>4, <2>2, <2>3, DoneMoves DEF Moves
<1>5. ASSUME NEW S \in SUBSET User, call[u].op \in Counts, Done(u, AllOf(S))
      PROVE  Moves(u)
  <2>1. Ends(u)
    BY <1>1, <1>5, Counted, DoneMoves DEF Ends, Gets, Renews, Counts
  <2>2. QED BY <1>1, <1>5, <2>1, Counted, DoneMoves DEF Moves
<1>6. CASE Serves(u, "sa credential", IF MayUse(u, s) THEN Yes(slices[s]) ELSE No)
           \/ Serves(u, "sa lookup", IF Live(s) THEN Yes(slices[s]) ELSE No)
  <2>1. call[u].op \in Gets
    BY <1>6 DEF Serves, At, Gets
  <2>2. (Has(s) /\ Done(u, Yes(slices[s]))) \/ Done(u, No)
    BY <1>6 DEF Serves, MayUse, Live
  <2>3. QED BY <1>1, <1>3, <1>4, <2>1, <2>2, Refuses
<1>7. CASE Serves(u, "sa members", IF MayUse(u, s) THEN AllOf(members[s]) ELSE No)
  <2>1. call[u].op \in Counts
    BY <1>7 DEF Serves, At, Counts
  <2>2. members[s] \in SUBSET User
    BY <1>1, <1>2 DEF Typing
  <2>3. Done(u, AllOf(members[s])) \/ Done(u, No)
    BY <1>7 DEF Serves
  <2>4. QED BY <1>1, <1>3, <1>5, <2>1, <2>2, <2>3, Refuses
<1>8. CASE \E S \in SUBSET User : Serves(u, "project members", AllOf(S))
  <2>1. PICK S \in SUBSET User : Serves(u, "project members", AllOf(S))
    BY <1>8
  <2>2. call[u].op \in Counts /\ Done(u, AllOf(S))
    BY <2>1 DEF Serves, At, Counts
  <2>3. QED BY <1>3, <1>5, <2>2
<1>9. CASE (\E a \in {Yes(NoCred), No, Nothing} : Serves(u, "email", a))
           \/ (\E a \in {Yes(NoCred), No} : Serves(u, "ask", a))
  <2>1. call[u].op \notin Gets \cup Renews \cup Counts
    BY <1>9 DEF Serves, At, Gets, Renews, Counts
  <2>2. Done(u, Yes(NoCred)) \/ Done(u, No) \/ Done(u, Nothing)
    BY <1>9 DEF Serves
  <2>3. QED BY <1>1, <1>3, <2>1, <2>2, Refuses, Succeeds
<1>10. QED BY <1>6, <1>7, <1>8, <1>9 DEF SaRead

LEMMA RegistryWorks ==
  ASSUME NEW u \in User, Context(u), RegistryRemove(u)
  PROVE  Work(u)
<1> DEFINE s == call[u].urn
<1>1. /\ Typing /\ call[u].op = "sa remove" /\ call[u].pc # "none" /\ Scheduled(u)
      /\ UNCHANGED <<site, now, gids>>
      /\ call[u].op \notin Gets \cup Renews \cup Counts
  BY DEF Context, RegistryRemove, Serves, At, Gets, Renews, Counts
<1>2. CASE Has(s)
  <2>1. /\ Done(u, Yes(NoCred)) /\ slices' = Without(s)
        /\ members' = [members EXCEPT ![s] = {}]
    BY <1>2 DEF RegistryRemove, Serves
  <2>2. members' \in [Urn -> SUBSET User]
    BY <1>1, <2>1 DEF Typing
  <2>3. Drops(s) /\ Moves(u)
    BY <1>1, <2>1, Succeeds DEF Drops
  <2>4. QED BY <1>1, <2>2, <2>3 DEF Work
<1>3. CASE ~Has(s)
  <2>1. Done(u, No) /\ UNCHANGED <<slices, members>>
    BY <1>3 DEF RegistryRemove, Serves
  <2>2. Stays /\ Moves(u)
    BY <1>1, <2>1, Refuses DEF Stays
  <2>3. QED BY <1>1, <2>1, <2>2 DEF Work, Typing
<1>4. QED BY <1>2, <1>3

(* Every step of a server is of the general form.                          *)
LEMMA ServedWorks ==
  ASSUME NEW u \in User, Context(u), Served(u)
  PROVE  Work(u)
<1>1. CASE Serve(u) /\ UNCHANGED members
  BY <1>1, ServeWorks
<1>2. CASE ServeAuthority(u)
  <2>1. UNCHANGED <<site, now>> /\ (SaCreate(u) \/ SaUpdate(u) \/ SaMembership(u) \/ SaRead(u))
    BY <1>2 DEF ServeAuthority
  <2>2. QED BY <2>1, SaCreateWorks, SaUpdateWorks, SaMembershipWorks, SaReadWorks
<1>3. CASE RegistryRemove(u)
  BY <1>3, RegistryWorks
<1>4. QED BY <1>1, <1>2, <1>3 DEF Served

-----------------------------------------------------------------------------
(* Plans. *)

(* Sequences over a set.                                                   *)
LEMMA Closed ==
  ASSUME NEW S
  PROVE  /\ <<>> \in Seq(S)
         /\ \A a \in S : <<a>> \in Seq(S)
         /\ \A a, b \in S : <<a, b>> \in Seq(S)
         /\ \A a, b, c \in S : <<a, b, c>> \in Seq(S)
         /\ \A q, r \in Seq(S) : q \o r \in Seq(S)
         /\ \A q \in Seq(S), a \in S : Append(q, a) \in Seq(S)
<1>1. <<>> \in Seq(S)
  OBVIOUS
<1>2. \A a \in S : <<a>> \in Seq(S)
  OBVIOUS
<1>3. \A a, b \in S : <<a, b>> \in Seq(S)
  OBVIOUS
<1>4. \A a, b, c \in S : <<a, b, c>> \in Seq(S)
  OBVIOUS
<1>5. \A q, r \in Seq(S) : q \o r \in Seq(S)
  BY ConcatProperties
<1>6. \A q \in Seq(S), a \in S : Append(q, a) \in Seq(S)
  OBVIOUS
<1>7. QED BY <1>1, <1>2, <1>3, <1>4, <1>5, <1>6

(* The rest of a sequence, also of an empty one.                           *)
LEMMA TailClosed ==
  ASSUME NEW S, NEW q \in Seq(S)
  PROVE  Tail(q) \in Seq(S)
<1>1. CASE q # <<>>
  BY <1>1, HeadTailProperties
<1>2. CASE q = <<>>
  <2>1. Tail(q) = <<>>
    BY <1>2
  <2>2. QED BY <2>1, Closed
<1>3. QED BY <1>1, <1>2

(* A set of natural numbers that is not empty has a least one.             *)
LEMMA LeastNatural ==
  ASSUME NEW S \in SUBSET Nat, S # {}
  PROVE  \E m \in S : \A k \in S : m <= k
<1>1. PICK m \in S : \A k \in S : <<k, m>> \notin OpToRel(<, Nat)
  BY NatLessThanWellFounded, WFMin
<1>2. \A k \in S : ~(k < m)
  BY <1>1 DEF OpToRel
<1>3. QED BY <1>2

(* What is still needed of a plan is of the same calls.                    *)
LEMMA NeededClosed ==
  ASSUME NEW u, NEW S, NEW q \in Seq(S)
  PROVE  Needed(u, q) \in Seq(S)
<1> DEFINE I == {i \in 1..Len(q) : q[i].op # "usercred"}
           next == SelectInSeq(q, LAMBDA p : p.op # "usercred")
<1>1. next = IF I # {} THEN Min(I) ELSE 0
  BY DEF SelectInSeq
<1>2. CASE I = {}
  <2>1. next = 0
    BY <1>1, <1>2
  <2>2. Needed(u, q) = q \/ Needed(u, q) = <<>>
    BY <2>1 DEF Needed
  <2>3. QED BY <2>2, Closed
<1>3. CASE I # {}
  <2>1. \A i \in I : i \in 1..Len(q)
    OBVIOUS
  <2>2. Len(q) \in Nat /\ \A i \in 1..Len(q) : q[i] \in S
    OBVIOUS
  <2> HIDE DEF I
  <2>3. I \in SUBSET Nat
    BY <2>1, <2>2
  <2>4. \E m \in I : \A k \in I : m <= k
    BY <1>3, <2>3, LeastNatural
  <2>5. Min(I) \in I
    BY <2>4 DEF Min
  <2>6. next \in 1..Len(q)
    BY <1>1, <1>3, <2>1, <2>5
  <2> HIDE DEF next
  <2>7. PICK n : n = next
    OBVIOUS
  <2>8. SubSeq(q, n, Len(q)) \in Seq(S)
    BY <2>2, <2>6, <2>7, SubSeqProperties
  <2>9. Needed(u, q) = q \/ Needed(u, q) = <<>> \/ Needed(u, q) = SubSeq(q, n, Len(q))
    BY <2>7 DEF Needed, next
  <2>10. QED BY <2>8, <2>9, Closed
<1>4. QED BY <1>2, <1>3

Asked == {"show", "save"}
AskedIfAny == {"show if any", "save if any"}

(* A call with its purpose.                                                *)
LEMMA OpIsPlanned ==
  ASSUME NEW o \in Ops, NEW f \in Purposes,
         f \in {"save", "save if any", "told", "confirm"} => o \in Gets,
         f = "renew" => o \in Renews, f = "each" => o \in Counts
  PROVE  Op(o, f) \in Planned /\ (f \notin Tellings => Op(o, f) \in Quiet)
BY DEF Op, Planned, Quiet

(* The calls of the frameworks, with what they are made for.               *)
LEMMA CallsQuiet ==
  /\ \A f \in Asked \cup AskedIfAny \cup {"cred", "need"} :
       Op("create", f) \in Quiet /\ Op("sa credential", f) \in Quiet
  /\ \A f \in {"show", "need", "cred", "once"} : Op("usercred", f) \in Quiet
  /\ \A f \in {"find", "look"} : Op("resolve", f) \in Quiet
  /\ \A o \in Renews : Op(o, "renew") \in Quiet
  /\ \A o \in {"delete", "list", "keys", "aggregates", "version", "ask", "sa create",
              "sa membership", "sa remove"} : Op(o, "show") \in Quiet
  /\ Op("ask", "need") \in Quiet /\ Op("email", "email") \in Quiet
  /\ Op("sa create", "made") \in Quiet
  /\ \A o \in Counts : Op(o, "each") \in Quiet
  /\ \A f \in {"show", "find", "cred"} : Op("sa lookup", f) \in Quiet
<1> USE OpIsPlanned DEF Ops, Purposes, Gets, Renews, Counts, Tellings
<1>1. \A f \in Asked \cup AskedIfAny \cup {"cred", "need"} :
        Op("create", f) \in Quiet /\ Op("sa credential", f) \in Quiet
  BY DEF Asked, AskedIfAny
<1>2. \A f \in {"show", "need", "cred", "once"} : Op("usercred", f) \in Quiet
  OBVIOUS
<1>3. \A f \in {"find", "look"} : Op("resolve", f) \in Quiet
  OBVIOUS
<1>4. \A o \in Renews : Op(o, "renew") \in Quiet
  OBVIOUS
<1>5. \A o \in {"delete", "list", "keys", "aggregates", "version", "ask", "sa create",
              "sa membership", "sa remove"} : Op(o, "show") \in Quiet
  OBVIOUS
<1>6. Op("ask", "need") \in Quiet /\ Op("email", "email") \in Quiet
  OBVIOUS
<1>7. Op("sa create", "made") \in Quiet
  OBVIOUS
<1>8. \A o \in Counts : Op(o, "each") \in Quiet
  OBVIOUS
<1>9. \A f \in {"show", "find", "cred"} : Op("sa lookup", f) \in Quiet
  OBVIOUS
<1> HIDE DEF Renews, Counts
<1>10. QED BY <1>1, <1>2, <1>3, <1>4, <1>5, <1>6, <1>7, <1>8, <1>9

(* Those whose answer gives the expiration to report.                      *)
LEMMA CallsPlanned ==
  {Op("create", "told"), Op("sa lookup", "told"), Op("sa lookup", "confirm")} \subseteq Planned
BY OpIsPlanned DEF Ops, Purposes, Gets

(* The framework chapi.                                                    *)
LEMMA ChapiPlans ==
  /\ ChapiUserCred \in Seq(Quiet)
  /\ \A f \in Asked \cup AskedIfAny \cup {"cred", "need"} : ChapiSliceCred(f) \in Seq(Quiet)
  /\ \A f \in {"show", "cred", "need"} : ChapiProof(f) \in Seq(Quiet)
  /\ \A f \in Asked : ChapiCreateSlice(f) \in Seq(Quiet)
  /\ ChapiRenewSlice \in Seq(Quiet) /\ ChapiDeleteSlice \in Seq(Quiet)
  /\ ChapiListMySlices \in Seq(Quiet) /\ ChapiListMyProjects \in Seq(Quiet)
  /\ ChapiListKeys \in Seq(Quiet) /\ ChapiVersion \in Seq(Quiet)
  /\ ChapiListAggregates \in Seq(Quiet) /\ ChapiListSlivers \in Seq(Quiet)
<1>1. ChapiUserCred \in Seq(Quiet)
  BY CallsQuiet, Closed DEF ChapiUserCred
<1>2. \A f \in Asked \cup AskedIfAny \cup {"cred", "need"} : ChapiSliceCred(f) \in Seq(Quiet)
  BY <1>1, CallsQuiet, Closed DEF ChapiSliceCred
<1>3. \A f \in {"show", "cred", "need"} : ChapiProof(f) \in Seq(Quiet)
  BY <1>2, Closed DEF ChapiProof, Asked
<1>4. \A f \in Asked : ChapiCreateSlice(f) \in Seq(Quiet)
  BY <1>1, CallsQuiet, Closed DEF ChapiCreateSlice
<1>5. ChapiRenewSlice \in Seq(Quiet)
  BY <1>3, CallsQuiet, Closed DEF ChapiRenewSlice, Renews
<1>6. ChapiDeleteSlice \in Seq(Quiet)
  BY <1>1, CallsQuiet, Closed DEF ChapiDeleteSlice
<1>7. /\ ChapiListMySlices \in Seq(Quiet) /\ ChapiListMyProjects \in Seq(Quiet)
      /\ ChapiListKeys \in Seq(Quiet)
  BY <1>1, CallsQuiet, Closed DEF ChapiListMySlices, ChapiListMyProjects, ChapiListKeys
<1>8. ChapiVersion \in Seq(Quiet) /\ ChapiListAggregates \in Seq(Quiet)
  BY CallsQuiet, Closed DEF ChapiVersion, ChapiListAggregates
<1>9. ChapiListSlivers \in Seq(Quiet)
  <2>1. <<Op("sa lookup", "find"), Op("ask", "show")>> \in Seq(Quiet)
    BY CallsQuiet, Closed
  <2>2. QED BY <1>1, <1>3, <2>1, Closed DEF ChapiListSlivers
<1>10. QED BY <1>1, <1>2, <1>3, <1>4, <1>5, <1>6, <1>7, <1>8, <1>9

(* The calls made for each of n members are a plan.                        *)
LEMMA MembersPlan ==
  ASSUME NEW of, NEW n \in Nat
  PROVE  ChapiMembers(of, n) \in Seq(Quiet)
<1>1. ChapiMember \in Seq(Quiet) /\ ChapiMemberKeys \in Seq(Quiet)
  BY ChapiPlans, CallsQuiet, Closed DEF ChapiMember, ChapiMemberKeys
<1> DEFINE each == IF of = "sa members" THEN ChapiMember \o ChapiMemberKeys ELSE ChapiMember
           k == Len(each)
<1>2. each \in Seq(Quiet)
  BY <1>1, Closed
<1>3. Len(each) > 0
  <2>1. Len(ChapiMember) > 0
    BY <1>1, ChapiPlans DEF ChapiMember
  <2>2. Len(ChapiMember \o ChapiMemberKeys) > 0
    BY <1>1, <2>1, ConcatProperties, LenProperties
  <2>3. QED BY <2>1, <2>2
<1>4. ChapiMembers(of, n) = [i \in 1..(n * k) |-> each[1 + ((i - 1) % k)]]
  BY DEF ChapiMembers
<1> HIDE DEF each
<1>5. k \in Nat /\ k > 0 /\ \A j \in 1..k : each[j] \in Quiet
  BY <1>2, <1>3
<1>6. n * k \in Nat
  BY <1>5
<1>7. \A i \in 1..(n * k) : 1 + ((i - 1) % k) \in 1..k
  BY <1>5, <1>6
<1>8. \A i \in 1..(n * k) : each[1 + ((i - 1) % k)] \in Quiet
  BY <1>5, <1>7
<1> HIDE DEF k
<1>9. PICK m \in Nat : m = n * k
  BY <1>6
<1>10. PICK q : q = ChapiMembers(of, n)
  OBVIOUS
<1>11. q \in [1..m -> Quiet]
  BY <1>4, <1>8, <1>9, <1>10
<1>12. q \in Seq(Quiet)
  BY <1>11, SeqDef
<1>13. QED BY <1>10, <1>12

(* The framework sfa.                                                      *)
LEMMA SfaPlans ==
  /\ \A w \in {"need", "once", "cred"}, f \in Asked \cup AskedIfAny \cup {"cred"} :
       SfaSliceCred(w, f) \in Seq(Quiet)
  /\ \A f \in Asked, g \in AskedIfAny : SfaCreateSlice(f, g) \in Seq(Quiet)
  /\ SfaRenewSlice \in Seq(Quiet) /\ SfaDeleteSlice \in Seq(Quiet)
  /\ SfaListMySlices \in Seq(Quiet) /\ SfaListKeys \in Seq(Quiet)
  /\ SfaListAggregates \in Seq(Quiet) /\ SfaVersion \in Seq(Quiet)
<1>1. \A w \in {"need", "once", "cred"} : SfaUserCred(w) \in Seq(Quiet)
  BY CallsQuiet, Closed DEF SfaUserCred
<1>2. \A w \in {"need", "once", "cred"}, f \in Asked \cup AskedIfAny \cup {"cred"} :
        SfaSliceCred(w, f) \in Seq(Quiet)
  BY <1>1, CallsQuiet, Closed DEF SfaSliceCred
<1>3. ASSUME NEW f \in Asked, NEW g \in AskedIfAny
      PROVE  SfaCreateSlice(f, g) \in Seq(Quiet)
  <2>1. <<SfaAuthority, Op("sa create", "show")>> \in Seq(Quiet)
    BY CallsQuiet, Closed DEF SfaAuthority
  <2>2. SfaSliceCred("once", g) \in Seq(Quiet) /\ SfaSliceCred("need", f) \in Seq(Quiet)
    BY <1>2
  <2>3. QED BY <1>1, <2>1, <2>2, Closed DEF SfaCreateSlice
<1>4. SfaRenewSlice \in Seq(Quiet)
  <2>1. <<Op("sa lookup", "cred"), Op("sa update", "renew")>> \in Seq(Quiet)
    BY CallsQuiet, Closed DEF Renews
  <2>2. QED BY <1>2, <2>1, Closed DEF SfaRenewSlice
<1>5. SfaDeleteSlice \in Seq(Quiet)
  <2>1. <<SfaAuthority, Op("sa lookup", "find"), Op("sa remove", "show")>> \in Seq(Quiet)
    BY CallsQuiet, Closed DEF SfaAuthority
  <2>2. QED BY <1>1, <2>1, Closed DEF SfaDeleteSlice
<1>6. /\ SfaListMySlices \in Seq(Quiet) /\ SfaListKeys \in Seq(Quiet)
      /\ SfaListAggregates \in Seq(Quiet) /\ SfaVersion \in Seq(Quiet)
  BY <1>1, CallsQuiet, Closed DEF SfaListMySlices, SfaListKeys, SfaListAggregates, SfaVersion
<1>7. QED BY <1>2, <1>3, <1>4, <1>5, <1>6

(* The four kinds of servers.                                              *)
LEMMA KindOfSite ==
  ASSUME Typing
  PROVE  site.kind \in {"gcf", "pg", "chapi", "sfa"}
BY ClearinghouseAssumption DEF Typing

(* How a slice credential is got, and what follows a renewal.              *)
LEMMA CredPlans ==
  ASSUME Typing, NEW u
  PROVE  /\ \A f \in Asked : GetSliceCred(f) \in Seq(Quiet)
         /\ PrintExpiration(u) \in Seq(Quiet)
         /\ Renewed(u) \in Seq(Planned)
<1>1. \A f \in Asked : GetSliceCred(f) \in Seq(Quiet)
  <2> TAKE f \in Asked
  <2>1. <<Op("create", f)>> \in Seq(Quiet)
    BY CallsQuiet, Closed
  <2>2. <<GetUserCred("need"), Op("resolve", "find"), GetCredential(f)>> \in Seq(Quiet)
    BY CallsQuiet, Closed DEF GetUserCred, GetCredential
  <2>3. QED BY <2>1, <2>2, KindOfSite, ChapiPlans, SfaPlans DEF GetSliceCred
<1>2. PrintExpiration(u) \in Seq(Quiet)
  BY <1>1, Closed DEF PrintExpiration, Asked
<1>3. RenewedUntil \in Seq(Planned)
  <2>1. ChapiUserCred \in Seq(Planned)
    BY ChapiPlans, SeqMonotonic DEF Quiet
  <2>2. ChapiRenewedUntil \in Seq(Planned)
    BY <2>1, CallsPlanned, Closed DEF ChapiRenewedUntil
  <2>3. <<Op("create", "told")>> \in Seq(Planned) /\ SfaRenewedUntil \in Seq(Planned)
    BY CallsPlanned, Closed DEF SfaRenewedUntil
  <2>4. QED BY <2>2, <2>3, KindOfSite DEF RenewedUntil
<1>4. GetSliceCred("save") \in Seq(Planned) /\ PrintExpiration(u) \in Seq(Planned)
  BY <1>1, <1>2, SeqMonotonic DEF Quiet, Asked
<1>5. QED BY <1>1, <1>2, <1>3, <1>4, Closed DEF Renewed

(* The calls of every command: none reports what is not yet renewed.       *)
LEMMA CommandPlans ==
  ASSUME Typing, NEW u, NEW c \in Command
  PROVE  CallsOf(u, c) \in Seq(Quiet)
<1>1. Kept(c) \in Asked /\ IfAny(Kept(c)) \in AskedIfAny
  BY DEF Kept, IfAny, Asked, AskedIfAny
<1>2. createslice(c) \in Seq(Quiet)
  <2>1. <<Op("create", Kept(c))>> \in Seq(Quiet)
    BY <1>1, CallsQuiet, Closed
  <2>2. <<GetUserCred("need"), Op("resolve", "look"), Register(Kept(c))>> \in Seq(Quiet)
    BY <1>1, CallsQuiet, Closed DEF GetUserCred, Register
  <2>3. QED BY <1>1, <2>1, <2>2, KindOfSite, ChapiPlans, SfaPlans DEF createslice, CreateSlice
<1>3. renewslice \in Seq(Quiet)
  <2>1. <<Op("renew", "renew")>> \in Seq(Quiet)
    BY CallsQuiet, Closed DEF Renews
  <2>2. <<GetUserCred("cred"), GetCredential("cred"), Op("renew at pgch", "renew")>> \in Seq(Quiet)
    BY CallsQuiet, Closed DEF GetUserCred, GetCredential, Renews
  <2>3. QED BY <2>1, <2>2, KindOfSite, ChapiPlans, SfaPlans DEF renewslice, RenewSlice
<1>4. deleteslice \in Seq(Quiet)
  <2>1. <<Op("delete", "show")>> \in Seq(Quiet)
    BY CallsQuiet, Closed
  <2>2. <<GetUserCred("need"), GetCredential("show")>> \in Seq(Quiet)
    BY CallsQuiet, Closed DEF GetUserCred, GetCredential, Asked
  <2>3. QED BY <2>1, <2>2, KindOfSite, ChapiPlans, SfaPlans DEF deleteslice, DeleteSlice
<1>5. listmyslices \in Seq(Quiet)
  <2>1. <<Op("list", "show")>> \in Seq(Quiet)
    BY CallsQuiet, Closed
  <2>2. <<GetUserCred("need"), ResolveUser("show")>> \in Seq(Quiet)
    BY CallsQuiet, Closed DEF GetUserCred, ResolveUser
  <2>3. QED BY <2>1, <2>2, KindOfSite, ChapiPlans, SfaPlans DEF listmyslices, ListMySlices
<1>6. getslicecred(c) \in Seq(Quiet) /\ print_slice_expiration(u, c) \in Seq(Quiet)
  BY <1>1, CredPlans, Closed DEF getslicecred, print_slice_expiration, Asked
<1>7. getusercred \in Seq(Quiet)
  BY ChapiPlans, CallsQuiet, Closed DEF getusercred, GetUserCred
<1>8. listkeys \in Seq(Quiet)
  <2>1. <<GetUserCred("need"), Op("keys", "show")>> \in Seq(Quiet)
    BY CallsQuiet, Closed DEF GetUserCred
  <2>2. QED BY <2>1, KindOfSite, ChapiPlans, SfaPlans, Closed DEF listkeys, ListKeys
<1>9. listaggregates \in Seq(Quiet)
  <2>1. <<Op("aggregates", "show")>> \in Seq(Quiet)
        /\ <<GetUserCred("need"), Op("aggregates", "show")>> \in Seq(Quiet)
    BY CallsQuiet, Closed DEF GetUserCred
  <2>2. QED BY <2>1, KindOfSite, ChapiPlans, SfaPlans DEF listaggregates, FrameworkAggregates
<1>10. get_ch_version \in Seq(Quiet)
  <2>1. <<Op("version", "show")>> \in Seq(Quiet)
    BY CallsQuiet, Closed
  <2>2. QED BY <2>1, KindOfSite, ChapiPlans, SfaPlans DEF get_ch_version, FrameworkVersion
<1>11. listslivers \in Seq(Quiet) /\ listmyprojects \in Seq(Quiet)
  BY ChapiPlans, Closed DEF listslivers, listmyprojects, OnlyAtChapi
<1>12. listprojectmembers \in Seq(Quiet)
  <2>1. ChapiListProjectMembers \in Seq(Quiet)
    BY ChapiPlans, CallsQuiet, Closed DEF ChapiListProjectMembers, Counts
  <2>2. QED BY <2>1, Closed DEF listprojectmembers, OnlyAtChapi
<1>13. listslicemembers \in Seq(Quiet)
  <2>1. <<Op("sa lookup", "find"), Op("sa members", "each")>> \in Seq(Quiet)
    BY CallsQuiet, Closed DEF Counts
  <2>2. ChapiListMembers \in Seq(Quiet)
    BY <2>1, ChapiPlans, Closed DEF ChapiListMembers
  <2>3. QED BY <2>2, Closed DEF listslicemembers, OnlyAtChapi
<1>14. addslicemember \in Seq(Quiet) /\ removeslicemember \in Seq(Quiet)
  <2>1. ChapiMembership \in Seq(Quiet)
    BY ChapiPlans, CallsQuiet, Closed DEF ChapiMembership
  <2>2. QED BY <2>1, Closed DEF addslicemember, removeslicemember, OnlyAtChapi
<1>15. c.kind \in Kinds
  BY DEF Command
<1>16. QED
  BY <1>2, <1>3, <1>4, <1>5, <1>6, <1>7, <1>8, <1>9, <1>10, <1>11, <1>12, <1>13, <1>14, <1>15
     DEF CallsOf, Kinds

(* What follows an answer: an expiration is reported only after a renewal. *)
LEMMA ThenPlans ==
  ASSUME Typing, NEW u, NEW p \in Planned, NEW a,
         p.for = "each" /\ a.kind = "yes" => a.size \in Nat,
         NEW rest \in Seq(Planned)
  PROVE  /\ Then(u, p, a, rest) \in Seq(Planned)
         /\ rest \in Seq(Quiet) /\ ~(p.for = "renew" /\ a.kind = "yes") =>
              Then(u, p, a, rest) \in Seq(Quiet)
<1>1. \A q \in Seq(Quiet) : q \in Seq(Planned)
  BY SeqMonotonic DEF Quiet
<1>2. PrintExpiration(u) \in Seq(Quiet) /\ Renewed(u) \in Seq(Planned)
  BY CredPlans
<1>3. Tail(rest) \in Seq(Planned) /\ (rest \in Seq(Quiet) => Tail(rest) \in Seq(Quiet))
  BY TailClosed
<1>4. p.for = "each" /\ a.kind = "yes" => ChapiMembers(p.op, a.size) \in Seq(Quiet)
  BY MembersPlan
<1>5. <<>> \in Seq(Quiet)
  BY Closed
<1>6. CASE p.for = "renew"
  BY <1>1, <1>2, <1>6 DEF Then
<1>7. CASE p.for = "each"
  BY <1>1, <1>4, <1>5, <1>7 DEF Then
<1>8. CASE p.for \notin {"renew", "each"}
  <2>1. Then(u, p, a, rest) \in {PrintExpiration(u), Tail(rest), <<>>, rest}
    BY <1>8 DEF Then
  <2>2. QED BY <1>1, <1>2, <1>3, <1>5, <1>8, <2>1
<1>9. QED BY <1>6, <1>7, <1>8

-----------------------------------------------------------------------------
(* The invariant is kept. *)

LEMMA InitIInv == Init => IInv /\ OneInside
<1> SUFFICES ASSUME Init
             PROVE  IInv /\ OneInside
  OBVIOUS
<1>1. /\ site \in Sites /\ gids = 0 /\ now = 0 /\ DOMAIN slices = {} /\ slices = <<>>
      /\ call = [u \in User |-> NoCall] /\ answer = [u \in User |-> NoAnswer]
      /\ members = [s \in Urn |-> {}]
      /\ cmd = [u \in User |-> NoCommand] /\ plan = [u \in User |-> <<>>]
      /\ file = [u \in User |-> NoCred] /\ told = [u \in User |-> NoTime]
      /\ had = [u \in User |-> {}]
  BY DEF Init, ServerInit, AuthorityInit
<1>2. Typing
  <2>1. slices \in [DOMAIN slices -> Credential]
    BY <1>1
  <2>2. call \in [User -> Call] /\ answer \in [User -> Answer] /\ file \in [User -> Credential]
    BY <1>1, Nones
  <2>3. plan \in [User -> Seq(Planned)]
    BY <1>1, Closed
  <2>4. QED BY <1>1, <2>1, <2>2, <2>3 DEF Typing, NoTime
<1>3. Filed
  BY <1>1 DEF Filed
<1>4. \A g, s : ~Knows(g, s)
  BY <1>1, Nones DEF Knows
<1>5. GidsMade
  BY <1>1, <1>4, Nones DEF GidsMade
<1>6. ASSUME NEW u \in User
      PROVE  UnderWay(u) /\ Bounded(u) /\ Answered(u) /\ Reports(u) /\ ~Inside(u) /\ Current(u)
  <2>1. cmd[u] = NoCommand /\ plan[u] = <<>> /\ call[u] = NoCall /\ answer[u] = NoAnswer
        /\ told[u] = NoTime
    BY <1>1
  <2>2. UnderWay(u)
    BY <2>1, Nones DEF UnderWay
  <2>3. Bounded(u) /\ ~Inside(u) /\ Current(u)
    BY <2>1, Nones DEF Bounded, Inside, Current
  <2>4. Answered(u) /\ Reports(u)
    BY <2>1, Closed DEF Answered, Reports, NoAnswer
  <2>5. QED BY <2>2, <2>3, <2>4
<1>7. QED BY <1>2, <1>3, <1>5, <1>6 DEF IInv, OneInside

(* A step of a server keeps the types of what it uses, and the table.      *)
LEMMA WorkKeepsTables ==
  ASSUME NEW u \in User, Context(u), Work(u)
  PROVE  /\ site' \in Sites /\ gids' \in Nat /\ now' \in Nat
         /\ slices' \in [DOMAIN slices' -> Credential]
         /\ members' \in [Urn -> SUBSET User]
         /\ call' \in [User -> Call] /\ answer' \in [User -> Answer]
         /\ Filed' /\ \A s \in DOMAIN slices' : slices'[s].gid # 0
<1>1. Typing /\ Filed /\ GidsMade
  BY DEF Context
<1>2. /\ site' \in Sites /\ now' = now /\ now' \in Nat /\ members' \in [Urn -> SUBSET User]
      /\ call' \in [User -> Call] /\ answer' \in [User -> Answer]
  BY <1>1 DEF Work, Moves, Typing
<1>3. \A s \in DOMAIN slices : slices[s] \in Credential /\ slices[s].gid # 0
  BY <1>1 DEF Typing, GidsMade
<1>4. CASE Stays
  BY <1>1, <1>2, <1>3, <1>4 DEF Stays, Typing, Filed
<1>5. CASE \E s, c : Files(s, c)
  <2>1. PICK s, c : Files(s, c)
    BY <1>5
  <2>2. /\ DOMAIN slices' = DOMAIN slices \cup {s} /\ slices' = [x \in DOMAIN slices' |-> slices'[x]]
        /\ slices'[s] = c /\ \A x \in DOMAIN slices \ {s} : slices'[x] = slices[x]
    BY <2>1 DEF Files, Put
  <2>3. /\ c \in Credential /\ s \in Urn /\ c.urn = s /\ c.owner \in User /\ c.exp <= now + MaxLife
        /\ c.gid # 0 /\ gids' \in Nat
    BY <1>1, <2>1 DEF Files, Typing, Knows
  <2>4. \A x \in DOMAIN slices' : slices'[x] \in Credential /\ slices'[x].gid # 0
    BY <1>3, <2>2, <2>3
  <2>5. Filed'
    BY <1>1, <1>2, <2>2, <2>3 DEF Filed
  <2>6. QED BY <1>2, <2>2, <2>3, <2>4, <2>5
<1>6. CASE \E s : Drops(s)
  <2>1. PICK s : Drops(s)
    BY <1>6
  <2>2. /\ DOMAIN slices' = DOMAIN slices \ {s} /\ slices' = [x \in DOMAIN slices' |-> slices'[x]]
        /\ \A x \in DOMAIN slices' : slices'[x] = slices[x]
    BY <2>1 DEF Drops, Without
  <2>3. Filed' /\ gids' \in Nat
    BY <1>1, <1>2, <2>1, <2>2 DEF Filed, Drops, Typing
  <2>4. QED BY <1>2, <1>3, <2>2, <2>3
<1>7. QED BY <1>4, <1>5, <1>6 DEF Work

(* A step of a server makes at most one gid, for one slice.                *)
LEMMA WorkKeepsGids ==
  ASSUME NEW u \in User, Context(u), Work(u)
  PROVE  GidsMade'
<1>1. Typing /\ GidsMade /\ gids \in Nat /\ call \in [User -> Call]
  BY DEF Context, Typing
<1>2. \A s \in DOMAIN slices' : slices'[s].gid # 0
  BY WorkKeepsTables
<1>3. \A v \in User \ {u} : call'[v] = call[v]
  BY DEF Work, Moves
<1>4. \/ /\ call'[u].op = call[u].op /\ call'[u].urn = call[u].urn /\ Reads(u, call'[u].seen)
         /\ call[u].op = "renew" /\ call'[u].pc = "write" => call'[u].seen.gid # 0
      \/ call'[u] = NoCall
  BY DEF Work, Moves, GoesOn, Ends
<1>5. \A g : Knows(g, call[u].urn) \/ g = 0 \/ g # call'[u].seen.gid \/ call'[u] = NoCall
  BY <1>4, Nones DEF Reads, Knows, Has
<1>6. call'[u].seen = NoCred \/ call'[u].seen.gid # 0
  BY <1>1, <1>4, Nones DEF Reads, GidsMade, Has
<1>7. \A v \in User : call'[v].seen = NoCred \/ call'[v].seen.gid # 0
  BY <1>1, <1>3, <1>6 DEF GidsMade
<1>8. \A v \in User : call'[v].op = "renew" /\ call'[v].pc = "write" => call'[v].seen.gid # 0
  BY <1>1, <1>3, <1>4, Nones DEF GidsMade
<1>9. ASSUME NEW g, NEW s, g # 0, NEW v \in User, call'[v].seen.gid = g, call'[v].urn = s
      PROVE  Knows(g, s)
  <2>1. CASE v # u
    BY <1>3, <1>9, <2>1 DEF Knows
  <2>2. CASE v = u
    BY <1>4, <1>5, <1>9, <2>2, Nones
  <2>3. QED BY <2>1, <2>2
<1>10. \E d \in Urn \cup {"none"} :
         /\ gids' \in {gids, gids + 1}
         /\ \A g, s : Knows(g, s)' => \/ Knows(g, s)
                                      \/ g = gids' /\ gids' = gids + 1 /\ s = d
  <2>1. CASE Stays
    <3>1. gids' = gids /\ slices' = slices
      BY <2>1 DEF Stays
    <3>2. ASSUME NEW g, NEW s, Knows(g, s)'
          PROVE  Knows(g, s)
      <4>1. CASE s \in DOMAIN slices' /\ slices'[s].gid = g
        BY <3>1, <3>2, <4>1 DEF Knows
      <4>2. CASE \E v \in User : call'[v].seen.gid = g /\ call'[v].urn = s
        BY <1>9, <3>2, <4>2 DEF Knows
      <4>3. QED BY <3>2, <4>1, <4>2 DEF Knows
    <3>3. QED BY <3>1, <3>2
  <2>2. CASE \E s, c : Files(s, c)
    <3>1. PICK t, c : Files(t, c)
      BY <2>2
    <3>2. /\ DOMAIN slices' = DOMAIN slices \cup {t}
          /\ slices'[t] = c /\ \A x \in DOMAIN slices \ {t} : slices'[x] = slices[x]
      BY <3>1 DEF Files, Put
    <3>3. /\ t \in Urn /\ gids' \in {gids, gids + 1}
          /\ Knows(c.gid, t) \/ (gids' = gids + 1 /\ c.gid = gids')
      BY <3>1 DEF Files
    <3>4. ASSUME NEW g, NEW s, g # 0, s \in DOMAIN slices', slices'[s].gid = g
          PROVE  Knows(g, s) \/ (g = gids' /\ gids' = gids + 1 /\ s = t)
      BY <3>2, <3>3, <3>4 DEF Knows
    <3>5. \A g, s : Knows(g, s)' => Knows(g, s) \/ (g = gids' /\ gids' = gids + 1 /\ s = t)
      BY <1>9, <3>4 DEF Knows
    <3>6. QED BY <3>3, <3>5
  <2>3. CASE \E s : Drops(s)
    <3>1. PICK t : Drops(t)
      BY <2>3
    <3>2. gids' = gids /\ \A x \in DOMAIN slices' : x \in DOMAIN slices /\ slices'[x] = slices[x]
      BY <3>1 DEF Drops, Without
    <3>3. \A g, s : Knows(g, s)' => Knows(g, s)
      BY <1>9, <3>2 DEF Knows
    <3>4. QED BY <3>2, <3>3
  <2>4. QED BY <2>1, <2>2, <2>3 DEF Work
<1>11. PICK d \in Urn \cup {"none"} :
         /\ gids' \in {gids, gids + 1}
         /\ \A g, s : Knows(g, s)' => \/ Knows(g, s)
                                      \/ g = gids' /\ gids' = gids + 1 /\ s = d
  BY <1>10
<1>12. \A g, s : Knows(g, s) => g \in 1..gids
  BY <1>1 DEF GidsMade
<1>13. \A g, s, x : Knows(g, s) /\ Knows(g, x) => s = x
  BY <1>1 DEF GidsMade
<1>14. ASSUME NEW g, NEW s, Knows(g, s)'
       PROVE  g \in 1..gids'
  BY <1>1, <1>11, <1>12, <1>14
<1>15. ASSUME NEW g, NEW s, NEW x, Knows(g, s)', Knows(g, x)'
       PROVE  s = x
  <2>1. ~(g \in 1..gids /\ g = gids + 1)
    BY <1>1
  <2>2. QED BY <1>11, <1>12, <1>13, <1>15, <2>1
<1>16. QED BY <1>2, <1>7, <1>8, <1>14, <1>15 DEF GidsMade

(* What was held stays noted, and what is held now is noted.               *)
LEMMA HadGrows ==
  ASSUME Typing, Noted, UNCHANGED cmd, slices' \in [DOMAIN slices' -> Credential]
  PROVE  /\ had' \in [User -> SUBSET Credential]
         /\ \A v \in User : cmd[v] # NoCommand =>
              /\ had[v] \subseteq had'[v]
              /\ cmd[v].urn \in DOMAIN slices' => slices'[cmd[v].urn] \in had'[v]
<1> DEFINE held(v) == {slices'[s] : s \in DOMAIN slices' \cap {cmd[v].urn}}
<1>1. had' = [v \in User |-> IF cmd[v] = NoCommand THEN {} ELSE had[v] \cup held(v)]
  BY DEF Noted
<1>2. \A v \in User : held(v) \in SUBSET Credential
  OBVIOUS
<1>3. \A v \in User : cmd[v].urn \in DOMAIN slices' => slices'[cmd[v].urn] \in held(v)
  OBVIOUS
<1>4. \A v \in User : had[v] \in SUBSET Credential
  BY DEF Typing
<1> HIDE DEF held
<1>5. \A v \in User : had'[v] \in SUBSET Credential
  BY <1>1, <1>2, <1>4
<1>6. QED BY <1>1, <1>3, <1>5

LEMMA ServedKeeps ==
  ASSUME IInv, NEW u \in User, Served(u)
  PROVE  IInv'
<1>1. Typing /\ \A v \in User : UnderWay(v) /\ Bounded(v) /\ Answered(v) /\ Reports(v)
  BY DEF IInv
<1>2. Context(u)
  BY DEF IInv, Context
<1>3. Work(u) /\ Noted /\ UNCHANGED <<cmd, plan, file, told>>
  BY <1>2, ServedWorks DEF Served
<1>4. /\ site' \in Sites /\ gids' \in Nat /\ now' \in Nat
      /\ slices' \in [DOMAIN slices' -> Credential] /\ members' \in [Urn -> SUBSET User]
      /\ call' \in [User -> Call] /\ answer' \in [User -> Answer] /\ Filed'
  BY <1>2, <1>3, WorkKeepsTables
<1>5. /\ had' \in [User -> SUBSET Credential]
      /\ \A v \in User : cmd[v] # NoCommand =>
           /\ had[v] \subseteq had'[v]
           /\ cmd[v].urn \in DOMAIN slices' => slices'[cmd[v].urn] \in had'[v]
  BY <1>1, <1>3, <1>4, HadGrows
<1>6. Typing'
  BY <1>1, <1>3, <1>4, <1>5 DEF Typing
<1>7. GidsMade'
  BY <1>2, <1>3, WorkKeepsGids
<1>8. /\ cmd[u] # NoCommand /\ plan[u] # <<>> /\ call[u].op = plan[u][1].op
      /\ call[u].urn = cmd[u].urn /\ call[u].exp = cmd[u].exp /\ answer[u] = NoAnswer
  BY <1>1, <1>3, InCall DEF Work
<1>9. /\ \A v \in User \ {u} : call'[v] = call[v] /\ answer'[v] = answer[v]
      /\ (GoesOn(u) \/ Ends(u)) /\ now' = now
  BY <1>3 DEF Work, Moves
<1>10. ASSUME NEW v \in User
       PROVE  UnderWay(v)'
  <2>1. CASE v # u
    BY <1>1, <1>3, <1>9, <2>1 DEF UnderWay
  <2>2. CASE v = u /\ GoesOn(u)
    <3>1. call'[u].pc # "none" /\ call'[u] # NoCall /\ answer'[u] = NoAnswer
      BY <1>8, <2>2, Nones DEF GoesOn
    <3>2. call'[u].op = call[u].op /\ call'[u].urn = call[u].urn /\ call'[u].exp = call[u].exp
      BY <2>2 DEF GoesOn
    <3>3. QED BY <1>1, <1>3, <1>8, <2>2, <3>1, <3>2 DEF UnderWay
  <2>3. CASE v = u /\ Ends(u)
    <3>1. call'[u] = NoCall /\ call'[u].pc = "none" /\ answer'[u] # NoAnswer
      BY <2>3, Nones DEF Ends, NoAnswer
    <3>2. QED BY <1>1, <1>3, <1>8, <2>3, <3>1 DEF UnderWay
  <2>4. QED BY <1>9, <2>1, <2>2, <2>3
<1>11. ASSUME NEW v \in User
       PROVE  Bounded(v)'
  <2>1. CASE v # u
    BY <1>1, <1>3, <1>9, <2>1 DEF Bounded, Work
  <2>2. CASE v = u /\ GoesOn(u)
    BY <1>3, <2>2 DEF Bounded, GoesOn, Work
  <2>3. CASE v = u /\ Ends(u)
    BY <2>3, Nones DEF Ends, Bounded
  <2>4. QED BY <1>9, <2>1, <2>2, <2>3
<1>12. ASSUME NEW v \in User, cmd[v] # NoCommand, WasRenewed(v)
       PROVE  WasRenewed(v)'
  BY <1>3, <1>5, <1>12 DEF WasRenewed
<1>13. ASSUME NEW v \in User
       PROVE  Answered(v)'
  <2>1. CASE v # u
    <3>1. CASE cmd[v] = NoCommand
      <4>1. answer'[v].kind = "none"
        BY <1>1, <1>9, <2>1, <3>1 DEF UnderWay, NoAnswer
      <4>2. QED BY <4>1 DEF Answered
    <3>2. CASE cmd[v] # NoCommand
      BY <1>1, <1>3, <1>5, <1>9, <1>12, <2>1, <3>2 DEF Answered
    <3>3. QED BY <3>1, <3>2
  <2>2. CASE v = u /\ GoesOn(u)
    BY <1>8, <2>2 DEF Answered, GoesOn, NoAnswer
  <2>3. CASE v = u /\ Ends(u)
    <3>1. answer'[u].kind = "yes" /\ plan[u][1].op \in Gets => answer'[u].cred \in had'[u]
      BY <1>5, <1>8, <2>3 DEF Ends
    <3>2. answer'[u].kind = "yes" /\ plan[u][1].op \in Renews =>
            \E c \in had'[u] : c.exp = cmd[u].exp
      BY <1>5, <1>8, <2>3 DEF Ends
    <3>3. answer'[u].kind = "yes" /\ plan[u][1].op \in Counts => answer'[u].size \in Nat
      BY <1>8, <2>3 DEF Ends
    <3>4. QED BY <1>3, <2>3, <3>1, <3>2, <3>3 DEF Answered, WasRenewed
  <2>4. QED BY <1>9, <2>1, <2>2, <2>3
<1>14. ASSUME NEW v \in User
       PROVE  Reports(v)'
  <2>1. CASE cmd[v] = NoCommand
    <3>1. plan'[v] = <<>> /\ told'[v] = NoTime
      BY <1>1, <1>3, <2>1 DEF UnderWay
    <3>2. QED BY <3>1, Closed DEF Reports
  <2>2. CASE cmd[v] # NoCommand
    BY <1>1, <1>3, <1>5, <1>12, <2>2 DEF Reports
  <2>3. QED BY <2>1, <2>2
<1>15. QED BY <1>4, <1>6, <1>7, <1>10, <1>11, <1>13, <1>14 DEF IInv

(* A call that is sent.                                                    *)
LEMMA SentCall ==
  ASSUME NEW c \in Command, NEW p \in Planned
  PROVE  /\ Sent(c, p) \in Call /\ Sent(c, p).pc = "look" /\ Sent(c, p) # NoCall
         /\ Sent(c, p).op = p.op /\ Sent(c, p).urn = c.urn /\ Sent(c, p).exp = c.exp
         /\ Sent(c, p).seen = NoCred
<1>1. p.op \in Ops
  BY DEF Planned
<1>2. c.urn \in Urn /\ c.exp \in Nat
  BY DEF Command
<1>3. "look" \in Places /\ NoCred \in Credential /\ {} \in SUBSET Credential
  BY Nones DEF Places
<1>4. Sent(c, p) \in Call
  BY <1>1, <1>2, <1>3 DEF Sent, Call
<1>5. QED BY <1>4, Nones DEF Sent

(* No gid is read or made when a call is sent, answered or lost.           *)
LEMMA OthersKeepGids ==
  ASSUME Typing, Filed, GidsMade, NEW u \in User, UNCHANGED <<slices, gids>>,
         \A v \in User \ {u} : call'[v] = call[v],
         call'[u].seen = NoCred, call'[u].pc # "write"
  PROVE  GidsMade'
<1>1. \A g, s : Knows(g, s)' => Knows(g, s)
  BY Nones DEF Knows
<1>2. \A v \in User : call'[v].seen = NoCred \/ call'[v].seen.gid # 0
  BY DEF GidsMade
<1>3. \A v \in User : call'[v].op = "renew" /\ call'[v].pc = "write" => call'[v].seen.gid # 0
  BY DEF GidsMade
<1>4. QED BY <1>1, <1>2, <1>3 DEF GidsMade

(* A command that is given may be one of the instance.                     *)
LEMMA CommandsAre == Typing => Commands[site.kind] \subseteq Command
BY SlicesAssumption DEF Typing, Command

LEMMA BeginKeeps ==
  ASSUME IInv, NEW u \in User, Begin(u)
  PROVE  IInv'
<1>1. Typing /\ Filed /\ GidsMade
      /\ \A v \in User : UnderWay(v) /\ Bounded(v) /\ Answered(v) /\ Reports(v)
  BY DEF IInv
<1>2. PICK c \in Commands[site.kind] :
        /\ CallsOf(u, c) # <<>>
        /\ cmd' = [cmd EXCEPT ![u] = c]
        /\ plan' = [plan EXCEPT ![u] = CallsOf(u, c)]
        /\ call' = [call EXCEPT ![u] = Sent(c, CallsOf(u, c)[1])]
        /\ had' = [had EXCEPT ![u] = {slices[s] : s \in DOMAIN slices \cap {c.urn}}]
  BY DEF Begin
<1>3. UNCHANGED <<site, slices, gids, now, answer, members, file, told>> /\ cmd[u] = NoCommand
  BY DEF Begin, authority
<1>4. c \in Command /\ c # NoCommand
  BY <1>1, <1>2, CommandsAre DEF Command, Kinds, NoCommand
<1>5. PICK q : q = CallsOf(u, c)
  OBVIOUS
<1>6. q \in Seq(Quiet) /\ q # <<>>
  BY <1>1, <1>2, <1>4, <1>5, CommandPlans
<1>7. q \in Seq(Planned) /\ q[1] \in Planned
  <2>1. q \in Seq(Planned)
    BY <1>6, SeqMonotonic DEF Quiet
  <2>2. QED BY <1>6, <2>1
<1>8. PICK k : k = Sent(c, q[1])
  OBVIOUS
<1>9. /\ k \in Call /\ k.pc = "look" /\ k # NoCall /\ k.op = q[1].op /\ k.urn = c.urn
      /\ k.exp = c.exp /\ k.seen = NoCred
  BY <1>4, <1>7, <1>8, SentCall
<1>10. PICK h : h = {slices[s] : s \in DOMAIN slices \cap {c.urn}}
  OBVIOUS
<1>11. h \in SUBSET Credential
  BY <1>1, <1>10 DEF Typing
<1>12. /\ cmd' = [cmd EXCEPT ![u] = c] /\ plan' = [plan EXCEPT ![u] = q]
       /\ call' = [call EXCEPT ![u] = k] /\ had' = [had EXCEPT ![u] = h]
  BY <1>2, <1>5, <1>8, <1>10
<1>13. Typing'
  BY <1>1, <1>3, <1>4, <1>7, <1>9, <1>11, <1>12 DEF Typing
<1>14. /\ cmd'[u] = c /\ plan'[u] = q /\ call'[u] = k /\ had'[u] = h
       /\ \A v \in User \ {u} : /\ cmd'[v] = cmd[v] /\ plan'[v] = plan[v] /\ call'[v] = call[v]
                                /\ had'[v] = had[v]
  BY <1>1, <1>12 DEF Typing
<1>15. Filed'
  BY <1>1, <1>3 DEF Filed
<1>16. GidsMade'
  BY <1>1, <1>3, <1>9, <1>14, OthersKeepGids
<1>17. answer[u] = NoAnswer /\ told[u] = NoTime
  BY <1>1, <1>3 DEF UnderWay
<1>18. UnderWay(u)' /\ Bounded(u)' /\ Answered(u)' /\ Reports(u)'
  <2>1. UnderWay(u)'
    BY <1>3, <1>4, <1>6, <1>9, <1>14, <1>17 DEF UnderWay
  <2>2. Bounded(u)'
    BY <1>9, <1>14 DEF Bounded
  <2>3. Answered(u)'
    BY <1>3, <1>17 DEF Answered, NoAnswer
  <2>4. Reports(u)'
    BY <1>3, <1>6, <1>14, <1>17 DEF Reports
  <2>5. QED BY <2>1, <2>2, <2>3, <2>4
<1>19. ASSUME NEW v \in User \ {u}
       PROVE  UnderWay(v)' /\ Bounded(v)' /\ Answered(v)' /\ Reports(v)'
  BY <1>1, <1>3, <1>14 DEF UnderWay, Bounded, Answered, Reports, WasRenewed
<1>20. QED BY <1>13, <1>15, <1>16, <1>18, <1>19 DEF IInv

(* What the command makes of an answer: what it still plans, reports and   *)
(* saves.                                                                  *)
LEMMA AnswersServe ==
  ASSUME IInv, NEW u \in User, Handle(u), NEW p, p = plan[u][1], NEW a, a = answer[u], NEW r,
         r = Needed(u, Then(u, p, a, Tail(plan[u])))
  PROVE  /\ cmd[u] \in Command /\ cmd[u] # NoCommand /\ p \in Planned /\ a \in Answer
         /\ r \in Seq(Planned) /\ (r \in Seq(Quiet) \/ WasRenewed(u))
         /\ a.kind = "yes" /\ p.for \in {"save", "save if any", "told", "confirm"} =>
              a.cred \in had[u]
         /\ p.for \in Tellings => WasRenewed(u)
<1>1. Typing /\ UnderWay(u) /\ Answered(u) /\ Reports(u)
  BY DEF IInv
<1>2. a # NoAnswer /\ cmd[u] # NoCommand /\ plan[u] # <<>>
  BY <1>1 DEF Handle, UnderWay
<1>3. cmd[u] \in Command /\ plan[u] \in Seq(Planned) /\ a \in Answer
  BY <1>1, <1>2 DEF Typing
<1>4. p \in Planned /\ Tail(plan[u]) \in Seq(Planned)
  BY <1>2, <1>3, HeadTailProperties
<1>5. a.kind = "yes" /\ p.for \in {"save", "save if any", "told", "confirm"} => a.cred \in had[u]
  BY <1>1, <1>4 DEF Planned, Answered
<1>6. p.for \in Tellings => WasRenewed(u)
  <2>1. plan[u] \in Seq(Quiet) => p \in Quiet
    BY <1>2
  <2>2. QED BY <1>1, <2>1 DEF Reports, Quiet
<1>7. a.kind = "yes" /\ p.for = "renew" => WasRenewed(u)
  BY <1>1, <1>4 DEF Planned, Answered
<1>8. p.for = "each" /\ a.kind = "yes" => a.size \in Nat
  BY <1>1, <1>4 DEF Planned, Answered
<1> DEFINE t == Then(u, p, a, Tail(plan[u]))
<1>9. plan[u] \in Seq(Quiet) => Tail(plan[u]) \in Seq(Quiet)
  BY TailClosed
<1>10. /\ t \in Seq(Planned)
       /\ Tail(plan[u]) \in Seq(Quiet) /\ ~(p.for = "renew" /\ a.kind = "yes") => t \in Seq(Quiet)
  BY <1>1, <1>4, <1>8, ThenPlans
<1>11. t \in Seq(Quiet) \/ WasRenewed(u)
  BY <1>1, <1>7, <1>9, <1>10 DEF Reports
<1>12. r = Needed(u, t)
  OBVIOUS
<1> HIDE DEF t
<1>13. r \in Seq(Planned) /\ (t \in Seq(Quiet) => r \in Seq(Quiet))
  BY <1>10, <1>12, NeededClosed
<1>14. QED BY <1>2, <1>3, <1>4, <1>5, <1>6, <1>11, <1>13

LEMMA HandleKeeps ==
  ASSUME IInv, NEW u \in User, Handle(u)
  PROVE  IInv'
<1>1. Typing /\ Filed /\ GidsMade
      /\ \A v \in User : UnderWay(v) /\ Bounded(v) /\ Answered(v) /\ Reports(v)
  BY DEF IInv
<1>2. PICK p : p = plan[u][1]
  OBVIOUS
<1>3. PICK a : a = answer[u]
  OBVIOUS
<1>4. PICK r : r = Needed(u, Then(u, p, a, Tail(plan[u])))
  OBVIOUS
<1>5. /\ cmd[u] \in Command /\ cmd[u] # NoCommand /\ p \in Planned /\ a \in Answer
      /\ r \in Seq(Planned) /\ (r \in Seq(Quiet) \/ WasRenewed(u))
      /\ a.kind = "yes" /\ p.for \in {"save", "save if any", "told", "confirm"} => a.cred \in had[u]
      /\ p.for \in Tellings => WasRenewed(u)
  BY <1>2, <1>3, <1>4, AnswersServe
<1>6. /\ IF r = <<>> THEN told' = [told EXCEPT ![u] = NoTime] ELSE Tells(u, p, a)
      /\ Saves(u, p, a)
      /\ plan' = [plan EXCEPT ![u] = r]
      /\ cmd' = [cmd EXCEPT ![u] = IF r = <<>> THEN NoCommand ELSE @]
      /\ call' = [call EXCEPT ![u] = IF r = <<>> THEN NoCall ELSE Sent(cmd[u], r[1])]
      /\ answer' = [answer EXCEPT ![u] = NoAnswer]
      /\ had' = [had EXCEPT ![u] = IF r = <<>> THEN {} ELSE @]
      /\ UNCHANGED <<site, slices, gids, now, members>>
  BY <1>2, <1>3, <1>4 DEF Handle
<1>7. PICK k : k = IF r = <<>> THEN NoCall ELSE Sent(cmd[u], r[1])
  OBVIOUS
<1>8. PICK c : c = IF r = <<>> THEN NoCommand ELSE cmd[u]
  OBVIOUS
<1>9. PICK h : h = IF r = <<>> THEN {} ELSE had[u]
  OBVIOUS
<1>10. PICK t : t = IF r = <<>> THEN NoTime ELSE IF p.for \notin Tellings THEN told[u]
                    ELSE IF a.kind = "yes" THEN a.cred.exp ELSE cmd[u].exp
  OBVIOUS
<1>11. PICK f : f = IF p.for \in {"save", "save if any"} /\ a.kind = "yes" THEN a.cred ELSE file[u]
  OBVIOUS
<1>12. told' = [told EXCEPT ![u] = t]
  BY <1>6, <1>10 DEF Tells, Tellings
<1>13. file' = [file EXCEPT ![u] = f]
  BY <1>6, <1>11 DEF Saves
<1>14. /\ cmd' = [cmd EXCEPT ![u] = c] /\ call' = [call EXCEPT ![u] = k]
       /\ had' = [had EXCEPT ![u] = h]
  BY <1>6, <1>7, <1>8, <1>9
<1>15. r # <<>> => r[1] \in Planned
  <2>1. r \in Seq(Planned)
    BY <1>5
  <2>2. QED BY <2>1
<1>16. /\ k \in Call /\ k.pc # "write" /\ k.seen = NoCred
       /\ (r = <<>> => k = NoCall /\ k.pc = "none" /\ k.op = "none")
       /\ (r # <<>> => /\ k # NoCall /\ k.pc = "look" /\ k.op = r[1].op
                       /\ k.urn = cmd[u].urn /\ k.exp = cmd[u].exp)
  BY <1>5, <1>7, <1>15, SentCall, Nones
<1>17. a.cred \in Credential /\ a.cred.exp \in Int /\ cmd[u].exp \in Int /\ told[u] \in Int
       /\ file[u] \in Credential /\ had[u] \in SUBSET Credential
  <2>1. told[u] \in Int /\ file[u] \in Credential /\ had[u] \in SUBSET Credential
    BY <1>1 DEF Typing
  <2>2. a.cred \in Credential
    BY <1>5 DEF Answer
  <2>3. a.cred.exp \in Int
    BY <2>2 DEF Credential
  <2>4. cmd[u].exp \in Nat
    BY <1>5 DEF Command
  <2>5. QED BY <2>1, <2>2, <2>3, <2>4
<1>18. c \in Command \cup {NoCommand} /\ h \in SUBSET Credential /\ t \in Int /\ f \in Credential
  <2>1. c \in Command \cup {NoCommand}
    BY <1>5, <1>8
  <2>2. h \in SUBSET Credential
    BY <1>9, <1>17
  <2>3. t \in Int
    BY <1>10, <1>17 DEF NoTime
  <2>4. f \in Credential
    BY <1>11, <1>17
  <2>5. QED BY <2>1, <2>2, <2>3, <2>4
<1>19. Typing'
  <2>1. r \in Seq(Planned)
    BY <1>5
  <2>2. cmd' \in [User -> Command \cup {NoCommand}] /\ plan' \in [User -> Seq(Planned)]
    BY <1>1, <1>6, <1>14, <1>18, <2>1 DEF Typing
  <2>3. call' \in [User -> Call] /\ answer' \in [User -> Answer]
    BY <1>1, <1>6, <1>14, <1>16, Nones DEF Typing
  <2>4. had' \in [User -> SUBSET Credential] /\ told' \in [User -> Int]
        /\ file' \in [User -> Credential]
    BY <1>1, <1>12, <1>13, <1>14, <1>18 DEF Typing
  <2>5. UNCHANGED <<site, slices, gids, now, members>>
    BY <1>6
  <2>6. QED BY <1>1, <2>2, <2>3, <2>4, <2>5 DEF Typing
<1>20. /\ cmd'[u] = c /\ plan'[u] = r /\ call'[u] = k /\ had'[u] = h /\ told'[u] = t
       /\ answer'[u] = NoAnswer
       /\ \A v \in User \ {u} : /\ cmd'[v] = cmd[v] /\ plan'[v] = plan[v] /\ call'[v] = call[v]
                                /\ had'[v] = had[v] /\ told'[v] = told[v]
                                /\ answer'[v] = answer[v]
  BY <1>1, <1>6, <1>12, <1>14 DEF Typing
<1>21. Filed'
  BY <1>1, <1>6 DEF Filed
<1>22. GidsMade'
  BY <1>1, <1>6, <1>16, <1>20, OthersKeepGids
<1>23. UnderWay(u)'
  BY <1>5, <1>8, <1>10, <1>16, <1>20 DEF UnderWay
<1>24. Bounded(u)' /\ Answered(u)'
  BY <1>16, <1>20 DEF Bounded, Answered, NoAnswer
<1>25. Reports(u)'
  <2>1. CASE r = <<>>
    BY <1>10, <1>20, <2>1, Closed DEF Reports
  <2>2. CASE r # <<>>
    <3>1. c = cmd[u] /\ h = had[u]
      BY <1>8, <1>9, <2>2
    <3>2. WasRenewed(u) => WasRenewed(u)'
      BY <1>20, <3>1 DEF WasRenewed
    <3>3. t # NoTime => \E d \in had[u] : d.exp = t
      <4>1. CASE p.for \notin Tellings
        BY <1>1, <1>10, <2>2, <4>1 DEF Reports
      <4>2. CASE p.for \in Tellings /\ a.kind = "yes"
        BY <1>5, <1>10, <2>2, <4>2 DEF Tellings
      <4>3. CASE p.for \in Tellings /\ a.kind # "yes"
        BY <1>5, <1>10, <2>2, <4>3 DEF WasRenewed
      <4>4. QED BY <4>1, <4>2, <4>3
    <3>4. QED BY <1>5, <1>20, <3>1, <3>2, <3>3 DEF Reports
  <2>3. QED BY <2>1, <2>2
<1>26. ASSUME NEW v \in User \ {u}
       PROVE  UnderWay(v)' /\ Bounded(v)' /\ Answered(v)' /\ Reports(v)'
  BY <1>1, <1>6, <1>20 DEF UnderWay, Bounded, Answered, Reports, WasRenewed
<1>27. QED BY <1>19, <1>21, <1>22, <1>23, <1>24, <1>25, <1>26 DEF IInv

LEMMA LoseKeeps ==
  ASSUME IInv, NEW u \in User, Lose(u)
  PROVE  IInv'
<1>1. Typing /\ Filed /\ GidsMade
      /\ \A v \in User : UnderWay(v) /\ Bounded(v) /\ Answered(v) /\ Reports(v)
  BY DEF IInv
<1>2. /\ call' = [call EXCEPT ![u] = NoCall] /\ answer' = [answer EXCEPT ![u] = Lost]
      /\ UNCHANGED <<site, slices, gids, now, members, cmd, plan, file, told, had>>
  BY DEF Lose, authority
<1>3. Typing'
  BY <1>1, <1>2, Nones DEF Typing
<1>4. /\ call'[u] = NoCall /\ answer'[u] = Lost
      /\ \A v \in User \ {u} : call'[v] = call[v] /\ answer'[v] = answer[v]
  BY <1>1, <1>2 DEF Typing
<1>5. Filed'
  BY <1>1, <1>2 DEF Filed
<1>6. GidsMade'
  BY <1>1, <1>2, <1>4, Nones, OthersKeepGids
<1>7. cmd[u] # NoCommand
  <2>1. call[u].pc = "look" \/ answer[u] # NoAnswer
    BY DEF Lose
  <2>2. QED BY <1>1, <2>1, Nones DEF UnderWay
<1>8. UnderWay(u)' /\ Bounded(u)' /\ Answered(u)' /\ Reports(u)'
  <2>1. UnderWay(u)'
    BY <1>1, <1>2, <1>4, <1>7, Nones DEF UnderWay, Lost, NoAnswer
  <2>2. Bounded(u)' /\ Answered(u)'
    BY <1>4, Nones DEF Bounded, Answered, Lost
  <2>3. Reports(u)'
    BY <1>1, <1>2 DEF Reports, WasRenewed
  <2>4. QED BY <2>1, <2>2, <2>3
<1>9. ASSUME NEW v \in User \ {u}
      PROVE  UnderWay(v)' /\ Bounded(v)' /\ Answered(v)' /\ Reports(v)'
  BY <1>1, <1>2, <1>4 DEF UnderWay, Bounded, Answered, Reports, WasRenewed
<1>10. QED BY <1>3, <1>5, <1>6, <1>8, <1>9 DEF IInv

LEMMA TickKeeps ==
  ASSUME IInv, Tick, UNCHANGED <<authority, omni>>
  PROVE  IInv'
<1>1. Typing /\ Filed /\ GidsMade
      /\ \A v \in User : UnderWay(v) /\ Bounded(v) /\ Answered(v) /\ Reports(v)
  BY DEF IInv
<1>2. /\ now' = now + 1
      /\ UNCHANGED <<site, slices, gids, call, answer, members, cmd, plan, file, told, had>>
  BY DEF Tick, authority, omni
<1>3. now \in Nat /\ MaxLife \in Nat /\ \A s \in DOMAIN slices : slices[s].exp \in Int
  BY <1>1, ClearinghouseAssumption DEF Typing, Credential
<1>4. Typing'
  BY <1>1, <1>2, <1>3 DEF Typing
<1>5. Filed'
  BY <1>1, <1>2, <1>3 DEF Filed
<1>6. GidsMade'
  BY <1>1, <1>2 DEF GidsMade, Knows
<1>7. ASSUME NEW v \in User
      PROVE  UnderWay(v)' /\ Answered(v)' /\ Reports(v)' /\ Bounded(v)'
  <2>1. UnderWay(v)' /\ Answered(v)' /\ Reports(v)'
    BY <1>1, <1>2 DEF UnderWay, Answered, Reports, WasRenewed
  <2>2. call[v].exp \in Int
    BY <1>1 DEF Typing, Call
  <2>3. Bounded(v)'
    BY <1>1, <1>2, <1>3, <2>2 DEF Bounded
  <2>4. QED BY <2>1, <2>3
<1>8. QED BY <1>4, <1>5, <1>6, <1>7 DEF IInv

LEMMA NextIInv == IInv /\ [Next]_vars => IInv'
<1> SUFFICES ASSUME IInv, [Next]_vars
             PROVE  IInv'
  OBVIOUS
<1>1. CASE UNCHANGED vars
  <2>1. UNCHANGED <<site, slices, gids, now, call, answer, members, cmd, plan, file, told, had>>
    BY <1>1 DEF vars, server, authority, omni
  <2>2. Typing' /\ Filed' /\ GidsMade'
    BY <2>1 DEF IInv, Typing, Filed, GidsMade, Knows
  <2>3. \A v \in User : UnderWay(v)' /\ Bounded(v)' /\ Answered(v)' /\ Reports(v)'
    BY <2>1 DEF IInv, UnderWay, Bounded, Answered, Reports, WasRenewed
  <2>4. QED BY <2>2, <2>3 DEF IInv
<1>2. QED BY <1>1, BeginKeeps, HandleKeeps, LoseKeeps, ServedKeeps, TickKeeps DEF Next

-----------------------------------------------------------------------------
(* A server without threads works at one call at a time, and what it has   *)
(* read of the table is as it was.                                         *)

LEMMA ReadsAreCurrent ==
  ASSUME NEW u \in User, Context(u), Alone, Current(u), Serve(u), UNCHANGED members
  PROVE  Current(u)'
<1>1. Typing /\ Filed /\ GidsMade /\ Work(u)
  BY ServeWorks DEF Context
<1>2. ASSUME call'[u] = NoCall
      PROVE  Current(u)'
  BY <1>2, Nones DEF Current
<1>3. ASSUME NEW a \in Answer, Done(u, a)
      PROVE  Current(u)'
  BY <1>1, <1>2, <1>3, DoneMoves
<1>4. {No, Fault, Yes(NoCred)} \subseteq Answer
  BY Nones
<1>5. ASSUME Has(call[u].urn)
      PROVE  slices[call[u].urn] \in Credential /\ Yes(slices[call[u].urn]) \in Answer
  BY <1>1, <1>5, InTable, Nones
<1>6. ASSUME NEW pc \in Places, NEW c \in Credential, Goes(u, pc, c), UNCHANGED slices
      PROVE  /\ call'[u].op = call[u].op /\ call'[u].urn = call[u].urn
             /\ call'[u].pc = pc /\ call'[u].seen = c
             /\ \A s : Has(s)' = Has(s)
  BY <1>1, <1>6, GoesMoves DEF Has
<1>7. /\ {"read", "make", "write", "pop"} \subseteq Places /\ NoCred \in Credential
  BY Nones DEF Places
<1>8. CASE CreateLook(u)
  <2>1. call[u].op = "create" /\ UNCHANGED slices
        /\ Goes(u, IF Has(call[u].urn) THEN "read" ELSE "make", NoCred)
    BY <1>8 DEF CreateLook, At
  <2>2. CASE Has(call[u].urn)
    BY <1>6, <1>7, <2>1, <2>2 DEF Current
  <2>3. CASE ~Has(call[u].urn)
    BY <1>6, <1>7, <2>1, <2>3 DEF Current
  <2>4. QED BY <2>2, <2>3
<1>9. CASE CreateRead(u)
  <2>1. call[u].op = "create" /\ UNCHANGED slices
    BY <1>9 DEF CreateRead, At
  <2>2. CASE ~Has(call[u].urn)
    BY <1>3, <1>4, <1>9, <2>2 DEF CreateRead
  <2>3. CASE Has(call[u].urn) /\ slices[call[u].urn].exp > now
    BY <1>3, <1>5, <1>9, <2>3 DEF CreateRead
  <2>4. CASE Has(call[u].urn) /\ ~(slices[call[u].urn].exp > now)
    <3>1. Goes(u, "make", slices[call[u].urn])
      BY <1>9, <2>4 DEF CreateRead
    <3>2. QED BY <1>5, <1>6, <1>7, <2>1, <2>4, <3>1 DEF Current
  <2>5. QED BY <2>2, <2>3, <2>4
<1>10. CASE CreateMake(u) \/ RenewWrite(u)
  <2>1. \E a : Done(u, a)
    BY <1>10 DEF CreateMake, RenewWrite
  <2>2. call'[u] = NoCall
    BY <1>1, <2>1 DEF Done, Typing
  <2>3. QED BY <1>2, <2>2
<1>11. CASE RenewLook(u)
  <2>1. call[u].op = "renew" /\ UNCHANGED slices
    BY <1>11 DEF RenewLook, At
  <2>2. (Has(call[u].urn) /\ Goes(u, "read", NoCred)) \/ Done(u, No)
    BY <1>11 DEF RenewLook
  <2>3. QED BY <1>3, <1>4, <1>6, <1>7, <2>1, <2>2 DEF Current
<1>12. CASE RenewRead(u)
  <2>1. call[u].op = "renew" /\ UNCHANGED slices
    BY <1>12 DEF RenewRead, At
  <2>2. (Has(call[u].urn) /\ Goes(u, "write", slices[call[u].urn])) \/ Done(u, Fault)
    BY <1>12 DEF RenewRead
  <2>3. CASE Has(call[u].urn) /\ Goes(u, "write", slices[call[u].urn])
    BY <1>5, <1>6, <1>7, <2>1, <2>3 DEF Current
  <2>4. CASE Done(u, Fault)
    BY <1>3, <1>4, <2>4
  <2>5. QED BY <2>2, <2>3, <2>4
<1>13. CASE DeleteLook(u)
  <2>1. call[u].op = "delete" /\ UNCHANGED slices
    BY <1>13 DEF DeleteLook, At
  <2>2. (Has(call[u].urn) /\ Goes(u, "pop", NoCred)) \/ Done(u, No)
    BY <1>13 DEF DeleteLook
  <2>3. QED BY <1>3, <1>4, <1>6, <1>7, <2>1, <2>2 DEF Current
<1>14. CASE DeletePop(u) \/ ListEnd(u) \/ RenewAtPg(u) \/ ResolveRead(u) \/ UserCredential(u)
            \/ GetVersion(u) \/ ListAggregates(u) \/ GetKeys(u)
  <2>1. Done(u, Yes(NoCred)) \/ Done(u, Fault)
    BY <1>14 DEF DeletePop, ListEnd, RenewAtPg, ResolveRead, UserCredential, GetVersion,
                 ListAggregates, GetKeys
  <2>2. QED BY <1>3, <1>4, <2>1
<1>15. CASE ResolveLook(u)
  <2>1. call[u].op = "resolve" /\ UNCHANGED slices
    BY <1>15 DEF ResolveLook, At
  <2>2. Goes(u, "read", NoCred) \/ Done(u, Fault)
    BY <1>15 DEF ResolveLook
  <2>3. QED BY <1>3, <1>4, <1>6, <1>7, <2>1, <2>2 DEF Current
<1>16. ASSUME NEW l, call[u].op = "list",
              call' = [call EXCEPT ![u] = [call[u] EXCEPT !.pc = "sweep", !.left = l]]
       PROVE  call'[u].op = "list" /\ call'[u].left = l
  BY <1>1, <1>16 DEF Typing, Call
<1>17. CASE ListLook(u)
  <2> DEFINE mine == {slices[s] : s \in {x \in DOMAIN slices : slices[x].owner = u}}
  <2>1. \A x \in mine : Has(x.urn) /\ slices[x.urn] = x
    BY <1>1 DEF Filed, Has
  <2> HIDE DEF mine
  <2>2. call' = [call EXCEPT ![u] = [call[u] EXCEPT !.pc = "sweep", !.left = mine]]
        /\ call[u].op = "list" /\ slices' = slices
    BY <1>17 DEF ListLook, At, mine
  <2>3. call'[u].op = "list" /\ call'[u].left = mine
    BY <1>16, <2>2
  <2>4. QED BY <2>1, <2>2, <2>3 DEF Current, Has
<1>18. CASE ListSweep(u)
  <2>1. PICK c \in call[u].left :
          IF c.exp <= now /\ ~Has(c.urn) THEN Done(u, Fault) /\ UNCHANGED slices
          ELSE /\ slices' = IF c.exp <= now THEN Without(c.urn) ELSE slices
               /\ call' = [call EXCEPT ![u].left = @ \ {c}]
               /\ UNCHANGED answer
    BY <1>18 DEF ListSweep
  <2>2. call[u].op = "list" /\ call[u].pc = "sweep"
    BY <1>18 DEF ListSweep, At
  <2>3. \A x \in call[u].left : Has(x.urn) /\ slices[x.urn] = x
    BY <2>2 DEF Current
  <2>4. PICK l : l = call[u].left \ {c}
    OBVIOUS
  <2>5. /\ slices' = IF c.exp <= now THEN Without(c.urn) ELSE slices
        /\ call' = [call EXCEPT ![u] = [call[u] EXCEPT !.left = l]]
    BY <2>1, <2>3, <2>4
  <2>6. [call[u] EXCEPT !.left = l] = [call[u] EXCEPT !.pc = "sweep", !.left = l]
    BY <1>1, <2>2 DEF Typing, Call
  <2>7. call'[u].op = "list" /\ call'[u].left = l
    BY <1>16, <2>2, <2>5, <2>6
  <2>8. \A x \in l : x.urn # c.urn /\ Has(x.urn) /\ slices[x.urn] = x
    BY <2>3, <2>4
  <2>9. \A x \in l : x.urn \in DOMAIN slices' /\ slices'[x.urn] = x
    BY <2>5, <2>8 DEF Without, Has
  <2>10. QED BY <2>7, <2>9 DEF Current, Has
<1>19. QED
  BY <1>8, <1>9, <1>10, <1>11, <1>12, <1>13, <1>14, <1>15, <1>17, <1>18 DEF Serve

(* OneInside is kept, with IInv.                                           *)
LEMMA NextOneInside == IInv /\ OneInside /\ [Next]_vars => OneInside'
<1> SUFFICES ASSUME IInv, OneInside, [Next]_vars, ~site'.threaded,
                    site'.kind \in {"gcf", "pg"}
             PROVE  /\ \A v, w \in User : Inside(v)' /\ Inside(w)' => v = w
                    /\ \A v \in User : Current(v)'
  BY DEF OneInside, Alone
<1>1. ASSUME UNCHANGED <<slices, call>>, site' = site
      PROVE  /\ \A v, w \in User : Inside(v)' /\ Inside(w)' => v = w
             /\ \A v \in User : Current(v)'
  BY <1>1 DEF OneInside, Alone, Inside, Current, Has
<1>2. ASSUME NEW u \in User, UNCHANGED slices, site' = site,
             \A v \in User \ {u} : call'[v] = call[v],
             call'[u].pc \in {"none", "look"}
      PROVE  /\ \A v, w \in User : Inside(v)' /\ Inside(w)' => v = w
             /\ \A v \in User : Current(v)'
  <2>1. Alone /\ \A v, w \in User : Inside(v) /\ Inside(w) => v = w
    BY <1>2 DEF OneInside, Alone
  <2>2. ~Inside(u)' /\ \A v \in User \ {u} : Inside(v)' => Inside(v)
    BY <1>2 DEF Inside
  <2>3. \A v \in User \ {u} : Current(v)'
    BY <1>2, <2>1 DEF OneInside, Current, Has
  <2>4. Current(u)'
    BY <1>2 DEF Current
  <2>5. QED BY <2>1, <2>2, <2>3, <2>4
<1>3. Typing /\ call \in [User -> Call]
  BY DEF IInv, Typing
<1>4. CASE UNCHANGED vars
  BY <1>1, <1>4 DEF vars, server
<1>5. CASE Tick /\ UNCHANGED <<authority, omni>>
  BY <1>1, <1>5 DEF Tick
<1>6. ASSUME NEW u \in User, Begin(u)
      PROVE  /\ \A v, w \in User : Inside(v)' /\ Inside(w)' => v = w
             /\ \A v \in User : Current(v)'
  <2>1. PICK c, p : call' = [call EXCEPT ![u] = Sent(c, p)]
    BY <1>6 DEF Begin
  <2>2. call'[u].pc = "look" /\ \A v \in User \ {u} : call'[v] = call[v]
    BY <1>3, <2>1 DEF Sent
  <2>3. QED BY <1>2, <1>6, <2>2 DEF Begin
<1>7. ASSUME NEW u \in User, Handle(u)
      PROVE  /\ \A v, w \in User : Inside(v)' /\ Inside(w)' => v = w
             /\ \A v \in User : Current(v)'
  <2>1. PICK c, p : call' = [call EXCEPT ![u] = NoCall] \/ call' = [call EXCEPT ![u] = Sent(c, p)]
    BY <1>7 DEF Handle
  <2>2. call'[u].pc \in {"none", "look"} /\ \A v \in User \ {u} : call'[v] = call[v]
    BY <1>3, <2>1, Nones DEF Sent
  <2>3. QED BY <1>2, <1>7, <2>2 DEF Handle
<1>8. ASSUME NEW u \in User, Lose(u)
      PROVE  /\ \A v, w \in User : Inside(v)' /\ Inside(w)' => v = w
             /\ \A v \in User : Current(v)'
  <2>1. call' = [call EXCEPT ![u] = NoCall]
    BY <1>8 DEF Lose
  <2>2. call'[u].pc = "none" /\ \A v \in User \ {u} : call'[v] = call[v]
    BY <1>3, <2>1, Nones
  <2>3. QED BY <1>2, <1>8, <2>2 DEF Lose
<1>9. ASSUME NEW u \in User, Served(u)
      PROVE  /\ \A v, w \in User : Inside(v)' /\ Inside(w)' => v = w
             /\ \A v \in User : Current(v)'
  <2>1. Context(u)
    BY DEF IInv, Context
  <2>2. Work(u)
    BY <1>9, <2>1, ServedWorks
  <2>3. Alone /\ site' = site
    BY <2>2 DEF Alone, Work
  <2>4. Serve(u) /\ UNCHANGED members
    BY <1>9, <2>3 DEF Served, ServeAuthority, RegistryRemove, Alone
  <2>5. Current(u)'
    BY <2>1, <2>3, <2>4, ReadsAreCurrent DEF OneInside
  <2>6. \A v \in User \ {u} : call'[v] = call[v] /\ ~Inside(v)
    BY <2>2, <2>3 DEF Work, Moves, Scheduled, Alone
  <2>7. \A v \in User \ {u} : ~Inside(v)' /\ Current(v)'
    BY <2>6 DEF Inside, Current
  <2>8. QED BY <2>5, <2>7
<1>10. QED BY <1>4, <1>5, <1>6, <1>7, <1>8, <1>9 DEF Next

(* A step of a server without threads is a step of the registry.           *)
LEMMA ServesAsRegistry ==
  ASSUME IInv, OneInside, Alone, NEW u \in User, Serve(u), UNCHANGED members
  PROVE  Registry!Next(Deleted) \/ UNCHANGED <<slices, now>>
<1>1. Context(u) /\ Typing /\ Filed /\ GidsMade /\ Bounded(u) /\ Current(u)
  BY DEF IInv, Context, OneInside
<1>2. now' = now
  BY <1>1, ServeWorks DEF Work
<1>3. call[u].pc # "none" => call[u].urn \in Urn
  BY <1>1, InCall DEF Context
<1>4. /\ now \in Nat /\ gids \in Nat /\ MaxLife \in Nat /\ CredLife \in Nat /\ CredLife <= MaxLife
      /\ call[u] \in Call
  BY <1>1, ClearinghouseAssumption DEF Typing
<1>5. ASSUME NEW s \in Urn, NEW c \in Credential, slices' = Put(s, c), c.urn = s, c.owner = u,
             c.exp <= now + MaxLife,
             IF s \in DOMAIN slices THEN c.gid = slices[s].gid
             ELSE \A x \in DOMAIN slices : slices[x].gid # c.gid
      PROVE  Registry!Next(Deleted)
  <2>1. DOMAIN slices' = DOMAIN slices \cup {s} /\ slices'[s] = c
        /\ \A x \in DOMAIN slices \ {s} : x \in DOMAIN slices' /\ slices'[x] = slices[x]
    BY <1>5 DEF Put
  <2>2. Registry!Write(u, s)
    BY <1>2, <1>5, <2>1 DEF Registry!Write, Registry!Slices, Registry!Others, Registry!Within
  <2>3. QED BY <2>2 DEF Registry!Next
<1>6. ASSUME NEW s \in DOMAIN slices, slices' = Without(s), Deleted(s) \/ slices[s].exp <= now
      PROVE  Registry!Next(Deleted)
  <2>1. DOMAIN slices' = DOMAIN slices \ {s}
        /\ \A x \in DOMAIN slices \ {s} : x \in DOMAIN slices' /\ slices'[x] = slices[x]
    BY <1>6 DEF Without
  <2>2. Registry!Remove(s) /\ s \in Registry!Slices
    BY <1>2, <1>6, <2>1 DEF Registry!Remove, Registry!Slices, Registry!Others
  <2>3. QED BY <1>6, <2>2 DEF Registry!Next
<1>7. CASE CreateMake(u)
  <2> DEFINE s == call[u].urn
             old == call[u].seen
             g == IF old = NoCred THEN gids + 1 ELSE old.gid
             c == Cred(s, g, u, now + CredLife)
  <2>1. slices' = Put(s, c) /\ call[u].op = "create" /\ call[u].pc = "make" /\ s \in Urn
    BY <1>3, <1>7 DEF CreateMake, At
  <2>2. IF Has(s) THEN old = slices[s] ELSE old = NoCred
    BY <1>1, <2>1 DEF Current
  <2>3. old \in Credential
    BY <1>4 DEF Call
  <2>4. g \in Nat
    BY <1>4, <2>3 DEF Credential
  <2>5. IF s \in DOMAIN slices THEN g = slices[s].gid
        ELSE \A x \in DOMAIN slices : slices[x].gid # g
    <3>1. CASE Has(s)
      <4>1. old = slices[s] /\ slices[s].gid # 0
        BY <1>1, <2>2, <3>1 DEF GidsMade, Has
      <4>2. old # NoCred
        BY <4>1, Nones
      <4>3. g = slices[s].gid
        BY <4>1, <4>2
      <4>4. QED BY <3>1, <4>3 DEF Has
    <3>2. CASE ~Has(s)
      <4>1. g = gids + 1
        BY <2>2, <3>2
      <4>2. \A x \in DOMAIN slices : slices[x].gid \in 1..gids
        BY <1>1 DEF GidsMade, Knows
      <4>3. \A x \in DOMAIN slices : slices[x].gid # gids + 1
        BY <1>4, <4>2
      <4>4. QED BY <3>2, <4>1, <4>3 DEF Has
    <3>3. QED BY <3>1, <3>2
  <2> HIDE DEF g
  <2>6. /\ c \in Credential /\ c.urn = s /\ c.owner = u /\ c.gid = g
        /\ c.exp <= now + MaxLife
    BY <1>4, <2>1, <2>4 DEF Cred, Credential, Owners
  <2>7. QED BY <1>5, <2>1, <2>5, <2>6
<1>8. CASE RenewWrite(u)
  <2> DEFINE s == call[u].urn
             c == Cred(s, call[u].seen.gid, u, call[u].exp)
  <2>1. slices' = Put(s, c) /\ call[u].op = "renew" /\ call[u].pc = "write" /\ s \in Urn
    BY <1>3, <1>8 DEF RenewWrite, At
  <2>2. s \in DOMAIN slices /\ call[u].seen = slices[s] /\ call[u].exp <= now + MaxLife
    BY <1>1, <2>1 DEF Current, Has, Bounded
  <2>3. call[u].seen.gid \in Nat /\ call[u].exp \in Int
    BY <1>4 DEF Call, Credential
  <2>4. /\ c \in Credential /\ c.urn = s /\ c.owner = u /\ c.gid = call[u].seen.gid
        /\ c.exp = call[u].exp
    BY <2>1, <2>3 DEF Cred, Credential, Owners
  <2>5. QED BY <1>5, <2>1, <2>2, <2>4
<1>9. CASE DeletePop(u)
  <2>1. Has(call[u].urn) /\ slices' = Without(call[u].urn) /\ Deleted(call[u].urn)
    BY <1>1, <1>9 DEF DeletePop, At, Current, Deleted
  <2>2. QED BY <1>6, <2>1 DEF Has
<1>10. CASE ListSweep(u)
  <2>1. PICK c \in call[u].left :
          IF c.exp <= now /\ ~Has(c.urn) THEN Done(u, Fault) /\ UNCHANGED slices
          ELSE /\ slices' = IF c.exp <= now THEN Without(c.urn) ELSE slices
               /\ call' = [call EXCEPT ![u].left = @ \ {c}]
               /\ UNCHANGED answer
    BY <1>10 DEF ListSweep
  <2>2. call[u].op = "list" /\ call[u].pc = "sweep"
    BY <1>10 DEF ListSweep, At
  <2>3. Has(c.urn) /\ slices[c.urn] = c
    BY <1>1, <2>2 DEF Current
  <2>4. CASE c.exp <= now
    <3>1. slices' = Without(c.urn) /\ slices[c.urn].exp <= now
      BY <2>1, <2>3, <2>4
    <3>2. QED BY <1>6, <2>3, <3>1 DEF Has
  <2>5. CASE ~(c.exp <= now)
    BY <1>2, <2>1, <2>5
  <2>6. QED BY <2>4, <2>5
<1>11. CASE ~(CreateMake(u) \/ RenewWrite(u) \/ DeletePop(u) \/ ListSweep(u))
  <2>1. slices' = slices
    BY <1>11 DEF Serve, CreateLook, CreateRead, RenewLook, RenewRead, RenewAtPg, DeleteLook,
                 ListLook, ListEnd, ResolveLook, ResolveRead, UserCredential, GetVersion,
                 ListAggregates, GetKeys
  <2>2. QED BY <1>2, <2>1
<1>12. QED BY <1>7, <1>8, <1>9, <1>10, <1>11

-----------------------------------------------------------------------------
(* The theorems. *)

(* IInv is an invariant, and OneInside with it.                            *)
THEOREM Inductive == Spec => [](IInv /\ OneInside)
BY InitIInv, NextIInv, NextOneInside, PTL DEF Spec

(* TypeOK: a slice's gid is its own, and its life bounded, with threads    *)
(* that renew, delete and make it at once and put back what they had read. *)
THEOREM IdentitiesAreKept == Spec => []TypeOK
<1>1. ASSUME IInv
      PROVE  TypeOK
  <2>1. /\ Typing /\ Filed /\ GidsMade /\ \A u \in User : UnderWay(u)
    BY <1>1 DEF IInv
  <2>2. ASSUME NEW s \in DOMAIN slices
        PROVE  /\ slices[s].gid \in 1..gids
               /\ \A x \in DOMAIN slices \ {s} : slices[x].gid # slices[s].gid
    BY <2>1 DEF GidsMade, Knows
  <2>3. QED BY <2>1, <2>2 DEF TypeOK, Filed, UnderWay
<1>2. IInv => TypeOK
  BY <1>1
<1>3. QED BY <1>2, Inductive, PTL

(* ReportsWhatWas: the expiration that renewslice reports is one that the  *)
(* server gave the slice while the command ran.                            *)
THEOREM ReportsAreTrue == Spec => []ReportsWhatWas
<1>1. IInv => ReportsWhatWas
  BY DEF IInv, Reports, ReportsWhatWas
<1>2. QED BY <1>1, Inductive, PTL

(* SavedIsCurrent: a credential that is written to the file is one that    *)
(* the server held for the slice while the command ran.                    *)
THEOREM SavedWasHeld == Spec => SavedIsCurrent
<1> DEFINE A == \A u \in User : file'[u] # file[u] => file'[u] \in had[u]
<1>1. ASSUME IInv, [Next]_vars
      PROVE  A
  <2>1. CASE UNCHANGED file
    BY <2>1
  <2>2. ASSUME NEW u \in User, Handle(u)
        PROVE  A
    <3>1. PICK p : p = plan[u][1]
      OBVIOUS
    <3>2. PICK a : a = answer[u]
      OBVIOUS
    <3>3. PICK r : r = Needed(u, Then(u, p, a, Tail(plan[u])))
      OBVIOUS
    <3>4. a.kind = "yes" /\ p.for \in {"save", "save if any", "told", "confirm"} => a.cred \in had[u]
      BY <1>1, <2>2, <3>1, <3>2, <3>3, AnswersServe
    <3>5. Saves(u, p, a) /\ file \in [User -> Credential]
      BY <1>1, <2>2, <3>1, <3>2 DEF Handle, IInv, Typing
    <3>6. QED BY <3>4, <3>5 DEF Saves
  <2>3. QED BY <1>1, <2>1, <2>2 DEF Next, Begin, Lose, Served, omni, vars
<1>2. IInv /\ [Next]_vars => [A]_vars
  BY <1>1
<1>3. QED BY <1>2, Inductive, PTL DEF Spec, SavedIsCurrent

(* KeepsPromises: a clearinghouse without threads implements the registry: *)
(* no step on its table but making, renewing or removing a slice as        *)
(* SliceRegistry allows, although a call reads the table and changes it in *)
(* different steps.                                                        *)
THEOREM ServerIsRegistry == Spec => KeepsPromises
<1> DEFINE A == site.threaded \/ site.kind \in {"chapi", "sfa"} \/ Registry!Next(Deleted)
<1>1. Init => Registry!Init
  BY DEF Init, ServerInit, Registry!Init
<1>2. ASSUME IInv, OneInside, [Next]_vars
      PROVE  A \/ UNCHANGED <<slices, now>>
  <2>1. site.kind \in {"gcf", "pg", "chapi", "sfa"}
    BY <1>2, KindOfSite DEF IInv
  <2>2. CASE ~Alone
    BY <2>1, <2>2 DEF Alone
  <2>3. CASE Alone
    <3>1. ASSUME NEW u \in User, Served(u)
          PROVE  A \/ UNCHANGED <<slices, now>>
      <4>1. Serve(u) /\ UNCHANGED members
        BY <2>3, <3>1 DEF Served, ServeAuthority, RegistryRemove, Alone
      <4>2. QED BY <1>2, <2>3, <4>1, ServesAsRegistry
    <3>2. CASE Tick
      <4>1. now' > now /\ UNCHANGED slices
        BY <1>2, <3>2 DEF Tick, IInv, Typing
      <4>2. QED BY <4>1 DEF Registry!Next
    <3>3. CASE UNCHANGED <<slices, now>>
      BY <3>3
    <3>4. QED BY <1>2, <3>1, <3>2, <3>3 DEF Next, Begin, Handle, Lose, vars, server
  <2>4. QED BY <2>2, <2>3
<1>3. IInv /\ OneInside /\ [Next]_vars => [A]_<<slices, now>>
  BY <1>2
<1>4. QED BY <1>1, <1>3, Inductive, PTL DEF Spec, KeepsPromises
=============================================================================
