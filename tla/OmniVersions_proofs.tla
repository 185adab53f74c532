------------------------ MODULE OmniVersions_proofs ------------------------
(***************************************************************************)
(* Theorems about the versions Omni speaks, for any number of commands at  *)
(* once, URLs, servers and any contents of their answers.                  *)
(***************************************************************************)
EXTENDS OmniVersions, TLAPS, FiniteSetTheorems, NaturalsInduction, WellFoundedInduction

-----------------------------------------------------------------------------
(* Sequences. *)

(* A set of natural numbers that is not empty has a least one.             *)
LEMMA LeastNatural ==
  ASSUME NEW S \in SUBSET Nat, S # {}
  PROVE  \E m \in S : \A k \in S : m <= k
<1>1. PICK m \in S : \A k \in S : <<k, m>> \notin OpToRel(<, Nat)
  BY NatLessThanWellFounded, WFMin
<1>2. \A k \in S : ~(k < m)
  BY <1>1 DEF OpToRel
<1>3. QED BY <1>2

(* The first of some URLs in the order of the command line is a URL.       *)
LEMMA FirstIsUrl ==
  ASSUME NEW urls \in SUBSET Url, urls # {}
  PROVE  First(urls) \in Url
<1> DEFINE I == {i \in 1..Len(Order) : Order[i] \in urls}
<1>1. Order \in Seq(Url) /\ \A u \in Url : \E i \in 1..Len(Order) : Order[i] = u
  BY VersionsAssumption DEF Range
<1>2. I # {} /\ I \in SUBSET Nat
  BY <1>1
<1>3. First(urls) = Order[Min(I)]
  BY <1>2 DEF First, SelectInSeq
<1> HIDE DEF I
<1>4. \E m \in I : \A k \in I : m <= k
  BY <1>2, LeastNatural
<1>5. Min(I) \in I
  BY <1>4 DEF Min
<1>6. QED BY <1>1, <1>3, <1>5 DEF I

(* There are finitely many URLs.                                           *)
LEMMA UrlsAreFinite == IsFiniteSet(Url)
<1>1. Order \in [1..Len(Order) -> Url] /\ Len(Order) \in Nat
      /\ \A u \in Url : \E i \in 1..Len(Order) : Order[i] = u
  BY VersionsAssumption DEF Range
<1>2. Order \in Surjection(1..Len(Order), Url)
  BY <1>1 DEF Surjection
<1>3. QED BY <1>1, <1>2, FS_NatSurjection DEF ExistsSurjection

-----------------------------------------------------------------------------
(* The invariant. *)

(* What a cache says a URL answered is what ran there then, or later: r is  *)
(* when each server last ran at each URL.                                  *)
Trustworthy(cache, r) ==
  \A u \in DOMAIN cache :
    /\ u \in Url /\ cache[u].ans \in Server
    /\ cache[u].at \in Int /\ cache[u].at <= r[u][cache[u].ans]

(* What a command keeps in memory is good, and ran there since oldest.     *)
Learned(known, r, since) ==
  \A u \in DOMAIN known :
    /\ u \in Url /\ known[u] \in Server /\ Usable(known[u])
    /\ since <= r[u][known[u]]

(* One command: its cache, its answers, how old they may be, the           *)
(* aggregates it is to contact and those it has tried.                     *)
Sound(m, known, since, rest, urls, tried, r, time) ==
  /\ m.loaded => Trustworthy(m.of, r)
  /\ Learned(known, r, since)
  /\ since \in Int /\ since <= time
  /\ rest \in SUBSET Url /\ urls \in SUBSET Url
  /\ tried \in Seq(Url)

(* The clock and the servers.                                              *)
Clocked ==
  /\ now \in Nat
  /\ am \in [Url -> Server]
  /\ ran \in [Url -> [Server -> Int]]
  /\ \A u \in Url : ran[u][am[u]] = now /\ \A s \in Server : ran[u][s] <= now

Domains ==
  /\ DOMAIN mem = Proc /\ DOMAIN vals = Proc /\ DOMAIN oldest = Proc
  /\ DOMAIN todo = Proc /\ DOMAIN clients = Proc /\ DOMAIN path = Proc
  /\ DOMAIN pc = Proc /\ DOMAIN cmd = Proc /\ DOMAIN version = Proc

SoundAt(p) ==
  Sound(mem[p], vals[p], oldest[p], todo[p], clients[p], path[p], ran, now)

(* Without a command nothing is known; until it chooses, a command goes by *)
(* the version requested.                                                  *)
Asked ==
  \A p \in Proc :
    /\ pc[p] = "idle" => vals[p] = <<>>
    /\ pc[p] = "survey" => cmd[p] \in Invocation /\ version[p] = Line[cmd[p]].version

IInv ==
  /\ Clocked /\ Domains
  /\ Trustworthy(file, ran)
  /\ \A p \in Proc : SoundAt(p)
  /\ Asked

(* Time passing, and servers that run on or are put in, make nothing that  *)
(* was said of earlier times false.                                        *)
LEMMA SoundStays ==
  ASSUME NEW r \in [Url -> [Server -> Int]], NEW q \in [Url -> [Server -> Int]],
         NEW t \in Int, NEW n \in Int, t <= n,
         \A u \in Url, s \in Server : r[u][s] <= q[u][s]
  PROVE  /\ \A f : Trustworthy(f, r) => Trustworthy(f, q)
         /\ \A m, known, since, rest, urls, tried :
              Sound(m, known, since, rest, urls, tried, r, t)
              => Sound(m, known, since, rest, urls, tried, q, n)
<1>1. ASSUME NEW f, Trustworthy(f, r) PROVE Trustworthy(f, q)
  <2> SUFFICES ASSUME NEW u \in DOMAIN f PROVE f[u].at <= q[u][f[u].ans]
    BY <1>1 DEF Trustworthy
  <2>1. /\ u \in Url /\ f[u].ans \in Server /\ f[u].at \in Int
        /\ f[u].at <= r[u][f[u].ans]
    BY <1>1 DEF Trustworthy
  <2>2. r[u][f[u].ans] \in Int /\ q[u][f[u].ans] \in Int /\ r[u][f[u].ans] <= q[u][f[u].ans]
    BY <2>1
  <2>3. QED BY <2>1, <2>2
<1>2. ASSUME NEW known, NEW since \in Int, Learned(known, r, since)
      PROVE  Learned(known, q, since)
  <2> SUFFICES ASSUME NEW u \in DOMAIN known PROVE since <= q[u][known[u]]
    BY <1>2 DEF Learned
  <2>1. u \in Url /\ known[u] \in Server /\ since <= r[u][known[u]]
    BY <1>2 DEF Learned
  <2>2. r[u][known[u]] \in Int /\ q[u][known[u]] \in Int /\ r[u][known[u]] <= q[u][known[u]]
    BY <2>1
  <2>3. QED BY <2>1, <2>2
<1>3. \A since \in Int : since <= t => since <= n
  OBVIOUS
<1>4. QED BY <1>1, <1>2, <1>3 DEF Sound

(* A command that is over, or has not begun.                               *)
LEMMA OverIsSound ==
  ASSUME NEW r, NEW t \in Nat
  PROVE  Sound(NotLoaded, <<>>, 0, {}, {}, <<>>, r, t)
BY DEF Sound, Learned, NotLoaded

LEMMA InitSound == Init => IInv
<1> SUFFICES ASSUME Init PROVE IInv
  OBVIOUS
<1>1. now \in Nat /\ am \in [Url -> Server]
  BY VersionsAssumption DEF Init
<1>2. Clocked
  BY <1>1 DEF Init, Clocked
<1>3. \A p \in Proc : SoundAt(p)
  BY <1>1, OverIsSound DEF Init, SoundAt
<1>4. Domains /\ Asked /\ Trustworthy(file, ran)
  BY DEF Init, Domains, Asked, Trustworthy
<1>5. QED BY <1>2, <1>3, <1>4 DEF IInv

-----------------------------------------------------------------------------
(* GetVersion. *)

(* What comes of asking u: a good answer is one that ran there since       *)
(* oldest, and the caches stay true.                                       *)
LEMMA GetversionIsTrue ==
  ASSUME IInv, NEW p \in Proc, NEW u \in Url, NEW r \in DoGetversion(p, u)
  PROVE  /\ Trustworthy(r.mem, ran) /\ Trustworthy(r.file, ran)
         /\ Usable(r.ans) => r.ans \in Server /\ oldest[p] <= ran[u][r.ans]
<1> DEFINE Got(m, n, ans, k) ==
      [ans |-> ans, mem |-> Cached(m, u, ans), file |-> Cached(m, u, ans), faults |-> n + k]
<1>1. PICK c \in Caches(p) :
        IF Fresh(p, c.of, u)
        THEN r = [ans |-> c.of[u].ans, mem |-> c.of, file |-> file, faults |-> c.faults]
        ELSE r \in {Got(c.of, c.faults, am[u], 0), Got(c.of, c.faults, Down, 1)}
  BY DEF DoGetversion
<1>2. Trustworthy(c.of, ran)
  <2>1. CASE mem[p].loaded
    BY <2>1 DEF Caches, IInv, SoundAt, Sound
  <2>2. CASE ~mem[p].loaded
    <3>1. Trustworthy(<<>>, ran)
      BY DEF Trustworthy
    <3>2. c.of = file \/ c.of = <<>>
      BY <2>2 DEF Caches
    <3>3. QED BY <3>1, <3>2 DEF IInv
  <2>3. QED BY <2>1, <2>2
<1>3. /\ oldest[p] \in Int /\ oldest[p] <= now /\ now \in Nat
      /\ am[u] \in Server /\ ran[u][am[u]] = now
  BY DEF IInv, SoundAt, Sound, Clocked
<1>4. CASE Fresh(p, c.of, u)
  <2>1. u \in DOMAIN c.of /\ oldest[p] <= c.of[u].at
    BY <1>4 DEF Fresh
  <2>2. /\ c.of[u].ans \in Server /\ c.of[u].at \in Int
        /\ c.of[u].at <= ran[u][c.of[u].ans]
    BY <1>2, <2>1 DEF Trustworthy
  <2>3. ran[u][c.of[u].ans] \in Int
    BY <2>2 DEF IInv, Clocked
  <2>4. oldest[p] <= ran[u][c.of[u].ans]
    BY <1>3, <2>1, <2>2, <2>3
  <2>5. QED BY <1>1, <1>2, <1>4, <2>2, <2>4 DEF IInv
<1>5. CASE ~Fresh(p, c.of, u)
  <2>1. ASSUME NEW ans \in {am[u], Down}
        PROVE  Trustworthy(Cached(c.of, u, ans), ran)
    <3>1. CASE ans = Down
      BY <1>2, <3>1 DEF Cached
    <3>2. CASE ans # Down
      <4>1. Cached(c.of, u, ans) =
              [x \in DOMAIN c.of \cup {u} |-> IF x = u THEN [ans |-> am[u], at |-> now]
                                                       ELSE c.of[x]]
        BY <3>2 DEF Cached, Put
      <4>2. QED BY <1>2, <1>3, <4>1 DEF Trustworthy
    <3>3. QED BY <3>1, <3>2
  <2>2. r.ans \in {am[u], Down} /\ r.mem = Cached(c.of, u, r.ans)
        /\ r.file = Cached(c.of, u, r.ans)
    BY <1>1, <1>5
  <2>3. Usable(r.ans) => r.ans = am[u]
    BY <2>2 DEF Usable
  <2>4. QED BY <1>3, <2>1, <2>2, <2>3
<1>6. QED BY <1>4, <1>5

-----------------------------------------------------------------------------
(* The steps. *)

(* The commands other than p stay as they are.                             *)
OthersWait(p) ==
  \A q \in Proc \ {p} :
    /\ mem'[q] = mem[q] /\ vals'[q] = vals[q] /\ oldest'[q] = oldest[q]
    /\ todo'[q] = todo[q] /\ clients'[q] = clients[q] /\ path'[q] = path[q]
    /\ pc'[q] = pc[q] /\ cmd'[q] = cmd[q] /\ version'[q] = version[q]

SoundNext(p) ==
  Sound(mem'[p], vals'[p], oldest'[p], todo'[p], clients'[p], path'[p], ran, now)

(* Command p goes on, and is well afterwards.                              *)
GoesOn(p) ==
  /\ Domains' /\ OthersWait(p)
  /\ SoundNext(p)
  /\ pc'[p] = "idle" => vals'[p] = <<>>
  /\ pc'[p] = "survey" => cmd'[p] \in Invocation /\ version'[p] = Line[cmd'[p]].version

LEMMA LocalStep ==
  ASSUME IInv, NEW p \in Proc, GoesOn(p),
         UNCHANGED <<am, now, ran>>, Trustworthy(file', ran)
  PROVE  IInv'
<1>1. Clocked'
  BY DEF IInv, Clocked
<1>2. ASSUME NEW q \in Proc PROVE SoundAt(q)'
  <2>1. Sound(mem'[q], vals'[q], oldest'[q], todo'[q], clients'[q], path'[q], ran', now')
    <3>1. CASE q = p
      BY <3>1 DEF GoesOn, SoundNext
    <3>2. CASE q # p
      BY <3>2 DEF GoesOn, OthersWait, IInv, SoundAt
    <3>3. QED BY <3>1, <3>2
  <2>2. QED BY <2>1 DEF SoundAt
<1>3. Asked'
  BY DEF GoesOn, OthersWait, IInv, Asked
<1>4. QED BY <1>1, <1>2, <1>3 DEF IInv, GoesOn

(* Any command may end.                                                    *)
LEMMA ExitGoesOn ==
  ASSUME IInv, NEW p \in Proc, Exit(p)
  PROVE  GoesOn(p) /\ pc'[p] = "idle"
<1>1. Domains' /\ OthersWait(p)
  BY DEF Exit, IInv, Domains, OthersWait
<1>2. /\ mem'[p] = NotLoaded /\ vals'[p] = <<>> /\ oldest'[p] = 0 /\ todo'[p] = {}
      /\ clients'[p] = {} /\ path'[p] = <<>> /\ pc'[p] = "idle"
  BY DEF Exit, IInv, Domains
<1>3. now \in Nat
  BY DEF IInv, Clocked
<1>4. SoundNext(p)
  BY <1>2, <1>3, OverIsSound DEF SoundNext
<1>5. QED BY <1>1, <1>2, <1>4 DEF GoesOn

(* A command goes on to the next aggregate.                                *)
LEMMA LeaveGoesOn ==
  ASSUME IInv, NEW p \in Proc, pc[p] = "calls", Leave(p)
  PROVE  GoesOn(p) /\ pc'[p] = "calls" /\ version' = version
<1>1. Domains' /\ OthersWait(p)
  BY DEF Leave, IInv, Domains, OthersWait
<1>2. todo'[p] = todo[p] \ {path[p][1]} /\ path'[p] = <<>>
  BY DEF Leave, IInv, Domains
<1>3. Sound(mem[p], vals[p], oldest[p], todo[p], clients[p], path[p], ran, now)
  BY DEF IInv, SoundAt
<1>4. SoundNext(p)
  BY <1>2, <1>3 DEF Leave, SoundNext, Sound
<1>5. QED BY <1>1, <1>4 DEF GoesOn, Leave

(* What is learned of a URL is kept with what was known.                   *)
LEMMA LearnIsSound ==
  ASSUME IInv, NEW p \in Proc, NEW u \in Url, NEW r \in DoGetversion(p, u), Learn(p, u, r)
  PROVE  /\ mem'[p].loaded => Trustworthy(mem'[p].of, ran)
         /\ Learned(vals'[p], ran, oldest[p])
         /\ DOMAIN mem' = Proc /\ DOMAIN vals' = Proc
         /\ \A q \in Proc \ {p} : mem'[q] = mem[q] /\ vals'[q] = vals[q]
<1>1. DOMAIN mem = Proc /\ DOMAIN vals = Proc
  BY DEF IInv, Domains
<1>2. mem'[p] = [loaded |-> TRUE, of |-> r.mem]
  BY <1>1 DEF Learn, Loaded
<1>3. Learned(vals[p], ran, oldest[p])
  BY DEF IInv, SoundAt, Sound
<1>4. Learned(vals'[p], ran, oldest[p])
  <2>1. CASE ~Usable(r.ans)
    BY <1>3, <2>1 DEF Learn
  <2>2. CASE Usable(r.ans)
    <3>1. vals'[p] = [x \in DOMAIN vals[p] \cup {u} |-> IF x = u THEN r.ans ELSE vals[p][x]]
      BY <1>1, <2>2 DEF Learn, Put
    <3>2. r.ans \in Server /\ oldest[p] <= ran[u][r.ans]
      BY <2>2, GetversionIsTrue
    <3>3. QED BY <1>3, <2>2, <3>1, <3>2 DEF Learned
  <2>3. QED BY <2>1, <2>2
<1>5. \A q \in Proc \ {p} : mem'[q] = mem[q] /\ vals'[q] = vals[q]
  BY <1>1 DEF Learn
<1>6. DOMAIN mem' = Proc /\ DOMAIN vals' = Proc
  BY <1>1 DEF Learn
<1>7. QED BY <1>2, <1>4, <1>5, <1>6, GetversionIsTrue

LEMMA AggregatesAreUrls ==
  ASSUME NEW i \in Invocation
  PROVE  Aggregates(Line[i]) \in SUBSET Url
BY VersionsAssumption DEF Aggregates

LEMMA BeginKeeps ==
  ASSUME IInv, NEW p \in Proc, Begin(p)
  PROVE  IInv'
<1>1. PICK i \in Invocation :
        IF Refused(Line[i], Aggregates(Line[i])) THEN UNCHANGED local
        ELSE /\ cmd' = [cmd EXCEPT ![p] = i]
             /\ version' = [version EXCEPT ![p] = Line[i].version]
             /\ oldest' = [oldest EXCEPT ![p] = now - CacheAge]
             /\ clients' = [clients EXCEPT ![p] = Aggregates(Line[i])]
             /\ todo' = [todo EXCEPT ![p] = Aggregates(Line[i])]
             /\ pc' = [pc EXCEPT ![p] = "survey"]
             /\ UNCHANGED <<mem, vals, path>>
  BY DEF Begin
<1>2. UNCHANGED <<am, file, now, ran>>
  BY DEF Begin
<1>3. CASE UNCHANGED local
  BY <1>2, <1>3 DEF local, IInv, Clocked, Domains, SoundAt, Asked
<1>4. CASE ~UNCHANGED local
  <2>1. Domains' /\ OthersWait(p)
    BY <1>1, <1>4 DEF IInv, Domains, OthersWait
  <2>2. Sound(mem[p], vals[p], oldest[p], todo[p], clients[p], path[p], ran, now)
    BY DEF IInv, SoundAt
  <2>3. /\ mem'[p] = mem[p] /\ vals'[p] = vals[p] /\ path'[p] = path[p]
        /\ oldest'[p] = now - CacheAge
        /\ todo'[p] = Aggregates(Line[i]) /\ clients'[p] = Aggregates(Line[i])
    BY <1>1, <1>4 DEF IInv, Domains
  <2>4. now - CacheAge \in Int /\ now - CacheAge <= now
    BY VersionsAssumption DEF IInv, Clocked
  <2>5. vals[p] = <<>>
    BY DEF Begin, IInv, Asked
  <2>6. Learned(vals[p], ran, now - CacheAge)
    BY <2>5 DEF Learned
  <2>7. SoundNext(p)
    BY <2>2, <2>3, <2>4, <2>6, AggregatesAreUrls DEF SoundNext, Sound
  <2>8. pc'[p] = "survey" /\ cmd'[p] = i /\ version'[p] = Line[i].version
    BY <1>1, <1>4 DEF IInv, Domains
  <2>9. GoesOn(p)
    BY <2>1, <2>7, <2>8 DEF GoesOn
  <2>10. QED BY <1>2, <2>9, LocalStep DEF IInv
<1>5. QED BY <1>3, <1>4

LEMMA SurveyKeeps ==
  ASSUME IInv, NEW p \in Proc, Survey(p)
  PROVE  IInv'
<1>1. Sound(mem[p], vals[p], oldest[p], todo[p], clients[p], path[p], ran, now)
  BY DEF IInv, SoundAt
<1>2. PICK u : u = First(todo[p])
  OBVIOUS
<1>3. u \in Url
  BY <1>1, <1>2, FirstIsUrl DEF Survey, Sound
<1>4. PICK r \in DoGetversion(p, u) :
        /\ file' = r.file
        /\ IF ~Usable(r.ans) /\ Cardinality(Aggregates(Line[cmd[p]])) = 1 THEN Exit(p)
           ELSE /\ Learn(p, u, r)
                /\ todo' = [todo EXCEPT ![p] = @ \ {u}]
                /\ clients' = IF Usable(r.ans) THEN clients
                              ELSE [clients EXCEPT ![p] = @ \ {u}]
                /\ UNCHANGED <<pc, cmd, version, oldest, path>>
  BY <1>2 DEF Survey
<1>5. UNCHANGED <<am, now, ran>> /\ Trustworthy(file', ran)
  BY <1>3, <1>4, GetversionIsTrue DEF Survey
<1>6. CASE Exit(p)
  BY <1>5, <1>6, ExitGoesOn, LocalStep
<1>7. CASE ~Exit(p)
  <2>1. /\ Learn(p, u, r)
        /\ todo' = [todo EXCEPT ![p] = @ \ {u}]
        /\ clients' = IF Usable(r.ans) THEN clients ELSE [clients EXCEPT ![p] = @ \ {u}]
        /\ UNCHANGED <<pc, cmd, version, oldest, path>>
    BY <1>4, <1>7
  <2>2. /\ mem'[p].loaded => Trustworthy(mem'[p].of, ran)
        /\ Learned(vals'[p], ran, oldest[p])
        /\ DOMAIN mem' = Proc /\ DOMAIN vals' = Proc
        /\ \A q \in Proc \ {p} : mem'[q] = mem[q] /\ vals'[q] = vals[q]
    BY <1>3, <2>1, LearnIsSound
  <2>3. /\ todo'[p] \in SUBSET todo[p] /\ clients'[p] \in SUBSET clients[p]
        /\ DOMAIN todo' = Proc /\ DOMAIN clients' = Proc
        /\ \A q \in Proc \ {p} : todo'[q] = todo[q] /\ clients'[q] = clients[q]
    BY <2>1 DEF IInv, Domains
  <2>4. SoundNext(p)
    BY <1>1, <2>1, <2>2, <2>3 DEF SoundNext, Sound
  <2>5. Domains' /\ OthersWait(p)
    BY <2>1, <2>2, <2>3 DEF IInv, Domains, OthersWait
  <2>6. pc[p] = "survey" /\ cmd[p] \in Invocation /\ version[p] = Line[cmd[p]].version
    BY DEF Survey, IInv, Asked
  <2>7. GoesOn(p)
    BY <2>1, <2>4, <2>5, <2>6 DEF GoesOn
  <2>8. QED BY <1>5, <2>7, LocalStep
<1>8. QED BY <1>6, <1>7

LEMMA ChooseKeeps ==
  ASSUME IInv, NEW p \in Proc, Choose(p)
  PROVE  IInv'
<1>1. UNCHANGED <<am, now, ran>> /\ Trustworthy(file', ran)
  BY DEF Choose, shared, IInv
<1>2. CASE Exit(p)
  BY <1>1, <1>2, ExitGoesOn, LocalStep
<1>3. CASE ~Exit(p)
  <2>1. PICK v : version' = [version EXCEPT ![p] = v]
    BY <1>3 DEF Choose
  <2>2. /\ pc' = [pc EXCEPT ![p] = "calls"]
        /\ todo' = [todo EXCEPT ![p] = clients[p]]
        /\ UNCHANGED <<cmd, oldest, clients, mem, vals, path>>
    BY <1>3 DEF Choose
  <2>3. Domains' /\ OthersWait(p)
    BY <2>1, <2>2 DEF IInv, Domains, OthersWait
  <2>4. pc'[p] = "calls" /\ todo'[p] = clients[p]
    BY <2>2 DEF IInv, Domains
  <2>5. SoundNext(p)
    BY <2>2, <2>4 DEF IInv, SoundAt, SoundNext, Sound
  <2>6. QED BY <1>1, <2>3, <2>4, <2>5, LocalStep DEF GoesOn
<1>4. QED BY <1>2, <1>3

LEMMA TurnKeeps ==
  ASSUME IInv, NEW p \in Proc, Turn(p)
  PROVE  IInv'
<1>1. UNCHANGED <<am, now, ran>> /\ Trustworthy(file', ran)
  BY DEF Turn, shared, IInv
<1>2. /\ path' = [path EXCEPT ![p] = <<First(todo[p])>>]
      /\ UNCHANGED <<pc, cmd, version, oldest, clients, todo, mem, vals>>
  BY DEF Turn
<1>3. Sound(mem[p], vals[p], oldest[p], todo[p], clients[p], path[p], ran, now)
  BY DEF IInv, SoundAt
<1>4. First(todo[p]) \in Url
  BY <1>3, FirstIsUrl DEF Turn, Sound
<1>5. path'[p] = <<First(todo[p])>>
  BY <1>2 DEF IInv, Domains
<1>6. path'[p] \in Seq(Url)
  BY <1>4, <1>5
<1>7. SoundNext(p)
  BY <1>2, <1>3, <1>6 DEF SoundNext, Sound
<1>8. Domains' /\ OthersWait(p)
  BY <1>2 DEF IInv, Domains, OthersWait
<1>9. pc[p] = "calls"
  BY DEF Turn
<1>10. QED BY <1>1, <1>2, <1>7, <1>8, <1>9, LocalStep DEF GoesOn

(* The URL looked at is the last of those tried.                           *)
LEMMA HereIsUrl ==
  ASSUME IInv, NEW p \in Proc, Checking(p)
  PROVE  pc[p] = "calls" /\ Here(p) \in Url
<1>1. path[p] \in Seq(Url) /\ path[p] # <<>>
  BY DEF IInv, SoundAt, Sound, Checking
<1>2. Len(path[p]) \in 1..Len(path[p])
  BY <1>1
<1>3. QED BY <1>1, <1>2 DEF Here, Last, Checking

LEMMA AskKeeps ==
  ASSUME IInv, NEW p \in Proc, Ask(p)
  PROVE  IInv'
<1>1. pc[p] = "calls" /\ Here(p) \in Url
  BY HereIsUrl DEF Ask
<1>2. Sound(mem[p], vals[p], oldest[p], todo[p], clients[p], path[p], ran, now)
  BY DEF IInv, SoundAt
<1>3. PICK u : u = Here(p)
  OBVIOUS
<1>4. PICK r \in DoGetversion(p, u) :
        /\ file' = r.file
        /\ IF Usable(r.ans)
           THEN Learn(p, u, r) /\ UNCHANGED <<pc, cmd, version, oldest, clients, todo, path>>
           ELSE IF Len(path[p]) >= 3 THEN Exit(p)
           ELSE /\ Learn(p, u, r)
                /\ todo' = [todo EXCEPT ![p] = @ \ {path[p][1]}]
                /\ path' = [path EXCEPT ![p] = <<>>]
                /\ UNCHANGED <<pc, cmd, version, oldest, clients>>
  BY <1>3 DEF Ask
<1>5. UNCHANGED <<am, now, ran>> /\ Trustworthy(file', ran)
  BY <1>1, <1>3, <1>4, GetversionIsTrue DEF Ask
<1>6. CASE Exit(p)
  BY <1>5, <1>6, ExitGoesOn, LocalStep
<1>7. CASE ~Exit(p)
  <2>1. Learn(p, u, r) /\ UNCHANGED <<pc, cmd, version, oldest, clients>>
    BY <1>4, <1>7
  <2>2. \/ UNCHANGED <<todo, path>>
        \/ /\ todo' = [todo EXCEPT ![p] = @ \ {path[p][1]}]
           /\ path' = [path EXCEPT ![p] = <<>>]
    BY <1>4, <1>7
  <2>3. /\ todo'[p] \in SUBSET todo[p] /\ path'[p] \in {path[p], <<>>}
        /\ DOMAIN todo' = Proc /\ DOMAIN path' = Proc
        /\ \A q \in Proc \ {p} : todo'[q] = todo[q] /\ path'[q] = path[q]
    BY <2>2 DEF IInv, Domains
  <2>4. /\ mem'[p].loaded => Trustworthy(mem'[p].of, ran)
        /\ Learned(vals'[p], ran, oldest[p])
        /\ DOMAIN mem' = Proc /\ DOMAIN vals' = Proc
        /\ \A q \in Proc \ {p} : mem'[q] = mem[q] /\ vals'[q] = vals[q]
    BY <1>1, <1>3, <2>1, LearnIsSound
  <2>5. path'[p] \in Seq(Url)
    <3>1. path[p] \in Seq(Url) /\ <<>> \in Seq(Url)
      BY <1>2 DEF Sound
    <3>2. QED BY <2>3, <3>1
  <2>6. SoundNext(p)
    BY <1>2, <2>1, <2>3, <2>4, <2>5 DEF SoundNext, Sound
  <2>7. Domains' /\ OthersWait(p)
    BY <2>1, <2>3, <2>4 DEF IInv, Domains, OthersWait
  <2>8. QED BY <1>1, <1>5, <2>1, <2>6, <2>7, LocalStep DEF GoesOn
<1>8. QED BY <1>6, <1>7

LEMMA RedirectKeeps ==
  ASSUME IInv, NEW p \in Proc, Redirect(p)
  PROVE  IInv'
<1>1. UNCHANGED <<am, now, ran>> /\ Trustworthy(file', ran)
  BY DEF Redirect, shared, IInv
<1>2. CASE Exit(p)
  BY <1>1, <1>2, ExitGoesOn, LocalStep
<1>3. CASE ~Exit(p)
  <2>1. PICK u : u = Told(p).adv[version[p]]
    OBVIOUS
  <2>2. /\ path' = [path EXCEPT ![p] = Append(@, u)]
        /\ UNCHANGED <<pc, cmd, version, oldest, clients, todo, mem, vals>>
    BY <1>3, <2>1 DEF Redirect
  <2>3. Sound(mem[p], vals[p], oldest[p], todo[p], clients[p], path[p], ran, now)
    BY DEF IInv, SoundAt
  <2>4. vals[p][Here(p)] \in Server /\ Usable(vals[p][Here(p)])
    BY <2>3 DEF Redirect, Known, Sound, Learned
  <2>5. u \in Url
    BY <2>1, <2>4, VersionsAssumption DEF Redirect, Told, Usable
  <2>6. path'[p] = Append(path[p], u)
    BY <2>2 DEF IInv, Domains
  <2>7. path'[p] \in Seq(Url)
    BY <2>3, <2>5, <2>6 DEF Sound
  <2>8. SoundNext(p)
    BY <2>2, <2>3, <2>7 DEF SoundNext, Sound
  <2>9. Domains' /\ OthersWait(p)
    BY <2>2 DEF IInv, Domains, OthersWait
  <2>10. pc[p] = "calls"
    BY DEF Redirect, Checking
  <2>11. QED BY <1>1, <2>2, <2>8, <2>9, <2>10, LocalStep DEF GoesOn
<1>4. QED BY <1>2, <1>3

(* Call, Skip and End leave one aggregate, or end the command.             *)
LEMMA LeavingKeeps ==
  ASSUME IInv, NEW p \in Proc, Call(p) \/ Skip(p) \/ End(p)
  PROVE  IInv'
<1>1. UNCHANGED <<am, now, ran>> /\ Trustworthy(file', ran)
  BY DEF Call, Skip, End, shared, IInv
<1>2. Exit(p) \/ (pc[p] = "calls" /\ Leave(p))
  BY DEF Call, Skip, End, Fail, Checking
<1>3. QED BY <1>1, <1>2, ExitGoesOn, LeaveGoesOn, LocalStep

LEMMA AroundKeeps ==
  ASSUME IInv, Tick \/ \E u \in Url, s \in Replacement : Redeploy(u, s)
  PROVE  IInv'
<1>1. /\ now' \in {now, now + 1} /\ now' \in Nat /\ now <= now'
      /\ UNCHANGED <<file, local>>
  BY DEF Tick, Redeploy, IInv, Clocked
<1>2. /\ Clocked'
      /\ \A u \in Url, s \in Server : ran[u][s] <= ran'[u][s]
  <2>1. CASE Tick
    <3>1. ran' = [u \in Url |-> [ran[u] EXCEPT ![am[u]] = now + 1]] /\ now' = now + 1 /\ am' = am
      BY <2>1 DEF Tick
    <3>2. \A u \in Url : am[u] \in Server /\ ran[u] \in [Server -> Int]
      BY DEF IInv, Clocked
    <3>3. \A u \in Url : ran'[u] = [ran[u] EXCEPT ![am[u]] = now + 1]
      BY <3>1
    <3>4. ran' \in [Url -> [Server -> Int]]
      BY <3>1, <3>2 DEF IInv, Clocked
    <3>5. \A u \in Url, s \in Server :
            ran'[u][s] = IF s = am[u] THEN now + 1 ELSE ran[u][s]
      BY <3>2, <3>3
    <3>6. QED BY <1>1, <3>1, <3>2, <3>4, <3>5 DEF IInv, Clocked
  <2>2. ASSUME NEW v \in Url, NEW t \in Replacement, Redeploy(v, t)
        PROVE  /\ Clocked'
               /\ \A u \in Url, s \in Server : ran[u][s] <= ran'[u][s]
    <3>1. am' = [am EXCEPT ![v] = t] /\ ran' = [ran EXCEPT ![v][t] = now] /\ now' = now
      BY <2>2 DEF Redeploy
    <3>2. t \in Server
      BY VersionsAssumption
    <3>3. am' \in [Url -> Server] /\ ran' \in [Url -> [Server -> Int]]
      BY <3>1, <3>2 DEF IInv, Clocked
    <3>4. \A u \in Url, s \in Server :
            ran'[u][s] = IF u = v /\ s = t THEN now ELSE ran[u][s]
      BY <3>1, <3>2 DEF IInv, Clocked
    <3>5. \A u \in Url : am'[u] = IF u = v THEN t ELSE am[u]
      BY <3>1 DEF IInv, Clocked
    <3>6. QED BY <3>1, <3>2, <3>3, <3>4, <3>5 DEF IInv, Clocked
  <2>3. QED BY <2>1, <2>2
<1>3. /\ ran \in [Url -> [Server -> Int]] /\ ran' \in [Url -> [Server -> Int]]
      /\ now \in Int /\ now' \in Int
  BY <1>1, <1>2 DEF IInv, Clocked
<1>4. Trustworthy(file', ran')
  BY <1>1, <1>2, <1>3, SoundStays DEF IInv
<1>5. \A p \in Proc : Sound(mem[p], vals[p], oldest[p], todo[p], clients[p], path[p], ran', now')
  BY <1>1, <1>2, <1>3, SoundStays DEF IInv, SoundAt
<1>6. \A p \in Proc : SoundAt(p)'
  BY <1>1, <1>5 DEF local, SoundAt
<1>7. Domains' /\ Asked'
  BY <1>1 DEF IInv, Domains, Asked, local
<1>8. QED BY <1>2, <1>4, <1>6, <1>7 DEF IInv

LEMMA Inductive == Spec => []IInv
<1>1. IInv /\ [Next]_vars => IInv'
  <2> SUFFICES ASSUME IInv, [Next]_vars PROVE IInv'
    OBVIOUS
  <2>1. CASE UNCHANGED vars
    BY <2>1 DEF vars, shared, local, IInv, Clocked, Domains, SoundAt, Asked
  <2>2. ASSUME NEW p \in Proc, Begin(p) \/ Omni(p)
        PROVE  IInv'
    BY <2>2, BeginKeeps, SurveyKeeps, ChooseKeeps, TurnKeeps, AskKeeps, RedirectKeeps,
       LeavingKeeps DEF Omni
  <2>3. QED BY <2>1, <2>2, AroundKeeps DEF Next
<1>2. QED BY <1>1, InitSound, PTL DEF Spec

-----------------------------------------------------------------------------
(* The theorems. *)

(* SpokeRecently: whoever wrote the cache, and whatever was redeployed, a  *)
(* call is made in a version that its URL spoke no longer ago than the     *)
(* command lets the cache remember, and listresources asks for a format    *)
(* that this URL offered then.                                             *)
THEOREM CallsAreUnderstood == Spec => []SpokeRecently
<1>1. Init => SpokeRecently
  BY DEF Init, SpokeRecently, NoCall
<1>2. IInv /\ SpokeRecently /\ [Next]_vars => SpokeRecently'
  <2> SUFFICES ASSUME IInv, SpokeRecently, [Next]_vars PROVE SpokeRecently'
    OBVIOUS
  <2>1. CASE UNCHANGED vars
    BY <2>1 DEF vars, shared, local, SpokeRecently
  <2>2. CASE call' = NoCall
    BY <2>2 DEF SpokeRecently, NoCall
  <2>3. ASSUME NEW p \in Proc, Call(p), call' # NoCall
        PROVE  SpokeRecently'
    <3> DEFINE i == Line[cmd[p]]
               s == vals[p][Here(p)]
               formats == SelectRSpecVersion(vals[p][FormatsOf(p)], i)
    <3>1. /\ formats # {}
          /\ call' = [made |-> TRUE, url |-> Here(p), version |-> version[p], line |-> i,
                      format |-> CHOOSE f \in formats : TRUE, oldest |-> oldest[p]]
          /\ ran' = ran
      BY <2>3 DEF Call, Called, shared
    <3>2. /\ Here(p) \in Url /\ s \in Server /\ Usable(s) /\ oldest[p] <= ran[Here(p)][s]
      BY <2>3 DEF Call, Known, IInv, SoundAt, Sound, Learned
    <3>3. ~i.dev => Says[s].live = version[p]
      BY <2>3 DEF Call, Speaks, Told
    <3>4. ASSUME ~i.dev, i.op = "listresources", i.explicitFormat
          PROVE  (CHOOSE f \in formats : TRUE) \in Says[s].formats
      <4>1. FormatsOf(p) = Here(p)
        BY <3>4 DEF FormatsOf
      <4>2. formats \subseteq Says[s].formats
        BY <3>1, <3>4, <4>1 DEF SelectRSpecVersion
      <4>3. QED BY <3>1, <4>2
    <3>5. ran[Here(p)][s] >= oldest[p]
      <4>1. ran[Here(p)][s] \in Int /\ oldest[p] \in Int
        BY <3>2 DEF IInv, Clocked, SoundAt, Sound
      <4>2. QED BY <3>2, <4>1
    <3> HIDE DEF i, s, formats
    <3>6. /\ call'.url = Here(p) /\ call'.version = version[p] /\ call'.line = i
          /\ call'.format = (CHOOSE f \in formats : TRUE) /\ call'.oldest = oldest[p]
      BY <3>1
    <3>7. PICK w \in Server : w = s
      BY <3>2
    <3>8. ~i.dev =>
            /\ Usable(w) /\ ran'[call'.url][w] >= call'.oldest
            /\ Says[w].live = call'.version
            /\ i.op = "listresources" /\ i.explicitFormat => call'.format \in Says[w].formats
      BY <3>1, <3>2, <3>3, <3>4, <3>5, <3>6, <3>7
    <3>9. QED BY <3>6, <3>8 DEF SpokeRecently
  <2>4. QED
    BY <2>1, <2>2, <2>3
    DEF Next, Omni, Begin, Survey, Choose, Turn, Ask, Redirect, Skip, End, Tick, Redeploy
<1>3. QED BY <1>1, <1>2, Inductive, PTL DEF Spec

-----------------------------------------------------------------------------
(* Switching versions. *)

(* A server that lists versions lists the one it speaks, as the managers   *)
(* of this repository do.                                                  *)
ListsItself ==
  \A s \in Server :
    Usable(s) /\ DOMAIN Says[s].adv # {} => Says[s].live \in DOMAIN Says[s].adv

(* What _correctAPIVersion may choose is offered, here or elsewhere, by no *)
(* fewer aggregates than the version requested.                            *)
LEMMA PreferredServesMore ==
  ASSUME ListsItself,
         NEW known, IsFiniteSet(DOMAIN known),
         \A u \in DOMAIN known : known[u] \in Server /\ Usable(known[u]),
         NEW v \in Version, NEW w \in Preferred(known, v)
  PROVE  Cardinality(Served(known, w)) >= Cardinality(Served(known, v))
<1>1. \A x : /\ Live(known, x) \subseteq Advertised(known, x)
             /\ Advertised(known, x) \subseteq DOMAIN known
  BY DEF ListsItself, Live, Advertised
<1>2. \A x : Served(known, x) = Advertised(known, x)
  BY <1>1 DEF Served
<1>3. ASSUME NEW x
      PROVE  /\ IsFiniteSet(Advertised(known, x))
             /\ Cardinality(Advertised(known, x)) \in Nat
             /\ Cardinality(Advertised(known, x)) <= Cardinality(DOMAIN known)
             /\ Cardinality(Live(known, x)) \in Nat
             /\ Cardinality(Live(known, x)) <= Cardinality(Advertised(known, x))
  <2>1. /\ IsFiniteSet(Advertised(known, x))
        /\ Cardinality(Advertised(known, x)) <= Cardinality(DOMAIN known)
    BY <1>1, FS_Subset
  <2>2. /\ IsFiniteSet(Live(known, x))
        /\ Cardinality(Live(known, x)) <= Cardinality(Advertised(known, x))
    BY <1>1, <2>1, FS_Subset
  <2>3. QED BY <2>1, <2>2, FS_CardinalityType
<1>4. Cardinality(DOMAIN known) \in Nat
  BY FS_CardinalityType
<1> DEFINE A(x) == Cardinality(Advertised(known, x))
           L(x) == Cardinality(Live(known, x))
           N == Cardinality(DOMAIN known)
<1>5. \/ Live(known, w) = DOMAIN known
      \/ w = v
      \/ A(v) <= A(w)
      \/ 2 * L(w) >= N /\ ~(2 * A(v) >= N /\ Advertised(known, v) # {})
  BY DEF Preferred, Most, Half
<1>6. Live(known, w) = DOMAIN known => A(v) <= A(w)
  <2> SUFFICES ASSUME Live(known, w) = DOMAIN known PROVE A(v) <= A(w)
    OBVIOUS
  <2>1. Advertised(known, w) = DOMAIN known
    BY <1>1
  <2>2. QED BY <1>3, <2>1
<1>7. Advertised(known, v) = {} => A(v) = 0
  BY FS_EmptySet
<1>8. A(v) <= A(w)
  <2>1. A(v) \in Nat /\ A(w) \in Nat /\ L(w) \in Nat /\ L(w) <= A(w) /\ N \in Nat
    BY <1>3, <1>4
  <2> HIDE DEF A, L, N
  <2>2. CASE 2 * L(w) >= N /\ ~(2 * A(v) >= N)
    BY <2>1, <2>2
  <2>3. QED BY <1>5, <1>6, <1>7, <2>1, <2>2
<1>9. QED BY <1>2, <1>3, <1>8

(* SwitchNeverLoses: Omni leaves the version requested only without -V and *)
(* --devmode, and for one that no fewer of the aggregates can be called    *)
(* in, as they told it, provided they list the version they speak.         *)
THEOREM SwitchingIsSafe ==
  ASSUME ListsItself
  PROVE  Spec => SwitchNeverLoses
<1> DEFINE Safe == \A p \in Proc :
       pc'[p] = "calls" /\ version'[p] # version[p] =>
         /\ ~Line[cmd[p]].dev /\ ~Line[cmd[p]].explicitVersion
         /\ Cardinality(Served(vals[p], version'[p])) >= Cardinality(Served(vals[p], version[p]))
<1>1. ASSUME IInv, Next
      PROVE  Safe
  <2> SUFFICES ASSUME NEW p \in Proc, pc'[p] = "calls", version'[p] # version[p]
               PROVE  /\ ~Line[cmd[p]].dev /\ ~Line[cmd[p]].explicitVersion
                      /\ Cardinality(Served(vals[p], version'[p]))
                           >= Cardinality(Served(vals[p], version[p]))
    OBVIOUS
  <2>1. version' # version
    OBVIOUS
  <2>2. ASSUME NEW q \in Proc, Exit(q)
        PROVE  FALSE
    BY <1>1, <2>2, ExitGoesOn DEF GoesOn, OthersWait
  <2>3. ASSUME NEW q \in Proc, Begin(q)
        PROVE  FALSE
    BY <1>1, <2>1, <2>3 DEF Begin, local, IInv, Domains
  <2>4. PICK q \in Proc : Choose(q) /\ ~Exit(q)
    BY <1>1, <2>1, <2>2, <2>3
    DEF Next, Omni, Survey, Turn, Ask, Call, Redirect, Skip, End, Fail, Leave, Tick, Redeploy,
        local
  <2>5. PICK v \in CorrectAPIVersion(vals[q], Line[cmd[q]]) :
          version' = [version EXCEPT ![q] = v]
    BY <2>4 DEF Choose
  <2>6. q = p /\ version'[p] = v
    BY <1>1, <2>5 DEF IInv, Domains
  <2>7. cmd[p] \in Invocation /\ version[p] = Line[cmd[p]].version
    BY <1>1, <2>4, <2>6 DEF Choose, IInv, Asked
  <2>8. /\ ~Line[cmd[p]].dev /\ ~Line[cmd[p]].explicitVersion
        /\ v \in Preferred(vals[p], version[p])
    BY <2>5, <2>6, <2>7 DEF CorrectAPIVersion
  <2>9. /\ DOMAIN vals[p] \subseteq Url
        /\ \A u \in DOMAIN vals[p] : vals[p][u] \in Server /\ Usable(vals[p][u])
    BY <1>1 DEF IInv, SoundAt, Sound, Learned
  <2>10. IsFiniteSet(DOMAIN vals[p])
    BY <2>9, UrlsAreFinite, FS_Subset
  <2>11. version[p] \in Version
    BY <2>7, VersionsAssumption
  <2>12. QED BY <2>6, <2>8, <2>9, <2>10, <2>11, PreferredServesMore
<1>2. IInv /\ [Next]_vars => [Safe]_vars
  BY <1>1
<1> HIDE DEF Safe
<1>3. Spec => [][Safe]_vars
  BY <1>2, Inductive, PTL DEF Spec
<1>4. QED BY <1>3 DEF Safe, SwitchNeverLoses
=============================================================================
