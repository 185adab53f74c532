---------------------------- MODULE OmniVersions ----------------------------
(***************************************************************************)
(* Which version of the AM API Omni speaks, and at which URL               *)
(* (amhandler.py).                                                         *)
(*                                                                         *)
(* A command asks GetVersion of every aggregate it may contact, or takes   *)
(* the answer from a cache file that all Omni commands of a user share,    *)
(* drops the aggregates it cannot use, may switch to another version of    *)
(* the API than the one requested, and then calls each aggregate, at       *)
(* another URL where the aggregate says the version is spoken there.       *)
(* Meanwhile the aggregates change: they are upgraded, moved, turned off.  *)
(***************************************************************************)
EXTENDS Integers, FiniteSets, Sequences, SequencesExt

CONSTANTS
  Proc,         \* Omni commands running at once
  Url,          \* aggregate manager URLs
  Order,        \* the order a command contacts them in, as a sequence
  Version,      \* versions of the AM API
  Invocation,   \* command lines
  Line,         \* the arguments and options of each
  Server,       \* what may run at an URL
  Says,         \* the answer of each to GetVersion, see Answer
  Down,         \* nothing answers there
  Started,      \* what the URLs may run at first: a subset of [Url -> Server]
  Configured,   \* URLs of the omni_config
  Registry,     \* URLs the clearinghouse lists
  CacheAge,     \* --GetVersionCacheAge
  MaxTime,      \* bound of the clock
  Replacement,  \* what may be put in the place of another server
  MaxFaults,    \* bound of the changes of servers, of the GetVersion calls that
                \* fail although the aggregate is up, and of the torn cache files
  MaxCommands   \* bound of the commands

ASSUME VersionsAssumption ==
  /\ Order \in Seq(Url) /\ Range(Order) = Url
  /\ Version \subseteq Nat \ {0}
  /\ {CacheAge, MaxTime, MaxFaults, MaxCommands} \subseteq Nat
  /\ Started \subseteq [Url -> Server] /\ Replacement \subseteq Server
  /\ Configured \cup Registry \subseteq Url
  /\ \A i \in Invocation : /\ Line[i].named \cup Line[i].recorded \subseteq Url
                            /\ Line[i].version \in Version
  /\ \A s \in Server \ {Down} : Says[s].kind = "version" =>
       \A v \in DOMAIN Says[s].adv : Says[s].adv[v] \in Url

\* What answers is no GetVersion result.
Garbled == [kind |-> "garbled"]
\* live: the version spoken at the URL; adv: the URL of each version the
\* aggregate advertises; formats: the RSpec formats; default: its advertisements'.
Answer(live, adv, formats, default) ==
  [kind |-> "version", live |-> live, adv |-> adv, formats |-> formats, default |-> default]

VARIABLES
  am,        \* what runs at each URL
  file,      \* the cache file: URL -> [ans, at]
  now,
  left,      \* commands and faults still allowed
  ran,       \* ran[u][s]: when server s last ran at u, -1: never
  pc, cmd, version, oldest, clients, todo,
  mem,       \* the cache in memory; NotLoaded before the first use
  vals,      \* gvValueCache: URL -> answer
  path,      \* the URLs _checkValidClient has tried for one aggregate
  call       \* the call just made to an aggregate

shared == <<am, file, now, left, ran>>
local == <<pc, cmd, version, oldest, clients, todo, mem, vals, path>>
vars == <<shared, local, call>>

NotLoaded == [loaded |-> FALSE]
Loaded(m) == [loaded |-> TRUE, of |-> m]
NoCall == [made |-> FALSE]
NoCommand == "none"

First(urls) == Order[SelectInSeq(Order, LAMBDA u : u \in urls)]

Put(f, k, v) == [x \in DOMAIN f \cup {k} |-> IF x = k THEN v ELSE f[x]]

Init ==
  /\ am \in Started
  /\ file = <<>>
  /\ now = CacheAge
  /\ left = [commands |-> MaxCommands, faults |-> MaxFaults]
  /\ ran = [u \in Url |-> [s \in Server |-> IF s = am[u] THEN now ELSE -1]]
  /\ pc = [p \in Proc |-> "idle"]
  /\ cmd = [p \in Proc |-> NoCommand]
  /\ version = [p \in Proc |-> 0]
  /\ oldest = [p \in Proc |-> 0]
  /\ clients = [p \in Proc |-> {}]
  /\ todo = [p \in Proc |-> {}]
  /\ mem = [p \in Proc |-> NotLoaded]
  /\ vals = [p \in Proc |-> <<>>]
  /\ path = [p \in Proc |-> <<>>]
  /\ call = NoCall

-----------------------------------------------------------------------------
(* Pure parts. *)

\* The aggregates of a command: those recorded for the slice, with those named
\* by -a; or those of the omni_config; or those of the clearinghouse.
Aggregates(i) ==
  IF i.bySlice /\ i.named = {} THEN i.recorded
  ELSE IF i.named # {} THEN i.named \cup (IF i.bySlice THEN i.recorded ELSE {})
  ELSE IF Configured # {} THEN Configured
  ELSE IF i.lookup THEN Registry ELSE {}

\* CreateSliver needs -a; CreateImage works on exactly one aggregate.
Refused(i, urls) ==
  \/ i.op = "createsliver" /\ i.named = {}
  \/ i.op = "createimage" /\ Cardinality(urls) > 1

Live(known, v) == {u \in DOMAIN known : Says[known[u]].live = v}
\* An answer without a list of versions counts for the one it speaks.
Advertised(known, v) ==
  {u \in DOMAIN known : IF DOMAIN Says[known[u]].adv = {} THEN Says[known[u]].live = v
                        ELSE v \in DOMAIN Says[known[u]].adv}
Half(known, urls) == 2 * Cardinality(urls) >= Cardinality(DOMAIN known)
Most(speakers) ==
  {v \in Version : \A w \in Version : Cardinality(speakers[w]) <= Cardinality(speakers[v])}

\* The requested version is good enough to stay with, without looking further.
Suits(known, v) ==
  \/ Live(known, v) = DOMAIN known
  \/ Advertised(known, v) = DOMAIN known

\* Fault: the version most aggregates speak is taken although the requested one is advertised by half.
Preferred_hasty(known, v) ==
  LET single == {w \in Version : Live(known, w) = DOMAIN known}
  IN IF single # {} THEN single ELSE Most([w \in Version |-> Live(known, w)])

\* The versions _correctAPIVersion may switch to, or stay at, when requested v
\* does not suit; it sorts by count, and takes any of those with the same count.
Preferred(known, v) ==
  LET lively == Most([w \in Version |-> Live(known, w)])
      popular == Most([w \in Version |-> Advertised(known, w)])
      single == {w \in Version : Live(known, w) = DOMAIN known}
  IN IF single # {} THEN single
     ELSE IF Half(known, Advertised(known, v)) /\ Advertised(known, v) # {} THEN {v}
     ELSE IF v \in lively \/ v \in popular THEN {v}
     ELSE {w \in popular : Advertised(known, w) = DOMAIN known}
          \cup {w \in lively : Half(known, Live(known, w))
                               /\ \E x \in popular : Advertised(known, x) # DOMAIN known}
          \cup {x \in popular : /\ Advertised(known, x) # DOMAIN known
                                /\ \E w \in lively : ~Half(known, Live(known, w))
                                /\ Half(known, Advertised(known, x)) \/ Advertised(known, v) = {}}
          \cup {x \in {v} : /\ Advertised(known, v) # {}
                            /\ \E w \in lively : ~Half(known, Live(known, w))
                            /\ \E w \in popular : ~Half(known, Advertised(known, w))}

\* With --devmode or an explicit -V the requested version is kept.
CorrectAPIVersion(known, i) ==
  IF i.dev \/ i.explicitVersion \/ Suits(known, i.version) THEN {i.version}
  ELSE Preferred(known, i.version)

\* The RSpec format asked for, given what the aggregate answered; {} when the
\* aggregate is skipped.
SelectRSpecVersion(ans, i) ==
  IF Says[ans].formats = {} THEN IF i.dev THEN {i.format} ELSE {}
  ELSE IF i.format \in Says[ans].formats THEN {i.format}
  ELSE IF i.explicitFormat THEN IF i.dev THEN {i.format} ELSE {}
  ELSE IF Cardinality(Says[ans].formats) = 1 THEN Says[ans].formats
  ELSE IF ~i.ofSlice /\ Says[ans].default \in Says[ans].formats THEN {Says[ans].default}
  ELSE {i.format}

-----------------------------------------------------------------------------
(* GetVersion and its cache. *)

\* The cache in memory, read from the file when it is first used; a file that
\* another command is writing may read as nothing.
Caches(p) ==
  IF mem[p].loaded THEN {[of |-> mem[p].of, faults |-> 0]}
  ELSE {[of |-> file, faults |-> 0], [of |-> <<>>, faults |-> 1]}

\* Fault: a cached answer is used whatever its age.
Fresh_ageless(p, m, u) == Line[cmd[p]].cache /\ u \in DOMAIN m

\* Whether a cached answer is used.
Fresh(p, m, u) ==
  /\ Line[cmd[p]].cache
  /\ u \in DOMAIN m
  /\ m[u].at >= oldest[p]

\* The cache after asking u: an error leaves the old entry.
Cached(m, u, ans) == IF ans = Down THEN m ELSE Put(m, u, [ans |-> ans, at |-> now])

\* _do_getversion at u: the answer, the cache and the file.  The call may fail
\* although the aggregate is up.
DoGetversion(p, u) ==
  UNION {LET m == c.of
             Got(ans, n) == [ans |-> ans, mem |-> Cached(m, u, ans), file |-> Cached(m, u, ans),
                             faults |-> c.faults + n]
         IN IF Fresh(p, m, u)
            THEN {[ans |-> m[u].ans, mem |-> m, file |-> file, faults |-> c.faults]}
            ELSE {Got(am[u], 0), Got(Down, 1)} : c \in Caches(p)}

\* _do_and_check_getversion: whether the answer is of use.
Usable(ans) == ans # Down /\ Says[ans].kind = "version"

\* Process p learns r about u; only a good answer is kept in memory.
Learn(p, u, r) ==
  /\ mem' = [mem EXCEPT ![p] = Loaded(r.mem)]
  /\ vals' = IF Usable(r.ans) THEN [vals EXCEPT ![p] = Put(@, u, r.ans)] ELSE vals

-----------------------------------------------------------------------------
(* A command. *)

\* The command is over, and what it had in memory is gone.
Exit(p) ==
  /\ pc' = [pc EXCEPT ![p] = "idle"]
  /\ cmd' = [cmd EXCEPT ![p] = NoCommand]
  /\ version' = [version EXCEPT ![p] = 0]
  /\ oldest' = [oldest EXCEPT ![p] = 0]
  /\ clients' = [clients EXCEPT ![p] = {}]
  /\ todo' = [todo EXCEPT ![p] = {}]
  /\ mem' = [mem EXCEPT ![p] = NotLoaded]
  /\ vals' = [vals EXCEPT ![p] = <<>>]
  /\ path' = [path EXCEPT ![p] = <<>>]

Begin(p) ==
  /\ pc[p] = "idle"
  /\ left.commands > 0
  /\ left' = [left EXCEPT !.commands = @ - 1]
  /\ \E i \in Invocation :
       LET urls == Aggregates(Line[i]) IN
       IF Refused(Line[i], urls) THEN UNCHANGED local
       ELSE /\ cmd' = [cmd EXCEPT ![p] = i]
            /\ version' = [version EXCEPT ![p] = Line[i].version]
            /\ oldest' = [oldest EXCEPT ![p] = now - CacheAge]
            /\ clients' = [clients EXCEPT ![p] = urls]
            /\ todo' = [todo EXCEPT ![p] = urls]
            /\ pc' = [pc EXCEPT ![p] = "survey"]
            /\ UNCHANGED <<mem, vals, path>>
  /\ call' = NoCall
  /\ UNCHANGED <<am, file, now, ran>>

\* GetVersion at one of the aggregates.  One that has no good answer is not
\* contacted; a command for one aggregate ends there.
Survey(p) ==
  /\ pc[p] = "survey" /\ todo[p] # {}
  /\ LET u == First(todo[p]) IN \E r \in DoGetversion(p, u) :
       /\ r.faults <= left.faults
       /\ left' = [left EXCEPT !.faults = @ - r.faults]
       /\ file' = r.file
       /\ IF ~Usable(r.ans) /\ Cardinality(Aggregates(Line[cmd[p]])) = 1 THEN Exit(p)
          ELSE /\ Learn(p, u, r)
               /\ todo' = [todo EXCEPT ![p] = @ \ {u}]
               /\ clients' = IF Usable(r.ans) THEN clients
                             ELSE [clients EXCEPT ![p] = @ \ {u}]
               /\ UNCHANGED <<pc, cmd, version, oldest, path>>
  /\ call' = NoCall
  /\ UNCHANGED <<am, now, ran>>

\* The end of _correctAPIVersion: without aggregates the command ends.
Choose(p) ==
  /\ pc[p] = "survey" /\ todo[p] = {}
  /\ IF clients[p] = {} THEN Exit(p)
     ELSE /\ \E v \in CorrectAPIVersion(vals[p], Line[cmd[p]]) : version' = [version EXCEPT ![p] = v]
          /\ pc' = [pc EXCEPT ![p] = "calls"]
          /\ todo' = [todo EXCEPT ![p] = clients[p]]
          /\ UNCHANGED <<cmd, oldest, clients, mem, vals, path>>
  /\ call' = NoCall
  /\ UNCHANGED shared

\* The next aggregate to call.
Turn(p) ==
  /\ pc[p] = "calls" /\ path[p] = <<>> /\ todo[p] # {}
  /\ path' = [path EXCEPT ![p] = <<First(todo[p])>>]
  /\ call' = NoCall
  /\ UNCHANGED <<shared, pc, cmd, version, oldest, clients, todo, mem, vals>>

Here(p) == Last(path[p])
Checking(p) == pc[p] = "calls" /\ path[p] # <<>>
Known(p) == Here(p) \in DOMAIN vals[p]

\* Fault: the format is checked with the aggregate named, and asked for at the URL it sent us to.
FormatsOf_named(p) == path[p][1]

\* The URL whose answer the RSpec format is chosen by: listresources looks at
\* the one it calls, the other commands at the one they were given.
FormatsOf(p) == IF Line[cmd[p]].op = "listresources" THEN Here(p) ELSE path[p][1]

\* The call itself; an aggregate without the format is skipped.
Called(p) ==
  LET formats == SelectRSpecVersion(vals[p][FormatsOf(p)], Line[cmd[p]])
  IN call' = IF formats = {} THEN NoCall
             ELSE [made |-> TRUE, url |-> Here(p), version |-> version[p], line |-> Line[cmd[p]],
                   format |-> CHOOSE f \in formats : TRUE, oldest |-> oldest[p]]

\* On with the next aggregate.
Leave(p) ==
  /\ todo' = [todo EXCEPT ![p] = @ \ {path[p][1]}]
  /\ path' = [path EXCEPT ![p] = <<>>]
  /\ UNCHANGED <<pc, cmd, version, oldest, clients, mem, vals>>

\* A second redirection that fails leaves _checkValidClient without a client
\* to read the URL of: the command breaks off.
Fail(p) == IF Len(path[p]) >= 3 THEN Exit(p) ELSE Leave(p)

\* A URL an aggregate sent us to has not been asked yet.
Ask(p) ==
  /\ Checking(p) /\ ~Known(p)
  /\ \E r \in DoGetversion(p, Here(p)) :
       /\ r.faults <= left.faults
       /\ left' = [left EXCEPT !.faults = @ - r.faults]
       /\ file' = r.file
       /\ IF Usable(r.ans)
          THEN Learn(p, Here(p), r) /\ UNCHANGED <<pc, cmd, version, oldest, clients, todo, path>>
          ELSE IF Len(path[p]) >= 3 THEN Exit(p)
          ELSE /\ Learn(p, Here(p), r)
               /\ todo' = [todo EXCEPT ![p] = @ \ {path[p][1]}]
               /\ path' = [path EXCEPT ![p] = <<>>]
               /\ UNCHANGED <<pc, cmd, version, oldest, clients>>
  /\ call' = NoCall
  /\ UNCHANGED <<am, now, ran>>

\* What the URL looked at answered.
Told(p) == Says[vals[p][Here(p)]]

\* Fault: an aggregate that advertises the version is called at the URL it was asked at.
Speaks_somewhere(p) == Told(p).live = version[p] \/ version[p] \in DOMAIN Told(p).adv

Speaks(p) == Told(p).live = version[p]

\* The aggregate speaks the version where it is, or --devmode does not care.  A
\* URL reached by two redirections is given up, one by three breaks the command off.
Call(p) ==
  /\ Checking(p) /\ Known(p)
  /\ Speaks(p) \/ Line[cmd[p]].dev
  /\ IF Len(path[p]) <= 2 THEN Called(p) ELSE call' = NoCall
  /\ IF Len(path[p]) <= 3 THEN Leave(p) ELSE Exit(p)
  /\ UNCHANGED shared

\* It speaks another version, and says where it speaks this one.  Aggregates
\* that send us in a circle end the command: _checkValidClient calls itself
\* until the interpreter stops it.
Redirect(p) ==
  /\ Checking(p) /\ Known(p)
  /\ ~Speaks(p) /\ ~Line[cmd[p]].dev
  /\ version[p] \in DOMAIN Told(p).adv
  /\ LET u == Told(p).adv[version[p]] IN
       IF u \in Range(path[p]) THEN Exit(p)
       ELSE /\ path' = [path EXCEPT ![p] = Append(@, u)]
            /\ UNCHANGED <<pc, cmd, version, oldest, clients, todo, mem, vals>>
  /\ call' = NoCall
  /\ UNCHANGED shared

\* It speaks another version, and not this one anywhere.
Skip(p) ==
  /\ Checking(p) /\ Known(p)
  /\ ~Speaks(p) /\ ~Line[cmd[p]].dev
  /\ version[p] \notin DOMAIN Told(p).adv
  /\ Fail(p)
  /\ call' = NoCall
  /\ UNCHANGED shared

End(p) ==
  /\ pc[p] = "calls" /\ path[p] = <<>> /\ todo[p] = {}
  /\ Exit(p)
  /\ call' = NoCall
  /\ UNCHANGED shared

Omni(p) ==
  \/ Survey(p) \/ Choose(p) \/ Turn(p) \/ Ask(p)
  \/ Call(p) \/ Redirect(p) \/ Skip(p) \/ End(p)

-----------------------------------------------------------------------------
(* Around the commands. *)

Tick ==
  /\ now < MaxTime
  /\ now' = now + 1
  /\ ran' = [u \in Url |-> [ran[u] EXCEPT ![am[u]] = now + 1]]
  /\ call' = NoCall
  /\ UNCHANGED <<am, file, left, local>>

Redeploy(u, s) ==
  /\ left.faults > 0
  /\ s # am[u]
  /\ left' = [left EXCEPT !.faults = @ - 1]
  /\ am' = [am EXCEPT ![u] = s]
  /\ ran' = [ran EXCEPT ![u][s] = now]
  /\ call' = NoCall
  /\ UNCHANGED <<file, now, local>>

Next ==
  \/ \E p \in Proc : Begin(p) \/ Omni(p)
  \/ Tick
  \/ \E u \in Url, s \in Replacement : Redeploy(u, s)

Spec == Init /\ [][Next]_vars

-----------------------------------------------------------------------------
(* Properties. *)

\* Every call is made with a version and a format the URL did serve at some
\* time no longer ago than the cache may remember, whatever was redeployed, and
\* whichever commands wrote the cache in between: the formats of describe and
\* provision excepted, which are read at the URL named and asked at another.
SpokeRecently ==
  call.made /\ ~call.line.dev =>
    \E s \in Server :
      /\ Usable(s)
      /\ ran[call.url][s] >= call.oldest
      /\ Says[s].live = call.version
      /\ call.line.op = "listresources" /\ call.line.explicitFormat => call.format \in Says[s].formats

\* The aggregates of known that can be called in version v as they told us.
Served(known, v) == Live(known, v) \cup Advertised(known, v)

\* Leaving the requested version never loses an aggregate in number, and is
\* never done against an explicit -V or in --devmode.
SwitchNeverLoses ==
  [][\A p \in Proc :
       pc'[p] = "calls" /\ version'[p] # version[p] =>
         /\ ~Line[cmd[p]].dev /\ ~Line[cmd[p]].explicitVersion
         /\ Cardinality(Served(vals[p], version'[p])) >= Cardinality(Served(vals[p], version[p]))]_vars
=============================================================================
