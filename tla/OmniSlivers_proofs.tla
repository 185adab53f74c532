-------------------------- MODULE OmniSlivers_proofs --------------------------
(***************************************************************************)
(* Theorems about OmniSlivers, for any aggregates, slivers, commands and   *)
(* limits: the clearinghouse's record follows what an aggregate answered,  *)
(* holds just the slivers that ran then, and no sliver that runs is taken  *)
(* off it.                                                                 *)
(***************************************************************************)
EXTENDS OmniSlivers, TLAPS, FiniteSetTheorems

Expirations == {NoTime} \cup Time
Records == {NoRecord} \cup Expirations
SliverState == [alloc : States, exp : Expirations]
Calls == [call : {"create", "update", "delete", "raise"}, urn : Sliver, exp : Expirations]

\* A run has all its fields.
Shaped(r) ==
  r = [op |-> r.op, opts |-> r.opts, asked |-> r.asked, structs |-> r.structs,
       single |-> r.single, todo |-> r.todo, at |-> r.at, try |-> r.try, pause |-> r.pause,
       ok |-> r.ok, held |-> r.held, claim |-> r.claim, trouble |-> r.trouble]

Typing ==
  /\ am \in [Sliver -> SliverState]
  /\ ch \in [Sliver -> Records]
  /\ work \subseteq Nat \X Calls
  /\ Shaped(run) /\ DOMAIN run.claim \subseteq Sliver

\* Call c will leave a record that is allowed, when this is the one there is.  A
\* sliver on record is not recorded again, so its record must be allowed already.
\* After an exception nothing is said of the record.
Obeys(c, allowed, record) ==
  CASE c.call = "create" -> c.exp \in allowed /\ (record[c.urn] # NoRecord => record[c.urn] \in allowed)
    [] c.call = "update" -> c.exp \in allowed
    [] c.call = "delete" -> NoRecord \in allowed
    [] OTHER             -> TRUE

\* What is still to be told leads to what is claimed: where a call is outstanding
\* for a sliver it will leave an allowed record, and where none is there is one.
Underway ==
  ~run.trouble =>
    \A s \in DOMAIN run.claim :
      /\ \A w \in work : w[2].urn = s => Obeys(w[2], run.claim[s], ch)
      /\ ch[s] \in run.claim[s] \/ \E w \in work : w[2].urn = s

\* No call is outstanding that takes a running sliver off the record.
KeepsRunning == \A w \in work : w[2].call = "delete" => w[2].urn \notin run.held

\* The commands that record what a manifest lists, or what is on record.
Unchecked == {"CreateSliver", "RenewSliver"}

\* A record is claimed just for the slivers that ran.
ClaimsAreTrue ==
  run.op \notin Unchecked =>
    \A s \in DOMAIN run.claim :
      IF s \in run.held THEN NoRecord \notin run.claim[s] ELSE run.claim[s] = {NoRecord}

\* Between two aggregates only the last answer counts.
IInv == Typing /\ Underway /\ KeepsRunning /\ ClaimsAreTrue

-----------------------------------------------------------------------------
(* The answers. *)

\* An answer that lists the slivers T tells of each what it is now, but may leave
\* out its expiration; each is what it was or, if no error is told of it, what
\* the call makes of it.
Lists(o, T, new) ==
  /\ Worked(o.ans)
  /\ Listed(o.ans) = T
  /\ \A s \in T : /\ o.ans.list[s].alloc = o.at[s].alloc
                  /\ o.ans.list[s].exp \in {NoTime, o.at[s].exp}
                  /\ o.at[s] \in {am[s], new[s]}
                  /\ ~o.ans.list[s].err => o.at[s] = new[s]
  /\ \A s \in Sliver \ T : o.at[s] = am[s]

\* An answer that there is nothing.
Denies(o, nothingThere) == Gone(o.ans) /\ ~Worked(o.ans) /\ nothingThere /\ o.at = am

\* Every other answer tells of no sliver.
Fails(o) == ~Worked(o.ans) /\ ~Gone(o.ans)

\* The error of an entry, a truth value, on its own.
LEMMA ErrorField ==
  ASSUME NEW entry, NEW alloc, NEW exp, NEW s, NEW bad, s \in bad,
         entry = [alloc |-> alloc, exp |-> exp, err |-> s \in bad]
  PROVE  entry.err
BY Zenon

\* What an aggregate may answer is one of these.
LEMMA AnswersTell ==
  ASSUME am \in [Sliver -> SliverState], NEW T \in SUBSET Sliver, NEW new,
         \A s \in T : new[s] \in SliverState,
         NEW nothingThere, NEW o \in Answers(Changes(am, T, new), nothingThere)
  PROVE  /\ o.at \in [Sliver -> SliverState]
         /\ Lists(o, T, new) \/ Denies(o, nothingThere) \/ Fails(o)
<1> USE DEF Silent, Success, Failure, SearchFailed, Busy, Expired, NothingThere, Worked, Gone,
            Answer, NoAnswer
<1>1. ASSUME NEW e \in Changes(am, T, new)
      PROVE  /\ e.at \in [Sliver -> SliverState]
             /\ DOMAIN e.list = T
             /\ \A s \in T : /\ e.list[s].alloc = e.at[s].alloc
                             /\ e.list[s].exp \in {NoTime, e.at[s].exp}
                             /\ e.at[s] \in {am[s], new[s]}
                             /\ ~e.list[s].err => e.at[s] = new[s]
             /\ \A s \in Sliver \ T : e.at[s] = am[s]
  <2>1. PICK bad \in SUBSET T, mute \in SUBSET T : e = Change(am, T, new, bad, mute)
    BY <1>1 DEF Changes
  <2>2. e.at = [s \in Sliver |-> IF s \in T \ bad THEN new[s] ELSE am[s]]
    BY <2>1 DEF Change
  <2>3. e.list = [s \in T |->
                   [alloc |-> IF s \in bad THEN am[s].alloc ELSE new[s].alloc,
                    exp |-> IF s \in mute THEN NoTime
                            ELSE IF s \in bad THEN am[s].exp ELSE new[s].exp,
                    err |-> s \in bad]]
    BY <2>1 DEF Change
  <2>4. e.at \in [Sliver -> SliverState]
    BY <2>2
  <2>5. ASSUME NEW s \in T
        PROVE  /\ e.list[s].alloc = e.at[s].alloc
               /\ e.list[s].exp \in {NoTime, e.at[s].exp}
               /\ e.at[s] \in {am[s], new[s]}
               /\ ~e.list[s].err => e.at[s] = new[s]
    <3>1. e.list[s] = [alloc |-> IF s \in bad THEN am[s].alloc ELSE new[s].alloc,
                       exp |-> IF s \in mute THEN NoTime
                               ELSE IF s \in bad THEN am[s].exp ELSE new[s].exp,
                       err |-> s \in bad]
      BY <2>3
    <3>2. e.at[s] = IF s \in bad THEN am[s] ELSE new[s]
      BY <2>2
    <3>3. s \in bad => e.list[s].err
      BY <3>1, ErrorField
    <3> QED BY <3>1, <3>2, <3>3
  <2>6. \A s \in Sliver \ T : e.at[s] = am[s]
    BY <2>2
  <2>7. DOMAIN e.list = T
    BY <2>3
  <2> QED BY <2>4, <2>5, <2>6, <2>7
<1>2. \/ \E e \in Changes(am, T, new) : o = [at |-> e.at, ans |-> Answer(Success, e.list)]
      \/ \E e \in Changes(am, T, new) : o = [at |-> e.at, ans |-> NoAnswer]
      \/ o = [at |-> am, ans |-> NoAnswer]
      \/ o = [at |-> am, ans |-> Answer(Failure, <<>>)]
      \/ nothingThere /\ \E c \in NothingThere : o = [at |-> am, ans |-> Answer(c, <<>>)]
      \/ o = [at |-> am, ans |-> Answer(Busy, <<>>)]
  BY DEF Answers, Outcomes
<1>3. CASE \E e \in Changes(am, T, new) : o = [at |-> e.at, ans |-> Answer(Success, e.list)]
  BY <1>1, <1>3 DEF Lists, Listed
<1>4. CASE \E e \in Changes(am, T, new) : o = [at |-> e.at, ans |-> NoAnswer]
  BY <1>1, <1>4 DEF Fails
<1>5. CASE o = [at |-> am, ans |-> NoAnswer] \/ o = [at |-> am, ans |-> Answer(Failure, <<>>)]
           \/ o = [at |-> am, ans |-> Answer(Busy, <<>>)]
  BY <1>5 DEF Fails
<1>6. CASE nothingThere /\ \E c \in NothingThere : o = [at |-> am, ans |-> Answer(c, <<>>)]
  BY <1>6 DEF Denies
<1> QED BY <1>2, <1>3, <1>4, <1>5, <1>6

-----------------------------------------------------------------------------
(* After an answer. *)

Outstanding(h) == UNION {h.work[i] : i \in DOMAIN h.work}

\* It claims a record just for the slivers that run.
Truthful(o, h) ==
  run.op \notin Unchecked =>
    \A s \in DOMAIN h.claim :
      /\ h.work # <<>>
      /\ IF o.at[s].alloc = "geni_provisioned" THEN NoRecord \notin h.claim[s]
         ELSE h.claim[s] = {NoRecord}

\* What a command makes of an answer is sound: it takes no running sliver off the
\* record and, if the listing it relied on was right, leads to what it claims.
Sound(o, h) ==
  /\ o.at \in [Sliver -> SliverState]
  /\ DOMAIN h.work \subseteq Nat /\ Outstanding(h) \subseteq Calls
  /\ DOMAIN h.claim \subseteq Sliver
  /\ \A c \in Outstanding(h) : c.call = "delete" => o.at[c.urn].alloc # "geni_provisioned"
  /\ ~h.trouble =>
       \A s \in DOMAIN h.claim :
         /\ \A c \in Outstanding(h) : c.urn = s => Obeys(c, h.claim[s], ch)
         /\ ch[s] \in h.claim[s] \/ \E c \in Outstanding(h) : c.urn = s
  /\ Truthful(o, h)

\* The calls go out as they are, or not at all.
LEMMA HandleKeeps ==
  ASSUME IInv, NEW o, NEW h, Handle(o, h), Sound(o, h)
  PROVE  IInv'
<1> DEFINE told == ~run.opts.noExtraCHCalls
           held == IF told /\ h.work # <<>> THEN {s \in Sliver : o.at[s].alloc = "geni_provisioned"}
                   ELSE {}
           claim == IF told THEN h.claim ELSE <<>>
           ok == IF h.ok THEN run.ok \cup {run.at} ELSE run.ok
           trouble == told /\ h.trouble
<1>1. /\ am' = o.at /\ ch' = ch
      /\ work' = IF told THEN UNION {{i} \X h.work[i] : i \in DOMAIN h.work} ELSE {}
      /\ run' = [run EXCEPT !.at = NoAM, !.try = 0, !.todo = h.todo,
                            !.structs = h.structs, !.ok = ok, !.held = held, !.claim = claim,
                            !.trouble = trouble]
  BY DEF Handle
<1>2. Shaped(run)
  BY DEF IInv, Typing
<1>3. /\ Shaped(run') /\ run'.op = run.op
      /\ run'.held = held /\ run'.claim = claim /\ run'.trouble = trouble
  <2> HIDE DEF held, claim, ok, trouble
  <2> QED BY <1>1, <1>2 DEF Shaped
<1>4. ASSUME NEW w \in work'
      PROVE  told /\ w \in Nat \X Calls /\ w[2] \in Outstanding(h)
  <2>1. told /\ \E i \in DOMAIN h.work : w \in {i} \X h.work[i]
    BY <1>1, <1>4
  <2>2. PICK i \in DOMAIN h.work : w \in {i} \X h.work[i]
    BY <2>1
  <2>3. w[2] \in Outstanding(h) /\ w[1] \in Nat /\ w = <<w[1], w[2]>>
    BY <2>2 DEF Outstanding, Sound
  <2> QED BY <2>1, <2>3 DEF Sound
<1>5. ASSUME told, NEW c \in Outstanding(h)
      PROVE  \E w \in work' : w[2] = c
  <2>1. PICK i \in DOMAIN h.work : c \in h.work[i]
    BY <1>5 DEF Outstanding
  <2>2. <<i, c>> \in work'
    BY <1>1, <1>5, <2>1
  <2> QED BY <2>2
<1>6. Typing'
  BY <1>1, <1>3, <1>4 DEF IInv, Typing, Sound
<1>7. KeepsRunning'
  BY <1>3, <1>4 DEF KeepsRunning, Sound
<1>8. Underway'
  <2>1. CASE ~told
    <3>1. run'.claim = <<>>
      BY <1>3, <2>1
    <3> QED BY <3>1 DEF Underway
  <2>2. CASE told
    <3>1. run'.claim = h.claim /\ (run'.trouble <=> h.trouble)
      BY <1>3, <2>2
    <3>2. SUFFICES ASSUME ~h.trouble, NEW s \in DOMAIN h.claim
                   PROVE  /\ \A w \in work' : w[2].urn = s => Obeys(w[2], h.claim[s], ch)
                          /\ ch[s] \in h.claim[s] \/ \E w \in work' : w[2].urn = s
      BY <1>1, <3>1 DEF Underway
    <3> QED BY <1>4, <1>5, <2>2, <3>2 DEF Sound
  <2> QED BY <2>1, <2>2
<1>9. ClaimsAreTrue'
  <2>1. CASE ~told
    <3>1. run'.claim = <<>>
      BY <1>3, <2>1
    <3> QED BY <3>1 DEF ClaimsAreTrue
  <2>2. CASE told
    <3>1. run'.claim = h.claim
      BY <1>3, <2>2
    <3>2. ASSUME h.work # <<>>
          PROVE  \A s \in Sliver : s \in run'.held <=> o.at[s].alloc = "geni_provisioned"
      BY <1>3, <2>2, <3>2
    <3> QED BY <1>3, <3>1, <3>2 DEF ClaimsAreTrue, Sound, Truthful
  <2> QED BY <2>1, <2>2
<1> QED BY <1>6, <1>7, <1>8, <1>9 DEF IInv

-----------------------------------------------------------------------------
(* The course of a command, and the clearinghouse. *)

\* A command that ends leaves nothing behind.
LEMMA NoneKeeps ==
  ASSUME am' \in [Sliver -> SliverState], ch \in [Sliver -> Records], ch' = ch,
         work' = {}, run' = None
  PROVE  IInv'
<1>1. /\ Shaped(run') /\ run'.claim = <<>>
  BY DEF None, Shaped
<1> QED BY <1>1 DEF IInv, Typing, Underway, KeepsRunning, ClaimsAreTrue

LEMMA AbortKeeps ==
  ASSUME IInv, NEW at \in [Sliver -> SliverState], Abort(at)
  PROVE  IInv'
BY NoneKeeps DEF Abort, IInv, Typing

\* A step between the aggregates that starts with nothing claimed, or changes
\* neither the claims nor the calls that are outstanding.
LEMMA CourseKeeps ==
  ASSUME IInv, UNCHANGED <<am, ch, work>>, Shaped(run'),
         \/ work = {} /\ run'.claim = <<>>
         \/ /\ run'.claim = run.claim /\ run'.held = run.held /\ (run'.trouble <=> run.trouble)
            /\ run'.op = run.op
  PROVE  IInv'
<1>1. Typing'
  BY DEF IInv, Typing
<1>2. CASE work = {} /\ run'.claim = <<>>
  BY <1>1, <1>2 DEF IInv, Underway, KeepsRunning, ClaimsAreTrue
<1>3. CASE /\ run'.claim = run.claim /\ run'.held = run.held /\ (run'.trouble <=> run.trouble)
           /\ run'.op = run.op
  <2>1. Underway'
    BY <1>3 DEF IInv, Underway
  <2>2. KeepsRunning'
    BY <1>3 DEF IInv, KeepsRunning
  <2>3. ClaimsAreTrue'
    BY <1>3 DEF IInv, ClaimsAreTrue
  <2> QED BY <1>1, <2>1, <2>2, <2>3 DEF IInv
<1> QED BY <1>2, <1>3

LEMMA StepsKeep ==
  ASSUME IInv, Start \/ Ask \/ Skip \/ Retry \/ Resend \/ WrongPassPhrase \/ Finish \/ Expire
  PROVE  IInv'
<1>1. Shaped(run) /\ am \in [Sliver -> SliverState] /\ ch \in [Sliver -> Records]
  BY DEF IInv, Typing
<1>2. CASE Start
  <2>1. PICK i \in Invocation :
          run' = [None EXCEPT !.op = i.op, !.opts = i.opts, !.asked = i.asked, !.todo = i.clients,
                              !.single = Cardinality(i.clients) = 1]
    BY <1>2 DEF Start
  <2>2. /\ Shaped(run') /\ run'.claim = <<>>
    <3> DEFINE single == Cardinality(i.clients) = 1
    <3>1. run' = [None EXCEPT !.op = i.op, !.opts = i.opts, !.asked = i.asked, !.todo = i.clients,
                              !.single = single]
      BY <2>1
    <3> HIDE DEF single
    <3> QED BY <3>1 DEF None, Shaped
  <2> QED BY <1>2, <2>2, CourseKeeps DEF Start
<1>3. CASE Ask
  <2>1. /\ Shaped(run') /\ run'.claim = <<>>
    BY <1>1, <1>3 DEF Ask, Shaped
  <2> QED BY <1>3, <2>1, CourseKeeps DEF Ask, Ready
<1>4. CASE Skip
  <2>1. CASE run' = None
    BY <1>1, <1>4, <2>1, NoneKeeps DEF Skip, Ready
  <2>2. CASE run' # None
    <3>1. /\ Shaped(run') /\ run'.claim = <<>>
      BY <1>1, <1>4, <2>2 DEF Skip, Ready, Shaped
    <3> QED BY <1>4, <3>1, CourseKeeps DEF Skip, Ready
  <2> QED BY <2>1, <2>2
<1>5. CASE Retry
  <2>1. run' = [run EXCEPT !.pause = TRUE]
    BY <1>5 DEF Retry
  <2>2. /\ Shaped(run') /\ run'.op = run.op
        /\ run'.claim = run.claim /\ run'.held = run.held /\ run'.trouble = run.trouble
    BY <1>1, <2>1 DEF Shaped
  <2> QED BY <1>5, <2>2, CourseKeeps DEF Retry
<1>6. CASE Resend
  <2>1. /\ Shaped(run') /\ run'.op = run.op
        /\ run'.claim = run.claim /\ run'.held = run.held /\ run'.trouble = run.trouble
    BY <1>1, <1>6 DEF Resend, Shaped
  <2> QED BY <1>1, <1>6, <2>1, CourseKeeps DEF Resend
<1>7. CASE WrongPassPhrase
  <2>1. CASE Tolerant
    <3>1. run' = [run EXCEPT !.at = NoAM, !.try = 0] /\ UNCHANGED <<am, ch, work>>
      BY <1>7, <2>1 DEF WrongPassPhrase
    <3>2. /\ Shaped(run') /\ run'.op = run.op
          /\ run'.claim = run.claim /\ run'.held = run.held /\ run'.trouble = run.trouble
      BY <1>1, <3>1 DEF Shaped
    <3> QED BY <3>1, <3>2, CourseKeeps
  <2>2. CASE ~Tolerant
    BY <1>1, <1>7, <2>2, AbortKeeps DEF WrongPassPhrase
  <2> QED BY <2>1, <2>2
<1>8. CASE Finish
  BY <1>1, <1>8, NoneKeeps DEF Finish, Ready
<1>9. CASE Expire
  <2>1. /\ am' \in [Sliver -> SliverState] /\ UNCHANGED <<ch, run, work>>
    BY <1>1, <1>9 DEF Expire, Nothing, SliverState, States, Expirations
  <2> QED BY <2>1 DEF IInv, Typing, Underway, KeepsRunning, ClaimsAreTrue
<1> QED BY <1>2, <1>3, <1>4, <1>5, <1>6, <1>7, <1>8, <1>9

\* A call that is made leaves what is allowed, and changes no other record; one
\* that fails is trouble.
LEMMA TellKeeps ==
  ASSUME IInv, Tell \/ TellRaises
  PROVE  IInv'
<1>1. Shaped(run) /\ work \subseteq Nat \X Calls
      /\ ch \in [Sliver -> Records]
  BY DEF IInv, Typing
<1>2. am' = am /\ work' \subseteq work
  BY DEF Tell, TellRaises
<1>3. CASE ch' = ch /\ run' = [run EXCEPT !.trouble = TRUE]
  <2>1. /\ Shaped(run') /\ run'.trouble = TRUE
        /\ run'.held = run.held /\ run'.op = run.op /\ run'.claim = run.claim
    BY <1>1, <1>3 DEF Shaped
  <2> QED BY <1>1, <1>2, <1>3, <2>1 DEF IInv, Typing, Underway, KeepsRunning, ClaimsAreTrue
<1>4. CASE \E w \in Due : /\ w[2].call # "raise" /\ work' = work \ {w}
                          /\ ch' = Recording(w[2]) /\ run' = run
  <2>1. PICK w \in work : /\ w[2].call # "raise" /\ work' = work \ {w}
                          /\ ch' = Recording(w[2]) /\ run' = run
    BY <1>4 DEF Due
  <2> DEFINE c == w[2]
  <2>2. c \in Calls /\ c.urn \in Sliver
    BY <1>1, <2>1 DEF Calls
  <2>3. /\ ch' \in [Sliver -> Records]
        /\ \A s \in Sliver : s # c.urn => ch'[s] = ch[s]
        /\ c.call = "create" /\ ch[c.urn] # NoRecord => ch' = ch
        /\ c.call = "create" /\ ch[c.urn] = NoRecord => ch'[c.urn] = c.exp
        /\ c.call = "update" => ch'[c.urn] = c.exp
        /\ c.call = "delete" => ch'[c.urn] = NoRecord
    BY <1>1, <2>1, <2>2 DEF Recording, Calls, Records
  <2>4. Typing' /\ KeepsRunning' /\ ClaimsAreTrue'
    BY <1>2, <2>1, <2>3 DEF IInv, Typing, KeepsRunning, ClaimsAreTrue
  <2>5. Underway'
    <3>1. SUFFICES ASSUME ~run.trouble, NEW s \in DOMAIN run.claim
                   PROVE  /\ \A v \in work' : v[2].urn = s => Obeys(v[2], run.claim[s], ch')
                          /\ ch'[s] \in run.claim[s] \/ \E v \in work' : v[2].urn = s
      BY <2>1 DEF Underway
    <3>2. /\ \A v \in work : v[2].urn = s => Obeys(v[2], run.claim[s], ch)
          /\ ch[s] \in run.claim[s] \/ \E v \in work : v[2].urn = s
      BY <3>1 DEF IInv, Underway
    <3>3. CASE s = c.urn
      <4>1. Obeys(c, run.claim[s], ch)
        BY <2>1, <3>2, <3>3
      <4>2. ch'[s] \in run.claim[s]
        BY <2>1, <2>2, <2>3, <3>3, <4>1 DEF Obeys, Calls
      <4>3. \A v \in work' : v[2].urn = s => Obeys(v[2], run.claim[s], ch')
        BY <2>1, <3>2, <4>2 DEF Obeys
      <4> QED BY <4>2, <4>3
    <3>4. CASE s # c.urn
      <4>1. s \in Sliver
        BY <3>1 DEF IInv, Typing
      <4> QED BY <2>1, <2>3, <3>2, <3>4, <4>1 DEF Obeys
    <3> QED BY <3>3, <3>4
  <2> QED BY <2>4, <2>5 DEF IInv
<1>5. CASE TellRaises
  BY <1>3, <1>5 DEF TellRaises
<1>6. CASE Tell
  BY <1>3, <1>4, <1>6 DEF Tell
<1> QED BY <1>5, <1>6

-----------------------------------------------------------------------------
(* The commands that tell the clearinghouse nothing. *)

\* Nothing comes of the answer for the clearinghouse.
ComesToNothing(o) ==
  \/ Abort(o.at)
  \/ \E h : h.work = <<>> /\ h.claim = <<>> /\ Handle(o, h)

LEMMA NothingKeeps ==
  ASSUME IInv, NEW o, o.at \in [Sliver -> SliverState], ComesToNothing(o)
  PROVE  IInv'
<1>1. ASSUME NEW h, h.work = <<>>, h.claim = <<>>
      PROVE  Sound(o, h)
  <2>1. Outstanding(h) = {} /\ DOMAIN h.work = {} /\ DOMAIN h.claim = {}
    BY <1>1 DEF Outstanding
  <2> QED BY <1>1, <2>1 DEF Sound, Truthful
<1> QED BY <1>1, AbortKeeps, HandleKeeps DEF ComesToNothing

\* The result of a call that was made is only counted.
LEMMA QuietFields ==
  ASSUME NEW ok, NEW todo
  PROVE  /\ [Quiet EXCEPT !.ok = ok].work = <<>> /\ [Quiet EXCEPT !.ok = ok].claim = <<>>
         /\ [Quiet EXCEPT !.ok = ok, !.todo = todo].work = <<>>
         /\ [Quiet EXCEPT !.ok = ok, !.todo = todo].claim = <<>>
         /\ [Quiet EXCEPT !.todo = todo].work = <<>> /\ [Quiet EXCEPT !.todo = todo].claim = <<>>
         /\ Quiet.work = <<>> /\ Quiet.claim = <<>>
BY DEF Quiet

LEMMA UntoldKeeps ==
  ASSUME IInv, ListResources \/ Describe \/ Allocate \/ PerformOperationalAction \/ Shutdown
               \/ Update \/ Cancel \/ CreateImage \/ ListImages \/ DeleteImage
               \/ PrintSliverExpirations
  PROVE  IInv'
<1>1. /\ am \in [Sliver -> SliverState] /\ Targets \subseteq Sliver /\ Mine \subseteq Sliver
      /\ {} \subseteq Sliver
  BY DEF IInv, Typing, Targets, Present, Mine
<1>2. ASSUME NEW T \in SUBSET Sliver, NEW new, \A s \in T : new[s] \in SliverState,
             NEW nothingThere, NEW o \in Answers(Changes(am, T, new), nothingThere),
             ComesToNothing(o)
      PROVE  IInv'
  BY <1>1, <1>2, AnswersTell, NothingKeeps
<1>3. ASSUME NEW o, NEW ok, Handle(o, [Quiet EXCEPT !.ok = ok])
      PROVE  ComesToNothing(o)
  BY <1>3, QuietFields DEF ComesToNothing
<1>4. ASSUME NEW o, Abort(o.at)
      PROVE  ComesToNothing(o)
  BY <1>4 DEF ComesToNothing
<1>5. ASSUME NEW T \in {Targets, {}}, NEW nothingThere,
             \E o \in Answers(Reads(am, T), nothingThere) : ComesToNothing(o)
      PROVE  IInv'
  BY <1>1, <1>2, <1>5 DEF Reads
<1>6. CASE ListResources
  <2>1. \E o \in Answers(Reads(am, Targets), Unknown) : ComesToNothing(o)
    BY <1>3, <1>4, <1>6 DEF ListResources, Untold
  <2> QED BY <1>5, <2>1
<1>7. CASE Describe
  <2>1. \E o \in Answers(Reads(am, Targets), Unknown) : ComesToNothing(o)
    BY <1>3, <1>4, <1>7 DEF Describe, Untold
  <2> QED BY <1>5, <2>1
<1>8. CASE PerformOperationalAction
  <2>1. \E o \in Answers(Reads(am, Targets), Unknown) : ComesToNothing(o)
    BY <1>3, <1>4, <1>8 DEF PerformOperationalAction, Untold
  <2> QED BY <1>5, <2>1
<1>9. CASE Shutdown
  <2>1. \E o \in Answers(Reads(am, Targets), Unknown) : ComesToNothing(o)
    BY <1>3, <1>4, <1>9 DEF Shutdown, Untold
  <2> QED BY <1>5, <2>1
<1>10. CASE Update
  <2>1. \E o \in Answers(Reads(am, Targets), Unknown) : ComesToNothing(o)
    BY <1>3, <1>4, <1>10 DEF Update, Untold
  <2> QED BY <1>5, <2>1
<1>11. CASE CreateImage
  <2>1. \E o \in Answers(Reads(am, Targets), Unknown) : ComesToNothing(o)
    BY <1>3, <1>4, <1>11 DEF CreateImage, Untold
  <2> QED BY <1>5, <2>1
<1>12. CASE ListImages
  <2>1. \E o \in Answers(Reads(am, {}), Unknown) : ComesToNothing(o)
    BY <1>3, <1>4, <1>12 DEF ListImages, Untold
  <2> QED BY <1>5, <2>1
<1>13. CASE Allocate
  <2> DEFINE allocated == [s \in Sliver |-> [alloc |-> "geni_allocated", exp |-> 1]]
  <2>1. PICK S \in SUBSET (Mine \ Present(am, run.at)) :
          Untold("Allocate", Changes(am, S, allocated), LAMBDA ans : TRUE)
    BY <1>13 DEF Allocate
  <2>2. \E o \in Answers(Changes(am, S, allocated), Unknown) : ComesToNothing(o)
    BY <1>3, <1>4, <2>1 DEF Untold
  <2>3. 1 \in Expirations
    BY AnswersAssumption DEF Expirations, Time
  <2>4. \A s \in S : allocated[s] \in SliverState
    BY <1>1, <2>3 DEF SliverState, States
  <2> QED BY <1>1, <1>2, <2>2, <2>4
<1>14. CASE Cancel
  <2> DEFINE old == [s \in Sliver |-> IF am[s].alloc = "geni_allocated" THEN Nothing ELSE am[s]]
  <2>1. \E o \in Answers(Changes(am, Targets, old), Unknown) : ComesToNothing(o)
    BY <1>3, <1>4, <1>14 DEF Cancel, Untold
  <2>2. \A s \in Targets : old[s] \in SliverState
    BY <1>1 DEF SliverState, States, Nothing, Expirations
  <2> QED BY <1>1, <1>2, <2>1, <2>2
<1>15. CASE DeleteImage
  <2>1. PICK o \in Answers(Reads(am, {}), TRUE) :
          IF Raises(o.ans) THEN Abort(o.at)
          ELSE Handle(o, [Quiet EXCEPT !.ok = Worked(o.ans),
                                       !.todo = IF Worked(o.ans) /\ ~run.opts.devmode THEN {} ELSE @])
    BY <1>15 DEF DeleteImage
  <2>2. CASE Raises(o.ans)
    BY <1>4, <1>5, <2>1, <2>2
  <2>3. CASE ~Raises(o.ans)
    <3> DEFINE onward == IF Worked(o.ans) /\ ~run.opts.devmode THEN {} ELSE Quiet.todo
    <3>1. Handle(o, [Quiet EXCEPT !.ok = Worked(o.ans), !.todo = onward])
      BY <2>1, <2>3 DEF Quiet
    <3> HIDE DEF onward
    <3>2. ComesToNothing(o)
      BY <3>1, QuietFields DEF ComesToNothing
    <3> QED BY <1>5, <3>2
  <2> QED BY <2>2, <2>3
<1>16. CASE PrintSliverExpirations
  <2>1. \E o \in Answers(Reads(am, Targets), Unknown) : ComesToNothing(o)
    BY <1>3, <1>4, <1>16 DEF PrintSliverExpirations
  <2> QED BY <1>5, <2>1
<1> QED BY <1>6, <1>7, <1>8, <1>9, <1>10, <1>11, <1>12, <1>13, <1>14, <1>15, <1>16

-----------------------------------------------------------------------------
(* The commands that tell the clearinghouse something. *)

\* Calls that go out in one round, two, or four.
LEMMA Rounds ==
  ASSUME NEW h, NEW A, NEW B, NEW C, NEW D,
         h.work = <<A>> \/ h.work = <<A, B>> \/ h.work = <<A, B, C, D>>
  PROVE  /\ DOMAIN h.work \subseteq Nat
         /\ h.work = <<A>> => Outstanding(h) = A
         /\ h.work = <<A, B>> => Outstanding(h) = A \cup B
         /\ h.work = <<A, B, C, D>> => Outstanding(h) = A \cup B \cup C \cup D
<1>1. CASE h.work = <<A>>
  <2>1. DOMAIN h.work = {1} /\ h.work[1] = A
    BY <1>1
  <2> QED BY <1>1, <2>1 DEF Outstanding
<1>2. CASE h.work = <<A, B>>
  <2>1. DOMAIN h.work = {1, 2} /\ h.work[1] = A /\ h.work[2] = B
    BY <1>2
  <2> QED BY <1>2, <2>1 DEF Outstanding
<1>3. CASE h.work = <<A, B, C, D>>
  <2>1. /\ DOMAIN h.work = {1, 2, 3, 4}
        /\ h.work[1] = A /\ h.work[2] = B /\ h.work[3] = C /\ h.work[4] = D
    BY <1>3
  <2> QED BY <1>3, <2>1 DEF Outstanding
<1> QED BY <1>1, <1>2, <1>3

\* What the commands put into the record of what is to be done.
Tells(h, calls, claim, trouble) == h.work = calls /\ h.claim = claim /\ h.trouble = trouble

LEMMA RecordFields ==
  ASSUME NEW ok, NEW calls, NEW claim, NEW trouble, NEW structs
  PROVE  /\ Tells([Quiet EXCEPT !.ok = ok, !.work = calls, !.claim = claim], calls, claim, FALSE)
         /\ Tells([Quiet EXCEPT !.ok = ok, !.structs = structs, !.work = calls, !.claim = claim],
                  calls, claim, FALSE)
         /\ Tells([Quiet EXCEPT !.ok = ok, !.work = calls, !.claim = claim, !.trouble = trouble],
                  calls, claim, trouble)
BY DEF Quiet, Tells

\* What is in a listing is on record here, and if it is right all that is.
LEMMA ListingsTell ==
  ASSUME NEW known \in Listings
  PROVE  /\ known \subseteq Mine
         /\ \A s \in known : ch[s] # NoRecord
         /\ ~Mislaid(known) => \A s \in Mine : s \in known <=> ch[s] # NoRecord
BY DEF Listings, Mislaid, Recorded

\* Expirations that are written down.
LEMMA ToldIsExpiration ==
  ASSUME NEW e \in Expirations, NEW default \in Expirations
  PROVE  /\ Told(e, default) \in Expirations /\ MaxTime \in Time /\ MaxTime \in Expirations
         /\ NoTime \in Expirations /\ AnyRecord = Expirations
         /\ NoRecord \notin Expirations
BY AnswersAssumption DEF Told, Expirations, Time, NoTime, AnyRecord, NoRecord

\* An aggregate where nothing is provisioned has all its slivers taken off.
LEMMA ForgetIsSound ==
  ASSUME NEW o, o.at \in [Sliver -> SliverState],
         \A s \in Mine : o.at[s].alloc # "geni_provisioned",
         NEW known \in Listings, NEW h, h.work = DropAll(known), h.claim = NothingLeft,
         h.trouble <=> Mislaid(known)
  PROVE  Sound(o, h)
<1> DEFINE drops == {Drop(s) : s \in known}
<1>1. h.work = <<drops>>
  BY DEF DropAll
<1> HIDE DEF drops
<1>2. DOMAIN h.work \subseteq Nat /\ Outstanding(h) = drops
  BY <1>1, Rounds
<1>3. known \subseteq Mine /\ Mine \subseteq Sliver
  BY ListingsTell DEF Mine
<1>4. \A c \in drops : c \in Calls /\ c.call = "delete" /\ c.urn \in known
  BY <1>3 DEF drops, Drop, Calls, Expirations
<1>5. \A s \in known : Drop(s) \in drops /\ Drop(s).urn = s
  BY DEF drops, Drop
<1>6. DOMAIN h.claim = Mine /\ \A s \in Mine : h.claim[s] = {NoRecord}
  BY DEF NothingLeft
<1>7. ASSUME ~h.trouble, NEW s \in DOMAIN h.claim
      PROVE  /\ \A c \in Outstanding(h) : c.urn = s => Obeys(c, h.claim[s], ch)
             /\ ch[s] \in h.claim[s] \/ \E c \in Outstanding(h) : c.urn = s
  <2>1. ch[s] = NoRecord \/ s \in known
    BY <1>6, <1>7, ListingsTell
  <2> QED BY <1>2, <1>4, <1>5, <1>6, <2>1 DEF Obeys
<1>8. Truthful(o, h)
  BY <1>1, <1>6 DEF Truthful
<1> QED BY <1>2, <1>3, <1>4, <1>6, <1>7, <1>8 DEF Sound

LEMMA ForgetFields ==
  ASSUME NEW known, NEW ok, NEW todo
  PROVE  \A h \in {Forget(known), [Forget(known) EXCEPT !.todo = todo],
                   [Forget(known) EXCEPT !.ok = ok, !.todo = todo]} :
           h.work = DropAll(known) /\ h.claim = NothingLeft /\ (h.trouble <=> Mislaid(known))
<1> DEFINE calls == DropAll(known)
           claim == NothingLeft
           trouble == Mislaid(known)
<1>1. Forget(known) = [Quiet EXCEPT !.work = calls, !.claim = claim, !.trouble = trouble]
  BY DEF Forget
<1> HIDE DEF calls, claim, trouble
<1>2. \A h \in {Forget(known), [Forget(known) EXCEPT !.todo = todo],
                [Forget(known) EXCEPT !.ok = ok, !.todo = todo]} :
        h.work = calls /\ h.claim = claim /\ h.trouble = trouble
  BY <1>1 DEF Quiet
<1> QED BY <1>2 DEF calls, claim, trouble

\* Calls in one round, none of which takes a running sliver off the record.
LEMMA OneRoundIsSound ==
  ASSUME NEW o, o.at \in [Sliver -> SliverState], NEW h, NEW calls, h.work = <<calls>>,
         \A c \in calls : /\ c \in Calls
                          /\ c.call = "delete" => o.at[c.urn].alloc # "geni_provisioned",
         DOMAIN h.claim \subseteq Sliver,
         \A s \in DOMAIN h.claim :
           /\ \A c \in calls : c.urn = s => Obeys(c, h.claim[s], ch)
           /\ ch[s] \in h.claim[s] \/ \E c \in calls : c.urn = s,
         Truthful(o, h)
  PROVE  Sound(o, h)
<1>1. DOMAIN h.work \subseteq Nat /\ Outstanding(h) = calls
  BY Rounds
<1> QED BY <1>1 DEF Sound

\* What the answer lists is recorded with its expiration, or the slice's.
LEMMA RecordingIsSound ==
  ASSUME IInv, NEW o, o.at \in [Sliver -> SliverState], NEW T \in SUBSET Sliver, NEW new, Lists(o, T, new),
         NEW h, h.work = <<{Create(s, Told(o.ans.list[s].exp, MaxTime)) : s \in Listed(o.ans)}>>,
         NEW S \in SUBSET T, h.claim = [s \in S |-> AnyRecord],
         run.op \in Unchecked \/ \A s \in S : o.at[s].alloc = "geni_provisioned"
  PROVE  Sound(o, h)
<1> DEFINE calls == {Create(s, Told(o.ans.list[s].exp, MaxTime)) : s \in T}
<1>1. h.work = <<calls>>
  BY DEF Lists
<1>2. \A s \in T : Told(o.ans.list[s].exp, MaxTime) \in Expirations
  <2>1. SUFFICES ASSUME NEW s \in T PROVE Told(o.ans.list[s].exp, MaxTime) \in Expirations
    OBVIOUS
  <2>2. o.ans.list[s].exp \in Expirations
    BY <2>1, ToldIsExpiration DEF Lists, SliverState
  <2> QED BY <2>2, ToldIsExpiration
<1>3. \A c \in calls : c \in Calls /\ c.call = "create" /\ c.exp \in Expirations
  BY <1>2 DEF Create, Calls
<1>4. \A s \in T : \E c \in calls : c.urn = s
  <2>1. SUFFICES ASSUME NEW s \in T PROVE \E c \in calls : c.urn = s
    OBVIOUS
  <2>2. Create(s, Told(o.ans.list[s].exp, MaxTime)) \in calls
    OBVIOUS
  <2> HIDE DEF calls
  <2> QED BY <2>2 DEF Create
<1>5. ASSUME NEW s \in DOMAIN h.claim
      PROVE  /\ \A c \in calls : c.urn = s => Obeys(c, h.claim[s], ch)
             /\ ch[s] \in h.claim[s] \/ \E c \in calls : c.urn = s
  <2>1. s \in S /\ h.claim[s] = AnyRecord /\ AnyRecord = Expirations
    BY <1>5 DEF AnyRecord, Expirations
  <2>2. ch[s] # NoRecord => ch[s] \in Expirations
    BY <2>1 DEF IInv, Typing, Records
  <2> HIDE DEF calls
  <2> QED BY <1>3, <1>4, <2>1, <2>2 DEF Obeys
<1>6. Truthful(o, h)
  <2>1. NoRecord \notin AnyRecord
    BY AnswersAssumption DEF AnyRecord, Time, NoTime, NoRecord
  <2> HIDE DEF calls
  <2> QED BY <1>1, <2>1 DEF Truthful
<1> HIDE DEF calls
<1> QED BY <1>1, <1>3, <1>5, <1>6, OneRoundIsSound

LEMMA CreateSliverKeeps == IInv /\ CreateSliver => IInv'
<1> SUFFICES ASSUME IInv, CreateSliver PROVE IInv'
  OBVIOUS
<1> DEFINE new == [s \in Sliver |-> [alloc |-> "geni_provisioned", exp |-> 1]]
<1>0. PICK S \in SUBSET (Mine \ Present(am, run.at)) :
        \E o \in Answers(Changes(am, S, new), FALSE) :
          IF Raises(o.ans) THEN Abort(o.at)
          ELSE IF Worked(o.ans)
          THEN Handle(o, [Quiet EXCEPT
                 !.ok = TRUE,
                 !.work = <<{Create(s, Told(o.ans.list[s].exp, MaxTime)) : s \in Listed(o.ans)}>>,
                 !.claim = [s \in Listed(o.ans) |-> AnyRecord]])
          ELSE Handle(o, Quiet)
  BY DEF CreateSliver
<1> DEFINE made(o) == {Create(s, Told(o.ans.list[s].exp, MaxTime)) : s \in Listed(o.ans)}
           claim(o) == [s \in Listed(o.ans) |-> AnyRecord]
<1>1. PICK o \in Answers(Changes(am, S, new), FALSE) :
        IF Raises(o.ans) THEN Abort(o.at)
        ELSE IF Worked(o.ans)
        THEN Handle(o, [Quiet EXCEPT !.ok = TRUE, !.work = <<made(o)>>, !.claim = claim(o)])
        ELSE Handle(o, Quiet)
  BY <1>0
<1>2. S \subseteq Sliver /\ \A s \in S : new[s] \in SliverState
  BY AnswersAssumption DEF Mine, SliverState, States, Expirations, Time
<1> HIDE DEF new
<1>3. /\ o.at \in [Sliver -> SliverState]
      /\ Lists(o, S, new) \/ ~Worked(o.ans)
  BY <1>2, AnswersTell DEF IInv, Typing, Denies, Fails
<1>4. CASE Raises(o.ans)
  BY <1>1, <1>3, <1>4, AbortKeeps
<1>5. CASE ~Raises(o.ans) /\ ~Worked(o.ans)
  BY <1>1, <1>3, <1>5, QuietFields, NothingKeeps DEF ComesToNothing
<1>6. CASE ~Raises(o.ans) /\ Worked(o.ans)
  <2>1. PICK h : Handle(o, h) /\ h.work = <<made(o)>> /\ h.claim = claim(o)
    <3> HIDE DEF made, claim
    <3>1. Handle(o, [Quiet EXCEPT !.ok = TRUE, !.work = <<made(o)>>, !.claim = claim(o)])
      BY <1>1, <1>6
    <3>2. Tells([Quiet EXCEPT !.ok = TRUE, !.work = <<made(o)>>, !.claim = claim(o)],
                <<made(o)>>, claim(o), FALSE)
      BY RecordFields, Zenon
    <3> QED BY <3>1, <3>2 DEF Tells
  <2>2. Lists(o, S, new) /\ Listed(o.ans) = S
    BY <1>3, <1>6 DEF Lists
  <2>3. Sound(o, h)
    <3>1. run.op \in Unchecked
      BY DEF CreateSliver, Calling, Unchecked
    <3> QED BY <1>2, <1>3, <2>1, <2>2, <3>1, RecordingIsSound
  <2> QED BY <2>1, <2>3, HandleKeeps
<1> QED BY <1>4, <1>5, <1>6

LEMMA RenewSliverKeeps == IInv /\ RenewSliver => IInv'
<1> SUFFICES ASSUME IInv, RenewSliver PROVE IInv'
  OBVIOUS
<1>1. PICK t \in Time, known \in Listings :
        \E o \in Answers(Changes(am, Running(am, run.at), [s \in Sliver |-> [alloc |-> "geni_provisioned", exp |-> t]]),
                         Running(am, run.at) = {}) :
          IF Raises(o.ans) THEN Abort(o.at)
          ELSE IF Worked(o.ans)
          THEN Handle(o, [Quiet EXCEPT
                 !.ok = TRUE,
                 !.work = <<{Extend(s, t) : s \in known}>>,
                 !.claim = [s \in known |-> {t}],
                 !.trouble = Mislaid(known)])
          ELSE Handle(o, Quiet)
  BY DEF RenewSliver
<1> DEFINE new == [s \in Sliver |-> [alloc |-> "geni_provisioned", exp |-> t]]
           T == Running(am, run.at)
           calls == {Extend(s, t) : s \in known}
           claim == [s \in known |-> {t}]
           trouble == Mislaid(known)
<1>2. T \subseteq Sliver /\ \A s \in T : new[s] \in SliverState
  BY DEF Running, SliverState, States, Expirations
<1>3. PICK o \in Answers(Changes(am, T, new), T = {}) :
        IF Raises(o.ans) THEN Abort(o.at)
        ELSE IF Worked(o.ans)
        THEN Handle(o, [Quiet EXCEPT !.ok = TRUE, !.work = <<calls>>, !.claim = claim,
                                     !.trouble = trouble])
        ELSE Handle(o, Quiet)
  BY <1>1
<1> HIDE DEF new, T, trouble
<1>4. o.at \in [Sliver -> SliverState]
  BY <1>2, AnswersTell DEF IInv, Typing
<1>5. CASE Raises(o.ans)
  BY <1>3, <1>4, <1>5, AbortKeeps
<1>6. CASE ~Raises(o.ans) /\ ~Worked(o.ans)
  BY <1>3, <1>4, <1>6, QuietFields, NothingKeeps DEF ComesToNothing
<1>7. CASE ~Raises(o.ans) /\ Worked(o.ans)
  <2>1. PICK h : Handle(o, h) /\ h.work = <<calls>> /\ h.claim = claim
    <3> HIDE DEF calls, claim
    <3>1. Handle(o, [Quiet EXCEPT !.ok = TRUE, !.work = <<calls>>, !.claim = claim, !.trouble = trouble])
      BY <1>3, <1>7
    <3>2. Tells([Quiet EXCEPT !.ok = TRUE, !.work = <<calls>>, !.claim = claim, !.trouble = trouble],
                <<calls>>, claim, trouble)
      BY RecordFields, Zenon
    <3> QED BY <3>1, <3>2 DEF Tells
  <2>2. known \subseteq Sliver
    BY ListingsTell DEF Mine
  <2>3. \A c \in calls : c \in Calls /\ c.call = "update" /\ c.exp = t
    BY <2>2 DEF Extend, Calls, Expirations
  <2>4. \A s \in known : Extend(s, t) \in calls /\ Extend(s, t).urn = s
    BY DEF Extend
  <2>5. DOMAIN h.claim = known /\ \A s \in known : h.claim[s] = {t}
    BY <2>1
  <2>6. Truthful(o, h)
    BY DEF RenewSliver, Calling, Unchecked, Truthful
  <2> HIDE DEF calls
  <2>7. Sound(o, h)
    BY <1>4, <2>1, <2>2, <2>3, <2>4, <2>5, <2>6, OneRoundIsSound DEF Obeys
  <2> QED BY <2>1, <2>7, HandleKeeps
<1> QED BY <1>5, <1>6, <1>7

\* The calls by their fields.
LEMMA CallFields ==
  ASSUME NEW s \in Sliver, NEW e \in Expirations
  PROVE  /\ Create(s, e) \in Calls /\ Create(s, e).call = "create" /\ Create(s, e).urn = s /\ Create(s, e).exp = e
         /\ Extend(s, e) \in Calls /\ Extend(s, e).call = "update" /\ Extend(s, e).urn = s /\ Extend(s, e).exp = e
         /\ Drop(s) \in Calls /\ Drop(s).call = "delete" /\ Drop(s).urn = s
         /\ Raise(s) \in Calls /\ Raise(s).call = "raise" /\ Raise(s).urn = s
BY DEF Create, Extend, Drop, Raise, Calls, Expirations

LEMMA ProvisionKeeps == IInv /\ Provision => IInv'
<1> SUFFICES ASSUME IInv, Provision PROVE IInv'
  OBVIOUS
<1> DEFINE new == [s \in Sliver |-> [am[s] EXCEPT !.alloc = "geni_provisioned"]]
           made(o) == {Create(s, Told(o.ans.list[s].exp, MaxTime)) : s \in Listed(o.ans)}
           claim(o) == [s \in Provisioned(o.ans) |-> AnyRecord]
           ok(o) == Worked(o.ans) /\ Whole(o.ans, run.asked)
<1>1. PICK o \in Answers(Changes(am, Targets, new), Unknown) :
        Handle(o, [Quiet EXCEPT !.ok = ok(o), !.work = <<made(o)>>, !.claim = claim(o)])
  BY DEF Provision
<1>2. Targets \subseteq Sliver /\ \A s \in Targets : new[s] \in SliverState
  <2>1. Targets \subseteq Sliver
    BY DEF Targets, Present
  <2>2. ASSUME NEW s \in Targets PROVE new[s] \in SliverState
    BY <2>1 DEF IInv, Typing, SliverState, States
  <2> QED BY <2>1, <2>2
<1> HIDE DEF new
<1>3. /\ o.at \in [Sliver -> SliverState]
      /\ Lists(o, Targets, new) \/ ~Worked(o.ans)
  BY <1>2, AnswersTell DEF IInv, Typing, Denies, Fails
<1>4. PICK h : Handle(o, h) /\ h.work = <<made(o)>> /\ h.claim = claim(o)
  <2> HIDE DEF made, claim, ok
  <2>1. Tells([Quiet EXCEPT !.ok = ok(o), !.work = <<made(o)>>, !.claim = claim(o)],
              <<made(o)>>, claim(o), FALSE)
    BY RecordFields, Zenon
  <2> QED BY <1>1, <2>1 DEF Tells
<1>5. Sound(o, h)
  <2>1. CASE Lists(o, Targets, new)
    <3>1. /\ Provisioned(o.ans) \subseteq Targets
          /\ \A s \in Provisioned(o.ans) : o.at[s].alloc = "geni_provisioned"
      BY <2>1 DEF Lists, Provisioned
    <3>2. h.claim = [s \in Provisioned(o.ans) |-> AnyRecord]
      BY <1>4
    <3>3. h.work = <<{Create(s, Told(o.ans.list[s].exp, MaxTime)) : s \in Listed(o.ans)}>>
      BY <1>4
    <3> HIDE DEF made, claim
    <3>4. Provisioned(o.ans) \in SUBSET Targets /\ Targets \in SUBSET Sliver
      BY <1>2, <3>1
    <3> DEFINE P == Provisioned(o.ans)
               T == Targets
    <3>5. /\ P \in SUBSET T /\ T \in SUBSET Sliver /\ Lists(o, T, new)
          /\ h.claim = [s \in P |-> AnyRecord] /\ \A s \in P : o.at[s].alloc = "geni_provisioned"
      BY <2>1, <3>1, <3>2, <3>4
    <3> HIDE DEF P, T
    <3> QED BY <1>3, <3>3, <3>5, RecordingIsSound
  <2>2. CASE ~Worked(o.ans)
    <3>1. made(o) = {} /\ DOMAIN claim(o) = {}
      BY <2>2 DEF Listed, Provisioned
    <3>2. Truthful(o, h)
      BY <1>4, <3>1 DEF Truthful
    <3> HIDE DEF made, claim
    <3> QED BY <1>3, <1>4, <3>1, <3>2, OneRoundIsSound
  <2> QED BY <1>3, <2>1, <2>2
<1> QED BY <1>4, <1>5, HandleKeeps

\* Where the aggregate has nothing of the slice, nothing is provisioned.
LEMMA NothingProvisioned ==
  ASSUME IInv, Present(am, run.at) = {} \/ Running(am, run.at) = {}
  PROVE  \A s \in Mine : am[s].alloc # "geni_provisioned"
BY DEF Present, Running, Mine

LEMMA DeleteKeeps == IInv /\ Delete => IInv'
<1> SUFFICES ASSUME IInv, Delete PROVE IInv'
  OBVIOUS
<1> DEFINE new == [s \in Sliver |-> Nothing]
           gone(o) == Listed(o.ans) \ DidSliversFail(o.ans)
           drops(o) == {Drop(s) : s \in gone(o)}
           claim(o) == [s \in gone(o) |-> {NoRecord}]
           ok(o) == DidSliversFail(o.ans) = {}
<1>1. PICK known \in Listings, o \in Answers(Changes(am, Targets, new), Unknown) :
        IF Worked(o.ans)
        THEN Handle(o, [Quiet EXCEPT !.ok = ok(o), !.work = <<drops(o)>>, !.claim = claim(o)])
        ELSE Handle(o, IF MeansNothing(o.ans) THEN Forget(known) ELSE Quiet)
  BY DEF Delete, Deleted
<1>2. Targets \subseteq Sliver /\ \A s \in Targets : new[s] \in SliverState /\ new[s] = Nothing
  BY DEF Targets, Present, SliverState, States, Nothing, Expirations
<1> HIDE DEF new
<1>3. /\ o.at \in [Sliver -> SliverState]
      /\ Lists(o, Targets, new) \/ Denies(o, Unknown) \/ Fails(o)
  BY <1>2, AnswersTell DEF IInv, Typing
<1>4. CASE Lists(o, Targets, new)
  <2>1. PICK h : Handle(o, h) /\ h.work = <<drops(o)>> /\ h.claim = claim(o)
    <3> HIDE DEF drops, claim, ok
    <3>1. Tells([Quiet EXCEPT !.ok = ok(o), !.work = <<drops(o)>>, !.claim = claim(o)],
                <<drops(o)>>, claim(o), FALSE)
      BY RecordFields, Zenon
    <3> QED BY <1>1, <1>4, <3>1 DEF Tells, Lists
  <2>2. \A s \in gone(o) : s \in Sliver /\ o.at[s] = Nothing
    BY <1>2, <1>4 DEF Lists, DidSliversFail
  <2>3. \A c \in drops(o) : c \in Calls /\ c.call = "delete" /\ c.urn \in gone(o)
    BY <2>2, CallFields DEF Expirations
  <2>4. \A s \in gone(o) : Drop(s) \in drops(o) /\ Drop(s).urn = s
    BY <2>2, CallFields DEF Expirations
  <2>5. DOMAIN h.claim = gone(o) /\ \A s \in gone(o) : h.claim[s] = {NoRecord}
    BY <2>1
  <2> HIDE DEF drops, claim, gone
  <2>6. Truthful(o, h)
    BY <2>1, <2>2, <2>5 DEF Truthful, Nothing
  <2>7. Sound(o, h)
    BY <1>3, <2>1, <2>2, <2>3, <2>4, <2>5, <2>6, OneRoundIsSound DEF Obeys, Nothing
  <2> QED BY <2>1, <2>7, HandleKeeps
<1>5. CASE ~Worked(o.ans) /\ MeansNothing(o.ans)
  <2>1. Handle(o, Forget(known)) /\ run.asked = {}
    BY <1>1, <1>5 DEF MeansNothing
  <2>2. o.at = am /\ Present(am, run.at) = {}
    BY <1>3, <1>5, <2>1 DEF Lists, Denies, Fails, MeansNothing, Unknown
  <2>3. Sound(o, Forget(known))
    BY <1>3, <2>2, NothingProvisioned, ForgetFields, ForgetIsSound
  <2> QED BY <2>1, <2>3, HandleKeeps
<1>6. CASE ~Worked(o.ans) /\ ~MeansNothing(o.ans)
  BY <1>1, <1>3, <1>6, QuietFields, NothingKeeps DEF ComesToNothing
<1> QED BY <1>3, <1>4, <1>5, <1>6 DEF Lists, Denies, Fails

LEMMA DeleteSliverKeeps == IInv /\ DeleteSliver => IInv'
<1> SUFFICES ASSUME IInv, DeleteSliver PROVE IInv'
  OBVIOUS
<1> DEFINE new == [s \in Sliver |-> Nothing]
           T == Present(am, run.at)
           whole(o) == Worked(o.ans) /\ DidSliversFail(o.ans) = {}
           onward(o) == IF Raises(o.ans) THEN {} ELSE run.todo
<1>1. PICK known \in Listings, o \in Answers(Changes(am, T, new), T = {}) :
        /\ Worked(o.ans) => whole(o)
        /\ Handle(o, [IF whole(o) \/ Gone(o.ans) THEN Forget(known) ELSE Quiet
                      EXCEPT !.ok = whole(o), !.todo = onward(o)])
  BY DEF DeleteSliver
<1>2. T \subseteq Sliver /\ \A s \in T : new[s] \in SliverState /\ new[s] = Nothing
  BY DEF Present, SliverState, States, Nothing, Expirations
<1>3. \A s \in Mine \ T : am[s].alloc # "geni_provisioned"
  BY DEF Mine, Present
<1> HIDE DEF new, T, onward
<1>4. /\ o.at \in [Sliver -> SliverState]
      /\ Lists(o, T, new) \/ Denies(o, T = {}) \/ Fails(o)
  BY <1>2, AnswersTell DEF IInv, Typing
<1>5. CASE whole(o) \/ Gone(o.ans)
  <2>1. \A s \in Mine : o.at[s].alloc # "geni_provisioned"
    <3>1. CASE whole(o)
      <4>1. \A s \in T : o.at[s] = Nothing
        BY <1>2, <1>4, <3>1 DEF Lists, Denies, Fails, DidSliversFail
      <4>2. \A s \in Mine \ T : o.at[s] = am[s]
        BY <1>4, <3>1 DEF Lists, Denies, Fails, Mine
      <4> QED BY <1>3, <4>1, <4>2 DEF Nothing
    <3>2. CASE ~whole(o) /\ Gone(o.ans)
      BY <1>1, <1>3, <1>4, <1>5, <3>2 DEF Lists, Denies, Fails
    <3> QED BY <1>5, <3>1, <3>2
  <2> DEFINE h == [Forget(known) EXCEPT !.ok = whole(o), !.todo = onward(o)]
  <2>2. Handle(o, h)
    BY <1>1, <1>5
  <2>3. h.work = DropAll(known) /\ h.claim = NothingLeft /\ (h.trouble <=> Mislaid(known))
    <3> HIDE DEF whole
    <3> QED BY ForgetFields, Zenon
  <2> HIDE DEF h, whole
  <2>4. Sound(o, h)
    BY <1>4, <2>1, <2>3, ForgetIsSound
  <2> QED BY <2>2, <2>4, HandleKeeps
<1>6. CASE ~(whole(o) \/ Gone(o.ans))
  <2>1. Handle(o, [Quiet EXCEPT !.ok = whole(o), !.todo = onward(o)])
    BY <1>1, <1>6
  <2> HIDE DEF whole
  <2>2. ComesToNothing(o)
    BY <2>1, QuietFields DEF ComesToNothing
  <2> QED BY <1>4, <2>2, NothingKeeps
<1> QED BY <1>5, <1>6

\* A set of expirations with at most one member.
LEMMA AtMostOne ==
  ASSUME NEW exps \in SUBSET Time, ~(Cardinality(exps) > 1)
  PROVE  exps = {} \/ \E t \in Time : exps = {t}
<1>1. IsFiniteSet(exps)
  <2>1. IsFiniteSet(1..MaxTime)
    BY AnswersAssumption, FS_Interval
  <2> QED BY <2>1, FS_Subset DEF Time
<1>2. Cardinality(exps) \in Nat
  BY <1>1, FS_CardinalityType
<1>3. Cardinality(exps) = 0 \/ Cardinality(exps) = 1
  BY <1>2
<1>4. CASE Cardinality(exps) = 0
  BY <1>1, <1>4, FS_EmptySet
<1>5. CASE Cardinality(exps) = 1
  BY <1>1, <1>5, FS_Singleton
<1> QED BY <1>3, <1>4, <1>5

LEMMA RenewKeeps == IInv /\ Renew => IInv'
<1> SUFFICES ASSUME IInv, Renew PROVE IInv'
  OBVIOUS
<1>1. PICK t \in Time :
        \E o \in Answers(Changes(am, Targets, [s \in Sliver |-> [am[s] EXCEPT !.exp = t]]), Unknown) :
          LET missing == IF run.structs THEN Listed(o.ans) # {}
                         ELSE FindMissingSlivers(o.ans, run.asked) # {}
          IN IF DidSliversFail(o.ans) # {} \/ Cardinality(SliverExpirations(o.ans)) > 1 THEN Abort(o.at)
             ELSE Handle(o, [Quiet EXCEPT
                    !.ok = Worked(o.ans) /\ ~missing,
                    !.structs = IF Worked(o.ans) /\ ~run.opts.noExtraCHCalls THEN Listed(o.ans) # {} ELSE @,
                    !.work = <<{Extend(s, o.ans.list[s].exp) : s \in Renewed(o.ans)}>>,
                    !.claim = [s \in Renewed(o.ans) |-> {o.ans.list[s].exp}]])
  BY DEF Renew
<1> DEFINE new == [s \in Sliver |-> [am[s] EXCEPT !.exp = t]]
           missing(o) == IF run.structs THEN Listed(o.ans) # {}
                         ELSE FindMissingSlivers(o.ans, run.asked) # {}
           ok(o) == Worked(o.ans) /\ ~missing(o)
           structs(o) == IF Worked(o.ans) /\ ~run.opts.noExtraCHCalls THEN Listed(o.ans) # {}
                         ELSE Quiet.structs
           calls(o) == {Extend(s, o.ans.list[s].exp) : s \in Renewed(o.ans)}
           claim(o) == [s \in Renewed(o.ans) |-> {o.ans.list[s].exp}]
<1>2. PICK o \in Answers(Changes(am, Targets, new), Unknown) :
        \/ Abort(o.at)
        \/ Handle(o, [Quiet EXCEPT !.ok = ok(o), !.structs = structs(o), !.work = <<calls(o)>>,
                                   !.claim = claim(o)])
  BY <1>1
<1>3. Targets \subseteq Sliver /\ \A s \in Targets : new[s] \in SliverState
  <2>1. Targets \subseteq Sliver
    BY DEF Targets, Present
  <2>2. ASSUME NEW s \in Targets PROVE new[s] \in SliverState
    BY <2>1 DEF IInv, Typing, SliverState, Expirations
  <2> QED BY <2>1, <2>2
<1> HIDE DEF new
<1>4. /\ o.at \in [Sliver -> SliverState]
      /\ Lists(o, Targets, new) \/ ~Worked(o.ans)
  BY <1>3, AnswersTell DEF IInv, Typing, Denies, Fails
<1>5. CASE Abort(o.at)
  BY <1>4, <1>5, AbortKeeps
<1>6. CASE ~Abort(o.at)
  <2>1. PICK h : Handle(o, h) /\ h.work = <<calls(o)>> /\ h.claim = claim(o)
    <3> HIDE DEF calls, claim, ok, structs
    <3>1. Tells([Quiet EXCEPT !.ok = ok(o), !.structs = structs(o), !.work = <<calls(o)>>, !.claim = claim(o)],
                <<calls(o)>>, claim(o), FALSE)
      BY RecordFields, Zenon
    <3> QED BY <1>2, <1>6, <3>1 DEF Tells
  <2>2. ASSUME NEW s \in Renewed(o.ans)
        PROVE  /\ s \in Sliver /\ o.ans.list[s].exp \in Expirations
               /\ o.ans.list[s].exp # NoTime /\ o.ans.list[s].alloc # "geni_allocated"
               /\ o.at[s] = new[s] /\ s \in Targets /\ o.ans.list[s].alloc = o.at[s].alloc
    <3>1. Lists(o, Targets, new) /\ s \in Targets
      BY <1>4, <2>2 DEF Renewed, Listed, Lists
    <3>2. ~o.ans.list[s].err
      BY <2>2 DEF Renewed, DidSliversFail
    <3> QED BY <1>3, <1>4, <2>2, <3>1, <3>2 DEF Lists, SliverState, Expirations, Renewed
  <2>3. \A c \in calls(o) : \E s \in Renewed(o.ans) : c = Extend(s, o.ans.list[s].exp)
    OBVIOUS
  <2>4. \A s \in Renewed(o.ans) : Extend(s, o.ans.list[s].exp) \in calls(o)
    OBVIOUS
  <2>5. DOMAIN h.claim = Renewed(o.ans) /\ \A s \in Renewed(o.ans) : h.claim[s] = {o.ans.list[s].exp}
    BY <2>1
  <2> HIDE DEF calls, claim
  <2>6. \A c \in calls(o) : /\ c \in Calls /\ c.call = "update" /\ c.urn \in Renewed(o.ans)
                            /\ c.exp = o.ans.list[c.urn].exp
    BY <2>2, <2>3, CallFields
  <2>7. \A s \in Renewed(o.ans) : \E c \in calls(o) : c.urn = s
    BY <2>2, <2>4, CallFields
  <2>8. Truthful(o, h)
    <3>1. ASSUME NEW s \in Renewed(o.ans)
          PROVE  o.at[s].alloc = "geni_provisioned" /\ NoRecord \notin {o.ans.list[s].exp}
      <4>1. s \in Sliver /\ s \in Present(am, run.at)
        BY <2>2, <3>1 DEF Targets
      <4>2. am[s] \in SliverState /\ am[s].alloc # "geni_unallocated"
        BY <4>1 DEF IInv, Typing, Present
      <4>3. new[s].alloc = am[s].alloc
        BY <4>1, <4>2 DEF new, SliverState
      <4>4. o.at[s].alloc = "geni_provisioned"
        BY <2>2, <3>1, <4>2, <4>3 DEF SliverState, States
      <4> QED BY <2>2, <3>1, <4>4, ToldIsExpiration
    <3> QED BY <2>1, <2>5, <3>1 DEF Truthful
  <2>9. Sound(o, h)
    BY <1>4, <2>1, <2>2, <2>5, <2>6, <2>7, <2>8, OneRoundIsSound DEF Obeys
  <2> QED BY <2>1, <2>9, HandleKeeps
<1> QED BY <1>5, <1>6

\* What SliverStatus makes of an answer that lists the slivers that run, when no
\* more than one expiration is told.
LEMMA SliverStatusIsSound ==
  ASSUME IInv, NEW known \in Listings, NEW o, o.at \in [Sliver -> SliverState],
         Lists(o, Running(am, run.at), am),
         NEW exp \in Expirations,
         \A s \in Listed(o.ans) : o.ans.list[s].exp \in {NoTime, exp},
         NEW h, h.work = SliverStatusWork(o.ans.list, known, exp),
         h.claim = SliverStatusClaim(o.ans.list, exp), h.trouble <=> Mislaid(known)
  PROVE  Sound(o, h)
<1> DEFINE T == Running(am, run.at)
           make(s) == Create(s, Told(o.ans.list[s].exp, exp))
           stale == {s \in known \cap T : exp # NoTime /\ ch[s] # exp}
           first == {make(s) : s \in T}
           settle == {Drop(s) : s \in known \ T} \cup {Extend(s, exp) : s \in stale}
           add == {make(s) : s \in T \ known}
<1>1. DOMAIN o.ans.list = T /\ Listed(o.ans) = T
  BY DEF Lists, Listed
<1>2. h.work = IF known = {} THEN <<first>> ELSE <<settle, add>>
  BY <1>1 DEF SliverStatusWork
<1>3. /\ T \subseteq Mine /\ Mine \subseteq Sliver /\ known \subseteq Mine /\ \A s \in known : ch[s] # NoRecord
      /\ ~Mislaid(known) => \A s \in Mine : s \in known <=> ch[s] # NoRecord
  BY ListingsTell DEF Running, Mine
<1>4. \A s \in T : Told(o.ans.list[s].exp, exp) = exp
  BY <1>1 DEF Told
<1>5. \A s \in known \ T : o.at[s].alloc # "geni_provisioned"
  BY <1>3 DEF Lists, Running, Mine
<1>6. \A s \in Mine : ch[s] \in Records
  BY <1>3 DEF IInv, Typing
<1> DEFINE calls == Outstanding(h)
<1>7. DOMAIN h.work \subseteq Nat /\ calls = IF known = {} THEN first ELSE settle \cup add
  <2> HIDE DEF first, settle, add
  <2>1. CASE known = {}
    <3>1. h.work = <<first>>
      BY <1>2, <2>1
    <3> QED BY <2>1, <3>1, Rounds
  <2>2. CASE known # {}
    <3>1. h.work = <<settle, add>>
      BY <1>2, <2>2
    <3> QED BY <2>2, <3>1, Rounds
  <2> QED BY <2>1, <2>2
<1>8. ASSUME NEW c \in calls
      PROVE  /\ c \in Calls
             /\ \/ c.call = "delete" /\ c.urn \in known \ T
                \/ c.call = "update" /\ c.urn \in stale /\ c.exp = exp
                \/ c.call = "create" /\ c.urn \in T \ known /\ c.exp = exp
  <2> HIDE DEF T
  <2>1. CASE c \in first /\ known = {}
    BY <1>3, <1>4, <2>1, CallFields
  <2>2. CASE c \in add
    BY <1>3, <1>4, <2>2, CallFields
  <2>3. CASE c \in settle
    <3>1. CASE c \in {Drop(s) : s \in known \ T}
      BY <1>3, <3>1, CallFields
    <3>2. CASE c \in {Extend(s, exp) : s \in stale}
      BY <1>3, <3>2, CallFields
    <3> QED BY <2>3, <3>1, <3>2
  <2> QED BY <1>7, <1>8, <2>1, <2>2, <2>3
<1>9. ASSUME NEW s \in known \ T
      PROVE  \E c \in calls : c.urn = s
  <2>1. Drop(s) \in calls
    BY <1>7, <1>9
  <2> HIDE DEF calls
  <2> QED BY <1>3, <2>1, CallFields
<1>10. ASSUME NEW s \in T \ known
       PROVE  \E c \in calls : c.urn = s
  <2>1. make(s) \in calls
    BY <1>7, <1>10
  <2> HIDE DEF calls
  <2> QED BY <1>3, <1>4, <2>1, CallFields
<1>11. ASSUME NEW s \in stale
       PROVE  \E c \in calls : c.urn = s
  <2>1. Extend(s, exp) \in calls
    BY <1>7, <1>11
  <2> HIDE DEF calls
  <2> QED BY <1>3, <2>1, CallFields
<1>12. /\ DOMAIN h.claim = Mine
       /\ \A s \in Mine : h.claim[s] = IF s \notin T THEN {NoRecord} ELSE IF exp = NoTime THEN AnyRecord ELSE {exp}
  BY <1>1 DEF SliverStatusClaim
<1> HIDE DEF calls, T
<1>13. ASSUME ~h.trouble, NEW s \in DOMAIN h.claim
       PROVE  /\ \A c \in calls : c.urn = s => Obeys(c, h.claim[s], ch)
              /\ ch[s] \in h.claim[s] \/ \E c \in calls : c.urn = s
  <2>1. s \in Mine /\ (s \in known <=> ch[s] # NoRecord)
    BY <1>3, <1>12, <1>13
  <2>2. s \in T => exp \in h.claim[s]
    BY <1>12, <2>1 DEF AnyRecord
  <2>3. \A c \in calls : c.urn = s => Obeys(c, h.claim[s], ch)
    BY <1>8, <1>12, <2>1, <2>2 DEF Obeys
  <2>4. CASE s \notin T
    BY <1>9, <1>12, <2>1, <2>3, <2>4
  <2>5. CASE s \in T
    <3>1. s \in known /\ s \notin stale => ch[s] \in h.claim[s]
      BY <1>6, <1>12, <2>1, <2>5 DEF Records, Expirations, AnyRecord
    <3> QED BY <1>10, <1>11, <2>3, <2>5, <3>1
  <2> QED BY <2>4, <2>5
<1>14. Truthful(o, h)
  <2>1. h.work # <<>>
    <3> HIDE DEF first, settle, add
    <3> QED BY <1>2
  <2>2. \A s \in Mine : s \in T <=> o.at[s].alloc = "geni_provisioned"
    <3>1. T \subseteq Mine /\ Mine \subseteq Sliver
      BY <1>3
    <3>2. \A s \in Mine : s \in T <=> am[s].alloc = "geni_provisioned"
      BY <3>1 DEF Running, Mine, T
    <3>3. ASSUME NEW s \in Mine, s \in T PROVE o.at[s].alloc = "geni_provisioned"
      BY <3>2, <3>3 DEF Lists, T
    <3>4. ASSUME NEW s \in Mine, s \notin T PROVE o.at[s] = am[s]
      BY <3>1, <3>4 DEF Lists, T
    <3> QED BY <3>2, <3>3, <3>4
  <2>3. NoRecord \notin AnyRecord /\ NoRecord # exp
    BY ToldIsExpiration DEF AnyRecord
  <2> QED BY <1>12, <2>1, <2>2, <2>3 DEF Truthful
<1> QED BY <1>3, <1>5, <1>7, <1>8, <1>12, <1>13, <1>14 DEF Sound, calls

LEMMA SliverStatusKeeps == IInv /\ SliverStatus => IInv'
<1> SUFFICES ASSUME IInv, SliverStatus PROVE IInv'
  OBVIOUS
<1> DEFINE T == Running(am, run.at)
           exps(o) == StatusExpirations(o.ans)
           exp(o) == IF exps(o) = {} THEN NoTime ELSE CHOOSE t \in exps(o) : TRUE
           onward(o) == IF Raises(o.ans) THEN {} ELSE run.todo
           calls(known, o) == SliverStatusWork(o.ans.list, known, exp(o))
           claim(o) == SliverStatusClaim(o.ans.list, exp(o))
           trouble(known) == Mislaid(known)
<1>1. PICK known \in Listings, o \in Answers(Reads(am, T), T = {}) :
        IF Worked(o.ans)
        THEN IF Cardinality(exps(o)) > 1 THEN Abort(o.at)
             ELSE Handle(o, [Quiet EXCEPT !.ok = TRUE, !.work = calls(known, o), !.claim = claim(o),
                                          !.trouble = trouble(known)])
        ELSE Handle(o, [IF Gone(o.ans) THEN Forget(known) ELSE Quiet EXCEPT !.todo = onward(o)])
  BY DEF SliverStatus
<1>2. T \subseteq Sliver /\ \A s \in T : am[s] \in SliverState
  BY DEF Running, IInv, Typing
<1> HIDE DEF onward
<1>3. /\ o.at \in [Sliver -> SliverState]
      /\ Lists(o, T, am) \/ Denies(o, T = {}) \/ Fails(o)
  <2>1. o \in Answers(Changes(am, T, am), T = {})
    BY <1>1 DEF Reads
  <2> HIDE DEF T
  <2> QED BY <1>2, <2>1, AnswersTell DEF IInv, Typing
<1>4. CASE Lists(o, T, am) /\ Cardinality(exps(o)) > 1
  BY <1>1, <1>3, <1>4, AbortKeeps DEF Lists
<1>5. CASE Lists(o, T, am) /\ ~(Cardinality(exps(o)) > 1)
  <2>1. \A s \in T : o.ans.list[s].exp \in Expirations
    BY <1>2, <1>3, <1>5 DEF Lists, SliverState, Expirations
  <2>2. exps(o) = {o.ans.list[s].exp : s \in T} \ {NoTime}
    BY <1>5 DEF Lists, StatusExpirations, SliverExpirations
  <2>3. exps(o) \subseteq Time
    BY <2>1, <2>2 DEF Expirations
  <2> HIDE DEF T
  <2>4. exps(o) = {} \/ \E t \in Time : exps(o) = {t}
    BY <1>5, <2>3, AtMostOne
  <2>5. exp(o) \in Expirations /\ \A s \in T : o.ans.list[s].exp \in {NoTime, exp(o)}
    <3> HIDE DEF exps
    <3>1. \A s \in T : o.ans.list[s].exp \in exps(o) \cup {NoTime}
      BY <2>2
    <3> QED BY <2>4, <3>1 DEF Expirations
  <2>6. PICK h : /\ Handle(o, h)
                 /\ h.work = calls(known, o) /\ h.claim = claim(o) /\ h.trouble = trouble(known)
    <3> HIDE DEF calls, claim, trouble
    <3>1. Handle(o, [Quiet EXCEPT !.ok = TRUE, !.work = calls(known, o), !.claim = claim(o),
                                  !.trouble = trouble(known)])
      BY <1>1, <1>5 DEF Lists
    <3>2. Tells([Quiet EXCEPT !.ok = TRUE, !.work = calls(known, o), !.claim = claim(o),
                              !.trouble = trouble(known)], calls(known, o), claim(o), trouble(known))
      BY RecordFields, Zenon
    <3> QED BY <3>1, <3>2 DEF Tells
  <2>7. Listed(o.ans) = T
    BY <1>5 DEF Lists
  <2> HIDE DEF exp
  <2>8. Sound(o, h)
    <3> USE DEF T
    <3> QED BY <1>3, <1>5, <2>5, <2>6, <2>7, SliverStatusIsSound
  <2> QED BY <2>6, <2>8, HandleKeeps
<1>6. CASE ~Worked(o.ans) /\ Gone(o.ans)
  <2>1. Handle(o, [Forget(known) EXCEPT !.todo = onward(o)])
    BY <1>1, <1>6
  <2>2. T = {} /\ o.at = am
    BY <1>3, <1>6 DEF Lists, Denies, Fails
  <2> DEFINE h == [Forget(known) EXCEPT !.todo = onward(o)]
  <2>3. h.work = DropAll(known) /\ h.claim = NothingLeft /\ (h.trouble <=> Mislaid(known))
    BY ForgetFields, Zenon
  <2> HIDE DEF h
  <2>4. Sound(o, h)
    BY <1>3, <2>2, <2>3, NothingProvisioned, ForgetIsSound
  <2> QED BY <2>1, <2>4, HandleKeeps DEF h
<1>7. CASE ~Worked(o.ans) /\ ~Gone(o.ans)
  <2>1. Handle(o, [Quiet EXCEPT !.todo = onward(o)])
    BY <1>1, <1>7
  <2>2. ComesToNothing(o)
    BY <2>1, QuietFields DEF ComesToNothing
  <2> QED BY <1>3, <2>2, NothingKeeps
<1> QED BY <1>3, <1>4, <1>5, <1>6, <1>7 DEF Denies, Fails

\* The call that records sliver s as Status finds it: it takes the time of the
\* answer, or the slice's, or fails.
LEMMA StatusCreateFields ==
  ASSUME NEW list, NEW s \in Sliver, list[s].exp \in Expirations
  PROVE  /\ StatusCreate(list, s) \in Calls /\ StatusCreate(list, s).urn = s
         /\ \/ StatusCreate(list, s).call = "raise"
            \/ /\ StatusCreate(list, s).call = "create"
               /\ StatusCreate(list, s).exp = Told(list[s].exp, MaxTime)
         /\ \A c \in StatusRefresh(list, s) :
              /\ c \in Calls /\ c.urn = s
              /\ \/ c.call = "raise"
                 \/ c.call = "update" /\ c.exp = Told(list[s].exp, MaxTime)
         /\ StatusRefresh(list, s) = {} => ch[s] = Told(list[s].exp, MaxTime)
<1>1. MaxTime \in Expirations
  BY ToldIsExpiration
<1>2. /\ StatusCreate(list, s) \in Calls /\ StatusCreate(list, s).urn = s
      /\ \/ StatusCreate(list, s).call = "raise"
         \/ /\ StatusCreate(list, s).call = "create"
            /\ StatusCreate(list, s).exp = Told(list[s].exp, MaxTime)
  BY <1>1, CallFields DEF StatusCreate, Told
<1>3. CASE StatusCreate(list, s).call = "raise"
  BY <1>1, <1>2, <1>3, CallFields DEF StatusRefresh
<1>4. CASE StatusCreate(list, s).call # "raise"
  <2>1. Told(list[s].exp, MaxTime) \in Expirations
    BY <1>1, ToldIsExpiration
  <2>2. StatusRefresh(list, s) = IF ch[s] # Told(list[s].exp, MaxTime)
                                 THEN {Extend(s, Told(list[s].exp, MaxTime))} ELSE {}
    BY <1>2, <1>4 DEF StatusRefresh
  <2> QED BY <1>2, <2>1, <2>2, CallFields
<1> QED BY <1>3, <1>4

\* The calls Status makes: records that nothing running stands behind go, slivers
\* that are not on record come on it, and the rest are brought up to date.
LEMMA StatusCalls ==
  ASSUME NEW ans, NEW known, NEW h, h.work = StatusWork(ans, known),
         Worked(ans)
  PROVE  LET list == ans.list
             prov == Provisioned(ans)
             bad == DidSliversFail(ans)
             asked == IF run.asked = {} THEN known ELSE run.asked
             calls == Outstanding(h)
         IN /\ DOMAIN h.work \subseteq Nat
            /\ \A c \in calls :
                 \/ \E s \in known \cap (Listed(ans) \cup asked) : s \notin prov /\ c = Drop(s)
                 \/ \E s \in prov \ known : c = StatusCreate(list, s)
                 \/ \E s \in (prov \ bad) \cap known : c \in StatusRefresh(list, s)
            /\ \A s \in known \cap (Listed(ans) \cup asked) : s \notin prov => Drop(s) \in calls
            /\ \A s \in prov \ known : StatusCreate(list, s) \in calls
            /\ \A s \in (prov \ bad) \cap known : StatusRefresh(list, s) \subseteq calls
<1> DEFINE list == ans.list
           prov == Provisioned(ans)
           bad == DidSliversFail(ans)
           inScope == IF run.asked = {} THEN known ELSE known \cap run.asked
           missing == FindMissingSlivers(ans, run.asked)
           all == {StatusCreate(list, s) : s \in prov}
           one == {Drop(s) : s \in missing \cap known}
           two == {StatusCreate(list, s) : s \in (bad \cap prov) \ known} \cup {Drop(s) : s \in (bad \ prov) \cap known}
           three == {Drop(s) : s \in inScope \ Listed(ans)} \cup {Drop(s) : s \in (known \cap Listed(ans)) \ prov}
           four == {StatusCreate(list, s) : s \in (prov \ bad) \ known}
                     \cup UNION {StatusRefresh(list, s) : s \in (prov \ bad) \cap known}
<1>1. h.work = IF known = {} THEN <<all>> ELSE <<one, two, three, four>>
  BY DEF StatusWork
<1>2. prov \subseteq Listed(ans) /\ bad \subseteq Listed(ans)
  BY DEF Provisioned, DidSliversFail
<1>3. missing \subseteq run.asked \ Listed(ans)
  BY DEF FindMissingSlivers
<1>4. CASE known = {}
  <2>1. DOMAIN h.work \subseteq Nat /\ Outstanding(h) = all
    <3> HIDE DEF all
    <3> QED BY <1>1, <1>4, Rounds
  <2> HIDE DEF prov, bad
  <2> QED BY <1>4, <2>1 DEF prov, bad
<1>5. CASE known # {}
  <2>1. DOMAIN h.work \subseteq Nat /\ Outstanding(h) = one \cup two \cup three \cup four
    <3> HIDE DEF one, two, three, four
    <3>1. h.work = <<one, two, three, four>>
      BY <1>1, <1>5
    <3> QED BY <3>1, Rounds
  <2> DEFINE asked == IF run.asked = {} THEN known ELSE run.asked
  <2>2. missing \cap known \subseteq known \cap asked /\ inScope = known \cap asked
    BY <1>3
  <2> HIDE DEF prov, bad, missing, inScope, asked
  <2>3. ASSUME NEW c \in one \cup two \cup three
        PROVE  \/ \E s \in known \cap (Listed(ans) \cup asked) : s \notin prov /\ c = Drop(s)
               \/ \E s \in prov \ known : c = StatusCreate(list, s)
    <3>1. CASE c \in one
      BY <1>2, <1>3, <2>2, <3>1 DEF missing, prov
    <3>2. CASE c \in two
      BY <1>2, <3>2
    <3>3. CASE c \in three
      BY <1>2, <2>2, <3>3
    <3> QED BY <2>3, <3>1, <3>2, <3>3
  <2>4. ASSUME NEW c \in four
        PROVE  \/ \E s \in prov \ known : c = StatusCreate(list, s)
               \/ \E s \in (prov \ bad) \cap known : c \in StatusRefresh(list, s)
    BY <2>4
  <2>5. ASSUME NEW s \in known \cap (Listed(ans) \cup asked), s \notin prov
        PROVE  Drop(s) \in three
    BY <2>2, <2>5
  <2>6. ASSUME NEW s \in prov \ known
        PROVE  StatusCreate(list, s) \in two \cup four
    BY <2>6
  <2>7. ASSUME NEW s \in (prov \ bad) \cap known
        PROVE  StatusRefresh(list, s) \subseteq four
    BY <2>7
  <2> HIDE DEF one, two, three, four
  <2> QED BY <2>1, <2>3, <2>4, <2>5, <2>6, <2>7 DEF prov, bad, asked
<1> QED BY <1>4, <1>5

\* What Status makes of an answer that lists the slivers it is about.
LEMMA StatusIsSound ==
  ASSUME IInv, NEW known \in Listings, NEW o, o.at \in [Sliver -> SliverState],
         Lists(o, Targets, am),
         NEW h, h.work = StatusWork(o.ans, known), h.claim = StatusClaim(o.ans),
         h.trouble <=> Mislaid(known)
  PROVE  Sound(o, h)
<1> DEFINE list == o.ans.list
           prov == Provisioned(o.ans)
           bad == DidSliversFail(o.ans)
           asked == IF run.asked = {} THEN known ELSE run.asked
           scope == known \cap (Listed(o.ans) \cup asked)
           calls == Outstanding(h)
           told(s) == Told(list[s].exp, MaxTime)
<1>1. Worked(o.ans) /\ Listed(o.ans) = Targets
  BY DEF Lists
<1>2. /\ DOMAIN h.work \subseteq Nat
      /\ \A c \in calls : \/ \E s \in scope : s \notin prov /\ c = Drop(s)
                          \/ \E s \in prov \ known : c = StatusCreate(list, s)
                          \/ \E s \in (prov \ bad) \cap known : c \in StatusRefresh(list, s)
      /\ \A s \in scope : s \notin prov => Drop(s) \in calls
      /\ \A s \in prov \ known : StatusCreate(list, s) \in calls
      /\ \A s \in (prov \ bad) \cap known : StatusRefresh(list, s) \subseteq calls
  <2>1. Worked(o.ans)
    BY <1>1
  <2> QED BY <2>1, StatusCalls, Zenon
<1>3. /\ Targets \subseteq Mine /\ Mine \subseteq Sliver /\ known \subseteq Mine /\ \A s \in known : ch[s] # NoRecord
      /\ ~Mislaid(known) => \A s \in Mine : s \in known <=> ch[s] # NoRecord
  BY ListingsTell DEF Targets, Present, Mine
<1>4. prov \subseteq Targets /\ \A s \in Targets : s \in prov <=> o.at[s].alloc = "geni_provisioned"
  BY <1>1 DEF Provisioned, Lists
<1>5. \A s \in Mine \ Targets : s \in asked => o.at[s].alloc # "geni_provisioned"
  <2>1. \A s \in Mine \ Targets : s \in asked => s \notin Present(am, run.at)
    BY <1>3 DEF Targets
  <2>2. \A s \in Mine \ Targets : o.at[s] = am[s]
    BY <1>3 DEF Lists
  <2> QED BY <2>1, <2>2 DEF Present, Mine
<1>6. \A s \in Targets : list[s].exp \in Expirations /\ told(s) \in Expirations
  <2>1. ASSUME NEW s \in Targets PROVE list[s].exp \in Expirations
    BY <1>3, <2>1 DEF Lists, SliverState, Expirations
  <2> QED BY <2>1, ToldIsExpiration
<1>7. \A s \in Mine : ch[s] \in Records
  BY <1>3 DEF IInv, Typing
<1> HIDE DEF calls, prov, bad, list
<1>8. ASSUME NEW c \in calls
      PROVE  /\ c \in Calls
             /\ \/ c.call = "delete" /\ c.urn \in scope /\ c.urn \notin prov
                \/ c.urn \in prov /\ c.call = "raise"
                \/ c.urn \in prov \ known /\ c.call = "create" /\ c.exp = told(c.urn)
                \/ c.urn \in (prov \ bad) \cap known /\ c.call = "update" /\ c.exp = told(c.urn)
  <2>1. CASE \E s \in scope : s \notin prov /\ c = Drop(s)
    BY <1>3, <2>1, CallFields DEF Expirations
  <2>2. CASE \E s \in prov \ known : c = StatusCreate(list, s)
    BY <1>3, <1>4, <1>6, <2>2, StatusCreateFields
  <2>3. CASE \E s \in (prov \ bad) \cap known : c \in StatusRefresh(list, s)
    BY <1>3, <1>4, <1>6, <2>3, StatusCreateFields
  <2> QED BY <1>2, <1>8, <2>1, <2>2, <2>3
<1>9. ASSUME NEW s \in scope, s \notin prov
      PROVE  \E c \in calls : c.urn = s
  <2>1. Drop(s) \in calls
    BY <1>2, <1>9
  <2> QED BY <1>3, <1>9, <2>1, CallFields DEF Expirations
<1>10. ASSUME NEW s \in prov \ known
       PROVE  \E c \in calls : c.urn = s
  BY <1>2, <1>3, <1>4, <1>6, <1>10, StatusCreateFields
<1>11. ASSUME NEW s \in (prov \ bad) \cap known
       PROVE  ch[s] = told(s) \/ \E c \in calls : c.urn = s
  <2>1. StatusRefresh(list, s) \subseteq calls
    BY <1>2, <1>11
  <2> QED BY <1>3, <1>4, <1>6, <1>11, <2>1, StatusCreateFields
<1>12. /\ DOMAIN h.claim \subseteq Mine
       /\ \A s \in DOMAIN h.claim : s \in Targets \/ run.asked = {} \/ s \in run.asked
       /\ \A s \in DOMAIN h.claim : s \notin prov => h.claim[s] = {NoRecord}
       /\ \A s \in DOMAIN h.claim : s \in bad \cap prov => h.claim[s] = Expirations
       /\ \A s \in DOMAIN h.claim : s \in prov \ bad => h.claim[s] = {told(s)}
  <2>1. AnyRecord = Expirations
    BY DEF AnyRecord, Expirations
  <2> QED BY <1>1, <1>3, <2>1 DEF StatusClaim, prov, bad, list, DidSliversFail, Provisioned
<1>13. ASSUME ~h.trouble, NEW s \in DOMAIN h.claim
       PROVE  /\ \A c \in calls : c.urn = s => Obeys(c, h.claim[s], ch)
              /\ ch[s] \in h.claim[s] \/ \E c \in calls : c.urn = s
  <2>1. s \in Mine /\ (s \in known <=> ch[s] # NoRecord) /\ (s \in known => s \in scope)
    BY <1>1, <1>3, <1>12, <1>13
  <2>2. CASE s \notin prov
    BY <1>8, <1>9, <1>12, <2>1, <2>2 DEF Obeys
  <2>3. CASE s \in bad \cap prov
    <3>1. h.claim[s] = Expirations /\ told(s) \in Expirations
      BY <1>4, <1>6, <1>12, <1>13, <2>3
    <3>2. s \in known => ch[s] \in Expirations
      BY <1>7, <2>1 DEF Records
    <3>3. \A c \in calls : c.urn = s => Obeys(c, h.claim[s], ch)
      BY <1>8, <2>1, <2>3, <3>1 DEF Obeys
    <3> QED BY <1>10, <2>3, <3>1, <3>2, <3>3
  <2>4. CASE s \in prov \ bad
    <3>1. h.claim[s] = {told(s)}
      BY <1>12, <1>13, <2>4
    <3>2. \A c \in calls : c.urn = s => Obeys(c, h.claim[s], ch)
      BY <1>8, <2>1, <2>4, <3>1 DEF Obeys
    <3> QED BY <1>10, <1>11, <2>4, <3>1, <3>2
  <2> QED BY <2>2, <2>3, <2>4
<1>14. \A c \in calls : c \in Calls /\ (c.call = "delete" => o.at[c.urn].alloc # "geni_provisioned")
  BY <1>1, <1>3, <1>4, <1>5, <1>8
<1>15. Truthful(o, h)
  <2>1. h.work # <<>>
    BY DEF StatusWork
  <2>2. ASSUME NEW s \in DOMAIN h.claim
        PROVE  s \in prov <=> o.at[s].alloc = "geni_provisioned"
    <3>1. CASE s \in Targets
      BY <1>4, <3>1
    <3>2. CASE s \notin Targets
      <4>1. s \in Mine \ Targets /\ s \notin prov
        BY <1>4, <1>12, <2>2, <3>2
      <4>2. run.asked = {} \/ s \in run.asked
        BY <1>12, <2>2, <3>2
      <4>3. s \notin Present(am, run.at)
        BY <4>1, <4>2 DEF Targets
      <4>4. o.at[s] = am[s]
        BY <1>3, <4>1 DEF Lists
      <4> QED BY <4>1, <4>3, <4>4 DEF Present, Mine
    <3> QED BY <3>1, <3>2
  <2>3. ASSUME NEW s \in DOMAIN h.claim, s \in prov
        PROVE  NoRecord \notin h.claim[s]
    <3>1. h.claim[s] \subseteq Expirations
      BY <1>4, <1>6, <1>12, <2>3
    <3> QED BY <3>1, ToldIsExpiration
  <2> QED BY <1>12, <2>1, <2>2, <2>3 DEF Truthful
<1> QED BY <1>2, <1>3, <1>12, <1>13, <1>14, <1>15 DEF Sound, calls

LEMMA StatusKeeps == IInv /\ Status => IInv'
<1> SUFFICES ASSUME IInv, Status PROVE IInv'
  OBVIOUS
<1> DEFINE ok(o) == Whole(o.ans, run.asked)
           calls(known, o) == StatusWork(o.ans, known)
           claim(o) == StatusClaim(o.ans)
           trouble(known) == Mislaid(known)
<1>1. PICK known \in Listings, o \in Answers(Changes(am, Targets, am), Unknown) :
        IF Worked(o.ans)
        THEN Handle(o, [Quiet EXCEPT !.ok = ok(o), !.work = calls(known, o), !.claim = claim(o),
                                     !.trouble = trouble(known)])
        ELSE Handle(o, IF MeansNothing(o.ans) THEN Forget(known) ELSE Quiet)
  BY DEF Status, Reads
<1>2. Targets \subseteq Sliver /\ \A s \in Targets : am[s] \in SliverState
  BY DEF Targets, Present, IInv, Typing
<1>3. /\ o.at \in [Sliver -> SliverState]
      /\ Lists(o, Targets, am) \/ Denies(o, Unknown) \/ Fails(o)
  BY <1>2, AnswersTell DEF IInv, Typing
<1>4. CASE Lists(o, Targets, am)
  <2>1. PICK h : /\ Handle(o, h)
                 /\ h.work = calls(known, o) /\ h.claim = claim(o) /\ h.trouble = trouble(known)
    <3> HIDE DEF ok, calls, claim, trouble
    <3>1. Handle(o, [Quiet EXCEPT !.ok = ok(o), !.work = calls(known, o), !.claim = claim(o),
                                  !.trouble = trouble(known)])
      BY <1>1, <1>4 DEF Lists
    <3>2. Tells([Quiet EXCEPT !.ok = ok(o), !.work = calls(known, o), !.claim = claim(o),
                              !.trouble = trouble(known)], calls(known, o), claim(o), trouble(known))
      BY RecordFields, Zenon
    <3> QED BY <3>1, <3>2 DEF Tells
  <2>2. Sound(o, h)
    BY <1>3, <1>4, <2>1, StatusIsSound
  <2> QED BY <2>1, <2>2, HandleKeeps
<1>5. CASE ~Worked(o.ans) /\ MeansNothing(o.ans)
  <2>1. Handle(o, Forget(known)) /\ run.asked = {}
    BY <1>1, <1>5 DEF MeansNothing
  <2>2. o.at = am /\ Present(am, run.at) = {}
    BY <1>3, <1>5, <2>1 DEF Lists, Denies, Fails, MeansNothing, Unknown
  <2>3. Sound(o, Forget(known))
    BY <1>3, <2>2, NothingProvisioned, ForgetFields, ForgetIsSound
  <2> QED BY <2>1, <2>3, HandleKeeps
<1>6. CASE ~Worked(o.ans) /\ ~MeansNothing(o.ans)
  BY <1>1, <1>3, <1>6, QuietFields, NothingKeeps DEF ComesToNothing
<1> QED BY <1>3, <1>4, <1>5, <1>6 DEF Denies, Fails

-----------------------------------------------------------------------------
(* The theorems. *)

LEMMA InitHolds == Init => IInv
<1> SUFFICES ASSUME Init PROVE IInv
  OBVIOUS
<1>1. /\ am \in [Sliver -> SliverState] /\ ch \in [Sliver -> Records] /\ work = {}
  BY DEF Init, SliverState, States, Nothing, Expirations, Records
<1>2. Shaped(run) /\ run.claim = <<>>
  BY DEF Init, None, Shaped
<1> QED BY <1>1, <1>2 DEF IInv, Typing, Underway, KeepsRunning, ClaimsAreTrue

\* A step that changes nothing.
LEMMA StutterKeeps == IInv /\ UNCHANGED vars => IInv'
BY DEF vars, IInv, Typing, Underway, KeepsRunning, ClaimsAreTrue

LEMMA StepKeeps == IInv /\ [Next]_vars => IInv'
<1> SUFFICES ASSUME IInv, [Next]_vars PROVE IInv'
  OBVIOUS
<1>1. CASE Start \/ Ask \/ Skip \/ Retry \/ Resend \/ WrongPassPhrase \/ Finish \/ Expire
  BY <1>1, StepsKeep
<1>2. CASE Tell \/ TellRaises
  BY <1>2, TellKeeps
<1>3. CASE \/ ListResources \/ Describe \/ Allocate \/ PerformOperationalAction \/ Shutdown
           \/ Update \/ Cancel \/ CreateImage \/ ListImages \/ DeleteImage
           \/ PrintSliverExpirations
  BY <1>3, UntoldKeeps
<1>4. CASE CreateSliver \/ RenewSliver \/ SliverStatus \/ DeleteSliver
  BY <1>4, CreateSliverKeeps, RenewSliverKeeps, SliverStatusKeeps, DeleteSliverKeeps
<1>5. CASE Provision \/ Renew \/ Status \/ Delete
  BY <1>5, ProvisionKeeps, RenewKeeps, StatusKeeps, DeleteKeeps
<1>6. CASE UNCHANGED vars
  BY <1>6, StutterKeeps
<1> QED BY <1>1, <1>2, <1>3, <1>4, <1>5, <1>6 DEF Next, Omni

\* Whatever is still to be told leads to the record that the last answer claims,
\* and takes no running sliver off it.
THEOREM Inductive == Spec => []IInv
BY InitHolds, StepKeeps, PTL DEF Spec

\* Once the clearinghouse is told, and every call to it worked, its record is what
\* the answer of the aggregate says, after any command that records slivers
\* (_record_slivers and the sliver info calls of the handlers).
THEOREM AnswersAreRecorded == Spec => []RecordFollowsAnswer
<1>1. IInv => RecordFollowsAnswer
  BY DEF IInv, Underway, RecordFollowsAnswer, Ready
<1> QED BY <1>1, Inductive, PTL

\* Once the clearinghouse is told, and every call to it worked, it has a record of
\* just those slivers, of the ones the command was about, that ran when the
\* aggregate answered (the loops of status, the roll calls of the other handlers).
THEOREM RecordTellsTruth == Spec => []RecordIsTrue
<1>1. IInv => RecordIsTrue
  <2> SUFFICES ASSUME IInv, Ready /\ ~run.trouble, run.op \notin Unchecked, NEW s \in DOMAIN run.claim
               PROVE  ch[s] # NoRecord <=> s \in run.held
    BY DEF RecordIsTrue, Unchecked
  <2>1. ch[s] \in run.claim[s]
    BY DEF IInv, Underway, Ready
  <2> QED BY <2>1 DEF IInv, ClaimsAreTrue
<1> QED BY <1>1, Inductive, PTL

\* Only telling the clearinghouse changes its record, by the call that is made.
LEMMA OnlyTellingForgets ==
  IInv /\ [Next]_vars => [\A s \in Sliver : ch[s] # NoRecord /\ ch'[s] = NoRecord => s \notin run.held]_vars
<1> SUFFICES ASSUME IInv, [Next]_vars, NEW s \in Sliver, ch[s] # NoRecord, ch'[s] = NoRecord
             PROVE  s \notin run.held
  OBVIOUS
<1>1. Tell
  <2>1. ch' # ch
    OBVIOUS
  <2>2. CASE Start \/ Ask \/ Skip \/ Retry \/ Resend \/ WrongPassPhrase \/ Finish \/ TellRaises \/ Expire
             \/ UNCHANGED vars
    BY <2>1, <2>2 DEF Start, Ask, Skip, Retry, Resend, WrongPassPhrase, Abort, Finish, TellRaises, Expire, vars
  <2>3. (\A o, h : ~Handle(o, h)) /\ (\A at : ~Abort(at))
    BY <2>1 DEF Handle, Abort
  <2>4. CASE ListResources \/ Describe \/ Allocate \/ PerformOperationalAction \/ Shutdown \/ Update
             \/ Cancel \/ CreateImage \/ ListImages
    BY <2>3, <2>4 DEF ListResources, Describe, Allocate, PerformOperationalAction, Shutdown, Update,
                      Cancel, CreateImage, ListImages, Untold
  <2>5. CASE DeleteImage \/ PrintSliverExpirations
    BY <2>3, <2>5 DEF DeleteImage, PrintSliverExpirations
  <2>6. CASE CreateSliver \/ RenewSliver
    BY <2>3, <2>6 DEF CreateSliver, RenewSliver
  <2>7. CASE SliverStatus \/ DeleteSliver
    BY <2>3, <2>7 DEF SliverStatus, DeleteSliver
  <2>8. CASE Provision \/ Renew
    BY <2>3, <2>8 DEF Provision, Renew
  <2>9. CASE Status \/ Delete
    BY <2>3, <2>9 DEF Status, Delete
  <2> QED BY <2>2, <2>4, <2>5, <2>6, <2>7, <2>8, <2>9 DEF Next, Omni
<1>2. PICK w \in work : w[2].call # "raise" /\ ch' = Recording(w[2])
  BY <1>1 DEF Tell, Due
<1>3. w[2] \in Calls /\ ch \in [Sliver -> Records]
  BY <1>2 DEF IInv, Typing
<1>4. w[2].call = "delete" /\ w[2].urn = s
  BY <1>2, <1>3, ToldIsExpiration DEF Recording, Calls
<1> QED BY <1>2, <1>4 DEF IInv, KeepsRunning

\* A record is deleted only for a sliver that was not running when the aggregate
\* last answered, at that aggregate or at another.
THEOREM RunningStaysOnRecord == Spec => NothingForgotten
BY Inductive, OnlyTellingForgets, PTL DEF Spec, NothingForgotten
=============================================================================
