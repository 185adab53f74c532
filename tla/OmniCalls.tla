----------------------------- MODULE OmniCalls -----------------------------
(***************************************************************************)
(* How Omni runs a command of the AM API on the slivers of one slice       *)
(* (amhandler.py): it goes through its aggregates one by one, calls one,   *)
(* with retries (util/dossl.py), reads the answer, and then makes the      *)
(* calls to the clearinghouse that the answer asks for, each of which may  *)
(* fail (frameworks/framework_chapi.py).                                   *)
(***************************************************************************)
EXTENDS OmniAnswers

CONSTANTS
  Invocation,     \* what the user may ask for: see AllInvocations
  MaxBusyRetries,
  NoAM

AllOptions ==
  [api_version : 1..3, devmode : BOOLEAN, noExtraCHCalls : BOOLEAN,
   raiseErrorOnV2AMAPIError : BOOLEAN]

\* A command, the options, the slivers named by -u, the aggregates.
AllInvocations ==
  [op : STRING, opts : AllOptions, asked : SUBSET Sliver, clients : SUBSET AM \ {{}}]

ASSUME CallsAssumption ==
  /\ Invocation \subseteq AllInvocations
  /\ MaxBusyRetries \in Nat
  /\ NoAM \notin AM

VARIABLES
  am,    \* sliver -> its state at its aggregate
  ch,    \* sliver -> its expiration on record at the clearinghouse, or NoRecord
  run,   \* the command that runs
  work   \* its outstanding calls to the clearinghouse, each with its round

vars == <<am, ch, run, work>>

NoRecord == -1

NoOptions ==
  [api_version |-> 2, devmode |-> FALSE, noExtraCHCalls |-> FALSE, raiseErrorOnV2AMAPIError |-> FALSE]

None == [op |-> "none", opts |-> NoOptions, asked |-> {}, structs |-> FALSE,
         single |-> FALSE, todo |-> {}, at |-> NoAM, try |-> 0, pause |-> FALSE, ok |-> {},
         held |-> {}, claim |-> <<>>, trouble |-> FALSE]

Init ==
  /\ am = [s \in Sliver |-> Nothing]
  /\ ch = [s \in Sliver |-> NoRecord]
  /\ run = None
  /\ work = {}

-----------------------------------------------------------------------------
(* The start and the end of a command. *)

V2Only == {"CreateSliver", "RenewSliver", "SliverStatus", "DeleteSliver"}
V3Only == {"Describe", "Allocate", "Provision", "Renew", "Status", "Delete", "Update", "Cancel"}

\* The version checks the handlers open with.
InVersion(op, o) ==
  \/ o.devmode
  \/ op \in V2Only /\ o.api_version < 3
  \/ op \in V3Only /\ o.api_version >= 3
  \/ op = "PerformOperationalAction" /\ o.api_version >= 2
  \/ op \notin V2Only \cup V3Only \cup {"PerformOperationalAction"}

\* The commands for one sliver or one aggregate.
Addressed(op, asked, clients) ==
  /\ op = "CreateImage" => Cardinality(asked) = 1
  /\ op \in {"CreateImage", "CreateSliver"} => Cardinality(clients) = 1

\* A command that is refused here changes nothing.
Start ==
  /\ run = None /\ work = {}
  /\ \E i \in Invocation :
       /\ InVersion(i.op, i.opts)
       /\ Addressed(i.op, i.asked, i.clients)
       /\ run' = [None EXCEPT !.op = i.op, !.opts = i.opts, !.asked = i.asked, !.todo = i.clients,
                              !.single = Cardinality(i.clients) = 1]
  /\ UNCHANGED <<am, ch, work>>

Ready == run.op # "none" /\ run.at = NoAM /\ work = {}

Finish ==
  /\ Ready /\ run.todo = {}
  /\ run' = None
  /\ UNCHANGED <<am, ch, work>>

\* An exception that no handler catches: the other aggregates are not asked.
Abort(at) ==
  /\ am' = at
  /\ run' = None
  /\ work' = {}
  /\ UNCHANGED ch

-----------------------------------------------------------------------------
(* Calling an aggregate. *)

Ask ==
  /\ Ready
  /\ \E a \in run.todo :
       run' = [run EXCEPT !.at = a, !.todo = @ \ {a}, !.try = 1,
                          !.held = {}, !.claim = <<>>, !.trouble = FALSE]
  /\ UNCHANGED <<am, ch, work>>

\* The listing of expirations goes on after any failure of a call.
Tolerant == run.op = "PrintSliverExpirations"

\* BadClientException: unreachable, or of another API version.  The aggregate
\* is skipped; when it was the only one the command fails.
Skip ==
  /\ Ready
  /\ \E a \in run.todo :
       run' = IF run.single /\ ~Tolerant THEN None
              ELSE [run EXCEPT !.todo = @ \ {a}, !.held = {}, !.claim = <<>>, !.trouble = FALSE]
  /\ UNCHANGED <<am, ch, work>>

MayRetry == run.try <= MaxBusyRetries

\* _do_ssl sends a call again after a busy reply, a fault that says to try again
\* later, or a wrong pass phrase, with one counter for all of them.  In none of
\* these cases has the aggregate acted on the call; after a timeout, where it may
\* have, the call is not repeated.
Retry ==
  /\ run.at # NoAM /\ ~run.pause
  /\ MayRetry
  /\ run' = [run EXCEPT !.pause = TRUE]
  /\ UNCHANGED <<am, ch, work>>

\* Fault: the attempts are not counted.
Resend_uncounted ==
  /\ run.at # NoAM /\ run.pause
  /\ run' = [run EXCEPT !.pause = FALSE]
  /\ UNCHANGED <<am, ch, work>>

Resend ==
  /\ run.at # NoAM /\ run.pause
  /\ run' = [run EXCEPT !.pause = FALSE, !.try = @ + 1]
  /\ UNCHANGED <<am, ch, work>>

\* The pass phrase was wrong every time.
WrongPassPhrase ==
  /\ run.at # NoAM /\ ~run.pause
  /\ ~MayRetry
  /\ IF Tolerant THEN run' = [run EXCEPT !.at = NoAM, !.try = 0] /\ UNCHANGED <<am, ch, work>>
     ELSE Abort(am)

\* Answers to a call with these effects.  A busy answer to the last attempt is
\* handed on.
Answers(effects, nothingThere) ==
  Outcomes(am, effects, nothingThere)
  \cup (IF MayRetry THEN {} ELSE {[at |-> am, ans |-> Answer(Busy, <<>>)]})

\* _retrieve_value raises for an error from an AM API v2 aggregate, on request.
Raises(ans) ==
  /\ run.opts.raiseErrorOnV2AMAPIError /\ run.opts.api_version = 2
  /\ ans.code \notin {Success, Silent}

-----------------------------------------------------------------------------
(* After an answer: what is counted, what the clearinghouse is told, and    *)
(* what its record should say then (claim, for the properties): the allowed *)
(* records of each sliver the answer tells of.                              *)

Quiet == [ok |-> FALSE, work |-> <<>>, claim |-> <<>>, trouble |-> FALSE,
          structs |-> run.structs, todo |-> run.todo]

Handle(o, h) ==
  LET told == ~run.opts.noExtraCHCalls IN
    /\ am' = o.at
    /\ work' = IF told THEN UNION {{i} \X h.work[i] : i \in DOMAIN h.work} ELSE {}
    /\ run' = [run EXCEPT !.at = NoAM, !.try = 0, !.todo = h.todo,
                          !.structs = h.structs,
                          !.ok = IF h.ok THEN @ \cup {run.at} ELSE @,
                          !.held = IF told /\ h.work # <<>> THEN {s \in Sliver : o.at[s].alloc = "geni_provisioned"} ELSE {},
                          !.claim = IF told THEN h.claim ELSE <<>>,
                          !.trouble = told /\ h.trouble]
    /\ UNCHANGED ch

Calling(op) == run.op = op /\ run.at # NoAM /\ ~run.pause

Mine == {s \in Sliver : Home[s] = run.at}
Recorded == {s \in Mine : ch[s] # NoRecord}
Targets == IF run.asked = {} THEN Present(am, run.at) ELSE run.asked \cap Present(am, run.at)

\* Nothing there, or not all that was asked for.
Unknown == Present(am, run.at) = {} \/ ~ run.asked \subseteq Present(am, run.at)

\* Listing the records fails by listing none.
Listings == {Recorded, {}}
Mislaid(known) == known # Recorded

Create(s, e) == [call |-> "create", urn |-> s, exp |-> e]
Extend(s, e) == [call |-> "update", urn |-> s, exp |-> e]
Drop(s) == [call |-> "delete", urn |-> s, exp |-> NoTime]
Raise(s) == [call |-> "raise", urn |-> s, exp |-> NoTime]

Told(e, default) == IF e = NoTime THEN default ELSE e

AnyRecord == {NoTime} \cup Time

\* Fault: the records of the slice at other aggregates go too.
DropAll_everywhere(known) ==
  <<{Drop(s) : s \in known \cup IF known = {} THEN {} ELSE {s \in Sliver : ch[s] # NoRecord}}>>

\* The aggregate has nothing of the slice, so the clearinghouse should list
\* nothing there.
DropAll(known) == <<{Drop(s) : s \in known}>>

NothingLeft == [s \in Mine |-> {NoRecord}]

\* An answer of an aggregate without slivers of the slice.
Forget(known) ==
  [Quiet EXCEPT !.work = DropAll(known), !.claim = NothingLeft, !.trouble = Mislaid(known)]

-----------------------------------------------------------------------------
(* The clearinghouse. *)

\* What a call does to the record.  A sliver that is on record already is not
\* recorded again, one that is not is recorded by the new expiration, and
\* deleting what is not on record does nothing.
Recording(c) ==
  CASE c.call = "create" /\ ch[c.urn] # NoRecord -> ch
    [] c.call = "delete" -> [ch EXCEPT ![c.urn] = NoRecord]
    [] OTHER -> [ch EXCEPT ![c.urn] = c.exp]

\* The calls of a round are made before those of the next, in any order.
Due == {w \in work : \A v \in work : w[1] <= v[1]}

\* A call that fails is logged, and the next one is made.
Tell ==
  /\ \E w \in Due :
       LET c == w[2] IN
         /\ c.call # "raise"
         /\ work' = work \ {w}
         /\ \/ ch' = Recording(c) /\ UNCHANGED run
            \/ UNCHANGED ch /\ run' = [run EXCEPT !.trouble = TRUE]
  /\ UNCHANGED am

\* An exception ends the recording for this aggregate.
TellRaises ==
  /\ \E w \in Due : w[2].call = "raise"
  /\ work' = {}
  /\ run' = [run EXCEPT !.trouble = TRUE]
  /\ UNCHANGED <<am, ch>>
=============================================================================
