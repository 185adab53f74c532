# A formal model of geni-tools

geni-tools is the reference software of the GENI testbed: a reference
aggregate manager and clearinghouse (`gcf`), a command line client for all
GENI servers (`omni`), and a client that builds layer-2 circuits across many
aggregates (`stitcher`). This directory holds TLA+ modules for its core logic,
the TLC configurations that check them and TLAPS proofs about them.

All paths below are relative to the repository; `am3.py` and the like are in
`src/gcf/geni/am/`.

## The system

| Part | State it keeps | Operations | Interacts with |
|---|---|---|---|
| Aggregate manager v3 (`am3.py`, `aggregate.py`, `resource.py`, `fakevm.py`) | slices, slivers with two times and two states, resources with an `available` flag, lists of resources per slice and per user | the nine calls of the AM API v3 and the expiry each of them starts with | the method context that resolves URNs; slice credentials from a clearinghouse; the clock |
| Aggregate managers v2 and v1 (`am2.py`, `geni/am1.py`) | slices with one expiration, resources with a status; in v1 a list of what is on offer | the AM API v2, v1 | as v3, without context-side URN resolution |
| Authorization (`geni/auth/`) | none between calls | quotas from current and requested slivers; rules over certificates and quotas | reads the manager's slivers before the call |
| Trust (`geni/util/cred_util.py`, `speaksfor_util.py`, `sfa/trust/`) | none | make and verify credentials, delegation chains, speaks-for | called by every server |
| Clearinghouse (`geni/ch.py`, ProtoGENI interface `pgch.py`) | slice credentials by URN | CreateSlice, RenewSlice, DeleteSlice, ListMySlices, ... | served by a thread per call; credentials go to users |
| Omni, aggregates (`omnilib/amhandler.py`, `util/dossl.py`) | options, a GetVersion cache file | one handler per call, over a list of aggregates; retries; records of slivers at the clearinghouse | aggregates and clearinghouse over XML-RPC |
| Omni, slices (`omnilib/chhandler.py`, `frameworks/`) | a slice credential file, a user credential | commands on slices, members, projects, keys | clearinghouses, each through a framework |
| Stitcher (`omnilib/stitchhandler.py`, `omnilib/stitch/`) | aggregates, hops, VLAN ranges, dependencies | take the path service's workflow, allocate in dependency order, negotiate VLANs, retry, clean up | omni's calls; the stitching computation service (SCS) |

What is hard in each, and what makes it correct:

* *Aggregate managers.* State changes hang on the clock although nothing runs
  between calls; refused calls may already have changed something; shutdown,
  expiry, renewal and deletion cross; lists of resources are kept twice. No VM
  is in two leases; every VM comes back; no lease outlives its slice; a lease
  ends by deletion or expiry only; a shutdown freezes the slivers there are.
* *Authorization.* Quotas are computed from a state that the call then changes
  by expiry and by more than what was asked. What the manager holds must be
  within the quota at every instant.
* *Trust.* A chain of delegations is compared link by link; several credentials
  may come with a call; a tool may speak for a user. Nothing may be done that
  no signature entitles to, and what this code itself issues must be honoured.
* *Clearinghouse.* Threads share the slice table; getting a credential may
  renew a slice. A slice has one identity for its life, and never lives too
  long.
* *Omni.* A call may be busy, fail, or be carried out without an answer; the
  record at the clearinghouse is mended from answers about some slivers; caches
  are shared with other commands; a command is a series of calls. What is on
  record ran when the aggregate answered, no record of a running sliver is
  deleted, what is reported and saved is what the servers had.
* *Stitcher.* Aggregates depend on each other and on VLAN tags that others
  picked; failures are retried at the aggregate, upstream, or by the SCS,
  against a deadline. An aggregate is asked only when all it depends on are
  done; the loop ends; adjacent hops agree on their VLAN; an error teaches the
  next request something.

The hazards are listed with their lines in `PROJECT.json`.

## Modules

| Module | What it models |
|---|---|
| `GcfAggregate` | `aggregate.py` and `FakeVM.deprovision`: the lists of resources by slice and user. Constant-level operators on a dictionary of multisets |
| `GcfAM3` | the v3 aggregate manager with its clients, clock and clearinghouse |
| `LeasedPool`, `GcfAM3Pool` | the abstract specification, items lent to owners until a due time; `GcfAM3` implements it |
| `AbacRules`, `GovernedAM3` | the rule sets, measurements and queries of the ABAC authorizer; `GcfAM3` with each call decided by them first |
| `GcfAM3_proofs` | theorems about `GcfAM3`, `GcfAM3Pool` and `GovernedAM3` |
| `GcfAM2`, `GcfAM1` | the v2 and the v1 aggregate manager |
| `GcfAM2_proofs` | theorems about both |
| `Credentials`, `TrustedCalls`, `TrustedCalls_proofs` | certificates, delegated credentials, rights, speaks-for statements; the way of a call through context, authorizer and manager; theorems about it |
| `OmniAnswers`, `OmniCalls`, `OmniSlivers`, `OmniSlivers_proofs` | what Omni reads out of an answer; a command's way over its aggregates with retries and calls to the clearinghouse; each command of the AM API; theorems about them |
| `OmniVersions`, `OmniVersions_proofs` | which version of the AM API a command speaks at which URL, with the shared GetVersion cache; theorems about it |
| `SliceRegistry` | the abstract specification of a clearinghouse |
| `Clearinghouse` | `ch.py` and `pgch.py`, thread by thread |
| `ChapiFramework`, `SfaFramework` | the authorities behind the frameworks `chapi` and `sfa` (external), and the calls these frameworks make |
| `OmniSlices`, `OmniSlices_proofs` | Omni's commands on slices through the frameworks, against these servers; theorems about both |
| `StitchWorkflow`, `StitchWorkflow_proofs` | how the stitcher derives dependencies between aggregates (`stitch/workflow.py`); theorems about it |
| `StitchAnswers` | how the stitcher reads errors and manifests, by the software of the aggregate |
| `StitchCircuit` | the stitcher's data: a workflow, aggregates, hops; readiness and deletion |
| `StitchVlans` | copying VLAN tags from other aggregates, and what follows when one is unavailable |
| `StitchAvail` | asking an aggregate for free tags, for a new workflow and before a reservation |
| `StitchSchedule` | the abstract specification of the stitcher: reservations in dependency order, withdrawn and made again until all fit |
| `Stitcher`, `Stitcher_proofs` | the stitcher at work: path service, launch loop, allocation, polling, manifests, clean-up; extends `StitchAnswers` to `StitchAvail`; implements `StitchSchedule`; theorems about it |
| `MC...` | instances for TLC: symmetry, views, circuits, rules, papers, commands |

Composition: `GovernedAM3` runs the authorizer in front of the whole of
`GcfAM3`; `OmniSlices` runs Omni's commands against `Clearinghouse`, whose table
is refined to `SliceRegistry`; `TrustedCalls` runs calls over the papers of
`Credentials`; `Stitcher` is refined to `StitchSchedule`, as `GcfAM3` is to
`LeasedPool`; `MCGcfAM2` starts one of the two older managers, as `gcf-am.py`
does.

Definitions whose comment begins with "Fault:" are plausible errors. No action
uses them; they show that a property notices when they take the place of the
definition they are named after.

### `GcfAM3` and `GovernedAM3`

| Variable | Code |
|---|---|
| `now` | `datetime.utcnow()` |
| `sliceExp` | expiration of the slice at its clearinghouse; a call may carry a credential that expires at any time from `now` to this one |
| `slices` | keys of `_slices` and `Slice._shutdown` |
| `slivers` | the `Sliver` objects by URN: slice, resource, `_expiration`, `_start_time`, `_end_time`, `_allocation_state`, `_operational_state` |
| `available` | resources whose `available` is True |
| `containers` | `Aggregate.containers`, a multiset for each name, because `allocate` appends and `deallocate` removes one occurrence |
| `reply` | the GENI code of the last call |
| `policy` | `GovernedAM3`: the rule set of each authority |

Each call is one action. The server (`SecureXMLRPCServer`) handles one call at a
time, so calls do not interleave; what interleaves is calls, the clock (`Tick`)
and renewals of the slice (`RenewSlice`). A call of the code is
`AMMethodContext.__enter__`, which resolves the URNs of the request, then the
delegate, which first runs `expire_slivers`, then resolves them again.
`UrnsRefused` is the first failure, `UrnsExpired` the second; the operators
`Kept...` are the tables as `expire_slivers` leaves them, and every delegate
works on these. Errors that depend on the wording of a request only are the
action `Rejected`, but for a malformed time of an Allocate, which is noticed
when the resources are marked already (`AllocateBroken`). With an authorizer the
context asks the resource manager what would be allocated if the call were
granted and evaluates the rules; a call that they refuse ends there, and not
even `expire_slivers` runs.

Abstractions: an RSpec is the number of its nodes; a request's time is 0 when
absent; several readings of the clock in one call are one instant; the order of
slivers in a list is left open where it could matter (an interrupted removal
takes any part of the list); a list of URNs names its slices first; a URN is
not used again while its uuid lives. Rules are sets of clauses with conditions
on measurements; names in them are model values.

### `GcfAM2` and `GcfAM1`

In version 2 a slice has one sliver, all its VMs under one expiration, and the
manager never acts on an expiration: the clock only bounds what is granted. The
VMs of a slice are written down twice, in the `Slice` object (`slices`) and in
the container with the slice's URN (`containers`), and calls read one or the
other; `status` is the mark on each VM that decides whether a slice is shut
down. In version 1 a request names the resources it wants; `pool` lists those
on offer, `slivers` holds the others, and `down` the slices that are shut down.

### `Credentials` and `TrustedCalls`

A credential is the sequence of its delegations; each link has an owner, a
target, rights, an expiration and a signer. `creds` are those in circulation,
`ours` those of them made by this code alone, `statements` the speaks-for
statements, `served` the last call that was let through. Nobody signs for
another; other tools put into a paper what they like but sign for their users
only. What the verifier believes is translated check by check; what a call is
entitled to is defined apart from it, from all that was ever signed.

### `OmniCalls` and `OmniSlivers`

`am` is what runs at the aggregates and until when, `ch` the records of slivers
at the clearinghouse, `run` the command: options, aggregates still to be
called, and `claim`, what the record should be once the clearinghouse is told.
`work` are the calls to the clearinghouse that are still to be made, each with
its round: a round is over before the next one starts, and within one the calls
go out in any order, as a Python dictionary gives them. An answer may be about some slivers,
leave expirations out, or be lost after the call was carried out.

### `OmniVersions`

`am` is what runs at each URL, `file` the cache file, `mem` a command's copy,
`path` the URLs tried for one aggregate. Each step of the choice is an action,
so that other commands write the file and aggregates are redeployed in between.

### `Clearinghouse`, `ChapiFramework`, `SfaFramework`, `OmniSlices`

`slices` is the slice table, `call` the call of each user with the place its
thread has reached, `answer` what came of it. A thread is split where it uses
the table again; without threads a call runs to its end. The authorities behind
`chapi` and `sfa` are not part of the repository: each call there is one step
of the same table, where the name of an expired slice is free again and only
members get a credential.

A command is a plan, a sequence of calls, each with a purpose (`for`) that says
what follows from its answer: `plan` holds the calls still to be made. `file` is
the slice credential file (`--slicecredfile`), `usercred` says whose framework
has got its user credential (asked for once in a command), `told` is the
expiration `renewslice` reports, and `had` remembers what the server held
meanwhile, for the properties.

### `StitchWorkflow`

`asked` records which aggregates' hops depend on each other so far;
`dependsOn` and `isDependencyFor` are the two directions of the code. The
recursion of `_add_dependency` is unfolded into steps: `todo` holds the calls
still to be made for `agg`. The workflow comes from outside, so hops arrive in
any order (`HopDependsOn`).

### `Stitcher`

The stitcher has one thread. `pc` is where it is between two calls to a server,
and each action runs from one such place to the next:

| `pc` | Place in the code |
|---|---|
| `scs`, `planned` | `mainStitchingLoop`, before the path service is asked and in the pause after it |
| `avail` | `updateAvailRanges` |
| `round`, `next`, `pause` | `Launcher.launch`: the `while`, the `for`, the wait before a new round |
| `redo`, `request`, `ask` | `Aggregate.allocate` after copying tags: delete the old reservation, ask for free tags, prepare the request, `doReservation` |
| `poll` | `handleDcnAM` |
| `manifest` | `allocate`, reading what the aggregate gave |
| `unavail` | `handleVlanUnavailable` |
| `circuit`, `failing` | the handlers of `StitchingCircuitFailedError` and `StitchingError` in `mainStitchingLoop` |
| `done`, `failed` | the end |

`workflow` is the last answer of the path service; `todo` the rest of the list
of ready aggregates, `cur` the one being allocated, `bad` the hop an error
named. `completed`, `inProcess`, `manifest` are the aggregates whose flag or
manifest is set, `picks` is `localPickNewVlanTries`, `tries` `allocateTries`.
For each hop `sug` and `range` are the requested tag and range, `man` and
`rman` those of the manifest, `unavail` is `vlans_unavailable`; `excluded` are
the hops the path service is told to avoid and `checked` the aggregates that
were asked for their free tags. `held`, `clearing` are the state of the
servers: who holds a reservation of the slice, who may be deleting one still.
`allocate` asks a ProtoGENI aggregate that had a deletion (`deletedResAt`) for
its status, and then makes the request whatever it says (`objects.py:623-762`),
so this is no state and no step of the stitcher; an aggregate that is still
deleting may refuse the request as busy or for the reservation that it has.
`Kind` is the software of an aggregate, which decides how its errors and
manifests are read.

For `StitchSchedule` the plan is `workflow`, the tags are those of the manifests
(`man`), complete are the aggregates in `completed`, and the outcome is `pc` at
its two ends. What is tried and learnt in between is not in it.

Everything the servers and the clock may do is a nondeterministic choice, and
`Faults` names the kinds that occur in a run: the deadline passes, the path
service fails, a tag is unavailable or may be, an error is fatal or not, an
answer is malformed, unreadable or lost after the reservation was made, a
manifest has another tag than the requested one or none, polling or a deletion
fails, tags are taken by others.

Abstractions: one link with one path and at most two hops of it at an
aggregate; a hop imports its tag from a hop of another aggregate; tags are
a set; an aggregate asked for its free tags lacks one tag of one hop or all; an
error says one thing. Where a list comes from a Python set, any order. When the
retry over the chain of imports runs out of tags, any part of the hops it
visits may have been marked by then.

## What is checked

| Run | Instance | Shows |
|---|---|---|
| `am3_share` | 2 slices, 2 VMs, clock 0..1 | `LeaseExclusive`, `SlicesTracked`, `OnlyDeleteRemoves`, `ShutdownFreezes`, `LostOnlyByRefusedAllocate`; `ImplementsPool`: the manager implements the abstract pool |
| `am3_quotas` | 2 slices, 2 VMs, clock 0..2, one VM for a slice and one at a time for a user | `QuotasKept` at every instant; `NoSliverOutlivesSlice`, `LeaseBounded`; `CallsExpire`; `TypeOK`: no list is ever asked for what it does not hold |
| `am3_reclaim` | 1 VM, clock 0..2, credentials until 1, rules that refuse, no symmetry and no view | `Reclaimed`: every sliver goes in the end |
| `am2_pool` | v2 or v1; 2 slices, 2 users, 3 VMs, clock 0..2 | v2: the two records of a slice's VMs agree (`CatalogIsSlice`), no VM is lost (`Partition`), `ShutdownHolds`; v1: `OneOwner`, `LostOnlyByDoubleRequest` |
| `trusted_calls` | 2 authorities, an authority below one of them, 2 users, 3 papers | `OnlyEntitled`: what is let through, signatures entitle to; `OursAreHonoured`: what this code issued suffices until it or a certificate expires; `SpokenForAlike`: a tool may what its user may |
| `omni_slivers` | 2 aggregates, 2 slivers, every command | `RecordFollowsAnswer`, `RecordIsTrue`, `NothingForgotten`, `CommandsEnd` |
| `omni_versions` | 3 URLs, 8 kinds of server, 2 commands at once | `SpokeRecently`: a call is made in a version the URL spoke no longer ago than the cache remembers; `SwitchNeverLoses` |
| `omni_slices` | 2 users, 3 commands, 1 lost answer, 6 servers | `TypeOK`: a slice's gid is its own and its life bounded, with threads too; `KeepsPromises`: without threads the table implements `SliceRegistry`; `ReportsWhatWas`, `SavedIsCurrent` |
| `stitch_workflow` | 4 aggregates, any workflow | `NoCycle`, `LoopIsReal`, `DependenciesKept` |
| `stitch_circuit` | ExoGENI, ProtoGENI and DCN, 3 tags, 4 workflows, every fault | `NeverStalls`, `DependenciesFirst`, `CompleteMeansHeld`, `LearnsFromFailure` |
| `stitch_ends` | ProtoGENI, OESS and GRAM, 2 tags, 2 calls of the path service, every fault | `TagsAgree`: a finished circuit has one tag on each connection; `ImplementsSchedule`: every step is one of `StitchSchedule`; `Terminates` |

One run expects a violation, of a sentence of the repository that the code does
not keep (`PROJECT.json`, "findings"):

| Run | The sentence | What the code does |
|---|---|---|
| `stitch_tags` | "If so, but the inputs are incompatible, then mark this to be deleted." | the comparison is with the last suggestion, which a retry elsewhere changes; a reservation with the old tag may stay, and `TagsAgree` fails when an aggregate between two SFA ones picks the tags |

In `stitch_ends` this does not happen: an OESS aggregate cannot be asked for any
tag, and so never picks one for both sides; in the other three workflows an
aggregate waits for those from which its tags come. The proofs turn this into a
condition on the circuit (`Orderly`).

### Bounds, and why they are enough

*Managers.* Two slices are needed for competition and two VMs for a partial
deletion, a partial provisioning and a refused request for several nodes; three
instants separate start, end and expiry of a window. `MaxTime` stops the clock,
`Horizon` bounds renewal by the clearinghouse, `MaxHold` bounds the repetitions
of a resource in a container list (the code appends without limit),
`RequestTimes` are the times a request may carry. The proofs cover any values.

*Papers.* Three papers give a delegation and a statement about it, or a
delegation of two steps of which one or two come from other tools; a second
authority gives a root that has no say over the slice.

*Omni.* An aggregate with two slivers gives answers about one of two, a second
aggregate gives a command something to go on to; expirations are 0..2. One
retry for busy aggregates of the four of the code reaches the limit. For
versions, two commands are the least that interleave at the cache file and one
change of a server the least that makes it stale. For slices, three commands
let a slice be created, and two others race on it, and one lost answer can be
any. A credential lives for one instant of two a slice may live at most.

*Stitcher.* Three aggregates on a line, the middle one with two hops, are the
smallest circuit in which a retry at one end has an effect on a reservation at
the other. The workflows (`AnyOrder`) are the shapes that dependencies on it
can take: tags from the middle, handed on from one end, from both ends, and a
path past the middle when its hops are to be avoided. Three tags let a tag be
excluded, replaced, and replaced again before the range is empty. `MaxPicks`,
`MaxDcnPicks`, `MaxTries` and `MaxSiteTries` are 2 for the larger numbers of the
code and `MaxScsCalls` is 1 or 2 for `MAX_SCS_CALLS`: the limits are reached in
a few steps, one retry fits below each. Aggregates may name only the used tag
in their manifest (`Narrow`), be slow to delete (`Slow`), have a second URL
(`AltUrl`). Four aggregates suffice for `StitchWorkflow` to have a cycle longer
than the direct dependencies that the code searches; the proof covers any
number.

Symmetry is used on names that no operator orders (slices, VMs, URNs, users,
tags, the aggregates of `StitchWorkflow`), never in a run with a liveness
property. Views leave out `reply`, which no action reads and which the action
properties read in the successor state only, and in `omni_slices` which command
a plan came from, which is used only when the plan is made and, for
`renewslice`, by a property.

Deadlock is checked in the runs of the aggregate managers. Commands, the
stitcher and the construction of a workflow end, so their runs do not check it;
`NeverStalls`, `Terminates` and `CommandsEnd` say where they may end.

### Fairness

`GovernedFairSpec` has weak fairness of `Tick`, time passes, and of
`GetVersion`, somebody calls a method that no rules are asked for: in the code
nothing but a call runs `expire_slivers` ("Ultimately this should be run by a
daemon", `am3.py`), and a call that is refused does not. No other action is
fair; the clearinghouse may stop renewing, clients may keep calling.
`OmniSlivers` has weak fairness of the command's next step, not of giving a
command and not of time. `FairSpec` of `Stitcher` has weak fairness of the next
step: it is one thread that nothing suspends, and a call to a server returns or
fails. Nothing is assumed of how long a server deletes. `OmniSlices` has
fairness of servers and clients, which none of its properties needs.

### Disagreements without a run

Noted while reading; most are visible in the model, which follows the code.

Managers and authorization:

* An Allocate that fails over its times keeps the VMs it had marked
  (`am3.py:475-478`, before a malformed time raises at 482-498 and before the
  refusals at 500 and 528), so a later request is refused as too big although no
  sliver holds them: `LostOnlyByRefusedAllocate` says that they are lost by
  nothing else.
* Allocate does not ask whether the slice is shut down (`am3.py:516-555`), so a
  slice may get slivers after a Shutdown, and they count as shut down with the
  others: `ShutdownFreezes` speaks of the slivers there are.
* Delete "Stop and completely delete the named slivers and/or slice"
  (`am3.py:630`) can stop after a part of them (653).
* `am3.py:892-893`: a shut-down sliver is kept for forensics; `expire_slivers`
  deletes it all the same. 774-775: the branch of Describe for an unknown slice
  cannot be reached, as `am_method_context.py:107-112` fails first.
* `README-scheduling.txt:121-126` on Renew of an allocated sliver: the code
  moves the end time too (`am3.py:885`); 10-11: a start later than the end is
  accepted (`am3.py:500`).
* `am3.py:542` appends all the slice's resources, the old ones again, to the
  container lists; 521 checks that windows of a slice do not overlap when a
  sliver is allocated, not when a window is extended.
* `am2.py:501` and 518-519 speak of "at least one credential" that lasts until
  the requested time; `RenewSliver` demands it of all that verify. It may also
  shorten the lease (817). Nothing ever frees an expired sliver of v2.
* `am1.py:505-507`: a request that names a resource twice fails half way and
  loses it; 601-645: a renewal looks at any credential and at no maximal lease.
* A quota per user or authority counts everybody's slivers
  (`abac_resource_manager.py:137`; `README-authorization.txt:201` says the
  user's). Node hours of a slice can be exceeded by a Renew of slivers with
  different ends (123 against `am3.py:885`). Expired slivers count, and a
  refused call does not sweep them.

Omni:

* Renew dies over its own message when a sliver failed (`amhandler.py:3119`) or
  expirations differ (3139), after the aggregate has renewed; 3150 keeps the
  slivers of an answer in the variable of those asked for. The fallback of
  RenewSliver reads a variable that does not exist (2902); `exps.sort()` is
  taken for a value (3338); a Status without an expiration raises (3841).
  Provision records slivers that failed (3155-3157).
* A garbled answer to GetVersion is cached; aggregates that advertise each
  other's URLs are asked in turn without a bound that the code states (5700).
* ListMySlices without a lock removes a slice that was just renewed
  (`ch.py:401`, 412, 420), a renewal puts a deleted slice back (380), two
  creations make two gids. Whoever renews a slice owns it. Expired slices can
  be renewed.
* RenewSlice of `pgch.py` (1198) calls itself with too many arguments.
  `deleteslice` through it reports True, deletes nothing, and creates the slice
  if there is none. Through `chapi` it reports True as well, because a message
  is returned (`chhandler.py:333-336`); through `sfa` an unanswered lookup
  counts as "already deleted" (`framework_sfa.py:364-368`). A renewal through
  `sfa` whose last lookup fails is reported as failed although it was made
  (426-431).
* `framework_chapi.py`: a slice credential that is not of type SFA ends in an
  error of its own making (417 before 421), the condition at 1297 is the wrong
  way round.
* `README-omni.txt:341`: renewslice replaces the saved credential; only if it
  can get it.

Stitcher:

* "On error exit, ensure all outstanding reservations are deleted"
  (`stitchhandler.py`): a reservation that is being polled
  (`objects.py:2584-2757`) has no manifest yet and is not looked for
  (`stitchhandler.py:2015`, 2031).
* "Then call SliverStatus and see if the AM is ready. If now, we'll go back to
  the launcher and sleep again." (`objects.py:635`): the exceptions that would go
  back to the launcher (674, 718, 722, 726) are caught at 729 and 735, the log
  says "... it is, so can try a new reservation." (757), and the aggregate is
  asked while it deletes. In the model `pc = "ask"` with `cur` in `clearing` is
  reached in `stitch_circuit` and `stitch_ends`.
* `objects.py:527-528` says that `allocate` deletes on error; when a manifest
  has no tag, the retry keeps the reservation, and the next request fails on it.
* `objects.py:1168-1170`: a tag that cannot be used here is a case for the path
  service; at any hop but the last, a later check makes it fatal first.
* OESS errors are looked for in the value in one place and in the message in
  another (`objects.py:2358`, 3644; comment at 2073). After an error ExoGENI
  gets a deletion whose answer nobody reads, and its old manifest stays.
* That a hop had to be avoided is forgotten with the next workflow
  (`stitchhandler.py:3756`).

## What is proved

All proofs are for any values of the constants, from the named assumptions of
the modules. Each theorem that says the same as a property of a run is listed
with it in `PROJECT.json`. Every invariant used was first checked by TLC on the
instances of the runs.

### The managers (`GcfAM3_proofs`, `GcfAM2_proofs`)

From `TimesAssumption` (times are naturals) and `NamesAssumption` (slice and
user URNs differ, the two markers for "none" are not records or lists):

* `Inductive`: `Spec => []IInv`, with `IInv` the conjunction of `TypeOK`,
  `LeaseExclusive`, `SlicesTracked` and `NoSliverOutlivesSlice`. They are
  inductive together: exclusivity of a new lease needs the table to be well
  typed, the deletion of empty slices needs all slivers tracked. The parts are
  `TypeCorrect`, `Exclusivity`, `Tracking`, `SlicesOutliveSlivers`.
* `SuccessMeansSwept`, `LeasesAreKept`, `ShutdownHolds`, `OnlyRefusalsLose`,
  `LeasesAreBounded`: the action properties, and the bound of a lease.
* `AggregateIsPool`: the manager implements `LeasedPool`; it needs
  `FreeAssumption` (the pool's free item has no slice for an owner) and that
  exclusivity makes the mapping exact.
* `PoliciesAreKept`: the quotas on the number of slivers hold at every instant;
  `GovernedIsServer`, `GovernedKeepsPromises`: with the authorizer in front the
  manager still is the manager. This needs `ResourcesAssumption` (resources are
  finitely many, so slivers can be counted) and `PoliciesAssumption` (a limit is
  a natural, there are rules for whoever has none of his own, and the numbers that
  stand for the slivers still to be made are no URNs).

The argument: the relation `Leases` on the four tables (slivers, slices,
available, slice expirations) is kept by the two things handlers do to them,
removing slivers with what `delete_sliver` and `reset` do (`WithoutKeepsLeases`)
and changing times and states of slivers (`UpdateKeepsLeases`). `KeptLeases`
follows: it holds after `expire_slivers`. Each action is then one lemma, and
once more for the action properties: every action sweeps and then lends,
changes or removes (`Lends`, `Changes`, `Removes`), which are also the steps of
the pool. For the quotas, what a call leaves is mapped one to one into what the
authorizer was shown before the sweep, so it is no more.

For version 2 `Inductive` is about the conjunction of `TypeOK`,
`CatalogIsSlice`, `Partition`, `StatusFollowsSlice` and
`NoSliverOutlivesSlice`; `Agreement`, `NoneLost` and `SlicesOutliveSlivers` are
its parts, and `ShutdownIsFinal` is an action property. `Partition` is not
inductive alone, since `DeleteSliver` gives back what the container lists while
the slice object says what was held: `CatalogIsSlice` joins them. A shutdown is
final because one VM with the mark means that all have it
(`StatusFollowsSlice`), so the guards of the calls see it whichever VM they ask.
Version 1 has `OneOwnerEach` and `OneLosesNone`.

### Trust (`TrustedCalls_proofs`)

From `CallsAssumption` and `CertificatesAssumption` (who signed a certificate,
until when it lasts and what is presented with it are defined): what is let
through, signatures entitle to (`NothingUnsigned`), although the verifier walks
a chain link by link and believes what the paper says; what this code issued is
honoured until it or a certificate expires (`IssuedIsHonoured`); a tool may what
its user may (`ToolsAreTheirUsers`). What signatures entitle to is the least set
closed under delegation; the proof follows a chain that was verified from its
root, and shows each link to be in every closed set. That is an induction over
the links of one chain, done by taking the least link that is not.

### Omni (`OmniSlivers_proofs`, `OmniVersions_proofs`, `OmniSlices_proofs`)

*Slivers*, from `AnswersAssumption` (each sliver has an aggregate, there is a
time): `AnswersAreRecorded`, `RecordTellsTruth`, `RunningStaysOnRecord`. The
record follows the answer only at the end, so the invariant speaks of the calls
that are outstanding: each leaves a record that is allowed (`Obeys`; what is on
record already is not recorded again, so it must be allowed before), and a
sliver that has no allowed record yet has a call outstanding (`Underway`). Once
one call is lost or one exception ends the recording nothing is claimed. It is
joined by `KeepsRunning`: no outstanding call deletes the record of a sliver
that was running when the aggregate answered, and by `ClaimsAreTrue`: what the
answer claims was so at the aggregate, which `RecordTellsTruth` takes from the
claim to the record. It comes from what each command makes of an answer
(`Truthful`). `Sound` says the same of what a command makes of one answer, and
is proved of each command: `StatusIsSound` of the five loops of `status`,
`SliverStatusIsSound`, `RecordingIsSound`, `ForgetIsSound`.

*Versions*, from `VersionsAssumption`: `CallsAreUnderstood`. Every answer in a
cache, in the file or in memory, is one that its URL gave no earlier than it is
dated (`Trustworthy`), whoever wrote the file. `SwitchingIsSafe` has a
hypothesis of its own, `ListsItself`: a server that lists versions lists the one
it speaks, as the managers of this repository do. Without it Omni may leave a
version that more servers speak.

*Slices*, from `ClearinghouseAssumption` and `SlicesAssumption`:
`IdentitiesAreKept` and `ReportsAreTrue` (with threads too), `SavedWasHeld`, and
`ServerIsRegistry`: a clearinghouse without threads implements `SliceRegistry`.
The invariant says what a thread at each place has read and still holds, that a
slice's gid was made for it, and what a command that is under way knows; without
threads what was read is still so (`Current`).

### Stitcher (`StitchWorkflow_proofs`, `Stitcher_proofs`)

`StitchWorkflow_proofs`, from `NoAggAssumption`: `Cyclefree`, although the code
looks for a loop only among the direct dependencies of the new one,
`NothingForgotten`, and `LoopsAreReal`: the error is raised only for a loop that
the hops have. The invariant says what a running recursion has done: there is a
set N of aggregates that have been added for `agg` such that all else was
acyclic before, and what N's members depend on is in N, is `agg`'s already or is
still in `todo`. When `todo` is empty, a cycle through `agg` would have to leave
N, or to come back to `agg` from N, where `RefuseLoop` has looked.

`Stitcher_proofs`, from `CircuitAssumption` and `WorkflowAssumption` (a workflow
names known hops, hops import tags from hops of aggregates their own depends on,
and dependencies are acyclic, which `Cyclefree` is about).

*Order.* `DependenciesAreFirst`, `CompleteIsHeld`, `LauncherNeverStalls`. None
is inductive alone. An aggregate that ExoGENI refused keeps its old manifest
without a reservation, and must not count as complete the next time: the
invariant says that a tag of it has not been read (`HeldOrUnread`), and that an
aggregate is asked only when something is left to learn (`AskedForMore`). With
one aggregate in process at most, and none between two aggregates
(`OneInProcess`), the aggregate that depends on no other incomplete one is
ready; there is one because dependencies are acyclic.

*What a failure teaches.* `FailureIsLearned` has the hypothesis `Plain`: no hop
translates, and the hops of one aggregate all import their tags or all pick
them. Its invariant (`PlainCircuitsLearn`) says that just the hops that pick are
asked for any tag, where the software can (`AnyIsForPickers`), and that from the
path service to the request each hop has tags left to ask for, none of which was
found to be unavailable (`Fresh`), and asks for one of them (`Asks`). Then the
error that sends the stitcher back to the path service is about a tag that was
not excluded before.

*The schedule.* Each action is one or no step of `StitchSchedule`: a manifest
that was read is `Reserve`, what was still there from an earlier round `Keep`,
deletions and clean-up `Withdraw`, a new workflow `Replan`. To reserve, the new
tags must fit those of complete neighbours. The code compares the manifest with
what was suggested, so the invariant (`AInv`) carries what was suggested at the
time of the request to the manifest of the source (`AsksForSource`,
`SuggestsWhatIsRead`). There is one step that breaks it (`SuggestsAnew`): a
retry that suggests another tag to a hop that imports its own, keeps what its
aggregate has told, and goes on. `ScheduleUnlessSuggestedAnew` is the refinement
for every circuit in which this does not occur, and it does occur: `stitch_tags`
is such a behaviour. `ScheduledTagsAgree` follows from `StitchSchedule` alone, so
`TagsAgreeUnlessSuggestedAnew` names the one way to tags that do not agree.

*Orderly circuits.* `OrderlyCircuitsKeepSchedule` and `OrderlyCircuitsAgree` say
for which circuits it cannot occur, whatever fails: `Plain` ones in which for
each workflow either no aggregate that picks tags for others supports being
asked for any (`Certain`), or aggregates wait their turn (`InTurn`): aggregates
with a common dependency are themselves ordered, no tag passes over an aggregate
in between, an ExoGENI aggregate has one hop. Both hypotheses hold in
`stitch_ends`: `FromMiddle` is `Certain`, the other workflows are `InTurn`. The
argument for the latter is that tags are only read in order (`InOrder`, in
`RInv`): what imports tags has told all of them only if all it depends on is
complete. The retry deletes the complete aggregates above the failed hop, and a
hop to which it suggests another tag is below the source; an aggregate there
that has told its tags is complete and, as nothing is passed over, among those
above the failed hop (`WhatIsReadGoes`). The retry walks the chain of imports
recursively; `Upstream` and `Spread` are the least sets that such walks visit,
and their properties are proved by taking a first hop that lacks them
(`SomeFirst`), as the dependencies are acyclic.

### What is only model-checked

* `TagsAgree` and `ImplementsSchedule` are false in general, as `stitch_tags`
  shows, and are proved under the hypotheses above. The hypotheses may be more
  than is needed: where an ExoGENI aggregate has two hops `SuggestsAnew` occurs
  and the proof does not apply, but TLC found no such circuit with tags that do
  not agree.
* `LearnsFromFailure` is false when the aggregate in the middle translates tags:
  if a manifest gave a tag at one of its hops and none at the other, the next
  request keeps the old suggestion at the latter, and an error that names this
  hop excludes a tag that was excluded before. It is proved for `Plain` circuits;
  an aggregate that imports one tag and picks another is not among them.
* Liveness (`Reclaimed`, `CommandsEnd`, `Terminates`) is out of the prover's
  reach.
* What a recursive definition computes is not proved. Inductions over numbers
  are made by taking a least counterexample (`NatLessThanWellFounded`, `WFMin`),
  as the induction theorems of the library cannot be used.

## Not modelled

* Printing, RSpec contents, cryptography (signatures, X.509, TLS), argument
  parsing, installation, conversions of names, the GENI-in-a-box aggregate
  (OpenVZ containers made by shell commands), proxies and test servers, and
  `gch.py`, which forwards to another clearinghouse (its RenewSlice and
  DeleteSlice do nothing, 175-181).
* Authorization: assertions in ABAC credentials, the remote authorizer, the
  stitching binder, the argument guard, conditions on the hour of the day.
* Trust: legacy credentials, the map of key names.
* `pgch.py` in front of another clearinghouse.
* Omni: the search of authorities, what is printed and saved of answers.
* Stitcher: several paths and links, the parsing of documents and of VLAN
  ranges, requests without stitching, API v3 reservations of several slivers,
  combined manifests, expirations, Ctrl-C.

## Plan

Left to do: stitching over several paths, which the code works on as one set of
hops, and a weaker condition than `Orderly` for circuits in which an ExoGENI
aggregate has two hops.

No module that is proved about declares a RECURSIVE operator.
