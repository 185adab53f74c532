---------------------------- MODULE GovernedAM3 ----------------------------
(***************************************************************************)
(* The aggregate of GcfAM3 with an authorizer that decides by rules, and a *)
(* resource manager that tells it what would be allocated if a call were   *)
(* granted (gcf/geni/auth/abac_resource_manager.py; GcfAM3's context calls *)
(* both before the delegate runs).                                         *)
(*                                                                         *)
(* A call that the rules refuse ends there: not even expire_slivers runs.  *)
(* The rules see the table of slivers as the last call left it.            *)
(***************************************************************************)
EXTENDS GcfAM3

CONSTANTS
  Project,      \* of each slice
  AuthorityOf,  \* of each user
  Policies      \* the policy maps an operator may have configured

VARIABLE policy \* the rule set for each authority, and the default one

governedVars == <<now, sliceExp, slices, slivers, available, containers, reply, policy>>

INSTANCE AbacRules

-----------------------------------------------------------------------------
(* GCFAM_Resource_Manager *)

Fact(i) == Allocation(i, slivers[i].slice, slivers[i].start, slivers[i].end)

\* get_current_allocations: of every slice, expired or not.
Current == {Fact(i) : i \in Live(slivers)}

\* Fault: a request counts as one.
Asked_once(s, n, c, reqStart, reqEnd) ==
  {Allocation(0, s, IF reqStart = 0 THEN now ELSE reqStart, EndTime(c, reqEnd))}

\* get_requested_allocations: n nodes, from the start asked for to the end that
\* the credentials allow.
Asked(s, n, c, reqStart, reqEnd) ==
  {Allocation(k, s, IF reqStart = 0 THEN now ELSE reqStart, EndTime(c, reqEnd)) : k \in 1..n}

\* Fault: renewal is judged by the windows as they are.
Renewing_unchanged(n, until) == Current

\* What a Renew makes of it: the slivers it names end when it says.
Renewing(n, until) ==
  {IF a.id \in Named(slivers, n) THEN [a EXCEPT !.end = until] ELSE a : a \in Current}

\* lookup_rules_for_caller
Rules(u) ==
  policy[IF AuthorityOf[u] \in DOMAIN policy THEN AuthorityOf[u] ELSE "default"]

\* ABAC_Authorizer.authorize, of a caller whose credentials verify.
Permits(u, method, s, allocations) ==
  Decide(Rules(u), method, Request(AuthorityOf[u], TRUE, s, allocations))

-----------------------------------------------------------------------------
(* The calls of which the rules decide by quotas *)

\* The authorizer raises, or the call goes on.
Asks(u, method, s, allocations, Call) ==
  IF Permits(u, method, s, allocations) THEN Call ELSE UNCHANGED vars

GovernedAllocate(s, u) ==
  \E c \in Credentials(s), reqStart, reqEnd \in RequestTimes :
    \/ \E n \in 0..(Cardinality(Resource) + 1) :
         Asks(u, "Allocate", s, Current \cup Asked(s, n, c, reqStart, reqEnd),
              \/ AllocateTooBig(s, n)
              \/ /\ n <= Cardinality(KeptAvailable)
                 /\ AllocateRefused(s, c, reqStart, reqEnd)
                 /\ Cardinality(KeptAvailable \ available') = n)
    \/ \E I \in SUBSET {i \in SliverId : slivers[i] = NoSliver} :
         Asks(u, "Allocate", s, Current \cup Asked(s, Cardinality(I), c, reqStart, reqEnd),
              AllocateFor(I, s, u, c, reqStart, reqEnd))

\* What the context resolves.
Resolved == {n \in Names : Decode(slivers, slices, n) = "SUCCESS"}

\* The context has resolved the URNs before the rules are asked.
GovernedRenew(u, n, requested, alap) ==
  \E c \in Credentials(SliceNamed(slivers, n)) :
    Asks(u, "Renew", SliceNamed(slivers, n),
         Renewing(n, RenewTime(c, requested, alap)),
         UrnsExpired("Renew", n) \/ RenewWith(n, requested, alap, c))

UrnMethod(op, u, n) ==
  \/ UrnsExpired(op, n)
  \/ op \in {"Status", "Describe"} /\ Report(op, n)
  \/ op = "Provision" /\ Provision(n)
  \/ op = "Delete" /\ Delete(u, n)
  \/ /\ op = "PerformOperationalAction"
     /\ \/ PerformUnknownAction(n)
        \/ \E action \in Actions, bestEffort \in BOOLEAN :
             PerformOperationalAction(n, action, bestEffort)

\* The other calls bring no measurements with them.  What is malformed in an
\* Allocate or a Renew makes the resource manager raise already.
GovernedCall(u, op) ==
  /\ op \in UrnOps => Resolved # {}
  /\ Asks(u, op, CHOOSE s \in Slice : TRUE, {},
          \/ Rejected(op)
          \/ op = "ListResources" /\ ListResources
          \/ op = "Shutdown" /\ \E s \in Slice : Shutdown(s)
          \/ op \in UrnOps /\ \E n \in Resolved : UrnMethod(op, u, n))

\* As UrnsRefused of GcfAM3, whatever the URNs.
Unresolved(op) ==
  \E code \in {Decode(slivers, slices, n) : n \in Names} \ {"SUCCESS"} :
    /\ Reply(op, code)
    /\ UNCHANGED <<now, sliceExp, slices, slivers, available, containers>>

\* The rules are not asked of a call whose URNs do not resolve, nor of GetVersion.
UngovernedCall ==
  \/ Tick
  \/ \E s \in Slice : RenewSlice(s)
  \/ GetVersion
  \/ \E op \in UrnOps : Unresolved(op)

GovernedInit ==
  /\ Init
  /\ policy \in Policies

GovernedNext ==
  /\ \/ UngovernedCall
     \/ \E u \in User :
          \/ \E op \in Ops \ {"GetVersion", "Allocate", "Renew"} : GovernedCall(u, op)
          \/ \E s \in Slice : GovernedAllocate(s, u)
          \/ \E n \in Resolved, requested \in RequestTimes, alap \in BOOLEAN :
               GovernedRenew(u, n, requested, alap)
  /\ UNCHANGED policy

GovernedSpec == GovernedInit /\ [][GovernedNext]_governedVars

\* Time passes, and now and then somebody calls: a caller of any method causes
\* the same clean-up, GetVersion stands for the one of whom no rules are asked.
GovernedFairSpec ==
  /\ GovernedSpec
  /\ WF_governedVars(Tick /\ UNCHANGED policy)
  /\ WF_governedVars(GetVersion /\ UNCHANGED policy)

-----------------------------------------------------------------------------
(* The limits that a rule set puts on everybody: clauses that are always   *)
(* looked at and put the caller into a role that it must not have.         *)
Limits(rules) ==
  IF 1 \notin DOMAIN rules.clauseSets \/ rules.clauseSets[1].precondition # {} THEN {}
  ELSE UNION {cl.condition : cl \in
         {x \in rules.clauseSets[1].clauses :
            /\ \E c \in x.condition : x.condition = {c}
            /\ \E q \in rules.queries :
                 /\ x.assertion = <<q.role, Caller>> /\ ~q.positive
                 /\ {"Allocate", "Renew"} \subseteq q.methods}}

(* The limits on measurements that every rule set of a policy has. *)
LimitsOf(p) ==
  {l \in Limits(p["default"]) : l[1] \in Scopes /\ \A a \in DOMAIN p : l \in Limits(p[a])}

(* Quotas are numbers, and there is a default rule set.  No node of a      *)
(* request has the number of a sliver.                                     *)
ASSUME PoliciesAssumption ==
  /\ \A p \in Policies : "default" \in DOMAIN p /\ \A l \in LimitsOf(p) : l[3] \in Nat
  /\ SliverId \cap Nat = {}

(* TOTAL_ and MAX_ResourceMeasurementState: a quota on the number of slivers *)
(* holds of what is in the table at any time, and one on what is held at   *)
(* once of every instant, whoever allocated it and whatever windows were   *)
(* reserved, renewed and cut since.                                        *)
QuotasKept ==
  \A l \in LimitsOf(policy), s \in Slice :
    /\ l[2] = "TOTAL" => Total(InScope(l[1], s, Current)) <= l[3]
    /\ l[2] = "MAX" =>
         \A t \in Time :
           Cardinality({a \in InScope(l[1], s, Current) : a.start <= t /\ t < a.end}) <= l[3]
=============================================================================
