----------------------------- MODULE AbacRules -----------------------------
(***************************************************************************)
(* The rules by which an aggregate decides calls, and the measurements of  *)
(* its allocations that the rules compare with quotas                      *)
(* (gcf/geni/auth: abac_authorizer, resource_binder, binders).             *)
(*                                                                         *)
(* An allocation is a record of a sliver, its slice and its window.  A rule *)
(* set has the parts of its JSON file:                                     *)
(*   clauseSets  a sequence of [precondition, exclusive, clauses],         *)
(*               a clause is [condition, assertion];                       *)
(*   policies    assertions that always hold;                              *)
(*   queries     [role, positive, methods].                                *)
(* A condition is a set of comparisons <<variable, kind, n>>: the variable *)
(* is more than n.  An assertion <<role, member>> puts a role, or the      *)
(* caller, into a role.                                                    *)
(***************************************************************************)
EXTENDS Integers, FiniteSets, FiniteSetsExt

CONSTANT Project  \* of each slice

Caller == "$CALLER"

-----------------------------------------------------------------------------
(* Measurements *)

Allocation(id, slice, start, end) ==
  [id |-> id, slice |-> slice, start |-> start, end |-> end]

Scopes == {"SLICE", "PROJECT", "USER", "AUTHORITY"}

\* _update_sliver: the allocations that count for a call on slice s.  Each
\* carries the URN of the caller, whoever made it.
InScope(scope, s, allocations) ==
  CASE scope = "SLICE"   -> {a \in allocations : a.slice = s}
    [] scope = "PROJECT" -> {a \in allocations : Project[a.slice] = Project[s]}
    [] scope \in {"USER", "AUTHORITY"} -> allocations

\* TOTAL_ResourceMeasurementState
Total(allocations) == Cardinality(allocations)

\* HOURS_ResourceMeasurementState
Hours(allocations) == MapThenSumSet(LAMBDA a : a.end - a.start, allocations)

Boundaries(allocations) ==
  {a.start : a \in allocations} \cup {a.end : a \in allocations}

\* MAX_ResourceMeasurementState: the most at once, between neighbouring times.
Peak(allocations) ==
  LET T == Boundaries(allocations)
      Neighbours == {p \in T \X T : p[1] < p[2] /\ \A t \in T : t <= p[1] \/ t >= p[2]}
  IN Max({0} \cup {Cardinality({a \in allocations : a.start < p[2] /\ a.end > p[1]}) :
                     p \in Neighbours})

\* User_Slice_ResourceMeasurementState
NumSlices(allocations) == Cardinality({a.slice : a \in allocations})

NumProjects(allocations) == Cardinality({Project[a.slice] : a \in allocations})

-----------------------------------------------------------------------------
(* Bindings.  A call is what the binders look at: the authority of its     *)
(* caller, whether its credentials verify, its slice, and the allocations  *)
(* there would be.  A variable has one value, or none.                     *)

Request(authority, verified, slice, allocations) ==
  [authority |-> authority, verified |-> verified, slice |-> slice,
   allocations |-> allocations]

\* The four resource binders bind nothing where nothing is in scope.
Measured(scope, kind, call) ==
  LET A == InScope(scope, call.slice, call.allocations)
  IN IF A = {} THEN {}
     ELSE CASE kind = "TOTAL" -> {Total(A)}
            [] kind = "HOURS" -> {Hours(A)}
            [] kind = "MAX" -> {Peak(A)}
            [] kind = "NUM_SLICES" -> IF scope = "USER" THEN {NumSlices(A)} ELSE {}
            [] kind = "NUM_PROJECTS" -> IF scope = "USER" THEN {NumProjects(A)} ELSE {}

\* Standard_Binder, SFA_Binder and the rest; what is true has the value 1.
Bound(variable, kind, call) ==
  CASE variable \in Scopes -> Measured(variable, kind, call)
    [] variable = "CALLER_AUTHORITY" -> IF call.authority = kind THEN {1} ELSE {}
    [] variable = "SFA_AUTHORIZED" -> IF call.verified THEN {1} ELSE {}

-----------------------------------------------------------------------------
(* Decisions *)

\* A condition with an unbound variable counts as false.
Satisfied(condition, call) ==
  \A c \in condition : \E value \in Bound(c[1], c[2], call) : value > c[3]

\* _generate_assertions: clause sets apply up to the first exclusive one.
Applies(clauseSets, k, call) ==
  /\ Satisfied(clauseSets[k].precondition, call)
  /\ \A j \in 1..(k - 1) :
       Satisfied(clauseSets[j].precondition, call) => ~clauseSets[j].exclusive

Assertions(rules, call) ==
  rules.policies \cup
  UNION {{cl.assertion : cl \in {x \in rules.clauseSets[k].clauses :
                                   Satisfied(x.condition, call)}} :
         k \in {j \in DOMAIN rules.clauseSets : Applies(rules.clauseSets, j, call)}}

\* _prove_query: a chain of assertions from the role to the caller, who is in
\* whatever holds the role and is closed under the assertions.
Proves(assertions, role) ==
  \A S \in SUBSET ({role} \cup {a[2] : a \in assertions}) :
    role \in S /\ (\A a \in assertions : a[1] \in S => a[2] \in S) => Caller \in S

\* _evaluate_queries: a query with a condition is asked of some methods only.
Decide(rules, method, call) ==
  LET A == Assertions(rules, call)
  IN \A q \in rules.queries : method \in q.methods => (Proves(A, q.role) <=> q.positive)
=============================================================================
