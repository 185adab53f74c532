--------------------------- MODULE MCGovernedAM3 ---------------------------
(* Instances of GovernedAM3 for TLC. *)
EXTENDS GovernedAM3, TLC

Everything == Ops \ {"GetVersion"}

\* Rules as in examples/example_am_policies.json, with the quotas given: who
\* runs things is to be an operator, whom a policy makes one.
RulesWith(quotas, operators) ==
  [clauseSets |-> <<[precondition |-> {}, exclusive |-> TRUE,
     clauses |->
       {[condition |-> {<<"SFA_AUTHORIZED", "", 0>>}, assertion |-> <<"IS_AUTHORIZED", Caller>>]}
       \cup {[condition |-> {<<"CALLER_AUTHORITY", a, 0>>}, assertion |-> <<"TRUSTED", Caller>>] :
               a \in operators}
       \cup {[condition |-> {q}, assertion |-> <<"EXCEEDS_QUOTA", Caller>>] : q \in quotas}]>>,
   policies |-> {<<"MAY_OPERATE", "TRUSTED">>},
   queries |-> {[role |-> "IS_AUTHORIZED", positive |-> TRUE, methods |-> Everything],
                [role |-> "EXCEEDS_QUOTA", positive |-> FALSE, methods |-> Everything],
                [role |-> "MAY_OPERATE", positive |-> TRUE,
                 methods |-> {"Shutdown", "PerformOperationalAction"}]}]

\* One node of a slice, one at a time of all; nobody is an operator.
MCQuotas ==
  {[default |-> RulesWith({<<"SLICE", "TOTAL", 1>>, <<"USER", "MAX", 1>>}, {})]}

\* The authority of the users is trusted, and has rules of its own.
MCTrust ==
  {[default |-> RulesWith({<<"USER", "NUM_SLICES", 0>>}, {}),
    blue |-> RulesWith({<<"SLICE", "TOTAL", 1>>}, {"blue"})]}

MCProject == [s \in Slice |-> "p"]

MCAuthorityOf == [u \in User |-> "blue"]

Symmetry ==
  Permutations(Slice) \cup Permutations(Resource) \cup Permutations(SliverId)
    \cup Permutations(User)

\* No step depends on what the last call was told.
ButReply == <<now, sliceExp, slices, slivers, available, containers, policy>>
=============================================================================
