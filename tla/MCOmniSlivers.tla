--------------------------- MODULE MCOmniSlivers ---------------------------
(* An aggregate with two slivers and one without any, and a user who sets an *)
(* option now and then.                                                      *)
EXTENDS OmniSlivers, TLC

CONSTANTS a, b, a1, a2

MCHome == a1 :> a @@ a2 :> a

Defaults(v) ==
  [api_version |-> v, devmode |-> FALSE, noExtraCHCalls |-> FALSE, raiseErrorOnV2AMAPIError |-> FALSE]

Run(op, o, asked, clients) == [op |-> op, opts |-> o, asked |-> asked, clients |-> clients]

Bare(v) == [Defaults(v) EXCEPT !.noExtraCHCalls = TRUE, !.devmode = v = 3]

\* Commands that record slivers, at one aggregate or both, for the whole slice
\* or for one sliver; the others once each; some with options.
MCInvocation ==
  {Run("CreateSliver", Defaults(2), {}, {a})}
  \cup {Run(op, Defaults(2), {}, c) : op \in {"SliverStatus", "RenewSliver", "DeleteSliver"}, c \in {{a}, {a, b}}}
  \cup {Run(op, [Defaults(2) EXCEPT !.raiseErrorOnV2AMAPIError = TRUE], {}, {a, b}) :
          op \in {"SliverStatus", "DeleteSliver", "RenewSliver"}}
  \cup {Run(op, Defaults(3), u, c) : op \in {"Provision", "Renew", "Status", "Delete"},
                                     u \in {{}, {a1}, {a1, a2}}, c \in {{a}, {a, b}}}
  \cup {Run(op, Bare(3), {}, {a}) : op \in {"Status", "Delete", "SliverStatus"}}
  \cup {Run(op, Defaults(3), {}, {a}) :
          op \in {"Allocate", "Describe", "PerformOperationalAction", "Shutdown", "Update", "Cancel"}}
  \cup {Run(op, Defaults(2), {}, {a}) : op \in {"ListResources", "PrintSliverExpirations", "ListImages"}}
  \cup {Run("DeleteImage", Defaults(2), {}, {a, b}), Run("CreateImage", Defaults(2), {a1}, {a})}
=============================================================================
