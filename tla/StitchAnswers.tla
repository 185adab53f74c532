---------------------------- MODULE StitchAnswers ----------------------------
(***************************************************************************)
(* What the stitcher makes of an aggregate's answer to a reservation: which *)
(* errors are about a VLAN tag, which cannot be mended by asking again, and *)
(* which parts of a manifest it can do without (stitch/objects.py).  Each   *)
(* software names its errors in its own way: by a code of the AM API, a     *)
(* code of its own, and a text in the output or in the value it returns.    *)
(***************************************************************************)
EXTENDS Naturals

Kinds == {"pg", "eg", "dcn", "gram", "oess", "sfa"}

\* The texts the stitcher looks for, each once.
ReserveTexts == {"could not reserve tags", "error reserving tag"}
FreeTexts == {"no free tag", "could not reserve a tag"}
MapperTexts == {"mapper", "topology", "ifacemap", "little bandwidth", "many VMs", "slow interfaces"}
ImpossibleTexts ==
  [c \in {1, 2, 6, 7} |->
     CASE c = 1 -> {"duplicate link", "malformed keys", "signer without URL", "duplicate node"}
       [] c = 2 -> {"hardware type", "edge mismatch", "no edge hop", "no node id", "no mapping",
                    "no stitching path", "unknown network"}
       [] c = 6 -> {"long hostname"}
       [] c = 7 -> {"must delete", "short life", "long life"}]
OrcaTexts == {"edge domain", "image size", "image URL", "bad NDL", "embedding", "whitelist",
              "invalid slice"}

Texts ==
  ReserveTexts \cup FreeTexts \cup MapperTexts \cup OrcaTexts
    \cup UNION {ImpossibleTexts[c] : c \in DOMAIN ImpossibleTexts}
    \cup {"tag not available", "could not map", "bad credential", "malformed rspec",
          "recheck failed", "few cores", "dependency tree", "no such site", "existing record",
          "login base", "internal error", "VM exists", "insufficient rights",
          "endpoint unavailable", "VLAN unavailable", "exception", "something else"}

\* 24 and 25 are the AM API's VLAN_UNAVAILABLE and INSUFFICIENT_BANDWIDTH.
Codes == {1, 2, 5, 6, 7, 24, 25, 26, 28}

\* An error says one thing, in its output or in its value.
Errors == [code : Codes, amcode : Codes, text : Texts, inValue : BOOLEAN]

Says(e, texts) == ~e.inValue /\ e.text \in texts

Both(e, c) == e.code = c /\ e.amcode = c

-----------------------------------------------------------------------------
(* doReservation, when the call raised an AMAPIError. *)

PgTag(e) ==
  \/ e.amcode = 24
  \/ Both(e, 2) /\ Says(e, ReserveTexts \cup FreeTexts)
  \/ e.code \in {1, 2} /\ e.amcode = 1 /\ Says(e, FreeTexts \cup {"tag not available"})

PgFatal(e) ==
  \/ e.amcode \in {25, 26}
  \/ /\ e.code \in {2, 26} /\ e.amcode = 2
     /\ Says(e, MapperTexts) \/ (e.inValue /\ e.text = "could not map")
  \/ \E c \in DOMAIN ImpossibleTexts : Both(e, c) /\ Says(e, ImpossibleTexts[c])
  \/ Both(e, 1) /\ e.text \in {"bad credential", "malformed rspec"}
  \/ e.code \in {2, 28} /\ e.amcode = 28 /\ e.inValue /\ e.text = "recheck failed"

TagError(k, e) ==
  \/ e.code = 24
  \/ k = "pg" /\ PgTag(e)
  \/ e.code # 25 /\ k = "eg" /\ Says(e, {"dependency tree"})
  \/ e.code # 25 /\ k = "oess" /\ (e.text = "endpoint unavailable" \/ Says(e, {"VLAN unavailable"}))

FatalError(k, e) ==
  \/ e.code = 25
  \/ CASE k = "pg"   -> PgFatal(e)
       [] k = "eg"   -> Says(e, OrcaTexts)
       [] k = "dcn"  -> \/ Both(e, 7) /\ Says(e, {"existing record"})
                        \/ Both(e, 5) /\ Says(e, {"login base", "internal error"})
       [] k = "gram" -> Says(e, {"VM exists"})
       [] k = "sfa"  -> Says(e, {"insufficient rights"})
       [] k = "oess" -> Says(e, {"exception"})

\* handleVlanUnavailable looks at the error again, with conditions of its own;
\* only if it knows it may the aggregate be asked for another tag.
KnownTagError(k, e) ==
  \/ e.code = 24
  \/ k = "pg" /\ \/ e.amcode = 24
                 \/ /\ {e.code, e.amcode} \subseteq {1, 2}
                    /\ Says(e, ReserveTexts \cup FreeTexts)
                 \/ e.code \in {1, 2} /\ e.amcode = 1 /\ Says(e, {"tag not available"})
  \/ k = "eg" /\ Says(e, {"dependency tree"})
  \/ k = "oess" /\ Says(e, {"endpoint unavailable", "VLAN unavailable"})

Verdict(k, e) ==
  IF TagError(k, e) THEN IF KnownTagError(k, e) THEN "vlan" ELSE "doubt"
  ELSE IF FatalError(k, e) THEN "fatal"
  ELSE IF k = "eg" /\ Says(e, {"few cores"}) THEN "other url"
  ELSE IF k = "dcn" /\ Says(e, {"no such site"}) THEN "once more"
  ELSE "again"

\* What may come of an error of each kind of aggregate.
VerdictsOf == [k \in Kinds |-> {Verdict(k, e) : e \in Errors}]

\* What an aggregate says that has a reservation for the slice already.
ExistingError ==
  [k \in Kinds |->
     Verdict(k, CASE k = "pg"   -> [code |-> 7, amcode |-> 7, text |-> "must delete", inValue |-> FALSE]
                  [] k = "dcn"  -> [code |-> 7, amcode |-> 7, text |-> "existing record", inValue |-> FALSE]
                  [] k = "gram" -> [code |-> 2, amcode |-> 2, text |-> "VM exists", inValue |-> FALSE]
                  [] OTHER      -> [code |-> 7, amcode |-> 7, text |-> "something else", inValue |-> FALSE])]

\* What it says that is busy for as many calls as doAMAPICall makes.
BusyError ==
  [k \in Kinds |->
     Verdict(k, [code |-> 14, amcode |-> 14, text |-> "something else", inValue |-> FALSE])]

-----------------------------------------------------------------------------
(* The manifest's entry for a hop, by the first element that is missing. *)

Containers == {"rspec", "stitching", "path", "hop", "link", "descriptor", "specific", "l2"}

\* getVLANRangeSuggested, and what allocate does with its result.
HopRead(missing) ==
  CASE missing \in Containers \cup {"range"} -> "broken"
    [] missing = "suggested"                 -> "no tag"
    [] missing = "nothing"                   -> "read"

\* getEGVLANRangeSuggested takes what was asked for where the hop is not listed.
EGHopRead(missing) ==
  IF missing \in {"path", "hop", "link"} THEN "as asked" ELSE HopRead(missing)

ReadsOf ==
  [k \in Kinds |->
     {IF k = "eg" THEN EGHopRead(m) ELSE HopRead(m) :
        m \in Containers \cup {"range", "suggested", "nothing"}}]

=============================================================================
