------------------------------- MODULE MCSync -------------------------------
(***************************************************************************)
(* Instances of the synchronisation for TLC.  Two objects, up to two keys  *)
(* each (one of them a ".url" key), a folder annotation that moves one of  *)
(* them, and one that takes its label away.                                *)
(***************************************************************************)
EXTENDS CacheInvariants

CONSTANTS v1, v2      \* two values of a data key

Shape1(lab, ann, a, u) ==
    [lab |-> lab, ann |-> ann,
     data |-> [k \in {"a", "u", "b"} |->
                 CASE k = "a" -> IF a = None THEN None ELSE [sec |-> "text", val |-> a]
                   [] k = "u" -> IF u = None THEN None ELSE [sec |-> "text", val |-> u]
                   [] k = "b" -> None]]
Shape2(b) ==
    [lab |-> TRUE, ann |-> None,
     data |-> [k \in {"a", "u", "b"} |-> IF k = "b" THEN [sec |-> "bin", val |-> b] ELSE None]]

TwoRes == {"cm", "other"}
ThreeKeys == {"a", "u", "b"}
TwoVals == {v1, v2}
Sub == <<"sub">>
MCAnns == {Sub}
MCShapes == [r \in TwoRes |->
    IF r = "cm" THEN {Shape1(TRUE, None, v1, None), Shape1(TRUE, None, v2, None),
                      Shape1(TRUE, Sub, v2, v1), Shape1(FALSE, None, v1, None)}
    ELSE {Shape2(v1)}]

(* Key a moves from binaryData to data with the value unchanged. *)
InBin == [Shape1(TRUE, None, v1, None) EXCEPT !.data["a"].sec = "bin"]

(* Both objects have the key a: only UNIQUE_FILENAMES keeps their files apart. *)
PollShapes == [MCShapes EXCEPT !["other"] = {[InBin EXCEPT !.data["a"].val = v2]}]

(* The shapes that trip process_resource: another spelling of FOLDER, the other *)
(* section, and a.url instead of a, which has the same file.                    *)
Slashed == <<"/", "data", "/">>
HealAnns == {Slashed}
HealShapes == [r \in TwoRes |->
    IF r = "cm" THEN {Shape1(TRUE, None, v1, None), Shape1(TRUE, Slashed, v1, None), InBin,
                      Shape1(TRUE, None, None, v1)}
    ELSE {Shape2(v1)}]

MovedShapes == [r \in TwoRes |-> IF r = "cm" THEN {InBin, Shape1(TRUE, None, v1, None)} ELSE {}]
OneShape == [r \in TwoRes |-> IF r = "cm" THEN {Shape1(TRUE, None, v1, None)} ELSE {Shape2(v1)}]

(* The other object is a Secret in the same namespace, or a ConfigMap in another. *)
OtherKind == [r \in TwoRes |-> IF r = "cm" THEN "configmap" ELSE "secret"]
SameKind == [r \in TwoRes |-> "configmap"]
SameNs == [r \in TwoRes |-> "ns1"]
OtherNs == [r \in TwoRes |-> IF r = "cm" THEN "ns1" ELSE "ns2"]
MCNameOf == [r \in TwoRes |-> <<r>>]
NsAndName == [r \in TwoRes |-> IF r = "cm" THEN "ns1cm" ELSE "ns2other"]
MCUrlKeys == {"u"}
MCFileOf == [k \in ThreeKeys |-> <<k>>]
AliasFileOf == [k \in ThreeKeys |-> IF k = "b" THEN <<"b">> ELSE <<"a">>]
MCKeyRank == [k \in ThreeKeys |-> CASE k = "a" -> 1 [] k = "b" -> 2 [] k = "u" -> 3]
Data == <<"/", "data">>

TwoTasks == {"w1", "w2"}
KindTasks == [t \in TwoTasks |-> IF t = "w1" THEN "configmap" ELSE "secret"]
CmTasks == [t \in TwoTasks |-> "configmap"]
NsTasks == [t \in TwoTasks |-> IF t = "w1" THEN "ns1" ELSE "ns2"]
AllNs == [t \in TwoTasks |-> "ALL"]
SameNsTasks == [t \in TwoTasks |-> "ns1"]
NamedEntries == {<<"ns1", "configmap", <<"cm">>>>, <<"ns2", "configmap", <<"absent">>>>}
OneEntry == {<<"configmap", <<"cm">>>>}
MCTaskRank == [t \in TwoTasks |-> IF t = "w1" THEN 1 ELSE 2]
=============================================================================
