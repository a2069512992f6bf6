-------------------------- MODULE MCDocumentRecords --------------------------
(* Instances of DocumentRecords for TLC: one document, two tags, and one      *)
(* field with two values; a list by a tag and a value.                        *)
EXTENDS DocumentRecords, TLC

CONSTANTS d1, d2, n1, n2, c1, lower, upper, w1, r1, r2, q1

OneDoc == {d1}
TwoNames == {n1, n2}
FirstName == {n1}
FirstAlone == {{n1}}
OneFolder == [c \in Fields |-> "folder"]
OneField == {c1}
TwoSpellings == {lower, upper}
OneWord == {w1}
NoFileWords == [d \in Docs |-> {}]
AsItIs == [v \in Values |-> v]
OneRule == {[words |-> {w1}, excludes |-> {}, all |-> FALSE, scope |-> "text"]}
TwoRequests == {r1, r2}
OneReader == {q1}

List(trash, query, T, C) == [trash |-> trash, query |-> query, tags |-> T, fields |-> C]
OneList == {List(FALSE, {lower}, {n1}, {})}
RequestSymmetry == Permutations(TwoRequests)
=============================================================================
