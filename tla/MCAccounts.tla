------------------------------ MODULE MCAccounts -------------------------------
(* Instances of Accounts for TLC: an administrator, a manager of accounts and *)
(* an account without that right, or a database without accounts.             *)
EXTENDS Accounts, TLC

CONSTANTS a, b, manage, read, p

ThreeIds == 1 .. 3
TwoRequests == {a, b}
ThreeVersions == 1 .. 3
TwoRights == {manage, read}
OnePassword == {p}
Admin == [admin |-> TRUE, rights |-> TwoRights]
Manager == [admin |-> FALSE, rights |-> TwoRights]
Reader == [admin |-> FALSE, rights |-> {read}]
ThreeAccesses == {Admin, Manager, Reader}
Row(access) == [access |-> access, on |-> TRUE, password |-> p, row |-> 1, session |-> 1]
None == [i \in ThreeIds |-> NoUser]
Left == {None, (1 :> Row(Admin)) @@ (2 :> Row(Manager)) @@ (3 :> Row(Reader))}
NoConfig == <<>>
RequestSymmetry == Permutations(TwoRequests)
=============================================================================
