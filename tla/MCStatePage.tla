----------------------------- MODULE MCStatePage -----------------------------
(* The state page on its own with one store, for the question about its     *)
(* form: two records, one of them taken.                                    *)
EXTENDS StatePage

MCKeyOrder == <<"r1", "r2">>
MCIdentity == [s1 |-> "x"]
MCAppOf == [r1 |-> "A", r2 |-> "A"]
OneStore == [ids |-> <<"s1">>, active |-> "s1"]
MCStoreLists == {OneStore}
MCDb == [x |-> [r1 |-> "old", r2 |-> None]]

Init == SInit(MCDb, OneStore)
Spec == Init /\ [][SNext]_svars
=============================================================================
