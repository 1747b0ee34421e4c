----------------------------- MODULE MCItemPage -----------------------------
(***************************************************************************)
(* Instances of ItemPage for TLC: an item the user owns and one of another *)
(* owner, with a build each, or with two for the latter only, so that a    *)
(* build in use can go away and another be left.                           *)
(***************************************************************************)
EXTENDS ItemPage

OneBuild == [i \in Items |-> IF i \in Owned THEN {"b1"} ELSE {"b2"}]
TwoBuilds == [i \in Items |-> IF i \in Owned THEN {} ELSE {"b2", "b3"}]
=============================================================================
