---------------------------- MODULE MCNavigation ----------------------------
(***************************************************************************)
(* Instances of Navigation for TLC: an owned item and another, with one    *)
(* picture or two depending on the build.                                  *)
(***************************************************************************)
EXTENDS Navigation

Pictures == [i \in Items |-> [b \in Builds |-> IF b = "latest" THEN 2 ELSE 1]]
=============================================================================
