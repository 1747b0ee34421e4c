---------------------------- MODULE MCStoreFeed ----------------------------
(***************************************************************************)
(* Instances of StoreFeed for TLC: catalogues of up to five applications,  *)
(* batches of two, so that there are full and partial batches, batches of  *)
(* failures only, and up to three requestMore calls.                       *)
(***************************************************************************)
EXTENDS StoreFeed

MCFlaggable == {1}
=============================================================================
