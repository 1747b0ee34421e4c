-------------------------- MODULE MCConfigureForm --------------------------
(***************************************************************************)
(* Instances of ConfigureForm for TLC: an item with a build and media, or  *)
(* two owned items, one with a build and one with media of that name.      *)
(***************************************************************************)
EXTENDS ConfigureForm

BuildAndMedia == [i \in Items |-> {<<"build", "1.0">>, <<"media", "clip">>}]

BuildOrMedia == [i \in Items |->
    IF i = "mine" THEN {<<"build", "1.0">>} ELSE {<<"media", "1.0">>}]
=============================================================================
