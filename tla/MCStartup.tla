----------------------------- MODULE MCStartup -----------------------------
(***************************************************************************)
(* Instances of Startup for TLC: a switch and a path, one of whose values  *)
(* holds a '#' and is cut off when it is read from a file.                 *)
(***************************************************************************)
EXTENDS Startup

TwoOptions == <<"debug-buffered", "secure-prefix">>
Defaulted  == [o \in OptionSet |-> IF o = "debug-buffered" THEN "true" ELSE "certs"]
Switches   == [o \in {"debug-buffered"} |-> "true"]
Chosen    == [o \in OptionSet |-> IF o = "debug-buffered" THEN {"true", "false"}
                                   ELSE {"C:/certs", "C:/#1"}]
CutOff     == [v \in {"true", "false", "certs", "C:/certs", "C:/#1", "C:/"} |->
                 IF v = "C:/#1" THEN "C:/" ELSE v]
=============================================================================
