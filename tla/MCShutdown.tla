---------------------------- MODULE MCShutdown ----------------------------
(***************************************************************************)
(* Instances of Shutdown for TLC: a pool whose queue is full with one task *)
(* or two, so that the RPC thread waits for it when the user quits.        *)
(***************************************************************************)
EXTENDS Shutdown
=============================================================================
