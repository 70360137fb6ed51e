---------------------------- MODULE MCRpcWatchdog ----------------------------
(* Instances of RpcWatchdog for TLC: the limits keep their order but not      *)
(* their size.                                                                *)
EXTENDS RpcWatchdog
=============================================================================
