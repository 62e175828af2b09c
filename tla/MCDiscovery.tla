---------------------------- MODULE MCDiscovery ----------------------------
(***************************************************************************)
(* Discovery for TLC: with and without a cluster and an API key.           *)
(***************************************************************************)
EXTENDS Discovery

AllConfigs == [cluster: BOOLEAN, key: BOOLEAN]
=============================================================================
