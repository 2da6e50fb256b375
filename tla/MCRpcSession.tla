---------------------------- MODULE MCRpcSession ----------------------------
(* Instances of RpcSession for TLC.                                        *)
EXTENDS RpcSession

CONSTANTS c1, c2

MCCalls == {c1, c2}
=============================================================================
