----------------------------- MODULE MCRpcServer -----------------------------
(* A busy connection and one whose peer sends less, for the two threads of *)
(* RpcServer to order in every way.                                        *)
EXTENDS RpcServer

CONSTANTS c1, c2

MCConns == {c1, c2}
MCMaxRequests == (c1 :> 2) @@ (c2 :> 0)
=============================================================================
