----------------------------- MODULE MCEventLoop -----------------------------
(***************************************************************************)
(* Two threads, of which one posts twice, so that its tasks have an order. *)
(***************************************************************************)
EXTENDS EventLoop, TLC

CONSTANTS t1, t2

MCThreads == {t1, t2}
MCMaxPosts == (t1 :> 2) @@ (t2 :> 1)
=============================================================================
