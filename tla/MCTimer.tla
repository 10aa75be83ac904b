------------------------------- MODULE MCTimer -------------------------------
(* A one-shot event and a repeated one that comes before it.               *)
EXTENDS Timer, TLC

CONSTANTS once, often

MCEvents == {once, often}
MCInterval == (once :> 3) @@ (often :> 2)
MCRepeated == {often}
=============================================================================
