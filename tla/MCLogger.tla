------------------------------- MODULE MCLogger -------------------------------
(* Two lines and the handler's for one log, so that a file fills, is opened    *)
(* once more and is followed by the next, and one line for the other log.      *)
EXTENDS Logger

MCMaxLines == ("rpc" :> 2) @@ ("app" :> 1)
=============================================================================
