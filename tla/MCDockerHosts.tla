--------------------------- MODULE MCDockerHosts ---------------------------
(* Two calls at a time: one works on containers in every way that takes    *)
(* several requests, the other gets in its way.                            *)
EXTENDS DockerHosts, TLC

CONSTANTS c1, c2

MCOps == (c1 :> {"connect", "run", "exec", "upload", "download"})
         @@ (c2 :> {"connect", "disconnect", "start", "rm", "logs", "image", "look"})
=============================================================================
