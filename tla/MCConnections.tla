--------------------------- MODULE MCConnections ---------------------------
(* Two addresses of one machine, and a machine of another file system.         *)
EXTENDS Connections, TLC

CONSTANTS a1, a2, a3, h1, h2, n1, n2

TwoOfOne   == a1 :> h1 @@ a2 :> h1 @@ a3 :> h2
FileSystem == h1 :> n1 @@ h2 :> n2
TwoNames   == <<a1, a2>>
=============================================================================
