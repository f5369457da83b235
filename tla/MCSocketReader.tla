--------------------------- MODULE MCSocketReader ---------------------------
(* Two connections of one client and one of another, which is not trusted.  *)
EXTENDS SocketReader, TLC

CONSTANTS c1, c2, c3, a, b

MCOwner == (c1 :> a) @@ (c2 :> a) @@ (c3 :> b)
=============================================================================
