----------------------------- MODULE MCController -----------------------------
EXTENDS Controller

CONSTANTS a, b, h, p, s, x

MCCommand ==
  [r \in Requests |->
     CASE r = p -> "policy" [] r = s -> "stop" [] r = x -> "bad" [] OTHER -> "run"]
=============================================================================
