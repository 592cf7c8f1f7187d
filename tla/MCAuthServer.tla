---------------------------- MODULE MCAuthServer ---------------------------
(* AuthServer for TLC: requests are interchangeable model values.          *)
EXTENDS AuthServer, TLC

ReqSymmetry == Permutations(Reqs)
=============================================================================
