--------------------------- MODULE MCAuthSessions ---------------------------
(* A small instance of AuthSessions: its requests and its users are each   *)
(* interchangeable.                                                        *)
EXTENDS AuthSessions, TLC

Symmetry == Permutations(Request) \cup Permutations(User)
=============================================================================
