---------------------------- MODULE MCUserStore -----------------------------
(* A small instance of UserStore: calls, usernames and addresses are each  *)
(* interchangeable.                                                        *)
EXTENDS UserStore, TLC

Symmetry == Permutations(Request) \cup Permutations(Username) \cup Permutations(Address)
=============================================================================
