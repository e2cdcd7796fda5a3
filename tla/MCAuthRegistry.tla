--------------------------- MODULE MCAuthRegistry ---------------------------
(* Model checking of AuthRegistry: two addresses and three policies, so that *)
(* a chain can mix a child, a parent and a grandparent of different types.   *)
EXTENDS AuthRegistry, TLC

Interchangeable == Permutations(Account)
=============================================================================
