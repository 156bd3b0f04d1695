-------------------------- MODULE MCConnectionPool --------------------------
(* Model checking of ConnectionPool: the callers are interchangeable.      *)
EXTENDS ConnectionPool, TLC

CallerSymmetry == Permutations(Callers)
=============================================================================
