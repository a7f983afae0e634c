---------------------------- MODULE MCLifeCycle ----------------------------
(* A small instance of LifeCycle for TLC: two threads, any configuration.  *)
EXTENDS LifeCycle, TLC

CONSTANTS t1, t2

Symmetry == Permutations({t1, t2})
=============================================================================
