------------------------------ MODULE MCFxEngine ------------------------------
(* Instances of the FX engine: two handlers, one pair.  The time to live   *)
(* is three fetches long.                                                  *)
EXTENDS FxEngine, TLC

ThreadSymmetry == Permutations(Handlers)
=============================================================================
