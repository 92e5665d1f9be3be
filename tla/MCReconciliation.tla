-------------------------- MODULE MCReconciliation --------------------------
(* Instances of the reconciliation engine: two records, so that an intent  *)
(* can have two attempts.                                                  *)
EXTENDS Reconciliation, TLC

IdSymmetry == Permutations(Ids)
=============================================================================
