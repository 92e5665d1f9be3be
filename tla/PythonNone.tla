------------------------------ MODULE PythonNone ------------------------------
(* What all the components use for "not there".                            *)

CONSTANT None \* Python's None
=============================================================================
