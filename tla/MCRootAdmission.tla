--------------------------- MODULE MCRootAdmission ---------------------------
(* Model-checking instance of RootAdmission: two tasks that admit turns of *)
(* one scope against two Stops of it.                                      *)
EXTENDS RootAdmission
=============================================================================
