---------------------------- MODULE MCLocalTasks ----------------------------
(* Model-checking instance of LocalTasks: three calls against a queue of   *)
(* one command.                                                            *)
EXTENDS LocalTasks
=============================================================================
