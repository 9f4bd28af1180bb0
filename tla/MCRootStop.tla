----------------------------- MODULE MCRootStop -----------------------------
(* Model-checking instance of RootStop: one worker with its heartbeat and  *)
(* one or two Stops.                                                       *)
EXTENDS RootStop

MCTurn == 1 .. MaxTurn
MCRevision == 1 .. MaxRevision
=============================================================================
