-------------------------- MODULE MCDesktopSession --------------------------
(* Model-checking instance of DesktopSession.                              *)
EXTENDS DesktopSession
=============================================================================
