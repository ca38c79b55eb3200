---------------------------- MODULE MCNodeServer ----------------------------
(* Model values for checking NodeServer.                                   *)
EXTENDS NodeServer

CONSTANTS c1, c2, c3
=============================================================================
