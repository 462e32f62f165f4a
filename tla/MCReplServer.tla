---------------------------- MODULE MCReplServer ----------------------------
(* Instances of ReplServer.tla for TLC.                                    *)
EXTENDS ReplServer, TLC

CONSTANTS c1, c2

SameConns == Permutations(Conns)
=============================================================================
