----------------------------- MODULE MCDatomLog -----------------------------
(* The instances of DatomLog.tla in which callers keep to those premises.  *)
EXTENDS MCDatomTies

ASSUME PremisesHold == CallersOnlyAssert /\ NoTies /\ ClosedComesLast
=============================================================================
