------------------------------ MODULE MCDosync ------------------------------
(* Instances of Dosync.tla for TLC.                                        *)
EXTENDS Dosync, TLC

CONSTANTS t1, t2, t3, t4, x, y, z

OneProcess   == [t \in Threads |-> "p1"]
TwoProcesses == [t \in Threads |-> IF t = t1 THEN "p1" ELSE "p2"]

(* The two references are interchangeable.                                 *)
SameRefs == Permutations({x, y})
=============================================================================
