----------------------------- MODULE MCPgStore -----------------------------
(* Instances of PgStore.tla for TLC.                                       *)
EXTENDS PgStore

CONSTANTS c1, c2, c3, p1, p2, k1

One    == [c \in {c1} |-> p1]
Three  == [c \in {c1, c2, c3} |-> IF c = c3 THEN p2 ELSE p1]
Newer  == [p \in {p1, p2} |-> IF p = p1 THEN 2 ELSE 3]
Alone  == [p \in {p1} |-> 2]

Fact  == <<[key |-> k1, kind |-> "plain"]>>
Entry == <<[key |-> k1, kind |-> "audit"]>>
Pair  == <<[key |-> k1, kind |-> "audit"], [key |-> k1, kind |-> "audit"]>>
Hand  == <<[key |-> k1, kind |-> "bare"]>>

Normal == {Fact, Pair}
Facts  == {Fact}
ByHand == {Entry, Hand}
=============================================================================
