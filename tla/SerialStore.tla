----------------------------- MODULE SerialStore -----------------------------
(***************************************************************************)
(* What a dosync promises: the references behave as one array of cells on  *)
(* which whole transactions run one at a time.  A transaction is described *)
(* by the record it leaves behind: the values its body saw, the values it  *)
(* assigned and the increments it queued as commutes.  Dosync.tla is shown *)
(* to implement this specification.                                        *)
(***************************************************************************)
EXTENDS Integers

CONSTANT Refs          \* the references (one attribute of one entity each)

None == -1             \* "no entry" in a dict keyed by reference

Dicts == [Refs -> Nat \cup {None}]

(* What a committed transaction did.                                       *)
Commits == [seen : Dicts, wrote : Dicts, added : [Refs -> Nat]]

Nothing == [seen  |-> [r \in Refs |-> None],
            wrote |-> [r \in Refs |-> None],
            added |-> [r \in Refs |-> 0]]

VARIABLES kv,          \* the current value of every reference
          last         \* the latest transaction, Nothing before the first

Init == /\ kv = [r \in Refs |-> 0]
        /\ last = Nothing

(* Every value the body saw is still the value of the reference, and its   *)
(* effect is applied to the state it saw in one step.  An explicit write   *)
(* of a reference supersedes the commutes queued on it.                    *)
Atomically(c) ==
    /\ \A r \in Refs : c.seen[r] \in {None, kv[r]}
    /\ kv' = [r \in Refs |-> IF c.wrote[r] # None THEN c.wrote[r]
                                                  ELSE kv[r] + c.added[r]]
    /\ last' = c

Next == last' \in Commits /\ Atomically(last')

Spec == Init /\ [][Next]_<<kv, last>>
=============================================================================
