----------------------------- MODULE OrderedLog -----------------------------
(***************************************************************************)
(* What PostgresStore promises its callers, whatever the number of         *)
(* processes: one log of batches, each with the next transaction id, that  *)
(* holds every batch at most once and holds those whose caller was told a  *)
(* transaction id.  A caller that is told of an error has nothing in the   *)
(* log, unless its connection was lost.  PgStore.tla implements it.        *)
(***************************************************************************)
EXTENDS Naturals, Sequences

VARIABLES committed,   \* the calls whose batch is in the log, in order
          answer       \* what each call was told: Open, Refused, Lost or a tx

Open    == <<"open">>
Refused == <<"refused">>
Lost    == <<"lost">>       \* the connection or the process is gone
Told(n) == <<"tx", n>>

Init == committed = <<>> /\ answer = <<>>

Call == answer' = Append(answer, Open) /\ UNCHANGED committed

(* The batch of call k becomes transaction Len(committed) + 1, and whoever *)
(* is still there is told so.                                              *)
Commit(k) ==
    /\ answer[k] = Open /\ \A i \in DOMAIN committed : committed[i] # k
    /\ committed' = Append(committed, k)
    /\ answer' \in {[answer EXCEPT ![k] = Told(Len(committed) + 1)], [answer EXCEPT ![k] = Lost]}

(* Calls end without their batch: in an error, or with their process.      *)
Fail(K) ==
    /\ \A k \in K : answer[k] = Open
    /\ \E how \in [K -> {Refused, Lost}] :
          answer' = [k \in DOMAIN answer |-> IF k \in K THEN how[k] ELSE answer[k]]
    /\ UNCHANGED committed

Next == \/ Call
        \/ \E k \in DOMAIN answer : Commit(k)
        \/ \E K \in SUBSET DOMAIN answer : Fail(K)

Spec == Init /\ [][Next]_<<committed, answer>>
=============================================================================
