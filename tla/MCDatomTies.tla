----------------------------- MODULE MCDatomTies ----------------------------
(* Instances of DatomLog.tla for TLC, with and without what the theorems   *)
(* of DatomProofs.tla ask of the callers.                                  *)
EXTENDS DatomLog, TLC

CONSTANTS w1, w2, k1, k2, a, b, Ops, Lags, Open, MaxFacts

SomeFacts == [key : Keys, v : Vals, lag : Lags, op : Ops, open : Open]

(* Lists of facts, no two of the same key and valid_from.                  *)
SomeBatches ==
    {s \in SeqOf(SomeFacts, MaxFacts) : s # <<>> /\
        \A i, j \in DOMAIN s : i # j => s[i].key # s[j].key \/ s[i].lag # s[j].lag}

(* What two commutes of one dosync become when the second changes nothing, *)
(* a set-union of the same element twice: the same fact a second time.     *)
OrTwice == SomeBatches \cup {<<f, f>> : f \in SomeFacts}

(* Values are only ever compared, keys as well.                            *)
Same == Permutations(Vals) \cup Permutations(Keys)
=============================================================================
