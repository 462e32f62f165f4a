---------------------------- MODULE DatomProofs ----------------------------
(***************************************************************************)
(* Proofs about DatomLog.tla: what is written (LogInv), how what is written *)
(* is dated (DateInv), what entity() and a projection read from such a log, *)
(* and transact_batch beside transact.                                     *)
(*                                                                         *)
(* LogWellFormed needs no premise.  The rest holds for callers that leave  *)
(* retracts to transact and never date two facts of a key alike, and       *)
(* BatchEquivalent in addition for batches in which a closed assert does   *)
(* not come between two asserts of its key: without them the runs          *)
(* DatomLogReassert and DatomLogProjection show the counterexamples.       *)
(***************************************************************************)
EXTENDS DatomLog, FiniteSetTheorems, SequenceTheorems, TLAPS

-----------------------------------------------------------------------------
(* Sets of numbers, and sequences.                                         *)

(* Every nonempty set of numbers has a least one.                          *)
LEMMA LeastNat ==
    ASSUME NEW T, T \subseteq Nat, T # {}
    PROVE  \E n \in T : \A m \in T : n <= m
<1> DEFINE F == {0 .. k : k \in T}
<1>1. F \subseteq FiniteSubsetsOf(Nat) /\ F # {}
  <2>1. \A k \in T : IsFiniteSet(0 .. k) /\ 0 .. k \in SUBSET Nat
    BY FS_Interval
  <2> QED BY <2>1 DEF FiniteSubsetsOf
<1>2. PICK U \in F : \A V \in F : ~ (<<V, U>> \in StrictSubsetOrdering(Nat))
  BY <1>1, FS_StrictSubsetOrderingWellFounded, WFMin
<1>3. PICK n \in T : U = 0 .. n
  OBVIOUS
<1>4. ASSUME NEW m \in T, ~ (n <= m) PROVE FALSE
  <2>1. 0 .. m \subseteq 0 .. n /\ 0 .. m # 0 .. n
    BY <1>4
  <2>2. <<0 .. m, 0 .. n>> \in StrictSubsetOrdering(Nat)
    BY <2>1 DEF StrictSubsetOrdering
  <2> QED BY <2>2, <1>2, <1>3
<1> QED BY <1>4

(* Among the positions in T one has the greatest number in g.              *)
LEMMA Greatest ==
    ASSUME NEW n \in Nat, NEW T \in SUBSET (1 .. n), T # {},
           NEW g, \A i \in T : g[i] \in Int
    PROVE  \E m \in T : \A k \in T : g[k] <= g[m]
<1> DEFINE Above(m) == {k \in T : g[k] > g[m]}
           F == {Above(m) : m \in T}
<1>1. \A m \in T : IsFiniteSet(Above(m)) /\ Above(m) \in SUBSET (1 .. n)
  <2>1. IsFiniteSet(1 .. n)
    BY FS_Interval
  <2> TAKE m \in T
  <2>2. Above(m) \in SUBSET (1 .. n)
    OBVIOUS
  <2> QED BY <2>1, <2>2, FS_Subset
<1>2. F \subseteq FiniteSubsetsOf(1 .. n) /\ F # {}
  <2> HIDE DEF Above
  <2> QED BY <1>1 DEF FiniteSubsetsOf
<1>3. PICK U \in F : \A V \in F : ~ (<<V, U>> \in StrictSubsetOrdering(1 .. n))
  <2> HIDE DEF F
  <2> QED BY <1>2, FS_StrictSubsetOrderingWellFounded, WFMin
<1>4. PICK m \in T : U = Above(m)
  OBVIOUS
<1>5. ASSUME NEW k \in T, ~ (g[k] <= g[m]) PROVE FALSE
  <2>1. g[k] > g[m]
    BY <1>5
  <2>2. Above(k) \subseteq Above(m) /\ k \in Above(m) /\ k \notin Above(k)
    <3>1. \A x \in Above(k) : g[x] > g[m]
      <4>1. \A x \in Above(k) : x \in T /\ g[x] \in Int /\ g[x] > g[k]
        OBVIOUS
      <4>2. g[k] \in Int /\ g[m] \in Int
        OBVIOUS
      <4> QED BY <2>1, <4>1, <4>2
    <3>2. g[k] \in Int
      OBVIOUS
    <3>3. ~ (g[k] > g[k])
      BY <3>2
    <3> QED BY <2>1, <3>1, <3>3
  <2>3. <<Above(k), Above(m)>> \in StrictSubsetOrdering(1 .. n)
    <3>1. Above(k) \in SUBSET (1 .. n) /\ Above(m) \in SUBSET (1 .. n)
      BY <1>1
    <3> HIDE DEF Above
    <3> QED BY <2>2, <3>1 DEF StrictSubsetOrdering
  <2>4. Above(k) \in F
    OBVIOUS
  <2> QED BY <2>3, <2>4, <1>3, <1>4
<1> QED BY <1>5

(* d is somewhere in s.                                                    *)
In(d, s) == \E i \in DOMAIN s : s[i] = d

LEMMA Long == ASSUME NEW S, NEW s \in Seq(S) PROVE Len(s) \in Nat /\ DOMAIN s = 1 .. Len(s)
BY LenProperties

LEMMA Elements ==
    ASSUME NEW S, NEW s \in Seq(S) PROVE \A i \in DOMAIN s : s[i] \in S
BY ElementOfSeq, LenProperties

LEMMA Joined ==
    ASSUME NEW S, NEW s \in Seq(S), NEW u \in Seq(S)
    PROVE  /\ s \o u \in Seq(S) /\ Len(s \o u) = Len(s) + Len(u)
           /\ DOMAIN s = 1 .. Len(s) /\ DOMAIN u = 1 .. Len(u)
           /\ Len(s) \in Nat /\ Len(u) \in Nat
           /\ DOMAIN (s \o u) = 1 .. Len(s) + Len(u)
           /\ \A i \in DOMAIN s : i \in DOMAIN (s \o u) /\ (s \o u)[i] = s[i]
           /\ \A i \in DOMAIN u : Len(s) + i \in DOMAIN (s \o u) /\ (s \o u)[Len(s) + i] = u[i]
           /\ \A i \in DOMAIN (s \o u) :
                 \/ i \in DOMAIN s /\ (s \o u)[i] = s[i]
                 \/ i - Len(s) \in DOMAIN u /\ (s \o u)[i] = u[i - Len(s)]
<1>1. /\ s \o u \in Seq(S) /\ Len(s \o u) = Len(s) + Len(u)
      /\ \A i \in 1 .. Len(s) + Len(u) :
            (s \o u)[i] = IF i <= Len(s) THEN s[i] ELSE u[i - Len(s)]
  BY ConcatProperties
<1>2. /\ DOMAIN s = 1 .. Len(s) /\ DOMAIN u = 1 .. Len(u) /\ Len(s) \in Nat /\ Len(u) \in Nat
      /\ DOMAIN (s \o u) = 1 .. Len(s) + Len(u)
  BY <1>1, LenProperties
<1> DEFINE j == s \o u
<1>3. \A i \in DOMAIN s : i \in DOMAIN j /\ j[i] = s[i]
  <2> HIDE DEF j
  <2>1. \A i \in 1 .. Len(s) + Len(u) : j[i] = IF i <= Len(s) THEN s[i] ELSE u[i - Len(s)]
    BY <1>1 DEF j
  <2> QED BY <1>2, <2>1 DEF j
<1>4. \A i \in DOMAIN u : Len(s) + i \in DOMAIN j /\ j[Len(s) + i] = u[i]
  <2>1. \A i \in 1 .. Len(s) + Len(u) : j[i] = IF i <= Len(s) THEN s[i] ELSE u[i - Len(s)]
    BY <1>1
  <2>2. DOMAIN j = 1 .. Len(s) + Len(u)
    BY <1>2
  <2> HIDE DEF j
  <2> TAKE i \in DOMAIN u
  <2>3. i \in 1 .. Len(u) /\ Len(s) + i \in 1 .. Len(s) + Len(u) /\ ~ (Len(s) + i <= Len(s))
        /\ (Len(s) + i) - Len(s) = i
    BY <1>2
  <2> QED BY <2>1, <2>2, <2>3
<1>5. \A i \in DOMAIN j : \/ i \in DOMAIN s /\ j[i] = s[i]
                          \/ i - Len(s) \in DOMAIN u /\ j[i] = u[i - Len(s)]
  <2>1. \A i \in 1 .. Len(s) + Len(u) : j[i] = IF i <= Len(s) THEN s[i] ELSE u[i - Len(s)]
    BY <1>1
  <2>2. DOMAIN j = 1 .. Len(s) + Len(u)
    BY <1>2
  <2> HIDE DEF j
  <2> QED BY <1>2, <2>1, <2>2
<1> QED BY <1>1, <1>2, <1>3, <1>4, <1>5

(* The one sequence that a loop body adds: d, behind p when there is one.  *)
LEMMA Single == ASSUME NEW S, NEW d \in S
                PROVE  <<d>> \in Seq(S) /\ Len(<<d>>) = 1 /\ <<d>>[1] = d
OBVIOUS

LEMMA Added ==
    ASSUME NEW S, NEW s \in Seq(S), NEW d \in S
    PROVE  /\ s \o <<d>> \in Seq(S) /\ Len(s) \in Nat /\ Len(s \o <<d>>) = Len(s) + 1
           /\ DOMAIN s = 1 .. Len(s) /\ DOMAIN (s \o <<d>>) = 1 .. Len(s) + 1
           /\ \A i \in DOMAIN s : i \in DOMAIN (s \o <<d>>) /\ (s \o <<d>>)[i] = s[i]
           /\ (s \o <<d>>)[Len(s) + 1] = d
           /\ \A i \in DOMAIN (s \o <<d>>) :
                 i \in DOMAIN s \/ i = Len(s) + 1
<1>1. <<d>> \in Seq(S) /\ Len(<<d>>) = 1 /\ <<d>>[1] = d
  BY Single
<1> DEFINE e == <<d>>
<1>2. e \in Seq(S) /\ Len(e) = 1 /\ e[1] = d
  BY <1>1
<1> HIDE DEF e
<1>3. /\ s \o e \in Seq(S) /\ Len(s \o e) = Len(s) + Len(e)
      /\ DOMAIN s = 1 .. Len(s) /\ DOMAIN e = 1 .. Len(e)
      /\ Len(s) \in Nat /\ Len(e) \in Nat
      /\ DOMAIN (s \o e) = 1 .. Len(s) + Len(e)
      /\ \A i \in DOMAIN s : i \in DOMAIN (s \o e) /\ (s \o e)[i] = s[i]
      /\ \A i \in DOMAIN e : (s \o e)[Len(s) + i] = e[i]
  <2>1. e \in Seq(S)
    BY <1>2
  <2> QED BY <2>1, Joined
<1>4. 1 \in DOMAIN e
  BY <1>2, LenProperties
<1> DEFINE j == s \o e
<1>5. \A i \in DOMAIN j : i \in DOMAIN s \/ i = Len(s) + 1
  <2>1. DOMAIN j = 1 .. Len(s) + 1
    BY <1>2, <1>3
  <2> HIDE DEF j
  <2> QED BY <1>3, <2>1
<1>6. /\ j \in Seq(S) /\ Len(s) \in Nat /\ Len(j) = Len(s) + 1
      /\ DOMAIN s = 1 .. Len(s) /\ DOMAIN j = 1 .. Len(s) + 1
      /\ \A i \in DOMAIN s : i \in DOMAIN j /\ j[i] = s[i]
      /\ j[Len(s) + 1] = d
  BY <1>2, <1>3, <1>4
<1> QED BY <1>5, <1>6 DEF e
-----------------------------------------------------------------------------
(* Recursion over a sequence: what st becomes at place i of x, in Transact *)
(* and in TransactBatch (of the log s at time t), and in Rebuilt (of x as  *)
(* the log, for the key s).                                                *)
Hop(what, s, x, i, st, t, forced) ==
    CASE what = "each"  -> LookedUp(s, st, x[i], t, forced)
      [] what = "batch" -> Indexed(s, st, x[i], t, forced)
      [] what = "shown" -> IF x[i].key = s THEN Apply(st, x[i]) ELSE st

Chain(what, s, x, base, t, forced, n, f) ==
    f = [i \in 0 .. n |-> IF i = 0 THEN base ELSE Hop(what, s, x, i, f[i - 1], t, forced)]

(* Such a function exists for every length: a least one without would not  *)
(* be the least.                                                           *)
LEMMA ChainExists ==
    ASSUME NEW what, NEW s, NEW x, NEW base, NEW t, NEW forced, NEW n \in Nat
    PROVE  \E f : Chain(what, s, x, base, t, forced, n, f)
<1> DEFINE Hp(i, st) == Hop(what, s, x, i, st, t, forced)
           Ch(m, f) == f = [i \in 0 .. m |-> IF i = 0 THEN base ELSE Hp(i, f[i - 1])]
           Bad == {m \in Nat : ~ \E f : Ch(m, f)}
<1> HIDE DEF Hp
<1>1. CASE Bad = {}
  <2>1. PICK f : Ch(n, f)
    BY <1>1
  <2>2. Chain(what, s, x, base, t, forced, n, f)
    BY <2>1 DEF Chain, Hp
  <2> QED BY <2>2
<1>2. CASE Bad # {}
  <2>1. PICK m \in Bad : \A l \in Bad : m <= l
    <3>1. Bad \subseteq Nat
      OBVIOUS
    <3> HIDE DEF Bad
    <3> QED BY <1>2, <3>1, LeastNat
  <2>2. m # 0
    <3>1. Ch(0, [i \in 0 .. 0 |-> base])
      OBVIOUS
    <3> QED BY <3>1, <2>1
  <2>3. m \in Nat /\ m - 1 \in Nat /\ m - 1 \notin Bad
    BY <2>1, <2>2
  <2>4. PICK f : Ch(m - 1, f)
    BY <2>3
  <2> DEFINE g == [i \in 0 .. m |-> IF i = m THEN Hp(m, f[m - 1]) ELSE f[i]]
  <2>5. \A i \in 0 .. m : g[i] = IF i = 0 THEN base ELSE Hp(i, g[i - 1])
    <3> TAKE i \in 0 .. m
    <3>1. CASE i = 0
      BY <3>1, <2>2, <2>3, <2>4
    <3>2. CASE i = m
      <4>1. g[m] = Hp(m, f[m - 1]) /\ g[m - 1] = f[m - 1]
        BY <2>3
      <4> HIDE DEF g
      <4> QED BY <3>2, <4>1, <2>2
    <3>3. CASE i # 0 /\ i # m
      <4>1. i \in 0 .. m - 1 /\ i - 1 \in 0 .. m - 1 /\ i - 1 \in 0 .. m /\ i - 1 # m
        BY <3>3, <2>3
      <4>2. f[i] = Hp(i, f[i - 1])
        BY <2>4, <3>3, <4>1
      <4>3. g[i] = f[i] /\ g[i - 1] = f[i - 1]
        BY <3>3, <4>1
      <4> HIDE DEF g
      <4> QED BY <3>3, <4>2, <4>3
    <3> QED BY <3>1, <3>2, <3>3
  <2>6. g = [i \in 0 .. m |-> g[i]]
    OBVIOUS
  <2>7. Ch(m, g)
    <3> HIDE DEF g
    <3> QED BY <2>5, <2>6
  <2> QED BY <2>1, <2>7
<1> QED BY <1>1, <1>2

(* What Transact, TransactBatch and Rebuilt return is the end of a run of  *)
(* their loop bodies.                                                      *)
RunsTransact(f, s, x, t, forced) ==
    /\ Transact(s, x, t, forced) = f[Len(x)] /\ f[0] = NoDatoms
    /\ \A i \in 1 .. Len(x) : f[i] = LookedUp(s, f[i - 1], x[i], t, forced)

RunsBatch(f, s, x, t, forced) ==
    /\ TransactBatch(s, x, t, forced) = f[Len(x)] /\ f[0] = NoDatoms
    /\ \A i \in 1 .. Len(x) : f[i] = Indexed(s, f[i - 1], x[i], t, forced)

LEMMA TransactIs ==
    ASSUME NEW s, NEW x, Len(x) \in Nat, NEW t, NEW forced
    PROVE  \E f : RunsTransact(f, s, x, t, forced)
<1> DEFINE n == Len(x)
           hop(i, st) == LookedUp(s, st, x[i], t, forced)
           f == CHOOSE g : g = [i \in 0 .. n |-> IF i = 0 THEN NoDatoms ELSE hop(i, g[i - 1])]
<1>1. Transact(s, x, t, forced) = f[n]
  BY Zenon DEF Transact
<1>2. \A i, st : Hop("each", s, x, i, st, t, forced) = hop(i, st)
  BY DEF Hop
<1> HIDE DEF n, hop
<1>3. n \in Nat
  BY DEF n
<1>4. PICK g : Chain("each", s, x, NoDatoms, t, forced, n, g)
  BY <1>3, ChainExists
<1>5. g = [i \in 0 .. n |-> IF i = 0 THEN NoDatoms ELSE hop(i, g[i - 1])]
  BY <1>2, <1>4 DEF Chain
<1>6. f = [i \in 0 .. n |-> IF i = 0 THEN NoDatoms ELSE hop(i, f[i - 1])]
  BY <1>5
<1> HIDE DEF f
<1>7. f[0] = NoDatoms /\ \A i \in 1 .. n : f[i] = hop(i, f[i - 1])
  <2>1. 0 \in 0 .. n /\ \A i \in 1 .. n : i \in 0 .. n /\ i # 0
    BY <1>3
  <2> QED BY <1>6, <2>1, Zenon
<1> QED BY <1>1, <1>7 DEF n, hop, RunsTransact

LEMMA TransactBatchIs ==
    ASSUME NEW s, NEW x, Len(x) \in Nat, NEW t, NEW forced
    PROVE  \E f : RunsBatch(f, s, x, t, forced)
<1> DEFINE n == Len(x)
           hop(i, st) == Indexed(s, st, x[i], t, forced)
           f == CHOOSE g : g = [i \in 0 .. n |-> IF i = 0 THEN NoDatoms ELSE hop(i, g[i - 1])]
<1>1. TransactBatch(s, x, t, forced) = f[n]
  BY Zenon DEF TransactBatch
<1>2. \A i, st : Hop("batch", s, x, i, st, t, forced) = hop(i, st)
  BY DEF Hop
<1> HIDE DEF n, hop
<1>3. n \in Nat
  BY DEF n
<1>4. PICK g : Chain("batch", s, x, NoDatoms, t, forced, n, g)
  BY <1>3, ChainExists
<1>5. g = [i \in 0 .. n |-> IF i = 0 THEN NoDatoms ELSE hop(i, g[i - 1])]
  BY <1>2, <1>4 DEF Chain
<1>6. f = [i \in 0 .. n |-> IF i = 0 THEN NoDatoms ELSE hop(i, f[i - 1])]
  BY <1>5
<1> HIDE DEF f
<1>7. f[0] = NoDatoms /\ \A i \in 1 .. n : f[i] = hop(i, f[i - 1])
  <2>1. 0 \in 0 .. n /\ \A i \in 1 .. n : i \in 0 .. n /\ i # 0
    BY <1>3
  <2> QED BY <1>6, <2>1, Zenon
<1> QED BY <1>1, <1>7 DEF n, hop, RunsBatch

LEMMA RebuiltIs ==
    ASSUME NEW s, Len(s) \in Nat, NEW k
    PROVE  \E f : /\ Rebuilt(s, k) = f[Len(s)] /\ f[0] = [v |-> NoValue, won |-> <<>>]
                  /\ \A i \in 1 .. Len(s) :
                        f[i] = IF s[i].key = k THEN Apply(f[i - 1], s[i]) ELSE f[i - 1]
<1> DEFINE n == Len(s)
           blank == [v |-> NoValue, won |-> <<>>]
           hop(i, st) == IF s[i].key = k THEN Apply(st, s[i]) ELSE st
           f == CHOOSE g : g = [i \in 0 .. n |-> IF i = 0 THEN blank ELSE hop(i, g[i - 1])]
<1>1. Rebuilt(s, k) = f[n]
  BY Zenon DEF Rebuilt
<1>2. \A i, st : Hop("shown", k, s, i, st, 0, FALSE) = hop(i, st)
  BY DEF Hop
<1> HIDE DEF n, hop, blank
<1>3. n \in Nat
  BY DEF n
<1>4. PICK g : Chain("shown", k, s, blank, 0, FALSE, n, g)
  BY <1>3, ChainExists
<1>5. g = [i \in 0 .. n |-> IF i = 0 THEN blank ELSE hop(i, g[i - 1])]
  BY <1>2, <1>4 DEF Chain
<1>6. f = [i \in 0 .. n |-> IF i = 0 THEN blank ELSE hop(i, f[i - 1])]
  BY <1>5
<1> HIDE DEF f
<1>7. f[0] = blank /\ \A i \in 1 .. n : f[i] = hop(i, f[i - 1])
  <2>1. 0 \in 0 .. n /\ \A i \in 1 .. n : i \in 0 .. n /\ i # 0
    BY <1>3
  <2> QED BY <1>6, <2>1, Zenon
<1> QED BY <1>1, <1>7 DEF n, hop, blank
-----------------------------------------------------------------------------
(* What one fact adds.                                                     *)
Work(st) ==
    /\ st = [new |-> st.new, old |-> st.old, refused |-> st.refused, own |-> st.own]
    /\ st.new \in Seq(Datoms) /\ st.old \in Seq(Int) /\ st.refused \in BOOLEAN

IsPrior(prior) == prior = <<>> \/ \E p \in Datoms : prior = <<p>>

Refuses(f, prior, t, forced) ==
    f.op = "assert" /\ prior # <<>> /\ t - f.lag < prior[1].from /\ ~forced

Adds(st, r, f, prior, t) ==
    \/ /\ f.op = "assert" => prior = <<>>
       /\ r.new = st.new \o <<Datom(f, t)>> /\ r.old = st.old
    \/ /\ f.op = "assert"
       /\ \E p \in Datoms :
             /\ prior = <<p>>
             /\ r.new = (st.new \o <<Companion(p, t - f.lag, t)>>) \o <<Datom(f, t)>>
             /\ r.old = st.old \o <<p.tx>>

LEMMA DatomIs ==
    ASSUME NEW f \in Facts, NEW t \in Nat
    PROVE  /\ Datom(f, t) \in Datoms
           /\ Datom(f, t).tx = Placeholder /\ Datom(f, t).time = t /\ Datom(f, t).inv = 0
           /\ Datom(f, t).key = f.key /\ Datom(f, t).op = f.op /\ Datom(f, t).open = f.open
           /\ Datom(f, t).from = t - f.lag /\ Datom(f, t).auto = FALSE /\ f.key \in Keys
BY DEF Datom, Datoms, Facts, Placeholder

LEMMA CompanionIs ==
    ASSUME NEW p \in Datoms, NEW vf \in Int, NEW t \in Nat
    PROVE  /\ Companion(p, vf, t) \in Datoms /\ Companion(p, vf, t).tx = Placeholder
           /\ Companion(p, vf, t).time = t /\ Companion(p, vf, t).inv = 0
           /\ Companion(p, vf, t).key = p.key /\ Companion(p, vf, t).v = p.v
           /\ Companion(p, vf, t).op = "retract" /\ Companion(p, vf, t).auto = TRUE
           /\ Companion(p, vf, t).from = IF vf < p.from THEN vf ELSE p.from
BY DEF Companion, ClosedAt, Datoms, Placeholder

LEMMA RefusedIs ==
    ASSUME NEW st, Work(st), NEW x
    PROVE  [st EXCEPT !.refused = x]
              = [new |-> st.new, old |-> st.old, refused |-> x, own |-> st.own]
<1>1. [st EXCEPT !.refused = x] = [st EXCEPT !["refused"] = x]
  BY Zenon
<1>2. PICK n, o, r, w : st = [new |-> n, old |-> o, refused |-> r, own |-> w]
  BY DEF Work
<1>3. st.new = n /\ st.old = o /\ st.own = w
  BY <1>2
<1>4. [st EXCEPT !["refused"] = x] = [new |-> n, old |-> o, refused |-> x, own |-> w]
  BY <1>2
<1> QED BY <1>1, <1>3, <1>4, Zenon

LEMMA OwnIs ==
    ASSUME NEW st, Work(st), NEW g
    PROVE  [st EXCEPT !.own = g]
              = [new |-> st.new, old |-> st.old, refused |-> st.refused, own |-> g]
<1>1. [st EXCEPT !.own = g] = [st EXCEPT !["own"] = g]
  BY Zenon
<1>2. PICK n, o, r, w : st = [new |-> n, old |-> o, refused |-> r, own |-> w]
  BY DEF Work
<1>3. st.new = n /\ st.old = o /\ st.refused = r
  BY <1>2
<1>4. [st EXCEPT !["own"] = g] = [new |-> n, old |-> o, refused |-> r, own |-> g]
  BY <1>2
<1> QED BY <1>1, <1>3, <1>4, Zenon

LEMMA AddFactIs ==
    ASSUME NEW st, Work(st), NEW f \in Facts, NEW prior, IsPrior(prior), NEW t \in Nat, NEW forced
    PROVE  LET r == AddFact(st, f, prior, t, forced) IN
           /\ Work(r) /\ r.own = st.own
           /\ r.refused <=> st.refused \/ Refuses(f, prior, t, forced)
           /\ r.refused => r.new = st.new /\ r.old = st.old
           /\ ~r.refused => Adds(st, r, f, prior, t)
<1> DEFINE r == AddFact(st, f, prior, t, forced)
           d == Datom(f, t)
           replaced == IF f.op = "assert" THEN prior ELSE <<>>
           more == [i \in DOMAIN replaced |-> Companion(replaced[i], d.from, t)]
           gone == [i \in DOMAIN replaced |-> replaced[i].tx]
<1>1. d.from = t - f.lag /\ d \in Datoms /\ d.from \in Int
  <2>1. d.from = t - f.lag /\ d \in Datoms
    BY DatomIs
  <2> HIDE DEF d
  <2> QED BY <2>1 DEF Datoms
<1>2. CASE st.refused
  BY <1>2 DEF AddFact
<1>3. CASE ~st.refused /\ Refuses(f, prior, t, forced)
  <2>1. r = [st EXCEPT !.refused = TRUE]
    BY <1>1, <1>3, Zenon DEF AddFact, Refuses
  <2>2. r = [new |-> st.new, old |-> st.old, refused |-> TRUE, own |-> st.own]
    BY <2>1, RefusedIs, Zenon
  <2> HIDE DEF r
  <2>3. r.new = st.new /\ r.old = st.old /\ r.refused = TRUE /\ r.own = st.own
    BY <2>2
  <2>4. Work(r)
    BY <2>2, <2>3 DEF Work
  <2> QED BY <1>3, <2>3, <2>4 DEF r
<1>4. CASE ~st.refused /\ ~Refuses(f, prior, t, forced)
  <2>1. r = [new |-> st.new \o more \o <<d>>, old |-> st.old \o gone,
             refused |-> FALSE, own |-> st.own]
    BY <1>1, <1>4, Zenon DEF AddFact, Refuses
  <2> HIDE DEF r, d
  <2>2. r.new = st.new \o more \o <<d>> /\ r.old = st.old \o gone /\ r.refused = FALSE /\ r.own = st.own
    BY <2>1
  <2>3. st.new \in Seq(Datoms) /\ st.old \in Seq(Int)
    BY DEF Work
  <2>4. CASE replaced = <<>>
    <3>1. more = <<>> /\ gone = <<>>
      BY <2>4
    <3> HIDE DEF more, gone, replaced
    <3>2. st.new \o more = st.new /\ st.old \o gone = st.old
      BY <2>3, <3>1, ConcatEmptySeq
    <3>3. r.new = st.new \o <<d>> /\ r.old = st.old
      BY <2>2, <3>2
    <3>4. r.new \in Seq(Datoms) /\ r.old \in Seq(Int)
      BY <1>1, <2>3, <3>3, Added
    <3>5. f.op = "assert" => prior = <<>>
      BY <2>4 DEF replaced
    <3>6. Adds(st, r, f, prior, t)
      BY <3>3, <3>5 DEF Adds, d
    <3>7. Work(r)
      BY <2>1, <2>2, <3>4 DEF Work
    <3> QED BY <1>4, <2>2, <3>6, <3>7 DEF r
  <2>5. CASE replaced # <<>>
    <3>1. f.op = "assert" /\ replaced = prior
      BY <2>5
    <3>2. PICK p \in Datoms : replaced = <<p>>
      BY <2>5, <3>1 DEF IsPrior
    <3> DEFINE c == Companion(p, d.from, t)
    <3>3. c \in Datoms /\ p.tx \in Int
      <4>1. p.tx \in Int
        BY DEF Datoms, Placeholder
      <4> QED BY <4>1, <1>1, CompanionIs
    <3> HIDE DEF c
    <3>4. more = <<c>>
      BY <3>2 DEF c
    <3>5. gone = <<p.tx>>
      BY <3>2
    <3> HIDE DEF more, gone, replaced
    <3>6. r.new = (st.new \o <<c>>) \o <<d>> /\ r.old = st.old \o <<p.tx>>
      BY <2>2, <3>4, <3>5
    <3>7. st.new \o <<c>> \in Seq(Datoms)
      BY <2>3, <3>3, Added
    <3>8. r.new \in Seq(Datoms) /\ r.old \in Seq(Int)
      BY <1>1, <2>3, <3>3, <3>6, <3>7, Added
    <3>9. Adds(st, r, f, prior, t)
      BY <1>1, <3>1, <3>2, <3>6 DEF Adds, c, d
    <3>10. Work(r)
      BY <2>1, <2>2, <3>8 DEF Work
    <3> QED BY <1>4, <2>2, <3>9, <3>10 DEF r
  <2> QED BY <2>4, <2>5
<1> QED BY <1>2, <1>3, <1>4
-----------------------------------------------------------------------------
(* The open assert that is last.                                           *)
LEMMA MaxIs ==
    ASSUME NEW n \in Nat, NEW T \in SUBSET (1 .. n), T # {}
    PROVE  Max(T) \in T /\ \A i \in T : i <= Max(T)
<1> DEFINE g == [i \in 1 .. n |-> i]
<1>1. \A i \in T : g[i] = i /\ g[i] \in Int
  OBVIOUS
<1>2. \E m \in T : \A i \in T : g[i] <= g[m]
  <2> HIDE DEF g
  <2> QED BY <1>1, Greatest
<1>3. \E m \in T : \A i \in T : m >= i
  <2>1. \A i \in T : i \in Int
    OBVIOUS
  <2> HIDE DEF g
  <2> QED BY <1>1, <1>2, <2>1
<1>4. Max(T) \in T /\ \A i \in T : Max(T) >= i
  BY <1>3 DEF Max
<1> QED BY <1>4

Candidate(d, k) == d.key = k /\ d.op = "assert" /\ d.inv = 0 /\ d.open

LEMMA PriorIs ==
    ASSUME NEW s \in Seq(Datoms), NEW k
    PROVE  /\ IsPrior(Prior(s, k))
           /\ Prior(s, k) = <<>> => \A i \in DOMAIN s : ~Candidate(s[i], k)
           /\ \A p : Prior(s, k) = <<p>> => In(p, s) /\ Candidate(p, k)
<1>1. Len(s) \in Nat /\ DOMAIN s = 1 .. Len(s) /\ \A i \in DOMAIN s : s[i] \in Datoms
  BY Long, Elements
<1>2. CASE OpenOn(s, k) = {}
  <2>1. Prior(s, k) = <<>>
    BY <1>2 DEF Prior
  <2>2. \A i \in DOMAIN s : ~Candidate(s[i], k)
    BY <1>2 DEF OpenOn, Candidate
  <2>3. \A p : <<>> # <<p>>
    OBVIOUS
  <2> QED BY <2>1, <2>2, <2>3 DEF IsPrior
<1>3. CASE OpenOn(s, k) # {}
  <2> DEFINE m == Max(OpenOn(s, k))
  <2>1. OpenOn(s, k) \in SUBSET (1 .. Len(s))
    BY <1>1 DEF OpenOn
  <2>2. m \in OpenOn(s, k)
    BY <1>1, <1>3, <2>1, MaxIs
  <2>3. Prior(s, k) = <<s[m]>>
    BY <1>3 DEF Prior
  <2> HIDE DEF m
  <2>4. m \in DOMAIN s /\ s[m] \in Datoms /\ Candidate(s[m], k)
    BY <1>1, <2>2 DEF OpenOn, Candidate
  <2>5. Prior(s, k) # <<>> /\ \A p : Prior(s, k) = <<p>> => p = s[m]
    BY <2>3
  <2> QED BY <2>3, <2>4, <2>5 DEF IsPrior, In
<1> QED BY <1>2, <1>3

LEMMA PriorConcat ==
    ASSUME NEW s \in Seq(Datoms), NEW u \in Seq(Datoms), NEW k
    PROVE  Prior(s \o u, k) = IF Prior(u, k) # <<>> THEN Prior(u, k) ELSE Prior(s, k)
<1> DEFINE j == s \o u
           P == OpenOn(j, k)
           S == OpenOn(s, k)
           U == OpenOn(u, k)
<1>1. /\ j \in Seq(Datoms) /\ DOMAIN j = 1 .. Len(s) + Len(u)
      /\ DOMAIN s = 1 .. Len(s) /\ DOMAIN u = 1 .. Len(u) /\ Len(s) \in Nat /\ Len(u) \in Nat
      /\ \A i \in DOMAIN s : i \in DOMAIN j /\ j[i] = s[i]
      /\ \A i \in DOMAIN u : Len(s) + i \in DOMAIN j /\ j[Len(s) + i] = u[i]
      /\ \A i \in DOMAIN j : \/ i \in DOMAIN s /\ j[i] = s[i]
                             \/ i - Len(s) \in DOMAIN u /\ j[i] = u[i - Len(s)]
  BY Joined
<1> HIDE DEF j
<1>2. /\ \A i \in S : i \in 1 .. Len(s) /\ i \in P
      /\ \A i \in U : i \in 1 .. Len(u) /\ Len(s) + i \in P
      /\ \A i \in P : i \in 1 .. Len(s) + Len(u) /\ (i \in S \/ i - Len(s) \in U)
  BY <1>1 DEF OpenOn
<1>3. /\ Prior(j, k) = IF P = {} THEN <<>> ELSE <<j[Max(P)]>>
      /\ Prior(s, k) = IF S = {} THEN <<>> ELSE <<s[Max(S)]>>
      /\ Prior(u, k) = IF U = {} THEN <<>> ELSE <<u[Max(U)]>>
  BY Zenon DEF Prior
<1> HIDE DEF P, S, U
<1>4. \A i : <<i>> # <<>>
  OBVIOUS
<1>5. CASE U # {}
  <2>1. Max(U) \in U /\ \A i \in U : i <= Max(U)
    <3>1. U \in SUBSET (1 .. Len(u))
      BY <1>2
    <3> QED BY <1>1, <1>5, <3>1, MaxIs
  <2>2. P # {}
    BY <1>2, <1>5
  <2>3. Max(P) \in P /\ \A i \in P : i <= Max(P)
    <3>1. P \in SUBSET (1 .. Len(s) + Len(u)) /\ Len(s) + Len(u) \in Nat
      BY <1>1, <1>2
    <3> QED BY <2>2, <3>1, MaxIs
  <2>4. Max(P) = Len(s) + Max(U)
    <3>1. Len(s) + Max(U) <= Max(P) /\ Max(U) \in 1 .. Len(u)
      BY <1>2, <2>1, <2>3
    <3>2. Max(P) \in 1 .. Len(s) + Len(u) /\ (Max(P) \in S \/ Max(P) - Len(s) \in U)
      BY <1>2, <2>3
    <3>3. CASE Max(P) \in S
      BY <3>1, <3>2, <3>3, <1>1, <1>2
    <3>4. CASE Max(P) - Len(s) \in U
      BY <3>1, <3>2, <3>4, <1>1, <2>1
    <3> QED BY <3>2, <3>3, <3>4
  <2>5. j[Max(P)] = u[Max(U)]
    BY <1>1, <1>2, <2>1, <2>4
  <2> QED BY <1>3, <1>4, <1>5, <2>2, <2>5 DEF j
<1>6. CASE U = {} /\ S # {}
  <2>1. P = S
    BY <1>2, <1>6
  <2>2. Max(S) \in S
    <3>1. S \in SUBSET (1 .. Len(s))
      BY <1>2
    <3> QED BY <1>1, <1>6, <3>1, MaxIs
  <2>3. j[Max(P)] = s[Max(S)]
    BY <1>1, <1>2, <2>1, <2>2
  <2> QED BY <1>3, <1>6, <2>1, <2>3 DEF j
<1>7. CASE U = {} /\ S = {}
  <2>1. P = {}
    BY <1>2, <1>7
  <2> QED BY <1>3, <1>7, <2>1 DEF j
<1> QED BY <1>5, <1>6, <1>7

LEMMA PriorAdded ==
    ASSUME NEW s \in Seq(Datoms), NEW d \in Datoms, NEW k
    PROVE  Prior(s \o <<d>>, k) = IF Candidate(d, k) THEN <<d>> ELSE Prior(s, k)
<1> DEFINE e == <<d>>
<1>1. e \in Seq(Datoms) /\ Len(e) = 1 /\ e[1] = d /\ DOMAIN e = 1 .. 1
  OBVIOUS
<1> HIDE DEF e
<1>2. Prior(s \o e, k) = IF Prior(e, k) # <<>> THEN Prior(e, k) ELSE Prior(s, k)
  BY <1>1, PriorConcat
<1>3. Prior(e, k) = <<>> \/ (Prior(e, k) = <<d>> /\ Candidate(d, k))
  <2>1. /\ IsPrior(Prior(e, k))
        /\ \A p : Prior(e, k) = <<p>> => In(p, e) /\ Candidate(p, k)
    BY <1>1, PriorIs
  <2>2. \A p : In(p, e) => p = d
    BY <1>1 DEF In
  <2>3. CASE Prior(e, k) = <<>>
    BY <2>3
  <2>4. CASE Prior(e, k) # <<>>
    <3>1. PICK p : Prior(e, k) = <<p>>
      BY <2>1, <2>4 DEF IsPrior
    <3>2. p = d /\ Candidate(p, k)
      BY <2>1, <2>2, <3>1
    <3> QED BY <3>1, <3>2
  <2> QED BY <2>3, <2>4
<1>4. Candidate(d, k) => Prior(e, k) # <<>>
  BY <1>1, PriorIs
<1> QED BY <1>2, <1>3, <1>4 DEF e
-----------------------------------------------------------------------------
(* The datoms of a call and the transactions it replaces, when it has been *)
(* through n facts of x.                                                   *)
FreshOnes(u, x, n, t) ==
    \A i \in DOMAIN u :
        /\ u[i].tx = Placeholder /\ u[i].time = t /\ u[i].inv = 0
        /\ \/ u[i].op = "retract" /\ u[i].auto
           \/ \E m \in 1 .. n : u[i] = Datom(x[m], t)

(* The assert of transaction o in s that the companion retract r replaces. *)
Replaces(r, s, o) ==
    r.auto /\ \E x \in DOMAIN s : s[x].tx = o /\ s[x].op = "assert" /\ s[x].key = r.key /\ s[x].v = r.v

Replaced(u, s, o) ==
    \A m \in DOMAIN o : o[m] # Placeholder => \E r \in DOMAIN u : Replaces(u[r], s, o[m])

Made(s, st, x, n, t) ==
    /\ Work(st)
    /\ FreshOnes(st.new, x, n, t) /\ Replaced(st.new, s, st.old)
    /\ st.refused \/ n = 0 \/ st.new # <<>>

(* The assert that a fact on key k replaces.                               *)
Finds(s, u, k, prior) ==
    /\ IsPrior(prior)
    /\ \A p : prior = <<p>> => p.key = k /\ p.op = "assert" /\ (In(p, s) \/ In(p, u))

(* One turn of the loop, from st to r, with the fact y.                    *)
Stepped(s, st, r, y, t) ==
    \E prior :
        /\ r.refused \/ Finds(s, st.new, y.key, prior)
        /\ st.refused => r.refused
        /\ r.refused => r.new = st.new /\ r.old = st.old
        /\ ~r.refused => Adds(st, r, y, prior, t)

LEMMA FreshGrows ==
    ASSUME NEW u \in Seq(Datoms), NEW x, NEW n, NEW t, FreshOnes(u, x, n, t), NEW d \in Datoms,
           d.tx = Placeholder, d.time = t, d.inv = 0,
           (d.op = "retract" /\ d.auto) \/ \E m \in 1 .. n : d = Datom(x[m], t)
    PROVE  FreshOnes(u \o <<d>>, x, n, t)
<1> DEFINE j == u \o <<d>>
<1>1. /\ \A i \in DOMAIN u : j[i] = u[i]
      /\ j[Len(u) + 1] = d
      /\ \A i \in DOMAIN j : i \in DOMAIN u \/ i = Len(u) + 1
  BY Added
<1> HIDE DEF j
<1>2. FreshOnes(j, x, n, t)
  BY <1>1 DEF FreshOnes
<1> QED BY <1>2 DEF j

LEMMA ReplacedGrows ==
    ASSUME NEW u \in Seq(Datoms), NEW s, NEW o, Replaced(u, s, o), NEW d \in Datoms
    PROVE  Replaced(u \o <<d>>, s, o)
<1> DEFINE j == u \o <<d>>
<1>1. \A i \in DOMAIN u : i \in DOMAIN j /\ j[i] = u[i]
  BY Added
<1> HIDE DEF j
<1>2. Replaced(j, s, o)
  BY <1>1 DEF Replaced
<1> QED BY <1>2 DEF j

LEMMA MadeStep ==
    ASSUME NEW s \in Seq(Datoms), \A i \in DOMAIN s : s[i].tx # Placeholder,
           NEW st, NEW x, NEW n \in Nat, NEW t \in Nat, Made(s, st, x, n, t),
           x[n + 1] \in Facts, NEW r, Work(r), Stepped(s, st, r, x[n + 1], t)
    PROVE  Made(s, r, x, n + 1, t)
<1>1. PICK prior :
        /\ r.refused \/ Finds(s, st.new, x[n + 1].key, prior)
        /\ st.refused => r.refused
        /\ r.refused => r.new = st.new /\ r.old = st.old
        /\ ~r.refused => Adds(st, r, x[n + 1], prior, t)
  BY DEF Stepped
<1> DEFINE f == x[n + 1]
           d == Datom(f, t)
<1>2. f \in Facts /\ f.lag \in Nat /\ f.key \in Keys
  BY DEF Facts
<1> HIDE DEF f
<1>3. /\ d \in Datoms /\ d.tx = Placeholder /\ d.time = t /\ d.inv = 0
      /\ t - f.lag \in Int
  <2>1. t - f.lag \in Int
    BY <1>2
  <2> QED BY <1>2, <2>1, DatomIs, Zenon
<1>4. st.new \in Seq(Datoms) /\ st.old \in Seq(Int)
  BY DEF Made, Work
<1>5. FreshOnes(st.new, x, n + 1, t) /\ Replaced(st.new, s, st.old)
  BY DEF Made, FreshOnes
<1>6. CASE r.refused
  BY <1>1, <1>5, <1>6 DEF Made
<1>7. CASE ~r.refused /\ r.new = st.new \o <<d>> /\ r.old = st.old
  <2>1. \E m \in 1 .. n + 1 : d = Datom(x[m], t)
    BY DEF f
  <2> HIDE DEF d
  <2>2. FreshOnes(r.new, x, n + 1, t) /\ Replaced(r.new, s, r.old)
    BY <1>3, <1>4, <1>5, <1>7, <2>1, FreshGrows, ReplacedGrows
  <2>3. r.new # <<>>
    BY <1>3, <1>4, <1>7, Added
  <2> QED BY <2>2, <2>3 DEF Made
<1>8. CASE /\ ~r.refused
           /\ \E p \in Datoms :
                 /\ prior = <<p>>
                 /\ r.new = (st.new \o <<Companion(p, t - f.lag, t)>>) \o <<d>>
                 /\ r.old = st.old \o <<p.tx>>
  <2>1. PICK p \in Datoms :
                 /\ prior = <<p>>
                 /\ r.new = (st.new \o <<Companion(p, t - f.lag, t)>>) \o <<d>>
                 /\ r.old = st.old \o <<p.tx>>
    BY <1>8
  <2> DEFINE c == Companion(p, t - f.lag, t)
             u == st.new \o <<c>>
  <2>2. /\ c \in Datoms /\ c.tx = Placeholder /\ c.time = t /\ c.inv = 0
        /\ c.key = p.key /\ c.v = p.v /\ c.op = "retract" /\ c.auto = TRUE
    <3> DEFINE vf == t - f.lag
    <3>1. vf \in Int /\ c = Companion(p, vf, t)
      BY <1>3
    <3> HIDE DEF vf
    <3>2. /\ Companion(p, vf, t) \in Datoms /\ Companion(p, vf, t).tx = Placeholder
          /\ Companion(p, vf, t).time = t /\ Companion(p, vf, t).inv = 0
          /\ Companion(p, vf, t).key = p.key /\ Companion(p, vf, t).v = p.v
          /\ Companion(p, vf, t).op = "retract" /\ Companion(p, vf, t).auto = TRUE
      BY <3>1, CompanionIs, ZenonT(30)
    <3> HIDE DEF c
    <3> QED BY <3>1, <3>2
  <2>3. \E m \in 1 .. n + 1 : d = Datom(x[m], t)
    BY DEF f
  <2> HIDE DEF c, d
  <2>4. u \in Seq(Datoms) /\ Len(st.new) + 1 \in DOMAIN u /\ u[Len(st.new) + 1] = c
    BY <1>4, <2>2, Added
  <2>5. FreshOnes(u, x, n + 1, t) /\ Replaced(u, s, st.old)
    BY <1>4, <1>5, <2>2, FreshGrows, ReplacedGrows
  <2>6. p.op = "assert" /\ (In(p, s) \/ In(p, st.new)) /\ p.tx \in Int
    BY <1>1, <1>8, <2>1 DEF Finds, Datoms, Placeholder
  <2>7. p.tx # Placeholder => Replaces(c, s, p.tx)
    <3>1. In(p, st.new) => p.tx = Placeholder
      BY DEF In, Made, FreshOnes
    <3> QED BY <2>2, <2>6, <3>1 DEF In, Replaces
  <2>8. Replaced(u, s, st.old \o <<p.tx>>)
    <3> DEFINE o == st.old \o <<p.tx>>
    <3>1. /\ \A i \in DOMAIN st.old : o[i] = st.old[i]
          /\ o[Len(st.old) + 1] = p.tx
          /\ \A i \in DOMAIN o : i \in DOMAIN st.old \/ i = Len(st.old) + 1
      BY <1>4, <2>6, Added
    <3> HIDE DEF o, u
    <3>2. ASSUME NEW m \in DOMAIN o, o[m] # Placeholder
          PROVE  \E i \in DOMAIN u : Replaces(u[i], s, o[m])
      <4>1. CASE m \in DOMAIN st.old
        BY <3>1, <3>2, <4>1, <2>5 DEF Replaced
      <4>2. CASE m = Len(st.old) + 1
        BY <3>1, <3>2, <4>2, <2>4, <2>7
      <4> QED BY <3>1, <4>1, <4>2
    <3> QED BY <3>2 DEF Replaced, o
  <2> HIDE DEF u
  <2>9. FreshOnes(u \o <<d>>, x, n + 1, t) /\ Replaced(u \o <<d>>, s, st.old \o <<p.tx>>)
    BY <1>3, <2>3, <2>4, <2>5, <2>8, FreshGrows, ReplacedGrows
  <2>10. r.new = u \o <<d>> /\ r.old = st.old \o <<p.tx>>
    BY <2>1 DEF u, c
  <2>11. r.new # <<>>
    BY <1>3, <2>4, <2>10, Added
  <2> QED BY <2>9, <2>10, <2>11 DEF Made
<1>9. ~r.refused => \/ r.new = st.new \o <<d>> /\ r.old = st.old
                    \/ \E p \in Datoms :
                          /\ prior = <<p>>
                          /\ r.new = (st.new \o <<Companion(p, t - f.lag, t)>>) \o <<d>>
                          /\ r.old = st.old \o <<p.tx>>
  BY <1>1 DEF Adds, f
<1> QED BY <1>6, <1>7, <1>8, <1>9
(* Induction over the places of a sequence, for a set of them.             *)
LEMMA Upwards ==
    ASSUME NEW n \in Nat, NEW P, 0 \in P, \A i \in 1 .. n : i - 1 \in P => i \in P
    PROVE  \A i \in 0 .. n : i \in P
<1> DEFINE Bad == {i \in 0 .. n : i \notin P}
<1>1. CASE Bad = {}
  BY <1>1
<1>2. CASE Bad # {}
  <2>1. PICK m \in Bad : \A l \in Bad : m <= l
    <3>1. Bad \subseteq Nat
      OBVIOUS
    <3> HIDE DEF Bad
    <3> QED BY <1>2, <3>1, LeastNat
  <2>2. m \in 1 .. n /\ m - 1 \in 0 .. n /\ m \notin P
    BY <2>1
  <2>3. m - 1 \notin Bad
    BY <2>1, <2>2
  <2> QED BY <2>2, <2>3
<1> QED BY <1>1, <1>2

LEMMA PriorFinds ==
    ASSUME NEW s \in Seq(Datoms), NEW u \in Seq(Datoms), NEW k
    PROVE  Finds(s, u, k, Prior(s \o u, k)) /\ Finds(s, u, k, Prior(s, k))
<1>1. s \o u \in Seq(Datoms)
  BY ConcatProperties
<1>2. \A p : In(p, s \o u) => In(p, s) \/ In(p, u)
  BY Joined DEF In
<1>3. /\ IsPrior(Prior(s \o u, k))
      /\ \A p : Prior(s \o u, k) = <<p>> => In(p, s \o u) /\ Candidate(p, k)
  BY <1>1, PriorIs
<1>4. /\ IsPrior(Prior(s, k))
      /\ \A p : Prior(s, k) = <<p>> => In(p, s) /\ Candidate(p, k)
  BY PriorIs
<1> QED BY <1>2, <1>3, <1>4 DEF Finds, Candidate

LEMMA NothingMade ==
    ASSUME NEW s, NEW x, NEW t
    PROVE  Made(s, NoDatoms, x, 0, t)
<1>1. <<>> \in Seq(Datoms) /\ <<>> \in Seq(Int) /\ DOMAIN (<<>>) = {}
  OBVIOUS
<1>2. NoDatoms.new = <<>> /\ NoDatoms.old = <<>> /\ NoDatoms.refused = FALSE
  BY DEF NoDatoms
<1>3. NoDatoms = [new |-> NoDatoms.new, old |-> NoDatoms.old,
                  refused |-> NoDatoms.refused, own |-> NoDatoms.own]
  BY DEF NoDatoms
<1> QED BY <1>1, <1>2, <1>3 DEF Made, Work, FreshOnes, Replaced

(* A loop of transact keeps this, with the datoms looked up in the log and *)
(* in what was made so far, *)
LEMMA EachMade ==
    ASSUME NEW s \in Seq(Datoms), \A i \in DOMAIN s : s[i].tx # Placeholder,
           NEW x \in Seq(Facts), NEW t \in Nat, NEW forced, NEW f, f[0] = NoDatoms,
           \A i \in 1 .. Len(x) : f[i] = LookedUp(s, f[i - 1], x[i], t, forced)
    PROVE  \A i \in 0 .. Len(x) : Made(s, f[i], x, i, t)
                                   /\ (i > 0 => Stepped(s, f[i - 1], f[i], x[i], t))
<1> DEFINE P == {i \in 0 .. Len(x) : Made(s, f[i], x, i, t)
                                    /\ (i > 0 => Stepped(s, f[i - 1], f[i], x[i], t))}
<1>1. Len(x) \in Nat /\ \A i \in 1 .. Len(x) : x[i] \in Facts
  BY Long, Elements
<1>2. 0 \in P
  BY <1>1, NothingMade
<1>3. ASSUME NEW i \in 1 .. Len(x), i - 1 \in P PROVE i \in P
  <2> DEFINE st == f[i - 1]
             prior == Prior(s \o st.new, x[i].key)
             n == i - 1
  <2>1. Made(s, st, x, n, t) /\ n \in Nat /\ n + 1 = i /\ x[n + 1] \in Facts /\ i \in 0 .. Len(x)
    BY <1>1, <1>3
  <2>2. f[i] = AddFact(st, x[i], prior, t, forced)
    BY DEF LookedUp
  <2> HIDE DEF st, n
  <2>3. st.new \in Seq(Datoms) /\ Work(st)
    BY <2>1 DEF Made, Work
  <2>4. Finds(s, st.new, x[n + 1].key, prior) /\ IsPrior(prior)
    BY <2>1, <2>3, PriorFinds DEF Finds
  <2> HIDE DEF prior
  <2> DEFINE r == f[i]
  <2>5. /\ Work(r)
        /\ r.refused <=> st.refused \/ Refuses(x[n + 1], prior, t, forced)
        /\ r.refused => r.new = st.new /\ r.old = st.old
        /\ ~r.refused => Adds(st, r, x[n + 1], prior, t)
    BY <1>1, <2>1, <2>2, <2>3, <2>4, AddFactIs
  <2> HIDE DEF r
  <2>6. Stepped(s, st, r, x[n + 1], t)
    BY <2>4, <2>5 DEF Stepped
  <2>7. Made(s, r, x, n + 1, t)
    BY <2>1, <2>5, <2>6, MadeStep
  <2> QED BY <2>1, <2>6, <2>7 DEF r, st
<1> HIDE DEF P
<1>4. \A i \in 0 .. Len(x) : i \in P
  BY <1>1, <1>2, <1>3, Upwards
<1> QED BY <1>4 DEF P

(* and so does a loop of transact_batch, whose index of its own asserts    *)
(* has only asserts that it made.                                          *)
Owned(st) ==
    /\ st.own \in [Keys -> Seq(Datoms)]
    /\ \A k \in Keys : IsPrior(st.own[k]) /\ (st.refused \/ Finds(<<>>, st.new, k, st.own[k]))

LEMMA InBatchIs ==
    ASSUME NEW own \in [Keys -> Seq(Datoms)], NEW f \in Facts, NEW t \in Nat
    PROVE  /\ InBatch(own, f, t) \in [Keys -> Seq(Datoms)]
           /\ \A k \in Keys :
                 InBatch(own, f, t)[k] = IF k # f.key \/ f.op = "retract" THEN own[k]
                                         ELSE IF f.open THEN <<Datom(f, t)>> ELSE <<>>
<1> DEFINE new1 == IF f.op = "retract" THEN own[f.key]
                   ELSE IF f.open THEN <<Datom(f, t)>> ELSE <<>>
           g == [own EXCEPT ![f.key] = new1]
<1>1. f.key \in Keys /\ f.op \in {"assert", "retract"} /\ f.open \in BOOLEAN
  BY DEF Facts
<1>2. InBatch(own, f, t) = g
  BY <1>1 DEF InBatch
<1>3. Datom(f, t) \in Datoms
  BY DatomIs
<1>4. <<Datom(f, t)>> \in Seq(Datoms) /\ <<>> \in Seq(Datoms)
  BY <1>3, Single
<1>5. new1 \in Seq(Datoms)
  BY <1>1, <1>4
<1>6. g \in [Keys -> Seq(Datoms)] /\ \A k \in Keys : g[k] = IF k = f.key THEN new1 ELSE own[k]
  <2> HIDE DEF new1
  <2> QED BY <1>1, <1>5
<1> HIDE DEF g
<1> QED BY <1>1, <1>2, <1>6

LEMMA InAdded ==
    ASSUME NEW S, NEW s \in Seq(S), NEW d \in S
    PROVE  /\ In(d, s \o <<d>>) /\ \A x : In(x, s) => In(x, s \o <<d>>)
           /\ \A x : In(x, s \o <<d>>) => In(x, s) \/ x = d
<1> DEFINE j == s \o <<d>>
<1>1. /\ \A i \in DOMAIN s : i \in DOMAIN j /\ j[i] = s[i]
      /\ j[Len(s) + 1] = d /\ Len(s) + 1 \in DOMAIN j
      /\ \A i \in DOMAIN j : i \in DOMAIN s \/ i = Len(s) + 1
  BY Added
<1> HIDE DEF j
<1>2. In(d, j) /\ (\A x : In(x, s) => In(x, j)) /\ (\A x : In(x, j) => In(x, s) \/ x = d)
  BY <1>1 DEF In
<1> QED BY <1>2 DEF j

LEMMA AddsKeep ==
    ASSUME NEW st, Work(st), NEW r, NEW f \in Facts, NEW prior, NEW t \in Nat,
           Adds(st, r, f, prior, t)
    PROVE  (\A d : In(d, st.new) => In(d, r.new)) /\ In(Datom(f, t), r.new)
<1> DEFINE d == Datom(f, t)
<1>1. d \in Datoms /\ st.new \in Seq(Datoms)
  BY DatomIs DEF Work
<1> HIDE DEF d
<1>2. CASE r.new = st.new \o <<d>>
  BY <1>1, <1>2, InAdded DEF d
<1>3. CASE \E p \in Datoms : r.new = (st.new \o <<Companion(p, t - f.lag, t)>>) \o <<d>>
  <2>1. PICK p \in Datoms : r.new = (st.new \o <<Companion(p, t - f.lag, t)>>) \o <<d>>
    BY <1>3
  <2> DEFINE vf == t - f.lag
             c == Companion(p, vf, t)
             u == st.new \o <<c>>
  <2>2. c \in Datoms
    <3>1. vf \in Int
      BY DEF Facts
    <3> HIDE DEF vf
    <3> QED BY <3>1, CompanionIs
  <2> HIDE DEF c
  <2>3. u \in Seq(Datoms) /\ \A x : In(x, st.new) => In(x, u)
    BY <1>1, <2>2, Added, InAdded
  <2> HIDE DEF u
  <2>4. r.new = u \o <<d>>
    BY <2>1 DEF u, c
  <2> QED BY <1>1, <2>3, <2>4, InAdded DEF d
<1> QED BY <1>2, <1>3 DEF Adds, d

LEMMA BatchMade ==
    ASSUME NEW s \in Seq(Datoms), \A i \in DOMAIN s : s[i].tx # Placeholder,
           NEW x \in Seq(Facts), NEW t \in Nat, NEW forced, NEW f, f[0] = NoDatoms,
           \A i \in 1 .. Len(x) : f[i] = Indexed(s, f[i - 1], x[i], t, forced)
    PROVE  \A i \in 0 .. Len(x) : Made(s, f[i], x, i, t) /\ Owned(f[i])
                                   /\ (i > 0 => Stepped(s, f[i - 1], f[i], x[i], t))
<1> DEFINE P == {i \in 0 .. Len(x) : Made(s, f[i], x, i, t) /\ Owned(f[i])
                                    /\ (i > 0 => Stepped(s, f[i - 1], f[i], x[i], t))}
<1>1. Len(x) \in Nat /\ \A i \in 1 .. Len(x) : x[i] \in Facts
  BY Long, Elements
<1>2. 0 \in P
  <2>1. NoDatoms.own = [k \in Keys |-> <<>>]
    BY DEF NoDatoms
  <2>2. <<>> \in Seq(Datoms) /\ \A p : <<>> # <<p>>
    OBVIOUS
  <2>3. Owned(NoDatoms)
    BY <2>1, <2>2 DEF Owned, Finds, IsPrior
  <2> QED BY <1>1, <2>3, NothingMade
<1>3. ASSUME NEW i \in 1 .. Len(x), i - 1 \in P PROVE i \in P
  <2> DEFINE st == f[i - 1]
             k == x[i].key
             prior == IF st.own[k] # <<>> THEN st.own[k] ELSE Prior(s, k)
             n == i - 1
             r == AddFact(st, x[i], prior, t, forced)
             g == InBatch(r.own, x[i], t)
  <2>1. Made(s, st, x, n, t) /\ Owned(st) /\ n \in Nat /\ n + 1 = i /\ x[n + 1] \in Facts
        /\ i \in 0 .. Len(x)
    BY <1>1, <1>3
  <2>2. f[i] = [r EXCEPT !.own = g]
    BY Zenon DEF Indexed
  <2> HIDE DEF st, n
  <2>3. st.new \in Seq(Datoms) /\ Work(st) /\ k \in Keys /\ x[i] \in Facts
    BY <2>1 DEF Made, Work, Facts
  <2>4. IsPrior(prior) /\ (st.refused \/ Finds(s, st.new, k, prior))
    <3>1. Finds(s, st.new, k, Prior(s, k))
      BY <2>3, PriorFinds
    <3>2. IsPrior(st.own[k]) /\ (st.refused \/ Finds(<<>>, st.new, k, st.own[k]))
      BY <2>1, <2>3 DEF Owned
    <3>3. \A p : ~ In(p, <<>>)
      BY DEF In
    <3> QED BY <3>1, <3>2, <3>3 DEF Finds
  <2> HIDE DEF prior, r
  <2>5. /\ Work(r) /\ r.own = st.own
        /\ r.refused <=> st.refused \/ Refuses(x[i], prior, t, forced)
        /\ r.refused => r.new = st.new /\ r.old = st.old
        /\ ~r.refused => Adds(st, r, x[i], prior, t)
    BY <2>3, <2>4, AddFactIs DEF r
  <2>6. Stepped(s, st, r, x[n + 1], t) /\ Made(s, r, x, n + 1, t)
    <3>1. /\ r.refused \/ Finds(s, st.new, x[n + 1].key, prior)
          /\ st.refused => r.refused
          /\ r.refused => r.new = st.new /\ r.old = st.old
          /\ ~r.refused => Adds(st, r, x[n + 1], prior, t)
      BY <2>1, <2>4, <2>5
    <3>2. Stepped(s, st, r, x[n + 1], t)
      BY <3>1 DEF Stepped
    <3> QED BY <2>1, <2>5, <3>2, MadeStep
  <2>7. /\ g \in [Keys -> Seq(Datoms)]
        /\ \A l \in Keys : g[l] = IF l # k \/ x[i].op = "retract" THEN st.own[l]
                                  ELSE IF x[i].open THEN <<Datom(x[i], t)>> ELSE <<>>
    <3>1. st.own \in [Keys -> Seq(Datoms)]
      BY <2>1 DEF Owned
    <3>2. g = InBatch(st.own, x[i], t)
      BY <2>5
    <3> DEFINE y == x[i]
               o == st.own
    <3>3. y \in Facts /\ o \in [Keys -> Seq(Datoms)] /\ g = InBatch(o, y, t)
      BY <2>3, <3>1, <3>2
    <3> HIDE DEF g, y, o
    <3>4. /\ InBatch(o, y, t) \in [Keys -> Seq(Datoms)]
          /\ \A l \in Keys : InBatch(o, y, t)[l] = IF l # y.key \/ y.op = "retract" THEN o[l]
                                                 ELSE IF y.open THEN <<Datom(y, t)>> ELSE <<>>
      BY <3>3, InBatchIs
    <3> QED BY <3>3, <3>4 DEF y, o
  <2> HIDE DEF g
  <2> DEFINE q == f[i]
  <2>8. q = [new |-> r.new, old |-> r.old, refused |-> r.refused, own |-> g]
    BY <2>2, <2>5, OwnIs, Zenon
  <2> HIDE DEF q
  <2>9. q.new = r.new /\ q.old = r.old /\ q.refused = r.refused /\ q.own = g
    BY <2>8
  <2>10. Made(s, q, x, n + 1, t)
    BY <2>6, <2>8, <2>9 DEF Made, Work
  <2>11. Stepped(s, st, q, x[n + 1], t)
    BY <2>6, <2>9 DEF Stepped, Adds
  <2>12. ASSUME NEW l \in Keys PROVE IsPrior(g[l]) /\ (r.refused \/ Finds(<<>>, r.new, l, g[l]))
    <3>1. IsPrior(st.own[l]) /\ (st.refused \/ Finds(<<>>, st.new, l, st.own[l]))
      BY <2>1 DEF Owned
    <3>2. ~r.refused => (\A d : In(d, st.new) => In(d, r.new)) /\ In(Datom(x[i], t), r.new)
      BY <2>3, <2>5, AddsKeep
    <3>3. CASE g[l] = st.own[l]
      BY <2>5, <3>1, <3>2, <3>3 DEF Finds
    <3>4. CASE g[l] = <<>>
      BY <3>4 DEF Finds, IsPrior
    <3>5. CASE l = k /\ x[i].op # "retract" /\ g[l] = <<Datom(x[i], t)>>
      <4> DEFINE d == Datom(x[i], t)
      <4>1. d \in Datoms /\ d.key = l /\ d.op = "assert"
        <5>1. d \in Datoms /\ d.key = x[i].key /\ d.op = x[i].op
          BY <2>3, DatomIs
        <5>2. x[i].op \in {"assert", "retract"}
          BY <2>3 DEF Facts
        <5> QED BY <5>1, <5>2, <3>5
      <4> HIDE DEF d
      <4>2. \A p : <<d>> = <<p>> => p = d
        OBVIOUS
      <4>3. g[l] = <<d>> /\ (~r.refused => In(d, r.new))
        BY <3>2, <3>5 DEF d
      <4> QED BY <4>1, <4>2, <4>3 DEF Finds, IsPrior
    <3> QED BY <2>7, <3>3, <3>4, <3>5
  <2>13. Owned(q)
    BY <2>7, <2>9, <2>12 DEF Owned
  <2> QED BY <2>1, <2>10, <2>13, <2>11 DEF q, st
<1> HIDE DEF P
<1>4. \A i \in 0 .. Len(x) : i \in P
  BY <1>1, <1>2, <1>3, Upwards
<1> QED BY <1>4 DEF P
-----------------------------------------------------------------------------
(* Writing into the log: allocation changes tx only, stamping inv only.    *)
SameButTx(d, e) ==
    /\ e.key = d.key /\ e.v = d.v /\ e.time = d.time /\ e.from = d.from /\ e.op = d.op
    /\ e.open = d.open /\ e.auto = d.auto /\ e.inv = d.inv

SameButInv(d, e) ==
    /\ e.key = d.key /\ e.v = d.v /\ e.time = d.time /\ e.from = d.from /\ e.op = d.op
    /\ e.open = d.open /\ e.auto = d.auto /\ e.tx = d.tx

LEMMA FunctionIsSeq ==
    ASSUME NEW S, NEW n \in Nat, NEW f \in [1 .. n -> S]
    PROVE  f \in Seq(S) /\ Len(f) = n
OBVIOUS

LEMMA NewTx ==
    ASSUME NEW d \in Datoms, NEW tx \in Nat
    PROVE  LET e == [d EXCEPT !.tx = tx] IN e \in Datoms /\ e.tx = tx /\ SameButTx(d, e)
<1>1. [d EXCEPT !.tx = tx] = [d EXCEPT !["tx"] = tx]
  BY Zenon
<1> DEFINE e == [d EXCEPT !["tx"] = tx]
<1>2. e \in Datoms /\ e.tx = tx
  BY DEF Datoms
<1>3. SameButTx(d, e)
  BY DEF Datoms, SameButTx
<1> QED BY <1>1, <1>2, <1>3, Zenon

LEMMA NewInv ==
    ASSUME NEW d \in Datoms, NEW by \in Nat
    PROVE  LET e == [d EXCEPT !.inv = by] IN e \in Datoms /\ e.inv = by /\ SameButInv(d, e)
<1>1. [d EXCEPT !.inv = by] = [d EXCEPT !["inv"] = by]
  BY Zenon
<1> DEFINE e == [d EXCEPT !["inv"] = by]
<1>2. e \in Datoms /\ e.inv = by
  BY DEF Datoms
<1>3. SameButInv(d, e)
  BY DEF Datoms, SameButInv
<1> QED BY <1>1, <1>2, <1>3, Zenon

LEMMA AllocatedIs ==
    ASSUME NEW u \in Seq(Datoms), NEW tx \in Nat, NEW e,
           e = [i \in DOMAIN u |-> [u[i] EXCEPT !.tx = tx]]
    PROVE  /\ e \in Seq(Datoms) /\ Len(e) = Len(u) /\ DOMAIN e = DOMAIN u
           /\ \A i \in DOMAIN u : e[i] \in Datoms /\ e[i].tx = tx /\ SameButTx(u[i], e[i])
<1>1. DOMAIN u = 1 .. Len(u) /\ Len(u) \in Nat /\ \A i \in DOMAIN u : u[i] \in Datoms
  BY Long, Elements
<1>2. \A i \in DOMAIN u : e[i] = [u[i] EXCEPT !.tx = tx]
  BY Zenon
<1>3. ASSUME NEW i \in DOMAIN u
      PROVE  e[i] \in Datoms /\ e[i].tx = tx /\ SameButTx(u[i], e[i])
  <2> DEFINE d == u[i]
  <2>1. d \in Datoms
    BY <1>1
  <2>2. e[i] = [d EXCEPT !.tx = tx]
    BY <1>2, Zenon
  <2> HIDE DEF d
  <2>3. LET r == [d EXCEPT !.tx = tx] IN r \in Datoms /\ r.tx = tx /\ SameButTx(d, r)
    BY <2>1, NewTx
  <2> QED BY <2>2, <2>3, Zenon DEF d
<1>4. e = [i \in 1 .. Len(u) |-> e[i]]
  BY <1>1, Zenon
<1>5. e \in [1 .. Len(u) -> Datoms]
  BY <1>1, <1>3, <1>4
<1> QED BY <1>1, <1>3, <1>5, FunctionIsSeq

LEMMA StampedIs ==
    ASSUME log \in Seq(Datoms), NEW tx \in Int, NEW by \in Nat, NEW e, e = Stamped(tx, by)
    PROVE  /\ e \in Seq(Datoms) /\ Len(e) = Len(log) /\ DOMAIN e = DOMAIN log
           /\ \A i \in DOMAIN log :
                 /\ e[i] \in Datoms /\ SameButInv(log[i], e[i])
                 /\ \/ e[i].inv = log[i].inv
                    \/ e[i].inv = by /\ log[i].tx = tx /\ log[i].op = "assert"
<1>1. DOMAIN log = 1 .. Len(log) /\ Len(log) \in Nat /\ \A i \in DOMAIN log : log[i] \in Datoms
  BY Long, Elements
<1>2. /\ \A i \in DOMAIN log :
            e[i] = IF log[i].tx = tx /\ log[i].inv = 0 /\ log[i].op = "assert"
                   THEN [log[i] EXCEPT !.inv = by] ELSE log[i]
      /\ e = [i \in DOMAIN log |-> e[i]]
  BY Zenon DEF Stamped
<1>3. ASSUME NEW i \in DOMAIN log
      PROVE  /\ e[i] \in Datoms /\ SameButInv(log[i], e[i])
             /\ \/ e[i].inv = log[i].inv
                \/ e[i].inv = by /\ log[i].tx = tx /\ log[i].op = "assert"
  <2> DEFINE d == log[i]
  <2>1. d \in Datoms
    BY <1>1
  <2>2. e[i] = IF d.tx = tx /\ d.inv = 0 /\ d.op = "assert" THEN [d EXCEPT !.inv = by] ELSE d
    BY <1>2, Zenon
  <2> HIDE DEF d
  <2>3. LET r == [d EXCEPT !.inv = by] IN r \in Datoms /\ r.inv = by /\ SameButInv(d, r)
    BY <2>1, NewInv
  <2>4. CASE d.tx = tx /\ d.inv = 0 /\ d.op = "assert"
    <3>1. e[i] = [d EXCEPT !.inv = by]
      BY <2>2, <2>4, Zenon
    <3>2. e[i] \in Datoms /\ e[i].inv = by /\ SameButInv(d, e[i])
      BY <2>3, <3>1, Zenon
    <3> QED BY <2>4, <3>2 DEF d
  <2>5. CASE ~ (d.tx = tx /\ d.inv = 0 /\ d.op = "assert")
    <3>1. e[i] = d
      BY <2>2, <2>5, Zenon
    <3> QED BY <2>1, <3>1 DEF d, SameButInv
  <2> QED BY <2>4, <2>5
<1>4. e = [i \in 1 .. Len(log) |-> e[i]]
  BY <1>1, <1>2, Zenon
<1>5. e \in [1 .. Len(log) -> Datoms]
  BY <1>1, <1>3, <1>4
<1>6. e \in Seq(Datoms) /\ Len(e) = Len(log) /\ DOMAIN e = DOMAIN log
  BY <1>1, <1>5, FunctionIsSeq
<1> QED BY <1>3, <1>6

LEMMA MaxTxIs ==
    ASSUME NEW s \in Seq(Datoms)
    PROVE  MaxTx(s) \in Nat /\ \A i \in DOMAIN s : s[i].tx <= MaxTx(s)
<1> DEFINE T == {0} \cup {s[i].tx : i \in DOMAIN s}
           g == [i \in DOMAIN s |-> s[i].tx]
<1>1. DOMAIN s = 1 .. Len(s) /\ Len(s) \in Nat /\ \A i \in DOMAIN s : s[i] \in Datoms
  BY Long, Elements
<1>2. \A i \in DOMAIN s : g[i] = s[i].tx /\ s[i].tx \in Int
  BY <1>1 DEF Datoms, Placeholder
<1>3. \A y \in T : y \in Int /\ (y = 0 \/ \E i \in DOMAIN s : y = s[i].tx)
  BY <1>2
<1>4. \E x \in T : \A y \in T : x >= y
  <2>1. CASE DOMAIN s = {}
    BY <2>1, <1>3
  <2>2. CASE DOMAIN s # {}
    <3>1. \E m \in DOMAIN s : \A i \in DOMAIN s : g[i] <= g[m]
      <4> HIDE DEF g
      <4>1. DOMAIN s \in SUBSET (1 .. Len(s)) /\ \A i \in DOMAIN s : g[i] \in Int
        BY <1>1, <1>2
      <4> QED BY <1>1, <2>2, <4>1, Greatest
    <3>2. PICK m \in DOMAIN s : \A i \in DOMAIN s : s[i].tx <= s[m].tx
      BY <3>1, <1>2
    <3>3. 0 \in T /\ s[m].tx \in T
      OBVIOUS
    <3> HIDE DEF T, g
    <3>4. CASE s[m].tx >= 0
      BY <1>2, <1>3, <3>2, <3>3, <3>4
    <3>5. CASE s[m].tx < 0
      <4>1. \A i \in DOMAIN s : s[i].tx <= 0
        BY <1>2, <3>2, <3>5
      <4> QED BY <1>2, <1>3, <3>3, <4>1, SMTT(30)
    <3> QED BY <1>2, <3>4, <3>5
  <2> QED BY <2>1, <2>2
<1>5. MaxTx(s) \in T /\ \A y \in T : MaxTx(s) >= y
  BY <1>4, Zenon DEF MaxTx, Max
<1>6. 0 \in T /\ \A i \in DOMAIN s : s[i].tx \in T
  OBVIOUS
<1> HIDE DEF T
<1> QED BY <1>2, <1>3, <1>5, <1>6
-----------------------------------------------------------------------------
(* The log is well formed.                                                 *)
TypeInv ==
    /\ now \in Nat /\ log \in Seq(Datoms) /\ \A i \in DOMAIN log : log[i].tx # Placeholder
    /\ lock \in Writers \cup {Nobody}
    /\ pc \in [Writers -> {"idle", "snap", "append", "mark"}]
    /\ calls \in 0 .. MaxCalls /\ time \in [Writers -> Nat] /\ force \in [Writers -> BOOLEAN]
    /\ arg \in [Writers -> Batches \cup {<<>>}]
    /\ new \in [Writers -> Seq(Datoms)] /\ old \in [Writers -> Seq(Int)]

(* What transaction tx wrote over something of the earlier transaction o.  *)
WroteOver(s, tx, o) == o < tx /\ \E r \in DOMAIN s : s[r].tx = tx /\ Replaces(s[r], s, o)

(* Where a call is, between two steps.                                     *)
CallInv(w) ==
    /\ pc[w] # "idle" => arg[w] \in Batches
    /\ pc[w] \in {"idle", "snap"} => new[w] = <<>> /\ old[w] = <<>>
    /\ pc[w] \in {"append", "mark"} => new[w] # <<>>
    /\ pc[w] = "append" => FreshOnes(new[w], arg[w], Len(arg[w]), time[w])
                           /\ Replaced(new[w], log, old[w])
    /\ pc[w] = "mark" => \A m \in DOMAIN old[w] :
                            old[w][m] # Placeholder => WroteOver(log, new[w][1].tx, old[w][m])

StampOK(i) ==
    log[i].inv # 0 => log[i].op = "assert" /\ WroteOver(log, log[i].inv, log[i].tx)

LogInv == /\ TypeInv
          /\ \A w \in Writers : CallInv(w)
          /\ \A i \in DOMAIN log : StampOK(i)

Grows(s, s2) == \A i \in DOMAIN s : i \in DOMAIN s2 /\ SameButInv(s[i], s2[i])

LEMMA GrowsAlone == ASSUME NEW s PROVE Grows(s, s)
BY DEF Grows, SameButInv

LEMMA ReplacesStays ==
    ASSUME NEW s, NEW s2, Grows(s, s2), NEW r, NEW o, Replaces(r, s, o)
    PROVE  Replaces(r, s2, o)
BY DEF Grows, Replaces, SameButInv

LEMMA ReplacedStays ==
    ASSUME NEW s, NEW s2, Grows(s, s2), NEW u, NEW o, Replaced(u, s, o)
    PROVE  Replaced(u, s2, o)
BY ReplacesStays DEF Replaced

LEMMA WroteOverStays ==
    ASSUME NEW s, NEW s2, Grows(s, s2), NEW tx, NEW o, WroteOver(s, tx, o)
    PROVE  WroteOver(s2, tx, o)
<1>1. PICK r \in DOMAIN s : s[r].tx = tx /\ Replaces(s[r], s, o)
  BY DEF WroteOver
<1>2. Replaces(s[r], s2, o)
  BY <1>1, ReplacesStays
<1>3. r \in DOMAIN s2 /\ s2[r].tx = tx /\ Replaces(s2[r], s2, o)
  BY <1>1, <1>2 DEF Grows, SameButInv, Replaces
<1> QED BY <1>3 DEF WroteOver

(* A call that makes no step, while the log grows.                         *)
LEMMA OthersStay ==
    ASSUME NEW w, CallInv(w), Grows(log, log'),
           pc'[w] = pc[w], arg'[w] = arg[w], new'[w] = new[w], old'[w] = old[w], time'[w] = time[w]
    PROVE  CallInv(w)'
<1>1. Replaced(new[w], log, old[w]) => Replaced(new[w], log', old[w])
  BY ReplacedStays
<1>2. \A tx, o : WroteOver(log, tx, o) => WroteOver(log', tx, o)
  BY WroteOverStays
<1> QED BY <1>1, <1>2 DEF CallInv

LEMMA TransactMade ==
    ASSUME NEW s \in Seq(Datoms), \A i \in DOMAIN s : s[i].tx # Placeholder,
           NEW x \in Seq(Facts), NEW t \in Nat, NEW forced
    PROVE  Made(s, Transact(s, x, t, forced), x, Len(x), t)
<1>1. Len(x) \in Nat
  BY Long
<1>2. PICK f : RunsTransact(f, s, x, t, forced)
  BY <1>1, TransactIs
<1>3. \A i \in 0 .. Len(x) : Made(s, f[i], x, i, t)
  BY <1>2, EachMade DEF RunsTransact
<1> QED BY <1>1, <1>2, <1>3 DEF RunsTransact

LEMMA TransactBatchMade ==
    ASSUME NEW s \in Seq(Datoms), \A i \in DOMAIN s : s[i].tx # Placeholder,
           NEW x \in Seq(Facts), NEW t \in Nat, NEW forced
    PROVE  Made(s, TransactBatch(s, x, t, forced), x, Len(x), t)
<1>1. Len(x) \in Nat
  BY Long
<1>2. PICK f : RunsBatch(f, s, x, t, forced)
  BY <1>1, TransactBatchIs
<1>3. \A i \in 0 .. Len(x) : Made(s, f[i], x, i, t)
  BY <1>2, BatchMade DEF RunsBatch
<1> QED BY <1>1, <1>2, <1>3 DEF RunsBatch

LEMMA ShapedIs ==
    ASSUME ConstantsOK, TypeInv, NEW w \in Writers, arg[w] \in Batches
    PROVE  Made(log, Shaped(w), arg[w], Len(arg[w]), time[w]) /\ arg[w] \in Seq(Facts) /\ arg[w] # <<>>
<1>1. arg[w] \in Seq(Facts) /\ arg[w] # <<>>
  BY DEF ConstantsOK
<1>2. log \in Seq(Datoms) /\ (\A i \in DOMAIN log : log[i].tx # Placeholder) /\ time[w] \in Nat
  BY DEF TypeInv
<1>3. Made(log, Transact(log, arg[w], time[w], force[w]), arg[w], Len(arg[w]), time[w])
  BY <1>1, <1>2, TransactMade
<1>4. Made(log, TransactBatch(log, arg[w], time[w], force[w]), arg[w], Len(arg[w]), time[w])
  BY <1>1, <1>2, TransactBatchMade
<1> QED BY <1>1, <1>3, <1>4 DEF Shaped

LEMMA LogInvInit == ASSUME ConstantsOK, Init PROVE LogInv
<1>1. <<>> \in Seq(Datoms) /\ <<>> \in Seq(Int) /\ DOMAIN (<<>>) = {}
  OBVIOUS
<1>2. TypeInv
  <2>1. new \in [Writers -> Seq(Datoms)] /\ old \in [Writers -> Seq(Int)]
    BY <1>1 DEF Init
  <2>2. arg \in [Writers -> Batches \cup {<<>>}] /\ time \in [Writers -> Nat]
        /\ force \in [Writers -> BOOLEAN] /\ pc \in [Writers -> {"idle", "snap", "append", "mark"}]
    BY DEF Init
  <2> QED BY <1>1, <2>1, <2>2 DEF Init, ConstantsOK, TypeInv
<1>3. \A w \in Writers : CallInv(w)
  BY DEF Init, CallInv
<1>4. \A i \in DOMAIN log : StampOK(i)
  BY <1>1 DEF Init
<1> QED BY <1>2, <1>3, <1>4 DEF LogInv

(* Steps that leave the log alone.                                         *)
LEMMA LogStays ==
    ASSUME LogInv, UNCHANGED log, NEW w \in Writers,
           \A u \in Writers \ {w} : /\ pc'[u] = pc[u] /\ arg'[u] = arg[u] /\ new'[u] = new[u]
                                    /\ old'[u] = old[u] /\ time'[u] = time[u],
           TypeInv', CallInv(w)'
    PROVE  LogInv'
<1>1. Grows(log, log')
  BY GrowsAlone
<1>2. \A u \in Writers : CallInv(u)'
  <2>1. ASSUME NEW u \in Writers, u # w PROVE CallInv(u)'
    BY <2>1, <1>1, OthersStay DEF LogInv
  <2> QED BY <2>1
<1>3. \A i \in DOMAIN log : StampOK(i)'
  <2> TAKE i \in DOMAIN log
  <2>1. StampOK(i) /\ log'[i] = log[i]
    BY DEF LogInv
  <2> QED BY <2>1 DEF StampOK
<1> QED BY <1>2, <1>3 DEF LogInv

LEMMA ReturnStep ==
    ASSUME LogInv, NEW w \in Writers, Return(w), UNCHANGED log
    PROVE  LogInv'
<1>1. <<>> \in Seq(Datoms) /\ <<>> \in Seq(Int)
  OBVIOUS
<1>2. /\ pc' = [pc EXCEPT ![w] = "idle"] /\ time' = [time EXCEPT ![w] = 0]
      /\ arg' = [arg EXCEPT ![w] = <<>>] /\ force' = [force EXCEPT ![w] = FALSE]
      /\ new' = [new EXCEPT ![w] = <<>>] /\ old' = [old EXCEPT ![w] = <<>>]
      /\ UNCHANGED <<now, calls>> /\ lock' = IF lock = w THEN Nobody ELSE lock
  BY DEF Return, Goto
<1>3. TypeInv'
  <2>1. new' \in [Writers -> Seq(Datoms)] /\ old' \in [Writers -> Seq(Int)]
    BY <1>1, <1>2 DEF LogInv, TypeInv
  <2>2. pc' \in [Writers -> {"idle", "snap", "append", "mark"}] /\ time' \in [Writers -> Nat]
        /\ arg' \in [Writers -> Batches \cup {<<>>}] /\ force' \in [Writers -> BOOLEAN]
    BY <1>2 DEF LogInv, TypeInv
  <2>3. lock' \in Writers \cup {Nobody} /\ now' \in Nat /\ calls' \in 0 .. MaxCalls
    BY <1>2 DEF LogInv, TypeInv
  <2> QED BY <2>1, <2>2, <2>3 DEF LogInv, TypeInv
<1>4. CallInv(w)'
  <2>1. pc'[w] = "idle" /\ new'[w] = <<>> /\ old'[w] = <<>>
    BY <1>2 DEF LogInv, TypeInv
  <2> QED BY <2>1 DEF CallInv
<1>5. \A u \in Writers \ {w} : /\ pc'[u] = pc[u] /\ arg'[u] = arg[u] /\ new'[u] = new[u]
                               /\ old'[u] = old[u] /\ time'[u] = time[u]
  BY <1>2 DEF LogInv, TypeInv
<1> QED BY <1>3, <1>4, <1>5, LogStays

LEMMA CallStep ==
    ASSUME ConstantsOK, LogInv, NEW w \in Writers, NEW b \in Batches, NEW forced \in BOOLEAN,
           Call(w, b, forced)
    PROVE  LogInv'
<1>1. /\ pc' = [pc EXCEPT ![w] = "snap"] /\ time' = [time EXCEPT ![w] = now']
      /\ arg' = [arg EXCEPT ![w] = b] /\ force' = [force EXCEPT ![w] = forced]
      /\ UNCHANGED <<log, new, old>> /\ now' = now + Tick /\ calls' = calls + 1
      /\ pc[w] = "idle" /\ calls < MaxCalls /\ (lock' = w \/ lock' = lock)
  BY DEF Call, Goto
<1>2. TypeInv'
  <2>1. now' \in Nat /\ calls' \in 0 .. MaxCalls
    BY <1>1 DEF LogInv, TypeInv, ConstantsOK
  <2>2. pc' \in [Writers -> {"idle", "snap", "append", "mark"}] /\ time' \in [Writers -> Nat]
        /\ arg' \in [Writers -> Batches \cup {<<>>}] /\ force' \in [Writers -> BOOLEAN]
    BY <1>1, <2>1 DEF LogInv, TypeInv
  <2>3. lock' \in Writers \cup {Nobody}
    BY <1>1 DEF LogInv, TypeInv
  <2> QED BY <1>1, <2>1, <2>2, <2>3 DEF LogInv, TypeInv
<1>3. CallInv(w)'
  <2>1. pc'[w] = "snap" /\ arg'[w] = b /\ new'[w] = new[w] /\ old'[w] = old[w]
    BY <1>1 DEF LogInv, TypeInv
  <2>2. new[w] = <<>> /\ old[w] = <<>>
    BY <1>1 DEF LogInv, CallInv
  <2> QED BY <2>1, <2>2 DEF CallInv
<1>4. \A u \in Writers \ {w} : /\ pc'[u] = pc[u] /\ arg'[u] = arg[u] /\ new'[u] = new[u]
                               /\ old'[u] = old[u] /\ time'[u] = time[u]
  BY <1>1 DEF LogInv, TypeInv
<1> QED BY <1>1, <1>2, <1>3, <1>4, LogStays

LEMMA SnapStep ==
    ASSUME ConstantsOK, LogInv, NEW w \in Writers, Snap(w)
    PROVE  LogInv'
<1> DEFINE r == Shaped(w)
<1>1. /\ pc[w] = "snap" /\ pc' = [pc EXCEPT ![w] = "append"] /\ ~r.refused
      /\ new' = [new EXCEPT ![w] = r.new] /\ old' = [old EXCEPT ![w] = r.old]
      /\ UNCHANGED <<now, log, lock, calls, time, arg, force>>
  BY DEF Snap, Goto
<1>2. arg[w] \in Batches
  BY <1>1 DEF LogInv, CallInv
<1>3. Made(log, r, arg[w], Len(arg[w]), time[w]) /\ arg[w] \in Seq(Facts) /\ arg[w] # <<>>
  BY <1>2, ShapedIs DEF LogInv
<1> HIDE DEF r
<1>4. r.new \in Seq(Datoms) /\ r.old \in Seq(Int)
  BY <1>3 DEF Made, Work
<1>5. r.new # <<>>
  <2>1. Len(arg[w]) # 0
    BY <1>3, EmptySeq
  <2> QED BY <1>1, <1>3, <2>1 DEF Made
<1>6. TypeInv'
  <2>1. new' \in [Writers -> Seq(Datoms)] /\ old' \in [Writers -> Seq(Int)]
    BY <1>1, <1>4 DEF LogInv, TypeInv
  <2>2. pc' \in [Writers -> {"idle", "snap", "append", "mark"}]
    BY <1>1 DEF LogInv, TypeInv
  <2> QED BY <1>1, <2>1, <2>2 DEF LogInv, TypeInv
<1>7. CallInv(w)'
  <2>1. pc'[w] = "append" /\ new'[w] = r.new /\ old'[w] = r.old
    BY <1>1 DEF LogInv, TypeInv
  <2>2. FreshOnes(r.new, arg[w], Len(arg[w]), time[w]) /\ Replaced(r.new, log, r.old)
    BY <1>3 DEF Made
  <2> QED BY <1>1, <1>2, <1>5, <2>1, <2>2 DEF CallInv
<1>8. \A u \in Writers \ {w} : /\ pc'[u] = pc[u] /\ arg'[u] = arg[u] /\ new'[u] = new[u]
                               /\ old'[u] = old[u] /\ time'[u] = time[u]
  BY <1>1 DEF LogInv, TypeInv
<1> QED BY <1>1, <1>6, <1>7, <1>8, LogStays

(* What allocate_and_append does to the log and to new_datoms.             *)
LEMMA AppendIs ==
    ASSUME TypeInv, NEW w \in Writers, AllocateAndAppend(w)
    PROVE  LET e == new'[w] tx == MaxTx(log) + 1 IN
           /\ tx \in Nat /\ tx > 0 /\ \A i \in DOMAIN log : log[i].tx < tx
           /\ e \in Seq(Datoms) /\ DOMAIN e = DOMAIN new[w] /\ Len(e) = Len(new[w])
           /\ \A i \in DOMAIN e : e[i] \in Datoms /\ e[i].tx = tx /\ SameButTx(new[w][i], e[i])
           /\ log' = log \o e /\ new' = [new EXCEPT ![w] = e]
<1> DEFINE e == new'[w]
           tx == MaxTx(log) + 1
<1>1. log \in Seq(Datoms) /\ new[w] \in Seq(Datoms) /\ new \in [Writers -> Seq(Datoms)]
      /\ \A i \in DOMAIN log : log[i].tx \in Int
  <2>1. log \in Seq(Datoms) /\ new[w] \in Seq(Datoms) /\ new \in [Writers -> Seq(Datoms)]
    BY DEF TypeInv
  <2>2. \A i \in DOMAIN log : log[i] \in Datoms
    BY <2>1, Elements
  <2>3. \A d \in Datoms : d.tx \in Int
    BY DEF Datoms, Placeholder
  <2> QED BY <2>1, <2>2, <2>3
<1>2. tx \in Nat /\ tx > 0 /\ \A i \in DOMAIN log : log[i].tx < tx
  BY <1>1, MaxTxIs
<1> DEFINE d == [i \in DOMAIN new[w] |-> [new[w][i] EXCEPT !.tx = tx]]
<1>3. new' = [new EXCEPT ![w] = d] /\ log' = log \o e
  BY Zenon DEF AllocateAndAppend
<1>4. e = d
  <2> HIDE DEF d
  <2> QED BY <1>1, <1>3
<1> HIDE DEF tx, e
<1>5. /\ d \in Seq(Datoms) /\ Len(d) = Len(new[w]) /\ DOMAIN d = DOMAIN new[w]
      /\ \A i \in DOMAIN new[w] : d[i] \in Datoms /\ d[i].tx = tx /\ SameButTx(new[w][i], d[i])
  BY <1>1, <1>2, AllocatedIs
<1> HIDE DEF d
<1>6. /\ tx \in Nat /\ tx > 0 /\ \A i \in DOMAIN log : log[i].tx < tx
      /\ e \in Seq(Datoms) /\ DOMAIN e = DOMAIN new[w] /\ Len(e) = Len(new[w])
      /\ \A i \in DOMAIN e : e[i] \in Datoms /\ e[i].tx = tx /\ SameButTx(new[w][i], e[i])
      /\ log' = log \o e /\ new' = [new EXCEPT ![w] = e]
  BY <1>2, <1>3, <1>4, <1>5
<1> QED BY <1>6 DEF tx, e

LEMMA JoinedGrows ==
    ASSUME NEW s \in Seq(Datoms), NEW e \in Seq(Datoms)
    PROVE  Grows(s, s \o e)
BY Joined DEF Grows, SameButInv

LEMMA AppendStep ==
    ASSUME LogInv, NEW w \in Writers, AllocateAndAppend(w)
    PROVE  LogInv'
<1> DEFINE e == new'[w]
           tx == MaxTx(log) + 1
<1>1. TypeInv
  BY DEF LogInv
<1>2. /\ tx \in Nat /\ tx > 0 /\ \A i \in DOMAIN log : log[i].tx < tx
      /\ e \in Seq(Datoms) /\ DOMAIN e = DOMAIN new[w] /\ Len(e) = Len(new[w])
      /\ \A i \in DOMAIN e : e[i] \in Datoms /\ e[i].tx = tx /\ SameButTx(new[w][i], e[i])
      /\ log' = log \o e /\ new' = [new EXCEPT ![w] = e]
  BY <1>1, AppendIs
<1>3. /\ pc[w] = "append" /\ pc' = [pc EXCEPT ![w] = "mark"]
      /\ UNCHANGED <<now, lock, calls, time, arg, force, old>>
  BY DEF AllocateAndAppend, Goto
<1> HIDE DEF tx, e
<1>4. log \in Seq(Datoms) /\ new[w] \in Seq(Datoms) /\ old[w] \in Seq(Int)
      /\ \A i \in DOMAIN log : log[i] \in Datoms
  BY <1>1, Elements DEF TypeInv
<1>5. /\ log' \in Seq(Datoms) /\ DOMAIN log' = 1 .. Len(log) + Len(e)
      /\ DOMAIN log = 1 .. Len(log) /\ DOMAIN e = 1 .. Len(e) /\ Len(log) \in Nat /\ Len(e) \in Nat
      /\ \A i \in DOMAIN log : i \in DOMAIN log' /\ log'[i] = log[i]
      /\ \A i \in DOMAIN e : Len(log) + i \in DOMAIN log' /\ log'[Len(log) + i] = e[i]
      /\ \A i \in DOMAIN log' : \/ i \in DOMAIN log /\ log'[i] = log[i]
                                \/ i - Len(log) \in DOMAIN e /\ log'[i] = e[i - Len(log)]
  <2> DEFINE s == log
             j == s \o e
  <2>1. s \in Seq(Datoms) /\ e \in Seq(Datoms) /\ log' = j
    BY <1>2, <1>4
  <2> HIDE DEF s
  <2>2. /\ j \in Seq(Datoms) /\ DOMAIN j = 1 .. Len(s) + Len(e)
        /\ DOMAIN s = 1 .. Len(s) /\ DOMAIN e = 1 .. Len(e) /\ Len(s) \in Nat /\ Len(e) \in Nat
        /\ \A i \in DOMAIN s : i \in DOMAIN j /\ j[i] = s[i]
        /\ \A i \in DOMAIN e : Len(s) + i \in DOMAIN j /\ j[Len(s) + i] = e[i]
        /\ \A i \in DOMAIN j : \/ i \in DOMAIN s /\ j[i] = s[i]
                               \/ i - Len(s) \in DOMAIN e /\ j[i] = e[i - Len(s)]
    BY <2>1, Joined
  <2> HIDE DEF j
  <2> QED BY <2>1, <2>2 DEF s
<1>6. Grows(log, log')
  BY <1>5 DEF Grows, SameButInv
<1>7. TypeInv'
  <2>1. new' \in [Writers -> Seq(Datoms)] /\ pc' \in [Writers -> {"idle", "snap", "append", "mark"}]
    BY <1>1, <1>2, <1>3 DEF TypeInv
  <2>2. tx # Placeholder /\ \A i \in DOMAIN log : log[i].tx # Placeholder
    BY <1>1, <1>2 DEF TypeInv, Placeholder
  <2>3. ASSUME NEW i \in DOMAIN log' PROVE log'[i].tx # Placeholder
    <3>1. CASE i \in DOMAIN log /\ log'[i] = log[i]
      BY <2>2, <3>1
    <3>2. CASE i - Len(log) \in DOMAIN e /\ log'[i] = e[i - Len(log)]
      <4>1. log'[i].tx = tx
        BY <1>2, <3>2
      <4> QED BY <2>2, <4>1
    <3> QED BY <1>5, <3>1, <3>2
  <2> QED BY <1>1, <1>3, <1>5, <2>1, <2>3 DEF TypeInv
<1>8. FreshOnes(new[w], arg[w], Len(arg[w]), time[w]) /\ Replaced(new[w], log, old[w])
      /\ new[w] # <<>> /\ arg[w] \in Batches
  BY <1>3 DEF LogInv, CallInv
<1>9. CallInv(w)'
  <2>1. pc'[w] = "mark" /\ old'[w] = old[w] /\ arg'[w] = arg[w]
    BY <1>1, <1>3 DEF TypeInv
  <2>2. 1 \in DOMAIN e /\ e # <<>> /\ e[1].tx = tx
    <3>1. Len(new[w]) \in Nat \ {0}
      BY <1>4, <1>8, EmptySeq
    <3>2. 1 \in DOMAIN e
      BY <1>2, <1>5, <3>1
    <3>3. Len(<<>>) = 0
      BY EmptySeq
    <3> QED BY <1>2, <3>1, <3>2, <3>3
  <2>3. ASSUME NEW m \in DOMAIN old[w], old[w][m] # Placeholder
        PROVE  WroteOver(log', tx, old[w][m])
    <3> DEFINE o == old[w][m]
    <3>1. PICK r \in DOMAIN new[w] : Replaces(new[w][r], log, o)
      BY <1>8, <2>3 DEF Replaced
    <3>2. o < tx
      BY <1>2, <3>1 DEF Replaces
    <3>3. Replaces(e[r], log, o)
      BY <1>2, <3>1 DEF Replaces, SameButTx
    <3>4. Replaces(e[r], log', o)
      BY <1>6, <3>3, ReplacesStays
    <3>5. Len(log) + r \in DOMAIN log' /\ log'[Len(log) + r] = e[r] /\ e[r].tx = tx
      BY <1>2, <1>5, <3>1
    <3> QED BY <3>2, <3>4, <3>5 DEF WroteOver
  <2>4. pc'[w] = "mark" /\ old'[w] = old[w] /\ arg'[w] = arg[w] /\ new'[w] = e
    BY <2>1 DEF e
  <2> QED BY <1>8, <2>2, <2>3, <2>4 DEF CallInv
<1>10. \A u \in Writers : CallInv(u)'
  <2>1. ASSUME NEW u \in Writers, u # w PROVE CallInv(u)'
    <3>1. /\ pc'[u] = pc[u] /\ arg'[u] = arg[u] /\ new'[u] = new[u]
          /\ old'[u] = old[u] /\ time'[u] = time[u]
      BY <1>1, <1>2, <1>3, <2>1 DEF TypeInv
    <3> QED BY <1>6, <3>1, OthersStay DEF LogInv
  <2> QED BY <1>9, <2>1
<1>11. ASSUME NEW i \in DOMAIN log' PROVE StampOK(i)'
  <2>1. CASE i \in DOMAIN log /\ log'[i] = log[i]
    <3>1. StampOK(i)
      BY <2>1 DEF LogInv
    <3>2. WroteOver(log, log[i].inv, log[i].tx) => WroteOver(log', log'[i].inv, log'[i].tx)
      BY <1>6, <2>1, WroteOverStays
    <3> QED BY <2>1, <3>1, <3>2 DEF StampOK
  <2>2. CASE i - Len(log) \in DOMAIN e /\ log'[i] = e[i - Len(log)]
    <3>1. log'[i].inv = 0
      BY <1>2, <1>8, <2>2 DEF FreshOnes, SameButTx
    <3> QED BY <3>1 DEF StampOK
  <2> QED BY <1>5, <2>1, <2>2
<1> QED BY <1>7, <1>10, <1>11 DEF LogInv

(* mark_invalidated writes over the head of the invalidations.             *)
LEMMA MarkStep ==
    ASSUME LogInv, NEW w \in Writers, MarkInvalidated(w)
    PROVE  LogInv'
<1> DEFINE o == old[w]
           by == new[w][1].tx
           s == log'
<1>1. TypeInv
  BY DEF LogInv
<1>2. /\ pc[w] = "mark" /\ o # <<>> /\ s = Stamped(Head(o), by) /\ old' = [old EXCEPT ![w] = Tail(o)]
      /\ UNCHANGED <<now, lock, pc, calls, time, arg, force, new>>
  BY DEF MarkInvalidated
<1>3. o \in Seq(Int) /\ log \in Seq(Datoms) /\ new[w] \in Seq(Datoms)
      /\ \A i \in DOMAIN log : log[i] \in Datoms /\ log[i].tx # Placeholder
  BY <1>1, Elements DEF TypeInv
<1>4. /\ \A m \in DOMAIN o : o[m] # Placeholder => WroteOver(log, by, o[m])
      /\ new[w] # <<>> /\ arg[w] \in Batches
  BY <1>2 DEF LogInv, CallInv
<1>5. Head(o) \in Int /\ Head(o) = o[1] /\ 1 \in DOMAIN o
  <2> HIDE DEF o
  <2>1. Len(o) \in Nat \ {0}
    BY <1>2, <1>3, EmptySeq
  <2>2. 1 \in DOMAIN o
    BY <1>3, <2>1, Long
  <2> QED BY <1>2, <1>3, <2>2, HeadTailProperties
<1>6. /\ Tail(o) \in Seq(Int)
      /\ \A m \in DOMAIN Tail(o) : m + 1 \in DOMAIN o /\ Tail(o)[m] = o[m + 1]
  <2> HIDE DEF o
  <2>1. /\ Tail(o) \in Seq(Int) /\ Len(Tail(o)) = Len(o) - 1 /\ Len(o) \in Nat /\ DOMAIN o = 1 .. Len(o)
        /\ \A m \in 1 .. Len(Tail(o)) : Tail(o)[m] = o[m + 1]
    BY <1>2, <1>3, HeadTailProperties, Long
  <2>2. DOMAIN Tail(o) = 1 .. Len(Tail(o))
    BY <2>1, Long
  <2> QED BY <2>1, <2>2
<1> HIDE DEF o
<1>7. by \in Int
  <2>1. Len(new[w]) \in Nat \ {0}
    BY <1>3, <1>4, EmptySeq
  <2>2. new[w][1] \in Datoms
    BY <1>3, <2>1, ElementOfSeq
  <2> QED BY <2>2 DEF Datoms, Placeholder
<1> HIDE DEF by
<1>8. by \in Nat \/ Stamped(Head(o), by) = log
  <2>1. CASE o[1] = Placeholder
    <3>1. \A i \in DOMAIN log : log[i].tx # Head(o)
      BY <1>3, <1>5, <2>1
    <3>2. Stamped(Head(o), by) = [i \in DOMAIN log |-> log[i]]
      BY <3>1 DEF Stamped
    <3>3. log = [i \in DOMAIN log |-> log[i]]
      BY <1>3
    <3> QED BY <3>2, <3>3
  <2>2. CASE o[1] # Placeholder
    <3>1. PICK r \in DOMAIN log : log[r].tx = by /\ log[r].tx # Placeholder /\ log[r] \in Datoms
      BY <1>3, <1>4, <1>5, <2>2 DEF WroteOver
    <3> QED BY <3>1 DEF Datoms
  <2> QED BY <2>1, <2>2
<1> HIDE DEF s
<1>9. /\ s \in Seq(Datoms) /\ DOMAIN s = DOMAIN log
      /\ \A i \in DOMAIN log :
            /\ s[i] \in Datoms /\ SameButInv(log[i], s[i])
            /\ \/ s[i].inv = log[i].inv
               \/ s[i].inv = by /\ log[i].tx = Head(o) /\ log[i].op = "assert"
  <2>1. CASE by \in Nat
    <3> DEFINE e == Stamped(Head(o), by)
    <3>1. log \in Seq(Datoms) /\ Head(o) \in Int /\ by \in Nat
      BY <1>3, <1>5, <2>1
    <3>2. /\ e \in Seq(Datoms) /\ DOMAIN e = DOMAIN log
          /\ \A i \in DOMAIN log :
                /\ e[i] \in Datoms /\ SameButInv(log[i], e[i])
                /\ \/ e[i].inv = log[i].inv
                   \/ e[i].inv = by /\ log[i].tx = Head(o) /\ log[i].op = "assert"
      <4> HIDE DEF e
      <4>1. e = Stamped(Head(o), by)
        BY DEF e
      <4> QED BY <3>1, <4>1, StampedIs, SMTT(30)
    <3> HIDE DEF e
    <3>3. s = e
      BY <1>2 DEF e
    <3> QED BY <3>2, <3>3
  <2>2. CASE s = log
    BY <1>3, <2>2 DEF SameButInv
  <2> QED BY <1>2, <1>8, <2>1, <2>2
<1>10. Grows(log, s)
  BY <1>9 DEF Grows
<1>11. TypeInv'
  <2>1. old' \in [Writers -> Seq(Int)]
    BY <1>1, <1>2, <1>6 DEF TypeInv
  <2>2. log' \in Seq(Datoms) /\ \A i \in DOMAIN log' : log'[i].tx # Placeholder
    BY <1>3, <1>9 DEF s, SameButInv
  <2> QED BY <1>1, <1>2, <2>1, <2>2 DEF TypeInv
<1>12. CallInv(w)'
  <2>1. old'[w] = Tail(o) /\ pc'[w] = "mark" /\ new'[w] = new[w] /\ arg'[w] = arg[w]
    BY <1>1, <1>2 DEF TypeInv, o
  <2>2. ASSUME NEW m \in DOMAIN Tail(o), Tail(o)[m] # Placeholder
        PROVE  WroteOver(s, by, Tail(o)[m])
    <3>1. WroteOver(log, by, Tail(o)[m])
      BY <1>4, <1>6, <2>2
    <3> QED BY <1>10, <3>1, WroteOverStays
  <2> QED BY <1>4, <2>1, <2>2 DEF CallInv, by, s
<1>13. \A u \in Writers : CallInv(u)'
  <2>1. ASSUME NEW u \in Writers, u # w PROVE CallInv(u)'
    <3>1. /\ pc'[u] = pc[u] /\ arg'[u] = arg[u] /\ new'[u] = new[u]
          /\ old'[u] = old[u] /\ time'[u] = time[u]
      BY <1>1, <1>2, <2>1 DEF TypeInv
    <3> QED BY <1>10, <3>1, OthersStay DEF LogInv, s
  <2> QED BY <1>12, <2>1
<1>14. ASSUME NEW i \in DOMAIN s PROVE StampOK(i)'
  <2>1. i \in DOMAIN log /\ SameButInv(log[i], s[i]) /\ StampOK(i)
    BY <1>9 DEF LogInv
  <2>2. CASE s[i].inv = log[i].inv
    <3>1. WroteOver(log, log[i].inv, log[i].tx) => WroteOver(s, s[i].inv, s[i].tx)
      BY <1>10, <2>1, <2>2, WroteOverStays DEF SameButInv
    <3> QED BY <2>1, <2>2, <3>1 DEF StampOK, SameButInv, s
  <2>3. CASE s[i].inv = by /\ log[i].tx = Head(o) /\ log[i].op = "assert"
    <3>1. o[1] # Placeholder
      BY <1>3, <1>5, <2>1, <2>3
    <3>2. WroteOver(s, by, o[1])
      BY <1>4, <1>5, <1>10, <3>1, WroteOverStays
    <3> QED BY <1>5, <2>1, <2>3, <3>2 DEF StampOK, SameButInv, s
  <2> QED BY <1>9, <2>1, <2>2, <2>3
<1> QED BY <1>11, <1>13, <1>14 DEF LogInv, s

LEMMA LogInvStep == ASSUME ConstantsOK, LogInv, [Next]_vars PROVE LogInv'
<1>1. CASE UNCHANGED vars
  <2>1. UNCHANGED <<now, log, lock, pc, calls, time, arg, force, new, old>>
    BY <1>1 DEF vars, locals
  <2>2. TypeInv'
    BY <2>1 DEF LogInv, TypeInv
  <2>3. \A w \in Writers : CallInv(w)'
    BY <2>1 DEF LogInv, CallInv
  <2>4. \A i \in DOMAIN log' : StampOK(i)'
    BY <2>1 DEF LogInv, StampOK
  <2> QED BY <2>2, <2>3, <2>4 DEF LogInv
<1>2. CASE Terminating
  BY <1>1, <1>2 DEF Terminating
<1>3. ASSUME NEW w \in Writers, Step(w) PROVE LogInv'
  <2>1. CASE \E b \in Batches, f \in BOOLEAN : Call(w, b, f)
    BY <2>1, CallStep
  <2>2. CASE Snap(w)
    BY <2>2, SnapStep
  <2>3. CASE AllocateAndAppend(w)
    BY <2>3, AppendStep
  <2>4. CASE MarkInvalidated(w)
    BY <2>4, MarkStep
  <2>5. CASE Refuse(w) \/ Done(w) \/ Die(w)
    BY <2>5, ReturnStep DEF Refuse, Done, Die
  <2> QED BY <1>3, <2>1, <2>2, <2>3, <2>4, <2>5 DEF Step
<1> QED BY <1>1, <1>2, <1>3 DEF Next

LEMMA LogInvAlways == Spec => []LogInv
<1>1. Init => LogInv
  BY ConstantsOK, LogInvInit
<1>2. LogInv /\ [Next]_vars => LogInv'
  BY ConstantsOK, LogInvStep
<1> QED BY <1>1, <1>2, PTL DEF Spec

(* What is in the log was allocated, and a stamp names a later transaction *)
(* that wrote over something of the one it is in, for every number of      *)
(* writers, keys, facts, refusals and deaths.                              *)
THEOREM LogIsWellFormed == Spec => []LogWellFormed
<1>1. LogInv => LogWellFormed
  <2> SUFFICES ASSUME LogInv PROVE LogWellFormed
    OBVIOUS
  <2>1. TypeOK
    <3>1. \A i \in DOMAIN log : log[i] \in Datoms /\ log[i].tx # Placeholder
      BY Elements DEF LogInv, TypeInv
    <3>2. ASSUME NEW w \in Writers
          PROVE  /\ arg[w] \in Batches \cup {<<>>}
                 /\ \A i \in DOMAIN new[w] : new[w][i] \in Datoms
                 /\ \A i \in DOMAIN old[w] : old[w][i] \in Int
      <4>1. new[w] \in Seq(Datoms) /\ old[w] \in Seq(Int) /\ arg[w] \in Batches \cup {<<>>}
        BY DEF LogInv, TypeInv
      <4> QED BY <4>1, Elements
    <3> QED BY <3>1, <3>2 DEF LogInv, TypeInv, TypeOK
  <2>2. ASSUME NEW i \in DOMAIN log, log[i].inv # 0
        PROVE  /\ log[i].op = "assert" /\ log[i].inv > log[i].tx
               /\ \E r, x \in DOMAIN log :
                     /\ log[r].auto /\ log[r].tx = log[i].inv
                     /\ log[x].tx = log[i].tx /\ log[x].op = "assert"
                     /\ log[x].key = log[r].key /\ log[x].v = log[r].v
    <3>1. log[i].op = "assert" /\ WroteOver(log, log[i].inv, log[i].tx)
      BY <2>2 DEF LogInv, StampOK
    <3>2. log[i] \in Datoms
      BY Elements DEF LogInv, TypeInv
    <3>3. log[i].inv \in Int /\ log[i].tx \in Int
      BY <3>2 DEF Datoms, Placeholder
    <3> QED BY <3>1, <3>3 DEF WroteOver, Replaces
  <2>3. StampsExplained
    BY <2>2 DEF StampsExplained
  <2> QED BY <2>1, <2>3 DEF LogWellFormed
<1> QED BY <1>1, LogInvAlways, PTL
-----------------------------------------------------------------------------
(* The retracts of a log that only transact writes: each is a companion,   *)
(* which comes right before the assert it makes room for, and can close    *)
(* only what is older than some assert of its key; asserts never tie.      *)
OnlyCompanions(u) == \A i \in DOMAIN u : u[i].op = "retract" <=> u[i].auto

Untied(u) ==
    \A i, j \in DOMAIN u :
        i # j /\ u[i].op = "assert" /\ u[j].op = "assert" /\ u[i].key = u[j].key => u[i].from # u[j].from

Precede(u) ==
    \A i \in DOMAIN u : u[i].op = "retract" =>
        /\ i + 1 \in DOMAIN u /\ u[i + 1].op = "assert"
        /\ u[i + 1].key = u[i].key /\ u[i + 1].from >= u[i].from

Newer(s, d) == \E j \in DOMAIN s : s[j].op = "assert" /\ s[j].key = d.key /\ s[j].from > d.from

Outdated(u, s) == \A i \in DOMAIN u : u[i].op = "retract" => Newer(s, u[i]) \/ Newer(u, u[i])

Tidy(s, u) == OnlyCompanions(u) /\ Untied(u) /\ Precede(u) /\ Outdated(u, s)

TiesWith(u, d) == \E i \in DOMAIN u : u[i].op = "assert" /\ u[i].key = d.key /\ u[i].from = d.from

LEMMA TidyAssert ==
    ASSUME NEW s, NEW u \in Seq(Datoms), Tidy(s, u), NEW d \in Datoms,
           d.op = "assert", d.auto = FALSE, ~TiesWith(u, d)
    PROVE  Tidy(s, u \o <<d>>)
<1> DEFINE j == u \o <<d>>
           l == Len(u) + 1
<1>1. /\ \A i \in DOMAIN u : i \in DOMAIN j /\ j[i] = u[i]
      /\ j[l] = d /\ l \in DOMAIN j /\ \A i \in DOMAIN j : i \in DOMAIN u \/ i = l
  BY Added
<1> HIDE DEF j, l
<1>2. OnlyCompanions(j)
  BY <1>1 DEF Tidy, OnlyCompanions
<1>3. Untied(j)
  BY <1>1 DEF Tidy, Untied, TiesWith
<1>4. Precede(j)
  BY <1>1 DEF Tidy, Precede
<1>5. Outdated(j, s)
  BY <1>1 DEF Tidy, Outdated, Newer
<1> QED BY <1>2, <1>3, <1>4, <1>5 DEF Tidy, j

LEMMA TidyPair ==
    ASSUME NEW s, NEW u \in Seq(Datoms), Tidy(s, u), NEW c \in Datoms, NEW d \in Datoms,
           d.op = "assert", d.auto = FALSE, ~TiesWith(u, d),
           c.op = "retract", c.auto = TRUE, c.key = d.key, c.from <= d.from,
           c.from < d.from \/ Newer(s, c) \/ Newer(u, c)
    PROVE  Tidy(s, (u \o <<c>>) \o <<d>>)
<1> DEFINE m == u \o <<c>>
           j == m \o <<d>>
           k == Len(u) + 1
           l == Len(m) + 1
<1>1. /\ m \in Seq(Datoms) /\ \A i \in DOMAIN u : i \in DOMAIN m /\ m[i] = u[i]
      /\ m[k] = c /\ k \in DOMAIN m /\ \A i \in DOMAIN m : i \in DOMAIN u \/ i = k
  BY Added
<1>2. k + 1 = l /\ k \notin DOMAIN u
  <2>1. Len(m) = k /\ Len(u) \in Nat /\ DOMAIN u = 1 .. Len(u)
    BY Added
  <2> HIDE DEF m
  <2> QED BY <2>1
<1> HIDE DEF m
<1>3. /\ \A i \in DOMAIN m : i \in DOMAIN j /\ j[i] = m[i]
      /\ j[l] = d /\ l \in DOMAIN j /\ \A i \in DOMAIN j : i \in DOMAIN m \/ i = l
  BY <1>1, Added
<1> HIDE DEF j, k, l
<1>4. /\ \A i \in DOMAIN u : i \in DOMAIN j /\ j[i] = u[i]
      /\ j[k] = c /\ k \in DOMAIN j /\ j[l] = d /\ l \in DOMAIN j
      /\ \A i \in DOMAIN j : i \in DOMAIN u \/ i = k \/ i = l
  BY <1>1, <1>3
<1>5. OnlyCompanions(j)
  BY <1>4 DEF Tidy, OnlyCompanions
<1>6. Untied(j)
  BY <1>4 DEF Tidy, Untied, TiesWith
<1>7. Precede(j)
  <2>1. ASSUME NEW i \in DOMAIN j, j[i].op = "retract"
        PROVE  /\ i + 1 \in DOMAIN j /\ j[i + 1].op = "assert"
               /\ j[i + 1].key = j[i].key /\ j[i + 1].from >= j[i].from
    <3>1. CASE i \in DOMAIN u
      BY <1>4, <2>1, <3>1 DEF Tidy, Precede
    <3>2. CASE i = k
      <4>1. c.from \in Int /\ d.from \in Int
        BY DEF Datoms
      <4> QED BY <1>2, <1>4, <3>2, <4>1
    <3> QED BY <1>4, <2>1, <3>1, <3>2
  <2> QED BY <2>1 DEF Precede
<1>8. Outdated(j, s)
  <2>1. ASSUME NEW i \in DOMAIN j, j[i].op = "retract"
        PROVE  Newer(s, j[i]) \/ Newer(j, j[i])
    <3>1. CASE i \in DOMAIN u
      BY <1>4, <2>1, <3>1 DEF Tidy, Outdated, Newer
    <3>2. CASE i = k
      <4>1. c.from \in Int /\ d.from \in Int
        BY DEF Datoms
      <4>2. c.from < d.from => Newer(j, c)
        BY <1>4, <4>1 DEF Newer
      <4>3. Newer(u, c) => Newer(j, c)
        BY <1>4 DEF Newer
      <4> QED BY <1>4, <3>2, <4>2, <4>3
    <3> QED BY <1>4, <2>1, <3>1, <3>2
  <2> QED BY <2>1 DEF Outdated
<1> QED BY <1>5, <1>6, <1>7, <1>8 DEF Tidy, j, m

(* A list of asserts that do not tie, with each other or with the log.     *)
Asserts(x) == \A i \in 1 .. Len(x) : x[i].op = "assert"

Distinct(x) == \A i, j \in 1 .. Len(x) : i # j /\ x[i].key = x[j].key => x[i].lag # x[j].lag

NoneTies(s, x, t) == \A i \in 1 .. Len(x) : ~TiesWith(s, Datom(x[i], t))

LEMMA TidyStep ==
    ASSUME NEW s \in Seq(Datoms), NEW x \in Seq(Facts), NEW t \in Nat,
           Asserts(x), Distinct(x), NoneTies(s, x, t), NEW n \in 1 .. Len(x),
           NEW st, Made(s, st, x, n - 1, t), Tidy(s, st.new),
           NEW r, Stepped(s, st, r, x[n], t)
    PROVE  Tidy(s, r.new)
<1> DEFINE f == x[n]
           d == Datom(f, t)
           u == st.new
<1>1. f \in Facts /\ f.op = "assert" /\ Len(x) \in Nat
  BY Long, ElementOfSeq DEF Asserts
<1>2. /\ d \in Datoms /\ d.op = "assert" /\ d.auto = FALSE /\ d.key = f.key
      /\ d.from = t - f.lag /\ t - f.lag \in Int /\ f.lag \in Nat
  <2> HIDE DEF f
  <2>1. f.lag \in Nat
    BY <1>1 DEF Facts
  <2>2. t - f.lag \in Int
    BY <2>1
  <2>3. d \in Datoms /\ d.op = "assert" /\ d.auto = FALSE /\ d.key = f.key /\ d.from = t - f.lag
    <3>1. /\ d \in Datoms /\ d.op = f.op /\ d.auto = FALSE /\ d.key = f.key
          /\ d.from = t - f.lag
      BY <1>1, DatomIs
    <3> HIDE DEF d
    <3> QED BY <1>1, <3>1
  <2> HIDE DEF d
  <2> QED BY <2>1, <2>2, <2>3
<1>3. u \in Seq(Datoms) /\ FreshOnes(u, x, n - 1, t)
  BY DEF Made, Work
<1>4. ~TiesWith(u, d) /\ ~TiesWith(s, d)
  <2>1. ASSUME NEW i \in DOMAIN u, u[i].op = "assert", u[i].key = d.key, u[i].from = d.from
        PROVE  FALSE
    <3>1. PICK m \in 1 .. n - 1 : u[i] = Datom(x[m], t)
      BY <1>3, <2>1 DEF FreshOnes
    <3> DEFINE y == x[m]
    <3>2. y \in Facts /\ m \in 1 .. Len(x) /\ m # n
      BY <1>1, ElementOfSeq
    <3>3. Datom(y, t).key = y.key /\ Datom(y, t).from = t - y.lag /\ y.lag \in Nat
      <4> HIDE DEF y
      <4> QED BY <3>2, DatomIs DEF Facts
    <3>4. y.key = f.key /\ y.lag = f.lag
      <4>1. u[i] = Datom(y, t)
        BY <3>1
      <4> HIDE DEF y, f, d
      <4> QED BY <1>2, <2>1, <3>3, <4>1
    <3> QED BY <3>2, <3>4 DEF Distinct
  <2>2. ~TiesWith(s, d)
    BY DEF NoneTies
  <2> HIDE DEF d, u
  <2> QED BY <2>1, <2>2 DEF TiesWith
<1>5. PICK prior :
        /\ r.refused \/ Finds(s, u, f.key, prior)
        /\ st.refused => r.refused
        /\ r.refused => r.new = u /\ r.old = st.old
        /\ ~r.refused => Adds(st, r, f, prior, t)
  BY DEF Stepped
<1>6. CASE r.refused
  BY <1>5, <1>6
<1>7. CASE r.new = u \o <<d>>
  <2> HIDE DEF u, d
  <2>1. Tidy(s, u)
    BY DEF u
  <2> QED BY <1>2, <1>3, <1>4, <1>7, <2>1, TidyAssert
<1>8. CASE ~r.refused /\ \E p \in Datoms :
             prior = <<p>> /\ r.new = (u \o <<Companion(p, t - f.lag, t)>>) \o <<d>>
  <2>1. PICK p \in Datoms :
             prior = <<p>> /\ r.new = (u \o <<Companion(p, t - f.lag, t)>>) \o <<d>>
    BY <1>8
  <2> DEFINE vf == t - f.lag
             c == Companion(p, vf, t)
  <2>2. vf \in Int /\ d.from = vf
    BY <1>2
  <2> HIDE DEF vf
  <2>3. /\ c \in Datoms /\ c.op = "retract" /\ c.auto = TRUE /\ c.key = p.key
        /\ c.from = IF vf < p.from THEN vf ELSE p.from
    BY <2>2, CompanionIs, ZenonT(30)
  <2>4. p.key = d.key /\ p.op = "assert" /\ (In(p, s) \/ In(p, u)) /\ p.from \in Int
    <3>1. p.from \in Int
      BY DEF Datoms
    <3> QED BY <1>2, <1>5, <1>8, <2>1, <3>1 DEF Finds
  <2>5. r.new = (u \o <<c>>) \o <<d>>
    BY <2>1 DEF vf
  <2> HIDE DEF c, d, u, f
  <2>6. c.from <= d.from /\ c.key = d.key
    BY <2>2, <2>3, <2>4
  <2>7. c.from < d.from \/ Newer(s, c) \/ Newer(u, c)
    <3>1. CASE c.from < d.from
      BY <3>1
    <3>2. CASE ~(c.from < d.from)
      <4>1. vf <= p.from /\ c.from = vf
        BY <2>2, <2>3, <2>4, <3>2
      <4>2. p.from # vf
        BY <1>4, <2>2, <2>4 DEF TiesWith, In
      <4>3. p.from > c.from
        BY <2>2, <2>4, <4>1, <4>2
      <4> QED BY <2>3, <2>4, <4>3 DEF Newer, In
    <3> QED BY <3>1, <3>2
  <2>8. Tidy(s, u)
    BY DEF u
  <2> QED BY <1>2, <1>3, <1>4, <2>3, <2>5, <2>6, <2>7, <2>8, TidyPair
<1>9. ~r.refused => \/ r.new = u \o <<d>>
                    \/ \E p \in Datoms :
                         prior = <<p>> /\ r.new = (u \o <<Companion(p, t - f.lag, t)>>) \o <<d>>
  BY <1>5 DEF Adds
<1> QED BY <1>6, <1>7, <1>8, <1>9

LEMMA LoopTidy ==
    ASSUME NEW s \in Seq(Datoms), NEW x \in Seq(Facts), NEW t \in Nat,
           Asserts(x), Distinct(x), NoneTies(s, x, t),
           NEW f, f[0] = NoDatoms,
           \A i \in 0 .. Len(x) : /\ Made(s, f[i], x, i, t)
                                  /\ i > 0 => Stepped(s, f[i - 1], f[i], x[i], t)
    PROVE  Tidy(s, f[Len(x)].new)
<1>1. Len(x) \in Nat
  BY Long
<1> DEFINE P == {i \in 0 .. Len(x) : Tidy(s, f[i].new)}
<1>2. 0 \in P
  <2>1. NoDatoms.new = <<>> /\ DOMAIN (<<>>) = {}
    BY DEF NoDatoms
  <2>2. Tidy(s, NoDatoms.new)
    BY <2>1 DEF Tidy, OnlyCompanions, Untied, Precede, Outdated
  <2> QED BY <1>1, <2>2
<1>3. ASSUME NEW i \in 1 .. Len(x), i - 1 \in P PROVE i \in P
  <2>1. i - 1 \in 0 .. Len(x) /\ i \in 0 .. Len(x) /\ i > 0 /\ Tidy(s, f[i - 1].new)
    BY <1>1, <1>3
  <2>2. Made(s, f[i - 1], x, i - 1, t) /\ Stepped(s, f[i - 1], f[i], x[i], t)
    BY <2>1
  <2>3. Tidy(s, f[i].new)
    <3> DEFINE st == f[i - 1]
               r == f[i]
    <3>1. Made(s, st, x, i - 1, t) /\ Stepped(s, st, r, x[i], t) /\ Tidy(s, st.new)
      BY <2>1, <2>2
    <3> HIDE DEF st, r
    <3>2. Tidy(s, r.new)
      BY <3>1, TidyStep
    <3> QED BY <3>2 DEF r
  <2> QED BY <2>1, <2>3
<1> HIDE DEF P
<1>4. \A i \in 0 .. Len(x) : i \in P
  BY <1>1, <1>2, <1>3, Upwards
<1> QED BY <1>1, <1>4 DEF P

LEMMA TransactTidy ==
    ASSUME NEW s \in Seq(Datoms), \A i \in DOMAIN s : s[i].tx # Placeholder,
           NEW x \in Seq(Facts), NEW t \in Nat, NEW forced
    PROVE  Asserts(x) /\ Distinct(x) /\ NoneTies(s, x, t)
              => Tidy(s, Transact(s, x, t, forced).new)
<1>1. Len(x) \in Nat
  BY Long
<1>2. PICK f : RunsTransact(f, s, x, t, forced)
  BY <1>1, TransactIs
<1>3. \A i \in 0 .. Len(x) : /\ Made(s, f[i], x, i, t)
                             /\ i > 0 => Stepped(s, f[i - 1], f[i], x[i], t)
  BY <1>2, EachMade DEF RunsTransact
<1> QED BY <1>2, <1>3, LoopTidy DEF RunsTransact

LEMMA TransactBatchTidy ==
    ASSUME NEW s \in Seq(Datoms), \A i \in DOMAIN s : s[i].tx # Placeholder,
           NEW x \in Seq(Facts), NEW t \in Nat, NEW forced
    PROVE  Asserts(x) /\ Distinct(x) /\ NoneTies(s, x, t)
              => Tidy(s, TransactBatch(s, x, t, forced).new)
<1>1. Len(x) \in Nat
  BY Long
<1>2. PICK f : RunsBatch(f, s, x, t, forced)
  BY <1>1, TransactBatchIs
<1>3. \A i \in 0 .. Len(x) : /\ Made(s, f[i], x, i, t)
                             /\ i > 0 => Stepped(s, f[i - 1], f[i], x[i], t)
  BY <1>2, BatchMade DEF RunsBatch
<1> QED BY <1>2, <1>3, LoopTidy DEF RunsBatch

-----------------------------------------------------------------------------
(* Each call has a reading of the clock to itself, and each assert the lag *)
(* of a fact of its call, so that no two asserts of a key tie.             *)
CallTimes(n) == {i * Tick : i \in 1 .. n}

FactIn(d, b) == \E i \in 1 .. Len(b) : b[i].key = d.key /\ d.from = d.time - b[i].lag

Dated(d, n) == d.time \in CallTimes(n) /\ (d.op = "assert" => \E b \in Batches : FactIn(d, b))

CallDates(w) ==
    /\ pc[w] # "idle" => time[w] \in CallTimes(calls)
    /\ pc[w] \in {"snap", "append"} => \A i \in DOMAIN log : log[i].time # time[w]
    /\ pc[w] = "append" => Tidy(log, new[w])

TimesDiffer(w, u) == w # u /\ pc[w] # "idle" /\ pc[u] # "idle" => time[w] # time[u]

DateInv ==
    /\ now = calls * Tick
    /\ \A w \in Writers : CallDates(w)
    /\ \A w, u \in Writers : TimesDiffer(w, u)
    /\ \A i \in DOMAIN log : Dated(log[i], calls)
    /\ Tidy(log, log)

LEMMA Multiples ==
    ASSUME Tick \in Nat \ {0}, NEW i \in Nat, NEW j \in Nat, i < j
    PROVE  /\ i * Tick \in Nat /\ j * Tick \in Nat /\ (j - i) * Tick = j * Tick - i * Tick
           /\ i * Tick < j * Tick
<1>1. i * Tick \in Nat /\ j * Tick \in Nat
  OBVIOUS
<1>2. (j - i) * Tick = j * Tick - i * Tick
  OBVIOUS
<1>3. (j - i) * Tick > 0
  OBVIOUS
<1> QED BY <1>1, <1>2, <1>3

LEMMA TimesApart ==
    ASSUME ConstantsOK, NoTies, NEW b \in Batches, NEW c \in Batches,
           NEW i \in 1 .. Len(b), NEW j \in 1 .. Len(c), b[i].key = c[j].key,
           NEW t \in CallTimes(MaxCalls), NEW u \in CallTimes(MaxCalls), t # u
    PROVE  t - b[i].lag # u - c[j].lag
<1>1. PICK n \in 1 .. MaxCalls, m \in 1 .. MaxCalls : t = n * Tick /\ u = m * Tick
  BY DEF CallTimes
<1>2. b[i] \in Facts /\ c[j] \in Facts
  BY ElementOfSeq DEF ConstantsOK
<1> DEFINE p == b[i].lag
           q == c[j].lag
<1>3. p \in Nat /\ q \in Nat
  BY <1>2 DEF Facts
<1>4. \A k \in 1 .. MaxCalls : p - q # k * Tick /\ q - p # k * Tick
  BY DEF NoTies
<1>5. Tick \in Nat \ {0} /\ MaxCalls \in Nat /\ n \in Nat /\ m \in Nat
  BY DEF ConstantsOK
<1> HIDE DEF p, q
<1>6. CASE n < m
  <2>1. (m - n) * Tick = m * Tick - n * Tick /\ n * Tick \in Nat /\ m * Tick \in Nat
    BY <1>5, <1>6, Multiples
  <2>2. m - n \in 1 .. MaxCalls
    BY <1>5, <1>6
  <2>3. q - p # m * Tick - n * Tick
    BY <1>4, <2>1, <2>2
  <2> DEFINE y == n * Tick
             z == m * Tick
  <2>4. t = y /\ u = z /\ y \in Nat /\ z \in Nat
    BY <1>1, <2>1
  <2> HIDE DEF y, z
  <2>5. t - p # u - q
    BY <1>3, <2>3, <2>4 DEF y, z
  <2> QED BY <2>5 DEF p, q
<1>7. CASE m < n
  <2>1. (n - m) * Tick = n * Tick - m * Tick /\ n * Tick \in Nat /\ m * Tick \in Nat
    BY <1>5, <1>7, Multiples
  <2>2. n - m \in 1 .. MaxCalls
    BY <1>5, <1>7
  <2>3. p - q # n * Tick - m * Tick
    BY <1>4, <2>1, <2>2
  <2> DEFINE y == n * Tick
             z == m * Tick
  <2>4. t = y /\ u = z /\ y \in Nat /\ z \in Nat
    BY <1>1, <2>1
  <2> HIDE DEF y, z
  <2>5. t - p # u - q
    BY <1>3, <2>3, <2>4 DEF y, z
  <2> QED BY <2>5 DEF p, q
<1>8. n # m
  BY <1>1
<1> QED BY <1>5, <1>6, <1>7, <1>8

(* What a call is about to write does not tie with the log.                *)
LEMMA CallTiesNot ==
    ASSUME ConstantsOK, NoTies, NEW n \in 0 .. MaxCalls, NEW s, \A i \in DOMAIN s : Dated(s[i], n),
           NEW b \in Batches, NEW t \in CallTimes(n), \A i \in DOMAIN s : s[i].time # t
    PROVE  NoneTies(s, b, t)
<1>1. CallTimes(n) \subseteq CallTimes(MaxCalls) /\ CallTimes(MaxCalls) \subseteq Nat
  <2>1. n \in Nat /\ MaxCalls \in Nat /\ n <= MaxCalls /\ Tick \in Nat
    BY DEF ConstantsOK
  <2>2. \A i \in 1 .. MaxCalls : i * Tick \in Nat
    BY <2>1
  <2> QED BY <2>1, <2>2 DEF CallTimes
<1>2. SUFFICES ASSUME NEW i \in 1 .. Len(b), TiesWith(s, Datom(b[i], t)) PROVE FALSE
  BY DEF NoneTies
<1> DEFINE f == b[i]
<1>3. f \in Facts /\ t \in Nat
  BY <1>1, ElementOfSeq DEF ConstantsOK
<1>4. Datom(f, t).key = f.key /\ Datom(f, t).from = t - f.lag
  <2> HIDE DEF f
  <2> QED BY <1>3, DatomIs
<1>5. PICK j \in DOMAIN s : s[j].op = "assert" /\ s[j].key = f.key /\ s[j].from = t - f.lag
  BY <1>2, <1>4 DEF TiesWith
<1>6. PICK c \in Batches :
        \E m \in 1 .. Len(c) : c[m].key = s[j].key /\ s[j].from = s[j].time - c[m].lag
  BY <1>5 DEF Dated, FactIn
<1>7. PICK m \in 1 .. Len(c) : c[m].key = s[j].key /\ s[j].from = s[j].time - c[m].lag
  BY <1>6
<1>8. s[j].time \in CallTimes(MaxCalls) /\ t \in CallTimes(MaxCalls) /\ s[j].time # t
  BY <1>1 DEF Dated
<1>9. s[j].time - c[m].lag # t - f.lag
  BY <1>5, <1>8, <1>7, TimesApart
<1> QED BY <1>5, <1>9, <1>7

LEMMA TidyGrows ==
    ASSUME NEW s, NEW s2, Grows(s, s2), NEW u, Tidy(s, u)
    PROVE  Tidy(s2, u)
<1>1. \A d : Newer(s, d) => Newer(s2, d)
  BY DEF Newer, Grows, SameButInv
<1> QED BY <1>1 DEF Tidy, Outdated

LEMMA TidySame ==
    ASSUME NEW s, NEW s2, Grows(s, s2), DOMAIN s2 = DOMAIN s, Tidy(s, s)
    PROVE  Tidy(s2, s2)
<1>1. \A i \in DOMAIN s : SameButInv(s[i], s2[i])
  BY DEF Grows
<1>2. OnlyCompanions(s2)
  BY <1>1 DEF Tidy, OnlyCompanions, SameButInv
<1>3. Untied(s2)
  BY <1>1 DEF Tidy, Untied, SameButInv
<1>4. Precede(s2)
  BY <1>1 DEF Tidy, Precede, SameButInv
<1>5. Outdated(s2, s2)
  BY <1>1 DEF Tidy, Outdated, Newer, SameButInv
<1> QED BY <1>2, <1>3, <1>4, <1>5 DEF Tidy

LEMMA TidyJoined ==
    ASSUME NEW s \in Seq(Datoms), NEW u, NEW e \in Seq(Datoms), DOMAIN e = DOMAIN u,
           \A i \in DOMAIN u : SameButTx(u[i], e[i]), Tidy(s, s), Tidy(s, u),
           \A i \in DOMAIN u : u[i].op = "assert" => ~TiesWith(s, u[i])
    PROVE  Tidy(s \o e, s \o e)
<1> DEFINE j == s \o e
           n == Len(s)
<1>1. /\ n \in Nat /\ DOMAIN s = 1 .. n /\ Len(e) \in Nat /\ DOMAIN e = 1 .. Len(e)
      /\ \A i \in DOMAIN s : i \in DOMAIN j /\ j[i] = s[i]
      /\ \A i \in DOMAIN e : n + i \in DOMAIN j /\ j[n + i] = e[i]
      /\ \A i \in DOMAIN j : \/ i \in DOMAIN s /\ j[i] = s[i]
                             \/ i - n \in DOMAIN e /\ j[i] = e[i - n]
  BY Joined
<1>2. DOMAIN j = 1 .. n + Len(e)
  BY Joined
<1> HIDE DEF j, n
<1>3. Tidy(s, e)
  <2>1. OnlyCompanions(e)
    BY DEF Tidy, OnlyCompanions, SameButTx
  <2>2. Untied(e)
    BY DEF Tidy, Untied, SameButTx
  <2>3. Precede(e)
    BY DEF Tidy, Precede, SameButTx
  <2>4. Outdated(e, s)
    BY DEF Tidy, Outdated, Newer, SameButTx
  <2> QED BY <2>1, <2>2, <2>3, <2>4 DEF Tidy
<1>4. \A i \in DOMAIN e : e[i].op = "assert" => ~TiesWith(s, e[i])
  BY DEF SameButTx, TiesWith
<1>5. OnlyCompanions(j)
  BY <1>1, <1>3 DEF Tidy, OnlyCompanions
<1>6. Untied(j)
  <2> SUFFICES ASSUME NEW a \in DOMAIN j, NEW b \in DOMAIN j, a # b, j[a].op = "assert",
                      j[b].op = "assert", j[a].key = j[b].key, j[a].from = j[b].from
               PROVE  FALSE
    BY DEF Untied
  <2>1. a \in Int /\ b \in Int
    BY <1>2
  <2>2. CASE a \in DOMAIN s /\ j[a] = s[a] /\ b \in DOMAIN s /\ j[b] = s[b]
    BY <2>2 DEF Tidy, Untied
  <2>3. CASE a \in DOMAIN s /\ j[a] = s[a] /\ b - n \in DOMAIN e /\ j[b] = e[b - n]
    BY <2>3, <1>4 DEF TiesWith
  <2>4. CASE b \in DOMAIN s /\ j[b] = s[b] /\ a - n \in DOMAIN e /\ j[a] = e[a - n]
    BY <2>4, <1>4 DEF TiesWith
  <2>5. CASE a - n \in DOMAIN e /\ j[a] = e[a - n] /\ b - n \in DOMAIN e /\ j[b] = e[b - n]
    <3>1. a - n # b - n
      BY <1>1, <2>1
    <3> QED BY <2>5, <3>1, <1>3 DEF Tidy, Untied
  <2> QED BY <1>1, <2>2, <2>3, <2>4, <2>5
<1>7. Precede(j)
  <2> SUFFICES ASSUME NEW a \in DOMAIN j, j[a].op = "retract"
               PROVE  /\ a + 1 \in DOMAIN j /\ j[a + 1].op = "assert"
                      /\ j[a + 1].key = j[a].key /\ j[a + 1].from >= j[a].from
    BY DEF Precede
  <2>1. CASE a \in DOMAIN s /\ j[a] = s[a]
    <3>1. a + 1 \in DOMAIN s /\ s[a + 1].op = "assert" /\ s[a + 1].key = s[a].key /\ s[a + 1].from >= s[a].from
      BY <2>1 DEF Tidy, Precede
    <3> QED BY <1>1, <2>1, <3>1
  <2>2. CASE a - n \in DOMAIN e /\ j[a] = e[a - n]
    <3> DEFINE i == a - n
    <3>1. i + 1 \in DOMAIN e /\ e[i + 1].op = "assert" /\ e[i + 1].key = e[i].key /\ e[i + 1].from >= e[i].from
      BY <2>2, <1>3 DEF Tidy, Precede
    <3>2. n + (i + 1) = a + 1
      BY <1>1, <1>2
    <3> HIDE DEF i
    <3>3. a + 1 \in DOMAIN j /\ j[a + 1] = e[i + 1]
      BY <1>1, <3>1, <3>2
    <3> QED BY <2>2, <3>1, <3>3 DEF i
  <2> QED BY <1>1, <2>1, <2>2
<1>8. Outdated(j, j)
  <2>1. \A d : Newer(s, d) => Newer(j, d)
    BY <1>1 DEF Newer
  <2>2. ASSUME NEW d, Newer(e, d) PROVE Newer(j, d)
    <3>1. PICK i \in DOMAIN e : e[i].op = "assert" /\ e[i].key = d.key /\ e[i].from > d.from
      BY <2>2 DEF Newer
    <3>2. n + i \in DOMAIN j /\ j[n + i] = e[i]
      BY <1>1
    <3> QED BY <3>1, <3>2 DEF Newer
  <2>3. \A i \in DOMAIN s : s[i].op = "retract" => Newer(s, s[i])
    BY DEF Tidy, Outdated
  <2>4. \A i \in DOMAIN e : e[i].op = "retract" => Newer(s, e[i]) \/ Newer(e, e[i])
    BY <1>3 DEF Tidy, Outdated
  <2> QED BY <1>1, <2>1, <2>2, <2>3, <2>4 DEF Outdated
<1> QED BY <1>5, <1>6, <1>7, <1>8 DEF Tidy, j

(* The steps.                                                              *)
LEMMA CallTimesAre ==
    ASSUME ConstantsOK
    PROVE  /\ \A n \in Nat : CallTimes(n) \subseteq CallTimes(n + 1) /\ CallTimes(n) \subseteq Nat
           /\ \A n \in Nat : (n + 1) * Tick \in CallTimes(n + 1) /\ (n + 1) * Tick \notin CallTimes(n)
<1>1. Tick \in Nat \ {0}
  BY DEF ConstantsOK
<1>2. ASSUME NEW n \in Nat
      PROVE  CallTimes(n) \subseteq CallTimes(n + 1) /\ CallTimes(n) \subseteq Nat
             /\ (n + 1) * Tick \in CallTimes(n + 1)
  <2>1. 1 .. n \subseteq 1 .. n + 1 /\ n + 1 \in 1 .. n + 1
    OBVIOUS
  <2>2. \A i \in 1 .. n : i * Tick \in Nat
    BY <1>1
  <2> QED BY <2>1, <2>2 DEF CallTimes
<1>3. ASSUME NEW n \in Nat, (n + 1) * Tick \in CallTimes(n) PROVE FALSE
  <2>1. PICK i \in 1 .. n : (n + 1) * Tick = i * Tick
    BY <1>3 DEF CallTimes
  <2>2. i * Tick < (n + 1) * Tick
    <3>1. i \in Nat /\ n + 1 \in Nat /\ i < n + 1
      OBVIOUS
    <3> QED BY <1>1, <3>1, Multiples
  <2>3. i * Tick \in Nat
    BY <1>1
  <2> QED BY <2>1, <2>2, <2>3
<1> QED BY <1>2, <1>3

LEMMA DateInvInit == ASSUME ConstantsOK, Init PROVE DateInv
<1>1. DOMAIN (<<>>) = {}
  OBVIOUS
<1>2. now = calls * Tick
  <2>1. 0 * Tick = 0
    BY DEF ConstantsOK
  <2> QED BY <2>1 DEF Init
<1>3. Tidy(log, log)
  BY <1>1 DEF Init, Tidy, OnlyCompanions, Untied, Precede, Outdated
<1> QED BY <1>1, <1>2, <1>3 DEF Init, DateInv, CallDates, TimesDiffer

(* Steps of w that leave the log and the clock alone.                      *)
LEMMA DatesStay ==
    ASSUME DateInv, UNCHANGED <<log, now, calls>>, NEW w \in Writers,
           \A u \in Writers \ {w} : pc'[u] = pc[u] /\ new'[u] = new[u] /\ time'[u] = time[u],
           CallDates(w)', pc'[w] = "idle" \/ (pc[w] # "idle" /\ time'[w] = time[w])
    PROVE  DateInv'
<1>1. \A u \in Writers : CallDates(u)'
  <2>1. ASSUME NEW u \in Writers, u # w PROVE CallDates(u)'
    BY <2>1 DEF DateInv, CallDates
  <2> QED BY <2>1
<1>2. ASSUME NEW a \in Writers, NEW b \in Writers PROVE TimesDiffer(a, b)'
  <2>1. TimesDiffer(a, b)
    BY DEF DateInv
  <2> QED BY <2>1 DEF TimesDiffer
<1>3. \A i \in DOMAIN log' : Dated(log'[i], calls')
  BY DEF DateInv
<1>4. now' = calls' * Tick /\ Tidy(log', log')
  BY DEF DateInv
<1> QED BY <1>1, <1>2, <1>3, <1>4 DEF DateInv

LEMMA ReturnDates ==
    ASSUME LogInv, DateInv, NEW w \in Writers, Return(w), UNCHANGED log
    PROVE  DateInv'
<1>1. /\ pc' = [pc EXCEPT ![w] = "idle"] /\ time' = [time EXCEPT ![w] = 0]
      /\ new' = [new EXCEPT ![w] = <<>>] /\ UNCHANGED <<log, now, calls>>
  BY DEF Return, Goto
<1>2. /\ pc'[w] = "idle"
      /\ \A u \in Writers \ {w} : pc'[u] = pc[u] /\ new'[u] = new[u] /\ time'[u] = time[u]
  BY <1>1 DEF LogInv, TypeInv
<1>3. CallDates(w)'
  BY <1>2 DEF CallDates
<1> QED BY <1>1, <1>2, <1>3, DatesStay

LEMMA CallDatesStep ==
    ASSUME ConstantsOK, LogInv, DateInv, NEW w \in Writers, NEW b, NEW forced, Call(w, b, forced)
    PROVE  DateInv'
<1>1. /\ pc' = [pc EXCEPT ![w] = "snap"] /\ time' = [time EXCEPT ![w] = now']
      /\ UNCHANGED <<log, new, old>> /\ now' = now + Tick /\ calls' = calls + 1 /\ pc[w] = "idle"
  BY DEF Call, Goto
<1>2. calls \in Nat /\ Tick \in Nat
  BY DEF LogInv, TypeInv, ConstantsOK
<1>3. now' = calls' * Tick
  <2>1. (calls + 1) * Tick = calls * Tick + Tick
    BY <1>2
  <2> QED BY <1>1, <2>1 DEF DateInv
<1>4. /\ CallTimes(calls) \subseteq CallTimes(calls')
      /\ now' \in CallTimes(calls') /\ now' \notin CallTimes(calls)
  <2>1. /\ CallTimes(calls) \subseteq CallTimes(calls + 1)
        /\ (calls + 1) * Tick \in CallTimes(calls + 1) /\ (calls + 1) * Tick \notin CallTimes(calls)
    BY <1>2, CallTimesAre
  <2> QED BY <1>1, <1>3, <2>1
<1>5. /\ pc'[w] = "snap" /\ time'[w] = now'
      /\ \A u \in Writers \ {w} : pc'[u] = pc[u] /\ new'[u] = new[u] /\ time'[u] = time[u]
  BY <1>1 DEF LogInv, TypeInv
<1>6. ASSUME NEW u \in Writers PROVE CallDates(u)'
  <2>1. CASE u = w
    <3>1. \A i \in DOMAIN log : log[i].time # now'
      BY <1>4 DEF DateInv, Dated
    <3> QED BY <1>1, <1>4, <1>5, <2>1, <3>1 DEF CallDates
  <2>2. CASE u # w
    <3>1. CallDates(u)
      BY DEF DateInv
    <3> QED BY <1>1, <1>4, <1>5, <2>2, <3>1 DEF CallDates
  <2> QED BY <2>1, <2>2
<1>7. \A u \in Writers \ {w} : pc[u] # "idle" => time[u] # now'
  BY <1>4 DEF DateInv, CallDates
<1>8. ASSUME NEW a \in Writers, NEW c \in Writers PROVE TimesDiffer(a, c)'
  <2>1. TimesDiffer(a, c)
    BY DEF DateInv
  <2> QED BY <1>5, <1>7, <2>1 DEF TimesDiffer
<1>9. \A i \in DOMAIN log' : Dated(log'[i], calls')
  BY <1>1, <1>4 DEF DateInv, Dated
<1>10. Tidy(log', log')
  BY <1>1 DEF DateInv
<1> QED BY <1>3, <1>6, <1>8, <1>9, <1>10 DEF DateInv

LEMMA BatchOK ==
    ASSUME ConstantsOK, CallersOnlyAssert, NoTies, NEW b \in Batches
    PROVE  b \in Seq(Facts) /\ Asserts(b) /\ Distinct(b)
BY DEF ConstantsOK, CallersOnlyAssert, NoTies, Asserts, Distinct

(* What a call is about to write does not tie with the log.                *)
LEMMA NoneTiesNow ==
    ASSUME ConstantsOK, NoTies, LogInv, DateInv, NEW w \in Writers, pc[w] \in {"snap", "append"}
    PROVE  NoneTies(log, arg[w], time[w])
<1>1. arg[w] \in Batches /\ calls \in 0 .. MaxCalls
  BY DEF LogInv, CallInv, TypeInv
<1>2. time[w] \in CallTimes(calls) /\ \A i \in DOMAIN log : log[i].time # time[w]
  BY DEF DateInv, CallDates
<1>3. \A i \in DOMAIN log : Dated(log[i], calls)
  BY DEF DateInv
<1> QED BY <1>1, <1>2, <1>3, CallTiesNot

LEMMA SnapDates ==
    ASSUME ConstantsOK, CallersOnlyAssert, NoTies, LogInv, DateInv, NEW w \in Writers, Snap(w)
    PROVE  DateInv'
<1> DEFINE r == Shaped(w)
<1>1. /\ pc[w] = "snap" /\ pc' = [pc EXCEPT ![w] = "append"]
      /\ new' = [new EXCEPT ![w] = r.new] /\ UNCHANGED <<now, log, calls, time>>
  BY DEF Snap, Goto
<1>2. arg[w] \in Batches /\ time[w] \in Nat
      /\ log \in Seq(Datoms) /\ \A i \in DOMAIN log : log[i].tx # Placeholder
  BY <1>1 DEF LogInv, CallInv, TypeInv
<1>3. NoneTies(log, arg[w], time[w])
  BY <1>1, NoneTiesNow
<1>4. arg[w] \in Seq(Facts) /\ Asserts(arg[w]) /\ Distinct(arg[w])
  BY <1>2, BatchOK
<1>5. Tidy(log, r.new)
  <2>1. Tidy(log, Transact(log, arg[w], time[w], force[w]).new)
    BY <1>2, <1>3, <1>4, TransactTidy
  <2>2. Tidy(log, TransactBatch(log, arg[w], time[w], force[w]).new)
    BY <1>2, <1>3, <1>4, TransactBatchTidy
  <2> QED BY <2>1, <2>2 DEF Shaped
<1> HIDE DEF r
<1>6. /\ pc'[w] = "append" /\ new'[w] = r.new /\ time'[w] = time[w]
      /\ \A u \in Writers \ {w} : pc'[u] = pc[u] /\ new'[u] = new[u] /\ time'[u] = time[u]
  BY <1>1 DEF LogInv, TypeInv
<1>7. CallDates(w)'
  <2>1. CallDates(w)
    BY DEF DateInv
  <2> QED BY <1>1, <1>5, <1>6, <2>1 DEF CallDates
<1> QED BY <1>1, <1>6, <1>7, DatesStay

LEMMA AppendDates ==
    ASSUME ConstantsOK, CallersOnlyAssert, NoTies, LogInv, DateInv, NEW w \in Writers,
           AllocateAndAppend(w)
    PROVE  DateInv'
<1> DEFINE e == new'[w]
<1>1. TypeInv
  BY DEF LogInv
<1>2. /\ e \in Seq(Datoms) /\ DOMAIN e = DOMAIN new[w]
      /\ \A i \in DOMAIN e : SameButTx(new[w][i], e[i])
      /\ log' = log \o e /\ new' = [new EXCEPT ![w] = e]
  BY <1>1, AppendIs
<1>3. /\ pc[w] = "append" /\ pc' = [pc EXCEPT ![w] = "mark"]
      /\ UNCHANGED <<now, calls, time>>
  BY DEF AllocateAndAppend, Goto
<1> HIDE DEF e
<1>4. log \in Seq(Datoms) /\ arg[w] \in Batches /\ FreshOnes(new[w], arg[w], Len(arg[w]), time[w])
  BY <1>1, <1>3 DEF TypeInv, LogInv, CallInv
<1>5. time[w] \in CallTimes(calls) /\ Tidy(log, new[w]) /\ Tidy(log, log) /\ calls \in 0 .. MaxCalls
      /\ time[w] \in Nat
  BY <1>1, <1>3 DEF DateInv, CallDates, TypeInv
<1>6. NoneTies(log, arg[w], time[w])
  BY <1>3, NoneTiesNow
<1>7. arg[w] \in Seq(Facts) /\ Asserts(arg[w])
  BY <1>4, BatchOK
<1>8. ASSUME NEW i \in DOMAIN new[w], new[w][i].op = "assert"
      PROVE  ~TiesWith(log, new[w][i]) /\ FactIn(new[w][i], arg[w])
  <2>1. PICK m \in 1 .. Len(arg[w]) : new[w][i] = Datom(arg[w][m], time[w])
    BY <1>4, <1>8 DEF FreshOnes
  <2>2. arg[w][m] \in Facts
    BY <1>7, ElementOfSeq
  <2>3. /\ Datom(arg[w][m], time[w]).key = arg[w][m].key
        /\ Datom(arg[w][m], time[w]).from = time[w] - arg[w][m].lag
        /\ Datom(arg[w][m], time[w]).time = time[w]
    BY <1>5, <2>2, DatomIs
  <2>4. FactIn(new[w][i], arg[w])
    BY <2>1, <2>3 DEF FactIn
  <2> QED BY <1>6, <2>1, <2>4 DEF NoneTies
<1>9. Tidy(log', log')
  BY <1>2, <1>4, <1>5, <1>8, TidyJoined
<1>10. Grows(log, log')
  BY <1>2, <1>4, JoinedGrows
<1>11. \A i \in DOMAIN log' : (i \in DOMAIN log /\ log'[i] = log[i]) \/ In(log'[i], e)
  BY <1>2, <1>4, Joined DEF In
<1>12. \A d : In(d, e) => d.time = time[w] /\ (d.op = "assert" => FactIn(d, arg[w]))
  <2> SUFFICES ASSUME NEW i \in DOMAIN e
               PROVE  e[i].time = time[w] /\ (e[i].op = "assert" => FactIn(e[i], arg[w]))
    BY DEF In
  <2>1. SameButTx(new[w][i], e[i]) /\ i \in DOMAIN new[w]
    BY <1>2
  <2>2. new[w][i].time = time[w]
    BY <1>4, <2>1 DEF FreshOnes
  <2>3. e[i].op = "assert" => FactIn(new[w][i], arg[w])
    BY <1>8, <2>1 DEF SameButTx
  <2> QED BY <2>1, <2>2, <2>3 DEF SameButTx, FactIn
<1>13. /\ pc'[w] = "mark" /\ time'[w] = time[w]
       /\ \A u \in Writers \ {w} : pc'[u] = pc[u] /\ new'[u] = new[u] /\ time'[u] = time[u]
  BY <1>1, <1>2, <1>3 DEF TypeInv
<1>14. ASSUME NEW u \in Writers PROVE CallDates(u)'
  <2>1. CASE u = w
    BY <1>3, <1>5, <1>13, <2>1 DEF CallDates
  <2>2. CASE u # w
    <3>1. CallDates(u) /\ TimesDiffer(w, u)
      BY DEF DateInv
    <3>2. Tidy(log, new[u]) => Tidy(log', new[u])
      BY <1>10, TidyGrows
    <3>3. ASSUME pc[u] \in {"snap", "append"}, NEW i \in DOMAIN log' PROVE log'[i].time # time[u]
      <4>1. time[w] # time[u]
        BY <1>3, <2>2, <3>1, <3>3 DEF TimesDiffer
      <4>2. \A l \in DOMAIN log : log[l].time # time[u]
        BY <3>1, <3>3 DEF CallDates
      <4> QED BY <1>11, <1>12, <4>1, <4>2
    <3> QED BY <1>3, <1>13, <2>2, <3>1, <3>2, <3>3 DEF CallDates
  <2> QED BY <2>1, <2>2
<1>15. ASSUME NEW a \in Writers, NEW c \in Writers PROVE TimesDiffer(a, c)'
  <2>1. TimesDiffer(a, c)
    BY DEF DateInv
  <2> QED BY <1>3, <1>13, <2>1 DEF TimesDiffer
<1>16. ASSUME NEW i \in DOMAIN log' PROVE Dated(log'[i], calls')
  <2>1. CASE i \in DOMAIN log /\ log'[i] = log[i]
    BY <1>3, <2>1 DEF DateInv
  <2>2. CASE In(log'[i], e)
    BY <1>3, <1>4, <1>5, <1>12, <2>2 DEF Dated
  <2> QED BY <1>11, <2>1, <2>2
<1>17. now' = calls' * Tick
  BY <1>3 DEF DateInv
<1> QED BY <1>9, <1>14, <1>15, <1>16, <1>17 DEF DateInv

LEMMA MarkDates ==
    ASSUME LogInv, DateInv, NEW w \in Writers, MarkInvalidated(w)
    PROVE  DateInv'
<1>1. UNCHANGED <<now, pc, calls, time, new>> /\ log' = Stamped(Head(old[w]), new[w][1].tx)
  BY DEF MarkInvalidated
<1>2. log' = [i \in DOMAIN log |-> log'[i]]
  BY <1>1, Zenon DEF Stamped
<1>3. ASSUME NEW i \in DOMAIN log PROVE SameButInv(log[i], log'[i])
  <2> DEFINE d == log[i]
             by == new[w][1].tx
  <2>1. log'[i] = d \/ log'[i] = [d EXCEPT !.inv = by]
    BY <1>1, Zenon DEF Stamped
  <2>2. d \in Datoms
    BY Elements DEF LogInv, TypeInv
  <2> HIDE DEF d, by
  <2>3. SameButInv(d, [d EXCEPT !.inv = by])
    <3>1. [d EXCEPT !.inv = by] = [d EXCEPT !["inv"] = by]
      BY Zenon
    <3>2. SameButInv(d, [d EXCEPT !["inv"] = by])
      BY <2>2 DEF Datoms, SameButInv
    <3> QED BY <3>1, <3>2, Zenon
  <2>4. SameButInv(d, d)
    BY DEF SameButInv
  <2> QED BY <2>1, <2>3, <2>4, Zenon DEF d
<1>4. DOMAIN log' = DOMAIN log
  BY <1>2, Zenon
<1>5. Grows(log, log')
  BY <1>3, <1>4 DEF Grows
<1>6. Tidy(log', log')
  BY <1>4, <1>5, TidySame DEF DateInv
<1>7. ASSUME NEW u \in Writers PROVE CallDates(u)'
  <2>1. CallDates(u)
    BY DEF DateInv
  <2>2. Tidy(log, new[u]) => Tidy(log', new[u])
    BY <1>5, TidyGrows
  <2>3. \A i \in DOMAIN log' : log'[i].time = log[i].time
    BY <1>3, <1>4 DEF SameButInv
  <2> QED BY <1>1, <1>4, <2>1, <2>2, <2>3 DEF CallDates
<1>8. ASSUME NEW a \in Writers, NEW c \in Writers PROVE TimesDiffer(a, c)'
  BY <1>1 DEF DateInv, TimesDiffer
<1>9. ASSUME NEW i \in DOMAIN log' PROVE Dated(log'[i], calls')
  <2>1. Dated(log[i], calls) /\ SameButInv(log[i], log'[i])
    BY <1>3, <1>4 DEF DateInv
  <2> QED BY <1>1, <2>1 DEF Dated, FactIn, SameButInv
<1>10. now' = calls' * Tick
  BY <1>1 DEF DateInv
<1> QED BY <1>6, <1>7, <1>8, <1>9, <1>10 DEF DateInv

LEMMA DateInvStep ==
    ASSUME ConstantsOK, CallersOnlyAssert, NoTies, LogInv, DateInv, [Next]_vars
    PROVE  DateInv'
<1>1. CASE UNCHANGED vars
  <2>1. UNCHANGED <<now, log, pc, calls, time, new>>
    BY <1>1 DEF vars, locals
  <2>2. \A w \in Writers : CallDates(w)'
    BY <2>1 DEF DateInv, CallDates
  <2>3. \A w, u \in Writers : TimesDiffer(w, u)'
    BY <2>1 DEF DateInv, TimesDiffer
  <2>4. now' = calls' * Tick /\ Tidy(log', log') /\ \A i \in DOMAIN log' : Dated(log'[i], calls')
    BY <2>1 DEF DateInv
  <2> QED BY <2>2, <2>3, <2>4 DEF DateInv
<1>2. CASE Terminating
  BY <1>1, <1>2 DEF Terminating
<1>3. ASSUME NEW w \in Writers, Step(w) PROVE DateInv'
  <2>1. CASE \E b \in Batches, f \in BOOLEAN : Call(w, b, f)
    BY <2>1, CallDatesStep
  <2>2. CASE Snap(w)
    BY <2>2, SnapDates
  <2>3. CASE AllocateAndAppend(w)
    BY <2>3, AppendDates
  <2>4. CASE MarkInvalidated(w)
    BY <2>4, MarkDates
  <2>5. CASE Refuse(w) \/ Done(w) \/ Die(w)
    BY <2>5, ReturnDates DEF Refuse, Done, Die
  <2> QED BY <1>3, <2>1, <2>2, <2>3, <2>4, <2>5 DEF Step
<1> QED BY <1>1, <1>2, <1>3 DEF Next

LEMMA DateInvAlways ==
    ASSUME CallersOnlyAssert, NoTies PROVE Spec => []DateInv
<1>1. Init => DateInv
  BY ConstantsOK, DateInvInit
<1>2. LogInv /\ DateInv /\ [Next]_vars => DateInv'
  BY ConstantsOK, DateInvStep
<1> QED BY <1>1, <1>2, LogInvAlways, PTL DEF Spec

-----------------------------------------------------------------------------
(* What is read.  The newest assert of a key is the one dated last: no     *)
(* companion can close it.                                                 *)
Of(s, k) == {i \in DOMAIN s : s[i].key = k /\ s[i].op = "assert"}

Newest(s, k, m) == m \in Of(s, k) /\ \A i \in Of(s, k) \ {m} : s[i].from < s[m].from

LEMMA NewestExists ==
    ASSUME NEW s \in Seq(Datoms), Untied(s), NEW k, Of(s, k) # {}
    PROVE  \E m : Newest(s, k, m)
<1> DEFINE g == [i \in DOMAIN s |-> s[i].from]
<1>1. DOMAIN s = 1 .. Len(s) /\ Len(s) \in Nat /\ \A i \in DOMAIN s : s[i] \in Datoms
  BY Long, Elements
<1>2. \A i \in DOMAIN s : g[i] = s[i].from /\ s[i].from \in Int
  BY <1>1 DEF Datoms
<1> HIDE DEF g
<1>3. Of(s, k) \in SUBSET (1 .. Len(s)) /\ \A i \in Of(s, k) : i \in DOMAIN s /\ g[i] \in Int
  BY <1>1, <1>2 DEF Of
<1>4. PICK m \in Of(s, k) : \A i \in Of(s, k) : g[i] <= g[m]
  BY <1>1, <1>3, Greatest
<1>5. \A i \in Of(s, k) \ {m} : s[i].from # s[m].from
  BY DEF Untied, Of
<1>6. \A i \in Of(s, k) \ {m} : s[i].from < s[m].from
  BY <1>2, <1>3, <1>4, <1>5
<1> QED BY <1>6 DEF Newest

LEMMA FromInt == ASSUME NEW s \in Seq(Datoms) PROVE \A i \in DOMAIN s : s[i].from \in Int
<1>1. \A i \in DOMAIN s : s[i] \in Datoms
  BY Elements
<1> QED BY <1>1 DEF Datoms

LEMMA WinnerIsNewest ==
    ASSUME NEW s \in Seq(Datoms), NEW k, NEW m, Newest(s, k, m),
           NEW I, I \subseteq Of(s, k), m \in I
    PROVE  Winner(s, I) = m
<1> DEFINE Wins(i) == \A j \in I \ {i} : \/ Later(s[i], s[j])
                                         \/ ~Later(s[j], s[i]) /\ i < j
<1>1. \A i \in I : s[i].from \in Int
  BY FromInt DEF Of
<1>2. Wins(m)
  BY <1>1 DEF Newest, Later
<1>3. \A i \in I : Wins(i) => i = m
  <2> SUFFICES ASSUME NEW i \in I, Wins(i), i # m PROVE FALSE
    OBVIOUS
  <2>1. s[i].from < s[m].from
    BY DEF Newest
  <2>2. Later(s[m], s[i]) /\ ~Later(s[i], s[m])
    BY <1>1, <2>1 DEF Later
  <2> QED BY <2>2
<1>4. Winner(s, I) = CHOOSE i \in I : Wins(i)
  BY DEF Winner
<1> HIDE DEF Wins
<1> QED BY <1>2, <1>3, <1>4

LEMMA EntityIsNewest ==
    ASSUME NEW s \in Seq(Datoms), Tidy(s, s), NEW k
    PROVE  /\ Of(s, k) = {} => Entity(s, k) = <<>>
           /\ \A m : Newest(s, k, m) => Entity(s, k) = <<s[m]>>
<1>1. Visible(s, k) \subseteq Of(s, k)
  BY DEF Visible, Of
<1>2. Of(s, k) = {} => Entity(s, k) = <<>>
  BY <1>1 DEF Entity
<1>3. ASSUME NEW m, Newest(s, k, m) PROVE Entity(s, k) = <<s[m]>>
  <2>1. m \in Visible(s, k)
    <3>1. m \in DOMAIN s /\ s[m].key = k /\ s[m].op = "assert"
      BY <1>3 DEF Newest, Of
    <3>2. ASSUME NEW j \in DOMAIN s, Closes(s[j], s[m]) PROVE FALSE
      <4>1. PICK i \in DOMAIN s : s[i].op = "assert" /\ s[i].key = k /\ s[i].from > s[m].from
        BY <3>1, <3>2 DEF Closes, Tidy, Outdated, Newer
      <4>2. i \in Of(s, k) /\ s[i].from \in Int /\ s[m].from \in Int
        BY <3>1, <4>1, FromInt DEF Of
      <4> QED BY <1>3, <4>1, <4>2 DEF Newest
    <3> QED BY <3>1, <3>2 DEF Visible
  <2>2. Winner(s, Visible(s, k)) = m
    BY <1>1, <1>3, <2>1, WinnerIsNewest
  <2> QED BY <2>1, <2>2 DEF Entity
<1> QED BY <1>2, <1>3

(* No companion makes a key vanish, and entity() shows the assert with the *)
(* greatest (valid_from, tx) of a key on which no correction was forced,   *)
(* whatever raced, was refused or died, when callers only assert and no    *)
(* two facts of a key are dated alike.                                     *)
THEOREM NewestIsNeverHidden ==
    ASSUME CallersOnlyAssert, NoTies PROVE Spec => []NewestStaysVisible
<1>1. LogInv /\ DateInv => NewestStaysVisible
  <2> SUFFICES ASSUME LogInv, DateInv, NEW k \in Keys, Standing(k) # {}
               PROVE  Entity(log, k) = <<log[Winner(log, Standing(k))]>>
    BY DEF NewestStaysVisible
  <2>1. log \in Seq(Datoms) /\ Tidy(log, log)
    BY DEF LogInv, TypeInv, DateInv
  <2>2. Standing(k) = Of(log, k)
    BY <2>1 DEF Standing, Of, Closes, Tidy, OnlyCompanions
  <2>3. PICK m : Newest(log, k, m)
    BY <2>1, <2>2, NewestExists DEF Tidy
  <2>4. Winner(log, Standing(k)) = m
    BY <2>1, <2>2, <2>3, WinnerIsNewest DEF Newest
  <2> QED BY <2>1, <2>3, <2>4, EntityIsNewest
<1> QED BY <1>1, LogInvAlways, DateInvAlways, PTL

-----------------------------------------------------------------------------
(* The projection, datom by datom: it holds the newest assert so far, or   *)
(* a companion has just cleared it and the assert that replaces it is next. *)
Blank == [v |-> NoValue, won |-> <<>>]

Holding(d) == [v |-> d.v, won |-> <<d>>]

NewestTo(s, k, n, m) ==
    m \in Of(s, k) /\ m <= n /\ \A i \in Of(s, k) \ {m} : i <= n => s[i].from < s[m].from

ShownAt(s, k, n, st) ==
    \/ st = Blank /\ \A i \in Of(s, k) : i > n
    \/ \E m : NewestTo(s, k, n, m) /\ st = Holding(s[m])
    \/ /\ st = Blank /\ n \in DOMAIN s /\ s[n].key = k /\ s[n].op = "retract"
       /\ \A i \in Of(s, k) : i <= n => s[i].from <= s[n].from

LEMMA ApplyToBlank ==
    ASSUME NEW d, d.op \in {"assert", "retract"}
    PROVE  Apply(Blank, d) = IF d.op = "assert" THEN Holding(d) ELSE Blank
<1>1. Blank.won = <<>>
  BY DEF Blank
<1> HIDE DEF Blank
<1> QED BY <1>1 DEF Apply, Holding

LEMMA ApplyToHeld ==
    ASSUME NEW x, NEW d, d.op \in {"assert", "retract"}
    PROVE  /\ d.op = "assert" => Apply(Holding(x), d) = IF Later(d, x) THEN Holding(d) ELSE Holding(x)
           /\ d.op = "retract" =>
                 \/ Apply(Holding(x), d) = Holding(x)
                 \/ Apply(Holding(x), d) = Blank /\ d.from = x.from
<1> DEFINE p == Holding(x)
<1>1. p.won # <<>> /\ p.won[1] = x /\ p.v = x.v
  BY DEF Holding
<1>2. Holding(d) = [v |-> d.v, won |-> <<d>>] /\ Blank = [v |-> NoValue, won |-> <<>>]
  BY DEF Holding, Blank
<1> HIDE DEF p
<1>3. /\ d.op = "assert" => Apply(p, d) = IF Later(d, x) THEN Holding(d) ELSE p
      /\ d.op = "retract" => Apply(p, d) = p \/ (Apply(p, d) = Blank /\ d.from = x.from)
  BY <1>1, <1>2 DEF Apply
<1> QED BY <1>3 DEF p

LEMMA ShownStep ==
    ASSUME NEW s \in Seq(Datoms), Tidy(s, s), NEW k, NEW n \in DOMAIN s,
           NEW st, ShownAt(s, k, n - 1, st),
           NEW r, r = IF s[n].key = k THEN Apply(st, s[n]) ELSE st
    PROVE  ShownAt(s, k, n, r)
<1> DEFINE d == s[n]
<1>1. /\ DOMAIN s = 1 .. Len(s) /\ Len(s) \in Nat /\ d \in Datoms
      /\ \A i \in DOMAIN s : s[i].from \in Int
  BY Long, Elements, FromInt
<1>2. d.op \in {"assert", "retract"}
  BY <1>1 DEF Datoms
<1>3. \A i \in Of(s, k) : i \in DOMAIN s /\ i \in Int /\ s[i].from \in Int /\ s[i].op = "assert" /\ s[i].key = k
  BY <1>1 DEF Of
<1>4. d.key = k /\ d.op = "assert" => n \in Of(s, k)
  BY DEF Of
<1>5. \A i, j \in Of(s, k) : i # j => s[i].from # s[j].from
  BY DEF Of, Tidy, Untied
<1>6. n \in Int /\ d.from \in Int /\ \A i \in Int : i <= n <=> i <= n - 1 \/ i = n
  BY <1>1
<1>7. CASE d.key # k
  <2>1. r = st /\ n \notin Of(s, k)
    BY <1>3, <1>7
  <2>2. \A i \in Of(s, k) : i <= n <=> i <= n - 1
    BY <1>3, <1>6, <2>1
  <2>3. CASE st = Blank /\ \A i \in Of(s, k) : i > n - 1
    BY <1>3, <1>6, <2>1, <2>2, <2>3 DEF ShownAt
  <2>4. CASE \E m : NewestTo(s, k, n - 1, m) /\ st = Holding(s[m])
    <3>1. PICK m : NewestTo(s, k, n - 1, m) /\ st = Holding(s[m])
      BY <2>4
    <3>2. NewestTo(s, k, n, m)
      BY <2>2, <3>1 DEF NewestTo
    <3> QED BY <2>1, <3>1, <3>2 DEF ShownAt
  <2>5. CASE n - 1 \in DOMAIN s /\ s[n - 1].key = k /\ s[n - 1].op = "retract"
    <3>1. s[(n - 1) + 1].key = k
      BY <2>5 DEF Tidy, Precede
    <3>2. (n - 1) + 1 = n
      BY <1>6
    <3> QED BY <3>1, <3>2, <1>7
  <2> QED BY <2>3, <2>4, <2>5 DEF ShownAt
<1>8. CASE d.key = k /\ d.op = "assert"
  <2>1. n \in Of(s, k)
    BY <1>4, <1>8
  <2>2. ASSUME \A i \in Of(s, k) \ {n} : i <= n - 1 => s[i].from < d.from, r = Holding(d)
        PROVE  ShownAt(s, k, n, r)
    <3>1. NewestTo(s, k, n, n)
      BY <1>3, <1>6, <2>1, <2>2 DEF NewestTo
    <3> QED BY <2>2, <3>1 DEF ShownAt
  <2> HIDE DEF d
  <2>3. CASE st = Blank
    <3>1. r = Holding(d)
      BY <1>8, <2>3, ApplyToBlank DEF d
    <3>2. CASE \A i \in Of(s, k) : i > n - 1
      BY <1>3, <1>6, <2>2, <3>1, <3>2
    <3>3. CASE /\ n - 1 \in DOMAIN s /\ s[n - 1].op = "retract"
               /\ \A i \in Of(s, k) : i <= n - 1 => s[i].from <= s[n - 1].from
      <4>1. s[(n - 1) + 1].from >= s[n - 1].from /\ (n - 1) + 1 = n
        BY <1>6, <3>3 DEF Tidy, Precede
      <4>2. d.from >= s[n - 1].from /\ s[n - 1].from \in Int
        BY <1>1, <3>3, <4>1 DEF d
      <4>3. \A i \in Of(s, k) \ {n} : i <= n - 1 => s[i].from < d.from
        BY <1>3, <1>5, <1>6, <2>1, <3>3, <4>2 DEF d
      <4> QED BY <2>2, <3>1, <4>3
    <3>4. \A m : Holding(s[m]) # Blank
      <4>1. \A m : Holding(s[m]).won = <<s[m]>> /\ <<s[m]>> # <<>>
        BY DEF Holding
      <4>2. Blank.won = <<>>
        BY DEF Blank
      <4> QED BY <4>1, <4>2
    <3> QED BY <2>3, <3>2, <3>3, <3>4 DEF ShownAt
  <2>4. CASE \E m : NewestTo(s, k, n - 1, m) /\ st = Holding(s[m])
    <3>1. PICK m : NewestTo(s, k, n - 1, m) /\ st = Holding(s[m])
      BY <2>4
    <3> DEFINE x == s[m]
    <3>2. r = IF Later(d, x) THEN Holding(d) ELSE Holding(x)
      <4>1. st = Holding(x)
        BY <3>1
      <4> HIDE DEF x
      <4>2. r = Apply(Holding(x), d)
        BY <1>8, <4>1 DEF d
      <4> QED BY <1>8, <4>2, ApplyToHeld
    <3>3. m \in Of(s, k) /\ m <= n - 1 /\ x.from \in Int /\ m # n
      BY <1>3, <1>6, <3>1 DEF NewestTo
    <3>4. d.from # x.from
      BY <1>5, <2>1, <3>3 DEF d
    <3>5. CASE d.from > x.from
      <4>1. r = Holding(d)
        BY <3>2, <3>5 DEF Later
      <4>2. \A i \in Of(s, k) \ {n} : i <= n - 1 => s[i].from < d.from
        BY <1>3, <1>6, <3>1, <3>3, <3>5 DEF NewestTo
      <4> QED BY <2>2, <4>1, <4>2
    <3>6. CASE d.from < x.from
      <4>1. r = Holding(x)
        BY <1>6, <3>2, <3>3, <3>6 DEF Later
      <4>2. NewestTo(s, k, n, m)
        BY <1>3, <1>6, <3>1, <3>3, <3>6 DEF NewestTo, d
      <4> QED BY <4>1, <4>2 DEF ShownAt
    <3> QED BY <1>6, <3>3, <3>4, <3>5, <3>6
  <2> QED BY <2>3, <2>4 DEF ShownAt
<1>9. CASE d.key = k /\ d.op = "retract"
  <2>1. n \notin Of(s, k)
    BY <1>9 DEF Of
  <2>2. \A i \in Of(s, k) : i <= n <=> i <= n - 1
    BY <1>3, <1>6, <2>1
  <2>3. CASE st = Blank /\ \A i \in Of(s, k) : i > n - 1
    <3>1. r = Blank
      BY <1>2, <1>9, <2>3, ApplyToBlank
    <3> QED BY <1>3, <1>6, <2>2, <2>3, <3>1 DEF ShownAt
  <2>4. CASE \E m : NewestTo(s, k, n - 1, m) /\ st = Holding(s[m])
    <3>1. PICK m : NewestTo(s, k, n - 1, m) /\ st = Holding(s[m])
      BY <2>4
    <3> DEFINE x == s[m]
    <3>2. NewestTo(s, k, n, m)
      BY <2>2, <3>1 DEF NewestTo
    <3>3. r = Holding(x) \/ (r = Blank /\ d.from = x.from)
      <4>1. st = Holding(x)
        BY <3>1
      <4> HIDE DEF x, d
      <4>2. r = Apply(Holding(x), d)
        BY <1>9, <4>1 DEF d
      <4> QED BY <1>9, <4>2, ApplyToHeld
    <3>4. CASE r = Holding(x)
      BY <3>2, <3>4 DEF ShownAt
    <3>5. CASE r = Blank /\ d.from = x.from
      <4>1. \A i \in Of(s, k) : i <= n => s[i].from <= d.from
        BY <1>3, <3>2, <3>5 DEF NewestTo
      <4> QED BY <1>9, <3>5, <4>1 DEF ShownAt
    <3> QED BY <3>3, <3>4, <3>5
  <2>5. CASE n - 1 \in DOMAIN s /\ s[n - 1].op = "retract"
    <3>1. s[(n - 1) + 1].op = "assert"
      BY <2>5 DEF Tidy, Precede
    <3>2. (n - 1) + 1 = n
      BY <1>6
    <3> QED BY <3>1, <3>2, <1>9
  <2> QED BY <2>3, <2>4, <2>5 DEF ShownAt
<1> QED BY <1>2, <1>7, <1>8, <1>9

LEMMA ShownLoop ==
    ASSUME NEW s \in Seq(Datoms), Tidy(s, s), NEW k, NEW f, f[0] = Blank,
           \A i \in 1 .. Len(s) : f[i] = IF s[i].key = k THEN Apply(f[i - 1], s[i]) ELSE f[i - 1]
    PROVE  ShownAt(s, k, Len(s), f[Len(s)])
<1> DEFINE P == {i \in 0 .. Len(s) : ShownAt(s, k, i, f[i])}
<1>1. Len(s) \in Nat /\ DOMAIN s = 1 .. Len(s)
  BY Long
<1>2. 0 \in P
  BY <1>1 DEF ShownAt, Of
<1>3. ASSUME NEW i \in 1 .. Len(s), i - 1 \in P PROVE i \in P
  <2>1. i \in 0 .. Len(s) /\ i \in DOMAIN s /\ ShownAt(s, k, i - 1, f[i - 1])
    BY <1>1, <1>3
  <2> DEFINE st == f[i - 1]
             r == f[i]
  <2>2. r = IF s[i].key = k THEN Apply(st, s[i]) ELSE st
    OBVIOUS
  <2>3. ShownAt(s, k, i - 1, st)
    BY <2>1
  <2> HIDE DEF st, r
  <2>4. ShownAt(s, k, i, r)
    BY <2>1, <2>2, <2>3, ShownStep
  <2> QED BY <2>1, <2>4 DEF r
<1> HIDE DEF P
<1>4. \A i \in 0 .. Len(s) : i \in P
  BY <1>1, <1>2, <1>3, Upwards
<1> QED BY <1>1, <1>4 DEF P

LEMMA RebuiltShown ==
    ASSUME NEW s \in Seq(Datoms), NEW k
    PROVE  Tidy(s, s) => ShownAt(s, k, Len(s), Rebuilt(s, k))
<1>1. PICK f : /\ Rebuilt(s, k) = f[Len(s)] /\ f[0] = [v |-> NoValue, won |-> <<>>]
               /\ \A i \in 1 .. Len(s) :
                     f[i] = IF s[i].key = k THEN Apply(f[i - 1], s[i]) ELSE f[i - 1]
  <2>1. Len(s) \in Nat
    BY Long
  <2> QED BY <2>1, RebuiltIs
<1>2. f[0] = Blank
  BY <1>1 DEF Blank
<1>3. Tidy(s, s) => ShownAt(s, k, Len(s), f[Len(s)])
  BY <1>1, <1>2, ShownLoop
<1> QED BY <1>1, <1>3

LEMMA RebuiltIsNewest ==
    ASSUME NEW s \in Seq(Datoms), Tidy(s, s), NEW k
    PROVE  /\ Of(s, k) = {} => Rebuilt(s, k) = Blank
           /\ \A m : Newest(s, k, m) => Rebuilt(s, k) = Holding(s[m])
<1>1. Len(s) \in Nat /\ DOMAIN s = 1 .. Len(s)
  BY Long
<1> DEFINE st == Rebuilt(s, k)
           n == Len(s)
<1>2. ShownAt(s, k, n, st)
  BY RebuiltShown
<1>3. ASSUME n \in DOMAIN s, s[n].op = "retract" PROVE FALSE
  <2>1. n + 1 \in DOMAIN s
    BY <1>3 DEF Tidy, Precede
  <2>2. n + 1 \in 1 .. n /\ n \in Nat
    BY <1>1, <2>1
  <2> HIDE DEF n
  <2> QED BY <2>2
<1>4. \A i \in Of(s, k) : i <= n /\ ~(i > n)
  BY <1>1 DEF Of
<1> HIDE DEF st, n
<1>5. Of(s, k) = {} => st = Blank
  BY <1>2, <1>3 DEF ShownAt, NewestTo
<1>6. ASSUME NEW m, Newest(s, k, m) PROVE st = Holding(s[m])
  <2>1. m \in Of(s, k)
    BY <1>6 DEF Newest
  <2>2. PICK l : NewestTo(s, k, n, l) /\ st = Holding(s[l])
    BY <1>2, <1>3, <1>4, <2>1 DEF ShownAt
  <2>3. l = m
    <3>1. l \in Of(s, k) /\ s[l].from \in Int /\ s[m].from \in Int
      BY <2>1, <2>2, FromInt DEF NewestTo, Of
    <3>2. l # m => s[m].from < s[l].from /\ s[l].from < s[m].from
      BY <1>4, <1>6, <2>1, <2>2, <3>1 DEF NewestTo, Newest
    <3> QED BY <3>1, <3>2
  <2> QED BY <2>2, <2>3
<1> QED BY <1>5, <1>6 DEF st

(* DictProjection.get shows what entity() shows.                           *)
LEMMA ProjectionIs ==
    ASSUME NEW s \in Seq(Datoms), Tidy(s, s), NEW k
    PROVE  LET shown == Entity(s, k) IN
           Rebuilt(s, k) = [v |-> IF shown = <<>> THEN NoValue ELSE shown[1].v, won |-> shown]
<1>1. CASE Of(s, k) = {}
  <2>1. Entity(s, k) = <<>>
    BY <1>1, EntityIsNewest
  <2>2. Rebuilt(s, k) = Blank
    BY <1>1, RebuiltIsNewest
  <2> QED BY <2>1, <2>2 DEF Blank
<1>2. CASE Of(s, k) # {}
  <2>1. PICK m : Newest(s, k, m)
    BY <1>2, NewestExists DEF Tidy
  <2> DEFINE x == s[m]
  <2>2. Entity(s, k) = <<x>>
    BY <2>1, EntityIsNewest
  <2>3. Rebuilt(s, k) = Holding(x)
    BY <2>1, RebuiltIsNewest
  <2> HIDE DEF x
  <2>4. <<x>> # <<>> /\ <<x>>[1] = x
    OBVIOUS
  <2> QED BY <2>2, <2>3, <2>4 DEF Holding
<1> QED BY <1>1, <1>2

-----------------------------------------------------------------------------
(* transact and transact_batch side by side.  The index of the batch holds *)
(* what a look at the datoms made so far would find, unless an assert with *)
(* a closed interval has come after an open one of its key.                *)
ClosedAfterOpen(x, n, k) ==
    \E i, j \in 1 .. n : i < j /\ x[i].key = k /\ x[j].key = k /\ x[i].open /\ ~x[j].open

IndexHolds(st, x, n) ==
    \A k \in Keys : st.own[k] = Prior(st.new, k) \/ ClosedAfterOpen(x, n, k)

Orderly(x) ==
    \A i, j, l \in 1 .. Len(x) :
        i < j /\ j < l /\ x[i].key = x[j].key /\ x[j].key = x[l].key /\ x[i].open => x[j].open

Alike(p, q) == p.refused = q.refused /\ (~p.refused => p.new = q.new /\ p.old = q.old)

(* In u a look finds d when it is open, or what it found before.           *)
Supersedes(u, d, k, before) == Prior(u, k) = IF Candidate(d, k) THEN <<d>> ELSE Prior(before, k)

LEMMA PriorAfter ==
    ASSUME NEW st, Work(st), NEW r, NEW y \in Facts, y.op = "assert",
           NEW prior, NEW t \in Nat, Adds(st, r, y, prior, t)
    PROVE  \A k : Supersedes(r.new, Datom(y, t), k, st.new)
<1> TAKE k
<1> DEFINE d == Datom(y, t)
           u == st.new
<1>1. d \in Datoms /\ t - y.lag \in Int
  <2>1. d \in Datoms
    BY DatomIs
  <2>2. y.lag \in Nat
    BY DEF Facts
  <2> QED BY <2>1, <2>2
<1>2. u \in Seq(Datoms)
  BY DEF Work
<1>3. CASE r.new = u \o <<d>>
  <2> HIDE DEF d, u
  <2>1. Supersedes(r.new, d, k, u)
    BY <1>1, <1>2, <1>3, PriorAdded DEF Supersedes
  <2> QED BY <2>1 DEF d, u
<1>4. ASSUME NEW p \in Datoms, r.new = (u \o <<Companion(p, t - y.lag, t)>>) \o <<d>>
      PROVE  Supersedes(r.new, Datom(y, t), k, st.new)
  <2> DEFINE c == Companion(p, t - y.lag, t)
             v == u \o <<c>>
  <2>1. c \in Datoms /\ ~Candidate(c, k)
    BY <1>1, CompanionIs DEF Candidate
  <2>2. r.new = v \o <<d>>
    BY <1>4
  <2> HIDE DEF c, d, u
  <2>3. v \in Seq(Datoms) /\ Prior(v, k) = Prior(u, k)
    BY <1>2, <2>1, Added, PriorAdded
  <2> HIDE DEF v
  <2>4. Supersedes(r.new, d, k, u)
    BY <1>1, <2>2, <2>3, PriorAdded DEF Supersedes
  <2> QED BY <2>4 DEF d, u
<1> QED BY <1>3, <1>4 DEF Adds

LEMMA AddsAlike ==
    ASSUME NEW p, NEW q, p.new = q.new, p.old = q.old, NEW r, NEW z, NEW y, y.op = "assert",
           NEW prior, NEW t, Adds(p, r, y, prior, t), Adds(q, z, y, prior, t)
    PROVE  r.new = z.new /\ r.old = z.old
<1>1. CASE prior = <<>>
  <2>1. \A d : <<d>> # <<>>
    OBVIOUS
  <2> QED BY <1>1, <2>1 DEF Adds
<1>2. CASE \E d \in Datoms : prior = <<d>>
  <2>1. PICK d \in Datoms : prior = <<d>>
    BY <1>2
  <2>2. prior # <<>> /\ \A e : prior = <<e>> => e = d
    BY <2>1
  <2> QED BY <2>2 DEF Adds
<1> QED BY <1>1, <1>2 DEF Adds

(* The index of a batch after a fact.                                      *)
LEMMA IndexStep ==
    ASSUME NEW s, NEW x \in Seq(Facts), Asserts(x), NEW n \in Nat, n + 1 \in 1 .. Len(x), NEW t \in Nat,
           NEW y, y = x[n + 1], NEW q, Made(s, q, x, n, t), Owned(q), IndexHolds(q, x, n),
           NEW prior, NEW z, Adds(q, z, y, prior, t), z.own = InBatch(q.own, y, t)
    PROVE  IndexHolds(z, x, n + 1)
<1>1. y \in Facts /\ y.op = "assert"
  BY Long, Elements DEF Asserts
<1>2. \A k : Supersedes(z.new, Datom(y, t), k, q.new)
  <2>1. Work(q) /\ Adds(q, z, y, prior, t) /\ t \in Nat
    BY DEF Made
  <2> QED BY ONLY <1>1, <2>1, PriorAfter
<1>3. \A k : Candidate(Datom(y, t), k) <=> y.key = k /\ y.open
  <2> DEFINE d == Datom(y, t)
  <2>1. d.key = y.key /\ d.op = y.op /\ d.open = y.open /\ d.inv = 0
    BY <1>1, DatomIs
  <2> HIDE DEF d
  <2>2. \A k : Candidate(d, k) <=> y.key = k /\ y.open
    BY <1>1, <2>1 DEF Candidate
  <2> QED BY <2>2 DEF d
<1>4. \A k : Prior(z.new, k) = IF y.key = k /\ y.open THEN <<Datom(y, t)>> ELSE Prior(q.new, k)
  <2> TAKE k
  <2> DEFINE d == Datom(y, t)
  <2>1. Supersedes(z.new, d, k, q.new) /\ (Candidate(d, k) <=> y.key = k /\ y.open)
    BY <1>2, <1>3
  <2> HIDE DEF d
  <2>2. Prior(z.new, k) = IF y.key = k /\ y.open THEN <<d>> ELSE Prior(q.new, k)
    BY <2>1 DEF Supersedes
  <2> QED BY <2>2 DEF d
<1>5. \A k \in Keys : z.own[k] = IF k # y.key \/ y.op = "retract" THEN q.own[k]
                                 ELSE IF y.open THEN <<Datom(y, t)>> ELSE <<>>
  <2> DEFINE o == q.own
  <2>1. o \in [Keys -> Seq(Datoms)] /\ z.own = InBatch(o, y, t)
    BY DEF Owned
  <2> HIDE DEF o
  <2>2. \A k \in Keys : InBatch(o, y, t)[k] = IF k # y.key \/ y.op = "retract" THEN o[k]
                                              ELSE IF y.open THEN <<Datom(y, t)>> ELSE <<>>
    BY <1>1, <2>1, InBatchIs
  <2> QED BY <2>1, <2>2 DEF o
<1> SUFFICES ASSUME NEW k \in Keys
             PROVE  z.own[k] = Prior(z.new, k) \/ ClosedAfterOpen(x, n + 1, k)
  BY DEF IndexHolds
<1>6. CASE k = y.key /\ y.open
  BY <1>1, <1>4, <1>5, <1>6
<1>7. CASE k = y.key /\ ~y.open
  <2>1. z.own[k] = <<>> /\ Prior(z.new, k) = Prior(q.new, k)
    BY <1>1, <1>4, <1>5, <1>7
  <2>2. CASE Prior(q.new, k) = <<>>
    BY <2>1, <2>2
  <2>3. CASE Prior(q.new, k) # <<>>
    <3>1. q.new \in Seq(Datoms) /\ FreshOnes(q.new, x, n, t)
      BY DEF Made, Work
    <3>2. PICK d : Prior(q.new, k) = <<d>>
      BY <2>3, <3>1, PriorIs DEF IsPrior
    <3>3. In(d, q.new) /\ Candidate(d, k)
      BY <3>1, <3>2, PriorIs
    <3>4. PICK i \in 1 .. n : d = Datom(x[i], t)
      <4>1. d.op = "assert"
        BY <3>3 DEF Candidate
      <4> QED BY <3>1, <3>3, <4>1 DEF In, FreshOnes
    <3>5. x[i] \in Facts
      BY Long, Elements
    <3>6. x[i].key = k /\ x[i].open
      <4> DEFINE a == x[i]
      <4>1. a \in Facts /\ d = Datom(a, t)
        BY <3>4, <3>5
      <4> HIDE DEF a
      <4>2. d.key = a.key /\ d.open = a.open
        BY <4>1, DatomIs
      <4> QED BY <3>3, <4>2 DEF a, Candidate
    <3>7. i \in 1 .. n + 1 /\ n + 1 \in 1 .. n + 1 /\ i < n + 1
      OBVIOUS
    <3>8. ClosedAfterOpen(x, n + 1, k)
      <4> DEFINE j == n + 1
      <4>1. i \in 1 .. j /\ j \in 1 .. j /\ i < j /\ x[j].key = k /\ ~x[j].open
        BY <1>7, <3>7
      <4> HIDE DEF j
      <4>2. \E a, b \in 1 .. j : a < b /\ x[a].key = k /\ x[b].key = k /\ x[a].open /\ ~x[b].open
        BY <3>6, <4>1
      <4> QED BY <4>2 DEF ClosedAfterOpen, j
    <3> QED BY <3>8
  <2> QED BY <2>2, <2>3
<1>8. CASE k # y.key
  <2>1. z.own[k] = q.own[k] /\ Prior(z.new, k) = Prior(q.new, k)
    BY <1>4, <1>5, <1>8
  <2>2. ClosedAfterOpen(x, n, k) => ClosedAfterOpen(x, n + 1, k)
    <3>1. 1 .. n \subseteq 1 .. n + 1
      OBVIOUS
    <3> QED BY <3>1 DEF ClosedAfterOpen
  <2> QED BY <2>1, <2>2 DEF IndexHolds
<1> QED BY <1>6, <1>7, <1>8

(* The assert that the index of a batch finds is the one a look finds.      *)
LEMMA SamePrior ==
    ASSUME NEW s \in Seq(Datoms), NEW x \in Seq(Facts), Asserts(x), Orderly(x),
           NEW n \in Nat, n + 1 \in 1 .. Len(x), NEW q, Work(q), IndexHolds(q, x, n),
           NEW k \in Keys, x[n + 1].key = k
    PROVE  Prior(s \o q.new, k) = IF q.own[k] # <<>> THEN q.own[k] ELSE Prior(s, k)
<1>1. ~ClosedAfterOpen(x, n, k)
  <2> SUFFICES ASSUME NEW i \in 1 .. n, NEW j \in 1 .. n, i < j, x[i].key = k, x[j].key = k,
                      x[i].open, ~x[j].open
               PROVE  FALSE
    BY DEF ClosedAfterOpen
  <2> DEFINE l == n + 1
  <2>1. Len(x) \in Nat
    BY Long
  <2>2. i \in 1 .. Len(x) /\ j \in 1 .. Len(x) /\ l \in 1 .. Len(x) /\ j < l
    BY <2>1
  <2>3. x[l].key = k
    OBVIOUS
  <2> HIDE DEF l
  <2> QED BY <2>2, <2>3 DEF Orderly
<1>2. q.own[k] = Prior(q.new, k)
  BY <1>1 DEF IndexHolds
<1>3. q.new \in Seq(Datoms)
  BY DEF Work
<1> QED BY <1>2, <1>3, PriorConcat

LEMMA AlikeStep ==
    ASSUME NEW s \in Seq(Datoms), NEW x \in Seq(Facts), Asserts(x), Orderly(x),
           NEW n \in Nat, n + 1 \in 1 .. Len(x), NEW t \in Nat, NEW forced,
           NEW y, y = x[n + 1], NEW p, Made(s, p, x, n, t), NEW q, Made(s, q, x, n, t), Owned(q),
           Alike(p, q), q.refused \/ IndexHolds(q, x, n),
           NEW r, r = LookedUp(s, p, y, t, forced), NEW z, z = Indexed(s, q, y, t, forced)
    PROVE  Alike(r, z) /\ (z.refused \/ IndexHolds(z, x, n + 1))
<1> DEFINE k == y.key
           one == Prior(s \o p.new, k)
           many == IF q.own[k] # <<>> THEN q.own[k] ELSE Prior(s, k)
           e == AddFact(q, y, many, t, forced)
<1>1. y \in Facts /\ y.op = "assert" /\ k \in Keys /\ x[n + 1].key = k
  <2>1. y \in Facts /\ y.op = "assert"
    BY Long, Elements DEF Asserts
  <2> QED BY <2>1 DEF Facts
<1>2. Work(p) /\ Work(q) /\ p.new \in Seq(Datoms)
  BY DEF Made, Work
<1>3. IsPrior(one)
  BY <1>2, PriorFinds DEF Finds
<1>4. IsPrior(many)
  <2>1. IsPrior(q.own[k]) /\ IsPrior(Prior(s, k))
    BY <1>1, PriorIs DEF Owned
  <2> QED BY <2>1
<1>5. ~q.refused => one = many
  <2>1. ~q.refused => p.new = q.new
    BY DEF Alike
  <2> QED BY <1>1, <1>2, <2>1, SamePrior
<1>6. /\ Work(r)
      /\ r.refused <=> p.refused \/ Refuses(y, one, t, forced)
      /\ ~r.refused => Adds(p, r, y, one, t)
  <2> HIDE DEF one
  <2>1. r = AddFact(p, y, one, t, forced)
    BY DEF LookedUp, one
  <2> QED BY <1>1, <1>2, <1>3, <2>1, AddFactIs
<1>7. /\ Work(e) /\ e.own = q.own
      /\ e.refused <=> q.refused \/ Refuses(y, many, t, forced)
      /\ ~e.refused => Adds(q, e, y, many, t)
  <2> HIDE DEF many
  <2> QED BY <1>1, <1>2, <1>4, AddFactIs
<1>8. z.new = e.new /\ z.old = e.old /\ z.refused = e.refused /\ z.own = InBatch(q.own, y, t)
  <2>1. z = [e EXCEPT !.own = InBatch(e.own, y, t)]
    BY Zenon DEF Indexed
  <2> HIDE DEF e
  <2>2. z = [new |-> e.new, old |-> e.old, refused |-> e.refused, own |-> InBatch(e.own, y, t)]
    BY <1>7, <2>1, OwnIs, Zenon
  <2> QED BY <1>7, <2>2
<1> HIDE DEF one, many, e
<1>9. r.refused = z.refused
  <2>1. r.refused \in BOOLEAN /\ e.refused \in BOOLEAN /\ p.refused = q.refused
    BY <1>6, <1>7 DEF Work, Alike
  <2> QED BY <1>5, <1>6, <1>7, <1>8, <2>1
<1>10. CASE z.refused
  BY <1>9, <1>10 DEF Alike
<1>11. CASE ~z.refused
  <2>1. ~q.refused /\ ~e.refused /\ one = many
    BY <1>5, <1>7, <1>8, <1>11
  <2>2. p.new = q.new /\ p.old = q.old
    BY <2>1 DEF Alike
  <2>3. Adds(p, r, y, many, t) /\ Adds(q, e, y, many, t)
    BY <1>6, <1>7, <1>9, <1>11, <2>1
  <2>4. r.new = e.new /\ r.old = e.old
    BY <1>1, <2>2, <2>3, AddsAlike
  <2>5. Adds(q, z, y, many, t)
    BY <1>8, <2>3 DEF Adds
  <2>6. IndexHolds(z, x, n + 1)
    BY <1>8, <2>1, <2>5, IndexStep
  <2> QED BY <1>8, <1>9, <2>4, <2>6 DEF Alike
<1> QED BY <1>10, <1>11

LEMMA LoopsAlike ==
    ASSUME NEW s \in Seq(Datoms), \A i \in DOMAIN s : s[i].tx # Placeholder,
           NEW x \in Seq(Facts), Asserts(x), Orderly(x), NEW t \in Nat, NEW forced,
           NEW f, f[0] = NoDatoms,
           \A i \in 1 .. Len(x) : f[i] = LookedUp(s, f[i - 1], x[i], t, forced),
           NEW g, g[0] = NoDatoms,
           \A i \in 1 .. Len(x) : g[i] = Indexed(s, g[i - 1], x[i], t, forced)
    PROVE  Alike(f[Len(x)], g[Len(x)])
<1> DEFINE P == {i \in 0 .. Len(x) : Alike(f[i], g[i]) /\ (g[i].refused \/ IndexHolds(g[i], x, i))}
<1>1. Len(x) \in Nat
  BY Long
<1>2. 0 \in P
  <2>1. NoDatoms.new = <<>> /\ \A k \in Keys : NoDatoms.own[k] = <<>>
    BY DEF NoDatoms
  <2>2. \A k \in Keys : Prior(<<>>, k) = <<>>
    BY DEF Prior, OpenOn
  <2>3. Alike(NoDatoms, NoDatoms) /\ IndexHolds(NoDatoms, x, 0)
    BY <2>1, <2>2 DEF Alike, IndexHolds
  <2> QED BY <1>1, <2>3
<1>3. \A i \in 0 .. Len(x) : Made(s, f[i], x, i, t)
  BY EachMade
<1>4. \A i \in 0 .. Len(x) : Made(s, g[i], x, i, t) /\ Owned(g[i])
  BY BatchMade
<1>5. ASSUME NEW i \in 1 .. Len(x), i - 1 \in P PROVE i \in P
  <2> DEFINE n == i - 1
             p == f[n]
             q == g[n]
             r == f[i]
             z == g[i]
             y == x[i]
  <2>1. n \in Nat /\ n + 1 = i /\ n \in 0 .. Len(x) /\ i \in 0 .. Len(x)
    BY <1>1
  <2>2. Made(s, p, x, n, t) /\ Made(s, q, x, n, t) /\ Owned(q)
    BY <1>3, <1>4, <2>1
  <2>3. Alike(p, q) /\ (q.refused \/ IndexHolds(q, x, n))
    BY <1>5
  <2>4. r = LookedUp(s, p, y, t, forced) /\ z = Indexed(s, q, y, t, forced)
    OBVIOUS
  <2> HIDE DEF n, p, q, r, z, y
  <2>5. y = x[n + 1] /\ n + 1 \in 1 .. Len(x)
    BY <2>1 DEF y
  <2>6. s \in Seq(Datoms) /\ x \in Seq(Facts) /\ Asserts(x) /\ Orderly(x) /\ t \in Nat
    OBVIOUS
  <2>7. Alike(r, z) /\ (z.refused \/ IndexHolds(z, x, n + 1))
    BY ONLY <2>1, <2>2, <2>3, <2>4, <2>5, <2>6, AlikeStep
  <2> QED BY <2>1, <2>7 DEF r, z
<1> HIDE DEF P
<1>6. \A i \in 0 .. Len(x) : i \in P
  BY <1>1, <1>2, <1>5, Upwards
<1> QED BY <1>1, <1>6 DEF P

LEMMA BatchIsTransact ==
    ASSUME NEW s \in Seq(Datoms), \A i \in DOMAIN s : s[i].tx # Placeholder,
           NEW x \in Seq(Facts), NEW t \in Nat, NEW forced
    PROVE  Asserts(x) /\ Orderly(x)
              => Alike(Transact(s, x, t, forced), TransactBatch(s, x, t, forced))
<1>1. Len(x) \in Nat
  BY Long
<1>2. PICK f : RunsTransact(f, s, x, t, forced)
  BY <1>1, TransactIs
<1>3. PICK g : RunsBatch(g, s, x, t, forced)
  BY <1>1, TransactBatchIs
<1> QED BY <1>2, <1>3, LoopsAlike DEF RunsTransact, RunsBatch

(* Two ways to read the log give one result, DictProjection.get and        *)
(* entity(); so do two ways to write, transact_batch and transact, whatever *)
(* log they start from: the same datoms, invalidations and refusals.       *)
THEOREM PathsAlwaysAgree ==
    ASSUME CallersOnlyAssert, NoTies, ClosedComesLast PROVE Spec => []PathsAgree
<1>1. ASSUME LogInv, DateInv PROVE ProjectionMirrors
  <2>1. log \in Seq(Datoms) /\ Tidy(log, log)
    BY <1>1 DEF LogInv, TypeInv, DateInv
  <2> QED BY <2>1, ProjectionIs DEF ProjectionMirrors
<1>2. ASSUME LogInv PROVE BatchEquivalent
  <2> SUFFICES ASSUME NEW w \in Writers, pc[w] = "snap"
               PROVE  Alike(Transact(log, arg[w], time[w], force[w]),
                            TransactBatch(log, arg[w], time[w], force[w]))
    BY DEF BatchEquivalent, Alike
  <2>1. log \in Seq(Datoms) /\ (\A i \in DOMAIN log : log[i].tx # Placeholder) /\ time[w] \in Nat
    BY <1>2 DEF LogInv, TypeInv
  <2>2. arg[w] \in Batches
    BY <1>2 DEF LogInv, CallInv
  <2>3. arg[w] \in Seq(Facts) /\ Asserts(arg[w])
    BY <2>2, ConstantsOK, BatchOK
  <2>4. Orderly(arg[w])
    <3> DEFINE b == arg[w]
    <3>1. b \in Batches /\ \A i \in 1 .. Len(b) : b[i].op = "assert"
      BY <2>2, <2>3 DEF Asserts
    <3> HIDE DEF b
    <3>2. Orderly(b)
      BY <3>1 DEF ClosedComesLast, Orderly
    <3> QED BY <3>2 DEF b
  <2> QED BY <2>1, <2>3, <2>4, BatchIsTransact
<1>3. LogInv /\ DateInv => PathsAgree
  BY <1>1, <1>2 DEF PathsAgree
<1> QED BY <1>3, LogInvAlways, DateInvAlways, PTL
=============================================================================
