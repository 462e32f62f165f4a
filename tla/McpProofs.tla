----------------------------- MODULE McpProofs -----------------------------
(***************************************************************************)
(* Theorems about the MCP server, for any finite set of sessions and any   *)
(* bounds.                                                                 *)
(*                                                                         *)
(* Each of the run's invariants speaks of what was answered; what makes it *)
(* inductive is the same said of the call that is still under way: a recall*)
(* or a replay check is decided when it begins and answered later, when    *)
(* the list and the store have moved on (Sound), an entry is decided by    *)
(* the tail its session read (Follows), a fact is in the store before or   *)
(* after its entry is in the list (pending claims), and an admitted check  *)
(* counts before its answer does (RateInv).                                *)
(***************************************************************************)
EXTENDS McpServer, FiniteSetTheorems, SequenceTheorems, TLAPS

Reasons == {"ok", "denied", "not_found", "window_too_large", "aborted", "internal", "tx_not_found", "mismatch"}
Calls == [step : {"work", "audit", "length", "append", "notify"}, verb : Verbs, memory : Memories \cup {NoOne},
          time : Nat, verdict : {"ok", "error"}, reason : Reasons, hits : Seq(Memories), k : Nat,
          size : Nat, window : SUBSET Nat, prev : Nat, seen : Nat, tx : Nat]
Reports == [verb : Verbs, verdict : {"ok", "error"}, reason : Reasons, hits : Seq(Memories), k : Nat,
            window : SUBSET Nat, size : Nat, time : Nat]
Data == [e : Memories, op : {"assert", "retract"}, from : Nat, at : Nat]
Entries == [kind : {"effect", "escape", "mcp"}, by : Sessions \cup {"app"}, verb : Verbs \cup {"effect", "escape"},
            verdict : {"ok", "error"}, prev : Nat, tx : Nat, seen : Nat]

Pending == {s \in Sessions : call[s].step \in {"work", "audit", "length", "append"}}

TypeInv ==
    /\ now \in Nat /\ now <= MaxTime /\ bounced \in Nat
    /\ log \in Seq(Data) /\ entries \in Seq(Entries)
    /\ ready \in [Sessions -> BOOLEAN] /\ subscribed \in [Sessions -> BOOLEAN]
    /\ told \in [Sessions -> Nat] /\ heard \in [Sessions -> Nat]
    /\ admitted \in [Sessions -> Seq(Nat)]
    /\ call \in [Sessions -> Calls \cup {Idle}]
    /\ answers \in [Sessions -> Seq(Reports)]

(* An entry of a session follows the entry its session read at the tail.   *)
TailId(n) == IF n # 0 /\ entries[n].kind = "mcp" THEN n ELSE 0
Follows(e) == e.kind = "mcp" => e.prev = TailId(e.seen)

EntriesFollow ==
    \A i \in DOMAIN entries : /\ entries[i].prev <= entries[i].seen /\ entries[i].seen <= entries[i].tx
                              /\ entries[i].tx < i /\ Follows(entries[i])

ListInv ==
    /\ \A i \in DOMAIN log : log[i].from <= log[i].at /\ log[i].at <= now
    /\ EntriesFollow
    /\ bounced + Len(entries) + Cardinality(Pending) <= MaxEntries
    /\ \A s \in Sessions : told[s] <= Len(entries) /\ heard[s] <= told[s]

(* What a recall and a replay check say, of the store and the list then.   *)
SoundIn(a, l, q) ==
    /\ a.verb = "recall" /\ a.verdict = "ok" =>
         /\ a.size <= Len(l) /\ IsInjective(a.hits)
         /\ \A j \in 1 .. a.size :
              \/ l[j].e \in ToSet(a.hits)
              \/ \E i \in 1 .. a.size : l[i].e = l[j].e /\ l[i].op = "retract"
              \/ Len(a.hits) = a.k
    /\ a.verb = "replay" /\ a.reason = "mismatch" =>
         \E j \in a.window : j \in DOMAIN q /\ (q[j].kind # "mcp" \/ q[j].seen # j - 1)

Sound(a) == SoundIn(a, log, entries)

CallInv(s) ==
    call[s] # Idle =>
        /\ call[s].time <= now
        /\ call[s].step = "work" => /\ call[s].verb \in {"remember", "forget"} /\ call[s].memory \in Memories
                                    /\ call[s].verdict = "ok" /\ call[s].reason # "internal"
        /\ call[s].step \in {"length", "append"} =>
              call[s].seen <= Len(entries) /\ call[s].prev = TailId(call[s].seen)
        /\ call[s].step = "append" => call[s].seen <= call[s].tx /\ call[s].tx <= Len(entries)
        /\ call[s].step = "notify" => told[s] < Len(entries)
        /\ Sound(call[s])

AnswerInv == \A s \in Sessions : CallInv(s) /\ \A i \in DOMAIN answers[s] : Sound(answers[s][i])

(* A claim whose fact is stored and whose entry is still to be appended,   *)
(* and the calls that failed inside transact, answered and under way.      *)
Owed == {s \in Sessions : call[s].step \in {"audit", "length", "append"} /\ Claims(call[s])}
Claimed == {i \in DOMAIN entries : Claims(entries[i])}
Failing == {s \in Sessions : call[s].step \in {"audit", "length", "append", "notify"} /\ call[s].reason = "internal"}
FailedAnswers == {si \in Dealt : answers[si[1]][si[2]].reason = "internal"}

ClaimInv ==
    /\ IsFiniteSet(FailedAnswers)
    /\ Cardinality(Claimed) + Cardinality(Owed) <= Len(log)
    /\ Len(log) <= Cardinality(Claimed) + Cardinality(Owed) + Cardinality(FailedAnswers) + Cardinality(Failing)

(* The admitted replay checks, answered and under way, with times in T.    *)
Admits(a) == a.verb = "replay" /\ a.verdict = "ok"
Answered(s, T) == {i \in DOMAIN answers[s] : Admits(answers[s][i]) /\ answers[s][i].time \in T}
UnderWay(s, T) == IF call[s] # Idle /\ Admits(call[s]) /\ call[s].time \in T THEN 1 ELSE 0
Checked(s, T) == Cardinality(Answered(s, T)) + UnderWay(s, T)
Since(u) == {t \in Nat : t >= u}
Around(t) == t - ReplayWindow .. t
Later(q, u) == Cardinality({j \in DOMAIN q : q[j] >= u})

(* The limiter remembers every check its window still holds.               *)
RateAt(s) ==
    /\ Len(admitted[s]) <= ReplayLimit
    /\ \A u \in Int : u >= now - ReplayWindow => Checked(s, Since(u)) <= Later(admitted[s], u)
    /\ \A t \in Int : Checked(s, Around(t)) <= ReplayLimit

RateInv == \A s \in Sessions : RateAt(s)

Inv == /\ TypeInv
       /\ ListInv
       /\ AnswerInv
       /\ EveryCallAudited
       /\ ClaimInv
       /\ RateInv

-----------------------------------------------------------------------------
(* Counting. *)

LEMMA CountsOne ==
    ASSUME NEW S, IsFiniteSet(S), NEW x, x \notin S
    PROVE  IsFiniteSet(S \cup {x}) /\ Cardinality(S \cup {x}) = Cardinality(S) + 1
BY FS_AddElement

LEMMA CountsLess ==
    ASSUME NEW S, IsFiniteSet(S), NEW x \in S
    PROVE  IsFiniteSet(S \ {x}) /\ Cardinality(S \ {x}) = Cardinality(S) - 1
BY FS_RemoveElement

LEMMA CountIs ==
    ASSUME NEW S, IsFiniteSet(S)
    PROVE  Cardinality(S) \in Nat
BY FS_CardinalityType

LEMMA CountGrows ==
    ASSUME NEW S, NEW T, IsFiniteSet(T), S \subseteq T
    PROVE  IsFiniteSet(S) /\ Cardinality(S) <= Cardinality(T)
BY FS_Subset

(* What a sequence's positions satisfy is finite in number.                *)
LEMMA PlacesFinite ==
    ASSUME NEW D, NEW q \in Seq(D), NEW P, P \subseteq DOMAIN q
    PROVE  IsFiniteSet(P) /\ Cardinality(P) \in Nat /\ Cardinality(P) <= Len(q)
<1>1. Len(q) \in Nat /\ DOMAIN q = 1 .. Len(q)
  OBVIOUS
<1>2. IsFiniteSet(1 .. Len(q)) /\ Cardinality(1 .. Len(q)) = Len(q)
  <2> DEFINE n == Len(q)
  <2>1. n \in Nat
    BY <1>1
  <2> HIDE DEF n
  <2>2. IsFiniteSet(1 .. n) /\ Cardinality(1 .. n) = n
    <3>1. 1 \in Int /\ n \in Int
      BY <2>1
    <3>2. IsFiniteSet(1 .. n) /\ Cardinality(1 .. n) = IF 1 > n THEN 0 ELSE n - 1 + 1
      BY <3>1, FS_Interval
    <3> QED BY <2>1, <3>2
  <2> QED BY <2>2 DEF n
<1> QED BY <1>1, <1>2, CountGrows, CountIs

LEMMA SessionsFinite ==
    ASSUME NEW P, P \subseteq Sessions
    PROVE  IsFiniteSet(P) /\ Cardinality(P) \in Nat
BY McpAssumption, CountGrows, CountIs

LEMMA AppendIs ==
    ASSUME NEW D, NEW q \in Seq(D), NEW e \in D
    PROVE  /\ Append(q, e) \in Seq(D) /\ Len(Append(q, e)) = Len(q) + 1 /\ Len(q) \in Nat
           /\ DOMAIN Append(q, e) = DOMAIN q \cup {Len(q) + 1} /\ Len(q) + 1 \notin DOMAIN q
           /\ \A i \in DOMAIN q : Append(q, e)[i] = q[i] /\ i \in Nat /\ i <= Len(q)
           /\ Append(q, e)[Len(q) + 1] = e
OBVIOUS

(* Every set of numbers has a least one, and a bounded one a greatest. *)
LEMMA LeastNat ==
    ASSUME NEW T, T \subseteq Nat, T # {}
    PROVE  \E n \in T : \A m \in T : n <= m
<1> DEFINE F == {0 .. k : k \in T}
<1>1. F \subseteq FiniteSubsetsOf(Nat) /\ F # {}
  <2>1. \A k \in T : IsFiniteSet(0 .. k) /\ 0 .. k \in SUBSET Nat
    BY FS_Interval
  <2> QED BY <2>1 DEF FiniteSubsetsOf
<1>2. PICK U \in F : \A V \in F : ~ (<<V, U>> \in StrictSubsetOrdering(Nat))
  BY <1>1, FS_StrictSubsetOrderingWellFounded, WFMin
<1>3. PICK n \in T : U = 0 .. n
  OBVIOUS
<1>4. ASSUME NEW m \in T, ~ (n <= m) PROVE FALSE
  <2>1. 0 .. m \subseteq 0 .. n /\ 0 .. m # 0 .. n
    BY <1>4
  <2>2. <<0 .. m, 0 .. n>> \in StrictSubsetOrdering(Nat)
    BY <2>1 DEF StrictSubsetOrdering
  <2> QED BY <2>2, <1>2, <1>3
<1> QED BY <1>4

LEMMA GreatestNat ==
    ASSUME NEW n \in Nat, NEW T \in SUBSET (1 .. n), T # {}
    PROVE  \E m \in T : \A k \in T : k <= m
<1> DEFINE D == {n - k : k \in T}
<1>1. \A k \in T : k \in Nat /\ k <= n /\ n - k \in Nat /\ n - k \in D
  OBVIOUS
<1>2. D \subseteq Nat /\ D # {}
  BY <1>1
<1>3. \E d \in D : \A e \in D : d <= e
  <2> HIDE DEF D
  <2> QED BY <1>2, LeastNat
<1>4. PICK m \in T : \A e \in D : n - m <= e
  BY <1>3
<1>5. ASSUME NEW k \in T PROVE k <= m
  <2>1. n - m <= n - k
    BY <1>1, <1>4
  <2> QED BY <2>1, <1>1
<1> QED BY <1>5

(* Numbered by how many are at least as recent, the newest is the first.   *)
LEMMA RanksAre ==
    ASSUME NEW F, IsFiniteSet(F), NEW age \in [F -> Nat], \A a, b \in F : age[a] = age[b] => a = b,
           NEW rank, rank = [a \in F |-> Cardinality({o \in F : age[a] <= age[o]})]
    PROVE  /\ rank \in [F -> 1 .. Cardinality(F)]
           /\ \A a, b \in F : rank[a] = rank[b] => a = b
           /\ \A i \in 1 .. Cardinality(F) : \E a \in F : rank[a] = i
<1> DEFINE n == Cardinality(F)
           Up(a) == {o \in F : age[a] <= age[o]}
<1>1. n \in Nat
  BY CountIs
<1>2. ASSUME NEW a \in F PROVE IsFiniteSet(Up(a)) /\ Cardinality(Up(a)) \in 1 .. n
  <2>1. Up(a) \subseteq F /\ {a} \subseteq Up(a)
    OBVIOUS
  <2>2. IsFiniteSet(Up(a)) /\ Cardinality(Up(a)) <= n
    BY <2>1, CountGrows
  <2>3. Cardinality({a}) <= Cardinality(Up(a)) /\ Cardinality({a}) = 1
    BY <2>1, <2>2, CountGrows, FS_Singleton
  <2>4. Cardinality(Up(a)) \in Nat
    BY <2>2, CountIs
  <2> HIDE DEF Up, n
  <2> QED BY <1>1, <2>2, <2>3, <2>4
<1>3. \A a \in F : rank[a] = Cardinality(Up(a))
  OBVIOUS
<1>4. rank \in [F -> 1 .. n]
  <2> HIDE DEF Up, n
  <2>1. \A a \in F : rank[a] \in 1 .. n
    BY <1>2, <1>3
  <2>2. DOMAIN rank = F /\ rank = [a \in F |-> rank[a]]
    OBVIOUS
  <2> QED BY <2>1, <2>2
<1>5. ASSUME NEW a \in F, NEW b \in F, age[a] < age[b] PROVE rank[a] # rank[b]
  <2>1. Up(b) \subseteq Up(a) /\ a \in Up(a) /\ a \notin Up(b)
    BY <1>5
  <2>2. Up(a) # Up(b)
    BY <2>1
  <2> HIDE DEF Up, n
  <2>3. Cardinality(Up(a)) # Cardinality(Up(b))
    BY <2>1, <2>2, <1>2, FS_Subset
  <2> QED BY <2>3, <1>3
<1>6. ASSUME NEW a \in F, NEW b \in F, rank[a] = rank[b] PROVE a = b
  <2>1. age[a] \in Nat /\ age[b] \in Nat
    OBVIOUS
  <2>2. ~ (age[a] < age[b]) /\ ~ (age[b] < age[a])
    BY <1>5, <1>6
  <2> QED BY <2>1, <2>2
<1>7. IsFiniteSet(1 .. n) /\ Cardinality(1 .. n) = n
  <2> HIDE DEF n
  <2>1. IsFiniteSet(1 .. n) /\ Cardinality(1 .. n) = IF 1 > n THEN 0 ELSE n - 1 + 1
    BY <1>1, FS_Interval
  <2> QED BY <1>1, <2>1
<1>8. rank \in Surjection(F, 1 .. n)
  <2> HIDE DEF n
  <2>1. rank \in Injection(F, 1 .. n)
    BY <1>4, <1>6 DEF Injection, IsInjective
  <2>2. Cardinality(F) = Cardinality(1 .. n) <=> rank \in Surjection(F, 1 .. n)
    BY <2>1, <1>7, FS_Injection
  <2> QED BY <2>2, <1>7 DEF n
<1>9. \A i \in 1 .. n : \E a \in F : rank[a] = i
  BY <1>8 DEF Surjection
<1> QED BY <1>4, <1>6, <1>9

-----------------------------------------------------------------------------
(* What a recall finds. *)

LEMMA NewestIs ==
    ASSUME TypeInv, NEW i \in DOMAIN log
    PROVE  Newest(log[i].e) \in DOMAIN log /\ log[Newest(log[i].e)].e = log[i].e
<1> DEFINE T == {j \in DOMAIN log : log[j].e = log[i].e}
<1>1. Len(log) \in Nat /\ DOMAIN log = 1 .. Len(log)
  BY DEF TypeInv
<1>2. T \in SUBSET (1 .. Len(log)) /\ T # {}
  BY <1>1
<1>3. PICK m \in T : \A j \in T : j <= m
  <2> HIDE DEF T
  <2> QED BY <1>1, <1>2, GreatestNat
<1>4. m \in DOMAIN log /\ log[m].e = log[i].e /\ \A j \in DOMAIN log : log[j].e = log[i].e => j <= m
  BY <1>3
<1> HIDE DEF T
<1> QED BY <1>4 DEF Newest

LEMMA HitsAre ==
    ASSUME TypeInv, NEW k \in Nat, NEW t
    PROVE  /\ Hits(k, t) \in Seq(Memories) /\ IsInjective(Hits(k, t))
           /\ \A i \in DOMAIN log :
                 Present(log[i].e, t) => log[i].e \in ToSet(Hits(k, t)) \/ Len(Hits(k, t)) = k
<1> DEFINE found == {m \in {log[i].e : i \in DOMAIN log} : Present(m, t)}
           age == [m \in found |-> Newest(m)]
           rank == [m \in found |-> Cardinality({o \in found : age[m] <= age[o]})]
           n == Cardinality(found)
           l == IF k < n THEN k ELSE n
           hits == [i \in 1 .. l |-> CHOOSE m \in found : rank[m] = i]
<1>1. IsFiniteSet(found) /\ n \in Nat
  <2> DEFINE f == [i \in DOMAIN log |-> log[i].e]
  <2>1. IsFiniteSet(DOMAIN log)
    BY PlacesFinite DEF TypeInv
  <2>2. f \in Surjection(DOMAIN log, {log[i].e : i \in DOMAIN log})
    BY DEF Surjection
  <2>3. IsFiniteSet({log[i].e : i \in DOMAIN log})
    <3> HIDE DEF f
    <3> QED BY <2>1, <2>2, FS_Surjection
  <2>4. found \subseteq {log[i].e : i \in DOMAIN log}
    OBVIOUS
  <2> QED BY <2>3, <2>4, CountGrows, CountIs
<1>2. found \subseteq Memories /\ \A i \in DOMAIN log : i \in Nat
  <2>1. log \in Seq(Data)
    BY DEF TypeInv
  <2>2. \A i \in DOMAIN log : i \in Nat /\ log[i] \in Data
    BY <2>1
  <2>3. \A i \in DOMAIN log : log[i].e \in Memories
    BY <2>2 DEF Data
  <2> QED BY <2>2, <2>3
<1>3. \A m \in found : Newest(m) \in DOMAIN log /\ log[Newest(m)].e = m
  BY NewestIs
<1>4. age \in [found -> Nat] /\ \A a, b \in found : age[a] = age[b] => a = b
  <2>1. \A m \in found : Newest(m) \in Nat
    BY <1>2, <1>3
  <2>2. \A m \in found : age[m] = Newest(m)
    OBVIOUS
  <2>3. \A a, b \in found : age[a] = age[b] => a = b
    BY <1>3, <2>2
  <2> QED BY <2>1, <2>3
<1>5. Hits(k, t) = hits
  <2>1. \A m \in found : rank[m] = Cardinality({o \in found : Newest(m) <= Newest(o)})
    <3>1. \A m \in found : {o \in found : age[m] <= age[o]} = {o \in found : Newest(m) <= Newest(o)}
      OBVIOUS
    <3> QED BY <3>1
  <2>2. \A i \in 1 .. l : (CHOOSE m \in found : rank[m] = i)
                           = (CHOOSE m \in found : Cardinality({o \in found : Newest(m) <= Newest(o)}) = i)
    <3> HIDE DEF rank, found, age
    <3> QED BY <2>1
  <2>3. Hits(k, t) = [i \in 1 .. l |-> CHOOSE m \in found : Cardinality({o \in found : Newest(m) <= Newest(o)}) = i]
    BY DEF Hits
  <2> HIDE DEF rank, found, age, n, l
  <2> QED BY <2>2, <2>3
<1>6. /\ \A i \in 1 .. n : \E a \in found : rank[a] = i
      /\ \A a, b \in found : rank[a] = rank[b] => a = b
      /\ rank \in [found -> 1 .. n]
  <2>1. rank = [m \in found |-> Cardinality({o \in found : age[m] <= age[o]})]
    OBVIOUS
  <2> HIDE DEF rank, found, age
  <2> QED BY <1>1, <1>4, <2>1, RanksAre
<1> HIDE DEF rank, found, age, n
<1>7. l \in Nat /\ l <= n /\ l <= k /\ (l = k \/ l = n)
  BY <1>1
<1>8. \A i \in 1 .. l : i \in 1 .. n /\ hits[i] \in found /\ rank[hits[i]] = i
  <2>1. ASSUME NEW i \in 1 .. l PROVE i \in 1 .. n /\ hits[i] \in found /\ rank[hits[i]] = i
    <3>1. i \in 1 .. n
      BY <1>1, <1>7
    <3>2. \E m \in found : rank[m] = i
      BY <3>1, <1>6
    <3>3. hits[i] = CHOOSE m \in found : rank[m] = i
      OBVIOUS
    <3> QED BY <3>1, <3>2, <3>3
  <2> QED BY <2>1
<1>9. hits \in Seq(Memories) /\ DOMAIN hits = 1 .. l /\ Len(hits) = l
  <2>1. hits \in [1 .. l -> Memories]
    BY <1>2, <1>8
  <2> HIDE DEF hits, l
  <2> QED BY <2>1, <1>7
<1>10. IsInjective(hits)
  <2> HIDE DEF hits, l
  <2> QED BY <1>8, <1>9 DEF IsInjective
<1>11. ASSUME NEW i \in DOMAIN log, Present(log[i].e, t), Len(hits) # k PROVE log[i].e \in ToSet(hits)
  <2>1. log[i].e \in found /\ l = n
    <3>1. l = n
      BY <1>7, <1>9, <1>11
    <3> QED BY <3>1, <1>11 DEF found
  <2>2. rank[log[i].e] \in 1 .. l
    BY <1>6, <2>1
  <2>3. hits[rank[log[i].e]] = log[i].e
    <3> HIDE DEF hits, l
    <3> QED BY <1>6, <1>8, <2>1, <2>2
  <2> HIDE DEF hits, l
  <2> QED BY <1>9, <2>2, <2>3 DEF ToSet
<1> QED
  <2> HIDE DEF hits, l
  <2> QED BY <1>5, <1>9, <1>10, <1>11, Zenon

-----------------------------------------------------------------------------
(* What the rate limiter remembers. *)

LEMMA ShiftedIs ==
    ASSUME NEW q \in Seq(Nat), NEW n \in Nat, n <= Len(q)
    PROVE  LET r == SubSeq(q, n + 1, Len(q))
           IN  r \in Seq(Nat) /\ Len(r) = Len(q) - n /\ \A j \in 1 .. Len(r) : r[j] = q[j + n]
<1> DEFINE r == SubSeq(q, n + 1, Len(q))
<1>1. PICK l \in Nat : l = Len(q) /\ DOMAIN q = 1 .. l /\ \A i \in 1 .. l : q[i] \in Nat
  OBVIOUS
<1>2. r \in Seq(Nat)
  <2>1. \A i \in n + 1 .. l : i \in 1 .. l
    BY <1>1
  <2> QED BY <1>1, <2>1
<1>3. Len(r) = l - n
  BY <1>1
<1>4. \A j \in 1 .. l - n : r[j] = q[j + n]
  BY <1>1
<1> QED BY <1>1, <1>2, <1>3, <1>4

LEMMA InitialSegment ==
    ASSUME NEW n \in Nat, NEW T \in SUBSET (1 .. n), \A i \in T : 1 .. i \subseteq T
    PROVE  \E m \in 0 .. n : T = 1 .. m
<1>1. CASE T = {}
  BY <1>1
<1>2. CASE T # {}
  <2>1. PICK m \in T : \A k \in T : k <= m
    BY <1>2, GreatestNat
  <2>2. 1 .. m \subseteq T /\ \A k \in T : k \in 1 .. m
    BY <2>1
  <2>3. T = 1 .. m
    BY <2>2
  <2> QED BY <2>3
<1> QED BY <1>1, <1>2

LEMMA RecentIs ==
    ASSUME TypeInv, NEW s \in Sessions
    PROVE  /\ Recent(s) \in Seq(Nat) /\ Len(Recent(s)) <= Len(admitted[s])
           /\ \A u \in Int : u >= now - ReplayWindow => Later(admitted[s], u) <= Later(Recent(s), u)
<1> DEFINE q == admitted[s]
           old == {i \in DOMAIN q : \A j \in 1 .. i : q[j] < now - ReplayWindow}
           r == Recent(s)
<1>1. q \in Seq(Nat) /\ Len(q) \in Nat /\ DOMAIN q = 1 .. Len(q) /\ now \in Nat /\ ReplayWindow \in Nat
  BY McpAssumption DEF TypeInv
<1>2. PICK n \in 0 .. Len(q) : old = 1 .. n
  <2>1. old \in SUBSET (1 .. Len(q)) /\ \A i \in old : 1 .. i \subseteq old
    BY <1>1
  <2> HIDE DEF old, q
  <2> QED BY <1>1, <2>1, InitialSegment
<1>3. Cardinality(old) = n
  <2>1. IsFiniteSet(1 .. n) /\ Cardinality(1 .. n) = IF 1 > n THEN 0 ELSE n - 1 + 1
    BY <1>1, FS_Interval
  <2> HIDE DEF old, q
  <2> QED BY <1>1, <1>2, <2>1
<1>4. r = SubSeq(q, n + 1, Len(q))
  <2>1. r = SubSeq(q, Cardinality(old) + 1, Len(q))
    BY DEF Recent
  <2> HIDE DEF old, q, r
  <2> QED BY <2>1, <1>3
<1>5. \A j \in DOMAIN q : j <= n => q[j] < now - ReplayWindow
  <2>1. ASSUME NEW j \in DOMAIN q, j <= n PROVE q[j] < now - ReplayWindow
    <3>1. j \in old
      <4> HIDE DEF old, q
      <4> QED BY <2>1, <1>1, <1>2
    <3>2. j \in 1 .. j
      BY <1>1, <2>1
    <3> QED BY <3>1, <3>2
  <2> QED BY <2>1
<1> HIDE DEF q, old, r
<1>6. r \in Seq(Nat) /\ Len(r) = Len(q) - n /\ \A j \in 1 .. Len(r) : r[j] = q[j + n]
  <2>1. n \in Nat /\ n <= Len(q)
    BY <1>1, <1>2
  <2> QED BY <1>1, <1>4, <2>1, ShiftedIs
<1>7. ASSUME NEW u \in Int, u >= now - ReplayWindow PROVE Later(q, u) <= Later(r, u)
  <2> DEFINE S == {j \in DOMAIN q : q[j] >= u}
             T == {j \in DOMAIN r : r[j] >= u}
             f == [j \in S |-> j - n]
  <2>1. Len(r) \in Nat /\ DOMAIN r = 1 .. Len(r)
    BY <1>6
  <2>2. IsFiniteSet(T)
    <3>1. T \subseteq DOMAIN r
      OBVIOUS
    <3> HIDE DEF T
    <3> QED BY <3>1, <1>6, PlacesFinite
  <2>3. ASSUME NEW j \in S PROVE j - n \in T /\ j \in Nat
    <3>1. j \in 1 .. Len(q) /\ q[j] >= u /\ q[j] \in Nat
      BY <1>1
    <3>2. ~ (j <= n)
      BY <1>1, <1>5, <1>7, <3>1
    <3>3. j - n \in 1 .. Len(r) /\ j - n + n = j
      BY <1>1, <1>2, <1>6, <3>1, <3>2
    <3>4. r[j - n] = q[j]
      BY <1>6, <3>3
    <3> QED BY <2>1, <3>1, <3>3, <3>4
  <2>4. f \in Injection(S, T)
    <3>1. \A a, b \in S : a - n = b - n => a = b
      BY <2>3, <1>2
    <3>2. f \in [S -> T]
      BY <2>3
    <3>3. \A a, b \in S : f[a] = f[b] => a = b
      BY <3>1
    <3> HIDE DEF f
    <3> QED BY <3>2, <3>3 DEF Injection, IsInjective
  <2>5. Cardinality(S) <= Cardinality(T)
    <3> HIDE DEF f, S, T
    <3> QED BY <2>2, <2>4, FS_Injection
  <2> QED BY <2>5 DEF Later
<1> QED BY <1>1, <1>2, <1>6, <1>7 DEF q, r

-----------------------------------------------------------------------------
(* How a call begins. *)

LEMMA TailIs ==
    ASSUME TypeInv, NEW n \in Nat
    PROVE  TailId(n) \in Nat /\ TailId(n) <= n
BY DEF TailId

(* The window is an interval, and each of the sessions' entries in it whose*)
(* tail was read just before it names the entry before it.                 *)
LEMMA MismatchSound ==
    ASSUME TypeInv, ListInv, NEW tx \in Nat, NEW w \in Nat, Reason(tx, w) = "mismatch"
    PROVE  \E j \in Window(tx, w, Len(entries)) :
              j \in DOMAIN entries /\ (entries[j].kind # "mcp" \/ entries[j].seen # j - 1)
<1> DEFINE W == Window(tx, w, Len(entries))
           h == w \div 2
<1>1. /\ Len(entries) \in Nat /\ DOMAIN entries = 1 .. Len(entries)
      /\ \A i \in DOMAIN entries : entries[i].prev \in Nat
  <2>1. entries \in Seq(Entries)
    BY DEF TypeInv
  <2>2. \A i \in DOMAIN entries : entries[i] \in Entries
    BY <2>1
  <2> QED BY <2>1, <2>2 DEF Entries
<1>2. h \in Int
  OBVIOUS
<1> HIDE DEF h
<1>3. W = {i \in 1 .. Len(entries) : i >= tx - h + 1 /\ i <= tx + h + 1}
  BY DEF Window, h
<1>4. \A i, j \in W : j < i => i - 1 \in W /\ (i - 1 <= j => j = i - 1)
  BY <1>1, <1>2, <1>3
<1>5. W \subseteq DOMAIN entries
  BY <1>1, <1>3
<1> HIDE DEF W
<1>6. SUFFICES ASSUME \A j \in W : entries[j].kind = "mcp" /\ entries[j].seen = j - 1 PROVE FALSE
  BY <1>5 DEF W
<1>7. {i \in W : entries[i].kind # "effect"} = W
  BY <1>6
<1>8. Broken(W)
  BY DEF Reason, W
<1>9. PICK i \in W, j \in W : j < i /\ (\A l \in W : l <= j \/ l >= i) /\ entries[i].prev # j
  BY <1>6, <1>7, <1>8 DEF Broken
<1>10. i \in Nat /\ j \in Nat /\ i - 1 \in W /\ i - 1 = j /\ j # 0
  <2>1. i \in 1 .. Len(entries) /\ j \in 1 .. Len(entries)
    BY <1>1, <1>5
  <2>2. i - 1 \in W /\ ~ (i - 1 >= i)
    BY <1>4, <1>9, <2>1
  <2> QED BY <1>4, <1>9, <2>1, <2>2
<1>11. entries[i].prev = TailId(entries[i].seen)
  BY <1>5, <1>6 DEF ListInv, EntriesFollow, Follows
<1>12. TailId(j) = j
  BY <1>6, <1>10 DEF TailId
<1> QED BY <1>6, <1>9, <1>10, <1>11, <1>12

LEMMA DoingIs ==
    ASSUME TypeInv, NEW step \in {"work", "audit"}, NEW verb \in Verbs, NEW m \in Memories \cup {NoOne},
           NEW verdict \in {"ok", "error"}, NEW reason \in Reasons
    PROVE  LET c == Doing(step, verb, m, verdict, reason)
           IN  /\ c \in Calls /\ c.step = step /\ c.verb = verb /\ c.memory = m
               /\ c.time = (IF verdict = "ok" THEN now ELSE 0) /\ c.time <= now
               /\ c.verdict = verdict /\ c.reason = reason
<1>1. now \in Nat
  BY DEF TypeInv
<1>2. <<>> \in Seq(Memories)
  OBVIOUS
<1> QED BY <1>1, <1>2 DEF Doing, Calls

FreshCall(c) ==
    /\ c \in Calls /\ c.step \in {"work", "audit"} /\ Sound(c) /\ c.reason # "internal"
    /\ c.time <= now /\ (Admits(c) => c.time = now)
    /\ c.step = "work" => c.verb \in {"remember", "forget"} /\ c.memory \in Memories /\ c.verdict = "ok"
    /\ c.step = "audit" => ~ Claims(c)

(* The limiter is not asked, refuses, or lets a replay check through.      *)
Admitted(s, c) ==
    \/ admitted' = admitted /\ ~ Admits(c)
    \/ admitted' = [admitted EXCEPT ![s] = Recent(s)] /\ ~ Admits(c)
    \/ admitted' = [admitted EXCEPT ![s] = Append(Recent(s), now)] /\ ~ Spent(s)

LEMMA PlainFresh ==
    ASSUME TypeInv, NEW verb \in Verbs, NEW verdict \in {"ok", "error"}, NEW reason \in Reasons,
           reason # "mismatch", reason # "internal", verdict = "error" \/ verb = "read"
    PROVE  LET c == Doing("audit", verb, NoOne, verdict, reason)
           IN  FreshCall(c) /\ ~ Admits(c)
<1> DEFINE c == Doing("audit", verb, NoOne, verdict, reason)
<1>1. /\ c \in Calls /\ c.step = "audit" /\ c.verb = verb /\ c.time <= now
      /\ c.verdict = verdict /\ c.reason = reason
  BY DoingIs
<1> HIDE DEF c
<1>2. Sound(c)
  BY <1>1 DEF Sound, SoundIn
<1>3. ~ Claims(c) /\ ~ Admits(c)
  BY <1>1 DEF Claims, Admits
<1> QED BY <1>1, <1>2, <1>3 DEF FreshCall, c

LEMMA WorkFresh ==
    ASSUME TypeInv, NEW verb \in {"remember", "forget"}, NEW m \in Memories
    PROVE  LET c == Doing("work", verb, m, "ok", "ok")
           IN  FreshCall(c) /\ ~ Admits(c)
<1> DEFINE c == Doing("work", verb, m, "ok", "ok")
<1>1. /\ c \in Calls /\ c.step = "work" /\ c.verb = verb /\ c.time <= now /\ c.memory = m
      /\ c.verdict = "ok" /\ c.reason = "ok"
  BY DoingIs DEF Verbs, Reasons
<1> HIDE DEF c
<1>2. Sound(c)
  BY <1>1 DEF Sound, SoundIn
<1>3. ~ Admits(c)
  BY <1>1 DEF Admits
<1> QED BY <1>1, <1>2, <1>3 DEF FreshCall, c

LEMMA RecallFresh ==
    ASSUME TypeInv, ListInv, NEW k \in Nat
    PROVE  LET c == [Doing("audit", "recall", NoOne, "ok", "ok") EXCEPT
                       !.hits = Hits(k, now), !.k = k, !.size = Len(log)]
           IN  FreshCall(c) /\ ~ Admits(c)
<1> DEFINE c == [Doing("audit", "recall", NoOne, "ok", "ok") EXCEPT
                    !.hits = Hits(k, now), !.k = k, !.size = Len(log)]
           hits == Hits(k, now)
           n == Len(log)
<1>1. c = [step |-> "audit", verb |-> "recall", memory |-> NoOne, time |-> now, verdict |-> "ok",
           reason |-> "ok", hits |-> hits, k |-> k, size |-> n, window |-> {}, prev |-> 0, seen |-> 0, tx |-> 0]
  <2> HIDE DEF hits, n
  <2>1. c = [[[Doing("audit", "recall", NoOne, "ok", "ok")
                 EXCEPT !["hits"] = hits] EXCEPT !["k"] = k] EXCEPT !["size"] = n]
    BY Zenon DEF hits, n
  <2> HIDE DEF c
  <2> QED BY <2>1 DEF Doing
<1>2. /\ hits \in Seq(Memories) /\ IsInjective(hits)
      /\ \A i \in DOMAIN log : Present(log[i].e, now) => log[i].e \in ToSet(hits) \/ Len(hits) = k
  BY HitsAre DEF TypeInv
<1> HIDE DEF c, hits
<1>3. Len(log) \in Nat /\ now \in Nat /\ DOMAIN log = 1 .. Len(log)
  BY DEF TypeInv
<1>4. c \in Calls
  BY <1>1, <1>2, <1>3 DEF Calls, Verbs, Reasons
<1>5. ASSUME NEW j \in DOMAIN log, \A l \in DOMAIN log : ~ (log[l].e = log[j].e /\ log[l].op = "retract")
      PROVE  Present(log[j].e, now)
  <2>1. \A i \in DOMAIN log : log[i] \in Data
    BY DEF TypeInv
  <2>2. log[j].op = "assert" /\ log[j].at <= now
    BY <1>5, <2>1 DEF Data, ListInv
  <2>3. \A l \in DOMAIN log : ~ Close(log[j], log[l])
    BY <1>5 DEF Close
  <2> QED BY <2>2, <2>3 DEF Present
<1>6. \A j \in 1 .. Len(log) :
         \/ log[j].e \in ToSet(hits)
         \/ \E l \in 1 .. Len(log) : log[l].e = log[j].e /\ log[l].op = "retract"
         \/ Len(hits) = k
  BY <1>2, <1>3, <1>5
<1>7. Sound(c)
  BY <1>1, <1>2, <1>3, <1>6 DEF Sound, SoundIn
<1>8. ~ Claims(c) /\ ~ Admits(c)
  BY <1>1 DEF Claims, Admits
<1>9. c.step = "audit" /\ c.time <= now /\ c.reason # "internal"
  BY <1>1, <1>3
<1> QED BY <1>4, <1>7, <1>8, <1>9, Zenon DEF FreshCall, c, hits

LEMMA ReplayFresh ==
    ASSUME TypeInv, ListInv, NEW tx \in Nat, NEW w \in Nat
    PROVE  FreshCall([Doing("audit", "replay", NoOne, "ok", Reason(tx, w))
                        EXCEPT !.window = Window(tx, w, Len(entries))])
<1> DEFINE W == Window(tx, w, Len(entries))
           r == Reason(tx, w)
           c == [Doing("audit", "replay", NoOne, "ok", r) EXCEPT !.window = W]
<1>1. c = [step |-> "audit", verb |-> "replay", memory |-> NoOne, time |-> now, verdict |-> "ok",
           reason |-> r, hits |-> <<>>, k |-> 0, size |-> 0, window |-> W, prev |-> 0, seen |-> 0, tx |-> 0]
  BY DEF Doing
<1>2. W \subseteq Nat
  <2>1. Len(entries) \in Nat
    BY DEF TypeInv
  <2> QED BY <2>1 DEF Window
<1>3. r \in Reasons /\ r # "internal"
  BY DEF Reason, Reasons
<1>4. r = "mismatch" => \E j \in W : j \in DOMAIN entries /\ (entries[j].kind # "mcp" \/ entries[j].seen # j - 1)
  BY MismatchSound
<1> HIDE DEF c, W, r
<1>5. now \in Nat /\ <<>> \in Seq(Memories)
  BY DEF TypeInv
<1>6. c \in Calls
  BY <1>1, <1>2, <1>3, <1>5 DEF Calls, Verbs
<1>7. Sound(c)
  BY <1>1, <1>4 DEF Sound, SoundIn
<1>8. ~ Claims(c)
  BY <1>1 DEF Claims
<1> QED BY <1>1, <1>3, <1>5, <1>6, <1>7, <1>8 DEF FreshCall, c, W, r

Began(s) == \E c \in Calls : FreshCall(c) /\ Admitted(s, c) /\ call' = [call EXCEPT ![s] = c]

LEMMA BeginGives ==
    ASSUME TypeInv, ListInv, NEW s \in Sessions, Begin(s)
    PROVE  /\ call[s] = Idle /\ Room /\ Began(s)
           /\ UNCHANGED <<now, log, entries, ready, subscribed, told, heard, answers, bounced>>
<1>1. UNCHANGED <<now, log, entries, ready, subscribed, told, heard, bounced>>
  BY DEF Begin
<1>2. ASSUME NEW verb \in Verbs, Denied(s, verb)
      PROVE  call[s] = Idle /\ Room /\ Began(s) /\ UNCHANGED answers
  <2> DEFINE c == Doing("audit", verb, NoOne, "error", "denied")
  <2>1. FreshCall(c) /\ ~ Admits(c)
    BY PlainFresh DEF Reasons
  <2>2. call' = [call EXCEPT ![s] = c] /\ admitted' = admitted
    BY <1>2 DEF Denied, Turn
  <2> HIDE DEF c
  <2>3. Began(s)
    BY <2>1, <2>2 DEF Began, Admitted, FreshCall
  <2> QED BY <1>2, <2>3 DEF Denied, Free
<1>3. ASSUME NEW m \in Memories, Remember(s, m)
      PROVE  call[s] = Idle /\ Room /\ Began(s) /\ UNCHANGED answers
  <2> DEFINE c == Doing("work", "remember", m, "ok", "ok")
  <2>1. FreshCall(c) /\ ~ Admits(c)
    BY WorkFresh
  <2>2. call' = [call EXCEPT ![s] = c] /\ admitted' = admitted
    BY <1>3 DEF Remember, Turn
  <2> HIDE DEF c
  <2>3. Began(s)
    BY <2>1, <2>2 DEF Began, Admitted, FreshCall
  <2> QED BY <1>3, <2>3 DEF Remember, Permitted, Free
<1>4. ASSUME NEW m \in Memories, Forget(s, m)
      PROVE  call[s] = Idle /\ Room /\ Began(s) /\ UNCHANGED answers
  <2> DEFINE c == Doing("work", "forget", m, "ok", "ok")
             d == Doing("audit", "forget", m, "error", "not_found")
  <2>1. FreshCall(c) /\ ~ Admits(c)
    BY WorkFresh
  <2>2. FreshCall(d) /\ ~ Admits(d)
    <3>1. /\ d \in Calls /\ d.step = "audit" /\ d.verb = "forget" /\ d.time <= now
          /\ d.verdict = "error" /\ d.reason = "not_found"
      BY DoingIs DEF Verbs, Reasons
    <3> HIDE DEF d
    <3>2. Sound(d) /\ ~ Claims(d) /\ ~ Admits(d)
      BY <3>1 DEF Sound, SoundIn, Claims, Admits
    <3> QED BY <3>1, <3>2 DEF FreshCall
  <2>3. call' = [call EXCEPT ![s] = c] \/ call' = [call EXCEPT ![s] = d]
    BY <1>4 DEF Forget, Turn
  <2>4. admitted' = admitted
    BY <1>4 DEF Forget
  <2> HIDE DEF c, d
  <2>5. Began(s)
    BY <2>1, <2>2, <2>3, <2>4 DEF Began, Admitted, FreshCall
  <2> QED BY <1>4, <2>5 DEF Forget, Permitted, Free
<1>5. ASSUME NEW k \in 1 .. MaxK, Recall(s, k)
      PROVE  call[s] = Idle /\ Room /\ Began(s) /\ UNCHANGED answers
  <2> DEFINE c == [Doing("audit", "recall", NoOne, "ok", "ok") EXCEPT
                      !.hits = Hits(k, now), !.k = k, !.size = Len(log)]
  <2>1. k \in Nat
    BY McpAssumption
  <2>2. FreshCall(c) /\ ~ Admits(c)
    BY <2>1, RecallFresh
  <2>3. call' = [call EXCEPT ![s] = c] /\ admitted' = admitted
    BY <1>5 DEF Recall, Turn
  <2> HIDE DEF c
  <2>4. Began(s)
    BY <2>2, <2>3 DEF Began, Admitted, FreshCall
  <2> QED BY <1>5, <2>4 DEF Recall, Permitted, Free
<1>6. ASSUME NEW x \in Checks, Replay(s, x[1], x[2])
      PROVE  call[s] = Idle /\ Room /\ Began(s) /\ UNCHANGED answers
  <2> DEFINE c == Doing("audit", "replay", NoOne, "error", "window_too_large")
             d == Doing("audit", "replay", NoOne, "error", "aborted")
             e == [Doing("audit", "replay", NoOne, "ok", Reason(x[1], x[2]))
                     EXCEPT !.window = Window(x[1], x[2], Len(entries))]
  <2>1. FreshCall(c) /\ ~ Admits(c) /\ FreshCall(d) /\ ~ Admits(d)
    BY PlainFresh DEF Reasons, Verbs
  <2>2. FreshCall(e)
    <3>1. x[1] \in Nat /\ x[2] \in Nat
      BY McpAssumption
    <3> HIDE DEF e
    <3> QED BY <3>1, ReplayFresh DEF e
  <2>3. \/ call' = [call EXCEPT ![s] = c] /\ admitted' = admitted
        \/ call' = [call EXCEPT ![s] = d] /\ admitted' = [admitted EXCEPT ![s] = Recent(s)]
        \/ call' = [call EXCEPT ![s] = e] /\ ~ Spent(s) /\ admitted' = [admitted EXCEPT ![s] = Append(Recent(s), now)]
    BY <1>6, Zenon DEF Replay, Turn
  <2> HIDE DEF c, d, e
  <2>4. Began(s)
    BY <2>1, <2>2, <2>3 DEF Began, Admitted, FreshCall
  <2> QED BY <1>6, <2>4 DEF Replay, Permitted, Free
<1>7. ASSUME Read(s)
      PROVE  call[s] = Idle /\ Room /\ Began(s) /\ UNCHANGED answers
  <2> DEFINE c == Doing("audit", "read", NoOne, "ok", "ok")
  <2>1. FreshCall(c) /\ ~ Admits(c)
    BY PlainFresh DEF Reasons, Verbs
  <2>2. call' = [call EXCEPT ![s] = c] /\ admitted' = admitted
    BY <1>7 DEF Read, Turn
  <2> HIDE DEF c
  <2>3. Began(s)
    BY <2>1, <2>2 DEF Began, Admitted, FreshCall
  <2> QED BY <1>7, <2>3 DEF Read, Permitted, Free
<1> QED BY <1>1, <1>2, <1>3, <1>4, <1>5, <1>6, <1>7, Zenon DEF Begin

-----------------------------------------------------------------------------
(* The steps of a call. *)

Steps == {"work", "audit", "length", "append", "notify"}

(* d is the call c at a later step.                                        *)
Same(c, d) == /\ d.verb = c.verb /\ d.memory = c.memory /\ d.time = c.time /\ d.hits = c.hits /\ d.k = c.k
              /\ d.size = c.size /\ d.window = c.window

LEMMA CallIs ==
    ASSUME TypeInv, NEW s \in Sessions
    PROVE  /\ call[s] = Idle \/ call[s] \in Calls
           /\ call[s] # Idle <=> call[s].step \in Steps
           /\ call[s] = Idle <=> call[s].step = "idle"
           /\ call[s].step \in Steps => call[s] \in Calls
<1>1. call[s] = Idle \/ call[s] \in Calls
  BY DEF TypeInv
<1>2. Idle.step = "idle" /\ \A c \in Calls : c.step \in Steps
  BY DEF Idle, Calls, Steps
<1>3. "idle" \notin Steps
  BY DEF Steps
<1> QED BY <1>1, <1>2, <1>3

LEMMA StepTo ==
    ASSUME NEW c \in Calls, NEW step \in Steps
    PROVE  LET d == [c EXCEPT !.step = step]
           IN  /\ d \in Calls /\ d.step = step /\ Same(c, d)
               /\ d.verdict = c.verdict /\ d.reason = c.reason
<1> DEFINE d == [c EXCEPT !["step"] = step]
<1>1. [c EXCEPT !.step = step] = d
  BY Zenon
<1>2. d \in Calls
  BY SMT DEF Calls, Steps
<1>3. /\ d.step = step /\ d.verdict = c.verdict /\ d.reason = c.reason
      /\ d.verb = c.verb /\ d.memory = c.memory /\ d.time = c.time /\ d.hits = c.hits /\ d.k = c.k
      /\ d.size = c.size /\ d.window = c.window
  BY SMT DEF Calls
<1> HIDE DEF d
<1> QED BY <1>1, <1>2, <1>3, Zenon DEF Same

LEMMA FailTo ==
    ASSUME NEW c \in Calls
    PROVE  LET d == [c EXCEPT !.step = "audit", !.verdict = "error", !.reason = "internal"]
           IN  /\ d \in Calls /\ d.step = "audit" /\ Same(c, d)
               /\ d.verdict = "error" /\ d.reason = "internal"
<1> DEFINE d == [[[c EXCEPT !["step"] = "audit"] EXCEPT !["verdict"] = "error"] EXCEPT !["reason"] = "internal"]
<1>1. [c EXCEPT !.step = "audit", !.verdict = "error", !.reason = "internal"] = d
  BY Zenon
<1>2. d \in Calls
  BY SMT DEF Calls, Reasons
<1>3. /\ d.step = "audit" /\ d.verdict = "error" /\ d.reason = "internal"
      /\ d.verb = c.verb /\ d.memory = c.memory /\ d.time = c.time /\ d.hits = c.hits /\ d.k = c.k
      /\ d.size = c.size /\ d.window = c.window
  BY SMT DEF Calls
<1> HIDE DEF d
<1> QED BY <1>1, <1>2, <1>3, Zenon DEF Same

(* What a step does, and to whom. *)

Quiet ==
    /\ now' \in Nat /\ now <= now' /\ now' <= MaxTime
    /\ ready' \in [Sessions -> BOOLEAN] /\ subscribed' \in [Sessions -> BOOLEAN]
    /\ bounced' \in Nat /\ bounced' + Len(entries) + Cardinality(Pending) <= MaxEntries
    /\ UNCHANGED <<log, entries, told, heard, admitted, call, answers>>

Foreign(e) ==
    /\ e \in Entries /\ e.kind # "mcp" /\ ~ Claims(e) /\ e.prev = 0 /\ e.tx = Len(entries) /\ e.seen = Len(entries)
    /\ Room /\ entries' = Append(entries, e)
    /\ UNCHANGED <<now, log, ready, subscribed, told, heard, admitted, call, answers, bounced>>

Begun(s, c) ==
    /\ call[s] = Idle /\ Room /\ FreshCall(c) /\ Admitted(s, c) /\ call' = [call EXCEPT ![s] = c]
    /\ UNCHANGED <<now, log, entries, ready, subscribed, told, heard, answers, bounced>>

Stored(f) == f \in Data /\ f.from <= f.at /\ f.at = now /\ log' = Append(log, f)

Committed(s, c, f) ==
    /\ call[s].step = "work" /\ c \in Calls /\ c.step = "audit" /\ Same(call[s], c)
    /\ c.verdict = call[s].verdict /\ c.reason = call[s].reason
    /\ Stored(f) /\ call' = [call EXCEPT ![s] = c]
    /\ UNCHANGED <<now, entries, ready, subscribed, told, heard, admitted, answers, bounced>>

Failed(s, c) ==
    /\ call[s].step = "work" /\ c \in Calls /\ c.step = "audit" /\ Same(call[s], c)
    /\ c.verdict = "error" /\ c.reason = "internal" /\ call' = [call EXCEPT ![s] = c]
    /\ UNCHANGED log \/ \E f : Stored(f)
    /\ UNCHANGED <<now, entries, ready, subscribed, told, heard, admitted, answers, bounced>>

(* The tail is read, or the length.                                        *)
Tailed(s, c) ==
    /\ c \in Calls /\ Same(call[s], c)
    /\ \/ /\ call[s].step = "audit" /\ c.step = "length"
          /\ c.seen = Len(entries) /\ c.prev = TailId(c.seen)
       \/ /\ call[s].step = "length" /\ c.step = "append"
          /\ c.seen = call[s].seen /\ c.prev = call[s].prev /\ c.tx = Len(entries)
    /\ c.verdict = call[s].verdict /\ c.reason = call[s].reason /\ call' = [call EXCEPT ![s] = c]
    /\ UNCHANGED <<now, log, entries, ready, subscribed, told, heard, admitted, answers, bounced>>

Appended(s, c, e) ==
    /\ call[s].step = "append" /\ c \in Calls /\ c.step = "notify" /\ Same(call[s], c)
    /\ c.verdict = call[s].verdict /\ c.reason = call[s].reason
    /\ e = Entry("mcp", s, c.verb, c.verdict, call[s].prev, call[s].tx, call[s].seen) /\ e \in Entries
    /\ entries' = Append(entries, e) /\ call' = [call EXCEPT ![s] = c]
    /\ UNCHANGED <<now, log, ready, subscribed, told, heard, admitted, answers, bounced>>

LEMMA CommitGives ==
    ASSUME TypeInv, AnswerInv, NEW s \in Sessions, Commit(s)
    PROVE  \E c, f : Committed(s, c, f)
<1> DEFINE c == [call[s] EXCEPT !.step = "audit"]
           f == Fact(call[s])
<1>1. call[s] \in Calls /\ call[s].step = "work"
  BY CallIs DEF Commit, Steps
<1>2. c \in Calls /\ c.step = "audit" /\ Same(call[s], c) /\ c.verdict = call[s].verdict /\ c.reason = call[s].reason
  BY <1>1, StepTo DEF Steps
<1>3. call[s].memory \in Memories /\ call[s].time <= now /\ call[s].time \in Nat /\ now \in Nat
  BY <1>1, CallIs DEF TypeInv, AnswerInv, CallInv, Calls, Steps
<1>4. f \in Data /\ f.from <= f.at /\ f.at = now
  BY <1>3 DEF Fact, Data
<1>5. log' = Append(log, f) /\ call' = [call EXCEPT ![s] = c]
  BY DEF Commit, Turn
<1> HIDE DEF c, f
<1> QED BY <1>1, <1>2, <1>4, <1>5, Zenon DEF Committed, Commit, Stored

LEMMA CommitFailsGives ==
    ASSUME TypeInv, AnswerInv, NEW s \in Sessions, CommitFails(s)
    PROVE  \E c : Failed(s, c)
<1> DEFINE c == [call[s] EXCEPT !.step = "audit", !.verdict = "error", !.reason = "internal"]
           f == Fact(call[s])
<1>1. call[s] \in Calls /\ call[s].step = "work"
  BY CallIs DEF CommitFails, Steps
<1>2. c \in Calls /\ c.step = "audit" /\ Same(call[s], c) /\ c.verdict = "error" /\ c.reason = "internal"
  BY <1>1, FailTo
<1>3. call' = [call EXCEPT ![s] = c]
  BY DEF CommitFails, Turn
<1>4. call[s].memory \in Memories /\ call[s].time <= now /\ call[s].time \in Nat /\ now \in Nat
  BY <1>1, CallIs DEF TypeInv, AnswerInv, CallInv, Calls, Steps
<1>5. f \in Data /\ f.from <= f.at /\ f.at = now
  BY <1>4 DEF Fact, Data
<1>6. log' = log \/ log' = Append(log, f)
  BY DEF CommitFails
<1> HIDE DEF c, f
<1>7. UNCHANGED log \/ \E x : Stored(x)
  BY <1>5, <1>6, Zenon DEF Stored
<1> QED BY <1>1, <1>2, <1>3, <1>7, Zenon DEF Failed, CommitFails

LEMMA ReadTailGives ==
    ASSUME TypeInv, NEW s \in Sessions, ReadTail(s)
    PROVE  \E c : Tailed(s, c)
<1> DEFINE n == Len(entries)
           c == [call[s] EXCEPT !.step = "length", !.prev = LastId, !.seen = n]
<1>1. call[s] \in Calls /\ call[s].step = "audit"
  BY CallIs DEF ReadTail, Steps
<1>2. n \in Nat /\ (n = 0 <=> entries = <<>>)
  BY DEF TypeInv
<1>3. LastId = TailId(n)
  BY <1>2 DEF LastId, TailId, Last
<1>4. LastId \in Nat
  BY <1>2, <1>3, TailIs
<1>5. call' = [call EXCEPT ![s] = c]
  BY DEF ReadTail, Turn
<1> HIDE DEF n
<1>6. /\ c \in Calls /\ c.step = "length" /\ Same(call[s], c) /\ c.prev = LastId /\ c.seen = n
      /\ c.verdict = call[s].verdict /\ c.reason = call[s].reason
  <2> DEFINE b == call[s]
             l == LastId
  <2>1. c = [[[b EXCEPT !["step"] = "length"] EXCEPT !["prev"] = l] EXCEPT !["seen"] = n]
    BY Zenon
  <2>2. n \in Nat /\ b \in Calls /\ l \in Nat
    BY <1>1, <1>2, <1>4
  <2> HIDE DEF c, b, l
  <2>3. c \in Calls
    BY <2>1, <2>2, SMTT(30) DEF Calls
  <2>4. /\ c.step = "length" /\ c.verdict = b.verdict /\ c.reason = b.reason /\ c.prev = l /\ c.seen = n
        /\ c.verb = b.verb /\ c.memory = b.memory /\ c.time = b.time /\ c.hits = b.hits /\ c.k = b.k
        /\ c.size = b.size /\ c.window = b.window
    BY <2>1, <2>2, SMT DEF Calls
  <2> QED BY <2>3, <2>4, Zenon DEF b, l, Same
<1> HIDE DEF c
<1> QED BY <1>1, <1>3, <1>5, <1>6, Zenon DEF Tailed, ReadTail, n

LEMMA ReadLengthGives ==
    ASSUME TypeInv, NEW s \in Sessions, ReadLength(s)
    PROVE  \E c : Tailed(s, c)
<1> DEFINE n == Len(entries)
           c == [call[s] EXCEPT !.step = "append", !.tx = n]
<1>1. call[s] \in Calls /\ call[s].step = "length"
  BY CallIs DEF ReadLength, Steps
<1>2. n \in Nat
  BY DEF TypeInv
<1>3. call' = [call EXCEPT ![s] = c]
  BY DEF ReadLength, Turn
<1> HIDE DEF n
<1>4. /\ c \in Calls /\ c.step = "append" /\ Same(call[s], c) /\ c.tx = n
      /\ c.prev = call[s].prev /\ c.seen = call[s].seen
      /\ c.verdict = call[s].verdict /\ c.reason = call[s].reason
  <2> DEFINE b == call[s]
  <2>1. c = [[b EXCEPT !["step"] = "append"] EXCEPT !["tx"] = n]
    BY Zenon
  <2>2. n \in Nat /\ b \in Calls
    BY <1>1, <1>2
  <2> HIDE DEF c, b
  <2>3. c \in Calls
    BY <2>1, <2>2, SMTT(30) DEF Calls
  <2>4. /\ c.step = "append" /\ c.verdict = b.verdict /\ c.reason = b.reason /\ c.tx = n
        /\ c.prev = b.prev /\ c.seen = b.seen
        /\ c.verb = b.verb /\ c.memory = b.memory /\ c.time = b.time /\ c.hits = b.hits /\ c.k = b.k
        /\ c.size = b.size /\ c.window = b.window
    BY <2>1, <2>2, SMT DEF Calls
  <2> QED BY <2>3, <2>4, Zenon DEF b, Same
<1> HIDE DEF c
<1> QED BY <1>1, <1>3, <1>4, Zenon DEF Tailed, ReadLength, n

LEMMA AppendGives ==
    ASSUME TypeInv, NEW s \in Sessions, AppendEntry(s)
    PROVE  \E c, e : Appended(s, c, e)
<1> DEFINE c == [call[s] EXCEPT !.step = "notify"]
           e == Entry("mcp", s, call[s].verb, call[s].verdict, call[s].prev, call[s].tx, call[s].seen)
<1>1. call[s] \in Calls /\ call[s].step = "append"
  BY CallIs DEF AppendEntry, Steps
<1>2. c \in Calls /\ c.step = "notify" /\ Same(call[s], c) /\ c.verdict = call[s].verdict /\ c.reason = call[s].reason
  BY <1>1, StepTo DEF Steps
<1>3. e \in Entries
  BY <1>1 DEF Entry, Entries, Calls
<1>4. entries' = Append(entries, e) /\ call' = [call EXCEPT ![s] = c]
  BY DEF AppendEntry, Turn
<1> HIDE DEF c, e
<1>5. e = Entry("mcp", s, c.verb, c.verdict, call[s].prev, call[s].tx, call[s].seen)
  BY <1>2, Zenon DEF e, Same
<1> QED BY <1>1, <1>2, <1>3, <1>4, <1>5, Zenon DEF Appended, AppendEntry

LEMMA ForeignGives ==
    ASSUME TypeInv, Effect \/ Escape
    PROVE  \E e : Foreign(e)
<1>1. Len(entries) \in Nat
  BY DEF TypeInv
<1>2. CASE Effect
  <2>1. /\ EffectEntry \in Entries /\ EffectEntry.kind # "mcp" /\ ~ Claims(EffectEntry)
        /\ EffectEntry.prev = 0 /\ EffectEntry.tx = Len(entries) /\ EffectEntry.seen = Len(entries)
    BY <1>1 DEF EffectEntry, Entry, Entries, Claims
  <2> QED BY <1>2, <2>1, Zenon DEF Effect, Busy, Foreign
<1>3. CASE Escape
  <2>1. /\ EscapeEntry \in Entries /\ EscapeEntry.kind # "mcp" /\ ~ Claims(EscapeEntry)
        /\ EscapeEntry.prev = 0 /\ EscapeEntry.tx = Len(entries) /\ EscapeEntry.seen = Len(entries)
    BY <1>1 DEF EscapeEntry, Entry, Entries, Claims
  <2> QED BY <1>3, <2>1, Zenon DEF Escape, Busy, Foreign
<1> QED BY <1>2, <1>3

LEMMA PendingIs ==
    ASSUME TypeInv
    PROVE  /\ IsFiniteSet(Pending) /\ Cardinality(Pending) \in Nat /\ Len(entries) \in Nat /\ MaxEntries \in Nat
           /\ bounced \in Nat
           /\ Room => bounced + Len(entries) + Cardinality(Pending) < MaxEntries
<1>1. Pending \subseteq Sessions
  BY DEF Pending
<1>2. IsFiniteSet(Pending) /\ Cardinality(Pending) \in Nat
  BY <1>1, SessionsFinite
<1> QED BY <1>2, McpAssumption DEF TypeInv, Room, Pending

LEMMA QuietGives ==
    ASSUME TypeInv, ListInv,
           \/ UNCHANGED vars \/ Tick
           \/ \E s \in Sessions : Initialized(s) \/ Subscribe(s) \/ Unsubscribe(s) \/ Bounce(s)
    PROVE  Quiet
<1>1. CASE UNCHANGED vars \/ Tick
  <2>1. MaxTime \in Nat /\ now \in Nat
    BY McpAssumption DEF TypeInv
  <2>2. now' \in Nat /\ now <= now' /\ now' <= MaxTime
    BY <1>1, <2>1 DEF Tick, vars, TypeInv
  <2>3. ready' \in [Sessions -> BOOLEAN] /\ subscribed' \in [Sessions -> BOOLEAN]
    BY <1>1 DEF Tick, vars, TypeInv
  <2>4. UNCHANGED <<log, entries, told, heard, admitted, call, answers>>
    BY <1>1 DEF Tick, vars
  <2>5. bounced' \in Nat /\ bounced' + Len(entries) + Cardinality(Pending) <= MaxEntries
    BY <1>1 DEF Tick, vars, TypeInv, ListInv
  <2> QED BY <2>2, <2>3, <2>4, <2>5, Zenon DEF Quiet
<1>2. ASSUME NEW s \in Sessions, Initialized(s) \/ Subscribe(s) \/ Unsubscribe(s) \/ Bounce(s) PROVE Quiet
  <2>1. now' = now /\ UNCHANGED <<log, entries, told, heard, admitted, call, answers>>
    BY <1>2 DEF Initialized, Subscribe, Unsubscribe, Bounce
  <2>2. ready' \in [Sessions -> BOOLEAN] /\ subscribed' \in [Sessions -> BOOLEAN]
    BY <1>2 DEF Initialized, Subscribe, Unsubscribe, Bounce, TypeInv
  <2>3. now \in Nat /\ now <= now /\ now <= MaxTime
    BY DEF TypeInv
  <2>4. bounced' = bounced \/ (bounced' = bounced + 1 /\ Room)
    BY <1>2 DEF Initialized, Subscribe, Unsubscribe, Bounce
  <2>5. bounced' \in Nat /\ bounced' + Len(entries) + Cardinality(Pending) <= MaxEntries
    BY <2>4, PendingIs DEF ListInv
  <2> QED BY <2>1, <2>2, <2>3, <2>5 DEF Quiet
<1> QED BY <1>1, <1>2

LEMMA StepIs ==
    ASSUME TypeInv, ListInv, AnswerInv, [Next]_vars
    PROVE  \/ Quiet
           \/ \E e : Foreign(e)
           \/ \E s \in Sessions :
                \/ \E c : Begun(s, c) \/ Failed(s, c) \/ Tailed(s, c)
                \/ \E c, x : Committed(s, c, x) \/ Appended(s, c, x)
                \/ Answer(s)
<1>1. CASE UNCHANGED vars \/ Tick
  BY <1>1, QuietGives
<1>2. CASE Effect \/ Escape
  BY <1>2, ForeignGives
<1>3. ASSUME NEW s \in Sessions, Initialized(s) \/ Subscribe(s) \/ Unsubscribe(s) \/ Bounce(s) PROVE Quiet
  BY <1>3, QuietGives
<1>4. ASSUME NEW s \in Sessions, Begin(s) PROVE \E c : Begun(s, c)
  <2>1. /\ call[s] = Idle /\ Room /\ Began(s)
        /\ UNCHANGED <<now, log, entries, ready, subscribed, told, heard, answers, bounced>>
    BY <1>4, BeginGives
  <2> QED BY <2>1, Zenon DEF Began, Begun
<1>5. ASSUME NEW s \in Sessions, Commit(s) PROVE \E c, x : Committed(s, c, x)
  BY <1>5, CommitGives
<1>6. ASSUME NEW s \in Sessions, CommitFails(s) PROVE \E c : Failed(s, c)
  BY <1>6, CommitFailsGives
<1>7. ASSUME NEW s \in Sessions, ReadTail(s) \/ ReadLength(s) PROVE \E c : Tailed(s, c)
  BY <1>7, ReadTailGives, ReadLengthGives
<1>8. ASSUME NEW s \in Sessions, AppendEntry(s) PROVE \E c, x : Appended(s, c, x)
  BY <1>8, AppendGives
<1> QED BY <1>1, <1>2, <1>3, <1>4, <1>5, <1>6, <1>7, <1>8, Zenon DEF Next

-----------------------------------------------------------------------------
(* Types. *)

LEMMA TurnIs ==
    ASSUME TypeInv, NEW s \in Sessions, NEW c, c \in Calls \cup {Idle}, call' = [call EXCEPT ![s] = c]
    PROVE  /\ call' \in [Sessions -> Calls \cup {Idle}] /\ call'[s] = c
           /\ \A o \in Sessions : o # s => call'[o] = call[o]
BY DEF TypeInv

LEMMA ReportIs ==
    ASSUME NEW c \in Calls
    PROVE  /\ Report(c) \in Reports
           /\ Report(c).verb = c.verb /\ Report(c).verdict = c.verdict /\ Report(c).reason = c.reason
           /\ Report(c).hits = c.hits /\ Report(c).k = c.k /\ Report(c).window = c.window
           /\ c.verb = "recall" => Report(c).size = c.size
           /\ c.verb \in {"recall", "replay"} => Report(c).time = c.time
BY DEF Report, Reports, Calls

LEMMA TypeKept ==
    ASSUME Inv, [Next]_vars
    PROVE  TypeInv'
<1> USE DEF Inv
<1>1. CASE Quiet
  BY <1>1 DEF Quiet, TypeInv
<1>2. ASSUME NEW e, Foreign(e) PROVE TypeInv'
  <2>1. entries' \in Seq(Entries)
    BY <1>2, AppendIs DEF Foreign, TypeInv
  <2> QED BY <1>2, <2>1 DEF Foreign, TypeInv
<1>3. ASSUME NEW s \in Sessions, NEW c, Begun(s, c) PROVE TypeInv'
  <2>1. call' \in [Sessions -> Calls \cup {Idle}]
    BY <1>3, TurnIs DEF Begun, FreshCall
  <2>2. admitted' \in [Sessions -> Seq(Nat)]
    <3>1. admitted \in [Sessions -> Seq(Nat)] /\ Recent(s) \in Seq(Nat)
      BY RecentIs DEF TypeInv
    <3>2. Append(Recent(s), now) \in Seq(Nat)
      BY <3>1, AppendIs DEF TypeInv
    <3> QED BY <1>3, <3>1, <3>2 DEF Begun, Admitted
  <2> QED BY <1>3, <2>1, <2>2 DEF Begun, TypeInv
<1>4. ASSUME NEW s \in Sessions, NEW c, Failed(s, c) \/ Tailed(s, c) PROVE TypeInv'
  <2>1. call' \in [Sessions -> Calls \cup {Idle}]
    BY <1>4, TurnIs DEF Failed, Tailed
  <2>2. log' \in Seq(Data)
    <3>1. log \in Seq(Data)
      BY DEF TypeInv
    <3>2. UNCHANGED log \/ \E f : Stored(f)
      BY <1>4 DEF Failed, Tailed
    <3>3. ASSUME NEW f, Stored(f) PROVE log' \in Seq(Data)
      BY <3>1, <3>3, AppendIs DEF Stored
    <3> QED BY <3>1, <3>2, <3>3
  <2>3. UNCHANGED <<now, entries, ready, subscribed, told, heard, admitted, answers, bounced>>
    BY <1>4 DEF Failed, Tailed
  <2> QED BY <2>1, <2>2, <2>3 DEF TypeInv
<1>5. ASSUME NEW s \in Sessions, NEW c, NEW f, Committed(s, c, f) PROVE TypeInv'
  <2>1. call' \in [Sessions -> Calls \cup {Idle}]
    BY <1>5, TurnIs DEF Committed
  <2>2. log' \in Seq(Data)
    BY <1>5, AppendIs DEF Committed, Stored, TypeInv
  <2> QED BY <1>5, <2>1, <2>2 DEF Committed, TypeInv
<1>6. ASSUME NEW s \in Sessions, NEW c, NEW e, Appended(s, c, e) PROVE TypeInv'
  <2>1. call' \in [Sessions -> Calls \cup {Idle}]
    BY <1>6, TurnIs DEF Appended
  <2>2. entries' \in Seq(Entries)
    BY <1>6, AppendIs DEF Appended, TypeInv
  <2> QED BY <1>6, <2>1, <2>2 DEF Appended, TypeInv
<1>7. ASSUME NEW s \in Sessions, Answer(s) PROVE TypeInv'
  <2>1. call' \in [Sessions -> Calls \cup {Idle}]
    BY <1>7, TurnIs DEF Answer, Turn
  <2>2. Report(call[s]) \in Reports
    BY <1>7, CallIs, ReportIs DEF Answer, Steps
  <2>3. answers' \in [Sessions -> Seq(Reports)]
    <3>1. answers \in [Sessions -> Seq(Reports)] /\ answers' = [answers EXCEPT ![s] = Append(answers[s], Report(call[s]))]
      BY <1>7 DEF Answer, TypeInv
    <3>2. Append(answers[s], Report(call[s])) \in Seq(Reports)
      BY <2>2, <3>1, AppendIs
    <3> QED BY <3>1, <3>2
  <2>4. told' \in [Sessions -> Nat] /\ heard' \in [Sessions -> Nat]
    <3>1. Len(entries) \in Nat /\ told \in [Sessions -> Nat] /\ heard \in [Sessions -> Nat]
      BY DEF TypeInv
    <3> QED BY <1>7, <3>1 DEF Answer
  <2>5. UNCHANGED <<now, log, entries, ready, subscribed, admitted, bounced>>
    BY <1>7 DEF Answer
  <2> QED BY <2>1, <2>3, <2>4, <2>5 DEF TypeInv
<1> QED BY <1>1, <1>2, <1>3, <1>4, <1>5, <1>6, <1>7, StepIs, Zenon

-----------------------------------------------------------------------------
(* The list and the store. *)

LEMMA GrownIs ==
    ASSUME TypeInv, NEW e \in Entries, entries' = Append(entries, e)
    PROVE  /\ Len(entries') = Len(entries) + 1 /\ Len(entries) \in Nat
           /\ DOMAIN entries' = DOMAIN entries \cup {Len(entries) + 1} /\ Len(entries) + 1 \notin DOMAIN entries
           /\ \A i \in DOMAIN entries : entries'[i] = entries[i] /\ i \in Nat /\ i <= Len(entries)
           /\ entries'[Len(entries) + 1] = e
           /\ \A n \in Nat : n <= Len(entries) => TailId(n)' = TailId(n)
<1>1. entries \in Seq(Entries)
  BY DEF TypeInv
<1>2. /\ Len(entries') = Len(entries) + 1 /\ Len(entries) \in Nat
      /\ DOMAIN entries' = DOMAIN entries \cup {Len(entries) + 1} /\ Len(entries) + 1 \notin DOMAIN entries
      /\ \A i \in DOMAIN entries : entries'[i] = entries[i] /\ i \in Nat /\ i <= Len(entries)
      /\ entries'[Len(entries) + 1] = e
  BY <1>1, AppendIs
<1>3. ASSUME NEW n \in Nat, n <= Len(entries) PROVE TailId(n)' = TailId(n)
  <2>1. n # 0 => n \in DOMAIN entries
    BY <1>1, <1>3
  <2> QED BY <1>2, <2>1 DEF TailId
<1> QED BY <1>2, <1>3

LEMMA FollowKept ==
    ASSUME TypeInv, EntriesFollow, NEW e \in Entries, entries' = Append(entries, e),
           e.seen <= e.tx, e.tx <= Len(entries),
           e.kind = "mcp" => e.prev = TailId(e.seen), e.kind # "mcp" => e.prev = 0
    PROVE  EntriesFollow'
<1>1. PICK n \in Nat : n = Len(entries)
  BY DEF TypeInv
<1>2. PICK k \in Nat : k = n + 1
  OBVIOUS
<1>3. /\ DOMAIN entries' = DOMAIN entries \cup {k}
      /\ \A i \in DOMAIN entries : entries'[i] = entries[i] /\ i \in Nat /\ i <= n
      /\ entries'[k] = e
      /\ \A m \in Nat : m <= n => TailId(m)' = TailId(m)
  BY <1>1, <1>2, GrownIs
<1>4. /\ e.tx \in Nat /\ e.seen \in Nat /\ e.prev \in Nat
      /\ \A i \in DOMAIN entries : entries[i].tx \in Nat /\ entries[i].seen \in Nat
  <2>1. \A i \in DOMAIN entries : entries[i] \in Entries
    BY DEF TypeInv
  <2> QED BY <2>1 DEF Entries
<1>5. \A m \in Nat : m <= n => (IF m # 0 /\ entries'[m].kind = "mcp" THEN m ELSE 0) = TailId(m)
  BY <1>3 DEF TailId
<1>6. \A i : Follows(entries[i])' <=> (entries'[i].kind = "mcp" =>
         entries'[i].prev =
           IF entries'[i].seen # 0 /\ entries'[entries'[i].seen].kind = "mcp" THEN entries'[i].seen ELSE 0)
  BY DEF Follows, TailId
<1>7. ASSUME NEW i \in DOMAIN entries
      PROVE  /\ entries'[i].prev <= entries'[i].seen /\ entries'[i].seen <= entries'[i].tx
             /\ entries'[i].tx < i /\ Follows(entries[i])'
  <2>1. /\ entries[i].prev <= entries[i].seen /\ entries[i].seen <= entries[i].tx
        /\ entries[i].tx < i /\ Follows(entries[i]) /\ entries'[i] = entries[i]
    BY <1>3 DEF EntriesFollow
  <2>2. entries[i].seen \in Nat /\ entries[i].seen <= n
    BY <1>1, <1>3, <1>4, <2>1
  <2> QED BY <1>5, <1>6, <2>1, <2>2 DEF Follows
<1>8. /\ entries'[k].prev <= entries'[k].seen /\ entries'[k].seen <= entries'[k].tx
      /\ entries'[k].tx < k /\ Follows(entries[k])'
  <2>1. e.prev <= e.seen /\ e.seen <= n /\ e.tx <= n
    <3>1. TailId(e.seen) <= e.seen /\ TailId(e.seen) \in Nat
      BY <1>4, TailIs
    <3> QED BY <1>1, <1>4, <3>1
  <2>2. Follows(entries[k])'
    BY <1>3, <1>4, <1>5, <1>6, <2>1
  <2> QED BY <1>2, <1>3, <1>4, <2>1, <2>2
<1> QED BY <1>3, <1>7, <1>8 DEF EntriesFollow

LEMMA ListKept ==
    ASSUME Inv, [Next]_vars
    PROVE  ListInv'
<1> USE DEF Inv
<1>1. CASE Quiet
  <2>1. UNCHANGED <<EntriesFollow, Pending, entries, log, told, heard>>
    BY <1>1 DEF Quiet, EntriesFollow, Follows, TailId, Pending
  <2>2. \A i \in DOMAIN log : log[i].from <= log[i].at /\ log[i].at <= now'
    <3>1. \A i \in DOMAIN log : log[i] \in Data
      BY DEF TypeInv
    <3>2. \A i \in DOMAIN log : log[i].at \in Nat
      BY <3>1 DEF Data
    <3> QED BY <1>1, <3>2 DEF Quiet, ListInv, TypeInv
  <2>3. bounced' + Len(entries') + Cardinality(Pending') <= MaxEntries
    BY <1>1, <2>1 DEF Quiet
  <2> QED BY <2>1, <2>2, <2>3 DEF ListInv
<1>2. ASSUME NEW e, Foreign(e) PROVE ListInv'
  <2>1. UNCHANGED <<log, now, Pending, told, heard, bounced>>
    BY <1>2 DEF Foreign, Pending
  <2>2. Len(entries') = Len(entries) + 1
    BY <1>2, GrownIs DEF Foreign
  <2>3. EntriesFollow'
    <3>1. /\ e \in Entries /\ entries' = Append(entries, e)
          /\ e.seen <= e.tx /\ e.tx <= Len(entries) /\ e.kind # "mcp" /\ e.prev = 0
      BY <1>2, PendingIs DEF Foreign
    <3> QED BY <3>1, FollowKept DEF ListInv
  <2>4. bounced' + Len(entries') + Cardinality(Pending') <= MaxEntries
    BY <1>2, <2>1, <2>2, PendingIs DEF Foreign
  <2>5. \A s \in Sessions : told'[s] <= Len(entries') /\ heard'[s] <= told'[s]
    BY <2>1, <2>2, PendingIs DEF ListInv, TypeInv
  <2> QED BY <2>1, <2>3, <2>4, <2>5 DEF ListInv
<1>3. ASSUME NEW s \in Sessions, NEW c, Begun(s, c) PROVE ListInv'
  <2>1. UNCHANGED <<EntriesFollow, entries, log, now, told, heard, bounced>>
    BY <1>3 DEF Begun, EntriesFollow, Follows, TailId
  <2>2. call'[s] = c /\ (\A o \in Sessions : o # s => call'[o] = call[o]) /\ call[s].step = "idle"
    BY <1>3, TurnIs, CallIs DEF Begun, FreshCall
  <2>3. Pending' = Pending \cup {s} /\ s \notin Pending
    BY <1>3, <2>2 DEF Begun, FreshCall, Pending
  <2>4. Cardinality(Pending') = Cardinality(Pending) + 1
    BY <2>3, PendingIs, CountsOne
  <2>5. bounced' + Len(entries') + Cardinality(Pending') <= MaxEntries
    BY <1>3, <2>1, <2>4, PendingIs DEF Begun
  <2> QED BY <2>1, <2>5 DEF ListInv
<1>4. ASSUME NEW s \in Sessions, NEW c, NEW f, Failed(s, c) \/ Tailed(s, c) \/ Committed(s, c, f) PROVE ListInv'
  <2>1. UNCHANGED <<EntriesFollow, entries, now, told, heard, bounced>>
    BY <1>4 DEF Failed, Tailed, Committed, EntriesFollow, Follows, TailId
  <2>2. /\ call' = [call EXCEPT ![s] = c] /\ c \in Calls
        /\ call[s].step \in {"work", "audit", "length"} /\ c.step \in {"audit", "length", "append"}
    BY <1>4 DEF Failed, Tailed, Committed
  <2>3. call'[s] = c /\ \A o \in Sessions : o # s => call'[o] = call[o]
    BY <2>2, TurnIs
  <2>4. Pending' = Pending
    BY <2>2, <2>3 DEF Pending
  <2>5. \A i \in DOMAIN log' : log'[i].from <= log'[i].at /\ log'[i].at <= now
    <3>1. CASE UNCHANGED log
      BY <3>1 DEF ListInv
    <3>2. ASSUME NEW x, Stored(x) PROVE \A i \in DOMAIN log' : log'[i].from <= log'[i].at /\ log'[i].at <= now
      <4>1. /\ DOMAIN log' = DOMAIN log \cup {Len(log) + 1}
            /\ \A i \in DOMAIN log : log'[i] = log[i]
            /\ log'[Len(log) + 1] = x
        BY <3>2, AppendIs DEF Stored, TypeInv
      <4> QED BY <3>2, <4>1 DEF Stored, ListInv, TypeInv
    <3> QED BY <1>4, <3>1, <3>2 DEF Failed, Tailed, Committed
  <2> QED BY <2>1, <2>4, <2>5 DEF ListInv
<1>5. ASSUME NEW s \in Sessions, NEW c, NEW e, Appended(s, c, e) PROVE ListInv'
  <2>1. UNCHANGED <<log, now, told, heard>>
    BY <1>5 DEF Appended
  <2>2. Len(entries') = Len(entries) + 1
    BY <1>5, GrownIs DEF Appended
  <2>3. EntriesFollow'
    <3>1. call[s] # Idle
      BY <1>5, CallIs DEF Appended, Steps
    <3>2. /\ call[s].seen <= call[s].tx /\ call[s].tx <= Len(entries)
          /\ call[s].prev = TailId(call[s].seen)
      BY <1>5, <3>1 DEF Appended, AnswerInv, CallInv
    <3>3. /\ e \in Entries /\ entries' = Append(entries, e) /\ e.kind = "mcp"
          /\ e.prev = call[s].prev /\ e.tx = call[s].tx /\ e.seen = call[s].seen
      BY <1>5 DEF Appended, Entry
    <3> QED BY <3>2, <3>3, FollowKept DEF ListInv
  <2>4. call'[s] = c /\ \A o \in Sessions : o # s => call'[o] = call[o]
    BY <1>5, TurnIs DEF Appended
  <2>5. Pending' = Pending \ {s} /\ s \in Pending
    BY <1>5, <2>4 DEF Appended, Pending
  <2>6. Cardinality(Pending') = Cardinality(Pending) - 1
    BY <2>5, PendingIs, CountsLess
  <2>7. bounced' + Len(entries') + Cardinality(Pending') <= MaxEntries
    BY <1>5, <2>2, <2>6, PendingIs DEF ListInv, Appended
  <2>8. \A o \in Sessions : told'[o] <= Len(entries') /\ heard'[o] <= told'[o]
    BY <2>1, <2>2, PendingIs DEF ListInv, TypeInv
  <2> QED BY <2>1, <2>3, <2>7, <2>8 DEF ListInv
<1>6. ASSUME NEW s \in Sessions, Answer(s) PROVE ListInv'
  <2>1. UNCHANGED <<EntriesFollow, entries, log, now, bounced>>
    BY <1>6 DEF Answer, EntriesFollow, Follows, TailId
  <2>2. call'[s] = Idle /\ (\A o \in Sessions : o # s => call'[o] = call[o]) /\ call[s].step = "notify"
    BY <1>6, TurnIs DEF Answer, Turn
  <2>3. Pending' = Pending
    BY <2>2 DEF Pending, Idle
  <2>4. \A o \in Sessions : told'[o] <= Len(entries) /\ heard'[o] <= told'[o]
    BY <1>6, PendingIs DEF Answer, ListInv, TypeInv, Grown
  <2> QED BY <2>1, <2>3, <2>4 DEF ListInv
<1> QED BY <1>1, <1>2, <1>3, <1>4, <1>5, <1>6, StepIs, Zenon

-----------------------------------------------------------------------------
(* Answers. *)

Longer(q, r) == /\ Len(q) \in Nat /\ Len(r) \in Nat /\ Len(q) <= Len(r)
                /\ DOMAIN q = 1 .. Len(q) /\ DOMAIN r = 1 .. Len(r) /\ \A i \in DOMAIN q : r[i] = q[i]

LEMMA LongerIs ==
    ASSUME NEW D, NEW q \in Seq(D)
    PROVE  Longer(q, q) /\ \A e \in D : Longer(q, Append(q, e))
<1>1. Longer(q, q)
  BY DEF Longer
<1>2. ASSUME NEW e \in D PROVE Longer(q, Append(q, e))
  <2>1. Append(q, e) \in Seq(D) /\ Len(Append(q, e)) = Len(q) + 1 /\ \A i \in DOMAIN q : Append(q, e)[i] = q[i]
    BY AppendIs
  <2>2. Len(q) \in Nat /\ DOMAIN q = 1 .. Len(q) /\ DOMAIN Append(q, e) = 1 .. Len(Append(q, e))
    BY <2>1
  <2> QED BY <2>1, <2>2 DEF Longer
<1> QED BY <1>1, <1>2

LEMMA StepExtends ==
    ASSUME Inv, [Next]_vars
    PROVE  Longer(log, log') /\ Longer(entries, entries')
<1>1. /\ log \in Seq(Data) /\ entries \in Seq(Entries)
      /\ Longer(log, log) /\ Longer(entries, entries)
      /\ \A f \in Data : Longer(log, Append(log, f))
      /\ \A e \in Entries : Longer(entries, Append(entries, e))
  BY LongerIs DEF Inv, TypeInv
<1>2. \/ UNCHANGED <<log, entries>>
      \/ \E e \in Entries : entries' = Append(entries, e) /\ log' = log
      \/ \E f \in Data : log' = Append(log, f) /\ entries' = entries
  <2>1. Quiet => UNCHANGED <<log, entries>>
    BY DEF Quiet
  <2>2. \A e : Foreign(e) => e \in Entries /\ entries' = Append(entries, e) /\ log' = log
    BY DEF Foreign
  <2>3. \A s, c : Begun(s, c) \/ Tailed(s, c) => UNCHANGED <<log, entries>>
    BY DEF Begun, Tailed
  <2>4. \A s, c, f : Committed(s, c, f) \/ Failed(s, c) =>
           UNCHANGED entries /\ (UNCHANGED log \/ \E x \in Data : log' = Append(log, x))
    BY Zenon DEF Committed, Failed, Stored
  <2>5. \A s, c, e : Appended(s, c, e) => e \in Entries /\ entries' = Append(entries, e) /\ log' = log
    BY DEF Appended
  <2>6. \A s : Answer(s) => UNCHANGED <<log, entries>>
    BY DEF Answer
  <2> QED BY <2>1, <2>2, <2>3, <2>4, <2>5, <2>6, StepIs, Zenon DEF Inv
<1> QED BY <1>1, <1>2

LEMMA SoundKept ==
    ASSUME NEW a, NEW l, NEW m, NEW q, NEW r,
           a.size \in Nat, SoundIn(a, l, q), Longer(l, m), Longer(q, r)
    PROVE  SoundIn(a, m, r)
<1>1. CASE a.verb = "recall" /\ a.verdict = "ok"
  <2>1. \A j \in 1 .. a.size : j \in DOMAIN l /\ m[j] = l[j]
    BY <1>1 DEF SoundIn, Longer
  <2>2. a.size <= Len(m)
    BY <1>1 DEF SoundIn, Longer
  <2>3. /\ IsInjective(a.hits)
        /\ \A j \in 1 .. a.size :
             \/ l[j].e \in ToSet(a.hits)
             \/ \E i \in 1 .. a.size : l[i].e = l[j].e /\ l[i].op = "retract"
             \/ Len(a.hits) = a.k
    BY <1>1, Zenon DEF SoundIn
  <2>4. ASSUME NEW j \in 1 .. a.size
        PROVE  \/ m[j].e \in ToSet(a.hits)
               \/ \E i \in 1 .. a.size : m[i].e = m[j].e /\ m[i].op = "retract"
               \/ Len(a.hits) = a.k
    BY <2>1, <2>3, Zenon
  <2>5. ~ (a.verb = "replay" /\ a.reason = "mismatch")
    BY <1>1
  <2> QED BY <2>2, <2>3, <2>4, <2>5, Zenon DEF SoundIn
<1>2. CASE a.verb = "replay" /\ a.reason = "mismatch"
  <2>1. PICK j \in a.window : j \in DOMAIN q /\ (q[j].kind # "mcp" \/ q[j].seen # j - 1)
    BY <1>2, Zenon DEF SoundIn
  <2>2. j \in DOMAIN r /\ r[j] = q[j]
    BY <2>1 DEF Longer
  <2>3. ~ (a.verb = "recall" /\ a.verdict = "ok")
    BY <1>2
  <2> QED BY <2>1, <2>2, <2>3, Zenon DEF SoundIn
<1> QED BY <1>1, <1>2 DEF SoundIn

LEMMA SoundSame ==
    ASSUME NEW c, NEW d, NEW l, NEW q, SoundIn(c, l, q),
           d.verb = c.verb, d.verdict = c.verdict, d.reason = c.reason, d.hits = c.hits, d.k = c.k,
           d.window = c.window, c.verb = "recall" => d.size = c.size
    PROVE  SoundIn(d, l, q)
BY DEF SoundIn

(* A call that does not move is as sound as before. *)
LEMMA CallRests ==
    ASSUME Inv, [Next]_vars, NEW o \in Sessions, call'[o] = call[o], told'[o] = told[o], CallInv(o)
    PROVE  CallInv(o)'
<1> USE DEF Inv
<1>1. CASE call[o] = Idle
  BY <1>1 DEF CallInv
<1>2. CASE call[o] # Idle
  <2> DEFINE c == call[o]
  <2>1. /\ c.time <= now
        /\ c.step = "work" => /\ c.verb \in {"remember", "forget"} /\ c.memory \in Memories
                              /\ c.verdict = "ok" /\ c.reason # "internal"
        /\ c.step \in {"length", "append"} => c.seen <= Len(entries) /\ c.prev = TailId(c.seen)
        /\ c.step = "append" => c.seen <= c.tx /\ c.tx <= Len(entries)
        /\ c.step = "notify" => told[o] < Len(entries)
        /\ SoundIn(c, log, entries)
    BY <1>2 DEF CallInv, Sound
  <2>2. c \in Calls /\ c.time \in Nat /\ c.tx \in Nat /\ c.seen \in Nat /\ c.size \in Nat /\ told[o] \in Nat /\ now \in Nat
    BY <1>2, CallIs DEF Calls, TypeInv
  <2> HIDE DEF c
  <2>3. Longer(log, log') /\ Longer(entries, entries')
    BY StepExtends
  <2>4. SoundIn(c, log', entries')
    BY <2>1, <2>2, <2>3, SoundKept
  <2>5. now' \in Nat /\ now <= now'
    <3>1. TypeInv'
      BY TypeKept
    <3>2. Quiet => now <= now'
      BY DEF Quiet
    <3>3. (\E e : Foreign(e)) => now' = now
      BY DEF Foreign
    <3>4. \A s, d, x : Begun(s, d) \/ Failed(s, d) \/ Tailed(s, d) \/ Committed(s, d, x) \/ Appended(s, d, x) \/ Answer(s)
                         => now' = now
      BY DEF Begun, Failed, Tailed, Committed, Appended, Answer
    <3>5. now <= now' \/ now' = now
      BY <3>2, <3>3, <3>4, StepIs, Zenon
    <3> QED BY <2>2, <3>1, <3>5 DEF TypeInv
  <2>6. c.time <= now'
    BY <2>1, <2>2, <2>5
  <2>7. Len(entries) \in Nat /\ Len(entries') \in Nat /\ Len(entries) <= Len(entries')
    BY <2>3 DEF Longer
  <2>8. c.step = "notify" => told[o] < Len(entries')
    BY <2>1, <2>2, <2>7
  <2>9. /\ c.step \in {"length", "append"} =>
             c.seen <= Len(entries') /\ c.prev = IF c.seen # 0 /\ entries'[c.seen].kind = "mcp" THEN c.seen ELSE 0
        /\ c.step = "append" => c.seen <= c.tx /\ c.tx <= Len(entries')
    <3>1. ASSUME c.step \in {"length", "append"}
          PROVE  c.seen <= Len(entries') /\ c.prev = IF c.seen # 0 /\ entries'[c.seen].kind = "mcp" THEN c.seen ELSE 0
      <4>1. c.seen # 0 => c.seen \in DOMAIN entries
        BY <2>1, <2>2, <2>3, <3>1 DEF Longer
      <4>2. c.seen # 0 => entries'[c.seen] = entries[c.seen]
        BY <2>3, <4>1 DEF Longer
      <4> QED BY <2>1, <2>2, <2>7, <3>1, <4>2 DEF TailId
    <3>2. c.step = "append" => c.seen <= c.tx /\ c.tx <= Len(entries')
      BY <2>1, <2>2, <2>7
    <3> QED BY <3>1, <3>2
  <2>10. call'[o] = c
    BY DEF c
  <2> QED BY <2>1, <2>4, <2>6, <2>8, <2>9, <2>10 DEF CallInv, Sound, TailId
<1> QED BY <1>1, <1>2

LEMMA AnswersRest ==
    ASSUME Inv, [Next]_vars, NEW s \in Sessions, NEW i \in DOMAIN answers[s]
    PROVE  SoundIn(answers[s][i], log', entries')
<1>1. answers[s][i] \in Reports
  BY DEF Inv, TypeInv
<1>2. answers[s][i].size \in Nat
  BY <1>1 DEF Reports
<1>3. SoundIn(answers[s][i], log, entries)
  BY DEF Inv, AnswerInv, Sound
<1> QED BY <1>2, <1>3, StepExtends, SoundKept

LEMMA AnswerKept ==
    ASSUME Inv, [Next]_vars
    PROVE  AnswerInv'
<1> USE DEF Inv
<1>1. \A o \in Sessions : call'[o] = call[o] /\ told'[o] = told[o] => CallInv(o)'
  BY CallRests DEF AnswerInv
<1>2. UNCHANGED answers => \A o \in Sessions : \A i \in DOMAIN answers'[o] : Sound(answers[o][i])'
  BY AnswersRest DEF Sound
<1>3. CASE Quiet
  BY <1>1, <1>2, <1>3 DEF Quiet, AnswerInv
<1>4. ASSUME NEW e, Foreign(e) PROVE AnswerInv'
  BY <1>1, <1>2, <1>4 DEF Foreign, AnswerInv
<1>5. ASSUME NEW s \in Sessions, NEW c, Begun(s, c) PROVE AnswerInv'
  <2>1. call'[s] = c /\ (\A o \in Sessions : o # s => call'[o] = call[o]) /\ UNCHANGED <<now, log, entries, told, answers>>
    BY <1>5, TurnIs DEF Begun, FreshCall
  <2>2. CallInv(s)'
    <3>1. /\ c.time <= now' /\ SoundIn(c, log', entries') /\ c.step \notin {"length", "append", "notify"}
          /\ c.step = "work" => /\ c.verb \in {"remember", "forget"} /\ c.memory \in Memories
                                /\ c.verdict = "ok" /\ c.reason # "internal"
      BY <1>5, <2>1 DEF Begun, FreshCall, Sound, TypeInv
    <3> QED BY <2>1, <3>1 DEF CallInv, Sound
  <2> QED BY <1>1, <1>2, <2>1, <2>2 DEF AnswerInv
<1>6. ASSUME NEW s \in Sessions, NEW c, Failed(s, c) PROVE AnswerInv'
  <2>1. call'[s] = c /\ (\A o \in Sessions : o # s => call'[o] = call[o]) /\ UNCHANGED <<now, entries, told, answers>>
    BY <1>6, TurnIs DEF Failed
  <2>2. CallInv(s)'
    <3>1. call[s] # Idle /\ CallInv(s)
      BY <1>6, CallIs DEF Failed, Steps, AnswerInv
    <3>2. c.verb \in {"remember", "forget"} /\ c.time <= now' /\ c.step = "audit"
      BY <1>6, <2>1, <3>1 DEF Failed, Same, CallInv
    <3>3. SoundIn(c, log', entries')
      BY <3>2 DEF SoundIn
    <3> QED BY <2>1, <3>2, <3>3 DEF CallInv, Sound
  <2> QED BY <1>1, <1>2, <2>1, <2>2 DEF AnswerInv
<1>7. ASSUME NEW s \in Sessions, NEW c, Tailed(s, c) PROVE AnswerInv'
  <2>1. call'[s] = c /\ (\A o \in Sessions : o # s => call'[o] = call[o]) /\ UNCHANGED <<now, log, entries, told, answers>>
    BY <1>7, TurnIs DEF Tailed
  <2>2. CallInv(s)'
    <3>1. call[s] # Idle /\ CallInv(s)
      BY <1>7, CallIs DEF Tailed, Steps, AnswerInv
    <3>2. SoundIn(c, log, entries)
      <4>1. SoundIn(call[s], log, entries)
        BY <3>1 DEF CallInv, Sound
      <4> QED BY <1>7, <4>1, SoundSame DEF Tailed, Same
    <3>3. Len(entries) \in Nat
      BY DEF TypeInv
    <3>4. c.time <= now' /\ c.step \in {"length", "append"}
      BY <1>7, <2>1, <3>1 DEF Tailed, Same, CallInv
    <3>5. c.seen <= Len(entries) /\ c.prev = TailId(c.seen)
      <4>1. CASE call[s].step = "audit"
        BY <1>7, <3>3, <4>1 DEF Tailed
      <4>2. CASE call[s].step = "length"
        <5>1. call[s].seen <= Len(entries) /\ call[s].prev = TailId(call[s].seen)
          BY <3>1, <4>2 DEF CallInv
        <5> QED BY <1>7, <4>2, <5>1 DEF Tailed
      <4> QED BY <1>7, <4>1, <4>2 DEF Tailed
    <3>6. c.step = "append" => c.seen <= c.tx /\ c.tx <= Len(entries)
      BY <1>7, <3>3, <3>5 DEF Tailed
    <3>7. /\ c.seen <= Len(entries') /\ (c.step = "append" => c.seen <= c.tx /\ c.tx <= Len(entries'))
          /\ c.prev = IF c.seen # 0 /\ entries'[c.seen].kind = "mcp" THEN c.seen ELSE 0
      BY <2>1, <3>5, <3>6 DEF TailId
    <3> QED BY <2>1, <3>2, <3>4, <3>7 DEF CallInv, Sound, TailId
  <2> QED BY <1>1, <1>2, <2>1, <2>2 DEF AnswerInv
<1>8. ASSUME NEW s \in Sessions, NEW c, NEW f, Committed(s, c, f) PROVE AnswerInv'
  <2>1. call'[s] = c /\ (\A o \in Sessions : o # s => call'[o] = call[o]) /\ UNCHANGED <<now, entries, told, answers>>
    BY <1>8, TurnIs DEF Committed
  <2>2. CallInv(s)'
    <3>1. call[s] # Idle /\ CallInv(s)
      BY <1>8, CallIs DEF Committed, Steps, AnswerInv
    <3>2. c.verb \in {"remember", "forget"} /\ c.time <= now' /\ c.step = "audit"
      BY <1>8, <2>1, <3>1 DEF Committed, Same, CallInv
    <3>3. SoundIn(c, log', entries')
      BY <3>2 DEF SoundIn
    <3> QED BY <2>1, <3>2, <3>3 DEF CallInv, Sound
  <2> QED BY <1>1, <1>2, <2>1, <2>2 DEF AnswerInv
<1>9. ASSUME NEW s \in Sessions, NEW c, NEW e, Appended(s, c, e) PROVE AnswerInv'
  <2>1. call'[s] = c /\ (\A o \in Sessions : o # s => call'[o] = call[o]) /\ UNCHANGED <<now, log, told, answers>>
    BY <1>9, TurnIs DEF Appended
  <2>2. CallInv(s)'
    <3>1. call[s] # Idle /\ CallInv(s)
      BY <1>9, CallIs DEF Appended, Steps, AnswerInv
    <3>2. SoundIn(call[s], log', entries')
      <4>1. SoundIn(call[s], log, entries)
        BY <3>1 DEF CallInv, Sound
      <4>2. call[s].size \in Nat
        BY <3>1, CallIs DEF Calls
      <4> QED BY <4>1, <4>2, StepExtends, SoundKept
    <3>3. SoundIn(c, log', entries')
      BY <1>9, <3>2, SoundSame DEF Appended, Same
    <3>4. Len(entries') = Len(entries) + 1 /\ Len(entries) \in Nat
      BY <1>9, GrownIs DEF Appended
    <3>5. told[s] <= Len(entries) /\ told[s] \in Nat
      BY DEF ListInv, TypeInv
    <3>6. c.time <= now' /\ c.step = "notify" /\ told'[s] < Len(entries')
      BY <1>9, <2>1, <3>1, <3>4, <3>5 DEF Appended, Same, CallInv
    <3> QED BY <2>1, <3>3, <3>6 DEF CallInv, Sound
  <2> QED BY <1>1, <1>2, <2>1, <2>2 DEF AnswerInv
<1>10. ASSUME NEW s \in Sessions, Answer(s) PROVE AnswerInv'
  <2>1. call'[s] = Idle /\ \A o \in Sessions : o # s => call'[o] = call[o]
    BY <1>10, TurnIs DEF Answer, Turn
  <2>2. CallInv(s)'
    BY <2>1 DEF CallInv
  <2>3. \A o \in Sessions : o # s => told'[o] = told[o]
    BY <1>10 DEF Answer, TypeInv
  <2>4. call[s] \in Calls /\ call[s] # Idle /\ SoundIn(call[s], log, entries) /\ UNCHANGED <<log, entries>>
    BY <1>10, CallIs DEF Answer, Steps, AnswerInv, CallInv, Sound
  <2>5. SoundIn(Report(call[s]), log', entries')
    BY <2>4, ReportIs, SoundSame
  <2>6. /\ answers' = [answers EXCEPT ![s] = Append(answers[s], Report(call[s]))]
        /\ Report(call[s]) \in Reports /\ answers \in [Sessions -> Seq(Reports)]
    BY <1>10, <2>4, ReportIs DEF Answer, TypeInv
  <2>7. ASSUME NEW o \in Sessions, NEW i \in DOMAIN answers'[o] PROVE SoundIn(answers'[o][i], log', entries')
    <3>1. CASE o # s
      BY <2>6, <2>7, <3>1, AnswersRest
    <3>2. CASE o = s
      <4>1. /\ DOMAIN answers'[s] = DOMAIN answers[s] \cup {Len(answers[s]) + 1}
            /\ \A j \in DOMAIN answers[s] : answers'[s][j] = answers[s][j]
            /\ answers'[s][Len(answers[s]) + 1] = Report(call[s])
        BY <2>6, AppendIs
      <4> QED BY <2>5, <2>7, <3>2, <4>1, AnswersRest
    <3> QED BY <3>1, <3>2
  <2> QED BY <1>1, <2>1, <2>2, <2>3, <2>7 DEF AnswerInv, Sound
<1> QED BY <1>3, <1>4, <1>5, <1>6, <1>7, <1>8, <1>9, <1>10, StepIs, Zenon

-----------------------------------------------------------------------------
(* Facts and claims. *)

LEMMA ClaimCounts ==
    ASSUME TypeInv
    PROVE  /\ IsFiniteSet(Claimed) /\ Cardinality(Claimed) \in Nat
           /\ IsFiniteSet(Owed) /\ Cardinality(Owed) \in Nat /\ Len(log) \in Nat
           /\ IsFiniteSet(Failing) /\ Cardinality(Failing) \in Nat
<1>1. /\ Claimed \subseteq DOMAIN entries /\ Owed \subseteq Sessions /\ Failing \subseteq Sessions
      /\ entries \in Seq(Entries) /\ Len(log) \in Nat
  BY DEF Claimed, Owed, Failing, TypeInv
<1>2. IsFiniteSet(Claimed) /\ Cardinality(Claimed) \in Nat
  BY <1>1, PlacesFinite
<1>3. /\ IsFiniteSet(Owed) /\ Cardinality(Owed) \in Nat
      /\ IsFiniteSet(Failing) /\ Cardinality(Failing) \in Nat
  BY <1>1, SessionsFinite
<1> QED BY <1>1, <1>2, <1>3

LEMMA FailedAre ==
    ASSUME NEW a, NEW F,
           F = {si \in UNION {{s} \X DOMAIN a[s] : s \in Sessions} : a[si[1]][si[2]].reason = "internal"}
    PROVE  \A x : x \in F <=> \E s \in Sessions : \E i \in DOMAIN a[s] : x = <<s, i>> /\ a[s][i].reason = "internal"
<1> DEFINE D == UNION {{s} \X DOMAIN a[s] : s \in Sessions}
<1>1. ASSUME NEW x \in F
      PROVE  \E s \in Sessions : \E i \in DOMAIN a[s] : x = <<s, i>> /\ a[s][i].reason = "internal"
  <2>1. x \in D /\ a[x[1]][x[2]].reason = "internal"
    OBVIOUS
  <2>2. PICK s \in Sessions : x \in {s} \X DOMAIN a[s]
    BY <2>1
  <2>3. x[1] = s /\ x[2] \in DOMAIN a[s] /\ x = <<s, x[2]>>
    BY <2>2
  <2> QED BY <2>1, <2>3, Zenon
<1>2. ASSUME NEW s \in Sessions, NEW i \in DOMAIN a[s], a[s][i].reason = "internal"
      PROVE  <<s, i>> \in F
  <2>1. <<s, i>> \in {s} \X DOMAIN a[s]
    OBVIOUS
  <2>2. <<s, i>> \in D
    BY <2>1, Zenon
  <2>3. <<s, i>>[1] = s /\ <<s, i>>[2] = i
    OBVIOUS
  <2>4. a[<<s, i>>[1]][<<s, i>>[2]].reason = "internal"
    BY <1>2, <2>3, Zenon
  <2> QED BY <2>2, <2>4, Zenon
<1> QED BY <1>1, <1>2, Zenon

LEMMA FailedRest ==
    ASSUME UNCHANGED answers
    PROVE  FailedAnswers' = FailedAnswers
BY DEF FailedAnswers, Dealt

LEMMA ClaimKept ==
    ASSUME Inv, [Next]_vars
    PROVE  ClaimInv'
<1> USE DEF Inv
<1>1. /\ IsFiniteSet(Claimed) /\ Cardinality(Claimed) \in Nat
      /\ IsFiniteSet(Owed) /\ Cardinality(Owed) \in Nat /\ Len(log) \in Nat
      /\ IsFiniteSet(Failing) /\ Cardinality(Failing) \in Nat
      /\ IsFiniteSet(FailedAnswers) /\ Cardinality(FailedAnswers) \in Nat
      /\ Cardinality(Claimed) + Cardinality(Owed) <= Len(log)
      /\ Len(log) <= Cardinality(Claimed) + Cardinality(Owed) + Cardinality(FailedAnswers) + Cardinality(Failing)
  BY ClaimCounts, CountIs DEF ClaimInv
<1>2. UNCHANGED entries => Claimed' = Claimed
  BY DEF Claimed
<1>3. CASE Quiet
  <2>1. UNCHANGED <<log, entries, call, answers>>
    BY <1>3 DEF Quiet
  <2>2. Owed' = Owed /\ Failing' = Failing
    BY <2>1 DEF Owed, Failing
  <2> QED BY <1>2, <2>1, <2>2, FailedRest DEF ClaimInv
<1>4. ASSUME NEW e, Foreign(e) PROVE ClaimInv'
  <2>1. UNCHANGED <<log, call, answers>> /\ ~ Claims(e) /\ e \in Entries /\ entries' = Append(entries, e)
    BY <1>4 DEF Foreign
  <2>2. Owed' = Owed /\ Failing' = Failing
    BY <2>1 DEF Owed, Failing
  <2>3. Claimed' = Claimed
    BY <2>1, GrownIs DEF Claimed
  <2> QED BY <2>1, <2>2, <2>3, FailedRest DEF ClaimInv
<1>5. ASSUME NEW s \in Sessions, NEW c, Begun(s, c) \/ Tailed(s, c) PROVE ClaimInv'
  <2>1. c \in Calls /\ call' = [call EXCEPT ![s] = c] /\ UNCHANGED <<log, entries, answers>>
    BY <1>5 DEF Begun, FreshCall, Tailed
  <2>2. call'[s] = c /\ \A o \in Sessions : o # s => call'[o] = call[o]
    BY <2>1, TurnIs
  <2>3. ((s \in Owed)' <=> s \in Owed) /\ ((s \in Failing)' <=> s \in Failing)
    <3>1. CASE Begun(s, c)
      BY <3>1, <2>2, CallIs DEF Begun, FreshCall, Owed, Failing
    <3>2. CASE Tailed(s, c)
      BY <3>2, <2>2 DEF Tailed, Owed, Failing, Claims, Same
    <3> QED BY <1>5, <3>1, <3>2
  <2>4. Owed' = Owed /\ Failing' = Failing
    BY <2>2, <2>3 DEF Owed, Failing
  <2> QED BY <1>2, <2>1, <2>4, FailedRest DEF ClaimInv
<1>6. ASSUME NEW s \in Sessions, NEW c, Failed(s, c) PROVE ClaimInv'
  <2>1. /\ c \in Calls /\ call' = [call EXCEPT ![s] = c] /\ UNCHANGED <<entries, answers>>
        /\ call[s].step = "work" /\ c.step = "audit" /\ c.verdict = "error" /\ c.reason = "internal"
    BY <1>6 DEF Failed
  <2>2. call'[s] = c /\ \A o \in Sessions : o # s => call'[o] = call[o]
    BY <2>1, TurnIs
  <2>3. Owed' = Owed
    BY <2>1, <2>2 DEF Owed, Claims
  <2>4. Failing' = Failing \cup {s} /\ s \notin Failing
    BY <2>1, <2>2 DEF Failing
  <2>5. Cardinality(Failing') = Cardinality(Failing) + 1
    BY <1>1, <2>4, CountsOne
  <2>6. Len(log') = Len(log) \/ Len(log') = Len(log) + 1
    BY <1>6, AppendIs DEF Failed, Stored, TypeInv
  <2>7. Claimed' = Claimed /\ FailedAnswers' = FailedAnswers
    BY <1>2, <2>1, FailedRest
  <2> QED BY <1>1, <2>3, <2>5, <2>6, <2>7 DEF ClaimInv
<1>7. ASSUME NEW s \in Sessions, NEW c, NEW f, Committed(s, c, f) PROVE ClaimInv'
  <2>1. /\ c \in Calls /\ call' = [call EXCEPT ![s] = c] /\ UNCHANGED <<entries, answers>>
        /\ log' = Append(log, f) /\ f \in Data
    BY <1>7 DEF Committed, Stored
  <2>2. call'[s] = c /\ \A o \in Sessions : o # s => call'[o] = call[o]
    BY <2>1, TurnIs
  <2>3. Claims(c) /\ c.step = "audit" /\ call[s].step = "work" /\ c.reason # "internal"
    <3>1. call[s] # Idle /\ call[s].step = "work"
      BY <1>7, CallIs DEF Committed, Steps
    <3>2. call[s].verb \in {"remember", "forget"} /\ call[s].verdict = "ok" /\ call[s].reason # "internal"
      BY <3>1 DEF AnswerInv, CallInv
    <3> QED BY <1>7, <3>1, <3>2 DEF Committed, Same, Claims
  <2>4. Owed' = Owed \cup {s} /\ s \notin Owed /\ Failing' = Failing
    BY <2>2, <2>3 DEF Owed, Failing
  <2>5. Cardinality(Owed') = Cardinality(Owed) + 1
    BY <1>1, <2>4, CountsOne
  <2>6. Len(log') = Len(log) + 1
    BY <2>1, AppendIs DEF TypeInv
  <2>7. Claimed' = Claimed /\ FailedAnswers' = FailedAnswers
    BY <1>2, <2>1, FailedRest
  <2> QED BY <1>1, <2>4, <2>5, <2>6, <2>7 DEF ClaimInv
<1>8. ASSUME NEW s \in Sessions, NEW c, NEW e, Appended(s, c, e) PROVE ClaimInv'
  <2>1. /\ c \in Calls /\ call' = [call EXCEPT ![s] = c] /\ UNCHANGED <<log, answers>>
        /\ entries' = Append(entries, e) /\ e \in Entries
    BY <1>8 DEF Appended
  <2>2. call'[s] = c /\ \A o \in Sessions : o # s => call'[o] = call[o]
    BY <2>1, TurnIs
  <2>3. /\ c.step = "notify" /\ call[s].step = "append" /\ (Claims(e) <=> Claims(call[s]))
        /\ c.reason = call[s].reason
    BY <1>8 DEF Appended, Entry, Claims, Same
  <2>4. Owed' = Owed \ {s} /\ (s \in Owed <=> Claims(e)) /\ Failing' = Failing
    BY <2>2, <2>3 DEF Owed, Failing
  <2>5. FailedAnswers' = FailedAnswers
    BY <2>1, FailedRest
  <2> DEFINE n == Len(entries) + 1
  <2>6. /\ DOMAIN entries' = DOMAIN entries \cup {n} /\ n \notin DOMAIN entries
        /\ \A i \in DOMAIN entries : entries'[i] = entries[i]
        /\ entries'[n] = e
    BY <2>1, GrownIs
  <2> HIDE DEF n
  <2>7. CASE Claims(e)
    <3>1. Claimed' = Claimed \cup {n} /\ n \notin Claimed
      BY <2>6, <2>7 DEF Claimed
    <3>2. Cardinality(Claimed') = Cardinality(Claimed) + 1
      BY <1>1, <3>1, CountsOne
    <3>3. Cardinality(Owed') = Cardinality(Owed) - 1
      BY <1>1, <2>4, <2>7, CountsLess
    <3> QED BY <1>1, <2>1, <2>4, <2>5, <3>2, <3>3 DEF ClaimInv
  <2>8. CASE ~ Claims(e)
    <3>1. Claimed' = Claimed
      BY <2>6, <2>8 DEF Claimed
    <3>2. Owed' = Owed
      BY <2>4, <2>8
    <3> QED BY <1>1, <2>1, <2>4, <2>5, <3>1, <3>2 DEF ClaimInv
  <2> QED BY <2>7, <2>8
<1>9. ASSUME NEW s \in Sessions, Answer(s) PROVE ClaimInv'
  <2>1. call' = [call EXCEPT ![s] = Idle] /\ UNCHANGED <<log, entries>> /\ call[s].step = "notify"
    BY <1>9 DEF Answer, Turn
  <2>2. call'[s] = Idle /\ \A o \in Sessions : o # s => call'[o] = call[o]
    BY <2>1, TurnIs
  <2>3. Owed' = Owed /\ Failing' = Failing \ {s} /\ (s \in Failing <=> call[s].reason = "internal")
    BY <2>1, <2>2 DEF Owed, Failing, Idle
  <2> DEFINE r == Report(call[s])
             n == Len(answers[s]) + 1
  <2>4. r \in Reports /\ r.reason = call[s].reason /\ answers \in [Sessions -> Seq(Reports)]
    BY <2>1, CallIs, ReportIs DEF Steps, TypeInv
  <2>5. answers' = [answers EXCEPT ![s] = Append(answers[s], r)]
    BY <1>9 DEF Answer
  <2>6. /\ DOMAIN answers'[s] = DOMAIN answers[s] \cup {n} /\ n \notin DOMAIN answers[s]
        /\ (\A i \in DOMAIN answers[s] : answers'[s][i] = answers[s][i]) /\ answers'[s][n] = r
        /\ \A o \in Sessions : o # s => answers'[o] = answers[o]
    BY <2>4, <2>5, AppendIs
  <2> HIDE DEF r, n
  <2>7. /\ \A x : x \in FailedAnswers <=>
              \E o \in Sessions : \E i \in DOMAIN answers[o] : x = <<o, i>> /\ answers[o][i].reason = "internal"
        /\ \A x : x \in FailedAnswers' <=>
              \E o \in Sessions : \E i \in DOMAIN answers'[o] : x = <<o, i>> /\ answers'[o][i].reason = "internal"
    <3>1. FailedAnswers = {si \in UNION {{o} \X DOMAIN answers[o] : o \in Sessions} :
                              answers[si[1]][si[2]].reason = "internal"}
      BY Zenon DEF FailedAnswers, Dealt
    <3>2. FailedAnswers' = {si \in UNION {{o} \X DOMAIN answers'[o] : o \in Sessions} :
                               answers'[si[1]][si[2]].reason = "internal"}
      BY Zenon DEF FailedAnswers, Dealt
    <3> DEFINE F == FailedAnswers
               G == FailedAnswers'
               a == answers
               b == answers'
    <3>3. /\ F = {si \in UNION {{o} \X DOMAIN a[o] : o \in Sessions} : a[si[1]][si[2]].reason = "internal"}
          /\ G = {si \in UNION {{o} \X DOMAIN b[o] : o \in Sessions} : b[si[1]][si[2]].reason = "internal"}
      BY <3>1, <3>2, Zenon
    <3> HIDE DEF F, G, a, b
    <3>4. \A x : x \in F <=> \E o \in Sessions : \E i \in DOMAIN a[o] : x = <<o, i>> /\ a[o][i].reason = "internal"
      BY ONLY <3>3, FailedAre
    <3>5. \A x : x \in G <=> \E o \in Sessions : \E i \in DOMAIN b[o] : x = <<o, i>> /\ b[o][i].reason = "internal"
      BY ONLY <3>3, FailedAre
    <3> QED BY <3>4, <3>5, Zenon DEF F, G, a, b
  <2>8. \A x : x \in FailedAnswers' <=> x \in FailedAnswers \/ (x = <<s, n>> /\ r.reason = "internal")
    <3>1. ASSUME NEW o \in Sessions, NEW i \in DOMAIN answers[o], answers[o][i].reason = "internal"
          PROVE  <<o, i>> \in FailedAnswers'
      <4>1. i \in DOMAIN answers'[o] /\ answers'[o][i] = answers[o][i]
        BY <2>6
      <4> QED BY <2>7, <3>1, <4>1, Zenon
    <3>2. ASSUME r.reason = "internal" PROVE <<s, n>> \in FailedAnswers'
      <4>1. n \in DOMAIN answers'[s] /\ answers'[s][n].reason = "internal"
        BY <2>6, <3>2
      <4> QED BY <2>7, <4>1, Zenon
    <3>3. ASSUME NEW o \in Sessions, NEW i \in DOMAIN answers'[o], answers'[o][i].reason = "internal"
          PROVE  <<o, i>> \in FailedAnswers \/ (<<o, i>> = <<s, n>> /\ r.reason = "internal")
      <4>1. \/ i \in DOMAIN answers[o] /\ answers[o][i] = answers'[o][i]
            \/ o = s /\ i = n /\ answers'[o][i] = r
        BY <2>6
      <4> QED BY <2>7, <3>3, <4>1, Zenon
    <3> QED BY <2>7, <3>1, <3>2, <3>3, Zenon
  <2>9. <<s, n>> \notin FailedAnswers
    <3>1. ASSUME NEW o \in Sessions, NEW i \in DOMAIN answers[o], <<s, n>> = <<o, i>> PROVE FALSE
      <4>1. o = s /\ i = n
        BY <3>1
      <4> QED BY <2>6, <4>1
    <3> QED BY <2>7, <3>1, Zenon
  <2>10. CASE call[s].reason = "internal"
    <3>1. FailedAnswers' = FailedAnswers \cup {<<s, n>>} /\ <<s, n>> \notin FailedAnswers
      BY <2>4, <2>10, <2>8, <2>9
    <3>2. IsFiniteSet(FailedAnswers') /\ Cardinality(FailedAnswers') = Cardinality(FailedAnswers) + 1
      BY <1>1, <3>1, CountsOne
    <3>3. Cardinality(Failing') = Cardinality(Failing) - 1
      BY <1>1, <2>3, <2>10, CountsLess
    <3> QED BY <1>1, <1>2, <2>1, <2>3, <3>2, <3>3 DEF ClaimInv
  <2>11. CASE call[s].reason # "internal"
    <3>1. FailedAnswers' = FailedAnswers
      BY <2>4, <2>11, <2>8
    <3>2. Failing' = Failing
      BY <2>3, <2>11
    <3> QED BY <1>1, <1>2, <2>1, <2>3, <3>1, <3>2 DEF ClaimInv
  <2> QED BY <2>10, <2>11
<1> QED BY <1>3, <1>4, <1>5, <1>6, <1>7, <1>8, <1>9, StepIs, Zenon

-----------------------------------------------------------------------------
(* Entries and answers. *)

Audited(s) ==
    /\ Cardinality(Own(s)) = Len(Given(s))
    /\ \A i \in Own(s) : /\ entries[i].verb = Given(s)[Nth(s, i)].verb
                         /\ entries[i].verdict = Given(s)[Nth(s, i)].verdict

LEMMA JoinIs ==
    ASSUME NEW D, NEW q \in Seq(D), NEW r \in D
    PROVE  q \o <<>> = q /\ q \o <<r>> = Append(q, r)
OBVIOUS

LEMMA GivenIs ==
    ASSUME NEW s \in Sessions, answers[s] \in Seq(Reports), call[s] \in Calls \cup {Idle}
    PROVE  /\ call[s].step # "notify" => Given(s) = answers[s]
           /\ call[s].step = "notify" => Given(s) = Append(answers[s], Report(call[s]))
<1>1. CASE call[s].step # "notify"
  BY <1>1, JoinIs DEF Given
<1>2. CASE call[s].step = "notify"
  <2>1. call[s] \in Calls
    BY <1>2 DEF Idle
  <2>2. Report(call[s]) \in Reports
    BY <2>1, ReportIs
  <2> QED BY <1>2, <2>2, JoinIs DEF Given
<1> QED BY <1>1, <1>2

LEMMA OwnIs ==
    ASSUME TypeInv, NEW s \in Sessions
    PROVE  /\ Own(s) \subseteq DOMAIN entries /\ IsFiniteSet(Own(s)) /\ Cardinality(Own(s)) \in Nat
           /\ \A i \in Own(s) : Nth(s, i) \in 1 .. Cardinality(Own(s))
<1>1. Own(s) \subseteq DOMAIN entries /\ entries \in Seq(Entries)
  BY DEF Own, TypeInv
<1>2. IsFiniteSet(Own(s)) /\ Cardinality(Own(s)) \in Nat
  BY <1>1, PlacesFinite
<1>3. ASSUME NEW i \in Own(s) PROVE Nth(s, i) \in 1 .. Cardinality(Own(s))
  <2> DEFINE T == {j \in Own(s) : j <= i}
  <2>1. T \subseteq Own(s) /\ {i} \subseteq T
    BY <1>1, <1>3
  <2>2. Nth(s, i) = Cardinality(T)
    BY DEF Nth
  <2> HIDE DEF T
  <2>3. IsFiniteSet(T) /\ Cardinality(T) <= Cardinality(Own(s)) /\ Cardinality(T) \in Nat
    BY <1>2, <2>1, CountGrows, CountIs
  <2>4. Cardinality({i}) <= Cardinality(T) /\ Cardinality({i}) = 1
    BY <2>1, <2>3, CountGrows, FS_Singleton
  <2> QED BY <1>2, <2>2, <2>3, <2>4
<1> QED BY <1>1, <1>2, <1>3

(* Entries of others leave a session's calls and entries in step. *)
LEMMA AuditRests ==
    ASSUME TypeInv, NEW s \in Sessions, Audited(s), Given(s)' = Given(s),
           \/ UNCHANGED entries
           \/ \E e \in Entries : entries' = Append(entries, e) /\ ~ (e.kind = "mcp" /\ e.by = s)
    PROVE  Audited(s)'
<1>1. Own(s)' = Own(s) /\ \A i \in Own(s) : entries'[i] = entries[i]
  <2>1. CASE UNCHANGED entries
    BY <2>1 DEF Own
  <2>2. ASSUME NEW e \in Entries, entries' = Append(entries, e), ~ (e.kind = "mcp" /\ e.by = s)
        PROVE  Own(s)' = Own(s) /\ \A i \in Own(s) : entries'[i] = entries[i]
    BY <2>2, GrownIs DEF Own
  <2> QED BY <2>1, <2>2
<1>2. \A i : Nth(s, i)' = Nth(s, i)
  BY <1>1 DEF Nth
<1> QED BY <1>1, <1>2 DEF Audited

LEMMA AuditKept ==
    ASSUME Inv, [Next]_vars
    PROVE  EveryCallAudited'
<1> USE DEF Inv
<1>1. \A s \in Sessions : Audited(s)
  BY DEF EveryCallAudited, Audited
<1>2. SUFFICES ASSUME NEW o \in Sessions PROVE Audited(o)'
  BY DEF EveryCallAudited, Audited
<1>3. TypeInv /\ TypeInv'
  BY TypeKept
<1>4. /\ call[o].step # "notify" => Given(o) = answers[o]
      /\ call[o].step = "notify" => Given(o) = Append(answers[o], Report(call[o]))
  BY <1>3, GivenIs DEF TypeInv
<1>5. /\ call'[o].step # "notify" => Given(o)' = answers'[o]
      /\ call'[o].step = "notify" => Given(o)' = Append(answers'[o], Report(call'[o]))
  <2>1. answers'[o] \in Seq(Reports) /\ call'[o] \in Calls \cup {Idle}
    BY <1>3 DEF TypeInv
  <2>2. CASE call'[o].step # "notify"
    BY <2>1, <2>2, JoinIs DEF Given
  <2>3. CASE call'[o].step = "notify"
    <3>1. call'[o] \in Calls
      BY <2>1, <2>3 DEF Idle
    <3>2. Report(call'[o]) \in Reports
      BY <3>1, ReportIs
    <3>3. Given(o)' = answers'[o] \o <<Report(call'[o])>>
      BY <2>3 DEF Given, Report
    <3> QED BY <2>1, <2>3, <3>2, <3>3, JoinIs
  <2> QED BY <2>2, <2>3
<1>6. call'[o] = call[o] /\ answers'[o] = answers[o] => Given(o)' = Given(o)
  BY DEF Given, Report
<1>7. CASE Quiet
  BY <1>1, <1>6, <1>7, AuditRests DEF Quiet
<1>8. ASSUME NEW e, Foreign(e) PROVE Audited(o)'
  BY <1>1, <1>6, <1>8, AuditRests DEF Foreign
<1>9. ASSUME NEW s \in Sessions, NEW c, NEW f, Begun(s, c) \/ Failed(s, c) \/ Tailed(s, c) \/ Committed(s, c, f)
      PROVE  Audited(o)'
  <2>1. call' = [call EXCEPT ![s] = c] /\ c \in Calls /\ UNCHANGED <<entries, answers>>
    BY <1>9 DEF Begun, FreshCall, Failed, Tailed, Committed
  <2>2. call'[s] = c /\ \A x \in Sessions : x # s => call'[x] = call[x]
    BY <2>1, TurnIs
  <2>3. call[s].step # "notify" /\ c.step # "notify"
    BY <1>9, CallIs DEF Begun, FreshCall, Failed, Tailed, Committed
  <2>4. Given(o)' = Given(o)
    BY <1>4, <1>5, <1>6, <2>1, <2>2, <2>3
  <2> QED BY <1>1, <2>1, <2>4, AuditRests
<1>10. ASSUME NEW s \in Sessions, NEW c, NEW e, Appended(s, c, e) PROVE Audited(o)'
  <2>1. /\ call' = [call EXCEPT ![s] = c] /\ c \in Calls /\ UNCHANGED answers
        /\ entries' = Append(entries, e) /\ e \in Entries
        /\ e.kind = "mcp" /\ e.by = s /\ e.verb = c.verb /\ e.verdict = c.verdict
    BY <1>10 DEF Appended, Entry
  <2>2. call'[s] = c /\ \A x \in Sessions : x # s => call'[x] = call[x]
    BY <2>1, TurnIs
  <2>3. CASE o # s
    BY <1>1, <1>6, <2>1, <2>2, <2>3, AuditRests
  <2>4. CASE o = s
    <3>1. Given(s) = answers[s] /\ Given(s)' = Append(answers[s], Report(c))
      BY <1>4, <1>5, <1>10, <2>1, <2>2, <2>4 DEF Appended
    <3>2. answers[s] \in Seq(Reports) /\ Report(c) \in Reports /\ Report(c).verb = c.verb /\ Report(c).verdict = c.verdict
      BY <2>1, ReportIs DEF TypeInv
    <3> DEFINE l == Len(answers[s])
    <3>3. PICK n \in Nat : n = Len(entries) + 1
      BY DEF TypeInv
    <3>4. /\ DOMAIN entries' = DOMAIN entries \cup {n} /\ n \notin DOMAIN entries /\ entries'[n] = e
          /\ \A i \in DOMAIN entries : entries'[i] = entries[i] /\ i \in Nat /\ i < n
      BY <2>1, <3>3, GrownIs
    <3>5. Own(s)' = Own(s) \cup {n} /\ n \notin Own(s) /\ Own(s) \subseteq DOMAIN entries
      BY <2>1, <3>4 DEF Own
    <3>6. /\ IsFiniteSet(Own(s)) /\ Cardinality(Own(s)) = l /\ l \in Nat
          /\ \A i \in Own(s) : Nth(s, i) \in 1 .. l
      BY <1>1, <2>4, <3>1, <3>2, OwnIs DEF Audited
    <3>7. Cardinality(Own(s)') = l + 1
      BY <3>5, <3>6, CountsOne
    <3>8. Len(Given(s)') = l + 1 /\ Given(s)'[l + 1] = Report(c) /\ \A i \in 1 .. l : Given(s)'[i] = answers[s][i]
      BY <3>1, <3>2, AppendIs
    <3> HIDE DEF l
    <3>9. ASSUME NEW i \in Own(s)
          PROVE  entries'[i].verb = Given(s)'[Nth(s, i)'].verb /\ entries'[i].verdict = Given(s)'[Nth(s, i)'].verdict
      <4>1. {j \in Own(s)' : j <= i} = {j \in Own(s) : j <= i}
        BY <3>4, <3>5
      <4>2. Nth(s, i)' = Nth(s, i)
        BY <4>1 DEF Nth
      <4>3. entries[i].verb = answers[s][Nth(s, i)].verb /\ entries[i].verdict = answers[s][Nth(s, i)].verdict
        BY <1>1, <2>4, <3>1 DEF Audited
      <4> QED BY <3>4, <3>5, <3>6, <3>8, <4>2, <4>3
    <3>10. entries'[n].verb = Given(s)'[Nth(s, n)'].verb /\ entries'[n].verdict = Given(s)'[Nth(s, n)'].verdict
      <4>1. {j \in Own(s)' : j <= n} = Own(s)'
        BY <3>3, <3>4, <3>5
      <4>2. Nth(s, n)' = l + 1
        BY <3>7, <4>1 DEF Nth
      <4> QED BY <2>1, <3>2, <3>4, <3>8, <4>2
    <3> QED BY <2>4, <3>5, <3>7, <3>8, <3>9, <3>10 DEF Audited
  <2> QED BY <2>3, <2>4
<1>11. ASSUME NEW s \in Sessions, Answer(s) PROVE Audited(o)'
  <2>1. call' = [call EXCEPT ![s] = Idle] /\ UNCHANGED entries /\ call[s].step = "notify"
    BY <1>11 DEF Answer, Turn
  <2>2. call'[s] = Idle /\ \A x \in Sessions : x # s => call'[x] = call[x]
    BY <2>1, TurnIs
  <2>3. answers'[s] = Append(answers[s], Report(call[s])) /\ \A x \in Sessions : x # s => answers'[x] = answers[x]
    BY <1>11 DEF Answer, TypeInv
  <2>4. Given(o)' = Given(o)
    <3>1. CASE o = s
      <4>1. call'[o].step # "notify"
        BY <2>2, <3>1 DEF Idle
      <4>2. Given(o)' = answers'[o]
        BY <1>5, <4>1
      <4>3. Given(o) = Append(answers[o], Report(call[o]))
        BY <1>4, <2>1, <3>1
      <4> QED BY <2>3, <3>1, <4>2, <4>3
    <3>2. CASE o # s
      BY <1>6, <2>2, <2>3, <3>2
    <3> QED BY <3>1, <3>2
  <2> QED BY <1>1, <2>1, <2>4, AuditRests
<1> QED BY <1>7, <1>8, <1>9, <1>10, <1>11, StepIs, Zenon

-----------------------------------------------------------------------------
(* The rate of replay checks. *)

LEMMA CheckedIs ==
    ASSUME TypeInv, NEW s \in Sessions, NEW T
    PROVE  /\ IsFiniteSet(Answered(s, T)) /\ Cardinality(Answered(s, T)) \in Nat
           /\ UnderWay(s, T) \in {0, 1} /\ Checked(s, T) \in Nat
<1>1. Answered(s, T) \subseteq DOMAIN answers[s] /\ answers[s] \in Seq(Reports)
  BY DEF Answered, TypeInv
<1>2. IsFiniteSet(Answered(s, T)) /\ Cardinality(Answered(s, T)) \in Nat
  BY <1>1, PlacesFinite
<1>3. UnderWay(s, T) \in {0, 1}
  BY DEF UnderWay
<1> QED BY <1>2, <1>3 DEF Checked

(* More instants, more checks. *)
LEMMA CheckedMore ==
    ASSUME TypeInv, NEW s \in Sessions, NEW T, NEW U, \A t \in Nat : t \in T => t \in U
    PROVE  Checked(s, T) <= Checked(s, U)
<1>1. /\ IsFiniteSet(Answered(s, U)) /\ Cardinality(Answered(s, U)) \in Nat /\ Cardinality(Answered(s, T)) \in Nat
      /\ UnderWay(s, U) \in {0, 1} /\ UnderWay(s, T) \in {0, 1}
  BY CheckedIs
<1>2. Answered(s, T) \subseteq Answered(s, U)
  <2>1. \A i \in DOMAIN answers[s] : answers[s][i] \in Reports
    BY DEF TypeInv
  <2>2. \A i \in DOMAIN answers[s] : answers[s][i].time \in Nat
    BY <2>1 DEF Reports
  <2> QED BY <2>2 DEF Answered
<1>3. Cardinality(Answered(s, T)) <= Cardinality(Answered(s, U))
  BY <1>1, <1>2, CountGrows
<1>4. UnderWay(s, T) <= UnderWay(s, U)
  <2>1. call[s] # Idle => call[s].time \in Nat
    BY CallIs DEF Calls
  <2> QED BY <2>1 DEF UnderWay
<1> QED BY <1>1, <1>3, <1>4 DEF Checked

(* Until a call begins, as many checks are admitted as were before. *)
LEMMA ChecksRest ==
    ASSUME Inv, NEW o \in Sessions, NEW T,
           \/ call'[o] = call[o] /\ answers'[o] = answers[o]
           \/ \E c, x : Failed(o, c) \/ Tailed(o, c) \/ Committed(o, c, x) \/ Appended(o, c, x)
           \/ Answer(o)
    PROVE  Checked(o, T)' = Checked(o, T)
<1> USE DEF Inv
<1>1. answers'[o] = answers[o] => Answered(o, T)' = Answered(o, T)
  BY DEF Answered
<1>2. CASE call'[o] = call[o] /\ answers'[o] = answers[o]
  BY <1>1, <1>2 DEF Checked, UnderWay
<1>3. ASSUME NEW c, NEW x, Failed(o, c) \/ Tailed(o, c) \/ Committed(o, c, x) \/ Appended(o, c, x)
      PROVE  Checked(o, T)' = Checked(o, T)
  <2>1. /\ call' = [call EXCEPT ![o] = c] /\ c \in Calls /\ UNCHANGED answers
        /\ Same(call[o], c) /\ call[o].step \in Steps
    BY <1>3 DEF Failed, Tailed, Committed, Appended, Steps
  <2>2. call'[o] = c /\ c # Idle /\ call[o] # Idle
    <3>1. c.step \in Steps
      BY <2>1 DEF Calls, Steps
    <3>2. c # Idle
      BY <3>1 DEF Idle, Steps
    <3> QED BY <2>1, <3>2, TurnIs, CallIs
  <2>3. Admits(c) <=> Admits(call[o])
    <3>1. CASE Failed(o, c)
      <4>1. call[o].verb \in {"remember", "forget"}
        BY <2>2, <3>1 DEF Failed, AnswerInv, CallInv
      <4> QED BY <2>1, <4>1 DEF Same, Admits
    <3>2. CASE ~ Failed(o, c)
      BY <1>3, <3>2 DEF Tailed, Committed, Appended, Same, Admits
    <3> QED BY <3>1, <3>2
  <2>4. c.time = call[o].time
    BY <2>1 DEF Same
  <2>5. UnderWay(o, T)' = UnderWay(o, T)
    BY <2>2, <2>3, <2>4 DEF UnderWay
  <2> QED BY <1>1, <2>1, <2>5 DEF Checked
<1>4. CASE Answer(o)
  <2> DEFINE r == Report(call[o])
             n == Len(answers[o]) + 1
  <2>1. call[o] \in Calls /\ call[o] # Idle
    BY <1>4, CallIs DEF Answer, Steps
  <2>2. r \in Reports /\ (Admits(r) <=> Admits(call[o])) /\ (Admits(r) => r.time = call[o].time)
    BY <2>1, ReportIs DEF Admits
  <2>3. answers'[o] = Append(answers[o], r) /\ answers[o] \in Seq(Reports)
    BY <1>4 DEF Answer, TypeInv
  <2>4. /\ DOMAIN answers'[o] = DOMAIN answers[o] \cup {n} /\ n \notin DOMAIN answers[o]
        /\ (\A i \in DOMAIN answers[o] : answers'[o][i] = answers[o][i]) /\ answers'[o][n] = r
    BY <2>2, <2>3, AppendIs
  <2> HIDE DEF r, n
  <2>5. call'[o] = Idle
    BY <1>4, TurnIs DEF Answer, Turn
  <2>6. UnderWay(o, T)' = 0
    BY <2>5 DEF UnderWay
  <2>7. IsFiniteSet(Answered(o, T)) /\ Cardinality(Answered(o, T)) \in Nat
    BY CheckedIs
  <2>8. CASE Admits(r) /\ r.time \in T
    <3>1. Answered(o, T)' = Answered(o, T) \cup {n} /\ n \notin Answered(o, T)
      BY <2>4, <2>8 DEF Answered
    <3>2. Cardinality(Answered(o, T)') = Cardinality(Answered(o, T)) + 1
      BY <2>7, <3>1, CountsOne
    <3>3. UnderWay(o, T) = 1
      BY <2>1, <2>2, <2>8 DEF UnderWay
    <3> QED BY <2>6, <2>7, <3>2, <3>3 DEF Checked
  <2>9. CASE ~ (Admits(r) /\ r.time \in T)
    <3>1. Answered(o, T)' = Answered(o, T)
      BY <2>4, <2>9 DEF Answered
    <3>2. UnderWay(o, T) = 0
      BY <2>1, <2>2, <2>9 DEF UnderWay
    <3> QED BY <2>6, <2>7, <3>1, <3>2 DEF Checked
  <2> QED BY <2>8, <2>9
<1> QED BY <1>2, <1>3, <1>4

LEMMA LaterIs ==
    ASSUME NEW q \in Seq(Nat), NEW u \in Int
    PROVE  /\ Later(q, u) \in Nat /\ Later(q, u) <= Len(q)
           /\ \A t \in Nat : Later(Append(q, t), u) = Later(q, u) + IF t >= u THEN 1 ELSE 0
<1> DEFINE P == {j \in DOMAIN q : q[j] >= u}
<1>1. P \subseteq DOMAIN q /\ Later(q, u) = Cardinality(P)
  BY DEF Later
<1>2. IsFiniteSet(P) /\ Cardinality(P) \in Nat /\ Cardinality(P) <= Len(q)
  <2> HIDE DEF P
  <2> QED BY <1>1, PlacesFinite
<1>3. ASSUME NEW t \in Nat PROVE Later(Append(q, t), u) = Later(q, u) + IF t >= u THEN 1 ELSE 0
  <2> DEFINE r == Append(q, t)
             n == Len(q) + 1
             R == {j \in DOMAIN r : r[j] >= u}
  <2>1. DOMAIN r = DOMAIN q \cup {n} /\ n \notin DOMAIN q /\ (\A j \in DOMAIN q : r[j] = q[j]) /\ r[n] = t
    BY AppendIs
  <2>2. Later(r, u) = Cardinality(R)
    BY DEF Later
  <2> HIDE DEF r, n
  <2>3. CASE t >= u
    <3>1. R = P \cup {n} /\ n \notin P
      BY <2>1, <2>3
    <3> HIDE DEF P, R
    <3>2. Cardinality(R) = Cardinality(P) + 1
      BY <1>2, <3>1, CountsOne
    <3> QED BY <1>1, <2>2, <2>3, <3>2 DEF r
  <2>4. CASE ~ (t >= u)
    <3>1. R = P
      BY <2>1, <2>4
    <3> HIDE DEF P, R
    <3> QED BY <1>1, <1>2, <2>2, <2>4, <3>1 DEF r
  <2> QED BY <2>3, <2>4
<1> HIDE DEF P
<1> QED BY <1>1, <1>2, <1>3

(* What was not asked of the limiter leaves the rate as it is. *)
LEMMA RateRests ==
    ASSUME Inv, NEW s \in Sessions, admitted'[s] = admitted[s], now' \in Nat, now <= now',
           \A T : Checked(s, T)' = Checked(s, T)
    PROVE  RateAt(s)'
<1>1. RateAt(s) /\ now \in Nat /\ ReplayWindow \in Nat
  BY McpAssumption DEF Inv, RateInv, TypeInv
<1>2. PICK n \in Nat : n = now' /\ now <= n
  OBVIOUS
<1>3. ASSUME NEW u \in Int, u >= now' - ReplayWindow PROVE Checked(s, Since(u))' <= Later(admitted'[s], u)
  <2>1. u >= n - ReplayWindow
    BY <1>2, <1>3
  <2>2. u >= now - ReplayWindow
    <3>1. PICK m \in Nat : m = now
      BY <1>1
    <3>2. m <= n
      BY <1>2, <3>1
    <3>3. PICK w \in Nat : w = ReplayWindow
      BY <1>1
    <3>4. u >= n - w
      BY <2>1, <3>3
    <3>5. u >= m - w
      BY <3>2, <3>4
    <3> QED BY <3>1, <3>3, <3>5
  <2>3. Checked(s, Since(u)) <= Later(admitted[s], u)
    BY <1>1, <2>2 DEF RateAt
  <2> QED BY <2>3
<1>4. ASSUME NEW t \in Int PROVE Checked(s, Around(t))' <= ReplayLimit
  BY <1>1 DEF RateAt
<1> QED BY <1>1, <1>3, <1>4 DEF RateAt

LEMMA RateBegins ==
    ASSUME Inv, NEW s \in Sessions, NEW c, Begun(s, c)
    PROVE  RateAt(s)'
<1> USE DEF Inv
<1> DEFINE q == admitted[s]
           r == Recent(s)
<1>1. RateAt(s) /\ now \in Nat /\ ReplayWindow \in Nat /\ ReplayLimit \in Nat /\ now' = now
  BY McpAssumption DEF RateInv, TypeInv, Begun
<1>2. /\ call'[s] = c /\ UNCHANGED answers /\ call[s] = Idle /\ c \in Calls /\ c # Idle
      /\ (Admits(c) => c.time = now)
  <2>1. c \in Calls /\ call' = [call EXCEPT ![s] = c] /\ (Admits(c) => c.time = now)
    BY DEF Begun, FreshCall
  <2>2. c.step \in Steps
    BY <2>1 DEF Calls, Steps
  <2>3. c # Idle
    BY <2>2 DEF Idle, Steps
  <2> QED BY <2>1, <2>3, TurnIs DEF Begun, FreshCall
<1>3. \A T : Checked(s, T)' = Checked(s, T) + IF Admits(c) /\ now \in T THEN 1 ELSE 0
  <2> TAKE T
  <2>1. Answered(s, T)' = Answered(s, T)
    BY <1>2 DEF Answered
  <2>2. UnderWay(s, T) = 0
    BY <1>2 DEF UnderWay
  <2>3. UnderWay(s, T)' = IF Admits(c) /\ now \in T THEN 1 ELSE 0
    BY <1>2 DEF UnderWay
  <2>4. Cardinality(Answered(s, T)) \in Nat
    BY CheckedIs
  <2> QED BY <2>1, <2>2, <2>3, <2>4 DEF Checked
<1>4. /\ r \in Seq(Nat) /\ q \in Seq(Nat) /\ Len(r) \in Nat /\ Len(q) \in Nat /\ Len(r) <= Len(q)
      /\ \A u \in Int : u >= now - ReplayWindow => Later(q, u) <= Later(r, u)
  BY RecentIs DEF TypeInv
<1>5. admitted \in [Sessions -> Seq(Nat)] /\ \A T : Checked(s, T) \in Nat
  BY CheckedIs DEF TypeInv
<1>6. CASE admitted'[s] = q /\ ~ Admits(c)
  BY <1>1, <1>3, <1>5, <1>6, RateRests
<1>7. CASE admitted'[s] = r /\ ~ Admits(c)
  <2> HIDE DEF q, r
  <2>1. \A T : Checked(s, T)' = Checked(s, T)
    BY <1>3, <1>5, <1>7
  <2>2. Len(r) <= ReplayLimit
    BY <1>1, <1>4 DEF RateAt, q
  <2>3. ASSUME NEW u \in Int, u >= now' - ReplayWindow PROVE Checked(s, Since(u))' <= Later(admitted'[s], u)
    <3>1. Checked(s, Since(u)) <= Later(q, u)
      BY <1>1, <2>3 DEF RateAt, q
    <3>2. Later(q, u) <= Later(r, u)
      BY <1>1, <1>4, <2>3
    <3>3. Later(q, u) \in Nat /\ Later(r, u) \in Nat
      BY <1>4, LaterIs
    <3>4. Checked(s, Since(u)) \in Nat /\ Checked(s, Since(u))' = Checked(s, Since(u))
      BY <1>5, <2>1
    <3> QED BY <1>7, <3>1, <3>2, <3>3, <3>4
  <2>4. ASSUME NEW t \in Int PROVE Checked(s, Around(t))' <= ReplayLimit
    BY <1>1, <2>1 DEF RateAt
  <2> QED BY <1>7, <2>2, <2>3, <2>4 DEF RateAt
<1>8. CASE admitted'[s] = Append(r, now) /\ ~ Spent(s)
  <2>1. Len(r) < ReplayLimit
    BY <1>1, <1>4, <1>8 DEF Spent
  <2> DEFINE a == Append(r, now)
  <2>2. a \in Seq(Nat) /\ Len(a) <= ReplayLimit /\ Len(a) \in Nat
    BY <1>1, <1>4, <2>1
  <2>3. \A u \in Int : Later(a, u) = Later(r, u) + IF now >= u THEN 1 ELSE 0
    BY <1>1, <1>4, LaterIs
  <2>4. \A u \in Int : Later(a, u) \in Nat /\ Later(a, u) <= Len(a)
    BY <2>2, LaterIs
  <2> HIDE DEF a, q, r
  <2>5. ASSUME NEW u \in Int, u >= now - ReplayWindow PROVE Checked(s, Since(u))' <= Later(a, u)
    <3>1. Checked(s, Since(u)) <= Later(q, u)
      BY <1>1, <2>5 DEF RateAt, q
    <3>2. Later(q, u) <= Later(r, u)
      BY <1>1, <1>4, <2>5
    <3>3. Later(q, u) \in Nat /\ Later(r, u) \in Nat
      BY <1>4, LaterIs
    <3>4. Checked(s, Since(u)) \in Nat
      BY <1>5
    <3>5. now \in Since(u) <=> now >= u
      BY <1>1 DEF Since
    <3>6. Checked(s, Since(u))' = Checked(s, Since(u)) + IF Admits(c) /\ now \in Since(u) THEN 1 ELSE 0
      BY <1>3
    <3>7. Later(a, u) = Later(r, u) + IF now >= u THEN 1 ELSE 0
      BY <2>3
    <3> QED BY <3>1, <3>2, <3>3, <3>4, <3>5, <3>6, <3>7
  <2>6. ASSUME NEW t \in Int PROVE Checked(s, Around(t))' <= ReplayLimit
    <3>1. CASE now \notin Around(t)
      <4>1. Checked(s, Around(t))' = Checked(s, Around(t)) + 0
        BY <1>3, <3>1
      <4>2. Checked(s, Around(t)) <= ReplayLimit /\ Checked(s, Around(t)) \in Nat
        BY <1>1, <1>5 DEF RateAt
      <4> QED BY <4>1, <4>2
    <3>2. CASE now \in Around(t)
      <4> DEFINE u == t - ReplayWindow
      <4>1. u \in Int /\ u >= now - ReplayWindow
        BY <1>1, <3>2 DEF Around
      <4>2. \A x \in Nat : x \in Around(t) => x \in Since(u)
        BY <1>1 DEF Around, Since
      <4>3. now \in Since(u)
        BY <1>1, <3>2, <4>2
      <4> HIDE DEF u
      <4>4. Checked(s, Around(t)) <= Checked(s, Since(u))
        BY <4>2, CheckedMore
      <4>5. Checked(s, Around(t)) \in Nat /\ Checked(s, Since(u)) \in Nat
        BY <1>5
      <4>6. Checked(s, Around(t))' = Checked(s, Around(t)) + IF Admits(c) THEN 1 ELSE 0
        BY <1>3, <3>2
      <4>7. Checked(s, Since(u))' = Checked(s, Since(u)) + IF Admits(c) THEN 1 ELSE 0
        BY <1>3, <4>3
      <4>8. Checked(s, Since(u))' <= Later(a, u) /\ Later(a, u) <= Len(a) /\ Later(a, u) \in Nat
        BY <2>4, <2>5, <4>1
      <4> QED BY <1>1, <2>2, <4>4, <4>5, <4>6, <4>7, <4>8
    <3> QED BY <3>1, <3>2
  <2>7. admitted'[s] = a
    BY <1>8 DEF a, r
  <2> QED BY <1>1, <2>2, <2>5, <2>6, <2>7 DEF RateAt
<1>9. \/ admitted'[s] = q /\ ~ Admits(c)
      \/ admitted'[s] = r /\ ~ Admits(c)
      \/ admitted'[s] = Append(r, now) /\ ~ Spent(s)
  BY <1>5 DEF Begun, Admitted
<1> QED BY <1>6, <1>7, <1>8, <1>9

LEMMA RateKept ==
    ASSUME Inv, [Next]_vars
    PROVE  RateInv'
<1> USE DEF Inv
<1>1. SUFFICES ASSUME NEW o \in Sessions PROVE RateAt(o)'
  BY DEF RateInv
<1>2. now \in Nat /\ now <= now /\ admitted \in [Sessions -> Seq(Nat)]
  BY DEF TypeInv
<1>3. ASSUME call'[o] = call[o], answers'[o] = answers[o] PROVE \A T : Checked(o, T)' = Checked(o, T)
  BY <1>3, ChecksRest
<1>4. CASE Quiet
  <2>1. now' \in Nat /\ now <= now' /\ UNCHANGED <<admitted, call, answers>>
    BY <1>4 DEF Quiet
  <2>2. \A T : Checked(o, T)' = Checked(o, T)
    BY <1>3, <2>1
  <2> QED BY <2>1, <2>2, RateRests
<1>5. ASSUME NEW e, Foreign(e) PROVE RateAt(o)'
  <2>1. UNCHANGED <<now, admitted, call, answers>>
    BY <1>5 DEF Foreign
  <2>2. \A T : Checked(o, T)' = Checked(o, T)
    BY <1>3, <2>1
  <2> QED BY <1>2, <2>1, <2>2, RateRests
<1>6. ASSUME NEW s \in Sessions, NEW c, Begun(s, c) PROVE RateAt(o)'
  <2>1. CASE o = s
    BY <1>6, <2>1, RateBegins
  <2>2. CASE o # s
    <3>1. /\ call' = [call EXCEPT ![s] = c] /\ c \in Calls /\ UNCHANGED <<now, answers>>
          /\ Admitted(s, c)
      BY <1>6 DEF Begun, FreshCall
    <3>2. call'[o] = call[o]
      BY <2>2, <3>1, TurnIs
    <3>3. admitted'[o] = admitted[o]
      BY <1>2, <2>2, <3>1 DEF Admitted
    <3>4. \A T : Checked(o, T)' = Checked(o, T)
      BY <1>3, <3>1, <3>2
    <3> QED BY <1>2, <3>1, <3>3, <3>4, RateRests
  <2> QED BY <2>1, <2>2
<1>7. ASSUME NEW s \in Sessions, NEW c, NEW x,
             Failed(s, c) \/ Tailed(s, c) \/ Committed(s, c, x) \/ Appended(s, c, x)
      PROVE  RateAt(o)'
  <2>1. call' = [call EXCEPT ![s] = c] /\ c \in Calls /\ UNCHANGED <<now, admitted, answers>>
    BY <1>7 DEF Failed, Tailed, Committed, Appended
  <2>2. \A T : Checked(o, T)' = Checked(o, T)
    <3>1. CASE o = s
      BY <1>7, <3>1, ChecksRest
    <3>2. CASE o # s
      BY <1>3, <2>1, <3>2, TurnIs
    <3> QED BY <3>1, <3>2
  <2> QED BY <1>2, <2>1, <2>2, RateRests
<1>8. ASSUME NEW s \in Sessions, Answer(s) PROVE RateAt(o)'
  <2>1. UNCHANGED <<now, admitted>> /\ call' = [call EXCEPT ![s] = Idle]
    BY <1>8 DEF Answer, Turn
  <2>2. \A T : Checked(o, T)' = Checked(o, T)
    <3>1. CASE o = s
      BY <1>8, <3>1, ChecksRest
    <3>2. CASE o # s
      <4>1. call'[o] = call[o]
        BY <2>1, <3>2, TurnIs
      <4>2. answers'[o] = answers[o]
        BY <1>8, <3>2 DEF Answer, TypeInv
      <4> QED BY <1>3, <4>1, <4>2
    <3> QED BY <3>1, <3>2
  <2> QED BY <1>2, <2>1, <2>2, RateRests
<1> QED BY <1>4, <1>5, <1>6, <1>7, <1>8, StepIs, Zenon

-----------------------------------------------------------------------------
(* The invariant. *)

LEMMA NoneCounted ==
    ASSUME NEW S, S = {}
    PROVE  IsFiniteSet(S) /\ Cardinality(S) = 0
BY FS_EmptySet

LEMMA InitInv ==
    ASSUME Init
    PROVE  Inv
<1> USE DEF Init
<1>1. {} \in SUBSET Nat /\ MaxEntries \in Nat /\ MaxTime \in Nat /\ ReplayLimit \in Nat /\ ReplayWindow \in Nat
  BY McpAssumption
<1>2. /\ Len(entries) = 0 /\ Len(log) = 0 /\ DOMAIN entries = {} /\ DOMAIN log = {}
      /\ \A s \in Sessions : /\ answers[s] = <<>> /\ admitted[s] = <<>> /\ call[s] = Idle
                             /\ told[s] = 0 /\ heard[s] = 0
                             /\ Len(answers[s]) = 0 /\ DOMAIN answers[s] = {} /\ Len(admitted[s]) = 0
  OBVIOUS
<1>3. TypeInv
  <2>1. /\ log \in Seq(Data) /\ entries \in Seq(Entries)
        /\ admitted \in [Sessions -> Seq(Nat)] /\ answers \in [Sessions -> Seq(Reports)]
    OBVIOUS
  <2>2. call \in [Sessions -> Calls \cup {Idle}]
    OBVIOUS
  <2>3. /\ now \in Nat /\ now <= MaxTime
        /\ ready \in [Sessions -> BOOLEAN] /\ subscribed \in [Sessions -> BOOLEAN]
        /\ told \in [Sessions -> Nat] /\ heard \in [Sessions -> Nat] /\ bounced \in Nat
    BY <1>1
  <2> QED BY <2>1, <2>2, <2>3, Zenon DEF TypeInv
<1>4. ListInv
  <2>1. Pending = {}
    BY <1>2 DEF Pending, Idle
  <2>2. Cardinality(Pending) = 0
    BY <2>1, NoneCounted
  <2>3. EntriesFollow /\ \A i \in DOMAIN log : log[i].from <= log[i].at /\ log[i].at <= now
    BY <1>2 DEF EntriesFollow
  <2>4. bounced + Len(entries) + Cardinality(Pending) <= MaxEntries
    BY <1>1, <1>2, <2>2
  <2>5. \A s \in Sessions : told[s] <= Len(entries) /\ heard[s] <= told[s]
    BY <1>2
  <2> QED BY <2>3, <2>4, <2>5, Zenon DEF ListInv
<1>5. AnswerInv
  BY <1>2 DEF AnswerInv, CallInv
<1>6. EveryCallAudited
  <2>1. \A s \in Sessions : Own(s) = {}
    BY <1>2 DEF Own
  <2>2. \A s \in Sessions : Cardinality(Own(s)) = 0
    BY <2>1, NoneCounted
  <2>3. \A s \in Sessions : Given(s) = answers[s]
    <3>1. \A s \in Sessions : Given(s) = <<>> \o <<>>
      BY <1>2 DEF Given, Idle
    <3> QED BY <1>2, <3>1
  <2> QED BY <1>2, <2>1, <2>2, <2>3 DEF EveryCallAudited
<1>7. ClaimInv
  <2>1. Claimed = {} /\ Owed = {} /\ Failing = {}
    BY <1>2 DEF Claimed, Owed, Failing, Idle
  <2>2. FailedAnswers = {}
    BY <1>2 DEF FailedAnswers, Dealt
  <2>3. Cardinality(Claimed) = 0 /\ Cardinality(Owed) = 0 /\ Cardinality(Failing) = 0
    BY <2>1, NoneCounted
  <2>4. IsFiniteSet(FailedAnswers) /\ Cardinality(FailedAnswers) = 0
    BY <2>2, NoneCounted
  <2> QED BY <1>2, <2>3, <2>4 DEF ClaimInv
<1>8. RateInv
  <2> SUFFICES ASSUME NEW s \in Sessions PROVE RateAt(s)
    BY DEF RateInv
  <2>1. \A T : Checked(s, T) = 0
    <3> TAKE T
    <3>1. Answered(s, T) = {} /\ UnderWay(s, T) = 0
      BY <1>2 DEF Answered, UnderWay
    <3>2. Cardinality(Answered(s, T)) = 0
      BY <3>1, NoneCounted
    <3> QED BY <3>1, <3>2 DEF Checked
  <2>2. \A u \in Int : Later(admitted[s], u) \in Nat
    <3>1. admitted[s] \in Seq(Nat)
      BY <1>3 DEF TypeInv
    <3> QED BY <3>1, LaterIs
  <2>3. \A u \in Int : Checked(s, Since(u)) <= Later(admitted[s], u)
    BY <2>1, <2>2
  <2>4. \A t \in Int : Checked(s, Around(t)) <= ReplayLimit
    BY <1>1, <2>1
  <2>5. Len(admitted[s]) <= ReplayLimit
    BY <1>1, <1>2
  <2> QED BY <2>3, <2>4, <2>5, Zenon DEF RateAt
<1> QED BY <1>3, <1>4, <1>5, <1>6, <1>7, <1>8 DEF Inv

LEMMA InvKept ==
    ASSUME Inv, [Next]_vars
    PROVE  Inv'
BY TypeKept, ListKept, AnswerKept, AuditKept, ClaimKept, RateKept DEF Inv

LEMMA Invariance == Spec => []Inv
BY InitInv, InvKept, PTL DEF Spec

-----------------------------------------------------------------------------
(* What is promised. *)

LEMMA TypesOK ==
    ASSUME Inv
    PROVE  TypeOK
<1> USE DEF Inv
<1>1. now \in 0 .. MaxTime
  BY McpAssumption DEF TypeInv
<1>2. Len(entries) <= MaxEntries
  BY PendingIs DEF ListInv
<1>3. ASSUME NEW d \in ToSet(log) PROVE d.e \in Memories /\ d.from <= d.at /\ d.at <= now
  <2>1. PICK i \in DOMAIN log : d = log[i]
    BY DEF ToSet
  <2>2. log[i] \in Data
    BY DEF TypeInv
  <2> QED BY <2>1, <2>2 DEF Data, ListInv
<1>4. \A i \in DOMAIN entries :
         entries[i].prev <= entries[i].seen /\ entries[i].seen <= entries[i].tx /\ entries[i].tx < i
  BY DEF ListInv, EntriesFollow
<1>5. \A s \in Sessions : told[s] <= Len(entries) /\ heard[s] <= told[s] /\ Len(admitted[s]) <= ReplayLimit
  BY DEF ListInv, RateInv, RateAt
<1>6. ready \in [Sessions -> BOOLEAN] /\ subscribed \in [Sessions -> BOOLEAN]
  BY DEF TypeInv
<1> QED BY <1>1, <1>2, <1>3, <1>4, <1>5, <1>6 DEF TypeOK

LEMMA FactsMatch ==
    ASSUME Inv
    PROVE  FactsMatchAudit
<1> SUFFICES ASSUME \A s \in Sessions : call[s] = Idle
             PROVE  /\ Cardinality(Claimed) <= Len(log)
                    /\ Len(log) <= Cardinality(Claimed) + Cardinality(FailedAnswers)
  BY DEF FactsMatchAudit, Claimed, FailedAnswers
<1>1. Owed = {} /\ Failing = {}
  BY DEF Owed, Failing, Idle
<1>2. Cardinality(Owed) = 0 /\ Cardinality(Failing) = 0
  BY <1>1, NoneCounted
<1>3. /\ Cardinality(Claimed) \in Nat /\ Cardinality(FailedAnswers) \in Nat /\ Len(log) \in Nat
      /\ Cardinality(Claimed) + Cardinality(Owed) <= Len(log)
      /\ Len(log) <= Cardinality(Claimed) + Cardinality(Owed) + Cardinality(FailedAnswers) + Cardinality(Failing)
  BY ClaimCounts, CountIs DEF Inv, ClaimInv
<1> QED BY <1>2, <1>3

(* Every call that reaches its handler leaves one entry, with its verdict  *)
(* and in the order of the answers, whatever is appended between the       *)
(* handler's work and _emit_audit (_tools.py:117-168), and at rest the     *)
(* store holds a change for each entry that claims one and none besides    *)
(* but those of calls that failed inside transact.                         *)
THEOREM AuditMatches == Spec => []AuditAgrees
<1>1. Inv => AuditAgrees
  BY TypesOK, FactsMatch DEF Inv, AuditAgrees
<1> QED BY <1>1, Invariance, PTL

(* A recall is answered after other sessions have gone on storing: what it *)
(* found and what it left out are those of the store it read.              *)
THEOREM RecallsComplete == Spec => []RecallComplete
<1>1. ASSUME Inv PROVE RecallComplete
  <2> SUFFICES ASSUME NEW s \in Sessions, NEW i \in DOMAIN answers[s],
                      answers[s][i].verb = "recall", answers[s][i].verdict = "ok"
               PROVE  /\ IsInjective(answers[s][i].hits)
                      /\ \A j \in 1 .. answers[s][i].size :
                           \/ log[j].e \in ToSet(answers[s][i].hits)
                           \/ \E l \in 1 .. answers[s][i].size : log[l].e = log[j].e /\ log[l].op = "retract"
                           \/ Len(answers[s][i].hits) = answers[s][i].k
    BY Zenon DEF RecallComplete
  <2>1. SoundIn(answers[s][i], log, entries)
    BY <1>1, Zenon DEF Inv, AnswerInv, Sound
  <2> QED BY <2>1, Zenon DEF SoundIn
<1> QED BY <1>1, Invariance, PTL

(* A check that reports a broken chain has an entry in its window that     *)
(* explains it, and no stretch of the window holds more answered checks    *)
(* than the limiter allows, though it counts a check when it begins.       *)
THEOREM ReplaysSound == Spec => []ReplaySound
<1>1. ASSUME Inv PROVE MismatchExplained
  <2> SUFFICES ASSUME NEW s \in Sessions, NEW i \in DOMAIN answers[s],
                      answers[s][i].verb = "replay", answers[s][i].reason = "mismatch"
               PROVE  \E j \in answers[s][i].window : entries[j].kind # "mcp" \/ entries[j].seen # j - 1
    BY Zenon DEF MismatchExplained
  <2>1. SoundIn(answers[s][i], log, entries)
    BY <1>1, Zenon DEF Inv, AnswerInv, Sound
  <2> QED BY <2>1, Zenon DEF SoundIn
<1>2. ASSUME Inv PROVE ReplayRateHolds
  <2> SUFFICES ASSUME NEW s \in Sessions, NEW t \in 0 .. MaxTime
               PROVE  Cardinality({i \in DOMAIN answers[s] :
                         /\ answers[s][i].verb = "replay" /\ answers[s][i].verdict = "ok"
                         /\ answers[s][i].time \in t - ReplayWindow .. t}) <= ReplayLimit
    BY DEF ReplayRateHolds
  <2>1. t \in Int /\ ReplayLimit \in Nat
    BY McpAssumption
  <2>2. Checked(s, Around(t)) <= ReplayLimit
    BY <1>2, <2>1 DEF Inv, RateInv, RateAt
  <2>3. /\ Cardinality(Answered(s, Around(t))) \in Nat /\ UnderWay(s, Around(t)) \in {0, 1}
        /\ Checked(s, Around(t)) = Cardinality(Answered(s, Around(t))) + UnderWay(s, Around(t))
    BY <1>2, CheckedIs DEF Inv, Checked
  <2>4. Cardinality(Answered(s, Around(t))) <= ReplayLimit
    BY <2>1, <2>2, <2>3
  <2>5. Answered(s, Around(t)) = {i \in DOMAIN answers[s] :
                         /\ answers[s][i].verb = "replay" /\ answers[s][i].verdict = "ok"
                         /\ answers[s][i].time \in t - ReplayWindow .. t}
    BY DEF Answered, Around, Admits
  <2> QED BY <2>4, <2>5
<1> QED BY <1>1, <1>2, Invariance, PTL DEF ReplaySound

(* A subscriber is told of the entry its call left before it can make the  *)
(* next one, whatever others appended before the length was compared       *)
(* (_server.py:471-485).                                                   *)
THEOREM SubscribersHear == Spec => SubscriberHears
<1>1. ASSUME Inv, [Next]_vars
      PROVE  [\A s \in Sessions : answers'[s] # answers[s] /\ subscribed[s] => heard'[s] = Len(entries)]_vars
  <2>1. ASSUME NEW o \in Sessions, answers'[o] # answers[o], subscribed[o] PROVE heard'[o] = Len(entries)
    <3>1. PICK s \in Sessions : Answer(s)
      <4>1. Quiet => UNCHANGED answers
        BY DEF Quiet
      <4>2. \A e : Foreign(e) => UNCHANGED answers
        BY DEF Foreign
      <4>3. \A s, c : Begun(s, c) \/ Failed(s, c) \/ Tailed(s, c) => UNCHANGED answers
        BY DEF Begun, Failed, Tailed
      <4>4. \A s, c, x : Committed(s, c, x) \/ Appended(s, c, x) => UNCHANGED answers
        BY DEF Committed, Appended
      <4>5. ~ UNCHANGED answers
        BY <2>1
      <4> QED BY <1>1, <4>1, <4>2, <4>3, <4>4, <4>5, StepIs, Zenon DEF Inv
    <3>2. s = o
      BY <1>1, <2>1, <3>1 DEF Answer, Inv, TypeInv
    <3>3. call[o] # Idle /\ call[o].step = "notify"
      BY <3>1, <3>2 DEF Answer, Idle
    <3>4. told[o] < Len(entries)
      BY <1>1, <3>3 DEF Inv, AnswerInv, CallInv
    <3>5. heard' = [heard EXCEPT ![o] = IF subscribed[o] /\ Grown(o) THEN Len(entries) ELSE heard[o]]
      BY <3>1, <3>2 DEF Answer
    <3>6. Grown(o)
      BY <1>1, <3>4 DEF Grown, Inv, TypeInv
    <3> QED BY <1>1, <2>1, <3>5, <3>6 DEF Inv, TypeInv
  <2> QED BY <2>1
<1> QED BY <1>1, Invariance, PTL DEF Spec, SubscriberHears

=============================================================================
