---------------------------- MODULE DosyncProofs ----------------------------
(***************************************************************************)
(* Proofs about Dosync.tla, for every number of threads, references,       *)
(* retries and operations.                                                 *)
(***************************************************************************)
EXTENDS Dosync, TLAPS

(* Tx ids are allocated in order; an allocated one alone is invalidated.   *)
TxBound == /\ \A d \in log : d.tx <= lastTx
           /\ \A n \in dead : n <= lastTx

(* (valid_from, tx) orders the datoms of one reference, and so does tx, so *)
(* every view of it has a newest and a last one: the CHOOSE in Newest and  *)
(* in LastIn picks something.                                              *)
Ordered == \A r \in Refs : \A S \in SUBSET On(r) :
              S # {} => /\ \E d \in S : IsNewest(d, S)
                        /\ \E d \in S : IsLast(d, S)

TypeInv == TypeOK /\ TxBound /\ Ordered
-----------------------------------------------------------------------------
(* A newest datom is the only one: Newest returns it.                      *)
LEMMA NewestUnique ==
    ASSUME NEW S, S \subseteq Datoms, NEW d \in S, IsNewest(d, S)
    PROVE  Newest(S) = d
<1>1. \A x \in S : IsNewest(x, S) => x = d
  <2>1. SUFFICES ASSUME NEW x \in S, IsNewest(x, S), x # d PROVE FALSE
    OBVIOUS
  <2>2. Beats(d, x) /\ Beats(x, d)
    BY <2>1 DEF IsNewest
  <2>3. /\ d.from \in Nat /\ x.from \in Nat
        /\ d.tx \in Nat /\ x.tx \in Nat
    BY DEF Datoms
  <2> QED BY <2>2, <2>3 DEF Beats
<1> QED BY <1>1 DEF Newest

(* Every view of a reference reads as a natural number.                    *)
LEMMA ValueInNat ==
    ASSUME TypeOK, Ordered, NEW r \in Refs, NEW S \in SUBSET On(r)
    PROVE  ValueIn(S) \in Nat
<1>1. CASE S = {}
  BY <1>1 DEF ValueIn
<1>2. CASE S # {}
  <2>1. PICK d \in S : IsNewest(d, S)
    BY <1>2 DEF Ordered
  <2>2. S \subseteq Datoms
    BY DEF On, TypeOK
  <2>3. Newest(S) = d
    BY <2>1, <2>2, NewestUnique
  <2>4. d.v \in Nat
    BY <2>2 DEF Datoms
  <2> QED BY <1>2, <2>3, <2>4 DEF ValueIn
<1> QED BY <1>1, <1>2

LEMMA CurrentNat ==
    ASSUME TypeOK, Ordered, NEW r \in Refs
    PROVE  Current(r) \in Nat
BY ValueInNat DEF Current

LEMMA AsOfNat ==
    ASSUME TypeOK, Ordered, NEW r \in Refs, NEW time
    PROVE  AsOf(r, time) \in Nat
<1>1. {d \in On(r) : d.time <= time} \in SUBSET On(r)
  OBVIOUS
<1> QED BY <1>1, ValueInNat DEF AsOf

(* The tx ids that an overwrite invalidates are tx ids of the log.         *)
LEMMA SupersededInLog ==
    ASSUME TypeInv, NEW rs \in SUBSET Refs, NEW n \in Superseded(rs)
    PROVE  /\ \E d \in log : d.e \in rs /\ d.tx = n
           /\ n \in Nat /\ n <= lastTx
<1>1. PICK r \in rs : Open(r) # {} /\ n = LastIn(Open(r)).tx
  BY DEF Superseded
<1>2. Open(r) \in SUBSET On(r) /\ r \in Refs
  BY DEF Open
<1>3. LastIn(Open(r)) \in Open(r)
  BY <1>1, <1>2 DEF LastIn, TypeInv, Ordered
<1>4. LastIn(Open(r)) \in log /\ LastIn(Open(r)).e = r
  BY <1>3 DEF Open, On
<1> QED BY <1>1, <1>4 DEF TypeInv, TypeOK, TxBound, Datoms

LEMMA AtomValueNat ==
    ASSUME TypeInv, NEW r \in Refs
    PROVE  AtomValue(r) \in Nat
<1>1. CASE Open(r) = {}
  BY <1>1 DEF AtomValue
<1>2. CASE Open(r) # {}
  <2>1. Open(r) \in SUBSET On(r)
    BY DEF Open
  <2>2. LastIn(Open(r)) \in Open(r)
    BY <1>2, <2>1 DEF LastIn, TypeInv, Ordered
  <2>3. LastIn(Open(r)) \in Datoms
    BY <2>2 DEF Open, On, TypeInv, TypeOK
  <2> QED BY <1>2, <2>3 DEF AtomValue, Datoms
<1> QED BY <1>1, <1>2

(* What a batch adds to the log: at most one datom per reference, with a   *)
(* tx id no earlier datom has.                                             *)
LEMMA BatchDatoms ==
    ASSUME TypeInv, NEW t \in Threads, NEW time \in Nat, now' \in Nat,
           AppendBatch(t, time)
    PROVE  /\ log' \subseteq Datoms
           /\ log \subseteq log'
           /\ \A d \in log' \ log :
                 /\ facts[t][d.e] # None /\ d.v = facts[t][d.e]
                 /\ d.tx = lastTx + 1 /\ d.time = time
                 /\ d.from = ValidFrom(t, d.e) /\ d.by = t
           /\ \A r \in Refs : facts[t][r] # None =>
                 \E d \in log' \ log : d.e = r
<1> DEFINE new(r) == [e |-> r, v |-> facts[t][r], tx |-> lastTx + 1,
                      time |-> time, from |-> ValidFrom(t, r), by |-> t]
<1>1. log' = log \cup {new(r) : r \in {x \in Refs : facts[t][x] # None}}
  BY DEF AppendBatch, Written
<1>2. \A r \in Refs : ValidFrom(t, r) \in Nat
  BY DEF ValidFrom, TypeInv, TypeOK
<1>3. \A r \in Refs : facts[t][r] # None => new(r) \in Datoms
  <2>1. \A r \in Refs : facts[t][r] # None => facts[t][r] \in Nat
    BY DEF TypeInv, TypeOK, Dicts
  <2>2. lastTx + 1 \in Nat
    BY DEF TypeInv, TypeOK
  <2> QED BY <2>1, <2>2, <1>2 DEF Datoms
<1>4. \A r \in Refs : new(r) \notin log
  <2>1. \A r \in Refs : new(r).tx = lastTx + 1
    OBVIOUS
  <2> QED BY <2>1 DEF TypeInv, TypeOK, TxBound
<1>5. log' \subseteq Datoms
  BY <1>1, <1>3 DEF TypeInv, TypeOK
<1>6. ASSUME NEW d \in log' \ log
      PROVE  /\ facts[t][d.e] # None /\ d.v = facts[t][d.e]
             /\ d.tx = lastTx + 1 /\ d.time = time
             /\ d.from = ValidFrom(t, d.e) /\ d.by = t
  <2>1. PICK r \in Refs : facts[t][r] # None /\ d = new(r)
    BY <1>1
  <2> QED BY <2>1
<1>7. ASSUME NEW r \in Refs, facts[t][r] # None
      PROVE  \E d \in log' \ log : d.e = r
  <2>1. new(r) \in log' \ log
    BY <1>1, <1>4, <1>7
  <2>2. new(r).e = r
    OBVIOUS
  <2> QED BY <2>1, <2>2
<1>8. log \subseteq log'
  BY <1>1
<1> QED BY <1>5, <1>6, <1>7, <1>8

(* Among the datoms of one reference with distinct tx ids, Beats is total  *)
(* and transitive.                                                         *)
LEMMA BeatsOrder ==
    ASSUME NEW d \in Datoms, NEW m \in Datoms, d.tx # m.tx
    PROVE  /\ Beats(d, m) \/ Beats(m, d)
           /\ \A x \in Datoms : Beats(m, x) /\ Beats(d, m) => Beats(d, x)
<1>1. /\ d.from \in Nat /\ d.tx \in Nat /\ m.from \in Nat /\ m.tx \in Nat
      /\ \A x \in Datoms : x.from \in Nat /\ x.tx \in Nat
  BY DEF Datoms
<1> QED BY <1>1 DEF Beats

(* Appending a batch keeps every reference ordered.                        *)
LEMMA BatchOrdered ==
    ASSUME TypeInv, NEW t \in Threads, NEW time \in Nat, now' \in Nat,
           AppendBatch(t, time), dead' \subseteq dead \cup Superseded(Refs)
    PROVE  TxBound' /\ Ordered'
<1>1. /\ log' \subseteq Datoms /\ log \subseteq log' /\ log \subseteq Datoms
      /\ \A d \in log' \ log : d.tx = lastTx + 1
      /\ lastTx \in Nat /\ lastTx' = lastTx + 1
  BY BatchDatoms DEF AppendBatch, TypeInv, TypeOK
<1>2. TxBound'
  <2>1. \A d \in log : d.tx \in Nat /\ d.tx <= lastTx
    BY <1>1 DEF TypeInv, TxBound, Datoms
  <2>2. \A n \in dead' : n \in Nat /\ n <= lastTx
    BY SupersededInLog DEF TypeInv, TypeOK, TxBound
  <2> QED BY <1>1, <2>1, <2>2 DEF TxBound
<1>3. ASSUME NEW r \in Refs, NEW d \in log' \ log, NEW x \in log' \ log,
             d.e = r, x.e = r
      PROVE  d = x
  <2>1. \A y \in log' \ log :
           y = [e |-> y.e, v |-> facts[t][y.e], tx |-> lastTx + 1,
                time |-> time, from |-> ValidFrom(t, y.e), by |-> t]
    BY DEF AppendBatch, Written
  <2> QED BY <2>1, <1>3
<1>4. Ordered'
  <2>1. SUFFICES ASSUME NEW r \in Refs, NEW S \in SUBSET On(r)', S # {}
                 PROVE  /\ \E d \in S : IsNewest(d, S)
                        /\ \E d \in S : IsLast(d, S)
    BY DEF Ordered, IsNewest, IsLast, Beats
  <2> DEFINE Old == S \cap log
  <2>2. S \subseteq Datoms /\ \A d \in S : d.e = r
    BY <1>1 DEF On
  <2>3. Old \in SUBSET On(r)
    BY <2>2 DEF On
  <2>4. CASE S \subseteq log
    BY <2>3, <2>4, S # {} DEF TypeInv, Ordered
  <2>5. CASE ~(S \subseteq log)
    <3>1. PICK d \in S : d \notin log
      BY <2>5
    <3>2. d \in log' \ log /\ d.tx = lastTx + 1
      BY <3>1, <1>1 DEF On
    <3>3. S = Old \cup {d}
      <4>1. \A x \in S : x \in log \/ x = d
        BY <3>2, <2>2, <1>3 DEF On
      <4> QED BY <4>1
    <3>4. \A x \in S : x.tx <= d.tx
      <4>1. \A x \in Old : x.tx \in Nat /\ x.tx <= lastTx
        BY <2>2 DEF TypeInv, TxBound, Datoms
      <4> QED BY <3>2, <3>3, <4>1, <1>1
    <3>5. \E y \in S : IsLast(y, S)
      BY <3>4 DEF IsLast
    <3>6. CASE Old = {}
      BY <3>3, <3>6, <3>5 DEF IsNewest
    <3>7. CASE Old # {}
      <4>1. PICK m \in Old : IsNewest(m, Old)
        BY <3>7, <2>3 DEF TypeInv, Ordered
      <4>2. d.tx # m.tx
        BY <3>2, <1>1 DEF TypeInv, TxBound, Datoms
      <4>3. d \in Datoms /\ m \in Datoms /\ m \in S
        BY <2>2
      <4>4. CASE Beats(m, d)
        <5>1. IsNewest(m, S)
          BY <3>3, <4>1, <4>4 DEF IsNewest
        <5> QED BY <5>1, <4>3, <3>5
      <4>5. CASE Beats(d, m)
        <5>1. \A x \in Old : Beats(d, x)
          BY <4>1, <4>2, <4>3, <4>5, <2>2, BeatsOrder DEF IsNewest
        <5>2. IsNewest(d, S)
          BY <3>3, <5>1 DEF IsNewest
        <5> QED BY <5>2, <3>5
      <4> QED BY <4>2, <4>3, <4>4, <4>5, BeatsOrder
    <3> QED BY <3>6, <3>7
  <2> QED BY <2>4, <2>5
<1> QED BY <1>2, <1>4
-----------------------------------------------------------------------------
(* The steps, for the case analyses below: those that only end a call, and *)
(* the four ways to write an atom, are taken together.                     *)
Ends(t) ==
    /\ \/ pc[t] \in {"start", "body"} /\ \E to \in {"exhausted", "failed"} : Goto(t, to)
       \/ pc[t] = "replay" /\ Goto(t, "effect_failed")
    /\ UNCHANGED <<now, storeVars, lock, attempt, tStart, txnVars, outVars>>

AtomWriteOn(t, r) ==
    /\ t \in Swappers /\ pc[t] = "start"
    /\ \E seen \in {None, AtomValue(r)}, v \in AssocVals \cup {AtomValue(r) + 1} :
          AtomWrite(t, r, seen, v)

LEMMA StepCases ==
    ASSUME NEW t \in Threads, Step(t)
    PROVE  \/ Begin(t) \/ Ends(t) \/ Body(t) \/ Build(t) \/ Conflict(t)
           \/ Check(t) \/ Append(t) \/ FailLocked(t) \/ Perform(t)
           \/ \E r \in AtomRefs : AtomWriteOn(t, r)
           \/ \E r \in RawRefs, v \in AssocVals : RawBegin(t, r, v)
           \/ RawAppend(t) \/ RawMark(t)
<1>1. Exhaust(t) \/ MissDeadline(t) \/ Raise(t) \/ AuditStackMissing(t)
         \/ PerformRaises(t) => Ends(t)
  BY DEF Exhaust, MissDeadline, Raise, AuditStackMissing, PerformRaises, Ends
<1>2. AtomCall(t) => Ends(t) \/ \E r \in AtomRefs : AtomWriteOn(t, r)
  <2>1. ASSUME NEW r \in AtomRefs, Swap(t, r) PROVE AtomWriteOn(t, r)
    BY <2>1 DEF Swap, AtomWriteOn
  <2>2. ASSUME NEW r \in AtomRefs, NEW v \in AssocVals,
               Reset(t, r, v) \/ NewAtom(t, r, v)
        PROVE  AtomWriteOn(t, r)
    BY <2>2 DEF Reset, NewAtom, AtomWriteOn
  <2>3. ASSUME NEW r \in AtomRefs, NEW old, NEW v \in AssocVals,
               CompareAndSet(t, r, old, v)
        PROVE  AtomWriteOn(t, r)
    BY <2>3 DEF CompareAndSet, AtomWriteOn
  <2>4. ASSUME NEW r, NEW old, AtomRefused(t, r, old) PROVE Ends(t)
    BY <2>4 DEF AtomRefused, Ends
  <2> QED BY <2>1, <2>2, <2>3, <2>4 DEF AtomCall
<1> QED BY <1>1, <1>2 DEF Step

LEMMA InitType == Init => TypeInv
<1> SUFFICES ASSUME Init PROVE TypeInv
  OBVIOUS
<1> USE DEF Init
<1>1. TypeOK
  BY ConstantsOK DEF TypeOK, Pcs, Dicts, NoEntry, Zero, None
<1>2. TxBound /\ Ordered
  BY DEF TxBound, Ordered, On
<1> QED BY <1>1, <1>2 DEF TypeInv

(* The log changes only in Append and RawAppend.                           *)
LEMMA QuietStep ==
    ASSUME TypeInv, TypeOK', UNCHANGED <<log, lastTx, dead>>
    PROVE  TypeInv'
BY DEF TypeInv, TxBound, Ordered, On, IsNewest, IsLast, Beats

LEMMA ClockNat == TypeOK /\ ReadClock => now' \in Nat
BY ConstantsOK DEF TypeOK, ReadClock

(* The operations of a body.                                               *)
LEMMA BodyType ==
    ASSUME TypeInv, NEW t \in Threads, Body(t)
    PROVE  TypeInv'
<1> USE DEF TypeInv
<1>1. /\ UNCHANGED <<now, log, lastTx, dead, last, lock, pc, attempt, tStart,
                      from, facts, marks, emitted>>
      /\ ops' \in [Threads -> Nat]
  <2>1. InBody(t)
    BY DEF Body, Deref, Assoc, Alter, Commute, Effect
  <2> QED BY <2>1 DEF InBody, TypeOK, storeVars, outVars
<1>2. \A r \in Refs : Reading(t, r) \in [Threads -> Dicts]
  <2> TAKE r \in Refs
  <2>1. AsOf(r, tStart[t]) \in Nat
    BY AsOfNat
  <2> QED BY <2>1 DEF Reading, TypeOK, Dicts
<1>3. \A r \in Refs : BodyValue(t, r) \in Nat
  <2> TAKE r \in Refs
  <2>1. AsOf(r, tStart[t]) \in Nat
    BY AsOfNat
  <2>2. queued[t][r] \in Nat /\ writeSet[t][r] \in Nat \cup {None}
    BY DEF TypeOK, Dicts
  <2> QED BY <2>1, <2>2 DEF BodyValue
<1>4. TypeOK'
  <2>1. ASSUME NEW r \in TxnRefs, Deref(t, r) PROVE TypeOK'
    BY <2>1, <1>1, <1>2, ConstantsOK DEF Deref, TypeOK
  <2>2. ASSUME NEW r \in TxnRefs, Alter(t, r) PROVE TypeOK'
    <3>1. r \in Refs
      BY ConstantsOK
    <3>2. writeSet' \in [Threads -> Dicts]
      BY <2>2, <3>1, <1>3 DEF Alter, TypeOK, Dicts
    <3> QED BY <2>2, <3>1, <3>2, <1>1, <1>2 DEF Alter, TypeOK
  <2>3. ASSUME NEW r \in TxnRefs, Commute(t, r) PROVE TypeOK'
    <3>1. queued' \in [Threads -> [Refs -> Nat]]
      BY <2>3, ConstantsOK DEF Commute, TypeOK
    <3> QED BY <2>3, <3>1, <1>1 DEF Commute, TypeOK
  <2>4. ASSUME NEW r \in TxnRefs, NEW v \in AssocVals, Assoc(t, r, v)
        PROVE TypeOK'
    <3>1. writeSet' \in [Threads -> Dicts]
      BY <2>4, ConstantsOK DEF Assoc, TypeOK, Dicts
    <3> QED BY <2>4, <3>1, <1>1 DEF Assoc, TypeOK
  <2>5. CASE Effect(t)
    <3>1. intents' \in [Threads -> Nat]
      BY <2>5 DEF Effect, TypeOK
    <3> QED BY <2>5, <3>1, <1>1 DEF Effect, TypeOK
  <2> QED BY <2>1, <2>2, <2>3, <2>4, <2>5 DEF Body
<1> QED BY <1>1, <1>4, QuietStep

(* The two steps that append.                                              *)
LEMMA AppendBatchType ==
    ASSUME TypeInv, NEW t \in Threads, NEW time \in Nat, now' \in Nat,
           AppendBatch(t, time), dead' \subseteq dead \cup Superseded(Refs)
    PROVE  /\ TxBound' /\ Ordered'
           /\ log' \subseteq Datoms /\ lastTx' \in Nat /\ dead' \subseteq Nat
           /\ last' \in [seen : Dicts, wrote : Dicts, added : [Refs -> Nat]]
<1>1. TxBound' /\ Ordered'
  BY BatchOrdered
<1>2. log' \subseteq Datoms
  BY BatchDatoms
<1>3. dead' \subseteq Nat
  BY SupersededInLog DEF TypeInv, TypeOK
<1> QED BY <1>1, <1>2, <1>3 DEF AppendBatch, TypeInv, TypeOK

(* The tx ids a plain transact is going to invalidate are in the log.      *)
MarksBound == \A t \in Threads : \A n \in marks[t] : n <= lastTx

LEMMA StepType ==
    ASSUME TypeInv, MarksBound, NEW t \in Threads, Step(t)
    PROVE  TypeInv'
<1> USE DEF TypeInv
<1>1. CASE Begin(t)
  <2>1. now' \in Nat
    BY <1>1, ClockNat DEF Begin
  <2>2. TypeOK'
    BY <1>1, <2>1
       DEF Begin, Goto, TypeOK, Pcs, NoEntry, Zero, Dicts, storeVars, outVars
  <2> QED BY <1>1, <2>2, QuietStep DEF Begin, storeVars
<1>2. CASE Ends(t)
  <2>1. TypeOK'
    BY <1>2, ZenonT(30) DEF Ends, Goto, TypeOK, Pcs, storeVars, txnVars, outVars
  <2> QED BY <1>2, <2>1, QuietStep DEF Ends, storeVars
<1>3. CASE Body(t)
  BY <1>3, BodyType
<1>4. CASE Build(t)
  <2>1. now' \in Nat
    BY <1>4, ClockNat DEF Build
  <2>2. TypeOK'
    BY <1>4, <2>1 DEF Build, Goto, TypeOK, Pcs, storeVars, txnVars
  <2> QED BY <1>4, <2>2, QuietStep DEF Build, storeVars
<1>5. CASE Conflict(t)
  <2>1. TypeOK'
    BY <1>5 DEF Conflict, Goto, TypeOK, Pcs, storeVars, txnVars, outVars
  <2> QED BY <1>5, <2>1, QuietStep DEF Conflict, storeVars
<1>6. CASE Check(t)
  <2>1. \A r \in Refs : ToWrite(t, r) \in Nat \cup {None}
    <3> TAKE r \in Refs
    <3>1. Current(r) \in Nat
      BY CurrentNat
    <3>2. queued[t][r] \in Nat /\ writeSet[t][r] \in Nat \cup {None}
      BY DEF TypeOK, Dicts
    <3> QED BY <3>1, <3>2 DEF ToWrite
  <2>2. facts' \in [Threads -> Dicts]
    BY <1>6, <2>1 DEF Check, TypeOK, Dicts
  <2>3. TypeOK'
    BY <1>6, <2>2, ConstantsOK
       DEF Check, Acquire, Goto, TypeOK, Pcs, storeVars, txnVars
  <2> QED BY <1>6, <2>3, QuietStep DEF Check, storeVars
<1>7. CASE Append(t)
  <2>1. now' \in Nat
    BY <1>7, ClockNat DEF Append
  <2>2. /\ pc' \in [Threads -> Pcs]
        /\ lock' \in [Procs -> Threads \cup {Free}]
    BY <1>7 DEF Append, Goto, Release, TypeOK, Pcs
  <2>3. CASE Retroactive(t)
    <3>1. TypeOK'
      BY <1>7, <2>1, <2>2, <2>3 DEF Append, TypeOK, storeVars, txnVars, outVars
    <3> QED BY <1>7, <2>3, <3>1, QuietStep DEF Append, storeVars
  <2>4. CASE ~Retroactive(t)
    <3>1. AppendBatch(t, now') /\ dead' = dead \cup Superseded(Written(t))
      BY <1>7, <2>4 DEF Append
    <3>2. Superseded(Written(t)) \subseteq Superseded(Refs)
      BY DEF Superseded, Written
    <3>3. /\ TxBound' /\ Ordered'
          /\ log' \subseteq Datoms /\ lastTx' \in Nat /\ dead' \subseteq Nat
          /\ last' \in [seen : Dicts, wrote : Dicts, added : [Refs -> Nat]]
      BY <2>1, <3>1, <3>2, AppendBatchType
    <3> QED BY <1>7, <2>1, <2>2, <3>3 DEF Append, TypeOK, txnVars, outVars
  <2> QED BY <2>3, <2>4
<1>8. CASE FailLocked(t)
  <2>1. TypeOK'
    BY <1>8 DEF FailLocked, Release, Goto, TypeOK, Pcs, storeVars, txnVars,
                outVars
  <2> QED BY <1>8, <2>1, QuietStep DEF FailLocked, storeVars
<1>9. CASE Perform(t)
  <2>1. TypeOK'
    BY <1>9 DEF Perform, Goto, TypeOK, Pcs, storeVars, txnVars
  <2> QED BY <1>9, <2>1, QuietStep DEF Perform, storeVars
<1>10. ASSUME NEW r \in AtomRefs, AtomWriteOn(t, r) PROVE TypeInv'
  <2>1. PICK seen \in {None, AtomValue(r)},
             v \in AssocVals \cup {AtomValue(r) + 1} : AtomWrite(t, r, seen, v)
    BY <1>10 DEF AtomWriteOn
  <2>2. r \in Refs /\ seen \in Nat \cup {None} /\ v \in Nat
    BY ConstantsOK, AtomValueNat
  <2>3. now' \in Nat
    BY <2>1, ClockNat DEF AtomWrite
  <2>4. /\ readSet' \in [Threads -> Dicts] /\ writeSet' \in [Threads -> Dicts]
        /\ facts' \in [Threads -> Dicts]
    BY <2>1, <2>2 DEF AtomWrite, TypeOK, Dicts
  <2>5. TypeOK'
    BY <2>1, <2>3, <2>4, ConstantsOK
       DEF AtomWrite, Acquire, Goto, TypeOK, Pcs, storeVars
  <2> QED BY <2>1, <2>5, QuietStep DEF AtomWrite, storeVars
<1>11. ASSUME NEW r \in RawRefs, NEW v \in AssocVals, RawBegin(t, r, v)
       PROVE TypeInv'
  <2>1. r \in Refs /\ v \in Nat
    BY ConstantsOK
  <2>2. now' \in Nat
    BY <1>11, ClockNat DEF RawBegin
  <2>3. writeSet' \in [Threads -> Dicts] /\ facts' \in [Threads -> Dicts]
    BY <1>11, <2>1 DEF RawBegin, TypeOK, Dicts
  <2>4. Superseded({r}) \subseteq Nat
    BY <2>1, SupersededInLog
  <2>5. TypeOK'
    BY <1>11, <2>2, <2>3, <2>4 DEF RawBegin, Goto, TypeOK, Pcs, storeVars
  <2> QED BY <1>11, <2>5, QuietStep DEF RawBegin, storeVars
<1>12. CASE RawAppend(t)
  <2>1. /\ AppendBatch(t, tStart[t]) /\ tStart[t] \in Nat /\ now' \in Nat
        /\ dead' = dead
    BY <1>12 DEF RawAppend, TypeOK
  <2>2. /\ TxBound' /\ Ordered'
        /\ log' \subseteq Datoms /\ lastTx' \in Nat
        /\ last' \in [seen : Dicts, wrote : Dicts, added : [Refs -> Nat]]
    BY <2>1, AppendBatchType
  <2> QED BY <1>12, <2>1, <2>2 DEF RawAppend, Goto, TypeOK, Pcs, txnVars, outVars
<1>13. CASE RawMark(t)
  <2>1. TypeOK'
    BY <1>13 DEF RawMark, Goto, TypeOK, Pcs, txnVars, outVars
  <2>2. TxBound'
    BY <1>13 DEF RawMark, TxBound, MarksBound
  <2> QED BY <1>13, <2>1, <2>2 DEF RawMark, Ordered, On, IsNewest, IsLast, Beats
<1> QED BY <1>1, <1>2, <1>3, <1>4, <1>5, <1>6, <1>7, <1>8, <1>9, <1>10, <1>11,
           <1>12, <1>13, StepCases

LEMMA MarksStep ==
    ASSUME TypeInv, MarksBound, NEW t \in Threads, Step(t)
    PROVE  MarksBound'
<1> USE DEF TypeInv
<1>1. lastTx \in Nat /\ (lastTx' = lastTx \/ lastTx' = lastTx + 1)
  BY StepCases
     DEF TypeOK, Body, Deref, Alter, Commute, Assoc, Effect, InBody, Begin, Ends,
         Build, Conflict, Check, Append, AppendBatch, FailLocked, Perform,
         AtomWriteOn, AtomWrite, RawBegin, RawAppend, RawMark, storeVars
<1>2. \/ marks' = marks
      \/ \E r \in RawRefs : marks' = [marks EXCEPT ![t] = Superseded({r})]
  BY StepCases
     DEF Body, Deref, Alter, Commute, Assoc, Effect, InBody, Begin, Ends,
         Build, Conflict, Check, Append, FailLocked, Perform, AtomWriteOn,
         AtomWrite, RawBegin, RawAppend, RawMark, outVars
<1>3. \A u \in Threads : \A n \in marks'[u] : n \in Nat /\ n <= lastTx
  <2>1. \A u \in Threads : \A n \in marks[u] : n \in Nat /\ n <= lastTx
    BY DEF TypeOK, MarksBound
  <2>2. \A r \in RawRefs : \A n \in Superseded({r}) : n \in Nat /\ n <= lastTx
    BY ConstantsOK, SupersededInLog
  <2> QED BY <1>2, <2>1, <2>2 DEF TypeOK
<1> QED BY <1>1, <1>3 DEF MarksBound

(* Every variable keeps its type, and Newest and LastIn are never asked to *)
(* choose from nothing: every read of the log by deref, by a commute or by *)
(* an atom returns a value.                                                *)
THEOREM TypeCorrect == Spec => [](TypeOK /\ Ordered)
<1>1. TypeInv /\ MarksBound /\ [Next]_vars => TypeInv' /\ MarksBound'
  <2> SUFFICES ASSUME TypeInv, MarksBound, [Next]_vars
               PROVE  TypeInv' /\ MarksBound'
    OBVIOUS
  <2>1. ASSUME NEW t \in Threads, Step(t) PROVE TypeInv' /\ MarksBound'
    BY <2>1, StepType, MarksStep
  <2>2. CASE UNCHANGED vars
    <3>1. TypeOK'
      BY <2>2 DEF TypeInv, TypeOK, vars, storeVars, txnVars, outVars
    <3>2. MarksBound'
      BY <2>2 DEF MarksBound, vars, storeVars, outVars
    <3> QED BY <2>2, <3>1, <3>2, QuietStep DEF vars, storeVars
  <2> QED BY <2>1, <2>2 DEF Next, Terminating
<1>2. Init => MarksBound
  BY DEF Init, MarksBound
<1>3. TypeInv => TypeOK /\ Ordered
  BY DEF TypeInv
<1> QED BY InitType, <1>1, <1>2, <1>3, PTL DEF Spec
-----------------------------------------------------------------------------
(***************************************************************************)
(* Dosync implements SerialStore when all threads share one store._lock,   *)
(* the clock never returns the same reading twice, plain transacts (by one *)
(* thread) stay off the references of dosync bodies and atoms, and a       *)
(* dosync that may write an atom writes nothing else.  The runs of         *)
(* DosyncTwoProcesses, DosyncPlainTransact and DosyncSharedAtom show what  *)
(* happens without the first, the third and the fourth.                    *)
(***************************************************************************)
OneLock       == \A t, u \in Threads : ProcOf[t] = ProcOf[u]
ClockAdvances == \A k \in Ticks : k > 0
RawApart      == /\ RawRefs \cap (TxnRefs \cup AtomRefs) = {}
                 /\ \A t, u \in RawWriters : t = u
AtomsApart    == \A r \in AtomRefs \cap TxnRefs : TxnRefs = {r}
Premises      == OneLock /\ ClockAdvances /\ RawApart /\ AtomsApart

(* Which thread can be where.                                              *)
Places ==
    \A t \in Threads :
        /\ pc[t] \in {"body", "build"} => t \in Txns
        /\ pc[t] = "locked" => t \in Txns \cup Swappers
        /\ pc[t] \in {"raw", "mark"} => t \in RawWriters

(* A thread past its check holds the lock.                                 *)
LockHeld == \A t \in Threads : pc[t] = "locked" => lock[ProcOf[t]] = t

(* Snapshots lie in the past, and valid_from is read after the snapshot.   *)
ClockBound ==
    /\ \A t \in Threads : tStart[t] <= now /\ from[t] <= now
    /\ \A t \in Threads : pc[t] = "build" => tStart[t] <= from[t]
    /\ \A t \in Threads : pc[t] = "raw" => from[t] = tStart[t]

(* A datom starts before it is recorded.                                   *)
Recorded == \A d \in log : d.from <= d.time /\ d.time <= now

(* Dosync bodies keep to TxnRefs, atoms to AtomRefs.                       *)
Footprint ==
    /\ \A t \in Txns, r \in Refs :
          readSet[t][r] # None \/ writeSet[t][r] # None \/ queued[t][r] > 0
             => r \in TxnRefs
    /\ \A t \in Swappers, r \in Refs : facts[t][r] # None => r \in AtomRefs

(* An atom call reads and writes its own reference only.                   *)
SwapFresh ==
    \A t \in Swappers :
        /\ queued[t] = Zero
        /\ \A q, r \in Refs : facts[t][q] # None /\ facts[t][r] # None => q = r
        /\ pc[t] = "start" => /\ readSet[t] = NoEntry /\ writeSet[t] = NoEntry
                              /\ facts[t] = NoEntry

(* A plain transact has no read set and no commutes and is the only writer *)
(* of its references: it finds nothing to invalidate.                      *)
RawAlone ==
    /\ \A t \in RawWriters :
          /\ readSet[t] = NoEntry /\ queued[t] = Zero
          /\ facts[t] = writeSet[t] /\ marks[t] = {}
          /\ pc[t] = "start" => writeSet[t] = NoEntry
          /\ \A r \in Refs : writeSet[t][r] # None => r \in RawRefs
    /\ \A d \in log : d.e \in RawRefs
          => d.by \in RawWriters /\ pc[d.by] \in {"mark", "committed"}

(* The write to an atom is alone in its tx, so no overwrite of another     *)
(* reference invalidates it: the newest assert on the atom is the last and *)
(* is open.                                                                *)
AtomAlone ==
    \A d, x \in log : d.e \in AtomRefs /\ d.tx = x.tx => d = x

AtomOpen ==
    \A r \in AtomRefs : On(r) # {} =>
        \E d \in On(r) : /\ IsNewest(d, On(r)) /\ IsLast(d, On(r))
                         /\ d.tx \notin dead

(* Under the lock what was read is current and the facts are up to date.   *)
Ready ==
    \A t \in Threads : pc[t] = "locked" =>
        \A r \in Refs : /\ readSet[t][r] \in {None, Current(r)}
                        /\ facts[t][r] = ToWrite(t, r)

IInv == /\ TypeInv /\ MarksBound
        /\ Places /\ LockHeld /\ ClockBound /\ Recorded /\ Footprint
        /\ SwapFresh /\ RawAlone /\ AtomAlone /\ AtomOpen
        /\ SnapshotStable /\ Ready /\ NeverRetroactive
-----------------------------------------------------------------------------
(* A view of a reference that ends before the batch does not see it.       *)
LEMMA ViewKept ==
    ASSUME TypeInv, NEW t \in Threads, NEW time \in Nat, now' \in Nat,
           AppendBatch(t, time), NEW r \in Refs, NEW T \in Nat,
           facts[t][r] = None \/ time > T
    PROVE  {d \in On(r)' : d.time <= T} = {d \in On(r) : d.time <= T}
<1>1. /\ log \subseteq log'
      /\ \A d \in log' \ log : facts[t][d.e] # None /\ d.time = time
  BY BatchDatoms
<1>2. \A d \in log' \ log : d.e = r => ~(d.time <= T)
  BY <1>1
<1> QED BY <1>1, <1>2 DEF On

(* A reference the batch leaves alone keeps its value; one it writes has   *)
(* the written value, unless that starts before the value it replaces.     *)
LEMMA BatchCurrent ==
    ASSUME TypeInv, NEW t \in Threads, NEW time \in Nat, now' \in Nat,
           AppendBatch(t, time), NEW r \in Refs,
           facts[t][r] # None => \A d \in On(r) : d.from <= ValidFrom(t, r)
    PROVE  /\ Current(r)' = IF facts[t][r] = None THEN Current(r)
                                                   ELSE facts[t][r]
           /\ facts[t][r] # None => \E d \in log' \ log :
                 /\ d.e = r /\ d.tx = lastTx + 1
                 /\ IsNewest(d, On(r)') /\ IsLast(d, On(r)')
<1>1. /\ log' \subseteq Datoms /\ log \subseteq log'
      /\ \A d \in log' \ log :
            /\ facts[t][d.e] # None /\ d.v = facts[t][d.e]
            /\ d.tx = lastTx + 1 /\ d.from = ValidFrom(t, d.e)
      /\ facts[t][r] # None => \E d \in log' \ log : d.e = r
  BY BatchDatoms
<1>2. CASE facts[t][r] = None
  <2>1. On(r)' = On(r)
    BY <1>1, <1>2 DEF On
  <2> QED BY <2>1, <1>2 DEF Current
<1>3. CASE facts[t][r] # None
  <2>1. PICK d \in log' \ log : d.e = r
    BY <1>1, <1>3
  <2>2. /\ d \in On(r)' /\ d.v = facts[t][r] /\ d.tx = lastTx + 1
        /\ d.from = ValidFrom(t, r) /\ On(r)' \subseteq Datoms
    BY <1>1, <2>1 DEF On
  <2>3. ASSUME NEW x \in On(r)' PROVE x = d \/ Beats(d, x)
    <3>1. x \in Datoms /\ d \in Datoms
      BY <2>2
    <3>2. CASE x \in log
      <4>1. x \in On(r) /\ x.tx <= lastTx
        BY <3>2, <2>3 DEF On, TypeInv, TxBound
      <4>2. x.from <= d.from /\ x.tx < d.tx
        BY <4>1, <3>1, <2>2, <1>3 DEF Datoms, TypeInv, TypeOK
      <4>3. x.from \in Nat /\ d.from \in Nat
        BY <3>1 DEF Datoms
      <4> QED BY <4>2, <4>3 DEF Beats
    <3>3. CASE x \notin log
      <4>1. x \in log' \ log /\ x.e = r
        BY <3>3, <2>3 DEF On
      <4>2. \A y \in log' \ log :
               y = [e |-> y.e, v |-> facts[t][y.e], tx |-> lastTx + 1,
                    time |-> time, from |-> ValidFrom(t, y.e), by |-> t]
        BY DEF AppendBatch, Written
      <4> QED BY <4>1, <4>2, <2>1
    <3> QED BY <3>2, <3>3
  <2>4. IsNewest(d, On(r)')
    BY <2>3 DEF IsNewest
  <2>5. Newest(On(r)') = d
    BY <2>2, <2>4, NewestUnique
  <2>6. IsLast(d, On(r)')
    <3>1. \A x \in On(r)' : x.tx <= d.tx
      <4>1. \A x \in log : x.tx \in Nat /\ x.tx <= lastTx
        BY DEF TypeInv, TypeOK, TxBound, Datoms
      <4>2. \A x \in log' \ log : x.tx = lastTx + 1
        BY <1>1
      <4>3. lastTx \in Nat
        BY DEF TypeInv, TypeOK
      <4> QED BY <4>1, <4>2, <4>3, <2>2 DEF On
    <3> QED BY <3>1 DEF IsLast
  <2> QED BY <2>1, <2>2, <2>4, <2>5, <2>6, <1>3 DEF Current, ValueIn
<1> QED BY <1>2, <1>3

(* A step of one thread leaves the state of the others alone.              *)
LEMMA OthersKept ==
    ASSUME TypeInv, NEW t \in Threads, Step(t), NEW u \in Threads, u # t
    PROVE  /\ pc'[u] = pc[u] /\ tStart'[u] = tStart[u]
           /\ readSet'[u] = readSet[u] /\ writeSet'[u] = writeSet[u]
           /\ queued'[u] = queued[u] /\ facts'[u] = facts[u]
           /\ from'[u] = from[u] /\ marks'[u] = marks[u]
<1> DEFINE Kept == /\ pc'[u] = pc[u] /\ tStart'[u] = tStart[u]
                   /\ readSet'[u] = readSet[u] /\ writeSet'[u] = writeSet[u]
                   /\ queued'[u] = queued[u] /\ facts'[u] = facts[u]
                   /\ from'[u] = from[u] /\ marks'[u] = marks[u]
<1> USE DEF TypeInv, TypeOK, Goto, txnVars, outVars
<1>1. CASE Body(t)
  BY <1>1 DEF Body, Deref, Alter, Commute, Assoc, Effect, InBody, Reading
<1>2. CASE Begin(t) \/ Ends(t) \/ Build(t) \/ Conflict(t)
  BY <1>2 DEF Begin, Ends, Build, Conflict
<1>3. CASE Check(t) \/ Append(t) \/ FailLocked(t) \/ Perform(t)
           \/ RawAppend(t) \/ RawMark(t)
  BY <1>3 DEF Check, Append, FailLocked, Perform, RawAppend, RawMark
<1>4. ASSUME NEW r \in AtomRefs, AtomWriteOn(t, r) PROVE Kept
  BY <1>4 DEF AtomWriteOn, AtomWrite
<1>5. ASSUME NEW r \in RawRefs, NEW v \in AssocVals, RawBegin(t, r, v) PROVE Kept
  BY <1>5 DEF RawBegin
<1> QED BY <1>1, <1>2, <1>3, <1>4, <1>5, StepCases

(* The log grows in two ways only.                                         *)
LEMMA LogSteps ==
    ASSUME NEW t \in Threads, Step(t)
    PROVE  \/ UNCHANGED <<log, last>> /\ UNCHANGED <<lastTx, dead>>
           \/ UNCHANGED <<log, last>> /\ RawMark(t)
           \/ /\ Append(t) /\ AppendBatch(t, now')
              /\ dead' = dead \cup Superseded(Written(t))
           \/ RawAppend(t)
BY StepCases
   DEF Body, Deref, Alter, Commute, Assoc, Effect, InBody, Begin, Ends, Build,
       Conflict, Check, Append, FailLocked, Perform, AtomWriteOn, AtomWrite,
       RawBegin, RawMark, storeVars

(* Two threads are never past their checks at the same time, and nobody    *)
(* appends while another thread is.                                        *)
LEMMA Exclusion ==
    ASSUME IInv, OneLock, NEW t \in Threads, NEW u \in Threads, t # u,
           pc[u] = "locked"
    PROVE  ~LockFree(t) /\ pc[t] # "locked"
<1>1. lock[ProcOf[u]] = u /\ ProcOf[t] = ProcOf[u] /\ u # Free
  BY ConstantsOK DEF IInv, LockHeld, OneLock
<1>2. pc[t] = "locked" => lock[ProcOf[t]] = t
  BY DEF IInv, LockHeld
<1> QED BY <1>1, <1>2 DEF LockFree

LEMMA PlacesStep ==
    ASSUME IInv, NEW t \in Threads, Step(t)
    PROVE  Places'
<1> USE DEF IInv, TypeInv, TypeOK, Goto
<1> DEFINE At(u) == /\ pc'[u] \in {"body", "build"} => u \in Txns
                    /\ pc'[u] = "locked" => u \in Txns \cup Swappers
                    /\ pc'[u] \in {"raw", "mark"} => u \in RawWriters
<1>1. ASSUME NEW u \in Threads, u # t PROVE At(u)
  BY <1>1, OthersKept DEF Places
<1>2. At(t)
  <2>1. CASE Body(t)
    BY <2>1 DEF Body, Deref, Alter, Commute, Assoc, Effect, InBody, Places
  <2>2. CASE Begin(t) \/ Ends(t)
    BY <2>2 DEF Begin, Ends
  <2>3. CASE Build(t) \/ Conflict(t) \/ Check(t)
    BY <2>3 DEF Build, Conflict, Check, Places
  <2>4. CASE Append(t) \/ FailLocked(t) \/ Perform(t) \/ RawMark(t)
    BY <2>4 DEF Append, FailLocked, Perform, RawMark
  <2>5. CASE RawAppend(t)
    BY <2>5 DEF RawAppend, Places
  <2>6. ASSUME NEW r \in AtomRefs, AtomWriteOn(t, r) PROVE At(t)
    BY <2>6 DEF AtomWriteOn, AtomWrite
  <2>7. ASSUME NEW r \in RawRefs, NEW v \in AssocVals, RawBegin(t, r, v)
        PROVE At(t)
    BY <2>7 DEF RawBegin
  <2> QED BY <2>1, <2>2, <2>3, <2>4, <2>5, <2>6, <2>7, StepCases
<1> QED BY <1>1, <1>2 DEF Places

LEMMA LockHeldStep ==
    ASSUME IInv, OneLock, NEW t \in Threads, Step(t)
    PROVE  LockHeld'
<1> USE DEF IInv, TypeInv, TypeOK, Goto
<1>1. ASSUME NEW u \in Threads, u # t, pc'[u] = "locked"
      PROVE  lock'[ProcOf[u]] = u
  <2>1. pc[u] = "locked" /\ lock[ProcOf[u]] = u
    BY <1>1, OthersKept DEF LockHeld
  <2>2. ~LockFree(t) /\ pc[t] # "locked"
    BY <1>1, <2>1, Exclusion
  <2>3. lock' = lock
    BY <2>2, StepCases
       DEF Body, Deref, Alter, Commute, Assoc, Effect, InBody, Begin, Ends,
           Build, Conflict, Check, Append, FailLocked, Perform, AtomWriteOn,
           AtomWrite, Acquire, RawBegin, RawAppend, RawMark
  <2> QED BY <2>1, <2>3
<1>2. pc'[t] = "locked" => lock'[ProcOf[t]] = t
  <2>1. CASE Body(t)
    BY <2>1 DEF Body, Deref, Alter, Commute, Assoc, Effect, InBody, LockHeld
  <2>2. CASE Begin(t) \/ Ends(t) \/ Build(t) \/ Conflict(t) \/ Append(t)
             \/ FailLocked(t) \/ Perform(t) \/ RawAppend(t) \/ RawMark(t)
    BY <2>2 DEF Begin, Ends, Build, Conflict, Append, FailLocked, Perform,
                RawAppend, RawMark
  <2>3. CASE Check(t) \/ \E r \in AtomRefs : AtomWriteOn(t, r)
    BY <2>3, ConstantsOK DEF Check, AtomWriteOn, AtomWrite, Acquire
  <2>4. ASSUME NEW r \in RawRefs, NEW v \in AssocVals, RawBegin(t, r, v)
        PROVE pc'[t] # "locked"
    BY <2>4 DEF RawBegin
  <2> QED BY <2>1, <2>2, <2>3, <2>4, StepCases
<1> QED BY <1>1, <1>2 DEF LockHeld

LEMMA ClockStep ==
    ASSUME IInv, NEW t \in Threads, Step(t)
    PROVE  ClockBound'
<1>1. now' = now \/ ReadClock
  BY StepCases
     DEF Body, Deref, Alter, Commute, Assoc, Effect, InBody, Begin, Ends,
         Build, Conflict, Check, Append, FailLocked, Perform, AtomWriteOn,
         AtomWrite, RawBegin, RawAppend, RawMark
<1>2. now \in Nat /\ now' \in Nat /\ now <= now'
  BY <1>1, ConstantsOK DEF ReadClock, IInv, TypeInv, TypeOK
<1>3. /\ tStart' = tStart \/ tStart' = [tStart EXCEPT ![t] = now']
      /\ from' = from \/ from' = [from EXCEPT ![t] = now']
  BY StepCases
     DEF Body, Deref, Alter, Commute, Assoc, Effect, InBody, Begin, Ends,
         Build, Conflict, Check, Append, FailLocked, Perform, AtomWriteOn,
         AtomWrite, RawBegin, RawAppend, RawMark, outVars
<1>4. tStart \in [Threads -> Nat] /\ from \in [Threads -> Nat]
  BY DEF IInv, TypeInv, TypeOK
<1>5. \A u \in Threads : tStart[u] <= now /\ from[u] <= now
  BY DEF IInv, ClockBound
<1>6. \A u \in Threads : tStart'[u] <= now' /\ from'[u] <= now'
  BY <1>2, <1>3, <1>4, <1>5
<1>7. ASSUME NEW u \in Threads
      PROVE  /\ pc'[u] = "build" => tStart'[u] <= from'[u]
             /\ pc'[u] = "raw" => from'[u] = tStart'[u]
  <2>1. CASE u # t
    BY <2>1, OthersKept DEF IInv, ClockBound
  <2>2. CASE u = t /\ (Build(t) \/ \E r \in RawRefs, v \in AssocVals :
                                      RawBegin(t, r, v))
    <3>1. tStart'[t] <= now'
      BY <1>6
    <3>2. from'[t] = now'
      BY <2>2, <1>4 DEF Build, RawBegin
    <3>3. pc'[t] = "raw" => tStart'[t] = now'
      BY <2>2, <1>4 DEF Build, RawBegin, Goto, IInv, TypeInv, TypeOK
    <3> QED BY <2>2, <3>1, <3>2, <3>3
  <2>3. CASE u = t /\ Body(t)
    BY <2>3 DEF Body, Deref, Alter, Commute, Assoc, Effect, InBody, outVars,
                IInv, ClockBound
  <2>4. CASE u = t /\ (Begin(t) \/ Ends(t) \/ Conflict(t) \/ Check(t)
              \/ Append(t) \/ FailLocked(t) \/ Perform(t) \/ RawAppend(t)
              \/ RawMark(t) \/ \E r \in AtomRefs : AtomWriteOn(t, r))
    <3>1. pc'[t] \notin {"build", "raw"}
      BY <2>4 DEF Begin, Ends, Conflict, Check, Append, FailLocked, Perform,
                  RawAppend, RawMark, AtomWriteOn, AtomWrite, Goto, IInv,
                  TypeInv, TypeOK
    <3> QED BY <2>4, <3>1
  <2> QED BY <2>1, <2>2, <2>3, <2>4, StepCases
<1> QED BY <1>6, <1>7 DEF ClockBound

(* What a thread past its check writes is a reference of its own set.      *)
LEMMA LockedWrites ==
    ASSUME IInv, NEW t \in Threads, pc[t] = "locked", NEW r \in Refs,
           facts[t][r] # None
    PROVE  \/ t \in Txns /\ r \in TxnRefs
           \/ t \in Swappers /\ r \in AtomRefs
<1>1. facts[t][r] = ToWrite(t, r) /\ t \in Txns \cup Swappers
  BY DEF IInv, Ready, Places
<1>2. queued[t][r] \in Nat
  BY DEF IInv, TypeInv, TypeOK
<1>3. writeSet[t][r] # None \/ queued[t][r] > 0
  BY <1>1, <1>2 DEF ToWrite
<1> QED BY <1>1, <1>3 DEF IInv, Footprint

(* What a batch assigns starts no earlier than what it replaces.           *)
LEMMA NotRetroactive ==
    ASSUME IInv, NEW t \in Threads, pc[t] = "locked", ReadClock,
           NEW r \in Refs
    PROVE  \A d \in On(r) : d.from <= ValidFrom(t, r)
<1>1. now \in Nat /\ now' \in Nat /\ now <= now'
  BY ConstantsOK DEF ReadClock, IInv, TypeInv, TypeOK
<1>2. \A d \in On(r) : /\ d.from \in Nat /\ d.time \in Nat
                       /\ d.from <= d.time /\ d.time <= now
  BY DEF On, IInv, Recorded, TypeInv, TypeOK, Datoms
<1>3. \A d \in On(r) : d.from <= now'
  BY <1>1, <1>2
<1>4. writeSet[t][r] # None => \A d \in On(r) : d.from <= from[t]
  BY DEF IInv, NeverRetroactive
<1> QED BY <1>3, <1>4 DEF ValidFrom

LEMMA RecordedStep ==
    ASSUME IInv, NEW t \in Threads, Step(t)
    PROVE  Recorded'
<1>1. now' = now \/ ReadClock
  BY StepCases
     DEF Body, Deref, Alter, Commute, Assoc, Effect, InBody, Begin, Ends,
         Build, Conflict, Check, Append, FailLocked, Perform, AtomWriteOn,
         AtomWrite, RawBegin, RawAppend, RawMark
<1>2. now \in Nat /\ now' \in Nat /\ now <= now'
  BY <1>1, ConstantsOK DEF ReadClock, IInv, TypeInv, TypeOK
<1>3. \A d \in log : d.from <= d.time /\ d.time <= now'
  <2>1. \A d \in log : /\ d.from \in Nat /\ d.time \in Nat
                       /\ d.from <= d.time /\ d.time <= now
    BY DEF IInv, Recorded, TypeInv, TypeOK, Datoms
  <2> QED BY <1>2, <2>1
<1>4. CASE log' = log
  BY <1>3, <1>4 DEF Recorded
<1>5. CASE Append(t) /\ AppendBatch(t, now')
  <2>1. \A d \in log' \ log :
           d.time = now' /\ d.from = ValidFrom(t, d.e)
    BY <1>2, <1>5, BatchDatoms DEF IInv
  <2>2. from[t] \in Nat /\ from[t] <= now
    BY DEF IInv, ClockBound, TypeInv, TypeOK
  <2>3. \A r : ValidFrom(t, r) <= now'
    BY <1>2, <2>2 DEF ValidFrom
  <2> QED BY <1>2, <1>3, <2>1, <2>3 DEF Recorded
<1>6. CASE RawAppend(t)
  <2>1. /\ AppendBatch(t, tStart[t]) /\ tStart[t] \in Nat /\ pc[t] = "raw"
        /\ t \in RawWriters
    BY <1>6 DEF RawAppend, IInv, Places, TypeInv, TypeOK
  <2>2. \A d \in log' \ log :
           /\ facts[t][d.e] # None /\ d.time = tStart[t]
           /\ d.from = ValidFrom(t, d.e)
    BY <1>2, <2>1, BatchDatoms DEF IInv
  <2>3. facts[t] = writeSet[t] /\ from[t] = tStart[t] /\ tStart[t] <= now
    BY <2>1 DEF IInv, RawAlone, ClockBound
  <2>4. \A d \in log' \ log : d.time = tStart[t] /\ d.from = tStart[t]
    BY <2>2, <2>3 DEF ValidFrom
  <2>5. tStart[t] <= now'
    BY <1>2, <2>1, <2>3
  <2> QED BY <1>3, <2>1, <2>4, <2>5 DEF Recorded
<1> QED BY <1>4, <1>5, <1>6, LogSteps

LEMMA FootprintStep ==
    ASSUME IInv, NEW t \in Threads, Step(t)
    PROVE  Footprint'
<1> USE DEF IInv, TypeInv, TypeOK
<1> DEFINE Uses(u, r) ==
      readSet'[u][r] # None \/ writeSet'[u][r] # None \/ queued'[u][r] > 0
<1>1. ASSUME NEW u \in Threads, u # t, NEW r \in Refs
      PROVE  /\ u \in Txns /\ Uses(u, r) => r \in TxnRefs
             /\ u \in Swappers /\ facts'[u][r] # None => r \in AtomRefs
  BY <1>1, OthersKept DEF Footprint
<1>2. ASSUME NEW r \in Refs, t \in Txns, Uses(t, r)
      PROVE  r \in TxnRefs
  <2>1. CASE UNCHANGED <<readSet, writeSet, queued>>
    BY <1>2, <2>1 DEF Footprint
  <2>2. CASE Begin(t)
    BY <1>2, <2>2 DEF Begin, NoEntry, Zero
  <2>3. ASSUME NEW q \in TxnRefs, Deref(t, q) \/ Alter(t, q) \/ Commute(t, q)
        PROVE  r \in TxnRefs
    <3>1. r = q \/ ~Uses(t, r) \/ /\ readSet'[t][r] = readSet[t][r]
                                  /\ writeSet'[t][r] = writeSet[t][r]
                                  /\ queued'[t][r] = queued[t][r]
      BY <2>3, ConstantsOK DEF Deref, Alter, Commute, Reading, Dicts
    <3> QED BY <3>1, <1>2 DEF Footprint
  <2>4. ASSUME NEW q \in TxnRefs, NEW v \in AssocVals, Assoc(t, q, v)
        PROVE  r \in TxnRefs
    <3>1. r = q \/ /\ readSet'[t][r] = readSet[t][r]
                   /\ writeSet'[t][r] = writeSet[t][r]
                   /\ queued'[t][r] = queued[t][r]
      BY <2>4, ConstantsOK DEF Assoc, Dicts
    <3> QED BY <3>1, <1>2 DEF Footprint
  <2>5. /\ ~ \E q \in AtomRefs : AtomWriteOn(t, q)
        /\ ~ \E q \in RawRefs, v \in AssocVals : RawBegin(t, q, v)
    BY <1>2, ConstantsOK DEF AtomWriteOn, RawBegin
  <2> QED BY <2>1, <2>2, <2>3, <2>4, <2>5, StepCases
          DEF Body, Effect, Ends, Build, Conflict, Check, Append, FailLocked,
              Perform, RawAppend, RawMark, txnVars
<1>3. ASSUME NEW r \in Refs, t \in Swappers, facts'[t][r] # None
      PROVE  r \in AtomRefs
  <2>1. t \notin Txns /\ t \notin RawWriters
    BY <1>3, ConstantsOK
  <2>2. CASE facts' = facts
    BY <1>3, <2>2 DEF Footprint
  <2>3. ASSUME NEW q \in AtomRefs, AtomWriteOn(t, q) PROVE r \in AtomRefs
    <3>1. r = q \/ facts'[t][r] = facts[t][r]
      BY <2>3, ConstantsOK DEF AtomWriteOn, AtomWrite, Dicts
    <3> QED BY <3>1, <1>3 DEF Footprint
  <2>4. /\ ~Check(t)
        /\ ~ \E q \in RawRefs, v \in AssocVals : RawBegin(t, q, v)
    BY <2>1 DEF Check, RawBegin, Places
  <2> QED BY <2>2, <2>3, <2>4, StepCases
          DEF Body, Deref, Alter, Commute, Assoc, Effect, InBody, Begin, Ends,
              Build, Conflict, Append, FailLocked, Perform, RawAppend, RawMark,
              outVars
<1>4. \A u \in Txns \cup Swappers : u \in Threads
  BY DEF Threads
<1> QED BY <1>1, <1>2, <1>3, <1>4 DEF Footprint

LEMMA SwapFreshStep ==
    ASSUME IInv, NEW t \in Threads, Step(t)
    PROVE  SwapFresh'
<1> USE DEF IInv, TypeInv, TypeOK, Goto
<1> DEFINE Fresh(u) ==
      /\ queued'[u] = Zero
      /\ \A q, r \in Refs : facts'[u][q] # None /\ facts'[u][r] # None => q = r
      /\ pc'[u] = "start" => /\ readSet'[u] = NoEntry /\ writeSet'[u] = NoEntry
                             /\ facts'[u] = NoEntry
<1>1. ASSUME NEW u \in Swappers, u # t PROVE Fresh(u)
  <2>1. u \in Threads
    BY DEF Threads
  <2> QED BY <1>1, <2>1, OthersKept DEF SwapFresh
<1>2. ASSUME t \in Swappers PROVE Fresh(t)
  <2>1. t \notin Txns /\ t \notin RawWriters
    BY <1>2, ConstantsOK
  <2>2. pc[t] \notin {"body", "build", "raw", "mark"}
    BY <2>1 DEF Places
  <2>3. \/ \E r \in AtomRefs : AtomWriteOn(t, r)
        \/ Ends(t) \/ Append(t) \/ FailLocked(t) \/ Perform(t)
    BY <2>1, <2>2, StepCases
       DEF Body, Deref, Alter, Commute, Assoc, Effect, InBody, Begin, Build,
           Conflict, Check, RawBegin, RawAppend, RawMark
  <2>4. CASE Ends(t) \/ Append(t) \/ FailLocked(t) \/ Perform(t)
    <3>1. pc'[t] # "start" /\ queued' = queued /\ facts' = facts
      BY <2>4 DEF Ends, Append, FailLocked, Perform, txnVars, outVars
    <3> QED BY <1>2, <3>1 DEF SwapFresh
  <2>5. ASSUME NEW r \in AtomRefs, AtomWriteOn(t, r) PROVE Fresh(t)
    <3>1. facts[t] = NoEntry /\ queued[t] = Zero
      BY <1>2, <2>5 DEF AtomWriteOn, SwapFresh
    <3>2. pc'[t] # "start" /\ queued' = queued
      BY <2>5 DEF AtomWriteOn, AtomWrite
    <3>3. \A q \in Refs : q # r => facts'[t][q] = None
      BY <2>5, <3>1 DEF AtomWriteOn, AtomWrite, NoEntry, Dicts
    <3> QED BY <3>1, <3>2, <3>3
  <2> QED BY <2>3, <2>4, <2>5
<1> QED BY <1>1, <1>2 DEF SwapFresh

LEMMA RawAloneStep ==
    ASSUME IInv, RawApart, NEW t \in Threads, Step(t)
    PROVE  RawAlone'
<1> DEFINE Alone(u) == /\ readSet'[u] = NoEntry /\ queued'[u] = Zero
                       /\ facts'[u] = writeSet'[u] /\ marks'[u] = {}
                       /\ pc'[u] = "start" => writeSet'[u] = NoEntry
                       /\ \A r \in Refs : writeSet'[u][r] # None => r \in RawRefs
<1>1. ASSUME NEW u \in RawWriters, u # t PROVE Alone(u)
  <2>1. u \in Threads
    BY DEF Threads
  <2> QED BY <1>1, <2>1, OthersKept DEF IInv, RawAlone
<1>2. ASSUME t \in RawWriters PROVE Alone(t)
  <2>1. t \notin Txns /\ t \notin Swappers
    BY <1>2, ConstantsOK
  <2>2. pc[t] \notin {"body", "build", "locked"}
    BY <2>1 DEF IInv, Places
  <2>3. \/ \E r \in RawRefs, v \in AssocVals : RawBegin(t, r, v)
        \/ Ends(t) \/ RawAppend(t) \/ RawMark(t) \/ Perform(t)
    BY <2>1, <2>2, StepCases
       DEF Body, Deref, Alter, Commute, Assoc, Effect, InBody, Begin, Build,
           Conflict, Check, Append, FailLocked, AtomWriteOn
  <2>4. CASE Ends(t) \/ RawAppend(t) \/ RawMark(t) \/ Perform(t)
    <3>1. UNCHANGED <<readSet, writeSet, queued, facts, marks>>
      BY <2>4 DEF Ends, RawAppend, RawMark, Perform, txnVars, outVars
    <3>2. pc'[t] = "start" => pc[t] = "start"
      BY <2>4 DEF Ends, RawAppend, RawMark, Perform, Goto, IInv, TypeInv, TypeOK
    <3> QED BY <1>2, <3>1, <3>2 DEF IInv, RawAlone
  <2>5. ASSUME NEW r \in RawRefs, NEW v \in AssocVals, RawBegin(t, r, v)
        PROVE  Alone(t)
    <3>1. /\ writeSet[t] = NoEntry /\ facts[t] = NoEntry
          /\ readSet[t] = NoEntry /\ queued[t] = Zero
      BY <1>2, <2>5 DEF RawBegin, IInv, RawAlone
    <3>2. /\ readSet' = readSet /\ queued' = queued
          /\ writeSet'[t] = [NoEntry EXCEPT ![r] = v]
          /\ facts'[t] = [NoEntry EXCEPT ![r] = v]
      BY <2>5, <3>1 DEF RawBegin, IInv, TypeInv, TypeOK
    <3>3. pc[t] = "start" /\ pc'[t] # "start"
      BY <2>5 DEF RawBegin, Goto, IInv, TypeInv, TypeOK
    <3>4. \A q \in Refs : writeSet'[t][q] # None => q \in RawRefs
      BY <3>2 DEF NoEntry
    <3>5. On(r) = {}
      <4>1. \A d \in log : d.e = r => d.by = t /\ pc[t] \in {"mark", "committed"}
        BY <1>2 DEF IInv, RawAlone, RawApart
      <4> QED BY <4>1, <3>3 DEF On
    <3>6. marks'[t] = {}
      <4>1. marks'[t] = Superseded({r})
        BY <2>5 DEF RawBegin, IInv, TypeInv, TypeOK
      <4>2. Superseded({r}) = {}
        BY <3>5 DEF Superseded, Open
      <4> QED BY <4>1, <4>2
    <3> QED BY <3>1, <3>2, <3>3, <3>4, <3>6
  <2> QED BY <2>3, <2>4, <2>5
<1>3. ASSUME NEW d \in log', d.e \in RawRefs
      PROVE  d.by \in RawWriters /\ pc'[d.by] \in {"mark", "committed"}
  <2>1. CASE d \in log
    <3>1. /\ d.by \in RawWriters /\ pc[d.by] \in {"mark", "committed"}
          /\ d.by \in Threads
      BY <1>3, <2>1 DEF IInv, RawAlone, TypeInv, TypeOK, Datoms
    <3>2. d.by = t => RawMark(t)
      BY <3>1, StepCases
         DEF Body, Deref, Alter, Commute, Assoc, Effect, InBody, Begin, Ends,
             Build, Conflict, Check, Append, FailLocked, Perform, AtomWriteOn,
             RawBegin, RawAppend
    <3>3. CASE d.by = t
      BY <3>1, <3>2, <3>3 DEF RawMark, Goto, IInv, TypeInv, TypeOK
    <3>4. CASE d.by # t
      BY <3>1, <3>4, OthersKept DEF IInv
    <3> QED BY <3>3, <3>4
  <2>2. CASE d \notin log
    <3>1. CASE Append(t) /\ AppendBatch(t, now')
      <4>1. pc[t] = "locked" /\ now' \in Nat
        BY <3>1, ClockNat DEF Append, IInv, TypeInv
      <4>2. facts[t][d.e] # None /\ d.e \in Refs
        BY <1>3, <2>2, <3>1, <4>1, BatchDatoms, ConstantsOK DEF IInv
      <4>3. d.e \in TxnRefs \cup AtomRefs
        BY <4>1, <4>2, LockedWrites
      <4> QED BY <1>3, <4>3 DEF RawApart
    <3>2. CASE RawAppend(t)
      <4>1. AppendBatch(t, tStart[t]) /\ tStart[t] \in Nat /\ now' \in Nat
        BY <3>2 DEF RawAppend, IInv, TypeInv, TypeOK
      <4>2. d.by = t
        BY <1>3, <2>2, <4>1, BatchDatoms DEF IInv
      <4>3. t \in RawWriters /\ pc'[t] = "mark"
        BY <3>2 DEF RawAppend, Goto, IInv, Places, TypeInv, TypeOK
      <4> QED BY <4>2, <4>3
    <3> QED BY <1>3, <2>2, <3>1, <3>2, LogSteps
  <2> QED BY <2>1, <2>2
<1>4. \A u \in RawWriters : Alone(u)
  BY <1>1, <1>2
<1> QED BY <1>3, <1>4 DEF RawAlone

(* The references of one batch: one atom, or none that is an atom, or, for *)
(* a dosync on an atom, that atom only.                                    *)
LEMMA BatchAtoms ==
    ASSUME IInv, Premises, NEW t \in Threads,
           pc[t] = "locked" \/ (pc[t] = "raw" /\ t \in RawWriters),
           NEW q \in Refs, facts[t][q] # None,
           NEW r \in Refs, facts[t][r] # None, r \in AtomRefs
    PROVE  q = r
<1>1. CASE pc[t] = "locked" /\ t \in Txns
  <2>1. t \notin Swappers
    BY <1>1, ConstantsOK
  <2>2. q \in TxnRefs /\ r \in TxnRefs
    BY <1>1, <2>1, LockedWrites
  <2> QED BY <2>2 DEF Premises, AtomsApart
<1>2. CASE pc[t] = "locked" /\ t \in Swappers
  BY <1>2 DEF IInv, SwapFresh
<1>3. CASE pc[t] = "raw" /\ t \in RawWriters
  <2>1. r \in RawRefs
    BY <1>3 DEF IInv, RawAlone
  <2> QED BY <2>1 DEF Premises, RawApart
<1> QED BY <1>1, <1>2, <1>3, LockedWrites

(* A step that appends, seen as a batch.                                   *)
LEMMA Appends ==
    ASSUME IInv, NEW t \in Threads, Step(t)
    PROVE  \/ UNCHANGED <<log, last>> /\ dead' = dead
           \/ UNCHANGED <<log, last>> /\ RawMark(t)
           \/ /\ Append(t) /\ AppendBatch(t, now') /\ now' \in Nat
              /\ pc[t] = "locked" /\ ReadClock
              /\ dead' = dead \cup Superseded(Written(t))
           \/ /\ RawAppend(t) /\ AppendBatch(t, tStart[t])
              /\ tStart[t] \in Nat /\ now' \in Nat
              /\ pc[t] = "raw" /\ t \in RawWriters /\ dead' = dead
<1>1. Append(t) => pc[t] = "locked" /\ ReadClock /\ now' \in Nat
  BY ClockNat DEF Append, IInv, TypeInv
<1>2. RawAppend(t) => /\ AppendBatch(t, tStart[t]) /\ tStart[t] \in Nat
                      /\ now' \in Nat /\ pc[t] = "raw" /\ t \in RawWriters
                      /\ dead' = dead
  BY DEF RawAppend, IInv, Places, TypeInv, TypeOK
<1> QED BY <1>1, <1>2, LogSteps

LEMMA AtomAloneStep ==
    ASSUME IInv, Premises, NEW t \in Threads, Step(t)
    PROVE  AtomAlone'
<1>1. CASE log' = log
  BY <1>1 DEF IInv, AtomAlone
<1>2. ASSUME NEW time \in Nat, now' \in Nat, AppendBatch(t, time),
             pc[t] = "locked" \/ (pc[t] = "raw" /\ t \in RawWriters)
      PROVE  AtomAlone'
  <2> SUFFICES ASSUME NEW d \in log', NEW x \in log', d.e \in AtomRefs,
                      d.tx = x.tx
               PROVE  d = x
    BY DEF AtomAlone
  <2>1. /\ log' \subseteq Datoms
        /\ \A y \in log' \ log : facts[t][y.e] # None /\ y.tx = lastTx + 1
    BY <1>2, BatchDatoms DEF IInv
  <2>2. \A y \in log : y.tx \in Nat /\ y.tx <= lastTx
    BY DEF IInv, TypeInv, TypeOK, TxBound, Datoms
  <2>3. lastTx \in Nat
    BY DEF IInv, TypeInv, TypeOK
  <2>4. CASE d \in log /\ x \in log
    BY <2>4 DEF IInv, AtomAlone
  <2>5. CASE d \notin log /\ x \notin log
    <3>1. d.e = x.e
      BY <1>2, <2>1, <2>5, BatchAtoms DEF Datoms
    <3>2. \A y \in log' \ log :
             y = [e |-> y.e, v |-> facts[t][y.e], tx |-> lastTx + 1,
                  time |-> time, from |-> ValidFrom(t, y.e), by |-> t]
      BY <1>2 DEF AppendBatch, Written
    <3> QED BY <2>5, <3>1, <3>2
  <2> QED BY <2>1, <2>2, <2>3, <2>4, <2>5
<1> QED BY <1>1, <1>2, Appends

LEMMA AtomOpenStep ==
    ASSUME IInv, Premises, NEW t \in Threads, Step(t)
    PROVE  AtomOpen'
<1> SUFFICES ASSUME NEW r \in AtomRefs, On(r)' # {}
             PROVE  \E d \in On(r)' : /\ IsNewest(d, On(r)')
                                      /\ IsLast(d, On(r)') /\ d.tx \notin dead'
  BY DEF AtomOpen, IsNewest, IsLast, Beats
<1>1. r \in Refs /\ r \notin RawRefs
  BY ConstantsOK DEF Premises, RawApart
<1>2. CASE log' = log /\ dead' = dead
  BY <1>2 DEF IInv, AtomOpen, On
<1>3. CASE log' = log /\ RawMark(t)
  <2>1. t \in RawWriters
    BY <1>3 DEF RawMark, IInv, Places
  <2>2. dead' = dead
    BY <1>3, <2>1 DEF RawMark, IInv, RawAlone
  <2> QED BY <1>2, <1>3, <2>2
<1>4. ASSUME NEW time \in Nat, now' \in Nat, AppendBatch(t, time),
             pc[t] = "locked" \/ (pc[t] = "raw" /\ t \in RawWriters),
             dead' \subseteq dead \cup Superseded(Written(t)),
             pc[t] = "locked" => ReadClock
      PROVE  \E d \in On(r)' : /\ IsNewest(d, On(r)')
                               /\ IsLast(d, On(r)') /\ d.tx \notin dead'
  <2>1. \A n \in dead' : n \in Nat /\ n <= lastTx
    <3>1. Written(t) \in SUBSET Refs
      BY DEF Written
    <3> QED BY <1>4, <3>1, SupersededInLog DEF IInv, TypeInv, TypeOK, TxBound
  <2>2. CASE facts[t][r] # None
    <3>1. pc[t] = "locked"
      BY <1>1, <1>4, <2>2 DEF IInv, RawAlone
    <3>2. \A d \in On(r) : d.from <= ValidFrom(t, r)
      BY <1>1, <1>4, <3>1, NotRetroactive
    <3>3. PICK d \in log' \ log : /\ d.e = r /\ d.tx = lastTx + 1
                                  /\ IsNewest(d, On(r)') /\ IsLast(d, On(r)')
      BY <1>1, <1>4, <2>2, <3>2, BatchCurrent DEF IInv
    <3>4. lastTx \in Nat
      BY DEF IInv, TypeInv, TypeOK
    <3>5. d \in On(r)' /\ d.tx \notin dead'
      BY <2>1, <3>3, <3>4 DEF On
    <3> QED BY <3>3, <3>5
  <2>3. CASE facts[t][r] = None
    <3>1. On(r)' = On(r)
      <4>1. log \subseteq log' /\ \A d \in log' \ log : facts[t][d.e] # None
        BY <1>4, BatchDatoms DEF IInv
      <4> QED BY <2>3, <4>1 DEF On
    <3>2. PICK d \in On(r) : /\ IsNewest(d, On(r)) /\ IsLast(d, On(r))
                             /\ d.tx \notin dead
      BY <3>1 DEF IInv, AtomOpen
    <3>3. d.tx \notin Superseded(Written(t))
      <4>1. SUFFICES ASSUME d.tx \in Superseded(Written(t)) PROVE FALSE
        OBVIOUS
      <4>2. PICK x \in log : x.e \in Written(t) /\ x.tx = d.tx
        <5>1. Written(t) \in SUBSET Refs
          BY DEF Written
        <5> QED BY <4>1, <5>1, SupersededInLog DEF IInv
      <4>3. d \in log /\ d.e = r
        BY DEF On
      <4>4. x = d
        BY <4>2, <4>3 DEF IInv, AtomAlone
      <4> QED BY <2>3, <4>2, <4>3, <4>4 DEF Written
    <3> QED BY <1>4, <3>1, <3>2, <3>3
  <2> QED BY <2>2, <2>3
<1> QED BY <1>2, <1>3, <1>4, Appends

(* So what an atom call reads is what a dosync would read.                 *)
LEMMA AtomReadsCurrent ==
    ASSUME IInv, NEW r \in AtomRefs
    PROVE  AtomValue(r) = Current(r)
<1>1. CASE On(r) = {}
  BY <1>1 DEF AtomValue, Open, Current, ValueIn
<1>2. CASE On(r) # {}
  <2>1. PICK d \in On(r) : /\ IsNewest(d, On(r)) /\ IsLast(d, On(r))
                           /\ d.tx \notin dead
    BY <1>2 DEF IInv, AtomOpen
  <2>2. On(r) \subseteq Datoms /\ On(r) \subseteq log /\ d.e = r
    BY DEF On, IInv, TypeInv, TypeOK
  <2>3. Newest(On(r)) = d
    BY <2>1, <2>2, NewestUnique
  <2>4. d \in Open(r) /\ Open(r) \subseteq On(r)
    BY <2>1 DEF Open
  <2>5. IsLast(d, Open(r))
    BY <2>1, <2>4 DEF IsLast
  <2>6. ASSUME NEW x \in Open(r), IsLast(x, Open(r)) PROVE x = d
    <3>1. d.tx <= x.tx /\ x.tx <= d.tx
      BY <2>4, <2>5, <2>6 DEF IsLast
    <3>2. d.tx \in Nat /\ x.tx \in Nat
      BY <2>2, <2>4 DEF Datoms
    <3>3. d.tx = x.tx
      BY <3>1, <3>2
    <3> QED BY <2>2, <2>4, <3>3 DEF IInv, AtomAlone
  <2>7. LastIn(Open(r)) = d
    BY <2>4, <2>5, <2>6 DEF LastIn
  <2> QED BY <1>2, <2>3, <2>4, <2>7 DEF AtomValue, Current, ValueIn
<1> QED BY <1>1, <1>2

(* The snapshot of another thread's body does not move.                    *)
LEMMA SnapshotKept ==
    ASSUME IInv, Premises, NEW t \in Threads, Step(t),
           NEW u \in Threads, NEW r \in TxnRefs
    PROVE  {d \in On(r)' : d.time <= tStart[u]}
              = {d \in On(r) : d.time <= tStart[u]}
<1>1. r \in Refs /\ tStart[u] \in Nat /\ tStart[u] <= now
  BY ConstantsOK DEF IInv, TypeInv, TypeOK, ClockBound
<1>2. CASE UNCHANGED <<log, last>>
  BY <1>2 DEF On
<1>3. CASE Append(t) /\ AppendBatch(t, now')
  <2>1. now' \in Nat /\ now \in Nat /\ now' > now
    BY <1>3, ClockNat, ConstantsOK
       DEF Append, ReadClock, Premises, ClockAdvances, IInv, TypeInv, TypeOK
  <2>2. now' > tStart[u]
    BY <1>1, <2>1
  <2> QED BY <1>1, <1>3, <2>1, <2>2, ViewKept DEF IInv
<1>4. CASE RawAppend(t)
  <2>1. /\ AppendBatch(t, tStart[t]) /\ tStart[t] \in Nat /\ now' \in Nat
        /\ t \in RawWriters
    BY <1>4 DEF RawAppend, IInv, Places, TypeInv, TypeOK
  <2>2. facts[t][r] = None
    BY <1>1, <2>1 DEF IInv, RawAlone, Premises, RawApart
  <2> QED BY <1>1, <2>1, <2>2, ViewKept DEF IInv
<1> QED BY <1>2, <1>3, <1>4, LogSteps

LEMMA SnapshotStep ==
    ASSUME IInv, Premises, NEW t \in Threads, Step(t)
    PROVE  SnapshotStable'
<1> DEFINE In(u) == pc'[u] \in {"body", "build", "locked"}
           View(T, r) == ValueIn({d \in On(r)' : d.time <= T})
<1>1. ASSUME NEW u \in Txns, u # t, NEW r \in Refs, In(u), readSet'[u][r] # None
      PROVE  readSet'[u][r] = View(tStart'[u], r)
  <2>1. u \in Threads
    BY DEF Threads
  <2>2. /\ pc[u] \in {"body", "build", "locked"} /\ readSet[u][r] # None
        /\ readSet'[u][r] = readSet[u][r] /\ tStart'[u] = tStart[u]
    BY <1>1, <2>1, OthersKept DEF IInv
  <2>3. readSet[u][r] = AsOf(r, tStart[u])
    BY <2>2 DEF IInv, SnapshotStable
  <2>4. r \in TxnRefs
    BY <2>2 DEF IInv, Footprint
  <2> QED BY <2>1, <2>2, <2>3, <2>4, SnapshotKept DEF AsOf
<1>2. ASSUME t \in Txns, NEW r \in Refs, In(t), readSet'[t][r] # None
      PROVE  readSet'[t][r] = View(tStart'[t], r)
  <2> USE DEF IInv, TypeInv, TypeOK, Goto
  <2>1. CASE Begin(t)
    BY <1>2, <2>1 DEF Begin, NoEntry
  <2>2. CASE Body(t)
    <3>1. /\ log' = log /\ tStart' = tStart /\ pc[t] = "body"
      BY <2>2 DEF Body, Deref, Alter, Commute, Assoc, Effect, InBody, storeVars
    <3>2. readSet'[t][r] = readSet[t][r]
             \/ readSet'[t][r] = AsOf(r, tStart[t])
      BY <2>2, ConstantsOK
         DEF Body, Deref, Alter, Commute, Assoc, Effect, Reading, Dicts
    <3>3. readSet'[t][r] = AsOf(r, tStart[t])
      BY <1>2, <3>1, <3>2 DEF SnapshotStable
    <3> QED BY <3>1, <3>3 DEF AsOf, On
  <2>3. CASE Build(t) \/ Check(t)
    <3>1. /\ log' = log /\ tStart' = tStart /\ readSet' = readSet
          /\ pc[t] \in {"body", "build"}
      BY <2>3 DEF Build, Check, storeVars, txnVars
    <3>2. readSet[t][r] = AsOf(r, tStart[t])
      BY <1>2, <3>1 DEF SnapshotStable
    <3> QED BY <3>1, <3>2 DEF AsOf, On
  <2>4. CASE Ends(t) \/ Conflict(t) \/ Append(t) \/ FailLocked(t)
             \/ Perform(t) \/ RawAppend(t) \/ RawMark(t)
    BY <1>2, <2>4 DEF Ends, Conflict, Append, FailLocked, Perform, RawAppend,
                      RawMark
  <2>5. /\ ~ \E q \in AtomRefs : AtomWriteOn(t, q)
        /\ ~ \E q \in RawRefs, v \in AssocVals : RawBegin(t, q, v)
    BY <1>2, ConstantsOK DEF AtomWriteOn, RawBegin
  <2> QED BY <2>1, <2>2, <2>3, <2>4, <2>5, StepCases
<1>3. \A u \in Txns, r \in Refs :
         In(u) /\ readSet'[u][r] # None
            => readSet'[u][r] = View(tStart'[u], r)
  BY <1>1, <1>2
<1> QED BY <1>3 DEF SnapshotStable, AsOf

(* What a passed check means: nothing on what was read or written is newer *)
(* than the snapshot, so what was read is still the current state.         *)
LEMMA CheckedIsOld ==
    ASSUME IInv, NEW t \in Txns, ~AnyDatomsSince(tStart[t], Touched(t)),
           NEW r \in Touched(t)
    PROVE  \A d \in On(r) : d.time <= tStart[t]
<1>1. \A d \in On(r) : ~(d.time > tStart[t])
  BY DEF AnyDatomsSince, On
<1>2. \A d \in On(r) : d.time \in Nat
  BY DEF On, IInv, TypeInv, TypeOK, Datoms
<1>3. t \in Threads /\ tStart[t] \in Nat
  BY DEF IInv, TypeInv, TypeOK, Threads
<1> QED BY <1>1, <1>2, <1>3

LEMMA CheckedIsCurrent ==
    ASSUME IInv, NEW t \in Txns, pc[t] = "build",
           ~AnyDatomsSince(tStart[t], Touched(t)),
           NEW r \in Refs, readSet[t][r] # None
    PROVE  readSet[t][r] = Current(r)
<1>1. readSet[t][r] = AsOf(r, tStart[t])
  BY DEF IInv, SnapshotStable
<1>2. r \in Touched(t)
  BY DEF Touched
<1>3. {d \in On(r) : d.time <= tStart[t]} = On(r)
  BY <1>2, CheckedIsOld
<1> QED BY <1>1, <1>3 DEF AsOf, Current

(* How a thread comes to hold the lock, and that nothing is appended while *)
(* another thread does.                                                    *)
LEMMA Locking ==
    ASSUME IInv, Premises, NEW t \in Threads, Step(t)
    PROVE  /\ pc'[t] = "locked"
                 => Check(t) \/ \E q \in AtomRefs : AtomWriteOn(t, q)
           /\ \A u \in Threads : u # t /\ pc'[u] = "locked" => log' = log
<1>1. pc'[t] = "locked"
        => Check(t) \/ \E q \in AtomRefs : AtomWriteOn(t, q)
  BY StepCases
     DEF Body, Deref, Alter, Commute, Assoc, Effect, InBody, Begin, Ends, Build,
         Conflict, Append, FailLocked, Perform, RawBegin, RawAppend, RawMark,
         Goto, IInv, TypeInv, TypeOK
<1>2. ASSUME NEW u \in Threads, u # t, pc'[u] = "locked" PROVE log' = log
  <2>1. pc[u] = "locked"
    BY <1>2, OthersKept DEF IInv
  <2>2. ~LockFree(t) /\ pc[t] # "locked"
    BY <1>2, <2>1, Exclusion DEF Premises
  <2> QED BY <2>2, LogSteps DEF Append, RawAppend
<1> QED BY <1>1, <1>2

LEMMA RetroactiveStep ==
    ASSUME IInv, Premises, NEW t \in Threads, Step(t)
    PROVE  NeverRetroactive'
<1> DEFINE Late(u) == \A r \in Refs : writeSet'[u][r] # None =>
                         \A d \in On(r)' : d.from <= from'[u]
<1>1. ASSUME NEW u \in Threads, u # t, pc'[u] = "locked" PROVE Late(u)
  <2>1. /\ pc[u] = "locked" /\ writeSet'[u] = writeSet[u] /\ from'[u] = from[u]
    BY <1>1, OthersKept DEF IInv
  <2>2. log' = log
    BY <1>1, Locking
  <2> QED BY <2>1, <2>2 DEF IInv, NeverRetroactive, On
<1>2. ASSUME Check(t) PROVE Late(t)
  <2>1. /\ pc[t] = "build" /\ t \in Txns
        /\ ~AnyDatomsSince(tStart[t], Touched(t))
        /\ UNCHANGED <<log, writeSet, from>>
    BY <1>2 DEF Check, IInv, Places, storeVars, txnVars
  <2>2. tStart[t] \in Nat /\ from[t] \in Nat /\ tStart[t] <= from[t]
    BY <2>1 DEF IInv, ClockBound, TypeInv, TypeOK
  <2>3. ASSUME NEW r \in Refs, writeSet[t][r] # None, NEW d \in On(r)
        PROVE  d.from <= from[t]
    <3>1. r \in Touched(t)
      BY <2>3 DEF Touched
    <3>2. d.time <= tStart[t]
      BY <2>1, <3>1, CheckedIsOld
    <3>3. d.from <= d.time /\ d.from \in Nat /\ d.time \in Nat
      BY DEF On, IInv, Recorded, TypeInv, TypeOK, Datoms
    <3> QED BY <2>2, <3>2, <3>3
  <2> QED BY <2>1, <2>3 DEF On
<1>3. ASSUME NEW q \in AtomRefs, AtomWriteOn(t, q) PROVE Late(t)
  <2>1. log' = log /\ from'[t] = now' /\ ReadClock
    BY <1>3 DEF AtomWriteOn, AtomWrite, storeVars, IInv, TypeInv, TypeOK
  <2>2. now \in Nat /\ now' \in Nat /\ now <= now'
    BY <2>1, ConstantsOK DEF ReadClock, IInv, TypeInv, TypeOK
  <2>3. \A d \in log : /\ d.from <= d.time /\ d.time <= now
                       /\ d.from \in Nat /\ d.time \in Nat
    BY DEF IInv, Recorded, TypeInv, TypeOK, Datoms
  <2>4. \A d \in log : d.from <= now'
    BY <2>2, <2>3
  <2> QED BY <2>1, <2>4 DEF On
<1>4. pc'[t] = "locked" => Late(t)
  BY <1>2, <1>3, Locking
<1> QED BY <1>1, <1>4 DEF NeverRetroactive

LEMMA ReadyStep ==
    ASSUME IInv, Premises, NEW t \in Threads, Step(t)
    PROVE  Ready'
<1> DEFINE Fresh(u) == \A r \in Refs :
                          /\ readSet'[u][r] \in {None, Current(r)'}
                          /\ facts'[u][r] = ToWrite(u, r)'
<1>1. ASSUME NEW u \in Threads, u # t, pc'[u] = "locked" PROVE Fresh(u)
  <2>1. /\ pc[u] = "locked" /\ readSet'[u] = readSet[u]
        /\ writeSet'[u] = writeSet[u] /\ queued'[u] = queued[u]
        /\ facts'[u] = facts[u]
    BY <1>1, OthersKept DEF IInv
  <2>2. log' = log
    BY <1>1, Locking
  <2> QED BY <2>1, <2>2 DEF IInv, Ready, ToWrite, Current, On
<1>2. ASSUME Check(t) PROVE Fresh(t)
  <2>1. /\ pc[t] = "build" /\ t \in Txns
        /\ ~AnyDatomsSince(tStart[t], Touched(t))
        /\ log' = log /\ UNCHANGED <<readSet, writeSet, queued>>
        /\ facts'[t] = [r \in Refs |-> ToWrite(t, r)]
    BY <1>2 DEF Check, IInv, Places, TypeInv, TypeOK, storeVars, txnVars
  <2>2. \A r \in Refs : readSet[t][r] \in {None, Current(r)}
    BY <2>1, CheckedIsCurrent
  <2> QED BY <2>1, <2>2 DEF ToWrite, Current, On
<1>3. ASSUME NEW q \in AtomRefs, AtomWriteOn(t, q) PROVE Fresh(t)
  <2>1. PICK seen \in {None, AtomValue(q)},
             v \in AssocVals \cup {AtomValue(q) + 1} : AtomWrite(t, q, seen, v)
    BY <1>3 DEF AtomWriteOn
  <2>2. /\ q \in Refs /\ t \in Swappers /\ pc[t] = "start"
        /\ seen \in {None, Current(q)}
    BY <1>3, ConstantsOK, AtomReadsCurrent DEF AtomWriteOn
  <2>3. v # None
    BY ConstantsOK, AtomValueNat, <2>2 DEF IInv, None
  <2>4. /\ readSet[t] = NoEntry /\ writeSet[t] = NoEntry
        /\ facts[t] = NoEntry /\ queued[t] = Zero
    BY <2>2 DEF IInv, SwapFresh
  <2>5. /\ log' = log /\ queued'[t] = Zero
        /\ readSet'[t] = [NoEntry EXCEPT ![q] = seen]
        /\ writeSet'[t] = [NoEntry EXCEPT ![q] = v]
        /\ facts'[t] = [NoEntry EXCEPT ![q] = v]
    BY <2>1, <2>4 DEF AtomWrite, storeVars, IInv, TypeInv, TypeOK
  <2>6. \A r \in Refs : Current(r)' = Current(r)
    BY <2>5 DEF Current, On
  <2>7. ASSUME NEW r \in Refs
        PROVE  /\ readSet'[t][r] \in {None, Current(r)'}
               /\ facts'[t][r] = ToWrite(t, r)'
    BY <2>2, <2>3, <2>5, <2>6 DEF NoEntry, Zero, ToWrite, None
  <2> QED BY <2>7
<1>4. pc'[t] = "locked" => Fresh(t)
  BY <1>2, <1>3, Locking
<1> QED BY <1>1, <1>4 DEF Ready
-----------------------------------------------------------------------------
LEMMA InitIInv == Init => IInv
<1> SUFFICES ASSUME Init PROVE IInv
  OBVIOUS
<1>1. TypeInv
  BY InitType
<1>2. /\ MarksBound /\ Places /\ LockHeld /\ ClockBound /\ Recorded
      /\ SnapshotStable /\ Ready /\ NeverRetroactive
  BY DEF Init, MarksBound, Places, LockHeld, ClockBound, Recorded,
         SnapshotStable, Ready, NeverRetroactive, Threads
<1>3. Footprint /\ SwapFresh /\ RawAlone /\ AtomAlone /\ AtomOpen
  BY DEF Init, Footprint, SwapFresh, RawAlone, AtomAlone, AtomOpen, On, NoEntry,
         Zero, Threads
<1> QED BY <1>1, <1>2, <1>3 DEF IInv

LEMMA StepIInv ==
    ASSUME IInv, Premises, [Next]_vars
    PROVE  IInv'
<1>1. ASSUME NEW t \in Threads, Step(t) PROVE IInv'
  <2>1. TypeInv' /\ MarksBound'
    BY <1>1, StepType, MarksStep DEF IInv
  <2>2. Places' /\ Footprint' /\ SwapFresh'
    BY <1>1, PlacesStep, FootprintStep, SwapFreshStep
  <2>3. LockHeld' /\ ClockBound' /\ Recorded'
    BY <1>1, LockHeldStep, ClockStep, RecordedStep DEF Premises
  <2>4. RawAlone' /\ AtomAlone' /\ AtomOpen'
    BY <1>1, RawAloneStep, AtomAloneStep, AtomOpenStep DEF Premises
  <2>5. SnapshotStable' /\ Ready' /\ NeverRetroactive'
    BY <1>1, SnapshotStep, ReadyStep, RetroactiveStep
  <2> QED BY <2>1, <2>2, <2>3, <2>4, <2>5 DEF IInv
<1>2. CASE UNCHANGED vars
  <2>1. TypeInv' /\ MarksBound'
    <3>1. TypeOK' /\ MarksBound'
      BY <1>2 DEF IInv, TypeInv, TypeOK, MarksBound, vars, storeVars, txnVars,
                  outVars
    <3> QED BY <1>2, <3>1, QuietStep DEF IInv, vars, storeVars
  <2>2. Places' /\ LockHeld' /\ ClockBound' /\ Footprint' /\ SwapFresh'
    BY <1>2 DEF IInv, vars, storeVars, txnVars, outVars, Places, LockHeld,
                ClockBound, Footprint, SwapFresh
  <2>3. RawAlone' /\ Recorded' /\ AtomAlone'
    BY <1>2 DEF IInv, vars, storeVars, txnVars, outVars, RawAlone, Recorded,
                AtomAlone
  <2>4. SnapshotStable' /\ NeverRetroactive'
    BY <1>2 DEF IInv, vars, storeVars, txnVars, outVars, SnapshotStable, AsOf,
                On, NeverRetroactive
  <2>5. Ready'
    BY <1>2 DEF IInv, vars, storeVars, txnVars, outVars, Ready, ToWrite,
                Current, On
  <2>6. AtomOpen'
    BY <1>2 DEF IInv, vars, storeVars, AtomOpen, On, IsNewest, IsLast, Beats
  <2> QED BY <2>1, <2>2, <2>3, <2>4, <2>5, <2>6 DEF IInv
<1> QED BY <1>1, <1>2 DEF Next, Terminating

(* The snapshot as_of(t_start) that a dosync body reads stays the same     *)
(* until its commit, whatever the other threads commit meanwhile.          *)
THEOREM SnapshotIsolation ==
    ASSUME Premises PROVE Spec => []SnapshotStable
<1>1. IInv /\ [Next]_vars => IInv'
  BY StepIInv
<1>2. IInv => SnapshotStable
  BY DEF IInv
<1> QED BY InitIInv, <1>1, <1>2, PTL DEF Spec

(* transact_batch never refuses the batch of a commit that passed its      *)
(* check: valid_from was read before the lock, and still nothing younger   *)
(* is in the log.                                                          *)
THEOREM NeverRefused ==
    ASSUME Premises PROVE Spec => []NeverRetroactive
<1>1. IInv /\ [Next]_vars => IInv'
  BY StepIInv
<1>2. IInv => NeverRetroactive
  BY DEF IInv
<1> QED BY InitIInv, <1>1, <1>2, PTL DEF Spec

(* An atom call sees the latest value of its atom, although the test for   *)
(* it goes by the invalidation marks of whole transactions.                *)
THEOREM AtomsReadLatest ==
    ASSUME Premises PROVE Spec => []AtomReadsLatest
<1>1. IInv /\ [Next]_vars => IInv'
  BY StepIInv
<1>2. IInv => AtomReadsLatest
  BY DEF IInv, Ready, AtomReadsLatest, Threads
<1> QED BY InitIInv, <1>1, <1>2, PTL DEF Spec
-----------------------------------------------------------------------------
(* A batch that starts no earlier than what it replaces, made of what was  *)
(* read under the lock, is one step of the abstract store.                 *)
LEMMA BatchIsSerial ==
    ASSUME IInv, NEW t \in Threads, NEW time \in Nat, now' \in Nat,
           AppendBatch(t, time),
           \A r \in Refs :
              /\ readSet[t][r] \in {None, Current(r)}
              /\ facts[t][r] # None
                    => \A d \in On(r) : d.from <= ValidFrom(t, r)
              /\ facts[t][r] = IF writeSet[t][r] # None THEN writeSet[t][r]
                               ELSE IF queued[t][r] > 0
                                    THEN Current(r) + queued[t][r] ELSE None
    PROVE  Serial!Next
<1>1. last' \in Serial!Commits
  BY DEF AppendBatch, TypeInv, TypeOK, IInv, Serial!Commits, Serial!Dicts,
         Serial!None, Dicts, None
<1>2. \A r \in Refs : last'.seen[r] \in {None, Current(r)}
  BY DEF AppendBatch
<1>3. ASSUME NEW r \in Refs
      PROVE  Current(r)' = IF last'.wrote[r] # None THEN last'.wrote[r]
                                        ELSE Current(r) + last'.added[r]
  <2>1. Current(r)' = IF facts[t][r] = None THEN Current(r) ELSE facts[t][r]
    BY BatchCurrent DEF IInv
  <2>2. /\ Current(r) \in Nat /\ queued[t][r] \in Nat
        /\ writeSet[t][r] \in Nat \cup {None}
    BY CurrentNat DEF IInv, TypeInv, TypeOK, Dicts
  <2>3. last'.wrote[r] = writeSet[t][r] /\ last'.added[r] = queued[t][r]
    BY DEF AppendBatch
  <2> QED BY <2>1, <2>2, <2>3 DEF None
<1>4. Serial!Atomically(last')
  BY <1>2, <1>3 DEF Serial!Atomically, Serial!None, None, AppendBatch
<1> QED BY <1>1, <1>4 DEF Serial!Next

LEMMA QuietIsStutter ==
    ASSUME UNCHANGED <<log, last>>
    PROVE  UNCHANGED <<[r \in Refs |-> Current(r)], last>>
BY DEF Current, On

LEMMA StepIsSerial ==
    ASSUME IInv, Premises, NEW t \in Threads, Step(t)
    PROVE  [Serial!Next]_<<[r \in Refs |-> Current(r)], last>>
<1>1. CASE UNCHANGED <<log, last>>
  BY <1>1, QuietIsStutter
<1>2. CASE /\ AppendBatch(t, now') /\ now' \in Nat
           /\ pc[t] = "locked" /\ ReadClock
  <2>1. \A r \in Refs : \A d \in On(r) : d.from <= ValidFrom(t, r)
    BY <1>2, NotRetroactive
  <2>2. \A r \in Refs : /\ readSet[t][r] \in {None, Current(r)}
                        /\ facts[t][r] = ToWrite(t, r)
    BY <1>2 DEF IInv, Ready
  <2>3. Serial!Next
    BY <1>2, <2>1, <2>2, BatchIsSerial DEF ToWrite
  <2> QED BY <2>3
<1>3. CASE /\ AppendBatch(t, tStart[t]) /\ tStart[t] \in Nat /\ now' \in Nat
           /\ pc[t] = "raw" /\ t \in RawWriters
  <2>1. /\ readSet[t] = NoEntry /\ queued[t] = Zero /\ facts[t] = writeSet[t]
    BY <1>3 DEF IInv, RawAlone
  <2>2. ASSUME NEW r \in Refs, facts[t][r] # None PROVE On(r) = {}
    <3>1. r \in RawRefs
      BY <1>3, <2>1, <2>2 DEF IInv, RawAlone
    <3>2. \A d \in log : d.e = r => d.by = t /\ pc[t] \in {"mark", "committed"}
      BY <1>3, <3>1 DEF IInv, RawAlone, Premises, RawApart
    <3> QED BY <1>3, <3>2 DEF On
  <2>3. \A r \in Refs : /\ readSet[t][r] = None /\ queued[t][r] = 0
                        /\ facts[t][r] = writeSet[t][r]
    BY <2>1 DEF NoEntry, Zero
  <2>4. Serial!Next
    BY <1>3, <2>2, <2>3, BatchIsSerial
  <2> QED BY <2>4
<1> QED BY <1>1, <1>2, <1>3, Appends

LEMMA NextIsSerial ==
    ASSUME IInv, Premises, [Next]_vars
    PROVE  [Serial!Next]_<<[r \in Refs |-> Current(r)], last>>
<1>1. ASSUME NEW t \in Threads, Step(t)
      PROVE  [Serial!Next]_<<[r \in Refs |-> Current(r)], last>>
  BY <1>1, StepIsSerial
<1>2. CASE UNCHANGED vars
  BY <1>2, QuietIsStutter DEF vars, storeVars
<1> QED BY <1>1, <1>2 DEF Next, Terminating

(* Dosync bodies, commutes and atoms are serializable: check and append    *)
(* under one hold of store._lock make every commit one atomic step on the  *)
(* references, in which all that was read is still true.                   *)
THEOREM Serializable ==
    ASSUME Premises PROVE Spec => SerialSpec
<1>1. IInv /\ [Next]_vars => IInv'
  BY StepIInv
<1>2. Init => Serial!Init
  BY DEF Init, Serial!Init, Serial!Nothing, Serial!None, Current, On, ValueIn,
         NoEntry, Zero, None
<1>3. IInv /\ [Next]_vars => [Serial!Next]_<<[r \in Refs |-> Current(r)], last>>
  BY NextIsSerial
<1> QED BY InitIInv, <1>1, <1>2, <1>3, PTL DEF Spec, SerialSpec, Serial!Spec

(* tx.ensure: what a body read still holds when its writes land.           *)
THEOREM EnsureIsKept ==
    ASSUME Premises PROVE Spec => EnsureHolds
<1> DEFINE Kept == last' # last /\ (\E r \in Refs : last'.wrote[r] # None)
                     => \A r \in Refs : \/ last'.seen[r] \in {None, Current(r)}
                                        \/ last'.wrote[r] # None
<1>1. IInv /\ [Next]_vars => IInv'
  BY StepIInv
<1>2. IInv /\ [Next]_vars => [Kept]_vars
  <2> SUFFICES ASSUME IInv, [Next]_vars, last' # last PROVE Kept
    OBVIOUS
  <2>1. Serial!Next
    BY NextIsSerial
  <2>2. \A r \in Refs : last'.seen[r] \in {None, Current(r)}
    BY <2>1 DEF Serial!Next, Serial!Atomically, Serial!None, None
  <2> QED BY <2>2
<1> QED BY InitIInv, <1>1, <1>2, PTL DEF Spec, EnsureHolds

-----------------------------------------------------------------------------
(* What needs no premise about locks, clocks or references: a call leaves  *)
(* its whole batch or nothing, effects are performed once and after the    *)
(* commit, retries are paid for by commits.                                *)

(* Where a call can have datoms in the log.                                *)
Landed == {"mark", "replay", "committed", "effect_failed"}

(* A thread in a body or past it is what Places says, and a plain transact *)
(* queues no effects.                                                      *)
RawQueuesNothing ==
    /\ \A t \in Threads : pc[t] = "body" => t \in Txns
    /\ \A t \in Threads : pc[t] \in {"raw", "mark"} => t \in RawWriters
    /\ \A t \in RawWriters : intents[t] = 0

CInv == TypeInv /\ MarksBound /\ AllOrNothing
EInv == TypeInv /\ MarksBound /\ RawQueuesNothing /\ EffectsFollowCommit

-----------------------------------------------------------------------------
(* Outside the two appending steps a call that has landed stays landed and *)
(* keeps its facts.                                                        *)
LEMMA LandedKept ==
    ASSUME TypeInv, NEW t \in Threads, Step(t), NEW u \in Threads, pc[u] \in Landed
    PROVE  pc'[u] \in Landed /\ facts'[u] = facts[u]
<1>1. CASE u # t
  BY <1>1, OthersKept
<1>2. CASE u = t
  <2> USE <1>2 DEF TypeInv, TypeOK, Goto, Landed, txnVars, outVars
  <2>1. ~Body(t) /\ ~Begin(t)
    BY DEF Body, Deref, Alter, Commute, Assoc, Effect, InBody, Begin
  <2>2. /\ ~Build(t) /\ ~Conflict(t) /\ ~Check(t) /\ ~Append(t)
        /\ ~FailLocked(t) /\ ~RawAppend(t)
    BY DEF Build, Conflict, Check, Append, FailLocked, RawAppend
  <2>3. /\ \A r \in AtomRefs : ~AtomWriteOn(t, r)
        /\ \A r \in RawRefs, v \in AssocVals : ~RawBegin(t, r, v)
    BY DEF AtomWriteOn, RawBegin
  <2>4. Ends(t) \/ Perform(t) \/ RawMark(t)
    BY <2>1, <2>2, <2>3, StepCases
  <2>5. CASE Ends(t)
    BY <2>5 DEF Ends
  <2>6. CASE Perform(t)
    BY <2>6 DEF Perform
  <2>7. CASE RawMark(t)
    BY <2>7 DEF RawMark
  <2> QED BY <2>4, <2>5, <2>6, <2>7
<1> QED BY <1>1, <1>2

(* A batch of a thread that had no datoms is all that thread has.          *)
LEMMA BatchLands ==
    ASSUME CInv, NEW t \in Threads, pc[t] \notin Landed, NEW time \in Nat, now' \in Nat,
           Step(t), AppendBatch(t, time), pc'[t] \in Landed, facts' = facts
    PROVE  AllOrNothing'
<1>1. /\ log \subseteq log' /\ log' \subseteq Datoms /\ log \subseteq Datoms
      /\ \A d \in log' \ log : facts[t][d.e] # None /\ d.tx = lastTx + 1 /\ d.by = t
      /\ \A r \in Refs : facts[t][r] # None => \E d \in log' \ log : d.e = r
  BY BatchDatoms DEF CInv, TypeInv, TypeOK
<1>2. \A d \in log : d.by \in Threads /\ d.by # t /\ pc[d.by] \in Landed
  BY <1>1 DEF CInv, AllOrNothing, Landed, Datoms
<1>3. \A d \in log' : pc'[d.by] \in Landed
  <2>1. \A d \in log : pc'[d.by] \in Landed
    BY <1>2, LandedKept DEF CInv
  <2> QED BY <1>1, <2>1
<1>4. \A d, x \in log' : d.by = x.by => d.tx = x.tx
  <2>1. \A d, x \in log : d.by = x.by => d.tx = x.tx
    BY DEF CInv, AllOrNothing
  <2> QED BY <1>1, <1>2, <2>1
<1>5. ASSUME NEW d \in log', NEW r \in Refs
      PROVE  (facts'[d.by][r] # None) <=> (\E x \in log' : x.by = d.by /\ x.e = r)
  <2>1. CASE d \in log
    <3>1. (facts[d.by][r] # None) <=> (\E x \in log : x.by = d.by /\ x.e = r)
      BY <2>1 DEF CInv, AllOrNothing
    <3>2. \A x \in log' : x.by = d.by => x \in log
      BY <1>1, <1>2, <2>1
    <3> QED BY <3>1, <3>2, <1>1
  <2>2. CASE d \notin log
    <3>1. d.by = t
      BY <2>2, <1>1
    <3>2. \A x \in log' : x.by = t => x \in log' \ log
      BY <1>2
    <3>3. \A x \in log' : x.by = t => facts[t][x.e] # None
      BY <3>2, <1>1
    <3> QED BY <3>1, <3>2, <3>3, <1>1
  <2> QED BY <2>1, <2>2
<1> QED BY <1>3, <1>4, <1>5 DEF AllOrNothing, Landed

LEMMA AllOrNothingStep ==
    ASSUME CInv, NEW t \in Threads, Step(t)
    PROVE  AllOrNothing'
<1>1. CASE UNCHANGED log
  <2>1. \A d \in log : d.by \in Threads /\ pc[d.by] \in Landed
    BY DEF CInv, TypeInv, TypeOK, AllOrNothing, Landed, Datoms
  <2>2. \A d \in log : pc'[d.by] \in Landed /\ facts'[d.by] = facts[d.by]
    BY <2>1, LandedKept DEF CInv
  <2>3. log' = log
    BY <1>1
  <2>4. \A d, x \in log' : d.by = x.by => d.tx = x.tx
    BY <2>3 DEF CInv, AllOrNothing
  <2>5. \A d \in log', r \in Refs :
          (facts'[d.by][r] # None) <=> (\E x \in log' : x.by = d.by /\ x.e = r)
    BY <2>2, <2>3 DEF CInv, AllOrNothing
  <2> QED BY <2>2, <2>3, <2>4, <2>5 DEF AllOrNothing, Landed
<1>2. CASE Append(t) /\ AppendBatch(t, now')
  <2>1. now' \in Nat
    BY <1>2, ClockNat DEF Append, CInv, TypeInv
  <2>2. pc[t] \notin Landed /\ facts' = facts
    BY <1>2 DEF Append, Landed, outVars
  <2>3. CASE Retroactive(t)
    BY <1>1, <1>2, <2>3 DEF Append, storeVars
  <2>4. CASE ~Retroactive(t)
    <3>1. pc'[t] \in Landed
      BY <1>2, <2>4 DEF Append, Goto, Landed, CInv, TypeInv, TypeOK
    <3> QED BY <1>2, <2>1, <2>2, <3>1, BatchLands
  <2> QED BY <2>3, <2>4
<1>3. CASE RawAppend(t)
  <2>1. /\ pc[t] \notin Landed /\ pc'[t] \in Landed /\ facts' = facts
        /\ now' \in Nat /\ tStart[t] \in Nat /\ AppendBatch(t, tStart[t])
    BY <1>3 DEF RawAppend, Goto, Landed, outVars, CInv, TypeInv, TypeOK
  <2> QED BY <2>1, BatchLands
<1> QED BY <1>1, <1>2, <1>3, LogSteps

(* A call that failed, was retried out of its attempts or missed its       *)
(* deadline left no datom; one that appended left exactly its facts, under *)
(* one tx: for any number of threads and processes, clocks that stand      *)
(* still included.                                                         *)
THEOREM CommitIsAtomic == Spec => []AllOrNothing
<1>1. Init => CInv
  <2>1. Init => MarksBound /\ AllOrNothing
    BY DEF Init, MarksBound, AllOrNothing
  <2> QED BY <2>1, InitType DEF CInv
<1>2. CInv /\ [Next]_vars => CInv'
  <2> SUFFICES ASSUME CInv, [Next]_vars PROVE CInv'
    OBVIOUS
  <2>1. ASSUME NEW t \in Threads, Step(t) PROVE CInv'
    BY <2>1, StepType, MarksStep, AllOrNothingStep DEF CInv
  <2>2. CASE UNCHANGED vars
    <3>1. TypeOK' /\ MarksBound' /\ AllOrNothing'
      BY <2>2 DEF CInv, TypeInv, TypeOK, MarksBound, AllOrNothing, vars, storeVars,
                  txnVars, outVars
    <3> QED BY <2>2, <3>1, QuietStep DEF CInv, vars, storeVars
  <2> QED BY <2>1, <2>2 DEF Next, Terminating
<1>3. CInv => AllOrNothing
  BY DEF CInv
<1> QED BY <1>1, <1>2, <1>3, PTL DEF Spec
-----------------------------------------------------------------------------
(* A step touches the intents and the effects of its own thread only.      *)
LEMMA OtherEffectsKept ==
    ASSUME TypeInv, NEW t \in Threads, Step(t), NEW u \in Threads, u # t
    PROVE  intents'[u] = intents[u] /\ emitted'[u] = emitted[u]
<1> USE DEF TypeInv, TypeOK, txnVars, outVars
<1>1. CASE Body(t)
  BY <1>1 DEF Body, Deref, Alter, Commute, Assoc, Effect, InBody
<1>2. CASE Begin(t) \/ Ends(t) \/ Build(t) \/ Conflict(t)
  BY <1>2 DEF Begin, Ends, Build, Conflict
<1>3. CASE Check(t) \/ Append(t) \/ FailLocked(t) \/ Perform(t)
           \/ RawAppend(t) \/ RawMark(t)
  BY <1>3 DEF Check, Append, FailLocked, Perform, RawAppend, RawMark
<1>4. CASE \E r \in AtomRefs : AtomWriteOn(t, r)
  BY <1>4 DEF AtomWriteOn, AtomWrite
<1>5. CASE \E r \in RawRefs, v \in AssocVals : RawBegin(t, r, v)
  BY <1>5 DEF RawBegin
<1> QED BY <1>1, <1>2, <1>3, <1>4, <1>5, StepCases

(* What EInv says of one thread.                                           *)
FollowsCommit(u) ==
    /\ pc[u] \notin {"replay", "committed", "effect_failed"} => emitted[u] = 0
    /\ pc[u] = "committed" => emitted[u] = intents[u]
    /\ pc[u] \in {"replay", "effect_failed"} => emitted[u] < intents[u]

QueuesRightly(u) ==
    /\ pc[u] = "body" => u \in Txns
    /\ pc[u] \in {"raw", "mark"} => u \in RawWriters
    /\ u \in RawWriters => intents[u] = 0

LEMMA ThreadByThread ==
    ASSUME TypeOK
    PROVE  /\ EffectsFollowCommit <=> \A u \in Threads : FollowsCommit(u)
           /\ RawQueuesNothing <=> \A u \in Threads : QueuesRightly(u)
BY DEF EffectsFollowCommit, RawQueuesNothing, FollowsCommit, QueuesRightly, Threads

(* The thread that moves: the emissions start when the batch has landed,   *)
(* and the call returns when they have reached the number of intents.      *)
LEMMA OwnEffectsStep ==
    ASSUME EInv, NEW t \in Threads, Step(t)
    PROVE  FollowsCommit(t)' /\ QueuesRightly(t)'
<1>1. FollowsCommit(t) /\ QueuesRightly(t)
  BY ThreadByThread DEF EInv, TypeInv
<1>2. t \in Txns => t \notin RawWriters
  BY ConstantsOK
<1>3. intents[t] \in Nat /\ emitted[t] \in Nat
  BY DEF EInv, TypeInv, TypeOK
<1> USE <1>1, <1>2, <1>3
    DEF EInv, TypeInv, TypeOK, FollowsCommit, QueuesRightly, Goto, txnVars, outVars
<1>4. CASE Body(t)
  <2>1. pc[t] = "body" /\ pc' = pc /\ emitted' = emitted
    BY <1>4 DEF Body, Deref, Alter, Commute, Assoc, Effect, InBody
  <2> QED BY <2>1
<1>5. CASE Begin(t)
  BY <1>5 DEF Begin
<1>6. CASE Ends(t)
  BY <1>6 DEF Ends
<1>7. CASE Build(t) \/ Conflict(t)
  BY <1>7 DEF Build, Conflict
<1>8. CASE Check(t) \/ FailLocked(t)
  BY <1>8 DEF Check, FailLocked
<1>9. CASE Append(t)
  <2>1. pc[t] = "locked" /\ intents' = intents /\ emitted' = emitted
    BY <1>9 DEF Append
  <2>2. \/ pc'[t] = "failed"
        \/ pc'[t] = "replay" /\ intents[t] > 0
        \/ pc'[t] = "committed" /\ ~(intents[t] > 0)
    BY <1>9 DEF Append
  <2> QED BY <2>1, <2>2
<1>10. CASE Perform(t)
  <2>1. pc[t] = "replay" /\ intents' = intents /\ emitted'[t] = emitted[t] + 1
    BY <1>10 DEF Perform
  <2>2. CASE emitted'[t] = intents[t]
    <3>1. pc'[t] = "committed"
      BY <1>10, <2>2 DEF Perform
    <3> QED BY <2>1, <2>2, <3>1
  <2>3. CASE emitted'[t] # intents[t]
    <3>1. pc' = pc
      BY <1>10, <2>3 DEF Perform
    <3> QED BY <2>1, <2>3, <3>1
  <2> QED BY <2>2, <2>3
<1>11. CASE \E r \in AtomRefs : AtomWriteOn(t, r)
  BY <1>11 DEF AtomWriteOn, AtomWrite
<1>12. CASE \E r \in RawRefs, v \in AssocVals : RawBegin(t, r, v)
  BY <1>12 DEF RawBegin
<1>13. CASE RawAppend(t)
  BY <1>13 DEF RawAppend
<1>14. CASE RawMark(t)
  BY <1>14 DEF RawMark
<1> QED BY <1>4, <1>5, <1>6, <1>7, <1>8, <1>9, <1>10, <1>11, <1>12, <1>13, <1>14,
           StepCases

(* Effects are performed for committed calls only and each exactly once, a *)
(* retried or abandoned attempt performs none: for any number of threads,  *)
(* processes and intents, and whatever the conflict check misses.          *)
THEOREM EffectsAfterCommit == Spec => []EffectsFollowCommit
<1>1. Init => EInv
  <2>1. Init => RawQueuesNothing /\ MarksBound /\ EffectsFollowCommit
    BY DEF Init, RawQueuesNothing, MarksBound, EffectsFollowCommit, Threads
  <2> QED BY <2>1, InitType DEF EInv
<1>2. EInv /\ [Next]_vars => EInv'
  <2> SUFFICES ASSUME EInv, [Next]_vars PROVE EInv'
    OBVIOUS
  <2>1. ASSUME NEW t \in Threads, Step(t) PROVE EInv'
    <3>1. TypeInv' /\ MarksBound'
      BY <2>1, StepType, MarksStep DEF EInv
    <3>2. FollowsCommit(t)' /\ QueuesRightly(t)'
      BY <2>1, OwnEffectsStep
    <3>3. ASSUME NEW u \in Threads, u # t PROVE FollowsCommit(u)' /\ QueuesRightly(u)'
      <4>1. pc'[u] = pc[u] /\ intents'[u] = intents[u] /\ emitted'[u] = emitted[u]
        BY <2>1, <3>3, OthersKept, OtherEffectsKept DEF EInv
      <4>2. FollowsCommit(u) /\ QueuesRightly(u)
        BY ThreadByThread DEF EInv, TypeInv
      <4> QED BY <4>1, <4>2 DEF FollowsCommit, QueuesRightly
    <3>4. EffectsFollowCommit' /\ RawQueuesNothing'
      BY <3>1, <3>2, <3>3
         DEF TypeInv, EffectsFollowCommit, RawQueuesNothing, FollowsCommit,
             QueuesRightly, Threads
    <3> QED BY <3>1, <3>4 DEF EInv
  <2>2. CASE UNCHANGED vars
    <3>1. TypeOK' /\ MarksBound' /\ RawQueuesNothing' /\ EffectsFollowCommit'
      BY <2>2 DEF EInv, TypeInv, TypeOK, MarksBound, RawQueuesNothing,
                  EffectsFollowCommit, vars, storeVars, txnVars, outVars
    <3> QED BY <2>2, <3>1, QuietStep DEF EInv, vars, storeVars
  <2> QED BY <2>1, <2>2 DEF Next, Terminating
<1>3. EInv => EffectsFollowCommit
  BY DEF EInv
<1> QED BY <1>1, <1>2, <1>3, PTL DEF Spec
-----------------------------------------------------------------------------
(* The clock is never behind what was read from it.                        *)
Past == /\ \A t \in Threads : tStart[t] <= now
        /\ \A d \in log : d.time <= now

(* Why a conflict is another thread's success: a datom that a running      *)
(* attempt may conflict with belongs to a tx above the conflicts met.      *)
Paid(t) ==
    /\ pc[t] \in {"body", "build"} =>
          \A d \in log : d.time > tStart[t] => d.tx > attempt[t]
    /\ attempt[t] + (IF pc[t] \in Landed THEN 1 ELSE 0) <= lastTx

PInv == CInv /\ Past /\ \A t \in Threads : Paid(t)

(* Snapshots are taken now, and nothing is recorded in the future.         *)
LEMMA PastStep ==
    ASSUME PInv, NEW t \in Threads, Step(t)
    PROVE  Past'
<1>1. now' = now \/ ReadClock
  BY StepCases
     DEF Body, Deref, Alter, Commute, Assoc, Effect, InBody, Begin, Ends,
         Build, Conflict, Check, Append, FailLocked, Perform, AtomWriteOn,
         AtomWrite, RawBegin, RawAppend, RawMark
<1>2. now \in Nat /\ now' \in Nat /\ now <= now'
  BY <1>1, ConstantsOK DEF ReadClock, PInv, CInv, TypeInv, TypeOK
<1>3. tStart' = tStart \/ tStart' = [tStart EXCEPT ![t] = now']
  BY StepCases
     DEF Body, Deref, Alter, Commute, Assoc, Effect, InBody, Begin, Ends,
         Build, Conflict, Check, Append, FailLocked, Perform, AtomWriteOn,
         AtomWrite, RawBegin, RawAppend, RawMark
<1>4. /\ tStart \in [Threads -> Nat] /\ \A u \in Threads : tStart[u] <= now
      /\ \A d \in log : d.time \in Nat /\ d.time <= now
  BY DEF PInv, CInv, Past, TypeInv, TypeOK, Datoms
<1>5. \A u \in Threads : tStart'[u] <= now'
  BY <1>2, <1>3, <1>4
<1>6. \A d \in log' : d.time <= now'
  <2>1. CASE UNCHANGED log
    BY <2>1, <1>2, <1>4
  <2>2. ASSUME NEW time \in Nat, time <= now', AppendBatch(t, time)
        PROVE  \A d \in log' : d.time <= now'
    <3>1. \A d \in log' \ log : d.time = time
      BY <2>2, <1>2, BatchDatoms DEF PInv, CInv
    <3> QED BY <3>1, <2>2, <1>2, <1>4
  <2>3. CASE Append(t) /\ AppendBatch(t, now')
    BY <2>2, <2>3, <1>2
  <2>4. CASE RawAppend(t)
    <3>1. tStart[t] \in Nat /\ tStart[t] <= now' /\ AppendBatch(t, tStart[t])
      BY <2>4, <1>2, <1>4 DEF RawAppend
    <3> QED BY <2>2, <3>1
  <2> QED BY <2>1, <2>3, <2>4, LogSteps
<1> QED BY <1>5, <1>6 DEF Past

(* Whoever appends takes a tx above every number of conflicts.             *)
LEMMA PaidStep ==
    ASSUME PInv, NEW t \in Threads, Step(t), NEW u \in Threads
    PROVE  Paid(u)'
<1> USE DEF PInv, CInv, TypeInv, TypeOK, Goto, Landed
<1>1. /\ Paid(u) /\ attempt[u] \in Nat /\ tStart[u] \in Nat /\ lastTx \in Nat
      /\ \A d \in log : d.tx \in Nat /\ d.tx <= lastTx /\ d.time \in Nat
  BY DEF TxBound, Datoms
<1>2. CASE UNCHANGED <<log, lastTx>>
  <2>1. CASE u # t
    <3>1. pc'[u] = pc[u] /\ tStart'[u] = tStart[u]
      BY <2>1, OthersKept
    <3>2. attempt'[u] = attempt[u]
      BY <2>1, StepCases
         DEF Body, Deref, Alter, Commute, Assoc, Effect, InBody, Begin, Ends,
             Build, Conflict, Check, Append, FailLocked, Perform, AtomWriteOn,
             AtomWrite, RawBegin, RawAppend, RawMark
    <3> QED BY <1>1, <1>2, <3>1, <3>2 DEF Paid
  <2>2. CASE u = t /\ Begin(t)
    <3>1. now' \in Nat /\ now <= now' /\ tStart'[t] = now' /\ attempt' = attempt
      BY <2>2, ConstantsOK DEF Begin, ReadClock
    <3>2. \A d \in log : d.time <= now
      BY DEF Past
    <3>3. pc[t] = "start" /\ pc'[t] = "body"
      BY <2>2 DEF Begin
    <3> QED BY <1>1, <1>2, <2>2, <3>1, <3>2, <3>3 DEF Paid
  <2>3. CASE u = t /\ Conflict(t)
    <3>1. pc[t] = "build" /\ pc'[t] = "start" /\ attempt'[t] = attempt[t] + 1
      BY <2>3 DEF Conflict
    <3>2. \E d \in log : d.time > tStart[t]
      BY <2>3 DEF Conflict, AnyDatomsSince
    <3>3. lastTx > attempt[t]
      BY <1>1, <2>3, <3>1, <3>2, SMTT(30) DEF Paid
    <3> QED BY <1>1, <1>2, <2>3, <3>1, <3>3 DEF Paid
  <2>4. CASE u = t /\ (Body(t) \/ Build(t))
    <3>1. /\ pc[t] = "body" /\ pc'[t] \in {"body", "build"}
          /\ attempt' = attempt /\ tStart' = tStart
      BY <2>4 DEF Body, Deref, Alter, Commute, Assoc, Effect, InBody, Build
    <3> QED BY <1>1, <1>2, <2>4, <3>1 DEF Paid
  <2>5. CASE u = t /\ (Ends(t) \/ FailLocked(t) \/ Perform(t) \/ RawMark(t))
    <3>1. /\ pc'[t] \notin {"body", "build"} /\ attempt' = attempt
          /\ pc'[t] \in Landed => pc[t] \in Landed
      BY <2>5 DEF Ends, FailLocked, Perform, RawMark
    <3> QED BY <1>1, <1>2, <2>5, <3>1 DEF Paid
  <2>6. CASE u = t /\ (\/ Check(t)
                       \/ \E r \in AtomRefs : AtomWriteOn(t, r)
                       \/ \E r \in RawRefs, v \in AssocVals : RawBegin(t, r, v))
    <3>1. pc'[t] \in {"locked", "raw"} /\ attempt' = attempt
      BY <2>6 DEF Check, AtomWriteOn, AtomWrite, RawBegin
    <3> QED BY <1>1, <1>2, <2>6, <3>1 DEF Paid
  <2>7. CASE u = t /\ Append(t)
    <3>1. pc'[t] = "failed" /\ attempt' = attempt
      BY <1>1, <1>2, <2>7 DEF Append, AppendBatch, storeVars
    <3> QED BY <1>1, <1>2, <2>7, <3>1 DEF Paid
  <2>8. ~RawAppend(t)
    BY <1>1, <1>2 DEF RawAppend, AppendBatch
  <2> QED BY <2>1, <2>2, <2>3, <2>4, <2>5, <2>6, <2>7, <2>8, StepCases
<1>3. ASSUME NEW time \in Nat, now' \in Nat, AppendBatch(t, time),
             pc[t] \in {"locked", "raw"}, pc'[t] \notin {"body", "build"},
             attempt' = attempt
      PROVE  Paid(u)'
  <2>1. lastTx' = lastTx + 1 /\ \A d \in log' \ log : d.tx = lastTx + 1
    BY <1>3, BatchDatoms DEF AppendBatch
  <2>2. CASE u = t
    BY <1>1, <1>3, <2>1, <2>2 DEF Paid
  <2>3. CASE u # t
    <3>1. pc'[u] = pc[u] /\ tStart'[u] = tStart[u]
      BY <2>3, OthersKept
    <3> QED BY <1>1, <1>3, <2>1, <3>1 DEF Paid
  <2> QED BY <2>2, <2>3
<1>4. CASE Append(t) /\ AppendBatch(t, now')
  <2>1. /\ now' \in Nat /\ pc[t] = "locked" /\ attempt' = attempt
        /\ pc'[t] \notin {"body", "build"}
    BY <1>4, ClockNat DEF Append
  <2> QED BY <1>3, <1>4, <2>1
<1>5. CASE RawAppend(t)
  <2>1. /\ now' \in Nat /\ tStart[t] \in Nat /\ AppendBatch(t, tStart[t])
        /\ pc[t] = "raw" /\ attempt' = attempt /\ pc'[t] \notin {"body", "build"}
    BY <1>5 DEF RawAppend
  <2> QED BY <1>3, <2>1
<1> QED BY <1>2, <1>4, <1>5, LogSteps DEF RawMark

(* A dosync that has met n conflicts saw n other transactions get through, *)
(* with clocks that stand still and in any number of processes: retries    *)
(* are paid for by progress, so there is no retry storm.                   *)
THEOREM RetriesArePaid == Spec => []RetriesArePaidFor
<1>1. Init => PInv
  <2>1. Init => CInv
    <3>1. Init => MarksBound /\ AllOrNothing
      BY DEF Init, MarksBound, AllOrNothing
    <3> QED BY <3>1, InitType DEF CInv
  <2>2. Init => Past /\ \A t \in Threads : Paid(t)
    BY DEF Init, Past, Paid, Landed
  <2> QED BY <2>1, <2>2 DEF PInv
<1>2. PInv /\ [Next]_vars => PInv'
  <2> SUFFICES ASSUME PInv, [Next]_vars PROVE PInv'
    OBVIOUS
  <2>1. ASSUME NEW t \in Threads, Step(t) PROVE PInv'
    BY <2>1, StepType, MarksStep, AllOrNothingStep, PastStep, PaidStep DEF PInv, CInv
  <2>2. CASE UNCHANGED vars
    <3>1. CInv'
      BY <2>2, QuietStep DEF PInv, CInv, TypeInv, TypeOK, MarksBound, AllOrNothing,
                             vars, storeVars, txnVars, outVars
    <3>2. Past' /\ \A t \in Threads : Paid(t)'
      BY <2>2 DEF PInv, Past, Paid, vars, storeVars
    <3> QED BY <3>1, <3>2 DEF PInv
  <2> QED BY <2>1, <2>2 DEF Next, Terminating
<1>3. PInv => RetriesArePaidFor
  <2> SUFFICES ASSUME PInv, NEW t \in Txns
               PROVE  attempt[t] + (IF \E d \in log : d.by = t THEN 1 ELSE 0) <= lastTx
    BY DEF RetriesArePaidFor
  <2>1. t \in Threads
    BY DEF Threads
  <2>2. (\E d \in log : d.by = t) => pc[t] \in Landed
    BY DEF PInv, CInv, AllOrNothing, Landed
  <2>3. Paid(t) /\ attempt[t] \in Nat /\ lastTx \in Nat
    BY <2>1 DEF PInv, CInv, TypeInv, TypeOK
  <2> QED BY <2>2, <2>3 DEF Paid
<1> QED BY <1>1, <1>2, <1>3, PTL DEF Spec
=============================================================================
