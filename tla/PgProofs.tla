------------------------------ MODULE PgProofs ------------------------------
(***************************************************************************)
(* Proofs about PgStore.tla, for every number of threads, processes,       *)
(* migrations, retries and calls, every pool size and every set of batches.*)
(***************************************************************************)
EXTENDS PgStore, FiniteSetTheorems, SequenceTheorems, TLAPS

IsSequence(s) == s \in Seq({s[i] : i \in DOMAIN s})

(* The clients whose transaction holds the row of the allocator.           *)
Allocated == {"chain", "insert", "commit"}

TypeInv ==
    /\ history \in Seq(Nat) /\ proc \in [Procs -> ProcStates]
    /\ applied \in [Procs -> SUBSET Nat] /\ current \in [Procs -> Nat]
    /\ nextTx \in Nat \ {0} /\ head.seq \in Nat
    /\ rowLock \in [Rows -> Clients \cup {Free}] /\ mutex \in [Procs -> Clients \cup {Free}]
    /\ pc \in [Clients -> Pcs] /\ attempt \in [Clients -> 0 .. MaxRetries]
    /\ call \in [Clients -> Nat] /\ tx \in [Clients -> Nat]
    /\ IsSequence(log) /\ IsSequence(answer) /\ Len(answer) <= MaxCalls

(* Every connection in use was taken from the pool.                        *)
PoolInv == \A p \in Procs : /\ IsFiniteSet(Connections(p))
                            /\ Cardinality(Connections(p)) <= PoolMax

(* A row is given to a migration only when it is the next of the history,  *)
(* and every process has seen the history up to some row.                  *)
SchemaInv ==
    /\ \A i \in 1 .. Len(history) : history[i] = i
    /\ \A p \in Procs :
          /\ \E k \in 0 .. Len(history) :
                /\ applied[p] = 1 .. k
                /\ current[p] # 0 => current[p] = k + 1 /\ k = Len(history)
          /\ current[p] # 0 => proc[p] = "migrating"
          /\ proc[p] = "open" => Known[p] <= Len(history)
    /\ \A p, q \in Procs : p # q /\ current[p] # 0 => current[q] # current[p]

(* A call is open as long as a client works on it, and in the log when it  *)
(* is closed at most.                                                      *)
CallInv ==
    /\ \A c \in Clients : pc[c] # "idle" =>
          call[c] \in 1 .. Len(answer) /\ answer[call[c]] = Open
    /\ \A c, d \in Clients : c # d /\ pc[c] # "idle" /\ pc[d] # "idle" => call[c] # call[d]
    /\ \A n \in 1 .. Len(log) :
          /\ log[n].call \in 1 .. Len(answer) /\ answer[log[n].call] # Open
          /\ \A m \in 1 .. Len(log) : log[m].call = log[n].call => m = n
    /\ \A i \in 1 .. Len(answer) :
          answer[i] \in {Open, Refused, Lost} \/ \E n \in 1 .. MaxCalls : answer[i] = Told(n)

(* Who has allocated a tx id holds the row, so the id is still the next.   *)
TxInv ==
    /\ nextTx = Len(log) + 1
    /\ \A n \in 1 .. Len(log) : log[n].tx = n
    /\ \A c \in Clients : pc[c] \in Allocated =>
          rowLock["tx_allocator"] = c /\ tx[c] = nextTx
    /\ \A c \in Clients : pc[c] = "backoff" => attempt[c] < MaxRetries
-----------------------------------------------------------------------------
(* Sequences whose elements have no common set: those of log and answer.   *)
LEMMA SequenceIs ==
    ASSUME NEW s, IsSequence(s)
    PROVE  Len(s) \in Nat /\ DOMAIN s = 1 .. Len(s) /\ s = [i \in 1 .. Len(s) |-> s[i]]
<1> DEFINE S == {s[i] : i \in DOMAIN s}
<1>1. s \in Seq(S)
  BY DEF IsSequence
<1> HIDE DEF S
<1>2. Len(s) \in Nat /\ DOMAIN s = 1 .. Len(s) /\ s \in [1 .. Len(s) -> S]
  BY <1>1, LenProperties
<1> QED BY <1>2

LEMMA AppendIs ==
    ASSUME NEW s, IsSequence(s), NEW e
    PROVE  /\ IsSequence(Append(s, e)) /\ Len(Append(s, e)) = Len(s) + 1
           /\ \A i \in 1 .. Len(s) : Append(s, e)[i] = s[i]
           /\ Append(s, e)[Len(s) + 1] = e
<1> DEFINE S == {s[i] : i \in DOMAIN s} \cup {e}
<1>1. s \in Seq(S)
  BY SeqMonotonic DEF IsSequence
<1>2. e \in S
  OBVIOUS
<1>3. S = {s[i] : i \in 1 .. Len(s)} \cup {e}
  BY SequenceIs
<1> HIDE DEF S
<1>4. /\ Append(s, e) \in Seq(S) /\ Len(Append(s, e)) = Len(s) + 1 /\ Len(s) \in Nat
      /\ DOMAIN Append(s, e) = 1 .. Len(s) + 1
      /\ \A i \in 1 .. Len(s) : Append(s, e)[i] = s[i]
      /\ Append(s, e)[Len(s) + 1] = e
  BY <1>1, <1>2
<1> DEFINE t == Append(s, e)
<1>5. S = {t[i] : i \in DOMAIN t}
  <2>1. \A x \in S : \E i \in DOMAIN t : x = t[i]
    BY <1>3, <1>4
  <2>2. \A i \in DOMAIN t : t[i] \in S
    <3>1. \A i \in DOMAIN t : i \in 1 .. Len(s) \/ i = Len(s) + 1
      BY <1>4
    <3> QED BY <1>2, <1>3, <1>4, <3>1
  <2> QED BY <2>1, <2>2
<1> QED BY <1>4, <1>5 DEF IsSequence

LEMMA SameLength ==
    ASSUME NEW s, IsSequence(s), NEW t, t = [i \in DOMAIN s |-> t[i]]
    PROVE  IsSequence(t) /\ Len(t) = Len(s)
<1> DEFINE T == {t[i] : i \in DOMAIN t}
<1>1. Len(s) \in Nat /\ DOMAIN t = 1 .. Len(s)
  BY SequenceIs
<1>2. \A i \in 1 .. Len(s) : t[i] \in T
  BY <1>1
<1> HIDE DEF T
<1>3. t \in [1 .. Len(s) -> T]
  BY <1>1, <1>2
<1>4. t \in Seq(T)
  BY <1>1, <1>3, SeqDef
<1>5. Len(t) = Len(s)
  BY <1>1, <1>4, LenProperties
<1> QED BY <1>4, <1>5 DEF IsSequence, T

LEMMA ToldApart == /\ Open # Refused /\ Open # Lost /\ \A n : Told(n) # Open
<1>1. Len(<<"open">>) = 1 /\ \A n : Len(<<"tx", n>>) = 2
  OBVIOUS
<1>2. \A n : Told(n) # Open
  BY <1>1 DEF Told, Open
<1> QED BY <1>2 DEF Open, Refused, Lost

-----------------------------------------------------------------------------
(* What a step of a call does to the variables the invariants are about,   *)
(* when it neither ends the call nor touches the log.                      *)
Moves(c) ==
    /\ pc[c] # "idle" /\ pc'[c] \in Pcs \ {"idle"}
    /\ pc' \in [Clients -> Pcs] /\ \A d \in Clients : d # c => pc'[d] = pc[d]
    /\ attempt' \in [Clients -> 0 .. MaxRetries] /\ tx' \in [Clients -> Nat]
    /\ \A d \in Clients : d # c => attempt'[d] = attempt[d] /\ tx'[d] = tx[d]
    /\ rowLock' \in [Rows -> Clients \cup {Free}]
    /\ mutex' \in [Procs -> Clients \cup {Free}]
    /\ \A d \in Clients : d # c /\ rowLock["tx_allocator"] = d => rowLock'["tx_allocator"] = d
    /\ pc'[c] \in Allocated => rowLock'["tx_allocator"] = c /\ tx'[c] = nextTx
    /\ pc'[c] = "backoff" => attempt'[c] < MaxRetries
    /\ pc[c] \in InTransaction \/ pc'[c] \notin InTransaction
       \/ Cardinality(Connections(ProcOf[c])) < PoolMax
    /\ UNCHANGED <<schemaVars, dbVars, call, answer>>

Fails(c) == pc[c] # "idle" /\ \E how \in {Refused, Lost} : Raise(c, how)

Lands(c) == pc[c] = "commit" /\ \E how \in {Told(tx[c]), Lost} : Landed(c, how)

LEMMA ClientProc == \A c \in Clients : ProcOf[c] \in Procs
BY DEF Procs

LEMMA SerializationFailureIs ==
    ASSUME TypeInv, NEW c \in Clients, pc[c] # "idle", SerializationFailure(c)
    PROVE  Moves(c) \/ Fails(c)
<1>1. CASE attempt[c] = MaxRetries
  BY <1>1 DEF SerializationFailure, Fails
<1>2. CASE attempt[c] # MaxRetries
  <2>1. /\ pc' = [pc EXCEPT ![c] = "backoff"] /\ tx' = [tx EXCEPT ![c] = 0]
        /\ rowLock' = [r \in Rows |-> IF rowLock[r] \in {c} THEN Free ELSE rowLock[r]]
        /\ UNCHANGED <<schemaVars, dbVars, mutex, callVars, answer>>
    BY <1>2 DEF SerializationFailure, RolledBack, Unlocked
  <2>2. attempt[c] \in 0 .. MaxRetries /\ MaxRetries \in Nat
    BY PgConstantsOK DEF TypeInv
  <2>3. attempt[c] < MaxRetries
    BY <1>2, <2>2
  <2>4. /\ pc' \in [Clients -> Pcs] /\ pc'[c] = "backoff"
        /\ \A d \in Clients : d # c => pc'[d] = pc[d]
    BY <2>1 DEF TypeInv, Pcs
  <2>5. tx' \in [Clients -> Nat] /\ \A d \in Clients : d # c => tx'[d] = tx[d]
    BY <2>1 DEF TypeInv
  <2>6. /\ rowLock' \in [Rows -> Clients \cup {Free}]
        /\ \A d \in Clients : d # c /\ rowLock["tx_allocator"] = d =>
              rowLock'["tx_allocator"] = d
    BY <2>1 DEF TypeInv, Rows
  <2>7. UNCHANGED <<schemaVars, dbVars, mutex, call, attempt, answer>>
    BY <2>1 DEF callVars
  <2> QED BY <2>3, <2>4, <2>5, <2>6, <2>7 DEF Moves, TypeInv, Allocated, InTransaction, Pcs
<1> QED BY <1>1, <1>2

(* Every step of a call that is open is one of the three.                  *)
LEMMA StepIs ==
    ASSUME TypeInv, TxInv, NEW c \in Clients,
           Step(c) \/ TimedOut(c) \/ ConnectionLost(c)
    PROVE  Moves(c) \/ Fails(c) \/ Lands(c)
<1>1. CASE TakeMutex(c)
  <2>1. /\ pc[c] = "lock" /\ pc' = [pc EXCEPT ![c] = "pool"]
        /\ mutex' = [mutex EXCEPT ![ProcOf[c]] = c]
        /\ UNCHANGED <<schemaVars, dbVars, rowLock, call, attempt, tx, answer>>
    BY <1>1 DEF TakeMutex, callVars
  <2>2. /\ pc' \in [Clients -> Pcs] /\ pc'[c] = "pool"
        /\ \A d \in Clients : d # c => pc'[d] = pc[d]
    BY <2>1 DEF TypeInv, Pcs
  <2>3. mutex' \in [Procs -> Clients \cup {Free}]
    BY <2>1, ClientProc DEF TypeInv
  <2> QED BY <2>1, <2>2, <2>3 DEF Moves, TypeInv, Allocated, InTransaction, Pcs
<1>2. CASE Connect(c)
  <2>1. /\ pc[c] = "pool" /\ pc' = [pc EXCEPT ![c] = "allocator"]
        /\ Cardinality(Connections(ProcOf[c])) < PoolMax
        /\ UNCHANGED <<schemaVars, dbVars, rowLock, mutex, call, attempt, tx, answer>>
    BY <1>2 DEF Connect, callVars
  <2>2. /\ pc' \in [Clients -> Pcs] /\ pc'[c] = "allocator"
        /\ \A d \in Clients : d # c => pc'[d] = pc[d]
    BY <2>1 DEF TypeInv, Pcs
  <2> QED BY <2>1, <2>2 DEF Moves, TypeInv, Allocated, Pcs
<1>3. CASE Retry(c)
  <2>1. /\ pc[c] = "backoff" /\ pc' = [pc EXCEPT ![c] = "pool"]
        /\ attempt' = [attempt EXCEPT ![c] = @ + 1]
        /\ UNCHANGED <<schemaVars, dbVars, rowLock, mutex, call, tx, answer>>
    BY <1>3 DEF Retry
  <2>2. /\ pc' \in [Clients -> Pcs] /\ pc'[c] = "pool"
        /\ \A d \in Clients : d # c => pc'[d] = pc[d]
    BY <2>1 DEF TypeInv, Pcs
  <2>3. attempt[c] < MaxRetries /\ attempt[c] \in 0 .. MaxRetries /\ MaxRetries \in Nat
    BY <2>1, PgConstantsOK DEF TxInv, TypeInv
  <2>4. attempt[c] + 1 \in 0 .. MaxRetries
    BY <2>3
  <2>5. /\ attempt' \in [Clients -> 0 .. MaxRetries]
        /\ \A d \in Clients : d # c => attempt'[d] = attempt[d]
    BY <2>1, <2>4 DEF TypeInv
  <2> QED BY <2>1, <2>2, <2>5 DEF Moves, TypeInv, Allocated, InTransaction, Pcs
<1>4. CASE LockAllocator(c)
  <2>1. CASE SerializationFailure(c)
    BY <1>4, <2>1, SerializationFailureIs DEF LockAllocator
  <2>2. CASE seen[c].tx = nextTx
    <3>1. /\ pc[c] = "allocator" /\ rowLock["tx_allocator"] = Free
          /\ rowLock' = [rowLock EXCEPT !["tx_allocator"] = c]
          /\ tx' = [tx EXCEPT ![c] = nextTx]
          /\ pc' = [pc EXCEPT ![c] = IF Audits(batch[c]) # {} THEN "chain" ELSE "insert"]
          /\ UNCHANGED <<schemaVars, dbVars, mutex, call, attempt, answer>>
      BY <1>4, <2>2 DEF LockAllocator, callVars
    <3>2. /\ pc' \in [Clients -> Pcs] /\ pc'[c] \in {"chain", "insert"}
          /\ \A d \in Clients : d # c => pc'[d] = pc[d]
      BY <3>1 DEF TypeInv, Pcs
    <3>3. /\ tx' \in [Clients -> Nat] /\ tx'[c] = nextTx
          /\ \A d \in Clients : d # c => tx'[d] = tx[d]
      BY <3>1 DEF TypeInv
    <3>4. /\ rowLock' \in [Rows -> Clients \cup {Free}] /\ rowLock'["tx_allocator"] = c
          /\ \A d \in Clients : rowLock["tx_allocator"] # d
      BY <3>1, PgConstantsOK DEF TypeInv, Rows
    <3> QED BY <3>1, <3>2, <3>3, <3>4 DEF Moves, TypeInv, InTransaction, Pcs
  <2> QED BY <1>4, <2>1, <2>2 DEF LockAllocator
<1>5. CASE LockChain(c)
  <2>1. CASE SerializationFailure(c)
    BY <1>5, <2>1, SerializationFailureIs DEF LockChain
  <2>2. CASE seen[c].seq = head.seq
    <3>1. /\ pc[c] = "chain" /\ rowLock' = [rowLock EXCEPT !["audit_chain_lock"] = c]
          /\ pc' = [pc EXCEPT ![c] = "insert"]
          /\ UNCHANGED <<schemaVars, dbVars, mutex, call, attempt, tx, answer>>
      BY <1>5, <2>2 DEF LockChain, callVars
    <3>2. /\ pc' \in [Clients -> Pcs] /\ pc'[c] = "insert"
          /\ \A d \in Clients : d # c => pc'[d] = pc[d]
      BY <3>1 DEF TypeInv, Pcs
    <3>3. /\ rowLock' \in [Rows -> Clients \cup {Free}]
          /\ rowLock'["tx_allocator"] = rowLock["tx_allocator"]
      BY <3>1 DEF TypeInv, Rows
    <3>4. rowLock["tx_allocator"] = c /\ tx[c] = nextTx
      BY <3>1 DEF TxInv, Allocated
    <3> QED BY <3>1, <3>2, <3>3, <3>4 DEF Moves, TypeInv, InTransaction, Pcs
  <2> QED BY <1>5, <2>1, <2>2 DEF LockChain
<1>6. CASE Insert(c)
  <2>1. CASE Distinct(batch[c]) /\ Unused(tx[c])
    <3>1. /\ pc[c] = "insert" /\ pc' = [pc EXCEPT ![c] = "commit"]
          /\ UNCHANGED <<schemaVars, dbVars, rowLock, mutex, call, attempt, tx, answer>>
      BY <1>6, <2>1 DEF Insert
    <3>2. /\ pc' \in [Clients -> Pcs] /\ pc'[c] = "commit"
          /\ \A d \in Clients : d # c => pc'[d] = pc[d]
      BY <3>1 DEF TypeInv, Pcs
    <3>3. rowLock["tx_allocator"] = c /\ tx[c] = nextTx
      BY <3>1 DEF TxInv, Allocated
    <3> QED BY <3>1, <3>2, <3>3 DEF Moves, TypeInv, InTransaction, Pcs
  <2>2. CASE ~ (Distinct(batch[c]) /\ Unused(tx[c]))
    BY <1>6, <2>2 DEF Insert, Fails
  <2> QED BY <2>1, <2>2
<1>7. CASE Commit(c)
  BY <1>7 DEF Commit, Lands
<1>8. CASE CommitConflict(c)
  BY <1>8, SerializationFailureIs DEF CommitConflict
<1>9. CASE TimedOut(c)
  BY <1>9 DEF TimedOut, Fails
<1>10. CASE ConnectionLost(c)
  BY <1>10 DEF ConnectionLost, Fails, Lands, InTransaction
<1> QED BY <1>1, <1>2, <1>3, <1>4, <1>5, <1>6, <1>7, <1>8, <1>9, <1>10 DEF Step

LEMMA GoneIs ==
    ASSUME TypeInv, NEW C \in SUBSET Clients, Gone(C)
    PROVE  /\ pc' \in [Clients -> Pcs] /\ call' \in [Clients -> Nat]
           /\ tx' \in [Clients -> Nat] /\ attempt' \in [Clients -> 0 .. MaxRetries]
           /\ rowLock' \in [Rows -> Clients \cup {Free}]
           /\ mutex' \in [Procs -> Clients \cup {Free}]
           /\ \A c \in C : pc'[c] = "idle"
           /\ \A c \in Clients : c \notin C =>
                 /\ pc'[c] = pc[c] /\ call'[c] = call[c] /\ tx'[c] = tx[c]
                 /\ attempt'[c] = attempt[c]
                 /\ rowLock["tx_allocator"] = c => rowLock'["tx_allocator"] = c
<1>1. 0 \in 0 .. MaxRetries /\ "idle" \in Pcs
  BY PgConstantsOK DEF Pcs
<1>2. rowLock' = [r \in Rows |-> IF rowLock[r] \in C THEN Free ELSE rowLock[r]]
  BY DEF Gone, Unlocked
<1> QED BY <1>1, <1>2 DEF Gone, TypeInv, Rows

LEMMA GoneOne ==
    ASSUME TypeInv, NEW c \in Clients, Gone({c})
    PROVE  /\ pc' \in [Clients -> Pcs] /\ call' \in [Clients -> Nat]
           /\ tx' \in [Clients -> Nat] /\ attempt' \in [Clients -> 0 .. MaxRetries]
           /\ rowLock' \in [Rows -> Clients \cup {Free}]
           /\ mutex' \in [Procs -> Clients \cup {Free}]
           /\ pc'[c] = "idle"
           /\ \A d \in Clients : d # c =>
                 /\ pc'[d] = pc[d] /\ call'[d] = call[d] /\ tx'[d] = tx[d]
                 /\ attempt'[d] = attempt[d]
                 /\ rowLock["tx_allocator"] = d => rowLock'["tx_allocator"] = d
<1>1. /\ {c} \in SUBSET Clients /\ c \in {c}
      /\ \A d \in Clients : d # c => d \notin {c}
  OBVIOUS
<1> QED BY <1>1, GoneIs, Zenon

(* A batch lands at the end of the log.                                    *)
LEMMA LandsIs ==
    ASSUME TypeInv, CallInv, TxInv, NEW c \in Clients, Lands(c)
    PROVE  LET n == Len(log) + 1 IN
           /\ Gone({c}) /\ UNCHANGED schemaVars
           /\ IsSequence(log') /\ Len(log') = n /\ nextTx' = n + 1 /\ Len(log) \in Nat
           /\ log'[n].call = call[c] /\ log'[n].tx = n
           /\ \A i \in 1 .. Len(log) : log'[i] = log[i]
           /\ head'.seq \in Nat
           /\ IsSequence(answer') /\ Len(answer') = Len(answer)
           /\ call[c] \in 1 .. Len(answer) /\ answer[call[c]] = Open
           /\ \/ answer'[call[c]] = Told(n)
              \/ answer'[call[c]] = Lost
           /\ \A i \in 1 .. Len(answer) : i # call[c] => answer'[i] = answer[i]
<1> DEFINE n == Len(log) + 1
           new == [call |-> call[c], tx |-> tx[c], rows |-> batch[c]]
<1>1. PICK how \in {Told(tx[c]), Lost} : Landed(c, how)
  BY DEF Lands
<1>2. /\ log' = Append(log, new) /\ Gone({c}) /\ UNCHANGED schemaVars
      /\ nextTx' = nextTx + 1 /\ answer' = [answer EXCEPT ![call[c]] = how]
  BY <1>1 DEF Landed
<1>3. pc[c] = "commit" /\ tx[c] = nextTx /\ nextTx = n /\ Len(log) \in Nat
  BY SequenceIs DEF Lands, TxInv, Allocated, TypeInv
<1>4. call[c] \in 1 .. Len(answer) /\ answer[call[c]] = Open
  BY <1>3 DEF CallInv
<1>5. DOMAIN answer = 1 .. Len(answer)
  BY SequenceIs DEF TypeInv
<1>6. /\ IsSequence(answer') /\ Len(answer') = Len(answer)
      /\ answer'[call[c]] = how
      /\ \A i \in 1 .. Len(answer) : i # call[c] => answer'[i] = answer[i]
  <2>1. answer' = [i \in DOMAIN answer |-> answer'[i]]
    BY <1>2
  <2>2. IsSequence(answer') /\ Len(answer') = Len(answer)
    BY <2>1, SameLength DEF TypeInv
  <2> QED BY <2>2, <1>2, <1>4, <1>5
<1>7. head'.seq \in Nat
  BY <1>1, <1>3 DEF Landed, Head2, TypeInv
<1>8. new.call = call[c] /\ new.tx = n
  BY <1>3
<1> HIDE DEF new
<1>9. /\ IsSequence(log') /\ Len(log') = n /\ log'[n] = new
      /\ \A i \in 1 .. Len(log) : log'[i] = log[i]
  BY <1>2, AppendIs DEF TypeInv
<1>10. how = Told(n) \/ how = Lost
  BY <1>3
<1>11. nextTx' = n + 1
  BY <1>2, <1>3
<1> QED BY <1>2, <1>3, <1>4, <1>6, <1>7, <1>8, <1>9, <1>10, <1>11

LEMMA FailsIs ==
    ASSUME TypeInv, CallInv, NEW c \in Clients, Fails(c)
    PROVE  /\ Gone({c}) /\ UNCHANGED <<schemaVars, dbVars>>
           /\ IsSequence(answer') /\ Len(answer') = Len(answer)
           /\ call[c] \in 1 .. Len(answer) /\ answer[call[c]] = Open
           /\ answer'[call[c]] \in {Refused, Lost}
           /\ \A i \in 1 .. Len(answer) : i # call[c] => answer'[i] = answer[i]
<1>1. PICK how \in {Refused, Lost} : Raise(c, how)
  BY DEF Fails
<1>2. /\ Gone({c}) /\ UNCHANGED <<schemaVars, dbVars>>
      /\ answer' = [answer EXCEPT ![call[c]] = how]
  BY <1>1 DEF Raise
<1>3. call[c] \in 1 .. Len(answer) /\ answer[call[c]] = Open
  BY DEF Fails, CallInv
<1>4. DOMAIN answer = 1 .. Len(answer)
  BY SequenceIs DEF TypeInv
<1>5. answer' = [i \in DOMAIN answer |-> answer'[i]]
  BY <1>2
<1>6. IsSequence(answer') /\ Len(answer') = Len(answer)
  BY <1>5, SameLength DEF TypeInv
<1> QED BY <1>2, <1>3, <1>4, <1>6

Dying(p) == {c \in Clients : ProcOf[c] = p}

LEMMA CrashIs ==
    ASSUME TypeInv, NEW p \in Procs, Crash(p)
    PROVE  /\ Gone(Dying(p)) /\ UNCHANGED dbVars
           /\ IsSequence(answer') /\ Len(answer') = Len(answer)
           /\ \A i \in 1 .. Len(answer) :
                 answer'[i] = IF \E c \in Dying(p) : pc[c] # "idle" /\ call[c] = i
                              THEN Lost ELSE answer[i]
<1>1. /\ Gone(Dying(p)) /\ UNCHANGED dbVars
      /\ answer' = [k \in DOMAIN answer |->
                       IF \E c \in Dying(p) : pc[c] # "idle" /\ call[c] = k
                       THEN Lost ELSE answer[k]]
  BY DEF Crash, Dying
<1>2. answer' = [i \in DOMAIN answer |-> answer'[i]]
  BY <1>1
<1>3. IsSequence(answer') /\ Len(answer') = Len(answer)
  BY <1>2, SameLength DEF TypeInv
<1> QED BY <1>1, <1>3, SequenceIs DEF TypeInv

LEMMA StartIs ==
    ASSUME TypeInv, NEW c \in Clients, Write(c)
    PROVE  LET k == Len(answer) + 1 IN
           /\ pc[c] = "idle" /\ pc' \in [Clients -> Pcs] /\ pc'[c] \in {"pool", "lock"}
           /\ call' \in [Clients -> Nat] /\ call'[c] = k /\ k <= MaxCalls /\ Len(answer) \in Nat
           /\ attempt' \in [Clients -> 0 .. MaxRetries]
           /\ \A d \in Clients : d # c =>
                 pc'[d] = pc[d] /\ call'[d] = call[d] /\ attempt'[d] = attempt[d]
           /\ IsSequence(answer') /\ Len(answer') = k /\ answer'[k] = Open
           /\ \A i \in 1 .. Len(answer) : answer'[i] = answer[i]
           /\ UNCHANGED <<schemaVars, dbVars, rowLock, mutex, tx>>
<1> DEFINE k == Len(answer) + 1
<1>1. PICK rows \in Batches : Start(c, rows)
  BY DEF Write
<1>2. /\ pc[c] = "idle" /\ Len(answer) < MaxCalls
      /\ call' = [call EXCEPT ![c] = k] /\ answer' = Append(answer, Open)
      /\ attempt' = [attempt EXCEPT ![c] = 0]
      /\ pc' = [pc EXCEPT ![c] = IF rows[1].kind = "audit" THEN "pool" ELSE "lock"]
      /\ UNCHANGED <<schemaVars, dbVars, rowLock, mutex, tx>>
  BY <1>1 DEF Start
<1>3. /\ Len(answer) \in Nat /\ k \in Nat /\ k <= MaxCalls /\ 0 \in 0 .. MaxRetries
      /\ "pool" \in Pcs /\ "lock" \in Pcs
  BY <1>2, SequenceIs, PgConstantsOK DEF TypeInv, Pcs
<1>4. /\ IsSequence(answer') /\ Len(answer') = k /\ answer'[k] = Open
      /\ \A i \in 1 .. Len(answer) : answer'[i] = answer[i]
  BY <1>2, AppendIs DEF TypeInv
<1> HIDE DEF k
<1>5. /\ pc' \in [Clients -> Pcs] /\ pc'[c] \in {"pool", "lock"}
      /\ call' \in [Clients -> Nat] /\ call'[c] = k
      /\ attempt' \in [Clients -> 0 .. MaxRetries]
      /\ \A d \in Clients : d # c =>
            pc'[d] = pc[d] /\ call'[d] = call[d] /\ attempt'[d] = attempt[d]
  BY <1>2, <1>3 DEF TypeInv
<1> QED BY <1>2, <1>3, <1>4, <1>5 DEF k
-----------------------------------------------------------------------------
(* Which migration comes first.                                            *)
LEMMA MinPending ==
    ASSUME NEW p \in Procs, NEW k \in Nat, applied[p] = 1 .. k, Pending(p) # {}
    PROVE  Min(Pending(p)) = k + 1 /\ Min(Pending(p)) \in Nat
<1>1. Known[p] \in Nat
  BY PgConstantsOK
<1>2. \A m : m \in Pending(p) <=> m \in Nat /\ k + 1 <= m /\ m <= Known[p]
  BY <1>1 DEF Pending
<1>3. k + 1 \in Pending(p) /\ \A m \in Pending(p) : k + 1 <= m
  BY <1>1, <1>2
<1>4. \A x \in Pending(p) : (\A m \in Pending(p) : x <= m) => x = k + 1
  BY <1>2, <1>3
<1> QED BY <1>3, <1>4 DEF Min

LEMMA HistoryIs ==
    ASSUME TypeInv, SchemaInv
    PROVE  Len(history) \in Nat /\ ToSet(history) = 1 .. Len(history)
<1>1. Len(history) \in Nat /\ DOMAIN history = 1 .. Len(history)
  BY DEF TypeInv
<1>2. \A i \in 1 .. Len(history) : history[i] = i
  BY DEF SchemaInv
<1>3. ToSet(history) = {history[i] : i \in 1 .. Len(history)}
  BY <1>1 DEF ToSet
<1> HIDE DEF ToSet
<1> QED BY <1>1, <1>2, <1>3

(* Each step of opening a store, and a crash, keeps the history in order.  *)
LEMMA OpeningKeepsSchema ==
    ASSUME TypeInv, SchemaInv, NEW p \in Procs, Opening(p)
    PROVE  /\ SchemaInv' /\ UNCHANGED dataVars
           /\ history' \in Seq(Nat) /\ proc' \in [Procs -> ProcStates]
           /\ applied' \in [Procs -> SUBSET Nat] /\ current' \in [Procs -> Nat]
<1>1. /\ Len(history) \in Nat /\ ToSet(history) = 1 .. Len(history)
      /\ DOMAIN history = 1 .. Len(history) /\ Known[p] \in Nat
  BY HistoryIs, PgConstantsOK DEF TypeInv
<1>2. PICK k \in 0 .. Len(history) :
        applied[p] = 1 .. k /\ (current[p] # 0 => current[p] = k + 1 /\ k = Len(history))
  BY DEF SchemaInv
<1>3. ASSUME UNCHANGED <<history, applied, current, dataVars>>,
             NEW s \in ProcStates, proc' = [proc EXCEPT ![p] = s], current[p] = 0,
             s = "open" => Known[p] <= Len(history)
      PROVE  /\ SchemaInv' /\ UNCHANGED dataVars
             /\ history' \in Seq(Nat) /\ proc' \in [Procs -> ProcStates]
             /\ applied' \in [Procs -> SUBSET Nat] /\ current' \in [Procs -> Nat]
  <2>1. /\ proc' \in [Procs -> ProcStates] /\ proc'[p] = s
        /\ \A q \in Procs : q # p => proc'[q] = proc[q]
    BY <1>3 DEF TypeInv
  <2>2. SchemaInv'
    BY <1>3, <2>1 DEF SchemaInv
  <2> QED BY <1>3, <2>1, <2>2 DEF TypeInv
<1>4. proc[p] # "migrating" => current[p] = 0
  BY DEF SchemaInv
<1>5. CASE OpenStore(p)
  BY <1>3, <1>4, <1>5 DEF OpenStore, ProcStates
<1>6. CASE EnsureHistoryTable(p)
  BY <1>3, <1>4, <1>6 DEF EnsureHistoryTable, ProcStates
<1>7. CASE AppliedNames(p)
  <2>1. /\ applied' = [applied EXCEPT ![p] = 1 .. Len(history)]
        /\ proc' = [proc EXCEPT ![p] = "migrating"] /\ current[p] = 0
        /\ UNCHANGED <<history, current, dataVars>>
    BY <1>1, <1>4, <1>7 DEF AppliedNames
  <2>2. /\ applied' \in [Procs -> SUBSET Nat] /\ applied'[p] = 1 .. Len(history)
        /\ proc' \in [Procs -> ProcStates] /\ proc'[p] = "migrating"
        /\ \A q \in Procs : q # p => proc'[q] = proc[q] /\ applied'[q] = applied[q]
    BY <2>1 DEF TypeInv, ProcStates
  <2>3. ASSUME NEW q \in Procs
        PROVE  \E n \in 0 .. Len(history) :
                 applied'[q] = 1 .. n /\ (current[q] # 0 => current[q] = n + 1 /\ n = Len(history))
    <3>1. Len(history) \in 0 .. Len(history)
      BY <1>1
    <3> QED BY <2>1, <2>2, <3>1 DEF SchemaInv
  <2>4. SchemaInv'
    BY <2>1, <2>2, <2>3 DEF SchemaInv
  <2> QED BY <2>1, <2>2, <2>4 DEF TypeInv
<1>8. CASE ApplyOne(p)
  <2> DEFINE m == Min(Pending(p))
  <2>1. /\ proc[p] = "migrating" /\ current[p] = 0 /\ m = k + 1 /\ m \in Nat
        /\ \A q \in Procs : current[q] # m
        /\ UNCHANGED <<history, applied, dataVars>>
    BY <1>2, <1>8, MinPending DEF ApplyOne
  <2>2. CASE m \in ToSet(history)
    BY <1>3, <1>8, <2>1, <2>2 DEF ApplyOne, ProcStates
  <2>3. CASE m \notin ToSet(history)
    <3>1. current' = [current EXCEPT ![p] = m] /\ UNCHANGED proc
      BY <1>8, <2>3 DEF ApplyOne
    <3> HIDE DEF m
    <3>2. k = Len(history)
      <4>1. m = k + 1 /\ m \notin 1 .. Len(history)
        BY <1>1, <2>1, <2>3
      <4>2. k \in Nat /\ k <= Len(history) /\ Len(history) \in Nat
        BY <1>1
      <4>3. k + 1 \notin 1 .. Len(history)
        BY <4>1
      <4> QED BY <4>2, <4>3
    <3>3. /\ current' \in [Procs -> Nat] /\ current'[p] = m
          /\ \A q \in Procs : q # p => current'[q] = current[q]
      BY <2>1, <3>1 DEF TypeInv
    <3>4. ASSUME NEW q \in Procs
          PROVE  \E n \in 0 .. Len(history) :
                   /\ applied[q] = 1 .. n
                   /\ current'[q] # 0 => current'[q] = n + 1 /\ n = Len(history)
      BY <1>2, <2>1, <3>2, <3>3 DEF SchemaInv
    <3>5. SchemaInv'
      BY <2>1, <3>1, <3>3, <3>4 DEF SchemaInv
    <3> QED BY <2>1, <3>1, <3>3, <3>5 DEF TypeInv
  <2> QED BY <2>2, <2>3
<1>9. CASE CommitMigration(p)
  <2> DEFINE n == Len(history) + 1
  <2>1. /\ current[p] = n /\ k = Len(history) /\ proc[p] = "migrating"
        /\ history' = Append(history, n) /\ applied' = [applied EXCEPT ![p] = @ \cup {n}]
        /\ current' = [current EXCEPT ![p] = 0] /\ UNCHANGED <<proc, dataVars>>
    BY <1>2, <1>9 DEF CommitMigration, SchemaInv
  <2>2. /\ history' \in Seq(Nat) /\ Len(history') = n /\ history'[n] = n
        /\ \A i \in 1 .. Len(history) : history'[i] = history[i]
    BY <1>1, <2>1 DEF TypeInv
  <2>3. /\ current' \in [Procs -> Nat] /\ current'[p] = 0
        /\ \A q \in Procs : q # p => current'[q] = 0
    BY <2>1 DEF TypeInv, SchemaInv
  <2>4. /\ applied' \in [Procs -> SUBSET Nat] /\ applied'[p] = 1 .. n
        /\ \A q \in Procs : q # p => applied'[q] = applied[q]
    <3>1. 1 .. n = 1 .. k \cup {n} /\ n \in Nat
      BY <1>1, <2>1
    <3> QED BY <1>2, <2>1, <3>1 DEF TypeInv
  <2>5. \A i \in 1 .. n : history'[i] = i
    <3>1. \A i \in 1 .. n : i = n \/ i \in 1 .. Len(history)
      BY <1>1
    <3> QED BY <2>2, <3>1 DEF SchemaInv
  <2>6. ASSUME NEW q \in Procs
        PROVE  /\ \E j \in 0 .. n : applied'[q] = 1 .. j
               /\ proc[q] = "open" => Known[q] <= n
    <3>1. Known[q] \in Nat /\ n \in 0 .. n /\ \A j \in 0 .. Len(history) : j \in 0 .. n
      BY <1>1, PgConstantsOK
    <3>2. \E j \in 0 .. n : applied'[q] = 1 .. j
      BY <2>4, <3>1 DEF SchemaInv
    <3>3. proc[q] = "open" => Known[q] <= n
      <4>1. proc[q] = "open" => Known[q] <= Len(history)
        BY DEF SchemaInv
      <4> QED BY <1>1, <3>1, <4>1
    <3> QED BY <3>2, <3>3
  <2> HIDE DEF n
  <2>7. SchemaInv'
    BY <2>1, <2>2, <2>3, <2>5, <2>6 DEF SchemaInv
  <2> QED BY <2>1, <2>2, <2>3, <2>4, <2>7 DEF TypeInv
<1>10. CASE Migrated(p)
  <2>1. Pending(p) = {} /\ current[p] = 0
    BY <1>10 DEF Migrated
  <2>2. Known[p] <= Len(history)
    <3>1. Known[p] # 0 /\ Known[p] \in 1 .. Known[p]
      BY <1>1, PgConstantsOK
    <3>2. Known[p] \in 1 .. k
      BY <1>2, <2>1, <3>1 DEF Pending
    <3> QED BY <1>1, <3>2
  <2> QED BY <1>3, <1>10, <2>1, <2>2 DEF Migrated, ProcStates
<1> QED BY <1>5, <1>6, <1>7, <1>8, <1>9, <1>10 DEF Opening

LEMMA CrashKeepsSchema ==
    ASSUME TypeInv, SchemaInv, NEW p \in Procs, Crash(p)
    PROVE  /\ SchemaInv'
           /\ history' \in Seq(Nat) /\ proc' \in [Procs -> ProcStates]
           /\ applied' \in [Procs -> SUBSET Nat] /\ current' \in [Procs -> Nat]
<1>1. /\ proc' = [proc EXCEPT ![p] = "closed"] /\ current' = [current EXCEPT ![p] = 0]
      /\ applied' = [applied EXCEPT ![p] = {}] /\ history' = history
  BY DEF Crash
<1>2. /\ proc' \in [Procs -> ProcStates] /\ current' \in [Procs -> Nat]
      /\ applied' \in [Procs -> SUBSET Nat]
      /\ proc'[p] = "closed" /\ current'[p] = 0 /\ applied'[p] = {}
      /\ \A q \in Procs : q # p => /\ proc'[q] = proc[q] /\ current'[q] = current[q]
                                  /\ applied'[q] = applied[q]
  BY <1>1 DEF TypeInv, ProcStates
<1>3. {} = 1 .. 0 /\ 0 \in 0 .. Len(history)
  BY HistoryIs
<1>4. \A q \in Procs : \E n \in 0 .. Len(history) :
         applied'[q] = 1 .. n /\ (current'[q] # 0 => current'[q] = n + 1 /\ n = Len(history))
  <2> TAKE q \in Procs
  <2>1. CASE q = p
    BY <1>2, <1>3, <2>1
  <2>2. CASE q # p
    BY <1>2, <2>2 DEF SchemaInv
  <2> QED BY <2>1, <2>2
<1>5. SchemaInv'
  BY <1>1, <1>2, <1>4 DEF SchemaInv
<1> QED BY <1>1, <1>2, <1>5 DEF TypeInv
-----------------------------------------------------------------------------
LEMMA PoolShrinks ==
    ASSUME PoolInv,
           \A d \in Clients : pc'[d] \in InTransaction => pc[d] \in InTransaction
    PROVE  PoolInv'
<1> SUFFICES ASSUME NEW p \in Procs
             PROVE  IsFiniteSet(Connections(p)') /\ Cardinality(Connections(p)') <= PoolMax
  BY DEF PoolInv
<1>1. Connections(p)' \subseteq Connections(p)
  BY DEF Connections
<1>2. /\ IsFiniteSet(Connections(p)) /\ Cardinality(Connections(p)) <= PoolMax
  BY DEF PoolInv
<1>3. /\ IsFiniteSet(Connections(p)') /\ Cardinality(Connections(p)') \in Nat
      /\ Cardinality(Connections(p)') <= Cardinality(Connections(p))
      /\ Cardinality(Connections(p)) \in Nat
  BY <1>1, <1>2, FS_Subset, FS_CardinalityType
<1> QED BY <1>2, <1>3, PgConstantsOK

(* A connection is taken only when one is left.                            *)
LEMMA MovesKeepPool ==
    ASSUME TypeInv, PoolInv, NEW c \in Clients, Moves(c)
    PROVE  PoolInv'
<1>1. CASE pc[c] \in InTransaction \/ pc'[c] \notin InTransaction
  BY <1>1, PoolShrinks DEF Moves
<1>2. CASE Cardinality(Connections(ProcOf[c])) < PoolMax
  <2> SUFFICES ASSUME NEW p \in Procs
               PROVE  IsFiniteSet(Connections(p)') /\ Cardinality(Connections(p)') <= PoolMax
    BY DEF PoolInv
  <2>1. IsFiniteSet(Connections(p)) /\ Cardinality(Connections(p)) <= PoolMax
    BY DEF PoolInv
  <2> DEFINE U == IF p = ProcOf[c] THEN Connections(p) \cup {c} ELSE Connections(p)
  <2>2. Connections(p)' \subseteq U
    BY DEF Moves, Connections
  <2>3. IsFiniteSet(U) /\ Cardinality(U) <= PoolMax /\ Cardinality(U) \in Nat
    <3>1. CASE p = ProcOf[c]
      <4>1. /\ IsFiniteSet(Connections(p) \cup {c})
            /\ Cardinality(Connections(p) \cup {c}) <= Cardinality(Connections(p)) + 1
            /\ Cardinality(Connections(p)) \in Nat
            /\ Cardinality(Connections(p) \cup {c}) \in Nat
        <5>1. /\ IsFiniteSet(Connections(p) \cup {c})
              /\ Cardinality(Connections(p) \cup {c}) =
                    IF c \in Connections(p) THEN Cardinality(Connections(p))
                    ELSE Cardinality(Connections(p)) + 1
          BY <2>1, FS_AddElement
        <5>2. Cardinality(Connections(p)) \in Nat
          BY <2>1, FS_CardinalityType
        <5> QED BY <5>1, <5>2
      <4> QED BY <1>2, <3>1, <4>1, PgConstantsOK
    <3>2. CASE p # ProcOf[c]
      BY <2>1, <3>2, FS_CardinalityType
    <3> QED BY <3>1, <3>2
  <2> HIDE DEF U
  <2>4. /\ IsFiniteSet(Connections(p)') /\ Cardinality(Connections(p)') \in Nat
        /\ Cardinality(Connections(p)') <= Cardinality(U)
    BY <2>2, <2>3, FS_Subset, FS_CardinalityType
  <2> QED BY <2>3, <2>4, PgConstantsOK
<1> QED BY <1>1, <1>2 DEF Moves

(* No call is in the log twice, so a call that is open leaves room in it.  *)
LEMMA LogHasRoom ==
    ASSUME TypeInv, CallInv, NEW c \in Clients, pc[c] # "idle"
    PROVE  Len(log) + 1 \in 1 .. MaxCalls
<1> DEFINE n == Len(log) + 1
           f == [i \in 1 .. n |-> IF i \in 1 .. Len(log) THEN log[i].call ELSE call[c]]
<1>1. Len(log) \in Nat /\ Len(answer) \in Nat /\ n \in Nat /\ MaxCalls \in Nat
  BY SequenceIs, PgConstantsOK DEF TypeInv
<1>2. \A i \in 1 .. n : i \in 1 .. Len(log) \/ i = n
  BY <1>1
<1>3. call[c] \in 1 .. Len(answer) /\ answer[call[c]] = Open
  BY DEF CallInv
<1>4. \A i \in 1 .. Len(log) :
        log[i].call \in 1 .. Len(answer) /\ log[i].call # call[c]
  BY <1>3 DEF CallInv
<1>5. f \in [1 .. n -> 1 .. Len(answer)]
  BY <1>3, <1>4
<1>6. \A i, j \in 1 .. n : f[i] = f[j] => i = j
  <2> TAKE i, j \in 1 .. n
  <2>1. CASE i \in 1 .. Len(log) /\ j \in 1 .. Len(log)
    BY <2>1 DEF CallInv
  <2>2. CASE i \notin 1 .. Len(log) \/ j \notin 1 .. Len(log)
    BY <1>2, <1>4, <2>2
  <2> QED BY <2>1, <2>2
<1>7. f \in Injection(1 .. n, 1 .. Len(answer))
  BY <1>5, <1>6 DEF Injection, IsInjective
<1>8. Cardinality(1 .. n) <= Cardinality(1 .. Len(answer))
  <2>1. IsFiniteSet(1 .. Len(answer))
    BY <1>1, FS_Interval
  <2> HIDE DEF f, n
  <2> QED BY <1>7, <2>1, FS_Injection
<1>9. Cardinality(1 .. n) = n /\ Cardinality(1 .. Len(answer)) = Len(answer)
  <2>1. \A k \in Nat : Cardinality(1 .. k) = k
    <3> TAKE k \in Nat
    <3>1. Cardinality(1 .. k) = IF 1 > k THEN 0 ELSE k - 1 + 1
      BY FS_Interval
    <3> QED BY <3>1
  <2> HIDE DEF n
  <2> QED BY <1>1, <2>1
<1> QED BY <1>1, <1>8, <1>9 DEF TypeInv
-----------------------------------------------------------------------------
Inv == TypeInv /\ PoolInv /\ SchemaInv /\ CallInv /\ TxInv

LEMMA InitInv == Init => Inv
<1> SUFFICES ASSUME Init PROVE Inv
  OBVIOUS
<1>1. IsSequence(<<>>) /\ Len(<<>>) = 0
  BY DEF IsSequence
<1>2. /\ log = <<>> /\ answer = <<>> /\ history = <<>> /\ nextTx = 1
      /\ head = [seq |-> 0, hash |-> Empty]
      /\ proc = [p \in Procs |-> "closed"] /\ applied = [p \in Procs |-> {}]
      /\ current = [p \in Procs |-> 0]
      /\ pc = [c \in Clients |-> "idle"]
  BY DEF Init
<1>3. 0 \in 0 .. MaxRetries /\ 0 <= MaxCalls /\ 0 <= PoolMax
  BY PgConstantsOK
<1>4. TypeInv
  <2>1. /\ rowLock \in [Rows -> Clients \cup {Free}] /\ mutex \in [Procs -> Clients \cup {Free}]
        /\ pc \in [Clients -> Pcs] /\ attempt \in [Clients -> 0 .. MaxRetries]
        /\ call \in [Clients -> Nat] /\ tx \in [Clients -> Nat]
        /\ proc \in [Procs -> ProcStates] /\ applied \in [Procs -> SUBSET Nat]
        /\ current \in [Procs -> Nat]
    BY <1>3 DEF Init, Pcs, ProcStates
  <2>2. history \in Seq(Nat) /\ head.seq = 0
    BY <1>2
  <2> QED BY <1>1, <1>2, <1>3, <2>1, <2>2 DEF TypeInv
<1>5. PoolInv
  <2>1. \A p \in Procs : Connections(p) = {}
    BY <1>2 DEF Connections, InTransaction
  <2> QED BY <1>3, <2>1, FS_EmptySet DEF PoolInv
<1>6. SchemaInv
  <2>1. Len(history) = 0 /\ 0 \in 0 .. Len(history) /\ {} = 1 .. 0
    BY <1>2
  <2> QED BY <1>2, <2>1 DEF SchemaInv
<1>7. CallInv
  BY <1>1, <1>2 DEF CallInv
<1>8. TxInv
  BY <1>1, <1>2 DEF TxInv, Allocated
<1> QED BY <1>4, <1>5, <1>6, <1>7, <1>8 DEF Inv

(* The kinds of step.                                                      *)
LEMMA NextIs ==
    ASSUME Inv, [Next]_vars
    PROVE  \/ \E p \in Procs : Opening(p) \/ Crash(p)
           \/ \E c \in Clients : Write(c) \/ Moves(c) \/ Fails(c) \/ Lands(c)
           \/ UNCHANGED vars
<1>1. ASSUME NEW c \in Clients, Step(c) \/ TimedOut(c) \/ ConnectionLost(c)
      PROVE  Moves(c) \/ Fails(c) \/ Lands(c)
  BY <1>1, StepIs DEF Inv
<1> QED BY <1>1 DEF Next, Finished

LEMMA StartKeeps == ASSUME Inv, NEW c \in Clients, Write(c) PROVE Inv'
<1> DEFINE k == Len(answer) + 1
<1>1. /\ pc[c] = "idle" /\ pc' \in [Clients -> Pcs] /\ pc'[c] \in {"pool", "lock"}
      /\ call' \in [Clients -> Nat] /\ call'[c] = k /\ k <= MaxCalls /\ Len(answer) \in Nat
      /\ attempt' \in [Clients -> 0 .. MaxRetries]
      /\ \A d \in Clients : d # c =>
            pc'[d] = pc[d] /\ call'[d] = call[d] /\ attempt'[d] = attempt[d]
      /\ IsSequence(answer') /\ Len(answer') = k /\ answer'[k] = Open
      /\ \A i \in 1 .. Len(answer) : answer'[i] = answer[i]
      /\ UNCHANGED <<schemaVars, dbVars, rowLock, mutex, tx>>
  BY StartIs DEF Inv
<1>2. TypeInv'
  BY <1>1 DEF Inv, TypeInv, schemaVars, dbVars
<1>3. PoolInv'
  <2>1. \A d \in Clients : pc'[d] \in InTransaction => pc[d] \in InTransaction
    BY <1>1 DEF InTransaction
  <2> QED BY <2>1, PoolShrinks DEF Inv
<1>4. SchemaInv'
  BY <1>1 DEF Inv, SchemaInv, schemaVars
<1>5. CallInv'
  <2>1. k \in 1 .. k /\ k \notin 1 .. Len(answer) /\ \A i \in 1 .. k : i = k \/ i \in 1 .. Len(answer)
    BY <1>1
  <2>2. \A i \in 1 .. Len(answer) : i \in 1 .. k
    BY <1>1
  <2> HIDE DEF k
  <2>3. \A d \in Clients : pc'[d] # "idle" =>
           call'[d] \in 1 .. k /\ answer'[call'[d]] = Open
    <3>1. \A d \in Clients : d # c /\ pc'[d] # "idle" =>
             call'[d] = call[d] /\ call[d] \in 1 .. Len(answer) /\ answer[call[d]] = Open
      BY <1>1 DEF Inv, CallInv
    <3>2. call'[c] = k
      BY <1>1
    <3> QED BY <1>1, <2>1, <2>2, <3>1, <3>2
  <2>4. \A d, e \in Clients : d # e /\ pc'[d] # "idle" /\ pc'[e] # "idle" =>
           call'[d] # call'[e]
    BY <1>1, <2>1 DEF Inv, CallInv
  <2>5. \A n \in 1 .. Len(log) :
          /\ log[n].call \in 1 .. k /\ answer'[log[n].call] # Open
          /\ \A m \in 1 .. Len(log) : log[m].call = log[n].call => m = n
    BY <1>1, <2>2 DEF Inv, CallInv
  <2>6. \A i \in 1 .. k :
          answer'[i] \in {Open, Refused, Lost} \/ \E n \in 1 .. MaxCalls : answer'[i] = Told(n)
    BY <1>1, <2>1 DEF Inv, CallInv
  <2> QED BY <1>1, <2>3, <2>4, <2>5, <2>6 DEF CallInv, dbVars
<1>6. TxInv'
  BY <1>1 DEF Inv, TxInv, Allocated, dbVars
<1> QED BY <1>2, <1>3, <1>4, <1>5, <1>6 DEF Inv

LEMMA MovesKeeps == ASSUME Inv, NEW c \in Clients, Moves(c) PROVE Inv'
<1>1. TypeInv'
  BY DEF Inv, TypeInv, Moves, schemaVars, dbVars
<1>2. PoolInv'
  BY MovesKeepPool DEF Inv
<1>3. SchemaInv'
  BY DEF Inv, SchemaInv, Moves, schemaVars
<1>4. CallInv'
  <2>1. \A d \in Clients : pc'[d] # "idle" => pc[d] # "idle"
    BY DEF Moves
  <2> QED BY <2>1 DEF Inv, CallInv, Moves, dbVars
<1>5. TxInv'
  BY DEF Inv, TxInv, Moves, dbVars
<1> QED BY <1>1, <1>2, <1>3, <1>4, <1>5 DEF Inv

LEMMA FailsKeeps == ASSUME Inv, NEW c \in Clients, Fails(c) PROVE Inv'
<1>1. /\ Gone({c}) /\ UNCHANGED <<schemaVars, dbVars>>
      /\ IsSequence(answer') /\ Len(answer') = Len(answer)
      /\ call[c] \in 1 .. Len(answer) /\ answer'[call[c]] \in {Refused, Lost}
      /\ \A i \in 1 .. Len(answer) : i # call[c] => answer'[i] = answer[i]
  BY FailsIs DEF Inv
<1>2. pc[c] # "idle"
  BY DEF Fails
<1>3. TypeInv'
  <2>1. TypeInv /\ UNCHANGED <<history, proc, applied, current, nextTx, head, log>>
    BY <1>1 DEF Inv, schemaVars, dbVars
  <2> QED BY <1>1, <2>1, GoneOne DEF TypeInv
<1>4. /\ pc'[c] = "idle"
      /\ \A d \in Clients : d # c =>
            /\ pc'[d] = pc[d] /\ call'[d] = call[d] /\ tx'[d] = tx[d] /\ attempt'[d] = attempt[d]
            /\ rowLock["tx_allocator"] = d => rowLock'["tx_allocator"] = d
  BY <1>1, GoneOne DEF Inv
<1>5. PoolInv'
  <2>1. \A d \in Clients : pc'[d] \in InTransaction => pc[d] \in InTransaction
    BY <1>4 DEF InTransaction
  <2> QED BY <2>1, PoolShrinks DEF Inv
<1>6. SchemaInv'
  BY <1>1 DEF Inv, SchemaInv, schemaVars
<1>7. CallInv'
  <2>1. \A d \in Clients : pc'[d] # "idle" => d # c /\ call[d] # call[c]
    BY <1>2, <1>4 DEF Inv, CallInv
  <2>2. \A n \in 1 .. Len(log) : answer'[log[n].call] # Open
    BY <1>1, ToldApart DEF Inv, CallInv
  <2>3. \A i \in 1 .. Len(answer) :
          answer'[i] \in {Open, Refused, Lost} \/ \E n \in 1 .. MaxCalls : answer'[i] = Told(n)
    BY <1>1 DEF Inv, CallInv
  <2>4. \A d \in Clients : pc'[d] # "idle" => /\ call'[d] \in 1 .. Len(answer')
                                              /\ answer'[call'[d]] = Open
    <3>1. \A d \in Clients : pc'[d] # "idle" =>
             pc[d] # "idle" /\ call'[d] = call[d] /\ call[d] \in 1 .. Len(answer) /\ answer[call[d]] = Open
      BY <1>4, <2>1 DEF Inv, CallInv
    <3> QED BY <1>1, <2>1, <3>1
  <2>5. \A d, e \in Clients : d # e /\ pc'[d] # "idle" /\ pc'[e] # "idle" => call'[d] # call'[e]
    BY <1>4, <2>1 DEF Inv, CallInv
  <2>6. \A n \in 1 .. Len(log) : /\ log[n].call \in 1 .. Len(answer)
                                  /\ \A m \in 1 .. Len(log) : log[m].call = log[n].call => m = n
    BY DEF Inv, CallInv
  <2>7. log' = log /\ Len(answer') = Len(answer)
    BY <1>1 DEF dbVars
  <2> QED BY <2>2, <2>3, <2>4, <2>5, <2>6, <2>7 DEF CallInv
<1>8. TxInv'
  BY <1>1, <1>4 DEF Inv, TxInv, Allocated, dbVars
<1> QED BY <1>3, <1>5, <1>6, <1>7, <1>8 DEF Inv

LEMMA LandsKeeps == ASSUME Inv, NEW c \in Clients, Lands(c) PROVE Inv'
<1> DEFINE n == Len(log) + 1
<1>1. /\ Gone({c}) /\ UNCHANGED schemaVars
      /\ IsSequence(log') /\ Len(log') = n /\ nextTx' = n + 1 /\ Len(log) \in Nat
      /\ log'[n].call = call[c] /\ log'[n].tx = n
      /\ \A i \in 1 .. Len(log) : log'[i] = log[i]
      /\ head'.seq \in Nat
      /\ IsSequence(answer') /\ Len(answer') = Len(answer)
      /\ call[c] \in 1 .. Len(answer) /\ answer[call[c]] = Open
      /\ answer'[call[c]] = Told(n) \/ answer'[call[c]] = Lost
      /\ \A i \in 1 .. Len(answer) : i # call[c] => answer'[i] = answer[i]
  BY LandsIs DEF Inv
<1>2. pc[c] = "commit" /\ pc[c] \in Allocated
  BY DEF Lands, Allocated
<1>3. TypeInv'
  <2>1. TypeInv /\ UNCHANGED <<history, proc, applied, current>>
    BY <1>1 DEF Inv, schemaVars
  <2>2. nextTx' \in Nat \ {0}
    BY <1>1
  <2> QED BY <1>1, <2>1, <2>2, GoneOne DEF TypeInv
<1>4. /\ pc'[c] = "idle"
      /\ \A d \in Clients : d # c =>
            /\ pc'[d] = pc[d] /\ call'[d] = call[d] /\ tx'[d] = tx[d] /\ attempt'[d] = attempt[d]
            /\ rowLock["tx_allocator"] = d => rowLock'["tx_allocator"] = d
  BY <1>1, GoneOne DEF Inv
<1>5. PoolInv'
  <2>1. \A d \in Clients : pc'[d] \in InTransaction => pc[d] \in InTransaction
    BY <1>4 DEF InTransaction
  <2> QED BY <2>1, PoolShrinks DEF Inv
<1>6. SchemaInv'
  BY <1>1 DEF Inv, SchemaInv, schemaVars
<1>7. n \in 1 .. MaxCalls /\ \A i \in 1 .. n : i = n \/ i \in 1 .. Len(log)
  BY <1>1, <1>2, LogHasRoom DEF Inv
<1> HIDE DEF n
<1>8. CallInv'
  <2>1. \A d \in Clients : pc'[d] # "idle" => d # c /\ call[d] # call[c]
    BY <1>2, <1>4 DEF Inv, CallInv
  <2>2. answer'[call[c]] # Open
    BY <1>1, ToldApart
  <2>3. \A i \in 1 .. Len(log) : /\ log[i].call \in 1 .. Len(answer) /\ log[i].call # call[c]
                                /\ answer[log[i].call] # Open
    BY <1>1 DEF Inv, CallInv
  <2>4. \A i \in 1 .. n :
          /\ log'[i].call \in 1 .. Len(answer) /\ answer'[log'[i].call] # Open
          /\ \A j \in 1 .. n : log'[j].call = log'[i].call => j = i
    <3> TAKE i \in 1 .. n
    <3>1. log'[i].call \in 1 .. Len(answer) /\ answer'[log'[i].call] # Open
      BY <1>1, <1>7, <2>2, <2>3
    <3>2. \A j \in 1 .. n : log'[j].call = log'[i].call => j = i
      <4>1. \A a, b \in 1 .. Len(log) : log[a].call = log[b].call => a = b
        BY DEF Inv, CallInv
      <4>2. /\ \A a \in 1 .. Len(log) : log'[a] = log[a]
            /\ log'[n].call = call[c]
        BY <1>1
      <4>3. \A a \in 1 .. Len(log) : log'[a].call # log'[n].call
        BY <2>3, <4>2
      <4>4. \A a, b \in 1 .. Len(log) : log'[a].call = log'[b].call => a = b
        BY <4>1, <4>2
      <4> QED BY <1>7, <4>3, <4>4
    <3> QED BY <3>1, <3>2
  <2>5. \A i \in 1 .. Len(answer) :
          answer'[i] \in {Open, Refused, Lost} \/ \E m \in 1 .. MaxCalls : answer'[i] = Told(m)
    BY <1>1, <1>7 DEF Inv, CallInv
  <2>6. \A d \in Clients : pc'[d] # "idle" =>
           call'[d] \in 1 .. Len(answer) /\ answer'[call'[d]] = Open
    <3>1. \A d \in Clients : pc'[d] # "idle" =>
             pc[d] # "idle" /\ call'[d] = call[d] /\ call[d] \in 1 .. Len(answer) /\ answer[call[d]] = Open
      BY <1>4, <2>1 DEF Inv, CallInv
    <3> QED BY <1>1, <2>1, <3>1
  <2>7. \A d, e \in Clients : d # e /\ pc'[d] # "idle" /\ pc'[e] # "idle" =>
           call'[d] # call'[e]
    BY <1>4, <2>1 DEF Inv, CallInv
  <2> QED BY <1>1, <2>4, <2>5, <2>6, <2>7 DEF CallInv
<1>9. TxInv'
  <2>1. rowLock["tx_allocator"] = c
    BY <1>2 DEF Inv, TxInv
  <2>2. \A d \in Clients : pc'[d] \notin Allocated
    BY <1>4, <2>1 DEF Inv, TxInv, Allocated
  <2>3. \A i \in 1 .. n : log'[i].tx = i
    BY <1>1, <1>7 DEF Inv, TxInv
  <2>4. \A d \in Clients : pc'[d] = "backoff" => attempt'[d] < MaxRetries
    BY <1>4 DEF Inv, TxInv
  <2> QED BY <1>1, <2>2, <2>3, <2>4 DEF TxInv
<1> QED BY <1>3, <1>5, <1>6, <1>8, <1>9 DEF Inv

LEMMA CrashKeeps == ASSUME Inv, NEW p \in Procs, Crash(p) PROVE Inv'
<1> DEFINE over(i) == \E c \in Dying(p) : pc[c] # "idle" /\ call[c] = i
<1>1. /\ Gone(Dying(p)) /\ UNCHANGED dbVars
      /\ IsSequence(answer') /\ Len(answer') = Len(answer)
      /\ \A i \in 1 .. Len(answer) : answer'[i] = IF over(i) THEN Lost ELSE answer[i]
  BY CrashIs DEF Inv
<1>2. Dying(p) \in SUBSET Clients
  BY DEF Dying
<1>3. /\ pc' \in [Clients -> Pcs] /\ call' \in [Clients -> Nat]
      /\ tx' \in [Clients -> Nat] /\ attempt' \in [Clients -> 0 .. MaxRetries]
      /\ rowLock' \in [Rows -> Clients \cup {Free}]
      /\ mutex' \in [Procs -> Clients \cup {Free}]
      /\ \A c \in Dying(p) : pc'[c] = "idle"
      /\ \A c \in Clients : c \notin Dying(p) =>
            /\ pc'[c] = pc[c] /\ call'[c] = call[c] /\ tx'[c] = tx[c] /\ attempt'[c] = attempt[c]
            /\ rowLock["tx_allocator"] = c => rowLock'["tx_allocator"] = c
  <2>1. TypeInv /\ Gone(Dying(p))
    BY <1>1 DEF Inv
  <2> QED BY <1>2, <2>1, GoneIs, Zenon
<1>4. /\ SchemaInv' /\ history' \in Seq(Nat) /\ proc' \in [Procs -> ProcStates]
      /\ applied' \in [Procs -> SUBSET Nat] /\ current' \in [Procs -> Nat]
  BY CrashKeepsSchema DEF Inv
<1>5. TypeInv'
  BY <1>1, <1>3, <1>4 DEF Inv, TypeInv, dbVars
<1>6. PoolInv'
  <2>1. \A d \in Clients : pc'[d] \in InTransaction => pc[d] \in InTransaction
    BY <1>3 DEF InTransaction
  <2> QED BY <2>1, PoolShrinks DEF Inv
<1>7. CallInv'
  <2>1. \A d \in Clients : pc'[d] # "idle" =>
          /\ d \notin Dying(p) /\ pc[d] # "idle" /\ call'[d] = call[d] /\ ~ over(call[d])
    BY <1>2, <1>3 DEF Inv, CallInv
  <2> HIDE DEF over
  <2>2. \A d \in Clients : pc'[d] # "idle" =>
           call'[d] \in 1 .. Len(answer) /\ answer'[call'[d]] = Open
    BY <1>1, <2>1 DEF Inv, CallInv
  <2>3. \A n \in 1 .. Len(log) : answer'[log[n].call] # Open
    BY <1>1, ToldApart DEF Inv, CallInv
  <2>4. \A i \in 1 .. Len(answer) :
          answer'[i] \in {Open, Refused, Lost} \/ \E n \in 1 .. MaxCalls : answer'[i] = Told(n)
    BY <1>1 DEF Inv, CallInv
  <2>5. \A d, e \in Clients : d # e /\ pc'[d] # "idle" /\ pc'[e] # "idle" =>
           call'[d] # call'[e]
    BY <2>1 DEF Inv, CallInv
  <2> QED BY <1>1, <2>2, <2>3, <2>4, <2>5 DEF Inv, CallInv, dbVars
<1>8. TxInv'
  <2>1. \A d \in Clients : pc'[d] # "idle" =>
          /\ pc'[d] = pc[d] /\ tx'[d] = tx[d] /\ attempt'[d] = attempt[d]
          /\ rowLock["tx_allocator"] = d => rowLock'["tx_allocator"] = d
    BY <1>3
  <2>2. UNCHANGED <<log, nextTx>>
    BY <1>1 DEF dbVars
  <2> QED BY <2>1, <2>2 DEF Inv, TxInv, Allocated
<1> QED BY <1>4, <1>5, <1>6, <1>7, <1>8 DEF Inv

LEMMA StepInv == Inv /\ [Next]_vars => Inv'
<1> SUFFICES ASSUME Inv, [Next]_vars PROVE Inv'
  OBVIOUS
<1>1. ASSUME NEW p \in Procs, Opening(p) PROVE Inv'
  <2>1. /\ SchemaInv' /\ UNCHANGED dataVars
        /\ history' \in Seq(Nat) /\ proc' \in [Procs -> ProcStates]
        /\ applied' \in [Procs -> SUBSET Nat] /\ current' \in [Procs -> Nat]
    BY <1>1, OpeningKeepsSchema DEF Inv
  <2>2. UNCHANGED <<log, nextTx, head, rowLock, mutex, pc, call, attempt, tx, answer>>
    BY <2>1 DEF dataVars, dbVars, callVars
  <2>3. TypeInv'
    BY <2>1, <2>2 DEF Inv, TypeInv
  <2>4. PoolInv'
    BY <2>2 DEF Inv, PoolInv, Connections
  <2>5. CallInv' /\ TxInv'
    BY <2>2 DEF Inv, CallInv, TxInv
  <2> QED BY <2>1, <2>3, <2>4, <2>5 DEF Inv
<1>2. CASE UNCHANGED vars
  <2>1. /\ UNCHANGED <<log, nextTx, head, rowLock, mutex, pc, call, attempt, tx, answer>>
        /\ UNCHANGED <<history, proc, applied, current>>
    BY <1>2 DEF vars, schemaVars, dbVars, callVars
  <2>2. TypeInv'
    BY <2>1 DEF Inv, TypeInv
  <2>3. PoolInv'
    BY <2>1 DEF Inv, PoolInv, Connections
  <2>4. SchemaInv'
    BY <2>1 DEF Inv, SchemaInv
  <2>5. CallInv' /\ TxInv'
    BY <2>1 DEF Inv, CallInv, TxInv
  <2> QED BY <2>2, <2>3, <2>4, <2>5 DEF Inv
<1> QED BY <1>1, <1>2, NextIs, CrashKeeps, StartKeeps, MovesKeeps, FailsKeeps, LandsKeeps

(* The run's type invariant and the order of the migrations.               *)
LEMMA InvSchemaReady == Inv => SchemaReady
<1> SUFFICES ASSUME Inv PROVE SchemaReady
  OBVIOUS
<1>1. TypeOK
  BY SequenceIs DEF Inv, TypeInv, CallInv, PoolInv, Connections, TypeOK
<1>2. MigratedOnce
  <2>1. DOMAIN history = 1 .. Len(history)
    BY DEF Inv, TypeInv
  <2>2. ASSUME NEW p \in Procs, proc[p] = "open" PROVE 1 .. Known[p] \subseteq ToSet(history)
    <3>1. Known[p] <= Len(history) /\ Known[p] \in Nat /\ Len(history) \in Nat
      BY <2>2, HistoryIs, PgConstantsOK DEF Inv, SchemaInv
    <3> QED BY <3>1, HistoryIs DEF Inv
  <2> QED BY <2>1, <2>2 DEF Inv, SchemaInv, MigratedOnce
<1> QED BY <1>1, <1>2 DEF SchemaReady

(* However many processes open the store at once, in whatever order their  *)
(* migrations commit and whichever of them die: the history has each       *)
(* migration once and in order, an open store has all of its own, and no   *)
(* process uses more connections than its pool has.                        *)
THEOREM SchemaKept == Spec => []SchemaReady
BY InitInv, StepInv, InvSchemaReady, PTL DEF Spec
-----------------------------------------------------------------------------
(* The refinement: each step of the store is a step of OrderedLog on the   *)
(* calls of the log and the answers, or none.                              *)
calls == [n \in DOMAIN log |-> log[n].call]

LEMMA CallsIs ==
    ASSUME IsSequence(log)
    PROVE  /\ IsSequence(calls) /\ Len(calls) = Len(log) /\ DOMAIN calls = 1 .. Len(log)
           /\ Len(log) \in Nat /\ \A n \in 1 .. Len(log) : calls[n] = log[n].call
<1>1. calls = [n \in DOMAIN log |-> calls[n]]
  BY DEF calls
<1>2. IsSequence(calls) /\ Len(calls) = Len(log)
  BY <1>1, SameLength
<1> QED BY <1>2, SequenceIs DEF calls

(* Two sequences with the same elements.                                   *)
LEMMA SequenceEqual ==
    ASSUME NEW s, NEW t, IsSequence(s), IsSequence(t), Len(s) = Len(t),
           \A i \in 1 .. Len(s) : s[i] = t[i]
    PROVE  s = t
BY SequenceIs

LEMMA QuietIsStutter ==
    ASSUME UNCHANGED <<log, answer>>
    PROVE  UNCHANGED <<calls, answer>>
BY DEF calls

LEMMA StartIsCall ==
    ASSUME Inv, NEW c \in Clients, Write(c)
    PROVE  Ordered!Call
<1>1. answer' = Append(answer, Open) /\ log' = log
  BY DEF Write, Start, dbVars
<1> QED BY <1>1 DEF Ordered!Call, Ordered!Open, Open

LEMMA FailsIsFail ==
    ASSUME Inv, NEW c \in Clients, Fails(c)
    PROVE  \E K \in SUBSET DOMAIN answer : Ordered!Fail(K)
<1> DEFINE K == {call[c]}
<1>1. PICK how \in {Refused, Lost} : Raise(c, how)
  BY DEF Fails
<1>2. /\ answer' = [answer EXCEPT ![call[c]] = how] /\ log' = log
      /\ call[c] \in DOMAIN answer /\ answer[call[c]] = Open
  <2>1. call[c] \in 1 .. Len(answer) /\ answer[call[c]] = Open
    BY FailsIs DEF Inv
  <2>2. DOMAIN answer = 1 .. Len(answer)
    BY SequenceIs DEF Inv, TypeInv
  <2> QED BY <1>1, <2>1, <2>2 DEF Raise, dbVars
<1>3. how \in {Ordered!Refused, Ordered!Lost}
  BY DEF Ordered!Refused, Ordered!Lost, Refused, Lost
<1> DEFINE f == [k \in K |-> how]
<1>4. f \in [K -> {Ordered!Refused, Ordered!Lost}]
  BY <1>3
<1>5. answer = [k \in DOMAIN answer |-> answer[k]]
  BY SequenceIs DEF Inv, TypeInv
<1>6. answer' = [k \in DOMAIN answer |-> IF k \in K THEN f[k] ELSE answer[k]]
  BY <1>2
<1>7. \A k \in K : answer[k] = Ordered!Open
  BY <1>2 DEF Ordered!Open, Open
<1>8. K \in SUBSET DOMAIN answer
  BY <1>2
<1> HIDE DEF K, f
<1> QED BY <1>2, <1>4, <1>6, <1>7, <1>8 DEF Ordered!Fail

LEMMA CrashIsFail ==
    ASSUME Inv, NEW p \in Procs, Crash(p)
    PROVE  \E K \in SUBSET DOMAIN answer : Ordered!Fail(K)
<1> DEFINE K == {call[c] : c \in {d \in Dying(p) : pc[d] # "idle"}}
           f == [k \in K |-> Lost]
<1>1. /\ answer' = [k \in DOMAIN answer |->
                       IF \E c \in Dying(p) : pc[c] # "idle" /\ call[c] = k
                       THEN Lost ELSE answer[k]]
      /\ log' = log
  BY DEF Crash, Dying, dbVars
<1>2. DOMAIN answer = 1 .. Len(answer)
  BY SequenceIs DEF Inv, TypeInv
<1>3. \A k \in K : k \in DOMAIN answer /\ answer[k] = Open
  BY <1>2 DEF Inv, CallInv, Dying
<1>4. f \in [K -> {Ordered!Refused, Ordered!Lost}]
  BY DEF Ordered!Lost, Lost
<1>5. \A k : (\E c \in Dying(p) : pc[c] # "idle" /\ call[c] = k) <=> k \in K
  OBVIOUS
<1>6. answer' = [k \in DOMAIN answer |-> IF k \in K THEN f[k] ELSE answer[k]]
  <2>1. \A k \in K : f[k] = Lost
    OBVIOUS
  <2> HIDE DEF K, f
  <2> QED BY <1>1, <1>5, <2>1
<1>7. \A k \in K : answer[k] = Ordered!Open
  BY <1>3 DEF Ordered!Open, Open
<1>8. K \in SUBSET DOMAIN answer
  BY <1>3
<1> HIDE DEF K, f
<1> QED BY <1>1, <1>4, <1>6, <1>7, <1>8 DEF Ordered!Fail

LEMMA LandsIsCommit ==
    ASSUME Inv, NEW c \in Clients, Lands(c)
    PROVE  \E k \in DOMAIN answer : Ordered!Commit(k)
<1> DEFINE k == call[c]  n == Len(log) + 1
<1>1. PICK how \in {Told(tx[c]), Lost} : Landed(c, how)
  BY DEF Lands
<1>2. /\ answer' = [answer EXCEPT ![k] = how]
      /\ log' = Append(log, [call |-> k, tx |-> tx[c], rows |-> batch[c]])
  BY <1>1 DEF Landed
<1>3. /\ IsSequence(log') /\ Len(log') = n /\ log'[n].call = k
      /\ \A i \in 1 .. Len(log) : log'[i] = log[i]
      /\ k \in 1 .. Len(answer) /\ answer[k] = Open
  BY LandsIs DEF Inv
<1>4. /\ IsSequence(calls) /\ Len(calls) = Len(log) /\ DOMAIN calls = 1 .. Len(log)
      /\ Len(log) \in Nat /\ \A i \in 1 .. Len(log) : calls[i] = log[i].call
  BY CallsIs DEF Inv, TypeInv
<1>5. /\ IsSequence(calls') /\ Len(calls') = n /\ \A i \in 1 .. n : calls'[i] = log'[i].call
  <2>1. calls' = [i \in 1 .. n |-> log'[i].call]
    BY <1>3, SequenceIs DEF calls
  <2>2. log' = log' /\ DOMAIN log' = 1 .. n
    BY <1>3, SequenceIs
  <2>3. calls' = [i \in DOMAIN log' |-> calls'[i]]
    BY <2>1, <2>2
  <2> QED BY <1>3, <2>1, <2>3, SameLength
<1>6. calls' = Append(calls, k)
  <2>1. /\ IsSequence(Append(calls, k)) /\ Len(Append(calls, k)) = n
        /\ \A i \in 1 .. Len(log) : Append(calls, k)[i] = calls[i]
        /\ Append(calls, k)[n] = k
    BY <1>4, AppendIs
  <2>2. \A i \in 1 .. n : i = n \/ i \in 1 .. Len(log)
    BY <1>4
  <2> HIDE DEF k, n
  <2>3. \A i \in 1 .. n : calls'[i] = Append(calls, k)[i]
    BY <1>3, <1>4, <1>5, <2>1, <2>2
  <2> QED BY <1>5, <2>1, <2>3, SequenceEqual
<1>7. tx[c] = n
  BY DEF Inv, TxInv, Lands, Allocated
<1>8. how \in {Ordered!Told(Len(calls) + 1), Ordered!Lost}
  BY <1>4, <1>7 DEF Ordered!Told, Ordered!Lost, Told, Lost
<1>9. \A i \in DOMAIN calls : calls[i] # k
  BY <1>3, <1>4 DEF Inv, CallInv
<1>10. k \in DOMAIN answer /\ answer[k] = Ordered!Open
  BY <1>3, SequenceIs DEF Inv, TypeInv, Ordered!Open, Open
<1> HIDE DEF k, n
<1>11. answer' \in {[answer EXCEPT ![k] = Ordered!Told(Len(calls) + 1)],
                    [answer EXCEPT ![k] = Ordered!Lost]}
  BY <1>2, <1>8
<1> QED BY <1>6, <1>9, <1>10, <1>11 DEF Ordered!Commit, calls

LEMMA NextIsOrdered ==
    ASSUME Inv, [Next]_vars
    PROVE  [Ordered!Next]_<<calls, answer>>
<1>1. ASSUME NEW p \in Procs, Opening(p) PROVE UNCHANGED <<log, answer>>
  BY <1>1, OpeningKeepsSchema DEF Inv, dataVars, dbVars
<1>2. ASSUME NEW c \in Clients, Moves(c) PROVE UNCHANGED <<log, answer>>
  BY <1>2 DEF Moves, dbVars
<1>3. UNCHANGED vars => UNCHANGED <<log, answer>>
  BY DEF vars, dbVars
<1>4. ASSUME NEW c \in Clients, Write(c) \/ Fails(c) \/ Lands(c) PROVE Ordered!Next
  BY <1>4, StartIsCall, FailsIsFail, LandsIsCommit DEF Ordered!Next
<1>5. ASSUME NEW p \in Procs, Crash(p) PROVE Ordered!Next
  BY <1>5, CrashIsFail DEF Ordered!Next
<1> QED BY <1>1, <1>2, <1>3, <1>4, <1>5, NextIs, QuietIsStutter

(* Writers of all processes, retried, refused, cut off or killed: there is *)
(* one log, with the next tx id for each batch; a caller that is told a tx *)
(* is in the log at that place, one that is told of an error is not.       *)
THEOREM StoreIsOrderedLog == Spec => LogSpec
<1>1. Init => Ordered!Init
  <2> SUFFICES ASSUME Init PROVE Ordered!Init
    OBVIOUS
  <2>1. log = <<>> /\ answer = <<>> /\ DOMAIN log = {}
    BY DEF Init
  <2> QED BY <2>1 DEF Ordered!Init
<1>2. Inv /\ [Next]_vars => [Ordered!Next]_<<[n \in DOMAIN log |-> log[n].call], answer>>
  BY NextIsOrdered DEF calls
<1> QED BY InitInv, StepInv, <1>1, <1>2, PTL DEF Spec, LogSpec, Ordered!Spec

-----------------------------------------------------------------------------
(* The audit chain is unbroken, for every set of batches whose audit rows  *)
(* are signed.                                                             *)

(* The audit datoms of the callers carry a :signature.                     *)
SignedBatches ==
    \A b \in Batches : IsSequence(b) /\ \A i \in 1 .. Len(b) : b[i].kind \in {"plain", "audit"}

SignedRow(r) ==
    /\ r = [key |-> r.key, kind |-> r.kind, id |-> r.id, prev |-> r.prev, sig |-> r.sig]
    /\ r.kind \in {"plain", "audit"} /\ (r.kind = "audit" => r.sig = r.id \o <<r.prev>>)

SignedRows(rows) == IsSequence(rows) /\ \A i \in 1 .. Len(rows) : SignedRow(rows[i])

(* The hash of the chain before row i of a batch that starts at from.      *)
HashAt(rows, from, i, hash) ==
    \/ hash = from /\ \A j \in 1 .. i - 1 : rows[j].kind # "audit"
    \/ \E j \in 1 .. i - 1 : /\ rows[j].kind = "audit" /\ rows[j].sig = hash
                             /\ \A l \in 1 .. i - 1 : rows[l].kind = "audit" => l <= j

Chained(rows, from) ==
    \A i \in 1 .. Len(rows) : rows[i].kind = "audit" => HashAt(rows, from, i, rows[i].prev)

(* What is to be inserted is signed; what is inserted follows the head,    *)
(* which cannot move while the row of the allocator is held.               *)
ChainInv ==
    /\ batch = [c \in Clients |-> batch[c]]
    /\ \A c \in Clients : pc[c] # "idle" => SignedRows(batch[c])
    /\ \A c \in Clients : pc[c] = "commit" => Chained(batch[c], head.hash)
    /\ \A n \in 1 .. Len(log) : IsSequence(log[n].rows)
    /\ ChainUnbroken
-----------------------------------------------------------------------------
(* Every nonempty set of numbers has a least one, and one that is bounded  *)
(* has a greatest.                                                         *)
LEMMA LeastNat ==
    ASSUME NEW T, T \subseteq Nat, T # {}
    PROVE  \E n \in T : \A m \in T : n <= m
<1> DEFINE F == {0 .. k : k \in T}
<1>1. F \subseteq FiniteSubsetsOf(Nat) /\ F # {}
  <2>1. \A k \in T : IsFiniteSet(0 .. k) /\ 0 .. k \in SUBSET Nat
    BY FS_Interval
  <2> QED BY <2>1 DEF FiniteSubsetsOf
<1>2. PICK U \in F : \A V \in F : ~ (<<V, U>> \in StrictSubsetOrdering(Nat))
  BY <1>1, FS_StrictSubsetOrderingWellFounded, WFMin
<1>3. PICK n \in T : U = 0 .. n
  OBVIOUS
<1>4. ASSUME NEW m \in T, ~ (n <= m) PROVE FALSE
  <2>1. 0 .. m \subseteq 0 .. n /\ 0 .. m # 0 .. n
    BY <1>4
  <2>2. <<0 .. m, 0 .. n>> \in StrictSubsetOrdering(Nat)
    BY <2>1 DEF StrictSubsetOrdering
  <2> QED BY <2>2, <1>2, <1>3
<1> QED BY <1>4

LEMMA GreatestNat ==
    ASSUME NEW n \in Nat, NEW T \in SUBSET (1 .. n), T # {}
    PROVE  \E m \in T : \A k \in T : k <= m
<1> DEFINE D == {n - k : k \in T}
<1>1. \A k \in T : k \in Nat /\ k <= n /\ n - k \in Nat /\ n - k \in D
  OBVIOUS
<1>2. D \subseteq Nat /\ D # {}
  BY <1>1
<1>3. \E d \in D : \A e \in D : d <= e
  <2> HIDE DEF D
  <2> QED BY <1>2, LeastNat
<1>4. PICK m \in T : \A e \in D : n - m <= e
  BY <1>3
<1>5. ASSUME NEW k \in T PROVE k <= m
  <2>1. n - m <= n - k
    BY <1>1, <1>4
  <2> QED BY <2>1, <1>1
<1> QED BY <1>5

(* The hash after row i, when it was t before it: of a row that call k     *)
(* builds, and of a row that is rebound when k is 0.                       *)
Hop(k, rows, i, t) ==
    IF rows[i].kind # "audit" THEN t
    ELSE IF k # 0 THEN <<k, i, t>>
    ELSE IF rows[i].prev = t THEN rows[i].sig ELSE rows[i].id \o <<t>>

Tips(k, rows, from, n, f) ==
    f = [i \in 0 .. n |-> IF i = 0 THEN from ELSE Hop(k, rows, i, f[i - 1])]

(* The recursive functions of Built and Rebound are defined for every      *)
(* batch: a least length without one would not be the least.               *)
LEMMA TipsExist ==
    ASSUME NEW k, NEW rows, NEW from, NEW n \in Nat
    PROVE  \E f : Tips(k, rows, from, n, f)
<1> DEFINE Bad == {m \in Nat : ~ \E f : Tips(k, rows, from, m, f)}
<1>1. CASE Bad = {}
  BY <1>1
<1>2. CASE Bad # {}
  <2>1. PICK m \in Bad : \A l \in Bad : m <= l
    <3>1. Bad \subseteq Nat
      OBVIOUS
    <3> HIDE DEF Bad
    <3> QED BY <1>2, <3>1, LeastNat
  <2>2. m # 0
    <3>1. Tips(k, rows, from, 0, [i \in 0 .. 0 |-> from])
      BY DEF Tips
    <3> QED BY <3>1, <2>1
  <2>3. m \in Nat /\ m - 1 \in Nat /\ m - 1 \notin Bad
    BY <2>1, <2>2
  <2>4. PICK f : Tips(k, rows, from, m - 1, f)
    BY <2>3
  <2> DEFINE g == [i \in 0 .. m |-> IF i = m THEN Hop(k, rows, m, f[m - 1]) ELSE f[i]]
  <2>5. \A i \in 0 .. m : g[i] = IF i = 0 THEN from ELSE Hop(k, rows, i, g[i - 1])
    <3> TAKE i \in 0 .. m
    <3>1. CASE i = 0
      BY <3>1, <2>2, <2>3, <2>4 DEF Tips
    <3>2. CASE i = m
      <4>1. g[m] = Hop(k, rows, m, f[m - 1]) /\ g[m - 1] = f[m - 1]
        BY <2>3
      <4> HIDE DEF g
      <4> QED BY <3>2, <4>1, <2>2
    <3>3. CASE i # 0 /\ i # m
      <4>1. i \in 0 .. m - 1 /\ i - 1 \in 0 .. m - 1 /\ i - 1 \in 0 .. m /\ i - 1 # m
        BY <3>3, <2>3
      <4>2. f[i] = Hop(k, rows, i, f[i - 1])
        BY <2>4, <3>3, <4>1 DEF Tips
      <4>3. g[i] = f[i] /\ g[i - 1] = f[i - 1]
        BY <3>3, <4>1
      <4> HIDE DEF g
      <4> QED BY <3>3, <4>2, <4>3
    <3> QED BY <3>1, <3>2, <3>3
  <2>6. g = [i \in 0 .. m |-> g[i]]
    OBVIOUS
  <2>7. Tips(k, rows, from, m, g)
    <3> HIDE DEF g
    <3> QED BY <2>5, <2>6 DEF Tips
  <2> QED BY <2>1, <2>7
<1> QED BY <1>1, <1>2

(* A batch as Rebound leaves it: t has the hash after each row.            *)
Rebinds(rows, from, t, r) ==
    /\ t[0] = from /\ \A i \in 1 .. Len(rows) : t[i] = Hop(0, rows, i, t[i - 1])
    /\ IsSequence(r) /\ Len(r) = Len(rows)
    /\ \A i \in 1 .. Len(rows) :
          r[i] = IF rows[i].kind = "audit"
                 THEN [key |-> rows[i].key, kind |-> rows[i].kind, id |-> rows[i].id,
                       prev |-> t[i - 1], sig |-> t[i]]
                 ELSE rows[i]

LEMMA RowRebound ==
    ASSUME NEW x, SignedRow(x), NEW p, NEW h
    PROVE  [x EXCEPT !.prev = p, !.sig = h]
              = [key |-> x.key, kind |-> x.kind, id |-> x.id, prev |-> p, sig |-> h]
<1>1. [x EXCEPT !.prev = p, !.sig = h] = [[x EXCEPT !["prev"] = p] EXCEPT !["sig"] = h]
  BY Zenon
<1>2. PICK key, kind, id, prev, sig :
        x = [key |-> key, kind |-> kind, id |-> id, prev |-> prev, sig |-> sig]
  BY DEF SignedRow
<1>3. x.key = key /\ x.kind = kind /\ x.id = id
  BY <1>2
<1>4. [[x EXCEPT !["prev"] = p] EXCEPT !["sig"] = h]
         = [key |-> key, kind |-> kind, id |-> id, prev |-> p, sig |-> h]
  BY <1>2
<1> QED BY <1>1, <1>3, <1>4, Zenon

LEMMA ReboundIs ==
    ASSUME NEW rows, SignedRows(rows), NEW from
    PROVE  \E t : Rebinds(rows, from, t, Rebound(rows, from))
<1> DEFINE n == Len(rows)
           hop(i, t) == IF rows[i].kind # "audit" THEN t
                        ELSE IF rows[i].prev = t THEN rows[i].sig ELSE rows[i].id \o <<t>>
           tip == CHOOSE f : f = [i \in 0 .. n |-> IF i = 0 THEN from ELSE hop(i, f[i - 1])]
           r == Rebound(rows, from)
<1>1. n \in Nat /\ DOMAIN rows = 1 .. n
  BY SequenceIs DEF SignedRows
<1>2. Tips(0, rows, from, n, tip)
  <2>1. \A i, t : Hop(0, rows, i, t) = hop(i, t)
    BY DEF Hop
  <2> HIDE DEF n, hop
  <2>2. PICK f : Tips(0, rows, from, n, f)
    BY <1>1, TipsExist
  <2>3. f = [i \in 0 .. n |-> IF i = 0 THEN from ELSE hop(i, f[i - 1])]
    BY <2>1, <2>2 DEF Tips
  <2>4. tip = [i \in 0 .. n |-> IF i = 0 THEN from ELSE hop(i, tip[i - 1])]
    BY <2>3
  <2> HIDE DEF tip
  <2> QED BY <2>1, <2>4 DEF Tips
<1>3. r = [i \in DOMAIN rows |->
              IF rows[i].kind = "audit"
              THEN [rows[i] EXCEPT !.prev = tip[i - 1], !.sig = tip[i]] ELSE rows[i]]
  BY Zenon DEF Rebound
<1>4. tip[0] = from /\ \A i \in 1 .. n : tip[i] = Hop(0, rows, i, tip[i - 1])
  <2> HIDE DEF tip
  <2>1. 0 \in 0 .. n /\ \A i \in 1 .. n : i \in 0 .. n /\ i # 0
    BY <1>1
  <2> QED BY <1>2, <2>1, Zenon DEF Tips
<1> HIDE DEF tip, r
<1>5. IsSequence(r) /\ Len(r) = n
  <2>1. r = [i \in DOMAIN rows |-> r[i]]
    BY <1>3, Zenon
  <2> QED BY <2>1, SameLength DEF SignedRows
<1>6. ASSUME NEW i \in 1 .. n
      PROVE  r[i] = IF rows[i].kind = "audit"
                    THEN [key |-> rows[i].key, kind |-> rows[i].kind, id |-> rows[i].id,
                          prev |-> tip[i - 1], sig |-> tip[i]]
                    ELSE rows[i]
  <2>1. r[i] = IF rows[i].kind = "audit"
               THEN [rows[i] EXCEPT !.prev = tip[i - 1], !.sig = tip[i]] ELSE rows[i]
    BY <1>1, <1>3, Zenon
  <2>2. SignedRow(rows[i])
    BY DEF SignedRows
  <2>3. [rows[i] EXCEPT !.prev = tip[i - 1], !.sig = tip[i]]
           = [key |-> rows[i].key, kind |-> rows[i].kind, id |-> rows[i].id,
              prev |-> tip[i - 1], sig |-> tip[i]]
    BY <2>2, RowRebound, Zenon
  <2> QED BY <2>1, <2>3, Zenon
<1>7. Rebinds(rows, from, tip, r)
  BY <1>4, <1>5, <1>6 DEF Rebinds
<1> QED BY <1>7 DEF r

(* One more row: the hash goes on, or is that of the row.                  *)
LEMMA HashOn ==
    ASSUME NEW rows, NEW from, NEW i \in Nat \ {0}, NEW h, NEW g, HashAt(rows, from, i, h),
           rows[i].kind = "audit" => g = rows[i].sig,
           rows[i].kind # "audit" => g = h
    PROVE  HashAt(rows, from, i + 1, g)
<1>1. /\ i - 1 \in Nat /\ (i + 1) - 1 = i /\ i \in 1 .. i
      /\ \A j : j \in 1 .. i <=> (j \in 1 .. i - 1 \/ j = i)
      /\ \A j \in 1 .. i : j <= i
  OBVIOUS
<1>2. CASE rows[i].kind = "audit"
  BY <1>1, <1>2 DEF HashAt
<1>3. CASE rows[i].kind # "audit"
  BY <1>1, <1>3 DEF HashAt
<1> QED BY <1>2, <1>3

LEMMA HashFirst == ASSUME NEW rows, NEW from PROVE HashAt(rows, from, 1, from)
BY DEF HashAt

(* Rebinding makes a chain of any signed batch, from the locked head on.   *)
LEMMA ReboundChains ==
    ASSUME NEW rows, SignedRows(rows), NEW from
    PROVE  SignedRows(Rebound(rows, from)) /\ Chained(Rebound(rows, from), from)
<1> DEFINE n == Len(rows)  r == Rebound(rows, from)
<1>1. PICK t : Rebinds(rows, from, t, r)
  BY ReboundIs
<1>2. n \in Nat /\ DOMAIN rows = 1 .. n
  BY SequenceIs DEF SignedRows
<1> HIDE DEF r
<1>3. IsSequence(r) /\ Len(r) = n /\ t[0] = from
  BY <1>1 DEF Rebinds
<1>4. ASSUME NEW i \in 1 .. n
      PROVE  /\ SignedRow(r[i]) /\ (r[i].kind = "audit" <=> rows[i].kind = "audit")
             /\ r[i].kind = "audit" => r[i].prev = t[i - 1] /\ r[i].sig = t[i]
             /\ r[i].kind # "audit" => t[i] = t[i - 1]
  <2>1. SignedRow(rows[i])
    BY DEF SignedRows
  <2>2. t[i] = Hop(0, rows, i, t[i - 1])
    BY <1>1 DEF Rebinds
  <2>3. CASE rows[i].kind # "audit"
    BY <1>1, <2>1, <2>2, <2>3 DEF Hop, Rebinds
  <2>4. CASE rows[i].kind = "audit"
    <3>1. r[i] = [key |-> rows[i].key, kind |-> rows[i].kind, id |-> rows[i].id,
                  prev |-> t[i - 1], sig |-> t[i]]
      BY <1>1, <2>4 DEF Rebinds
    <3>2. t[i] = rows[i].id \o <<t[i - 1]>>
      BY <2>1, <2>2, <2>4 DEF Hop, SignedRow
    <3> QED BY <2>4, <3>1, <3>2 DEF SignedRow
  <2> QED BY <2>3, <2>4
<1>5. \A k \in 0 .. n : HashAt(r, from, k + 1, t[k])
  <2> DEFINE Bad == {k \in 0 .. n : ~ HashAt(r, from, k + 1, t[k])}
  <2>1. CASE Bad = {}
    BY <2>1
  <2>2. CASE Bad # {}
    <3>1. PICK k \in Bad : \A m \in Bad : k <= m
      <4>1. Bad \subseteq Nat
        BY <1>2
      <4> HIDE DEF Bad
      <4> QED BY <2>2, <4>1, LeastNat
    <3>2. k # 0
      <4>1. HashAt(r, from, 1, t[0]) /\ 0 + 1 = 1
        BY <1>3, HashFirst
      <4> QED BY <3>1, <4>1
    <3>3. k \in 1 .. n /\ k - 1 \in 0 .. n /\ k - 1 \notin Bad /\ (k - 1) + 1 = k
      BY <1>2, <3>1, <3>2
    <3>4. HashAt(r, from, k, t[k - 1])
      BY <3>3
    <3>5. HashAt(r, from, k + 1, t[k])
      BY <1>2, <1>4, <3>3, <3>4, HashOn
    <3> QED BY <3>1, <3>5
  <2> QED BY <2>1, <2>2
<1>6. Chained(r, from)
  <2> SUFFICES ASSUME NEW i \in 1 .. n, r[i].kind = "audit"
               PROVE  HashAt(r, from, i, r[i].prev)
    BY <1>3 DEF Chained
  <2>1. i - 1 \in 0 .. n /\ (i - 1) + 1 = i
    BY <1>2
  <2> QED BY <1>4, <1>5, <2>1
<1> QED BY <1>3, <1>4, <1>6 DEF SignedRows, r

-----------------------------------------------------------------------------
(* What a caller hands to the store: its rows, with companions.            *)
Concats(seqs, n, f) == f = [i \in 1 .. n |-> IF i = 1 THEN seqs[i] ELSE f[i - 1] \o seqs[i]]

LEMMA ConcatsExist ==
    ASSUME NEW seqs, NEW n \in Nat
    PROVE  \E f : Concats(seqs, n, f)
<1> DEFINE Bad == {k \in Nat : ~ \E f : Concats(seqs, k, f)}
<1>1. CASE Bad = {}
  BY <1>1
<1>2. CASE Bad # {}
  <2>1. PICK k \in Bad : \A m \in Bad : k <= m
    <3>1. Bad \subseteq Nat
      OBVIOUS
    <3> HIDE DEF Bad
    <3> QED BY <1>2, <3>1, LeastNat
  <2>2. k # 0
    <3>1. Concats(seqs, 0, [i \in 1 .. 0 |-> seqs[i]])
      BY DEF Concats
    <3> QED BY <3>1, <2>1
  <2>3. k \in Nat /\ k - 1 \in Nat /\ k - 1 \notin Bad
    BY <2>1, <2>2
  <2>4. PICK f : Concats(seqs, k - 1, f)
    BY <2>3
  <2> DEFINE last == IF k = 1 THEN seqs[k] ELSE f[k - 1] \o seqs[k]
             g == [i \in 1 .. k |-> IF i = k THEN last ELSE f[i]]
  <2> HIDE DEF last
  <2>5. ASSUME NEW i \in 1 .. k
        PROVE  g[i] = IF i = 1 THEN seqs[i] ELSE g[i - 1] \o seqs[i]
    <3>1. CASE i = k
      <4>1. g[k] = last /\ (k # 1 => g[k - 1] = f[k - 1])
        BY <2>2, <2>3
      <4> HIDE DEF g
      <4> QED BY <3>1, <4>1 DEF last
    <3>2. CASE i # k
      <4>1. i \in 1 .. k - 1 /\ (i # 1 => i - 1 \in 1 .. k - 1 /\ i - 1 \in 1 .. k /\ i - 1 # k)
        BY <2>3, <3>2
      <4>2. f[i] = IF i = 1 THEN seqs[i] ELSE f[i - 1] \o seqs[i]
        BY <2>4, <4>1 DEF Concats
      <4>3. g[i] = f[i] /\ (i # 1 => g[i - 1] = f[i - 1])
        BY <3>2, <4>1
      <4> HIDE DEF g
      <4> QED BY <4>2, <4>3
    <3> QED BY <3>1, <3>2
  <2>6. g = [i \in 1 .. k |-> g[i]]
    OBVIOUS
  <2>7. Concats(seqs, k, g)
    <3> HIDE DEF g
    <3> QED BY <2>5, <2>6 DEF Concats
  <2> QED BY <2>1, <2>7
<1> QED BY <1>1, <1>2

LEMMA FlattenIs ==
    ASSUME NEW S, NEW seqs, NEW n \in Nat, Len(seqs) = n, seqs = [i \in 1 .. n |-> seqs[i]],
           \A i \in 1 .. n : seqs[i] \in Seq(S)
    PROVE  FlattenSeq(seqs) \in Seq(S)
<1>1. CASE n = 0
  <2>1. seqs \in Seq(S)
    <3>1. seqs \in [1 .. n -> S]
      BY <1>1
    <3> QED BY <3>1, SeqDef
  <2> QED BY <1>1, <2>1 DEF FlattenSeq
<1>2. CASE n # 0
  <2> DEFINE flat == CHOOSE f : f = [i \in 1 .. n |->
                                        IF i = 1 THEN seqs[i] ELSE f[i - 1] \o seqs[i]]
  <2>1. PICK f : Concats(seqs, n, f)
    BY ConcatsExist
  <2>2. Concats(seqs, n, flat)
    BY <2>1 DEF Concats
  <2>3. FlattenSeq(seqs) = flat[n]
    BY <1>2, Zenon DEF FlattenSeq
  <2> HIDE DEF flat
  <2>4. \A i \in 1 .. n : flat[i] \in Seq(S)
    <3> DEFINE Bad == {k \in 1 .. n : flat[k] \notin Seq(S)}
    <3>1. CASE Bad = {}
      BY <3>1
    <3>2. CASE Bad # {}
      <4>1. PICK k \in Bad : \A m \in Bad : k <= m
        <5>1. Bad \subseteq Nat
          OBVIOUS
        <5> HIDE DEF Bad
        <5> QED BY <3>2, <5>1, LeastNat
      <4>2. flat[k] = IF k = 1 THEN seqs[k] ELSE flat[k - 1] \o seqs[k]
        BY <2>2 DEF Concats
      <4>3. k # 1 => k - 1 \in 1 .. n /\ k - 1 \notin Bad
        BY <4>1
      <4>4. k # 1 => flat[k - 1] \in Seq(S)
        BY <4>3
      <4>5. flat[k] \in Seq(S)
        BY <4>2, <4>4, ConcatProperties
      <4> QED BY <4>1, <4>5
    <3> QED BY <3>1, <3>2
  <2> QED BY <1>2, <2>3, <2>4
<1> QED BY <1>1, <1>2

LEMMA SeqIs == ASSUME NEW S, NEW s \in Seq(S) PROVE IsSequence(s)
<1> DEFINE T == {s[i] : i \in DOMAIN s}
<1>1. Len(s) \in Nat /\ DOMAIN s = 1 .. Len(s) /\ s = [i \in 1 .. Len(s) |-> s[i]]
  BY LenProperties
<1>2. \A i \in 1 .. Len(s) : s[i] \in T
  BY <1>1
<1> HIDE DEF T
<1>3. s \in [1 .. Len(s) -> T]
  BY <1>1, <1>2
<1>4. s \in Seq(T)
  BY <1>1, <1>3, SeqDef
<1> QED BY <1>4 DEF IsSequence, T

(* A caller's rows: audit ones and facts only.                             *)
Callers(rows) == IsSequence(rows) /\ \A i \in 1 .. Len(rows) : rows[i].kind \in {"plain", "audit"}

LEMMA CompanionsAre ==
    ASSUME NEW rows, Callers(rows)
    PROVE  Callers(WithCompanions(rows))
<1> DEFINE n == Len(rows)
           S == {rows[i] : i \in 1 .. n}
           seqs == [i \in DOMAIN rows |-> IF rows[i].kind = "plain" /\ InLog(rows[i].key)
                                          THEN <<rows[i], rows[i]>> ELSE <<rows[i]>>]
           all == WithCompanions(rows)
<1>1. n \in Nat /\ DOMAIN rows = 1 .. n
  BY SequenceIs DEF Callers
<1>2. \A i \in 1 .. n : rows[i] \in S
  OBVIOUS
<1>3. \A x \in S : x.kind \in {"plain", "audit"}
  BY DEF Callers
<1> HIDE DEF S
<1>4. seqs = [i \in 1 .. n |-> seqs[i]] /\ \A i \in 1 .. n : seqs[i] \in Seq(S)
  BY <1>1, <1>2
<1>5. Len(seqs) = n
  <2>1. seqs = [i \in DOMAIN rows |-> seqs[i]]
    BY <1>1
  <2> HIDE DEF seqs
  <2> QED BY <2>1, SameLength DEF Callers
<1>6. all = FlattenSeq(seqs)
  BY DEF WithCompanions
<1> HIDE DEF seqs, n
<1>7. FlattenSeq(seqs) \in Seq(S)
  BY <1>1, <1>4, <1>5, FlattenIs
<1> HIDE DEF all
<1>8. all \in Seq(S)
  BY <1>6, <1>7
<1>9. \A i \in 1 .. Len(all) : all[i] \in S
  BY <1>8
<1>10. IsSequence(all)
  BY <1>8, SeqIs
<1> QED BY <1>3, <1>9, <1>10 DEF Callers, all

LEMMA Signing == ASSUME NEW a, NEW b, NEW c PROVE <<a, b, c>> = <<a, b>> \o <<c>>
OBVIOUS

LEMMA BuiltIs ==
    ASSUME NEW rows, Callers(rows), NEW k \in Nat \ {0}, NEW p
    PROVE  SignedRows(Built(rows, k, p))
<1> DEFINE n == Len(rows)
           prev == CHOOSE f : f = [i \in 0 .. n |->
                                      IF i = 0 THEN ring[p] ELSE Hop(k, rows, i, f[i - 1])]
           row(i) == [key |-> IF rows[i].kind = "audit" THEN <<k, i>> ELSE rows[i].key,
                      kind |-> rows[i].kind, id |-> <<k, i>>,
                      prev |-> prev[i - 1], sig |-> prev[i]]
           b == Built(rows, k, p)
<1>1. n \in Nat /\ DOMAIN rows = 1 .. n
  BY SequenceIs DEF Callers
<1>2. Tips(k, rows, ring[p], n, prev)
  <2>1. \E f : Tips(k, rows, ring[p], n, f)
    <3> DEFINE from == ring[p]
    <3> HIDE DEF n, from
    <3>1. \E f : Tips(k, rows, from, n, f)
      BY <1>1, TipsExist
    <3> QED BY <3>1 DEF from
  <2> QED BY <2>1 DEF Tips
<1>3. b = [i \in DOMAIN rows |-> row(i)]
  <2>1. k # 0
    OBVIOUS
  <2> QED BY <2>1 DEF Built, Hop
<1>4. \A i \in 1 .. n : prev[i] = Hop(k, rows, i, prev[i - 1])
  <2> HIDE DEF prev
  <2>1. \A i \in 1 .. n : i \in 0 .. n /\ i # 0
    BY <1>1
  <2> QED BY <1>2, <2>1, Zenon DEF Tips
<1> HIDE DEF prev
<1>5. ASSUME NEW i \in 1 .. n PROVE SignedRow(row(i))
  <2>1. row(i).kind = rows[i].kind /\ rows[i].kind \in {"plain", "audit"}
    BY DEF Callers
  <2>2. rows[i].kind = "audit" => prev[i] = <<k, i>> \o <<prev[i - 1]>>
    <3>1. k # 0 /\ prev[i] = Hop(k, rows, i, prev[i - 1])
      BY <1>4
    <3>2. rows[i].kind = "audit" => Hop(k, rows, i, prev[i - 1]) = <<k, i, prev[i - 1]>>
      BY <3>1 DEF Hop
    <3>3. <<k, i, prev[i - 1]>> = <<k, i>> \o <<prev[i - 1]>>
      BY Signing, Zenon
    <3> QED BY <3>1, <3>2, <3>3, Zenon
  <2> QED BY <2>1, <2>2 DEF SignedRow
<1> HIDE DEF row
<1>6. IsSequence(b) /\ Len(b) = n /\ \A i \in 1 .. n : b[i] = row(i)
  <2>1. b = [i \in DOMAIN rows |-> b[i]] /\ \A i \in 1 .. n : b[i] = row(i)
    BY <1>1, <1>3
  <2> HIDE DEF b
  <2> QED BY <2>1, SameLength DEF Callers
<1> QED BY <1>5, <1>6 DEF SignedRows

-----------------------------------------------------------------------------
(* A chained batch that lands at the end of the log goes on with its chain.*)
LEMMA Extends ==
    ASSUME NEW l, IsSequence(l), \A n \in 1 .. Len(l) : IsSequence(l[n].rows),
           NEW h, Unbroken(l, h), NEW b, SignedRows(b), Chained(b, h), NEW e, e.rows = b,
           NEW g, HashAt(b, h, Len(b) + 1, g)
    PROVE  Unbroken(Append(l, e), g)
<1> DEFINE N == Len(l) + 1  m == Len(b)  k == Append(l, e)
           P == AuditPlaces(l)
           first(i) == {<<N, j>> : j \in Canonical(b) \cap 1 .. i - 1}
<1>1. /\ Len(l) \in Nat /\ N \in Nat /\ m \in Nat /\ DOMAIN l = 1 .. Len(l) /\ DOMAIN b = 1 .. m
      /\ IsSequence(k) /\ Len(k) = N /\ DOMAIN k = 1 .. N
      /\ \A n \in 1 .. Len(l) : k[n] = l[n] /\ n # N
      /\ k[N] = e /\ \A n \in 1 .. N : n = N \/ n \in 1 .. Len(l)
  <2>1. /\ IsSequence(k) /\ Len(k) = N /\ k[N] = e
        /\ \A n \in 1 .. Len(l) : k[n] = l[n]
    BY AppendIs
  <2> HIDE DEF k
  <2>2. Len(l) \in Nat /\ m \in Nat /\ DOMAIN l = 1 .. Len(l) /\ DOMAIN b = 1 .. m /\ DOMAIN k = 1 .. Len(k)
    BY <2>1, SequenceIs DEF SignedRows
  <2> QED BY <2>1, <2>2
<1> HIDE DEF k, P, N, m
<1>2. \A p \in P : /\ p[1] \in 1 .. Len(l) /\ p[2] \in Nat /\ p = <<p[1], p[2]>>
                   /\ Row(k, p) = Row(l, p)
  <2> SUFFICES ASSUME NEW p \in P
               PROVE  /\ p[1] \in 1 .. Len(l) /\ p[2] \in Nat /\ p = <<p[1], p[2]>>
                      /\ Row(k, p) = Row(l, p)
    OBVIOUS
  <2>1. PICK n \in 1 .. Len(l) : \E i \in Canonical(l[n].rows) : p = <<n, i>>
    BY <1>1 DEF P, AuditPlaces
  <2>2. PICK i \in Canonical(l[n].rows) : p = <<n, i>>
    BY <2>1
  <2>3. i \in Nat
    <3>1. Len(l[n].rows) \in Nat /\ DOMAIN l[n].rows = 1 .. Len(l[n].rows)
      BY SequenceIs
    <3> QED BY <3>1 DEF Canonical
  <2>4. k[n].rows = l[n].rows
    BY <1>1
  <2> QED BY <2>2, <2>3, <2>4 DEF Row
<1>3. Canonical(b) \subseteq 1 .. m /\ Canonical(b) \subseteq Nat
  BY <1>1 DEF Canonical
<1>4. AuditPlaces(k) = P \cup first(m + 1)
  <2>1. AuditPlaces(k) = UNION {{<<n, i>> : i \in Canonical(k[n].rows)} : n \in 1 .. N}
    BY <1>1 DEF AuditPlaces
  <2>2. P = UNION {{<<n, i>> : i \in Canonical(k[n].rows)} : n \in 1 .. Len(l)}
    BY <1>1 DEF AuditPlaces, P
  <2>3. first(m + 1) = {<<N, i>> : i \in Canonical(k[N].rows)}
    BY <1>1, <1>3
  <2>4. N \in 1 .. N /\ \A n \in 1 .. Len(l) : n \in 1 .. N
    BY <1>1 DEF N
  <2> HIDE DEF first
  <2> QED BY <1>1, <2>1, <2>2, <2>3, <2>4
<1>5. \A i \in Canonical(b) : Row(k, <<N, i>>) = b[i]
  BY <1>1 DEF Row
<1>6. ASSUME NEW Q \in SUBSET P, NEW x, Tip(l, Q, x) PROVE Tip(k, Q, x)
  BY <1>2, <1>6 DEF Tip
<1>7. \A p \in P, i \in Nat : Before(p, <<N, i>>) /\ ~ Before(<<N, i>>, p)
  BY <1>1, <1>2 DEF Before, N
<1>8. \A i, j \in Nat : Before(<<N, i>>, <<N, j>>) <=> i < j
  BY <1>1 DEF Before
<1>9. ASSUME NEW i \in 1 .. m + 1, NEW x, HashAt(b, h, i, x)
      PROVE  Tip(k, P \cup first(i), x)
  <2>1. i - 1 \in Nat /\ i - 1 \in 0 .. m /\ \A j \in 1 .. i - 1 : j \in 1 .. m
    BY <1>1
  <2>2. CASE x = h /\ \A j \in 1 .. i - 1 : b[j].kind # "audit"
    <3>1. first(i) = {}
      BY <2>2 DEF Canonical
    <3>2. Tip(l, P, h) /\ P \in SUBSET P
      BY DEF Unbroken, P
    <3>3. Tip(k, P, h)
      BY <1>6, <3>2
    <3> QED BY <2>2, <3>1, <3>3, Zenon
  <2>3. CASE \E j \in 1 .. i - 1 : /\ b[j].kind = "audit" /\ b[j].sig = x
                                   /\ \A o \in 1 .. i - 1 : b[o].kind = "audit" => o <= j
    <3>1. PICK j \in 1 .. i - 1 : /\ b[j].kind = "audit" /\ b[j].sig = x
                                  /\ \A o \in 1 .. i - 1 : b[o].kind = "audit" => o <= j
      BY <2>3
    <3>2. j \in Canonical(b) /\ j \in Nat /\ <<N, j>> \in first(i)
      BY <1>1, <2>1, <3>1 DEF Canonical
    <3>3. Row(k, <<N, j>>).sig = x
      BY <1>5, <3>1, <3>2
    <3>4. \A q \in first(i) : q = <<N, j>> \/ Before(q, <<N, j>>)
      <4>1. \A o \in Canonical(b) \cap 1 .. i - 1 : o \in Nat /\ (o = j \/ o < j)
        BY <2>1, <3>1, <3>2 DEF Canonical
      <4> QED BY <1>8, <3>2, <4>1
    <3>5. \A q \in P \cup first(i) : q = <<N, j>> \/ Before(q, <<N, j>>)
      BY <1>7, <3>2, <3>4
    <3> HIDE DEF first
    <3> QED BY <3>2, <3>3, <3>5 DEF Tip
  <2> QED BY <1>9, <2>2, <2>3 DEF HashAt
<1>10. ASSUME NEW q \in AuditPlaces(k)
       PROVE  /\ Tip(k, {p \in AuditPlaces(k) : Before(p, q)}, Row(k, q).prev)
              /\ Row(k, q).sig = Row(k, q).id \o <<Row(k, q).prev>>
  <2>1. CASE q \in P
    <3>1. /\ Tip(l, {p \in P : Before(p, q)}, Row(l, q).prev)
          /\ Row(l, q).sig = Row(l, q).id \o <<Row(l, q).prev>>
      BY <2>1 DEF Unbroken, P
    <3>2. \A p \in first(m + 1) : ~ Before(p, q)
      BY <1>3, <1>7, <2>1
    <3> HIDE DEF first
    <3>3. {p \in AuditPlaces(k) : Before(p, q)} = {p \in P : Before(p, q)}
      BY <1>4, <3>2
    <3>4. Tip(k, {p \in P : Before(p, q)}, Row(l, q).prev)
      BY <1>6, <3>1
    <3> QED BY <1>2, <2>1, <3>1, <3>3, <3>4
  <2>2. CASE q \in first(m + 1)
    <3>1. PICK i \in Canonical(b) : q = <<N, i>>
      BY <2>2
    <3>2. i \in 1 .. m /\ i \in Nat /\ b[i].kind = "audit" /\ Row(k, q) = b[i]
      BY <1>3, <1>5, <3>1 DEF Canonical
    <3>3. Row(k, q).sig = Row(k, q).id \o <<Row(k, q).prev>>
      BY <3>2 DEF SignedRows, SignedRow, m
    <3>4. {p \in AuditPlaces(k) : Before(p, q)} = P \cup first(i)
      <4>1. \A p \in P : Before(p, q)
        BY <1>7, <3>1, <3>2
      <4>2. \A j \in Canonical(b) : Before(<<N, j>>, q) <=> j \in 1 .. i - 1
        BY <1>3, <1>8, <3>1, <3>2
      <4>3. \A j \in Canonical(b) : j \in 1 .. (m + 1) - 1
        BY <1>1, <1>3
      <4>4. \A p \in first(m + 1) : Before(p, q) <=> p \in first(i)
        BY <4>2
      <4>5. first(i) \subseteq first(m + 1)
        BY <4>3
      <4> HIDE DEF first
      <4> QED BY <1>4, <4>1, <4>4, <4>5
    <3>5. i \in 1 .. m + 1 /\ HashAt(b, h, i, b[i].prev)
      BY <1>1, <3>2 DEF Chained, m
    <3> QED BY <1>9, <3>2, <3>3, <3>4, <3>5
  <2> QED BY <1>4, <2>1, <2>2
<1>11. Tip(k, AuditPlaces(k), g)
  <2>1. m + 1 \in 1 .. m + 1 /\ HashAt(b, h, m + 1, g)
    BY <1>1 DEF m
  <2> QED BY <1>4, <1>9, <2>1
<1> QED BY <1>10, <1>11 DEF Unbroken, k

-----------------------------------------------------------------------------
LEMMA ChainInit == Init => ChainInv
<1> SUFFICES ASSUME Init PROVE ChainInv
  OBVIOUS
<1>1. /\ log = <<>> /\ head.hash = Empty /\ pc = [c \in Clients |-> "idle"]
      /\ batch = [c \in Clients |-> <<>>]
  BY DEF Init
<1>2. Len(log) = 0 /\ DOMAIN log = {}
  BY <1>1
<1>3. AuditPlaces(log) = {}
  BY <1>2 DEF AuditPlaces
<1>4. ChainUnbroken
  BY <1>1, <1>3 DEF ChainUnbroken, Unbroken, Tip
<1>5. \A n \in 1 .. Len(log) : IsSequence(log[n].rows)
  BY <1>2
<1>6. batch = [c \in Clients |-> batch[c]] /\ \A c \in Clients : pc[c] = "idle"
  BY <1>1
<1> QED BY <1>4, <1>5, <1>6 DEF ChainInv

LEMMA StartChains ==
    ASSUME Inv, ChainInv, SignedBatches, NEW c \in Clients, Write(c)
    PROVE  ChainInv'
<1> DEFINE k == Len(answer) + 1  P == ProcOf[c]
<1>1. PICK rows \in Batches : Start(c, rows)
  BY DEF Write
<1> DEFINE b == Built(WithCompanions(rows), k, P)
<1>2. /\ batch' = [batch EXCEPT ![c] = b] /\ UNCHANGED dbVars
      /\ pc' = [pc EXCEPT ![c] = IF rows[1].kind = "audit" THEN "pool" ELSE "lock"]
  BY <1>1 DEF Start
<1>3. k \in Nat \ {0}
  BY SequenceIs DEF Inv, TypeInv
<1>4. SignedRows(b)
  <2>1. Callers(WithCompanions(rows))
    BY CompanionsAre DEF SignedBatches, Callers
  <2> HIDE DEF k
  <2> QED BY <1>3, <2>1, BuiltIs
<1> HIDE DEF b
<1>5. pc'[c] # "commit" /\ \A d \in Clients : d # c => pc'[d] = pc[d]
  BY <1>2 DEF Inv, TypeInv
<1>6. /\ batch' = [d \in Clients |-> batch'[d]] /\ batch'[c] = b
      /\ \A d \in Clients : d # c => batch'[d] = batch[d]
  BY <1>2 DEF ChainInv
<1>7. log' = log /\ head' = head
  BY <1>2 DEF dbVars
<1>8. ChainUnbroken'
  BY <1>7 DEF ChainInv, ChainUnbroken
<1> QED BY <1>4, <1>5, <1>6, <1>7, <1>8 DEF ChainInv

(* The calls of some clients end and the log stays.                        *)
LEMMA GoneChains ==
    ASSUME Inv, ChainInv, NEW C \in SUBSET Clients, Gone(C), UNCHANGED dbVars
    PROVE  ChainInv'
<1>1. /\ batch' = [c \in Clients |-> IF c \in C THEN <<>> ELSE batch[c]]
      /\ pc' = [c \in Clients |-> IF c \in C THEN "idle" ELSE pc[c]]
  BY DEF Gone
<1>2. log' = log /\ head' = head
  BY DEF dbVars
<1>3. \A c \in Clients : pc'[c] # "idle" => batch'[c] = batch[c] /\ pc'[c] = pc[c]
  BY <1>1
<1>4. batch' = [c \in Clients |-> batch'[c]]
  BY <1>1
<1>5. ChainUnbroken'
  BY <1>2 DEF ChainInv, ChainUnbroken
<1> QED BY <1>2, <1>3, <1>4, <1>5 DEF ChainInv

(* What the other steps of a call do to its batch.                         *)
Keeps(c) ==
    /\ UNCHANGED dbVars /\ pc[c] # "idle" /\ \A d \in Clients : d # c => pc'[d] = pc[d]
    /\ \/ UNCHANGED batch /\ pc'[c] # "commit"
       \/ /\ batch' = [batch EXCEPT ![c] = IF Audits(@) = {} THEN @ ELSE Rebound(@, head.hash)]
          /\ pc'[c] = "commit"

LEMMA FailureKeeps ==
    ASSUME Inv, NEW c \in Clients, pc[c] # "idle", SerializationFailure(c)
    PROVE  Keeps(c) \/ Fails(c)
<1>1. CASE attempt[c] = MaxRetries
  BY <1>1 DEF SerializationFailure, Fails
<1>2. CASE attempt[c] # MaxRetries
  <2>1. pc' = [pc EXCEPT ![c] = "backoff"] /\ UNCHANGED <<dbVars, batch>>
    BY <1>2 DEF SerializationFailure, callVars
  <2> QED BY <2>1 DEF Keeps, Inv, TypeInv
<1> QED BY <1>1, <1>2

LEMMA StepKeeps ==
    ASSUME Inv, NEW c \in Clients, Step(c) \/ TimedOut(c) \/ ConnectionLost(c)
    PROVE  Keeps(c) \/ Fails(c) \/ Lands(c)
<1>1. \A s \in Pcs \ {"commit"} :
         pc[c] # "idle" /\ pc' = [pc EXCEPT ![c] = s] /\ UNCHANGED <<dbVars, batch>> => Keeps(c)
  BY DEF Keeps, Inv, TypeInv
<1>2. CASE TakeMutex(c)
  BY <1>1, <1>2 DEF TakeMutex, callVars, Pcs
<1>3. CASE Connect(c)
  BY <1>1, <1>3 DEF Connect, callVars, Pcs
<1>4. CASE Retry(c)
  BY <1>1, <1>4 DEF Retry, Pcs
<1>5. CASE LockAllocator(c)
  <2>1. CASE SerializationFailure(c)
    BY <1>5, <2>1, FailureKeeps DEF LockAllocator
  <2>2. CASE seen[c].tx = nextTx
    <3>1. /\ pc[c] = "allocator" /\ UNCHANGED <<dbVars, batch>>
          /\ pc' = [pc EXCEPT ![c] = IF Audits(batch[c]) # {} THEN "chain" ELSE "insert"]
      BY <1>5, <2>2 DEF LockAllocator, callVars
    <3> QED BY <1>1, <3>1 DEF Pcs
  <2> QED BY <1>5, <2>1, <2>2 DEF LockAllocator
<1>6. CASE LockChain(c)
  <2>1. CASE SerializationFailure(c)
    BY <1>6, <2>1, FailureKeeps DEF LockChain
  <2>2. CASE seen[c].seq = head.seq
    BY <1>1, <1>6, <2>2 DEF LockChain, callVars, Pcs
  <2> QED BY <1>6, <2>1, <2>2 DEF LockChain
<1>7. CASE Insert(c)
  <2>1. CASE Distinct(batch[c]) /\ Unused(tx[c])
    <3>1. /\ pc[c] = "insert" /\ pc' = [pc EXCEPT ![c] = "commit"] /\ UNCHANGED dbVars
          /\ batch' = [batch EXCEPT ![c] = IF Audits(@) = {} THEN @ ELSE Rebound(@, head.hash)]
      BY <1>7, <2>1, Zenon DEF Insert
    <3>2. pc'[c] = "commit" /\ \A d \in Clients : d # c => pc'[d] = pc[d]
      BY <3>1 DEF Inv, TypeInv
    <3> QED BY <3>1, <3>2 DEF Keeps
  <2>2. CASE ~ (Distinct(batch[c]) /\ Unused(tx[c]))
    BY <1>7, <2>2 DEF Insert, Fails
  <2> QED BY <2>1, <2>2
<1>8. CASE Commit(c)
  BY <1>8 DEF Commit, Lands
<1>9. CASE CommitConflict(c)
  BY <1>9, FailureKeeps DEF CommitConflict
<1>10. CASE TimedOut(c)
  BY <1>10 DEF TimedOut, Fails
<1>11. CASE ConnectionLost(c)
  BY <1>11 DEF ConnectionLost, Fails, Lands, InTransaction
<1> QED BY <1>2, <1>3, <1>4, <1>5, <1>6, <1>7, <1>8, <1>9, <1>10, <1>11 DEF Step

LEMMA PlainChained ==
    ASSUME NEW rows, SignedRows(rows), Audits(rows) = {}, NEW from
    PROVE  Chained(rows, from)
<1>1. DOMAIN rows = 1 .. Len(rows)
  BY SequenceIs DEF SignedRows
<1> QED BY <1>1 DEF Audits, Chained

(* An insert rebinds to the head; nothing else touches what is inserted.   *)
LEMMA KeepsChains ==
    ASSUME Inv, ChainInv, NEW c \in Clients, Keeps(c)
    PROVE  ChainInv'
<1>1. log' = log /\ head' = head /\ \A d \in Clients : d # c => pc'[d] = pc[d]
  BY DEF Keeps, dbVars
<1>2. ChainUnbroken'
  BY <1>1 DEF ChainInv, ChainUnbroken
<1>3. CASE UNCHANGED batch /\ pc'[c] # "commit"
  BY <1>1, <1>2, <1>3 DEF ChainInv, Keeps
<1>4. CASE /\ batch' = [batch EXCEPT ![c] = IF Audits(@) = {} THEN @ ELSE Rebound(@, head.hash)]
           /\ pc'[c] = "commit"
  <2> DEFINE b == IF Audits(batch[c]) = {} THEN batch[c] ELSE Rebound(batch[c], head.hash)
  <2>1. SignedRows(batch[c])
    BY DEF ChainInv, Keeps
  <2>2. SignedRows(b) /\ Chained(b, head.hash)
    BY <2>1, ReboundChains, PlainChained
  <2>3. batch' = [batch EXCEPT ![c] = b]
    BY <1>4
  <2> HIDE DEF b
  <2>4. /\ batch' = [d \in Clients |-> batch'[d]] /\ batch'[c] = b
        /\ \A d \in Clients : d # c => batch'[d] = batch[d]
    BY <2>3 DEF ChainInv
  <2> QED BY <1>1, <1>2, <2>2, <2>4 DEF ChainInv
<1> QED BY <1>3, <1>4 DEF Keeps

(* The head after the batch is the hash of its last audit row.             *)
LEMMA HeadMoves ==
    ASSUME NEW rows, SignedRows(rows), NEW from, NEW n,
           NEW h, h = IF Audits(rows) = {} THEN from ELSE Head2(rows, n).hash
    PROVE  HashAt(rows, from, Len(rows) + 1, h)
<1> DEFINE m == Len(rows)
<1>1. m \in Nat /\ DOMAIN rows = 1 .. m /\ (m + 1) - 1 = m
  BY SequenceIs DEF SignedRows
<1>2. \A j \in 1 .. m : rows[j].kind \in {"plain", "audit"}
  BY DEF SignedRows, SignedRow
<1> HIDE DEF m
<1>3. /\ Audits(rows) \in SUBSET (1 .. m)
      /\ \A j \in 1 .. m : j \in Audits(rows) <=> rows[j].kind = "audit"
  BY <1>1, <1>2 DEF Audits
<1>4. CASE Audits(rows) = {}
  BY <1>1, <1>3, <1>4 DEF HashAt, m
<1>5. CASE Audits(rows) # {}
  <2> DEFINE i == Max(Audits(rows))
  <2>1. \E x \in Audits(rows) : \A y \in Audits(rows) : y <= x
    BY <1>1, <1>3, <1>5, GreatestNat
  <2>2. \E x \in Audits(rows) : \A y \in Audits(rows) : x >= y
    <3>1. \A x, y \in 1 .. m : y <= x => x >= y
      BY <1>1
    <3> QED BY <1>3, <2>1, <3>1
  <2>3. i \in Audits(rows) /\ \A y \in Audits(rows) : i >= y
    BY <2>2 DEF Max
  <2>4. h = rows[i].sig
    BY <1>3, <1>5, <2>3 DEF Head2
  <2> HIDE DEF i
  <2>5. /\ i \in 1 .. m /\ rows[i].kind = "audit"
        /\ \A l \in 1 .. m : rows[l].kind = "audit" => l <= i
    BY <1>1, <1>3, <2>3
  <2> QED BY <1>1, <2>4, <2>5 DEF HashAt, m
<1> QED BY <1>4, <1>5

(* Only the holder of the allocator's row can land, so what the others are *)
(* about to insert is not yet rebound.                                     *)
LEMMA LandsChains ==
    ASSUME Inv, ChainInv, NEW c \in Clients, Lands(c)
    PROVE  ChainInv'
<1> DEFINE e == [call |-> call[c], tx |-> tx[c], rows |-> batch[c]]
<1>1. PICK how \in {Told(tx[c]), Lost} : Landed(c, how)
  BY DEF Lands
<1>2. /\ log' = Append(log, e) /\ Gone({c})
      /\ head' = IF Audits(batch[c]) = {} THEN head ELSE Head2(batch[c], Len(log) + 1)
  BY <1>1 DEF Landed
<1>3. pc[c] = "commit" /\ SignedRows(batch[c]) /\ Chained(batch[c], head.hash)
  BY DEF Lands, ChainInv
<1>4. IsSequence(log) /\ e.rows = batch[c]
  BY DEF Inv, TypeInv
<1> HIDE DEF e
<1>5. HashAt(batch[c], head.hash, Len(batch[c]) + 1, head'.hash)
  <2>1. head'.hash = IF Audits(batch[c]) = {} THEN head.hash
                     ELSE Head2(batch[c], Len(log) + 1).hash
    BY <1>2
  <2> QED BY <1>3, <2>1, HeadMoves
<1>6. ChainUnbroken'
  <2>1. Unbroken(Append(log, e), head'.hash)
    BY <1>3, <1>4, <1>5, Extends DEF ChainInv, ChainUnbroken
  <2> QED BY <1>2, <2>1 DEF ChainUnbroken
<1>7. \A n \in 1 .. Len(log') : IsSequence(log'[n].rows)
  <2>1. /\ Len(log') = Len(log) + 1 /\ log'[Len(log) + 1] = e /\ Len(log) \in Nat
        /\ \A n \in 1 .. Len(log) : log'[n] = log[n]
    BY <1>2, <1>4, AppendIs, SequenceIs
  <2>2. \A n \in 1 .. Len(log) + 1 : n = Len(log) + 1 \/ n \in 1 .. Len(log)
    BY <2>1
  <2> QED BY <1>3, <1>4, <2>1, <2>2 DEF ChainInv, SignedRows
<1>8. /\ batch' = [d \in Clients |-> IF d \in {c} THEN <<>> ELSE batch[d]]
      /\ pc' = [d \in Clients |-> IF d \in {c} THEN "idle" ELSE pc[d]]
  BY <1>2 DEF Gone
<1>9. \A d \in Clients : pc'[d] # "idle" => batch'[d] = batch[d] /\ pc'[d] = pc[d] /\ d # c
  BY <1>8
<1>10. \A d \in Clients : pc'[d] # "commit"
  <2>1. rowLock["tx_allocator"] = c
    BY <1>3 DEF Inv, TxInv, Allocated
  <2> QED BY <1>9, <2>1 DEF Inv, TxInv, Allocated
<1>11. batch' = [d \in Clients |-> batch'[d]]
  BY <1>8
<1> QED BY <1>6, <1>7, <1>9, <1>10, <1>11 DEF ChainInv

LEMMA ChainStep == Inv /\ ChainInv /\ SignedBatches /\ [Next]_vars => ChainInv'
<1> SUFFICES ASSUME Inv, ChainInv, SignedBatches, [Next]_vars PROVE ChainInv'
  OBVIOUS
<1>1. ASSUME UNCHANGED <<log, head, pc, batch>> PROVE ChainInv'
  BY <1>1 DEF ChainInv, ChainUnbroken
<1>2. ASSUME NEW p \in Procs, Opening(p) PROVE ChainInv'
  <2>1. UNCHANGED dataVars
    BY <1>2, OpeningKeepsSchema DEF Inv
  <2> QED BY <1>1, <2>1 DEF dataVars, dbVars, callVars
<1>3. ASSUME NEW p \in Procs, Crash(p) PROVE ChainInv'
  <2>1. Gone(Dying(p)) /\ UNCHANGED dbVars /\ Dying(p) \in SUBSET Clients
    BY <1>3, CrashIs DEF Inv, Dying
  <2> QED BY <2>1, GoneChains
<1>4. ASSUME NEW c \in Clients, Fails(c) PROVE ChainInv'
  <2>1. Gone({c}) /\ UNCHANGED dbVars /\ {c} \in SUBSET Clients
    BY <1>4, FailsIs DEF Inv
  <2> QED BY <2>1, GoneChains
<1>5. CASE UNCHANGED vars
  BY <1>1, <1>5 DEF vars, dbVars, callVars
<1>6. ASSUME NEW c \in Clients, Step(c) \/ TimedOut(c) \/ ConnectionLost(c) PROVE ChainInv'
  BY <1>4, <1>6, StepKeeps, KeepsChains, LandsChains
<1> QED BY <1>2, <1>3, <1>5, <1>6, StartChains DEF Next, Finished

(* However the writers of all processes interleave, fail to serialize, are *)
(* cut off or die, and whatever the rings of their processes hold: each    *)
(* audit row of the log has the hash of the audit row before it, and the   *)
(* head of the chain is the last one.                                      *)
THEOREM ChainStays == ASSUME SignedBatches PROVE Spec => []ChainUnbroken
<1>1. Init => Inv /\ ChainInv
  BY InitInv, ChainInit
<1>2. Inv /\ ChainInv /\ [Next]_vars => (Inv /\ ChainInv)'
  BY StepInv, ChainStep
<1>3. Inv /\ ChainInv => ChainUnbroken
  BY DEF ChainInv
<1> QED BY <1>1, <1>2, <1>3, PTL DEF Spec

=============================================================================
