------------------------------- MODULE Dosync -------------------------------
(***************************************************************************)
(* persistence.txn: the STM of persistence-os.  Threads run dosync bodies  *)
(* against a snapshot of the datom log and commit optimistically: inside   *)
(* store._lock the commit re-reads the log for datoms newer than the       *)
(* snapshot (any_datoms_since), re-applies the queued commutes and appends *)
(* everything in one batch.  Atoms and plain DB.transact calls write the   *)
(* same log.                                                               *)
(*                                                                         *)
(* The log is a set of asserts.  Tx ids follow the order of the log, so    *)
(* they stand for positions.  A reference is an entity id: that is what    *)
(* Ref equality and the conflict check go by.  Companion retracts are left *)
(* to DatomLog.tla: where no two asserts of a reference tie in valid_from, *)
(* which a clock that advances rules out here, they close asserts that are *)
(* not the newest.  Values are naturals, an unset reference reads as 0,    *)
(* every alter, commute and swap adds 1.                                   *)
(***************************************************************************)
EXTENDS Integers, FiniteSets

CONSTANTS
    Refs,          \* references
    Txns,          \* threads that call a dosync
    Swappers,      \* threads that use an atom
    RawWriters,    \* threads that call DB.transact
    TxnRefs,       \* references the dosync bodies use
    AtomRefs,      \* references that are atoms
    RawRefs,       \* references the plain transacts write
    ProcOf,        \* the process of a thread: store._lock is per process
    SingleShot,    \* threads using "with db.dosync()": a conflict raises
    Deadlined,     \* threads that passed a deadline
    Audited,       \* threads running under an active effect runtime
    MaxRetries,    \* max_retries of the decorator form
    MaxOps,        \* bound: operations in one body
    MaxIntents,    \* bound: effect intents queued by one body
    AssocVals,     \* bound: the values that are assigned
    Ticks          \* what one clock reading may add to the previous one

Threads == Txns \cup Swappers \cup RawWriters
Procs   == {ProcOf[t] : t \in Threads}
None    == -1      \* "no entry" in a dict keyed by reference
Free    == "free"  \* store._lock is not held

ASSUME ConstantsOK ==
    /\ TxnRefs \subseteq Refs /\ AtomRefs \subseteq Refs
    /\ RawRefs \subseteq Refs
    /\ Txns \cap Swappers = {} /\ (Txns \cup Swappers) \cap RawWriters = {}
    /\ ProcOf \in [Threads -> Procs]
    /\ SingleShot \subseteq Txns /\ Deadlined \subseteq Txns \ SingleShot
    /\ Audited \subseteq Txns
    /\ MaxRetries \in Nat /\ MaxOps \in Nat /\ MaxIntents \in Nat
    /\ AssocVals \subseteq Nat
    /\ Ticks \subseteq Nat
    /\ Free \notin Threads

VARIABLES
    now,           \* the last reading of the clock
    log,           \* the asserts of the datom log
    lastTx,        \* the last tx id allocated
    dead,          \* the tx ids mark_invalidated was called with
    lock,          \* per process, the holder of store._lock
    pc,            \* where each thread is
    attempt,       \* Transaction.attempt: conflicts met so far
    tStart,        \* Transaction.t_start; the "now" of a plain transact
    readSet,       \* Transaction.read_set, with the value each read returned
    writeSet,      \* Transaction.write_set
    queued,        \* Transaction.commute_log: entries per reference
    intents,       \* length of Transaction.effect_intent_log
    ops,           \* operations the body has run
    from,          \* valid_from of the facts built for the commit
    facts,         \* the values the commit will append
    marks,         \* the tx ids a plain transact will invalidate
    emitted,       \* the effects performed, in order
    last           \* history: what the latest transaction did

txnVars   == <<readSet, writeSet, queued, intents, ops>>
storeVars == <<log, lastTx, dead, last>>
outVars   == <<from, facts, marks, emitted>>
vars      == <<now, storeVars, lock, pc, attempt, tStart, txnVars, outVars>>

NoEntry == [r \in Refs |-> None]
Zero    == [r \in Refs |-> 0]
Dicts   == [Refs -> Nat \cup {None}]
Datoms  == [e : Refs, v : Nat, tx : Nat, time : Nat, from : Nat, by : Threads]

Pcs == {"start", "body", "build", "locked", "raw", "mark", "replay",
        "committed", "exhausted", "failed", "effect_failed"}

TypeOK ==
    /\ now \in Nat /\ lastTx \in Nat
    /\ log \subseteq Datoms /\ dead \subseteq Nat
    /\ lock \in [Procs -> Threads \cup {Free}]
    /\ pc \in [Threads -> Pcs]
    /\ attempt \in [Threads -> Nat] /\ tStart \in [Threads -> Nat]
    /\ readSet \in [Threads -> Dicts] /\ writeSet \in [Threads -> Dicts]
    /\ queued \in [Threads -> [Refs -> Nat]]
    /\ intents \in [Threads -> Nat] /\ ops \in [Threads -> Nat]
    /\ from \in [Threads -> Nat] /\ facts \in [Threads -> Dicts]
    /\ marks \in [Threads -> SUBSET Nat] /\ emitted \in [Threads -> Nat]
    /\ last \in [seen : Dicts, wrote : Dicts, added : [Refs -> Nat]]
-----------------------------------------------------------------------------
(* DBView.entity: the assert with the greatest (valid_from, tx).           *)
Beats(d, x) == x.from < d.from \/ (x.from = d.from /\ x.tx < d.tx)

IsNewest(d, ds) == \A x \in ds : x = d \/ Beats(d, x)

Newest(ds) == CHOOSE d \in ds : IsNewest(d, ds)

ValueIn(ds) == IF ds = {} THEN 0 ELSE Newest(ds).v

On(r)         == {d \in log : d.e = r}
Current(r)    == ValueIn(On(r))
AsOf_Live(r, time) == Current(r)      \* seeded fault: no snapshot
AsOf(r, time) == ValueIn({d \in On(r) : d.time <= time})

(* Auto-retraction and atoms look for something else: the last assert in   *)
(* the log that is not invalidated.  mark_invalidated(tx) invalidates every*)
(* assert of that tx, the ones on other references too.                    *)
Open(r) == {d \in On(r) : d.tx \notin dead}

IsLast(d, ds) == \A x \in ds : x.tx <= d.tx

LastIn(ds) == CHOOSE d \in ds : IsLast(d, ds)

AtomValue(r) == IF Open(r) = {} THEN 0 ELSE LastIn(Open(r)).v

(* The tx ids that an overwrite of the references rs invalidates.          *)
Superseded(rs) == {LastIn(Open(r)).tx : r \in {x \in rs : Open(x) # {}}}

(* conflict.any_datoms_since: strictly newer than the snapshot.            *)
Touched_ReadsOnly(t) ==               \* seeded fault: blind writes unchecked
    {r \in Refs : readSet[t][r] # None}

Touched_WritesOnly(t) ==              \* seeded fault: reads are not validated
    {r \in Refs : writeSet[t][r] # None}

Touched(t) == {r \in Refs : readSet[t][r] # None \/ writeSet[t][r] # None}

AnyDatomsSince(time, rs) == \E d \in log : d.e \in rs /\ d.time > time

(* What the body sees: its own write, else the snapshot with its own       *)
(* commutes on top.                                                        *)
BodyValue(t, r) == IF writeSet[t][r] # None THEN writeSet[t][r]
                   ELSE AsOf(r, tStart[t]) + queued[t][r]

(* read_set after a deref of r.  A value that is the body's own write says *)
(* nothing about the snapshot, and r is in the write_set anyway.           *)
Reading(t, r) == IF writeSet[t][r] # None \/ readSet[t][r] # None
                 THEN readSet
                 ELSE [readSet EXCEPT ![t][r] = AsOf(r, tStart[t])]
-----------------------------------------------------------------------------
Init ==
    /\ now = 0 /\ log = {} /\ lastTx = 0 /\ dead = {}
    /\ lock = [p \in Procs |-> Free]
    /\ pc = [t \in Threads |-> "start"]
    /\ attempt = [t \in Threads |-> 0]
    /\ tStart = [t \in Threads |-> 0]
    /\ readSet = [t \in Threads |-> NoEntry]
    /\ writeSet = [t \in Threads |-> NoEntry]
    /\ queued = [t \in Threads |-> Zero]
    /\ intents = [t \in Threads |-> 0]
    /\ ops = [t \in Threads |-> 0]
    /\ from = [t \in Threads |-> 0]
    /\ facts = [t \in Threads |-> NoEntry]
    /\ marks = [t \in Threads |-> {}]
    /\ emitted = [t \in Threads |-> 0]
    /\ last = [seen |-> NoEntry, wrote |-> NoEntry, added |-> Zero]

ReadClock == \E k \in Ticks : now' = now + k

Goto(t, to) == pc' = [pc EXCEPT ![t] = to]

MayRetry(t) == attempt[t] <= (IF t \in SingleShot THEN 0 ELSE MaxRetries)

Begin_StaleSnapshot(t) ==             \* seeded fault: t_start kept on a retry
    /\ t \in Txns /\ pc[t] = "start" /\ MayRetry(t)
    /\ ReadClock
    /\ tStart' = IF attempt[t] = 0 THEN [tStart EXCEPT ![t] = now'] ELSE tStart
    /\ readSet' = [readSet EXCEPT ![t] = NoEntry]
    /\ writeSet' = [writeSet EXCEPT ![t] = NoEntry]
    /\ queued' = [queued EXCEPT ![t] = Zero]
    /\ intents' = [intents EXCEPT ![t] = 0]
    /\ ops' = [ops EXCEPT ![t] = 0]
    /\ Goto(t, "body")
    /\ UNCHANGED <<storeVars, lock, attempt, outVars>>

(* The top of the retry loop: a fresh snapshot and a fresh Transaction.    *)
Begin(t) ==
    /\ t \in Txns /\ pc[t] = "start" /\ MayRetry(t)
    /\ ReadClock
    /\ tStart' = [tStart EXCEPT ![t] = now']
    /\ readSet' = [readSet EXCEPT ![t] = NoEntry]
    /\ writeSet' = [writeSet EXCEPT ![t] = NoEntry]
    /\ queued' = [queued EXCEPT ![t] = Zero]
    /\ intents' = [intents EXCEPT ![t] = 0]
    /\ ops' = [ops EXCEPT ![t] = 0]
    /\ Goto(t, "body")
    /\ UNCHANGED <<storeVars, lock, attempt, outVars>>

(* TxnRetryExhausted.                                                      *)
Exhaust(t) ==
    /\ t \in Txns /\ pc[t] = "start" /\ ~MayRetry(t)
    /\ Goto(t, "exhausted")
    /\ UNCHANGED <<now, storeVars, lock, attempt, tStart, txnVars, outVars>>

(* TxnDeadlineExceeded, tested between attempts only.                      *)
MissDeadline(t) ==
    /\ pc[t] = "start" /\ t \in Deadlined
    /\ Goto(t, "failed")
    /\ UNCHANGED <<now, storeVars, lock, attempt, tStart, txnVars, outVars>>

(* One operation of the body; the store is not touched.                    *)
InBody(t) ==
    /\ pc[t] = "body" /\ ops[t] < MaxOps
    /\ ops' = [ops EXCEPT ![t] = @ + 1]
    /\ UNCHANGED <<now, storeVars, lock, pc, attempt, tStart, outVars>>

(* tx.deref, and tx.ensure, which derefs and marks the reference for the   *)
(* provenance of the commit.                                               *)
Deref(t, r) ==
    /\ InBody(t)
    /\ readSet' = Reading(t, r)
    /\ UNCHANGED <<writeSet, queued, intents>>

Assoc(t, r, v) ==
    /\ InBody(t)
    /\ writeSet' = [writeSet EXCEPT ![t][r] = v]
    /\ UNCHANGED <<readSet, queued, intents>>

Alter(t, r) ==
    /\ InBody(t)
    /\ readSet' = Reading(t, r)
    /\ writeSet' = [writeSet EXCEPT ![t][r] = BodyValue(t, r) + 1]
    /\ UNCHANGED <<queued, intents>>

(* tx.commute reads the snapshot without entering the read_set.            *)
Commute(t, r) ==
    /\ InBody(t)
    /\ queued' = [queued EXCEPT ![t][r] = @ + 1]
    /\ UNCHANGED <<readSet, writeSet, intents>>

Effect_Now(t) ==                      \* seeded fault: not queued but performed
    /\ pc[t] = "body" /\ ops[t] < MaxOps
    /\ ops' = [ops EXCEPT ![t] = @ + 1]
    /\ emitted' = [emitted EXCEPT ![t] = @ + 1]
    /\ UNCHANGED <<now, storeVars, lock, pc, attempt, tStart, from, facts, marks,
                   readSet, writeSet, queued, intents>>

Effect(t) ==
    /\ InBody(t) /\ intents[t] < MaxIntents
    /\ intents' = [intents EXCEPT ![t] = @ + 1]
    /\ UNCHANGED <<readSet, writeSet, queued>>

(* The body raises, or a write fails its spec: nothing is committed.       *)
Raise(t) ==
    /\ pc[t] = "body"
    /\ Goto(t, "failed")
    /\ UNCHANGED <<now, storeVars, lock, attempt, tStart, txnVars, outVars>>

(* Commit gate 0: queued effects but no runtime to perform them.           *)
AuditStackMissing(t) ==
    /\ pc[t] = "body" /\ intents[t] > 0 /\ t \notin Audited
    /\ Goto(t, "failed")
    /\ UNCHANGED <<now, storeVars, lock, attempt, tStart, txnVars, outVars>>

(* The write facts are stamped with valid_from before the lock is taken.   *)
Build(t) ==
    /\ pc[t] = "body" /\ (intents[t] > 0 => t \in Audited)
    /\ ReadClock
    /\ from' = [from EXCEPT ![t] = now']
    /\ Goto(t, "build")
    /\ UNCHANGED <<storeVars, lock, attempt, tStart, txnVars, facts, marks,
                   emitted>>

LockFree(t) == lock[ProcOf[t]] = Free
Acquire(t)  == LockFree(t) /\ lock' = [lock EXCEPT ![ProcOf[t]] = t]
Release_Not(t) == UNCHANGED lock      \* seeded fault: the lock is kept
Release(t)  == lock' = [lock EXCEPT ![ProcOf[t]] = Free]

Conflict_CountsDown(t) ==             \* seeded fault: attempt -= 1
    /\ pc[t] = "build" /\ LockFree(t)
    /\ AnyDatomsSince(tStart[t], Touched(t))
    /\ attempt' = [attempt EXCEPT ![t] = @ - 1]
    /\ Goto(t, "start")
    /\ UNCHANGED <<now, storeVars, lock, tStart, txnVars, outVars>>

(* The conflict check finds a newer datom: release the lock and retry.     *)
Conflict(t) ==
    /\ pc[t] = "build" /\ LockFree(t)
    /\ AnyDatomsSince(tStart[t], Touched(t))
    /\ attempt' = [attempt EXCEPT ![t] = @ + 1]
    /\ Goto(t, "start")
    /\ UNCHANGED <<now, storeVars, lock, tStart, txnVars, outVars>>

(* The value the commit will write, None when it leaves r alone.  Commutes *)
(* are re-applied to the latest value unless the body also wrote r.        *)
ToWrite_Snapshot(t, r) ==             \* seeded fault: commutes on the snapshot
    IF writeSet[t][r] # None THEN writeSet[t][r]
    ELSE IF queued[t][r] > 0 THEN AsOf(r, tStart[t]) + queued[t][r]
    ELSE None

ToWrite(t, r) == IF writeSet[t][r] # None THEN writeSet[t][r]
                 ELSE IF queued[t][r] > 0 THEN Current(r) + queued[t][r]
                 ELSE None

(* The check passes; the lock stays held until the batch is appended.      *)
Check(t) ==
    /\ pc[t] = "build"
    /\ ~AnyDatomsSince(tStart[t], Touched(t))
    /\ Acquire(t)
    /\ facts' = [facts EXCEPT ![t] = [r \in Refs |-> ToWrite(t, r)]]
    /\ Goto(t, "locked")
    /\ UNCHANGED <<now, storeVars, attempt, tStart, txnVars, from, marks,
                   emitted>>

AtomWrite_Unlocked(t, r, seen, v) ==  \* seeded fault: read before locking
    /\ LockFree(t)
    /\ ReadClock
    /\ from' = [from EXCEPT ![t] = now']
    /\ readSet' = [readSet EXCEPT ![t][r] = seen]
    /\ writeSet' = [writeSet EXCEPT ![t][r] = v]
    /\ facts' = [facts EXCEPT ![t][r] = v]
    /\ Goto(t, "locked")
    /\ UNCHANGED <<storeVars, lock, attempt, tStart, queued, intents, ops, marks,
                   emitted>>

(* An atom is read and written under one hold of the lock.                 *)
AtomWrite(t, r, seen, v) ==
    /\ Acquire(t)
    /\ ReadClock
    /\ from' = [from EXCEPT ![t] = now']
    /\ readSet' = [readSet EXCEPT ![t][r] = seen]
    /\ writeSet' = [writeSet EXCEPT ![t][r] = v]
    /\ facts' = [facts EXCEPT ![t][r] = v]
    /\ Goto(t, "locked")
    /\ UNCHANGED <<storeVars, attempt, tStart, queued, intents, ops, marks,
                   emitted>>

Swap(t, r) ==
    /\ t \in Swappers /\ pc[t] = "start"
    /\ AtomWrite(t, r, AtomValue(r), AtomValue(r) + 1)

Reset(t, r, v) ==
    /\ t \in Swappers /\ pc[t] = "start"
    /\ AtomWrite(t, r, None, v)

CompareAndSet(t, r, old, v) ==
    /\ t \in Swappers /\ pc[t] = "start" /\ AtomValue(r) = old
    /\ AtomWrite(t, r, old, v)

(* db.atom(eid, initial): only where there is no open value yet.           *)
NewAtom(t, r, v) ==
    /\ t \in Swappers /\ pc[t] = "start" /\ Open(r) = {}
    /\ AtomWrite(t, r, None, v)

(* compare_and_set returns False, db.atom raises ValueError.               *)
AtomRefused(t, r, old) ==
    /\ t \in Swappers /\ pc[t] = "start" /\ LockFree(t)
    /\ AtomValue(r) # old \/ Open(r) # {}
    /\ Goto(t, "failed")
    /\ UNCHANGED <<now, storeVars, lock, attempt, tStart, txnVars, outVars>>

ValidFrom(t, r) == IF writeSet[t][r] # None THEN from[t] ELSE now'

(* transact_batch refuses an assert that starts before the one it replaces *)
Retroactive(t) == \E r \in Refs :
    facts[t][r] # None /\ Open(r) # {} /\ ValidFrom(t, r) < LastIn(Open(r)).from

Written(t) == {r \in Refs : facts[t][r] # None}

(* allocate_and_append: one tx id and one tx_time for the whole batch.     *)
AppendBatch(t, time) ==
    /\ log' = log \cup
         {[e |-> r, v |-> facts[t][r], tx |-> lastTx + 1, time |-> time,
           from |-> ValidFrom(t, r), by |-> t] : r \in Written(t)}
    /\ lastTx' = lastTx + 1
    /\ last' = [seen |-> readSet[t], wrote |-> writeSet[t], added |-> queued[t]]

(* transact_batch, mark_invalidated included; then the lock is released.   *)
Append(t) ==
    /\ pc[t] = "locked"
    /\ ReadClock
    /\ IF Retroactive(t)
       THEN Goto(t, "failed") /\ UNCHANGED storeVars
       ELSE /\ AppendBatch(t, now')
            /\ dead' = dead \cup Superseded(Written(t))
            /\ Goto(t, IF intents[t] > 0 THEN "replay" ELSE "committed")
    /\ Release(t)
    /\ UNCHANGED <<attempt, tStart, txnVars, outVars>>

(* A commute or the function of a swap raises, or the store refuses the    *)
(* batch: nothing is appended, the with statement gives the lock back.     *)
FailLocked(t) ==
    /\ pc[t] = "locked"
    /\ Release(t)
    /\ Goto(t, "failed")
    /\ UNCHANGED <<now, storeVars, attempt, tStart, txnVars, outVars>>

(* _replay_effect_intents: after the commit, without the lock, one by one. *)
Perform(t) ==
    /\ pc[t] = "replay"
    /\ emitted' = [emitted EXCEPT ![t] = @ + 1]
    /\ IF emitted'[t] = intents[t] THEN Goto(t, "committed") ELSE UNCHANGED pc
    /\ UNCHANGED <<now, storeVars, lock, attempt, tStart, txnVars, from, facts,
                   marks>>

PerformRaises_Retry(t) ==             \* seeded fault: what committed is retried
    /\ pc[t] = "replay"
    /\ Goto(t, "start")
    /\ UNCHANGED <<now, storeVars, lock, attempt, tStart, txnVars, outVars>>

(* An effect raises: the caller sees the exception, the facts stay.        *)
PerformRaises(t) ==
    /\ pc[t] = "replay"
    /\ Goto(t, "effect_failed")
    /\ UNCHANGED <<now, storeVars, lock, attempt, tStart, txnVars, outVars>>

(* DB.transact outside any dosync: tx_time, valid_from and the asserts to  *)
(* replace are read first; the append and each mark_invalidated come later *)
(* and take the lock only for themselves.                                  *)
RawBegin(t, r, v) ==
    /\ t \in RawWriters /\ pc[t] = "start"
    /\ ReadClock
    /\ tStart' = [tStart EXCEPT ![t] = now']
    /\ from' = [from EXCEPT ![t] = now']
    /\ writeSet' = [writeSet EXCEPT ![t][r] = v]
    /\ facts' = [facts EXCEPT ![t][r] = v]
    /\ marks' = [marks EXCEPT ![t] = Superseded({r})]
    /\ Goto(t, "raw")
    /\ UNCHANGED <<storeVars, lock, attempt, readSet, queued, intents, ops,
                   emitted>>

RawAppend(t) ==
    /\ pc[t] = "raw" /\ LockFree(t)
    /\ AppendBatch(t, tStart[t])
    /\ Goto(t, "mark")
    /\ UNCHANGED <<now, dead, lock, attempt, tStart, txnVars, outVars>>

RawMark(t) ==
    /\ pc[t] = "mark" /\ LockFree(t)
    /\ dead' = dead \cup marks[t]
    /\ Goto(t, "committed")
    /\ UNCHANGED <<now, log, lastTx, last, lock, attempt, tStart, txnVars, outVars>>

Body(t) == \/ \E r \in TxnRefs : Deref(t, r) \/ Alter(t, r) \/ Commute(t, r)
           \/ \E r \in TxnRefs, v \in AssocVals : Assoc(t, r, v)
           \/ Effect(t)

AtomCall(t) ==
    \/ \E r \in AtomRefs : Swap(t, r)
    \/ \E r \in AtomRefs, v \in AssocVals : Reset(t, r, v) \/ NewAtom(t, r, v)
    \/ \E r \in AtomRefs, old \in AssocVals \cup {0} :
          \/ AtomRefused(t, r, old)
          \/ \E v \in AssocVals : CompareAndSet(t, r, old, v)

Step(t) == \/ Begin(t) \/ Exhaust(t) \/ MissDeadline(t)
           \/ Body(t) \/ Raise(t) \/ AuditStackMissing(t) \/ Build(t)
           \/ Conflict(t) \/ Check(t) \/ Append(t) \/ FailLocked(t)
           \/ Perform(t) \/ PerformRaises(t)
           \/ AtomCall(t)
           \/ \E r \in RawRefs, v \in AssocVals : RawBegin(t, r, v)
           \/ RawAppend(t) \/ RawMark(t)

Ended(t) == pc[t] \in {"committed", "exhausted", "failed", "effect_failed"}

(* Every call has returned or raised.                                      *)
Terminating == (\A t \in Threads : Ended(t)) /\ UNCHANGED vars

Next == (\E t \in Threads : Step(t)) \/ Terminating

(* Threads are preemptively scheduled, and an RLock is granted to someone  *)
(* who waits for it: no thread that can move is passed over for ever.      *)
Fairness == \A t \in Threads : WF_vars(Step(t))

Spec     == Init /\ [][Next]_vars
FairSpec == Spec /\ Fairness
-----------------------------------------------------------------------------
(* Dosync bodies and atoms behave as one array of cells updated by whole   *)
(* transactions: what a body read is still true when its batch lands, and  *)
(* its writes and commutes apply to that very state.  This is what the     *)
(* check under store._lock in _commit_attempt is for.                      *)
Serial == INSTANCE SerialStore
            WITH kv <- [r \in Refs |-> Current(r)], last <- last

SerialSpec == Serial!Spec

(* Reading a reference again in the same body gives the same value: the    *)
(* snapshot as_of(t_start) does not move under a running body.             *)
SnapshotStable ==
    \A t \in Txns, r \in Refs :
        pc[t] \in {"body", "build", "locked"} /\ readSet[t][r] # None
            => readSet[t][r] = AsOf(r, tStart[t])

(* A dosync or atom call that raised before its append left no datom, and  *)
(* one that returned left at most one tx, whatever it went through before: *)
(* attempts that were rolled back leave nothing in the log.                *)
AllOrNothing ==
    /\ \A d \in log : pc[d.by] \in {"mark", "replay", "committed", "effect_failed"}
    /\ \A d, x \in log : d.by = x.by => d.tx = x.tx
    /\ \A d \in log, r \in Refs :
          (facts[d.by][r] # None) <=> (\E x \in log : x.by = d.by /\ x.e = r)

(* Effects are performed for committed transactions only, never for an     *)
(* attempt that was retried or abandoned, and each exactly once: a call    *)
(* that returned normally performed all its intents.                       *)
EffectsFollowCommit ==
    \A t \in Threads :
        /\ pc[t] \notin {"replay", "committed", "effect_failed"}
              => emitted[t] = 0
        /\ pc[t] = "committed" => emitted[t] = intents[t]
        /\ pc[t] \in {"replay", "effect_failed"} => emitted[t] < intents[t]

(* Optimistic commits make progress as a whole: each conflict a thread has *)
(* met is another transaction that got through, so the number of attempts  *)
(* is bounded by the work done by the others and never by a retry storm.   *)
RetriesArePaidFor ==
    \A t \in Txns :
        attempt[t] + (IF \E d \in log : d.by = t THEN 1 ELSE 0) <= lastTx

(* A batch is never refused as retroactive once the conflict check passed: *)
(* valid_from was read before the lock, yet nothing on the references the  *)
(* batch assigns can be younger, or the check would have seen it.          *)
NeverRetroactive ==
    \A t \in Threads, r \in Refs :
        pc[t] = "locked" /\ writeSet[t][r] # None
            => \A d \in On(r) : d.from <= from[t]

(* tx.ensure: when a transaction that writes lands, the references it only *)
(* read still have the values it read.                                     *)
EnsureHolds ==
    [][last' # last /\ (\E r \in Refs : last'.wrote[r] # None)
          => \A r \in Refs : \/ last'.seen[r] \in {None, Current(r)}
                             \/ last'.wrote[r] # None]_vars

(* Atom.swap and Atom.compare_and_set read "the latest value of this atom, *)
(* or None if never written" (Atom.deref).                                 *)
AtomReadsLatest ==
    \A t \in Swappers, r \in Refs :
        pc[t] = "locked" => readSet[t][r] \in {None, Current(r)}

(* Every call returns or raises: retries are bounded and the lock is given *)
(* back on every path.                                                     *)
EveryCallEnds == <>(\A t \in Threads : Ended(t))
=============================================================================
