------------------------------ MODULE PgStore ------------------------------
(***************************************************************************)
(* persistence.store: the datom log on Postgres, shared by processes.      *)
(* Opening a store runs the pending migrations; a write allocates a tx id, *)
(* rebinds its audit datoms to the head of the audit chain and inserts its *)
(* batch in one SERIALIZABLE transaction, which is tried again when it     *)
(* fails to serialize.                                                     *)
(*                                                                         *)
(* Of Postgres the module takes what the code relies on: a row lock lasts  *)
(* until its transaction ends; SELECT ... FOR UPDATE fails to serialize    *)
(* when the row was updated after the snapshot, which the transaction's    *)
(* first statement takes before it waits; an uncommitted transaction       *)
(* leaves no trace; commits may fail to serialize.  The log is a sequence  *)
(* of batches; the hash of an audit entry is its content with its          *)
(* prev_hash.  Stamps (mark_invalidated) are in DatomLog.tla.              *)
(***************************************************************************)
EXTENDS Integers, SequencesExt

CONSTANTS
    Clients,       \* threads that write
    ProcOf,        \* the process of each: one PostgresStore each
    Known,         \* per process, how many migrations its package ships
    Batches,       \* what callers write: sequences of [key, kind]
    PoolMax,       \* pool_max: connections of a process
    MaxRetries,    \* max_retries of transact_serializable
    LockTimeouts,  \* whether the pool sets lock_timeout
    MaxCalls,      \* bound: calls of all clients
    MaxCrashes     \* bound: crashes of processes

(* What a call is told.                                                    *)
Open    == <<"open">>
Refused == <<"refused">>
Lost    == <<"lost">>
Told(n) == <<"tx", n>>

Procs == {ProcOf[c] : c \in Clients}
Free  == "free"
Empty == <<>>      \* last_hash = '': prev_hash is None
Kinds == {"plain", "audit", "bare"}   \* bare: an audit attribute, no :signature

ASSUME PgConstantsOK ==
    /\ Known \in [Procs -> Nat \ {0, 1}] /\ PoolMax \in Nat \ {0}
    /\ MaxRetries \in Nat /\ MaxCalls \in Nat /\ MaxCrashes \in Nat
    /\ Batches # {} /\ \A b \in Batches : b # <<>>
    /\ Free \notin Clients /\ LockTimeouts \in BOOLEAN

VARIABLES
    historyTable,  \* whether _migrations exists
    history,       \* its rows: migrations recorded, in the order of commit
    proc,          \* per process: closed, creating, reading, migrating, open, failed
    applied,       \* per process, the names _applied_names returned
    current,       \* per process, the migration in its open transaction, or 0
    log,           \* datom_log: [call, tx, rows], in the order of seq
    nextTx,        \* tx_allocator.next_tx
    head,          \* audit_chain_lock: [seq, hash]
    rowLock,       \* holder of each of the two row locks
    mutex,         \* per process, the holder of PostgresStore._lock
    ring,          \* per process, id of the last audit entry it built
    pc, call, batch, attempt, seen, tx,     \* per client, see Start
    answer,        \* history: what each call was told
    crashes

schemaVars == <<historyTable, history, proc, applied, current>>
dbVars     == <<log, nextTx, head>>
callVars   == <<call, batch, attempt>>
vars == <<schemaVars, dbVars, rowLock, mutex, ring, pc, callVars, seen, tx, answer, crashes>>

ProcStates == {"closed", "creating", "reading", "migrating", "open", "failed"}
NoSnapshot == [tx |-> 0, seq |-> 0]
Rows == {"tx_allocator", "audit_chain_lock"}
Pcs  == {"idle", "lock", "pool", "allocator", "chain", "insert", "commit", "backoff"}
InTransaction == {"allocator", "chain", "insert", "commit"}

TypeOK ==
    /\ history \in Seq(Nat) /\ proc \in [Procs -> ProcStates]
    /\ nextTx \in Nat \ {0} /\ head.seq \in Nat
    /\ rowLock \in [Rows -> Clients \cup {Free}] /\ mutex \in [Procs -> Clients \cup {Free}]
    /\ pc \in [Clients -> Pcs] /\ attempt \in [Clients -> 0 .. MaxRetries]
    /\ call \in [Clients -> Nat] /\ tx \in [Clients -> Nat]
    /\ \A i \in DOMAIN answer :
          answer[i] \in {Open, Refused, Lost} \/ \E n \in 1 .. MaxCalls : answer[i] = Told(n)
    /\ \A p \in Procs : Cardinality({c \in Clients : ProcOf[c] = p /\ pc[c] \in InTransaction})
                           <= PoolMax
-----------------------------------------------------------------------------
Init ==
    /\ historyTable = FALSE /\ history = <<>>
    /\ proc = [p \in Procs |-> "closed"] /\ applied = [p \in Procs |-> {}]
    /\ current = [p \in Procs |-> 0]
    /\ log = <<>> /\ nextTx = 1 /\ head = [seq |-> 0, hash |-> Empty]
    /\ rowLock = [r \in Rows |-> Free] /\ mutex = [p \in Procs |-> Free]
    /\ ring = [p \in Procs |-> Empty]
    /\ pc = [c \in Clients |-> "idle"] /\ call = [c \in Clients |-> 0]
    /\ batch = [c \in Clients |-> <<>>] /\ attempt = [c \in Clients |-> 0]
    /\ seen = [c \in Clients |-> NoSnapshot] /\ tx = [c \in Clients |-> 0]
    /\ answer = <<>> /\ crashes = 0

dataVars == <<dbVars, rowLock, mutex, ring, pc, callVars, seen, tx, answer, crashes>>

(* PostgresStore(dsn): the history table first, in a transaction of its    *)
(* own.  CREATE TABLE IF NOT EXISTS fails for the second of two that both  *)
(* found it missing.                                                       *)
OpenStore(p) ==
    /\ proc[p] \in {"closed", "failed"}
    /\ proc' = [proc EXCEPT ![p] = IF historyTable THEN "reading" ELSE "creating"]
    /\ UNCHANGED <<historyTable, history, applied, current, dataVars>>

EnsureHistoryTable(p) ==
    /\ proc[p] = "creating"
    /\ historyTable' = TRUE
    /\ proc' = [proc EXCEPT ![p] = IF historyTable THEN "failed" ELSE "reading"]
    /\ UNCHANGED <<history, applied, current, dataVars>>

AppliedNames(p) ==
    /\ proc[p] = "reading"
    /\ applied' = [applied EXCEPT ![p] = ToSet(history)]
    /\ proc' = [proc EXCEPT ![p] = "migrating"]
    /\ UNCHANGED <<historyTable, history, current, dataVars>>

Pending(p) == (1 .. Known[p]) \ applied[p]

ApplyOne_IfNotExists(p) ==      \* seeded fault: the row is not unique
    /\ proc[p] = "migrating" /\ current[p] = 0 /\ Pending(p) # {}
    /\ current' = [current EXCEPT ![p] = Min(Pending(p))]
    /\ UNCHANGED <<historyTable, history, proc, applied, dataVars>>

(* The body of the first pending migration and its history row, in one     *)
(* transaction; the row of another process that is not yet committed makes *)
(* it wait, a committed one is a UniqueViolation that leaves __init__.     *)
ApplyOne(p) ==
    /\ proc[p] = "migrating" /\ current[p] = 0 /\ Pending(p) # {}
    /\ LET m == Min(Pending(p)) IN
       /\ \A q \in Procs : current[q] # m
       /\ IF m \in ToSet(history)
          THEN proc' = [proc EXCEPT ![p] = "failed"] /\ UNCHANGED current
          ELSE current' = [current EXCEPT ![p] = m] /\ UNCHANGED proc
    /\ UNCHANGED <<historyTable, history, applied, dataVars>>

CommitMigration(p) ==
    /\ current[p] # 0
    /\ history' = Append(history, current[p])
    /\ applied' = [applied EXCEPT ![p] = @ \cup {current[p]}]
    /\ current' = [current EXCEPT ![p] = 0]
    /\ UNCHANGED <<historyTable, proc, dataVars>>

Migrated(p) ==
    /\ proc[p] = "migrating" /\ current[p] = 0 /\ Pending(p) = {}
    /\ proc' = [proc EXCEPT ![p] = "open"]
    /\ UNCHANGED <<historyTable, history, applied, current, dataVars>>
-----------------------------------------------------------------------------
Audits(rows) == {i \in DOMAIN rows : rows[i].kind # "plain"}

Canonical(rows) == {i \in DOMAIN rows : rows[i].kind = "audit"}

(* What DB.transact makes of its facts: a plain fact whose key is in the   *)
(* log gets a companion retract, with the same entity and attribute.       *)
InLog(key) == \E n \in DOMAIN log : \E i \in DOMAIN log[n].rows : log[n].rows[i].key = key

WithCompanions(rows) ==
    FlattenSeq([i \in DOMAIN rows |-> IF rows[i].kind = "plain" /\ InLog(rows[i].key)
                                      THEN <<rows[i], rows[i]>> ELSE <<rows[i]>>])

(* The rows of call k as its caller builds them.  emit_repl_op_audit puts  *)
(* its entry into the ring of the process before it is stored, and takes   *)
(* prev_hash from the ring; the entity of an audit row is made of its hash.*)
Built(rows, k, p) ==
    LET prev[i \in 0 .. Len(rows)] ==
            IF i = 0 THEN ring[p]
            ELSE IF rows[i].kind = "audit" THEN <<k, i, prev[i - 1]>> ELSE prev[i - 1]
    IN  [i \in DOMAIN rows |->
            [key |-> IF rows[i].kind = "audit" THEN <<k, i>> ELSE rows[i].key,
             kind |-> rows[i].kind, id |-> <<k, i>>, prev |-> prev[i - 1], sig |-> prev[i]]]

(* A call: DB.transact, through allocate_and_append, which holds _lock all *)
(* the time, or persist_repl_audit, straight to transact_serializable.     *)
Start(c, rows) ==
    /\ pc[c] = "idle" /\ proc[ProcOf[c]] = "open" /\ Len(answer) < MaxCalls
    /\ LET k == Len(answer) + 1  b == Built(WithCompanions(rows), k, ProcOf[c]) IN
       /\ batch' = [batch EXCEPT ![c] = b]
       /\ call'  = [call EXCEPT ![c] = k]
       /\ ring'  = [ring EXCEPT ![ProcOf[c]] = Last(b).sig]
    /\ answer' = Append(answer, Open)
    /\ attempt' = [attempt EXCEPT ![c] = 0]
    /\ pc' = [pc EXCEPT ![c] = IF rows[1].kind = "audit" THEN "pool" ELSE "lock"]
    /\ UNCHANGED <<schemaVars, dbVars, rowLock, mutex, seen, tx, crashes>>

TakeMutex(c) ==
    /\ pc[c] = "lock" /\ mutex[ProcOf[c]] = Free
    /\ mutex' = [mutex EXCEPT ![ProcOf[c]] = c]
    /\ pc' = [pc EXCEPT ![c] = "pool"]
    /\ UNCHANGED <<schemaVars, dbVars, rowLock, ring, callVars, seen, tx, answer, crashes>>

Connections_Locking(p) ==           \* seeded fault: those that hold a row lock
    {c \in Clients : ProcOf[c] = p /\ \E r \in Rows : rowLock[r] = c}

(* A connection of the pool, and the first statement: it takes the         *)
(* transaction's snapshot and then waits for the row.                      *)
Connections(p) == {c \in Clients : ProcOf[c] = p /\ pc[c] \in InTransaction}

Connect(c) ==
    /\ pc[c] = "pool" /\ Cardinality(Connections(ProcOf[c])) < PoolMax
    /\ seen' = [seen EXCEPT ![c] = [tx |-> nextTx, seq |-> head.seq]]
    /\ pc' = [pc EXCEPT ![c] = "allocator"]
    /\ UNCHANGED <<schemaVars, dbVars, rowLock, mutex, ring, callVars, tx, answer, crashes>>

(* What happens to the locks when the transaction of a client ends.        *)
Unlocked(C) == [r \in Rows |-> IF rowLock[r] \in C THEN Free ELSE rowLock[r]]

(* The calls of the clients in C are over: their locals, their locks.      *)
Gone(C) ==
    /\ pc' = [c \in Clients |-> IF c \in C THEN "idle" ELSE pc[c]]
    /\ call' = [c \in Clients |-> IF c \in C THEN 0 ELSE call[c]]
    /\ batch' = [c \in Clients |-> IF c \in C THEN <<>> ELSE batch[c]]
    /\ attempt' = [c \in Clients |-> IF c \in C THEN 0 ELSE attempt[c]]
    /\ seen' = [c \in Clients |-> IF c \in C THEN NoSnapshot ELSE seen[c]]
    /\ tx' = [c \in Clients |-> IF c \in C THEN 0 ELSE tx[c]]
    /\ rowLock' = Unlocked(C)
    /\ mutex' = [p \in Procs |-> IF mutex[p] \in C THEN Free ELSE mutex[p]]

(* The call ends: everything is rolled back and the error is raised.       *)
Raise(c, how) ==
    /\ answer' = [answer EXCEPT ![call[c]] = how]
    /\ Gone({c})
    /\ UNCHANGED <<schemaVars, dbVars, ring, crashes>>

RolledBack_Not(c) == UNCHANGED rowLock   \* seeded fault: the transaction stays open

RolledBack(c) == rowLock' = Unlocked({c})

(* 40001: rolled back, and tried again while attempts are left.            *)
SerializationFailure(c) ==
    IF attempt[c] = MaxRetries THEN Raise(c, Refused)
    ELSE /\ pc' = [pc EXCEPT ![c] = "backoff"]
         /\ RolledBack(c)
         /\ seen' = [seen EXCEPT ![c] = NoSnapshot] /\ tx' = [tx EXCEPT ![c] = 0]
         /\ UNCHANGED <<schemaVars, dbVars, mutex, ring, callVars, answer, crashes>>

Retry(c) ==
    /\ pc[c] = "backoff"
    /\ attempt' = [attempt EXCEPT ![c] = @ + 1]
    /\ pc' = [pc EXCEPT ![c] = "pool"]
    /\ UNCHANGED <<schemaVars, dbVars, rowLock, mutex, ring, call, batch, seen, tx, answer, crashes>>

(* SELECT next_tx ... FOR UPDATE, once the row is free; then the UPDATE.   *)
LockAllocator(c) ==
    /\ pc[c] = "allocator" /\ rowLock["tx_allocator"] = Free
    /\ IF seen[c].tx = nextTx
       THEN /\ rowLock' = [rowLock EXCEPT !["tx_allocator"] = c]
            /\ tx' = [tx EXCEPT ![c] = nextTx]
            /\ pc' = [pc EXCEPT ![c] = IF Audits(batch[c]) # {} THEN "chain" ELSE "insert"]
            /\ UNCHANGED <<schemaVars, dbVars, mutex, ring, callVars, seen, answer, crashes>>
       ELSE SerializationFailure(c)

LockChain(c) ==
    /\ pc[c] = "chain" /\ rowLock["audit_chain_lock"] = Free
    /\ IF seen[c].seq = head.seq
       THEN /\ rowLock' = [rowLock EXCEPT !["audit_chain_lock"] = c]
            /\ pc' = [pc EXCEPT ![c] = "insert"]
            /\ UNCHANGED <<schemaVars, dbVars, mutex, ring, callVars, seen, tx, answer, crashes>>
       ELSE SerializationFailure(c)

(* The pool is used up for pool_timeout, or a row is locked for            *)
(* lock_timeout (55P03): neither is tried again.                           *)
TimedOut(c) ==
    /\ \/ pc[c] = "pool" /\ Cardinality(Connections(ProcOf[c])) = PoolMax
       \/ pc[c] = "allocator" /\ LockTimeouts /\ rowLock["tx_allocator"] # Free
    /\ Raise(c, Refused)

Rebound_First(rows, from) ==        \* seeded fault: all rows to the locked head
    [i \in DOMAIN rows |->
        IF rows[i].kind # "audit" \/ rows[i].prev = from THEN rows[i]
        ELSE [rows[i] EXCEPT !.prev = from, !.sig = rows[i].id \o <<from>>]]

(* The audit rows, each chained to the one before it and the first to the  *)
(* locked head; a row that is chained right already stays as it is.  Rows  *)
(* without a signature are not rebound.                                    *)
Rebound(rows, from) ==
    LET tip[i \in 0 .. Len(rows)] ==
            IF i = 0 THEN from
            ELSE IF rows[i].kind # "audit" THEN tip[i - 1]
            ELSE IF rows[i].prev = tip[i - 1] THEN rows[i].sig
            ELSE rows[i].id \o <<tip[i - 1]>>
    IN  [i \in DOMAIN rows |-> IF rows[i].kind = "audit"
                               THEN [rows[i] EXCEPT !.prev = tip[i - 1], !.sig = tip[i]]
                               ELSE rows[i]]

(* UNIQUE (tx, e, a): tx is shared, so the keys must differ.               *)
Distinct(rows) == \A i, j \in DOMAIN rows : rows[i].key = rows[j].key => i = j

Unused(n) == \A i \in DOMAIN log : log[i].tx # n

Insert(c) ==
    /\ pc[c] = "insert"
    /\ IF Distinct(batch[c]) /\ Unused(tx[c])
       THEN /\ batch' = [batch EXCEPT ![c] = IF Audits(@) = {} THEN @ ELSE Rebound(@, head.hash)]
            /\ pc' = [pc EXCEPT ![c] = "commit"]
            /\ UNCHANGED <<schemaVars, dbVars, rowLock, mutex, ring, call, attempt, seen, tx,
                           answer, crashes>>
       ELSE Raise(c, Refused)

(* The chain head after the batch: the signature of its last audit row,    *)
(* and '' when that row has none.                                          *)
Head2(rows, n) ==
    [seq |-> n, hash |-> LET i == Max(Audits(rows)) IN
                         IF rows[i].kind = "audit" THEN rows[i].sig ELSE Empty]

(* COMMIT.  The caller may not live to see it, or not hear of it.          *)
Landed(c, how) ==
    /\ log' = Append(log, [call |-> call[c], tx |-> tx[c], rows |-> batch[c]])
    /\ nextTx' = nextTx + 1
    /\ head' = IF Audits(batch[c]) = {} THEN head ELSE Head2(batch[c], Len(log) + 1)
    /\ answer' = [answer EXCEPT ![call[c]] = how]
    /\ Gone({c})
    /\ UNCHANGED <<schemaVars, ring, crashes>>

Commit(c) == pc[c] = "commit" /\ Landed(c, Told(tx[c]))

CommitConflict(c) == pc[c] = "commit" /\ SerializationFailure(c)

ConnectionLost_Retried(c) ==        \* seeded fault: a lost commit is tried again
    \/ pc[c] \in InTransaction /\ Raise(c, Lost)
    \/ /\ pc[c] = "commit" /\ attempt[c] < MaxRetries
       /\ log' = Append(log, [call |-> call[c], tx |-> tx[c], rows |-> batch[c]])
       /\ nextTx' = nextTx + 1
       /\ rowLock' = Unlocked({c})
       /\ pc' = [pc EXCEPT ![c] = "backoff"]
       /\ UNCHANGED <<schemaVars, head, mutex, ring, callVars, seen, tx, answer, crashes>>

(* The connection breaks: before the commit, or after it.                  *)
ConnectionLost(c) ==
    \/ pc[c] \in InTransaction /\ Raise(c, Lost)
    \/ pc[c] = "commit" /\ Landed(c, Lost)

(* A process dies: Postgres rolls its transactions back.                   *)
Crash(p) ==
    /\ crashes < MaxCrashes /\ proc[p] # "closed"
    /\ LET gone == {c \in Clients : ProcOf[c] = p} IN
       /\ answer' = [k \in DOMAIN answer |->
                        IF \E c \in gone : pc[c] # "idle" /\ call[c] = k THEN Lost ELSE answer[k]]
       /\ Gone(gone)
    /\ proc' = [proc EXCEPT ![p] = "closed"]
    /\ current' = [current EXCEPT ![p] = 0]
    /\ applied' = [applied EXCEPT ![p] = {}]
    /\ ring' = [ring EXCEPT ![p] = Empty]
    /\ crashes' = crashes + 1
    /\ UNCHANGED <<historyTable, history, dbVars>>
-----------------------------------------------------------------------------
Opening(p) ==
    \/ OpenStore(p) \/ EnsureHistoryTable(p) \/ AppliedNames(p)
    \/ ApplyOne(p) \/ CommitMigration(p) \/ Migrated(p)

Step(c) ==
    \/ TakeMutex(c) \/ Connect(c) \/ Retry(c) \/ LockAllocator(c) \/ LockChain(c)
    \/ Insert(c) \/ Commit(c) \/ CommitConflict(c)

Write(c) == \E rows \in Batches : Start(c, rows)

Finished == /\ Len(answer) = MaxCalls /\ \A c \in Clients : pc[c] = "idle"
            /\ \A p \in Procs : proc[p] = "open"
            /\ UNCHANGED vars

Next ==
    \/ \E p \in Procs : Opening(p) \/ Crash(p)
    \/ \E c \in Clients : Write(c) \/ Step(c) \/ TimedOut(c) \/ ConnectionLost(c)
    \/ Finished

Spec == Init /\ [][Next]_vars

(* Threads and the database keep running, so each call goes on.            *)
FairSpec == Spec /\ \A c \in Clients : WF_vars(Step(c))
-----------------------------------------------------------------------------
(* The history table never records a migration twice nor before an earlier *)
(* one, and a store is open only when every migration of its package is in *)
(* it, whatever processes race to open or die in between: the unique row   *)
(* and the one transaction of _apply_one.                                  *)
MigratedOnce ==
    /\ \A i \in DOMAIN history : history[i] = i
    /\ \A p \in Procs : proc[p] = "open" => 1 .. Known[p] \subseteq ToSet(history)

(* Where the signed audit rows of a log are, and which is first.           *)
AuditPlaces(l) == UNION {{<<n, i>> : i \in Canonical(l[n].rows)} : n \in DOMAIN l}

Row(l, p) == l[p[1]].rows[p[2]]

Before(p, q) == p[1] < q[1] \/ (p[1] = q[1] /\ p[2] < q[2])

(* The hash is that of the last row at these places.                       *)
Tip(l, places, hash) ==
    IF places = {} THEN hash = Empty
    ELSE \E p \in places : Row(l, p).sig = hash /\ \A q \in places : q = p \/ Before(q, p)

Unbroken(l, hash) ==
    /\ \A q \in AuditPlaces(l) :
          /\ Tip(l, {p \in AuditPlaces(l) : Before(p, q)}, Row(l, q).prev)
          /\ Row(l, q).sig = Row(l, q).id \o <<Row(l, q).prev>>
    /\ Tip(l, AuditPlaces(l), hash)

(* The audit rows of the log are one chain: each has the hash of the audit *)
(* row before it, over all processes, although each was built on the ring  *)
(* of its own process, and audit_chain_lock points at the last one.  The   *)
(* property is about logs without bare audit rows.                         *)
ChainUnbroken == Unbroken(log, head.hash)

(* The log is what OrderedLog.tla says: a call that is told a tx is the    *)
(* batch at that place, one that is told of an error is not in the log,    *)
(* and none is there twice, through retries, lost connections and crashes. *)
Ordered == INSTANCE OrderedLog WITH committed <- [n \in DOMAIN log |-> log[n].call]

LogSpec == Ordered!Spec

(* Every call ends: no transaction waits for ever for a row, a connection  *)
(* or the lock of its process.                                             *)
EveryCallEnds == \A c \in Clients : pc[c] # "idle" ~> pc[c] = "idle"

(* "a UniqueViolation on (tx, e, a) [...] should only happen if a future   *)
(* code-path bypassed the allocator entirely" (postgres.py): no insert of  *)
(* a batch with an allocated tx meets the constraint.                      *)
UniqueNeverFires ==
    \A c \in Clients : pc[c] = "insert" => Distinct(batch[c]) /\ Unused(tx[c])

(* Audit datoms without a signature "are accepted at INSERT but don't      *)
(* update the head pointer" (postgres.py): the head is the last audit      *)
(* entry of the log.                                                       *)
BareKeepsHead == Tip(log, AuditPlaces(log), head.hash)

(* Connections, rows and migrations are what their code allows: see the parts.*)
SchemaReady ==
    /\ TypeOK
    /\ MigratedOnce
=============================================================================
