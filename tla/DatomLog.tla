------------------------------ MODULE DatomLog ------------------------------
(***************************************************************************)
(* persistence.fact: the append-only datom log and DB.transact on it.      *)
(* A transact shapes its facts into datoms against a snapshot of the log   *)
(* (a new value of a key also emits a companion retract of the prior open  *)
(* assert), appends them under a fresh tx id, and then stamps the replaced *)
(* transactions invalidated, one by one.  The log is read through          *)
(* DBView.entity or folded into a projection.                              *)
(*                                                                         *)
(* A key is an entity with an attribute.  A fact is what the caller hands  *)
(* in: key, value, how long before the clock reading it is valid from,     *)
(* assert or retract, and whether its interval is open (no valid_to).      *)
(***************************************************************************)
EXTENDS Integers, SequencesExt

CONSTANTS
    Writers,       \* threads that write
    Locked,        \* those that hold store._lock through the whole call
    Keys,          \* (entity, attribute) pairs
    Vals,          \* values
    Batches,       \* the lists of facts that are handed in
    MaxCalls,      \* bound: calls of transact
    Tick           \* what a clock reading adds to the previous one

Nobody      == "nobody"  \* store._lock is free
NoValue     == "none"    \* a key without a value
Placeholder == -1        \* TX_PLACEHOLDER, until allocate_and_append

Facts == [key : Keys, v : Vals, lag : Nat, op : {"assert", "retract"},
          open : BOOLEAN]

ASSUME ConstantsOK ==
    /\ Locked \subseteq Writers /\ Nobody \notin Writers
    /\ NoValue \notin Vals
    /\ \A b \in Batches : b \in Seq(Facts) /\ b # <<>>
    /\ MaxCalls \in Nat /\ Tick \in Nat \ {0}

VARIABLES
    now,           \* the last reading of the clock
    log,           \* the datoms in insertion order
    lock,          \* who holds store._lock
    pc, calls,     \* where each writer is, the calls made so far
    time,          \* "now" of the running transact
    arg, force,    \* its facts, and its force_retroactive
    new,           \* new_datoms, then the stored ones
    old            \* invalidations: tx ids still to be stamped

locals == <<time, arg, force, new, old>>
vars   == <<now, log, lock, pc, calls, locals>>

(* auto: a companion retract.  inv: invalidated_by, 0 while it is None.    *)
Datoms == [key : Keys, v : Vals, tx : Nat \cup {Placeholder}, time : Nat,
           from : Int, op : {"assert", "retract"}, open : BOOLEAN,
           auto : BOOLEAN, inv : Nat]

TypeOK ==
    /\ now \in Nat
    /\ \A i \in DOMAIN log : log[i] \in Datoms /\ log[i].tx # Placeholder
    /\ lock \in Writers \cup {Nobody}
    /\ pc \in [Writers -> {"idle", "snap", "append", "mark"}]
    /\ calls \in 0 .. MaxCalls /\ time \in [Writers -> Nat]
    /\ force \in [Writers -> BOOLEAN]
    /\ \A w \in Writers : /\ arg[w] \in Batches \cup {<<>>}
                          /\ \A i \in DOMAIN new[w] : new[w][i] \in Datoms
                          /\ \A i \in DOMAIN old[w] : old[w][i] \in Int
-----------------------------------------------------------------------------
(* _find_prior_assert: the last open assert of the key that is not stamped *)
(* invalidated, as a list of none or one datom.                            *)
OpenOn(s, k) == {i \in DOMAIN s : /\ s[i].key = k /\ s[i].op = "assert"
                                  /\ s[i].inv = 0 /\ s[i].open}

Prior(s, k) ==
    IF OpenOn(s, k) = {} THEN <<>> ELSE <<s[Max(OpenOn(s, k))]>>

(* The retract that closes p in favour of an assert valid from vf.         *)
ClosedAt(p, from, t) == [key |-> p.key, v |-> p.v, tx |-> Placeholder, time |-> t,
                         from |-> from, op |-> "retract", open |-> FALSE,
                         auto |-> TRUE, inv |-> 0]

Companion_FromNew(p, vf, t) ==        \* seeded fault: closes from the new date
    ClosedAt(p, vf, t)

Companion(p, vf, t) == ClosedAt(p, IF vf < p.from THEN vf ELSE p.from, t)

Datom(f, t) == [key |-> f.key, v |-> f.v, tx |-> Placeholder, time |-> t,
                from |-> t - f.lag, op |-> f.op, open |-> f.open,
                auto |-> FALSE, inv |-> 0]

(* One fact, given the assert it replaces: st holds new_datoms, the        *)
(* invalidations, whether RetroactiveCorrectionError was raised, and the   *)
(* index that a batch keeps of its own open asserts.                       *)
AddFact(st, f, prior, t, forced) ==
    LET d == Datom(f, t)
        replaced == IF f.op = "assert" THEN prior ELSE <<>>
    IN IF st.refused THEN st
       ELSE IF replaced # <<>> /\ d.from < replaced[1].from /\ ~forced
       THEN [st EXCEPT !.refused = TRUE]
       ELSE [new |-> st.new \o [i \in DOMAIN replaced |->
                                   Companion(replaced[i], d.from, t)] \o <<d>>,
             old |-> st.old \o [i \in DOMAIN replaced |-> replaced[i].tx],
             refused |-> FALSE, own |-> st.own]

NoDatoms == [new |-> <<>>, old |-> <<>>, refused |-> FALSE,
             own |-> [k \in Keys |-> <<>>]]

(* DB.transact looks each fact up in the log and the datoms made so far.   *)
LookedUp(s, st, f, t, forced) ==
    AddFact(st, f, Prior(s \o st.new, f.key), t, forced)

Transact(s, facts, t, forced) ==
    LET made[n \in 0 .. Len(facts)] ==
            IF n = 0 THEN NoDatoms ELSE LookedUp(s, made[n - 1], facts[n], t, forced)
    IN  made[Len(facts)]

(* DB.transact_batch keeps an index of the log and one of its own open     *)
(* asserts, which a replaced assert leaves and an open one enters.         *)
InBatch_Forgets(own, f, t) ==         \* seeded fault: snapshot lookups only
    own

InBatch(own, f, t) ==
    [own EXCEPT ![f.key] = CASE f.op = "retract" -> @
                             [] f.op = "assert" /\ f.open  -> <<Datom(f, t)>>
                             [] f.op = "assert" /\ ~f.open -> <<>>]

Indexed(s, st, f, t, forced) ==
    LET prior == IF st.own[f.key] # <<>> THEN st.own[f.key] ELSE Prior(s, f.key)
    IN  [AddFact(st, f, prior, t, forced) EXCEPT !.own = InBatch(@, f, t)]

TransactBatch(s, facts, t, forced) ==
    LET made[n \in 0 .. Len(facts)] ==
            IF n = 0 THEN NoDatoms ELSE Indexed(s, made[n - 1], facts[n], t, forced)
    IN  made[Len(facts)]
-----------------------------------------------------------------------------
(* DBView.entity: the open assert with the greatest (valid_from, tx), as a *)
(* list of none or one, where a retract closes every assert that has its   *)
(* value and valid_from.                                                   *)
Closes(r, d) == r.op = "retract" /\ r.key = d.key /\ r.v = d.v /\ r.from = d.from

Later(d, x) == d.from > x.from \/ (d.from = x.from /\ d.tx > x.tx)

(* The winner among the positions I of s; the first one of equals.         *)
Winner(s, I) == CHOOSE i \in I : \A j \in I \ {i} :
                   \/ Later(s[i], s[j])
                   \/ ~Later(s[j], s[i]) /\ i < j

Visible(s, k) == {i \in DOMAIN s : /\ s[i].key = k /\ s[i].op = "assert"
                                    /\ \A j \in DOMAIN s : ~Closes(s[j], s[i])}

Entity(s, k) == IF Visible(s, k) = {} THEN <<>>
                ELSE <<s[Winner(s, Visible(s, k))]>>

(* DictProjection.apply on the state of one key: the value and, as a list  *)
(* of none or one, the assert it comes from.                               *)
Apply_AnyRetract(p, d) ==             \* seeded fault: value compared only
    CASE d.op = "retract" /\ p.v = d.v -> [v |-> NoValue, won |-> <<>>]
      [] d.op = "assert" /\ (p.won = <<>> \/ Later(d, p.won[1])) ->
            [v |-> d.v, won |-> <<d>>]
      [] OTHER -> p

Apply(p, d) ==
    CASE d.op = "retract" /\ p.v = d.v /\ p.won # <<>>
            /\ p.won[1].from = d.from /\ p.won[1].tx = d.tx ->
            [v |-> NoValue, won |-> <<>>]
      [] d.op = "assert" /\ (p.won = <<>> \/ Later(d, p.won[1])) ->
            [v |-> d.v, won |-> <<d>>]
      [] OTHER -> p

(* projection.rebuild, then the assert that DictProjection.get shows.      *)
Rebuilt(s, k) ==
    LET shown[n \in 0 .. Len(s)] ==
            IF n = 0 THEN [v |-> NoValue, won |-> <<>>]
            ELSE IF s[n].key = k THEN Apply(shown[n - 1], s[n]) ELSE shown[n - 1]
    IN  shown[Len(s)]
-----------------------------------------------------------------------------
Init ==
    /\ now = 0 /\ log = <<>> /\ lock = Nobody
    /\ pc = [w \in Writers |-> "idle"] /\ calls = 0
    /\ time = [w \in Writers |-> 0]
    /\ arg = [w \in Writers |-> <<>>] /\ force = [w \in Writers |-> FALSE]
    /\ new = [w \in Writers |-> <<>>] /\ old = [w \in Writers |-> <<>>]

LockOK(w) == lock \in {Nobody, w}

Goto(w, to) == pc' = [pc EXCEPT ![w] = to]

(* The call returns or raises: its locals are gone, a lock held around it  *)
(* is given back.                                                          *)
Return(w) ==
    /\ Goto(w, "idle")
    /\ lock' = IF lock = w THEN Nobody ELSE lock
    /\ time' = [time EXCEPT ![w] = 0]
    /\ arg' = [arg EXCEPT ![w] = <<>>]
    /\ force' = [force EXCEPT ![w] = FALSE]
    /\ new' = [new EXCEPT ![w] = <<>>]
    /\ old' = [old EXCEPT ![w] = <<>>]
    /\ UNCHANGED <<now, calls>>

(* The clock is read at the top of transact.  Commits never force.         *)
Call(w, facts, forced) ==
    /\ pc[w] = "idle" /\ calls < MaxCalls
    /\ w \in Locked => ~forced
    /\ IF w \in Locked THEN LockOK(w) /\ lock' = w ELSE UNCHANGED lock
    /\ calls' = calls + 1
    /\ now' = now + Tick
    /\ time' = [time EXCEPT ![w] = now']
    /\ arg' = [arg EXCEPT ![w] = facts]
    /\ force' = [force EXCEPT ![w] = forced]
    /\ Goto(w, "snap")
    /\ UNCHANGED <<log, new, old>>

(* list(store.all_datoms()) and the loop over the facts.  A dosync commits *)
(* with transact_batch while it holds the lock; an atom holds it as well,  *)
(* and writes a single fact, for which BatchEquivalent makes it the same.  *)
Shaped(w) == IF w \in Locked
             THEN TransactBatch(log, arg[w], time[w], force[w])
             ELSE Transact(log, arg[w], time[w], force[w])

Snap(w) ==
    /\ pc[w] = "snap" /\ LockOK(w) /\ ~Shaped(w).refused
    /\ new' = [new EXCEPT ![w] = Shaped(w).new]
    /\ old' = [old EXCEPT ![w] = Shaped(w).old]
    /\ Goto(w, "append")
    /\ UNCHANGED <<now, log, lock, calls, time, arg, force>>

(* RetroactiveCorrectionError.                                             *)
Refuse(w) ==
    /\ pc[w] = "snap" /\ LockOK(w) /\ Shaped(w).refused
    /\ Return(w)
    /\ UNCHANGED log

MaxTx(s) == Max({0} \cup {s[i].tx : i \in DOMAIN s})

(* store.allocate_and_append.                                              *)
AllocateAndAppend_Raw(w) ==           \* seeded fault: the id is filled in late
    /\ pc[w] = "append" /\ LockOK(w)
    /\ log' = log \o new[w]
    /\ new' = [new EXCEPT ![w] = [i \in DOMAIN @ |->
                                     [@[i] EXCEPT !.tx = MaxTx(log) + 1]]]
    /\ Goto(w, "mark")
    /\ UNCHANGED <<now, lock, calls, time, arg, force, old>>

AllocateAndAppend(w) ==
    /\ pc[w] = "append" /\ LockOK(w)
    /\ new' = [new EXCEPT ![w] = [i \in DOMAIN @ |->
                                     [@[i] EXCEPT !.tx = MaxTx(log) + 1]]]
    /\ log' = log \o new'[w]
    /\ Goto(w, "mark")
    /\ UNCHANGED <<now, lock, calls, time, arg, force, old>>

(* store.mark_invalidated: every assert of the replaced transaction, on    *)
(* whatever key; the placeholder of an assert of the same batch matches    *)
(* none.                                                                   *)
Stamped_Log(tx, by) ==                \* seeded fault: retracts are stamped too
    [i \in DOMAIN log |-> IF log[i].tx = tx THEN [log[i] EXCEPT !.inv = by]
                                            ELSE log[i]]

Stamped(tx, by) ==
    [i \in DOMAIN log |->
        IF log[i].tx = tx /\ log[i].inv = 0 /\ log[i].op = "assert"
        THEN [log[i] EXCEPT !.inv = by] ELSE log[i]]

MarkInvalidated(w) ==
    /\ pc[w] = "mark" /\ old[w] # <<>> /\ LockOK(w)
    /\ log' = Stamped(Head(old[w]), new[w][1].tx)
    /\ old' = [old EXCEPT ![w] = Tail(@)]
    /\ UNCHANGED <<now, lock, pc, calls, time, arg, force, new>>

Done(w) ==
    /\ pc[w] = "mark" /\ old[w] = <<>>
    /\ Return(w)
    /\ UNCHANGED log

(* The process dies, or the store raises, in the middle of a transact; the *)
(* log of a SQLiteStore is still there.                                    *)
Die(w) ==
    /\ pc[w] # "idle"
    /\ Return(w)
    /\ UNCHANGED log

Step(w) == \/ \E b \in Batches, f \in BOOLEAN : Call(w, b, f)
           \/ Snap(w) \/ Refuse(w) \/ AllocateAndAppend(w)
           \/ MarkInvalidated(w) \/ Done(w) \/ Die(w)

Terminating == /\ calls = MaxCalls /\ \A w \in Writers : pc[w] = "idle"
               /\ UNCHANGED vars

Next == (\E w \in Writers : Step(w)) \/ Terminating

Spec == Init /\ [][Next]_vars
-----------------------------------------------------------------------------
(* The positions of the asserts on k that no caller retracted.             *)
Standing(k) ==
    {i \in DOMAIN log : /\ log[i].key = k /\ log[i].op = "assert"
                        /\ \A j \in DOMAIN log :
                              Closes(log[j], log[i]) => log[j].auto}

(* The forced retroactive corrections of k: companions dated like the      *)
(* assert they come with, which is before an open assert of their value.   *)
Corrections(k) ==
    {i \in 1 .. Len(log) - 1 :
        /\ log[i].auto /\ log[i].key = k /\ log[i].from = log[i + 1].from
        /\ \E p \in 1 .. i : /\ log[p].key = k /\ log[p].op = "assert" /\ log[p].open
                             /\ log[p].v = log[i].v /\ log[p].from > log[i].from}

(* Whatever races, refusals and deaths there were, the companion retracts  *)
(* never make a key vanish that a caller asserted and none retracted; and  *)
(* where no correction was forced they hide superseded asserts only:       *)
(* entity() shows the assert with the greatest (valid_from, tx).           *)
NewestStaysVisible ==
    \A k \in Keys : Standing(k) # {} =>
        /\ Entity(log, k) # <<>>
        /\ Corrections(k) = {} => Entity(log, k) = <<log[Winner(log, Standing(k))]>>

(* "The retract closes the prior from the new effective date onward"       *)
(* (fact/db.py:216-220, 265-270; tests/fact/test_db.py:120-125): after a   *)
(* forced correction entity() shows none of the asserts made before it.    *)
(* The code dates the companion at the correction, where entity() finds no *)
(* assert for it to close, and the prior is shown as if nothing was        *)
(* corrected.                                                              *)
CorrectionCloses ==
    \A k \in Keys : \A i \in Corrections(k) : \A p \in Visible(log, k) :
        p < i => Entity(log, k) # <<log[p]>>

(* DictProjection "mirrors the semantics of DBView.entity applied to the   *)
(* entire current log".                                                    *)
ProjectionMirrors ==
    \A k \in Keys : LET shown == Entity(log, k) IN
        Rebuilt(log, k) = [v |-> IF shown = <<>> THEN NoValue ELSE shown[1].v,
                           won |-> shown]

(* transact_batch is "equivalent to transact for correctness": from every  *)
(* log the system gets into, the same datoms, the same invalidations and   *)
(* the same refusals.                                                      *)
BatchEquivalent ==
    \A w \in Writers : pc[w] = "snap" =>
        LET one  == Transact(log, arg[w], time[w], force[w])
            many == TransactBatch(log, arg[w], time[w], force[w])
        IN /\ one.refused = many.refused
           /\ one.refused \/ (one.new = many.new /\ one.old = many.old)

(* The stamp of an assert names a later transaction, one that wrote over   *)
(* something of the transaction it is in: as a hint for the indexes it     *)
(* never points to a transaction that had nothing to do with it.           *)
StampsExplained ==
    \A i \in DOMAIN log : log[i].inv # 0 =>
        /\ log[i].op = "assert" /\ log[i].inv > log[i].tx
        /\ \E r, x \in DOMAIN log :
              /\ log[r].auto /\ log[r].tx = log[i].inv
              /\ log[x].tx = log[i].tx /\ log[x].op = "assert"
              /\ log[x].key = log[r].key /\ log[x].v = log[r].v

(* What the properties rest on besides: callers assert and leave retracts  *)
(* to transact; no two facts on one key, of one call or of two, are valid  *)
(* from the same instant; in a batch, no fact with a closed interval comes *)
(* between two asserts of its key of which the first is open.              *)
CallersOnlyAssert == \A b \in Batches : \A i \in 1 .. Len(b) : b[i].op = "assert"

NoTies ==
    \A b, c \in Batches : \A i \in 1 .. Len(b), j \in 1 .. Len(c) :
        b[i].key = c[j].key =>
            /\ \A n \in 1 .. MaxCalls : b[i].lag - c[j].lag # n * Tick
            /\ b = c /\ i # j => b[i].lag # c[j].lag

ClosedComesLast ==
    \A b \in Batches : \A i, j, l \in 1 .. Len(b) :
        /\ i < j /\ j < l /\ b[i].key = b[j].key /\ b[j].key = b[l].key
        /\ {b[i].op, b[j].op, b[l].op} = {"assert"} /\ b[i].open
        => b[j].open

(* What is in the log was allocated, and what is stamped was superseded.    *)
LogWellFormed ==
    /\ TypeOK
    /\ StampsExplained

(* Two ways to read and two ways to write, each pair with one result.       *)
PathsAgree ==
    /\ ProjectionMirrors
    /\ BatchEquivalent
=============================================================================
