----------------------------- MODULE Promotion -----------------------------
(***************************************************************************)
(* Promotion of plans to skills: the four gates (plan/_promotion.py), the  *)
(* audit entries gate G2 reads back from the fact store (effect/handlers/  *)
(* audit.py) and the skill libraries over that store (_skill_library.py).  *)
(*                                                                         *)
(* Servers go on writing audit entries while callers promote.  A hash is   *)
(* the content it is taken of.  Times count tenths of a microsecond,       *)
(* scaled down: Microsecond of them fit in one, Millisecond in the other.  *)
(***************************************************************************)
EXTENDS Integers, Sequences, FiniteSets, SequencesExt

CONSTANTS
    Servers,       \* processes that emit audit entries
    Callers,       \* threads in mcts_promote, one promotion each
    Libraries,     \* SkillLibrary instances
    Plans,
    MinCount,      \* min_g1_count
    Epsilon,       \* the threshold of G3
    Windows,       \* audit windows a caller may ask about, in milliseconds
    Grain,         \* what a clock reading is a multiple of
    MaxTime, MaxEntries

Microsecond == 2
Millisecond == 4

ASSUME PromotionAssumption ==
    /\ MinCount \in Nat /\ Epsilon \in Int /\ Grain \in Nat \ {0}
    /\ Windows \subseteq Nat \X Nat /\ MaxTime \in Nat /\ MaxEntries \in Nat
    /\ IsFiniteSet(Callers)

VARIABLES
    clock,
    head,      \* each server's last entry, Genesis at its start
    built,     \* each server's entries not yet in the store
    emitted,   \* ghost: every entry ever built
    log,       \* the fact store
    caches,    \* each library's _plans and _records
    job        \* each caller's call

vars == <<clock, head, built, emitted, log, caches, job>>

-----------------------------------------------------------------------------
(* Audit entries and their way through the store.                          *)

Genesis == <<>>
Id(content) == Append(content.prev, <<content.at, content.what>>)
AuditEntry(content) == [content |-> content, id |-> Id(content)]

(* A datetime keeps whole microseconds.                                    *)
ToInst(at) == at - (at % Microsecond)

AuditDatom_Restamped(e) ==
    [kind |-> "audit", prev |-> e.content.prev, at |-> ToInst(clock),
     what |-> e.content.what, signature |-> e.id]

AuditDatom(e) ==
    [kind |-> "audit", prev |-> e.content.prev, at |-> ToInst(e.content.at),
     what |-> e.content.what, signature |-> e.id]
FromDatom(d) ==
    [content |-> [prev |-> d.prev, at |-> d.at, what |-> d.what], id |-> d.signature]

InWindow_From(d, w) == d.kind = "audit" /\ d.at \div Millisecond >= w[1]

InWindow(d, w) ==
    d.kind = "audit" /\ d.at \div Millisecond >= w[1] /\ d.at \div Millisecond <= w[2]

(* The places of the window's entries in the store, in its order.          *)
EntriesIn(store, w) == {i \in DOMAIN store : InWindow(store[i], w)}

(* What verify_chain carries to the entry at i of those at the places I:   *)
(* Genesis, or the id of the entry before.                                 *)
Carried(store, I, i, prev) ==
    \/ (\A j \in I : j >= i) /\ prev = Genesis
    \/ \E j \in I : /\ j < i /\ \A k \in I : k < i => k <= j
                    /\ prev = store[j].signature

Hashed(d) == FromDatom(d).id = Id(FromDatom(d).content)

VerifyChain_Hashes(store, I) == \A i \in I : Hashed(store[i])

VerifyChain(store, I) == \A i \in I : Hashed(store[i]) /\ Carried(store, I, i, store[i].prev)

GateG2(store, w) == EntriesIn(store, w) # {} /\ VerifyChain(store, EntriesIn(store, w))

(* Every held-out trajectory replays the same; the first that does not, or *)
(* whose comparison is malformed, decides.                                 *)
GateG1(replays) ==
    IF Len(replays) = 0 \/ Len(replays) < MinCount THEN "fail"
    ELSE IF \A i \in DOMAIN replays : replays[i] = "same" THEN "pass"
    ELSE LET first == CHOOSE i \in DOMAIN replays :
                          replays[i] # "same" /\ \A j \in 1 .. i - 1 : replays[j] = "same"
         IN IF replays[first] = "malformed" THEN "raise" ELSE "fail"

GateG3(delta) == delta >= Epsilon

Record(p, g1, g2, delta, g4) == [plan |-> p, g1 |-> g1, g2 |-> g2, delta |-> delta, approved |-> g4]
NoRecord == Record("", FALSE, FALSE, 0, FALSE)

-----------------------------------------------------------------------------
Idle == [pc |-> "idle", plan |-> "", lib |-> "", window |-> <<0, 0>>, replays |-> <<>>, delta |-> 0,
         asked |-> "", closed |-> FALSE, at |-> 0, record |-> NoRecord, raced |-> FALSE]

Init ==
    /\ clock = 0 /\ log = <<>>
    /\ head = [s \in Servers |-> Genesis] /\ built = [s \in Servers |-> <<>>] /\ emitted = {}
    /\ caches = [l \in Libraries |-> [plans |-> {}, records |-> {}]]
    /\ job = [c \in Callers |-> Idle]

Tick ==
    /\ clock + Grain <= MaxTime /\ clock' = clock + Grain
    /\ UNCHANGED <<head, built, emitted, log, caches, job>>

(* An entry is linked and remembered, then written to the store.           *)
Build(s) ==
    /\ Cardinality(emitted) < MaxEntries
    /\ LET e == AuditEntry([prev |-> head[s], at |-> clock, what |-> Cardinality(emitted)])
       IN /\ head' = [head EXCEPT ![s] = e.id]
          /\ built' = [built EXCEPT ![s] = Append(@, e)]
          /\ emitted' = emitted \cup {e}
    /\ UNCHANGED <<clock, log, caches, job>>

Persist(s) ==
    /\ built[s] # <<>>
    /\ log' = Append(log, AuditDatom(Head(built[s])))
    /\ built' = [built EXCEPT ![s] = Tail(@)]
    /\ UNCHANGED <<clock, head, emitted, caches, job>>

(* The store refuses it; the server goes on.                               *)
PersistFails(s) ==
    /\ built[s] # <<>> /\ built' = [built EXCEPT ![s] = Tail(@)]
    /\ UNCHANGED <<clock, head, emitted, log, caches, job>>

Restart(s) ==
    /\ head[s] # Genesis
    /\ head' = [head EXCEPT ![s] = Genesis] /\ built' = [built EXCEPT ![s] = <<>>]
    /\ UNCHANGED <<clock, emitted, log, caches, job>>

-----------------------------------------------------------------------------
(* promote(): G1, G2, G3, G4, each with its partial record on failure.     *)
Goes(c, pc) == job' = [job EXCEPT ![c] = [@ EXCEPT !.pc = pc]]
Ends(c, pc, record) == job' = [job EXCEPT ![c] = [@ EXCEPT !.pc = pc, !.record = record]]

(* Nothing written by then can still come to lie in the window.            *)
Closed(w) == clock \div Millisecond > w[2] /\ \A s \in Servers : built[s] = <<>>

Promote(c, p, l, w) ==
    /\ job[c].pc = "idle"
    /\ job' = [job EXCEPT ![c] = [Idle EXCEPT !.pc = "g1", !.plan = p, !.lib = l, !.window = w]]
    /\ UNCHANGED <<clock, head, built, emitted, log, caches>>

G1(c, replays) ==
    /\ job[c].pc = "g1"
    /\ \/ GateG1(replays) = "pass"
          /\ job' = [job EXCEPT ![c] = [@ EXCEPT !.pc = "g2", !.replays = replays]]
       \/ GateG1(replays) = "raise" /\ Goes(c, "raised")
       \/ GateG1(replays) = "fail"
          /\ Ends(c, "failed", Record(job[c].plan, FALSE, FALSE, 0, FALSE))
    /\ UNCHANGED <<clock, head, built, emitted, log, caches>>

G2(c) ==
    /\ job[c].pc = "g2"
    /\ LET ran == [job[c] EXCEPT !.at = Len(log)]
       IN job' = [job EXCEPT ![c] =
            IF GateG2(log, job[c].window) THEN [ran EXCEPT !.pc = "g3", !.closed = Closed(ran.window)]
            ELSE [ran EXCEPT !.pc = "failed", !.record = Record(ran.plan, TRUE, FALSE, 0, FALSE)]]
    /\ UNCHANGED <<clock, head, built, emitted, log, caches>>

G3(c, delta) ==
    /\ job[c].pc = "g3"
    /\ LET ran == [job[c] EXCEPT !.delta = delta]
       IN job' = [job EXCEPT ![c] =
            IF GateG3(delta) THEN [ran EXCEPT !.pc = "g4"]
            ELSE [ran EXCEPT !.pc = "failed", !.record = Record(ran.plan, TRUE, TRUE, delta, FALSE)]]
    /\ UNCHANGED <<clock, head, built, emitted, log, caches>>

G4_Truthy(c, answer) ==
    /\ job[c].pc = "g4"
    /\ LET ran == [job[c] EXCEPT !.asked = answer]
           record == Record(ran.plan, TRUE, TRUE, ran.delta, answer # "no")
       IN job' = [job EXCEPT ![c] =
            [ran EXCEPT !.pc = IF answer = "no" THEN "failed" ELSE "check", !.record = record]]
    /\ UNCHANGED <<clock, head, built, emitted, log, caches>>

G4_Recorded(c, answer) ==
    /\ job[c].pc = "g4"
    /\ LET ran == [job[c] EXCEPT !.asked = answer]
           record == Record(ran.plan, TRUE, TRUE, ran.delta, TRUE)
       IN job' = [job EXCEPT ![c] =
            [ran EXCEPT !.pc = IF answer = "yes" THEN "check" ELSE "failed", !.record = record]]
    /\ UNCHANGED <<clock, head, built, emitted, log, caches>>

(* g4_fn must answer with a bool; anything else that counts as true is a   *)
(* TypeError.                                                              *)
G4(c, answer) ==
    /\ job[c].pc = "g4"
    /\ LET ran == [job[c] EXCEPT !.asked = answer]
           record == Record(ran.plan, TRUE, TRUE, ran.delta, answer = "yes")
       IN job' = [job EXCEPT ![c] =
            CASE answer = "yes"    -> [ran EXCEPT !.pc = "check", !.record = record]
              [] answer = "no"     -> [ran EXCEPT !.pc = "failed", !.record = record]
              [] answer = "truthy" -> [ran EXCEPT !.pc = "raised"]]
    /\ UNCHANGED <<clock, head, built, emitted, log, caches>>

-----------------------------------------------------------------------------
(* SkillLibrary.register: the cache, then the log, then one transaction.   *)
Registrations(p) ==
    {i \in DOMAIN log : log[i].kind = "skill" /\ log[i].op = "assert" /\ log[i].record.plan = p}
Skill(op, r) == [kind |-> "skill", op |-> op, record |-> r]

Known(c) ==
    /\ job[c].pc = "check" /\ job[c].plan \in caches[job[c].lib].plans
    /\ Goes(c, "done")
    /\ UNCHANGED <<clock, head, built, emitted, log, caches>>

Found_InCache(c) == job[c].plan \in caches[job[c].lib].plans

Found(c) == Registrations(job[c].plan) # {}

Scan(c) ==
    /\ job[c].pc = "check" /\ job[c].plan \notin caches[job[c].lib].plans
    /\ IF Found(c)
       THEN /\ caches' = [caches EXCEPT ![job[c].lib].plans = @ \cup {job[c].plan}]
            /\ Goes(c, "done")
       ELSE Goes(c, "write") /\ UNCHANGED caches
    /\ UNCHANGED <<clock, head, built, emitted, log>>

(* An open earlier assert of the same skill is retracted along.            *)
Companions(p) ==
    LET is == Registrations(p)
    IN  IF is = {} THEN <<>> ELSE <<Skill("retract", log[Max(is)].record)>>

Others(c) == {d \in Callers \ {c} : job[d].pc = "write" /\ job[d].plan = job[c].plan}

Write(c) ==
    /\ job[c].pc = "write"
    /\ log' = log \o Companions(job[c].plan) \o <<Skill("assert", job[c].record)>>
    /\ caches' = [caches EXCEPT ![job[c].lib] = [plans |-> @.plans \cup {job[c].plan},
                                                 records |-> @.records \cup {job[c].record}]]
    /\ job' = [d \in Callers |-> IF d = c THEN [job[c] EXCEPT !.pc = "done"]
                                 ELSE [job[d] EXCEPT !.raced = @ \/ d \in Others(c)]]
    /\ UNCHANGED <<clock, head, built, emitted>>

WriteFails_Cached(c) ==
    /\ job[c].pc = "write" /\ Goes(c, "raised")
    /\ caches' = [caches EXCEPT ![job[c].lib].plans = @ \cup {job[c].plan}]
    /\ UNCHANGED <<clock, head, built, emitted, log>>

(* db.transact raises: nothing is registered, nothing is cached.           *)
WriteFails(c) ==
    /\ job[c].pc = "write" /\ Goes(c, "raised")
    /\ UNCHANGED <<clock, head, built, emitted, log, caches>>

(* A process starts again with a new instance over the same store.         *)
Reopen(l) ==
    /\ caches[l].plans # {} /\ \A c \in Callers : job[c].lib = l => job[c].pc \notin {"check", "write"}
    /\ caches' = [caches EXCEPT ![l] = [plans |-> {}, records |-> {}]]
    /\ UNCHANGED <<clock, head, built, emitted, log, job>>

Replays == UNION {[1 .. n -> {"same", "diverges", "malformed"}] : n \in 0 .. MinCount}

Next ==
    \/ Tick
    \/ \E s \in Servers : Build(s) \/ Persist(s) \/ PersistFails(s) \/ Restart(s)
    \/ \E c \in Callers :
         \/ \E p \in Plans, l \in Libraries, w \in Windows : Promote(c, p, l, w)
         \/ \E replays \in Replays : G1(c, replays)
         \/ G2(c)
         \/ \E delta \in Epsilon - 1 .. Epsilon : G3(c, delta)
         \/ \E answer \in {"yes", "no", "truthy"} : G4(c, answer)
         \/ Known(c) \/ Scan(c) \/ Write(c) \/ WriteFails(c)
    \/ \E l \in Libraries : Reopen(l)

Spec == Init /\ [][Next]_vars

-----------------------------------------------------------------------------
(* lookup: the first registration in the log names the record.             *)
Lookup(l, p) ==
    LET is == Registrations(p)
    IN  IF p \in caches[l].plans /\ is # {} /\ log[Min(is)].record \in caches[l].records
        THEN log[Min(is)].record ELSE NoRecord

(* list_skills, without a tag filter.                                      *)
ListSkills == {log[i].record.plan : i \in {j \in DOMAIN log : log[j].kind = "skill" /\ log[j].op = "assert"}}

(* The variables hold what the code can hold.  (_promotion.py)             *)
TypeOK ==
    /\ clock \in 0 .. MaxTime
    /\ \A l \in Libraries : caches[l].plans \subseteq Plans /\ {r.plan : r \in caches[l].records} \subseteq Plans
    /\ \A c \in Callers :
         /\ job[c].pc \in {"idle", "g1", "g2", "g3", "g4", "check", "write", "done", "failed", "raised"}
         /\ job[c].pc \in {"check", "write", "done"} => job[c].record.approved
         /\ job[c].pc = "failed" => job[c].record.plan = job[c].plan /\ ~job[c].record.approved

Passed(c) == job[c].pc \in {"g3", "g4", "check", "write", "done"} \/ job[c].record.g2

(* When G2 has passed, the window held the first entry of a server's run   *)
(* and, with its last entry, every entry that one builds on: none of them  *)
(* was lost on its way to the store, and none of another run lies between. *)
PassedIsComplete ==
    \A c \in Callers : Passed(c) =>
        LET seen == {i \in EntriesIn(log, job[c].window) : i <= job[c].at}
            ids  == {log[i].signature : i \in seen}
        IN /\ \E i \in seen : log[i].prev = Genesis /\ \A j \in seen : i <= j
           /\ \A e \in emitted : e.id \in ids => e.content.prev = Genesis \/ e.content.prev \in ids
           /\ \A i, j \in seen : i < j => log[j].prev # Genesis

(* A window that holds one run of a server from its first entry on, as the *)
(* entries were built, passes G2.  (_promotion.py:393 "True iff ... every  *)
(* entry's content hash matches its stored id AND every prev_hash          *)
(* references the previous entry's id")                                    *)
WholeRunPasses ==
    \A w \in Windows :
        LET seen  == EntriesIn(log, w)
            whole == \A i \in seen : \E e \in emitted :
                        e.id = log[i].signature /\ Carried(log, seen, i, e.content.prev)
        IN seen # {} /\ whole => GateG2(log, w)

(* A verdict about a window that was over when G2 looked still holds when  *)
(* the skill is registered, whatever the servers wrote since.              *)
VerdictStands ==
    \A c \in Callers :
        job[c].closed /\ job[c].pc \in {"g3", "g4", "check", "write"} => GateG2(log, job[c].window)

(* Every registration, and every skill a library hands out, names a record *)
(* of that plan whose four gates passed: a failed gate, a malformed answer *)
(* and an operator who did not say yes all end the call.                   *)
SkillIsPromoted ==
    \A i \in DOMAIN log : log[i].kind = "skill" =>
        /\ log[i].record.g1 /\ log[i].record.g2 /\ log[i].record.approved
        /\ \E c \in Callers :
             /\ job[c].record = log[i].record /\ job[c].asked = "yes"
             /\ Len(job[c].replays) >= MinCount /\ \A k \in DOMAIN job[c].replays : job[c].replays[k] = "same"
             /\ job[c].delta >= Epsilon

(* A skill is registered once, whichever libraries register it and however *)
(* often they are reopened, except by calls that both looked before either *)
(* wrote.  (_skill_library.py:175 "ZERO additional datoms")                *)
RegisteredOnce ==
    \A p \in Plans :
        Cardinality(Registrations(p)) <= 1 + Cardinality({c \in Callers : job[c].raced /\ job[c].plan = p})

(* A library caches no plan and no record that the store does not list: a  *)
(* failed transaction leaves nothing behind in it, and what lookup hands   *)
(* out is a record of that plan whose gates passed.  (_skill_library.py    *)
(* "the caches drifted from the fact store, which register can't produce") *)
LibraryFollowsStore ==
    \A l \in Libraries :
        /\ caches[l].plans \subseteq ListSkills
        /\ \A r \in caches[l].records : \E i \in Registrations(r.plan) : log[i].record = r
        /\ \A p \in Plans : Lookup(l, p) # NoRecord
                            => Lookup(l, p).plan = p /\ Lookup(l, p).approved

(* A skill is in the store once, with a record of gates that all passed, the*)
(* second of them over a complete window.                                   *)
SkillsEarned ==
    /\ TypeOK
    /\ PassedIsComplete
    /\ SkillIsPromoted
    /\ RegisteredOnce

(* G2 passes a chain that nobody broke, and what it passed goes on passing. *)
VerdictSound ==
    /\ WholeRunPasses
    /\ VerdictStands
=============================================================================
