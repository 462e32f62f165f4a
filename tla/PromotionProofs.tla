-------------------------- MODULE PromotionProofs --------------------------
(***************************************************************************)
(* Proofs about Promotion.tla, for every number of servers, callers,       *)
(* libraries and plans, every window and every threshold.                  *)
(***************************************************************************)
EXTENDS Promotion, FiniteSetTheorems, SequenceTheorems, TLAPS

-----------------------------------------------------------------------------
(* What the variables hold.                                                *)
Marks    == Nat \X Nat
Ids      == Seq(Marks)
Contents == [prev : Ids, at : Nat, what : Nat]

IsEntry(e) == e.content \in Contents /\ e = AuditEntry(e.content)

Records   == [plan : Plans \cup {""}, g1 : BOOLEAN, g2 : BOOLEAN, delta : Int, approved : BOOLEAN]
AuditRows == [kind : {"audit"}, prev : Ids, at : Nat, what : Nat, signature : Ids]
SkillRows == [kind : {"skill"}, op : {"assert", "retract"}, record : Records]
Rows      == AuditRows \cup SkillRows
Pcs       == {"idle", "g1", "g2", "g3", "g4", "check", "write", "done", "failed", "raised"}

Jobs == [pc : Pcs, plan : Plans \cup {""}, lib : Libraries \cup {""}, window : Nat \X Nat,
         replays : Replays \cup {<<>>}, delta : Int, asked : {"", "yes", "no", "truthy"}, closed : BOOLEAN,
         at : Nat, record : Records, raced : BOOLEAN]

TypeInv ==
    /\ clock \in 0 .. MaxTime
    /\ head \in [Servers -> Ids]
    /\ IsFiniteSet(emitted) /\ \A e \in emitted : IsEntry(e)
    /\ built \in [Servers -> Seq(emitted)]
    /\ log \in Seq(Rows)
    /\ caches \in [Libraries -> [plans : SUBSET Plans, records : SUBSET Records]]
    /\ job \in [Callers -> Jobs]

(* Each audit datom is that of an entry a server built.                    *)
RowsEmitted == \A i \in DOMAIN log : log[i].kind = "audit" => \E e \in emitted : log[i] = AuditDatom(e)

-----------------------------------------------------------------------------
LEMMA Long == ASSUME NEW S, NEW s \in Seq(S) PROVE Len(s) \in Nat /\ DOMAIN s = 1 .. Len(s)
BY LenProperties

LEMMA Elements ==
    ASSUME NEW S, NEW s \in Seq(S) PROVE \A i \in DOMAIN s : s[i] \in S
BY ElementOfSeq, LenProperties

LEMMA Appended ==
    ASSUME NEW S, NEW s \in Seq(S), NEW x \in S
    PROVE  /\ Append(s, x) \in Seq(S) /\ Len(s) \in Nat /\ Len(Append(s, x)) = Len(s) + 1
           /\ DOMAIN s = 1 .. Len(s) /\ DOMAIN Append(s, x) = 1 .. Len(s) + 1
           /\ \A i \in DOMAIN s : i \in DOMAIN Append(s, x) /\ Append(s, x)[i] = s[i]
           /\ Append(s, x)[Len(s) + 1] = x
           /\ \A i \in DOMAIN Append(s, x) : i \in DOMAIN s \/ i = Len(s) + 1
BY AppendProperties, LenProperties

LEMMA Longer ==
    ASSUME NEW S, NEW T, S \subseteq T, NEW s \in Seq(S) PROVE s \in Seq(T)
OBVIOUS

LEMMA Joined ==
    ASSUME NEW S, NEW s \in Seq(S), NEW u \in Seq(S)
    PROVE  /\ s \o u \in Seq(S) /\ Len(s \o u) = Len(s) + Len(u)
           /\ DOMAIN s = 1 .. Len(s) /\ DOMAIN u = 1 .. Len(u)
           /\ Len(s) \in Nat /\ Len(u) \in Nat
           /\ DOMAIN (s \o u) = 1 .. Len(s) + Len(u)
           /\ \A i \in DOMAIN s : i \in DOMAIN (s \o u) /\ (s \o u)[i] = s[i]
           /\ \A i \in DOMAIN u : Len(s) + i \in DOMAIN (s \o u) /\ (s \o u)[Len(s) + i] = u[i]
           /\ \A i \in DOMAIN (s \o u) :
                 \/ i \in DOMAIN s /\ (s \o u)[i] = s[i]
                 \/ i - Len(s) \in DOMAIN u /\ (s \o u)[i] = u[i - Len(s)]
<1>1. /\ s \o u \in Seq(S) /\ Len(s \o u) = Len(s) + Len(u)
      /\ \A i \in 1 .. Len(s) + Len(u) :
            (s \o u)[i] = IF i <= Len(s) THEN s[i] ELSE u[i - Len(s)]
  BY ConcatProperties
<1>2. /\ DOMAIN s = 1 .. Len(s) /\ DOMAIN u = 1 .. Len(u) /\ Len(s) \in Nat /\ Len(u) \in Nat
      /\ DOMAIN (s \o u) = 1 .. Len(s) + Len(u)
  BY <1>1, LenProperties
<1> DEFINE j == s \o u
<1>3. \A i \in DOMAIN s : i \in DOMAIN j /\ j[i] = s[i]
  <2> HIDE DEF j
  <2>1. \A i \in 1 .. Len(s) + Len(u) : j[i] = IF i <= Len(s) THEN s[i] ELSE u[i - Len(s)]
    BY <1>1 DEF j
  <2> QED BY <1>2, <2>1 DEF j
<1>4. \A i \in DOMAIN u : Len(s) + i \in DOMAIN j /\ j[Len(s) + i] = u[i]
  <2>1. \A i \in 1 .. Len(s) + Len(u) : j[i] = IF i <= Len(s) THEN s[i] ELSE u[i - Len(s)]
    BY <1>1
  <2>2. DOMAIN j = 1 .. Len(s) + Len(u)
    BY <1>2
  <2> HIDE DEF j
  <2> TAKE i \in DOMAIN u
  <2>3. i \in 1 .. Len(u) /\ Len(s) + i \in 1 .. Len(s) + Len(u) /\ ~ (Len(s) + i <= Len(s))
        /\ (Len(s) + i) - Len(s) = i
    BY <1>2
  <2> QED BY <2>1, <2>2, <2>3
<1>5. \A i \in DOMAIN j : \/ i \in DOMAIN s /\ j[i] = s[i]
                          \/ i - Len(s) \in DOMAIN u /\ j[i] = u[i - Len(s)]
  <2>1. \A i \in 1 .. Len(s) + Len(u) : j[i] = IF i <= Len(s) THEN s[i] ELSE u[i - Len(s)]
    BY <1>1
  <2>2. DOMAIN j = 1 .. Len(s) + Len(u)
    BY <1>2
  <2> HIDE DEF j
  <2> QED BY <1>2, <2>1, <2>2
<1> QED BY <1>1, <1>2, <1>3, <1>4, <1>5

(* Every nonempty set of numbers has a least one.                          *)
LEMMA LeastNat ==
    ASSUME NEW T, T \subseteq Nat, T # {}
    PROVE  \E n \in T : \A m \in T : n <= m
<1> DEFINE F == {0 .. k : k \in T}
<1>1. F \subseteq FiniteSubsetsOf(Nat) /\ F # {}
  <2>1. \A k \in T : IsFiniteSet(0 .. k) /\ 0 .. k \in SUBSET Nat
    BY FS_Interval
  <2> QED BY <2>1 DEF FiniteSubsetsOf
<1>2. PICK U \in F : \A V \in F : ~ (<<V, U>> \in StrictSubsetOrdering(Nat))
  BY <1>1, FS_StrictSubsetOrderingWellFounded, WFMin
<1>3. PICK n \in T : U = 0 .. n
  OBVIOUS
<1>4. ASSUME NEW m \in T, ~ (n <= m) PROVE FALSE
  <2>1. 0 .. m \subseteq 0 .. n /\ 0 .. m # 0 .. n
    BY <1>4
  <2>2. <<0 .. m, 0 .. n>> \in StrictSubsetOrdering(Nat)
    BY <2>1 DEF StrictSubsetOrdering
  <2> QED BY <2>2, <1>2, <1>3
<1> QED BY <1>4

LEMMA MinIs ==
    ASSUME NEW T, T \subseteq Nat, T # {}
    PROVE  Min(T) \in T
<1>1. \E n \in T : \A m \in T : n <= m
  BY LeastNat
<1> QED BY <1>1 DEF Min

LEMMA MaxIs ==
    ASSUME NEW n \in Nat, NEW T \in SUBSET (1 .. n), T # {}
    PROVE  Max(T) \in T
<1> DEFINE U == {n - i : i \in T}
<1>1. U \subseteq Nat /\ U # {}
  <2>1. \A i \in T : i \in 1 .. n /\ n - i \in Nat
    OBVIOUS
  <2> QED BY <2>1
<1>2. PICK u \in U : \A v \in U : u <= v
  <2> HIDE DEF U
  <2> QED BY <1>1, LeastNat
<1>3. PICK m \in T : u = n - m
  OBVIOUS
<1>4. \A i \in T : m >= i
  <2> TAKE i \in T
  <2>1. n - i \in U
    OBVIOUS
  <2>2. n - m <= n - i /\ i \in Int /\ m \in Int
    BY <1>2, <1>3, <2>1
  <2> QED BY <2>2
<1> QED BY <1>4 DEF Max

(* An id tells what it was taken of.                                       *)
LEMMA AppendedOnce ==
    ASSUME NEW S, NEW s \in Seq(S), NEW u \in Seq(S), NEW x \in S, NEW y \in S,
           Append(s, x) = Append(u, y)
    PROVE  s = u /\ x = y
<1>1. Len(s) = Len(u) /\ Len(s) \in Nat
  BY Appended
<1>2. x = y
  BY <1>1, Appended
<1>3. \A i \in 1 .. Len(s) : s[i] = u[i]
  BY <1>1, Appended
<1> QED BY <1>1, <1>2, <1>3, SeqEqual

LEMMA IdIs ==
    ASSUME NEW c \in Contents
    PROVE  Id(c) \in Ids /\ Id(c) # Genesis
<1>1. c.prev \in Seq(Marks) /\ <<c.at, c.what>> \in Marks
  BY DEF Contents, Marks, Ids
<1>2. Append(c.prev, <<c.at, c.what>>) \in Seq(Marks) /\ Len(Append(c.prev, <<c.at, c.what>>)) > 0
  <2> DEFINE p == c.prev
             m == <<c.at, c.what>>
  <2> HIDE DEF p, m
  <2>1. p \in Seq(Marks) /\ m \in Marks
    BY <1>1 DEF p, m
  <2>2. Append(p, m) \in Seq(Marks) /\ Len(Append(p, m)) > 0
    BY <2>1, Appended
  <2> QED BY <2>2 DEF p, m
<1> QED BY <1>2 DEF Id, Ids, Genesis

LEMMA IdOnce ==
    ASSUME NEW c \in Contents, NEW d \in Contents, Id(c) = Id(d)
    PROVE  c.prev = d.prev /\ c.at = d.at /\ c.what = d.what
<1> DEFINE m == <<c.at, c.what>>
           n == <<d.at, d.what>>
<1>1. c.prev \in Seq(Marks) /\ d.prev \in Seq(Marks) /\ m \in Marks /\ n \in Marks
  BY DEF Contents, Marks, Ids
<1>2. Append(c.prev, m) = Append(d.prev, n)
  BY DEF Id
<1> HIDE DEF m, n
<1>3. c.prev = d.prev /\ m = n
  BY <1>1, <1>2, AppendedOnce, SMTT(30)
<1> QED BY <1>3 DEF m, n

(* A time of a datom is in the millisecond of its entry.                   *)
LEMMA InstIs ==
    ASSUME NEW t \in Nat
    PROVE  /\ ToInst(t) \in Nat /\ ToInst(t) \div Millisecond = t \div Millisecond
           /\ t % Microsecond = 0 => ToInst(t) = t
BY DEF ToInst, Millisecond, Microsecond

LEMMA DatomIs ==
    ASSUME NEW e, IsEntry(e)
    PROVE  /\ AuditDatom(e) \in Rows /\ AuditDatom(e).kind = "audit"
           /\ AuditDatom(e).prev = e.content.prev /\ AuditDatom(e).at = ToInst(e.content.at)
           /\ AuditDatom(e).what = e.content.what /\ AuditDatom(e).signature = e.id
           /\ e.id = Id(e.content) /\ e.id \in Ids /\ e.id # Genesis /\ e.content.at \in Nat
<1>1. e.content \in Contents /\ e.id = Id(e.content)
  BY DEF IsEntry, AuditEntry
<1>2. e.id \in Ids /\ e.id # Genesis
  BY <1>1, IdIs
<1>3. e.content.prev \in Ids /\ e.content.at \in Nat /\ e.content.what \in Nat
  BY <1>1 DEF Contents
<1>4. ToInst(e.content.at) \in Nat
  BY <1>3, InstIs
<1> DEFINE d == AuditDatom(e)
<1>5. /\ d.kind = "audit" /\ d.prev = e.content.prev /\ d.at = ToInst(e.content.at)
      /\ d.what = e.content.what /\ d.signature = e.id
  BY DEF AuditDatom
<1>6. d \in AuditRows
  BY <1>2, <1>3, <1>4 DEF AuditDatom, AuditRows
<1> QED BY <1>1, <1>2, <1>3, <1>5, <1>6 DEF Rows

-----------------------------------------------------------------------------
(* What a call has behind it, by its program counter and its record.       *)
Replayed(j) == Len(j.replays) >= MinCount /\ \A k \in DOMAIN j.replays : j.replays[k] = "same"

Earned(j) ==
    /\ j.asked = "yes" /\ Replayed(j) /\ j.delta >= Epsilon
    /\ j.record = Record(j.plan, TRUE, TRUE, j.delta, TRUE)

JobOK(j) ==
    /\ j.pc = "idle" => ~j.closed
    /\ j.pc # "idle" => j.plan \in Plans /\ j.lib \in Libraries /\ j.window \in Windows
    /\ j.pc \in {"idle", "g1", "g2", "g3", "g4"} => j.record = NoRecord
    /\ j.pc \in {"g2", "g3", "g4", "check", "write", "done"} => Replayed(j)
    /\ j.pc \in {"g4", "check", "write", "done"} => j.delta >= Epsilon
    /\ j.pc \in {"check", "write", "done"} => j.record.approved
    /\ j.pc = "failed" => j.record.plan = j.plan /\ ~j.raced /\ ~j.record.approved
    /\ j.record.approved => Earned(j)
    /\ j.raced => j.pc \in {"write", "done", "raised"}

HasPassed(j) == j.pc \in {"g3", "g4", "check", "write", "done"} \/ j.record.g2

ClosedCall(j) == j.closed /\ j.pc \in {"g3", "g4", "check", "write"}

(* A step of the caller c to r: it goes on with what it was called with,   *)
(* keeps an approved record, is past G2 as before or since this step, and  *)
(* is going to write only what is not registered yet.                      *)
GoesTo(c, r) ==
    /\ job[c].pc \notin {"done", "failed", "raised"}
    /\ r \in Jobs /\ JobOK(r) /\ r.pc # "idle"
    /\ r.pc = "write" => Registrations(r.plan) = {} /\ ~r.raced
    /\ \/ job[c].pc = "idle" /\ ~r.raced /\ ~HasPassed(r) /\ ~ClosedCall(r)
       \/ /\ r.plan = job[c].plan /\ r.lib = job[c].lib
          /\ r.window = job[c].window /\ r.raced = job[c].raced
          /\ job[c].record.approved => r.record = job[c].record
          /\ \/ GateG2(log, r.window) /\ r.at = Len(log) /\ (ClosedCall(r) => Closed(r.window))
             \/ /\ HasPassed(r) => HasPassed(job[c]) /\ r.at = job[c].at
                /\ ClosedCall(r) => ClosedCall(job[c])

Quiet == UNCHANGED <<clock, head, built, emitted, log>>

LEMMA NoRecordIs ==
    /\ NoRecord \in Records /\ ~NoRecord.approved /\ ~NoRecord.g2 /\ NoRecord.plan = ""
BY DEF NoRecord, Record, Records

LEMMA Zero == 0 \in Int
OBVIOUS

(* What the gates record when a call fails or has passed all of them.      *)
Outcome(p, d, record) ==
    /\ record = Record(p, FALSE, FALSE, 0, FALSE)
       \/ record = Record(p, TRUE, FALSE, 0, FALSE)
       \/ record = Record(p, TRUE, TRUE, d, FALSE)
       \/ record = Record(p, TRUE, TRUE, d, TRUE)

LEMMA RecordIs ==
    ASSUME NEW p \in Plans \cup {""}, NEW d \in Int, NEW x, Outcome(p, d, x)
    PROVE  /\ x \in Records /\ x.plan = p
           /\ x = Record(p, FALSE, FALSE, 0, FALSE) => ~x.g2 /\ ~x.approved
           /\ x = Record(p, TRUE, FALSE, 0, FALSE) => ~x.g2 /\ ~x.approved
           /\ x = Record(p, TRUE, TRUE, d, FALSE) => ~x.approved
<1>1. 0 \in Int
  BY Zero
<1>2. FALSE \in BOOLEAN /\ TRUE \in BOOLEAN
  BY Zenon
<1>3. /\ Record(p, FALSE, FALSE, 0, FALSE) \in Records /\ Record(p, TRUE, FALSE, 0, FALSE) \in Records
      /\ Record(p, TRUE, TRUE, d, FALSE) \in Records /\ Record(p, TRUE, TRUE, d, TRUE) \in Records
  BY <1>2, <1>1, Zenon DEF Record, Records
<1>4. /\ Record(p, FALSE, FALSE, 0, FALSE).plan = p /\ Record(p, TRUE, FALSE, 0, FALSE).plan = p
      /\ Record(p, TRUE, TRUE, d, FALSE).plan = p /\ Record(p, TRUE, TRUE, d, TRUE).plan = p
  BY DEF Record
<1>5. /\ ~Record(p, FALSE, FALSE, 0, FALSE).g2 /\ ~Record(p, TRUE, FALSE, 0, FALSE).g2
      /\ ~Record(p, FALSE, FALSE, 0, FALSE).approved /\ ~Record(p, TRUE, FALSE, 0, FALSE).approved
      /\ ~Record(p, TRUE, TRUE, d, FALSE).approved
  BY DEF Record
<1> QED BY <1>3, <1>4, <1>5, Zenon DEF Outcome

(* j with another program counter and record.                              *)
Became(r, j, pc, x) ==
    /\ r \in Jobs /\ r.pc = pc /\ r.record = x
    /\ r.plan = j.plan /\ r.lib = j.lib /\ r.window = j.window /\ r.replays = j.replays
    /\ r.delta = j.delta /\ r.asked = j.asked /\ r.closed = j.closed /\ r.at = j.at
    /\ r.raced = j.raced

LEMMA EndedIs ==
    ASSUME NEW j \in Jobs, NEW pc \in Pcs, NEW x \in Records,
           NEW r, r = [j EXCEPT !.pc = pc, !.record = x]
    PROVE  Became(r, j, pc, x)
BY DEF Jobs, Became

LEMMA MovedIs ==
    ASSUME NEW j \in Jobs, NEW pc \in Pcs, NEW r, r = [j EXCEPT !.pc = pc]
    PROVE  Became(r, j, pc, j.record)
BY DEF Jobs, Became

LEMMA IdleIs == Idle \in Jobs
<1> DEFINE n == NoRecord
           w == <<0, 0>>
           e == <<>>
<1>1. n \in Records /\ w \in Nat \X Nat
  BY NoRecordIs
<1>2. Idle = [pc |-> "idle", plan |-> "", lib |-> "", window |-> w, replays |-> e, delta |-> 0,
              asked |-> "", closed |-> FALSE, at |-> 0, record |-> n, raced |-> FALSE]
  BY DEF Idle
<1>3. e \in Replays \cup {<<>>}
  OBVIOUS
<1>4. "idle" \in Pcs /\ "" \in Plans \cup {""} /\ "" \in Libraries \cup {""} /\ 0 \in Int /\ 0 \in Nat
      /\ "" \in {"", "yes", "no", "truthy"} /\ FALSE \in BOOLEAN
  BY DEF Pcs
<1> HIDE DEF n, w, e
<1>5. [pc |-> "idle", plan |-> "", lib |-> "", window |-> w, replays |-> e, delta |-> 0,
       asked |-> "", closed |-> FALSE, at |-> 0, record |-> n, raced |-> FALSE] \in Jobs
  BY <1>1, <1>3, <1>4, Zenon DEF Jobs
<1> QED BY <1>2, <1>5

LEMMA CalledIs ==
    ASSUME NEW j \in Jobs, NEW p \in Plans, NEW l \in Libraries, NEW w \in Nat \X Nat
    PROVE  [j EXCEPT !.pc = "g1", !.plan = p, !.lib = l, !.window = w] \in Jobs
BY DEF Jobs, Pcs

LEMMA PromoteGoes ==
    ASSUME PromotionAssumption, TypeInv, NEW c \in Callers, NEW p \in Plans, NEW l \in Libraries,
           NEW w \in Windows, Promote(c, p, l, w)
    PROVE  Quiet /\ UNCHANGED caches /\ \E r : GoesTo(c, r) /\ job' = [job EXCEPT ![c] = r]
<1> DEFINE r == [Idle EXCEPT !.pc = "g1", !.plan = p, !.lib = l, !.window = w]
<1>1. /\ r.pc = "g1" /\ r.plan = p /\ r.lib = l /\ r.window = w /\ r.replays = <<>> /\ r.delta = 0
      /\ r.asked = "" /\ ~r.closed /\ r.at = 0 /\ r.record = NoRecord /\ ~r.raced
  BY DEF Idle
<1>2. r \in Jobs
  <2>1. w \in Nat \X Nat
    BY DEF PromotionAssumption
  <2> HIDE DEF r
  <2>2. r = [Idle EXCEPT !.pc = "g1", !.plan = p, !.lib = l, !.window = w]
    BY DEF r
  <2> QED BY <2>1, <2>2, IdleIs, CalledIs
<1> HIDE DEF r
<1>3. GoesTo(c, r)
  BY <1>1, <1>2, NoRecordIs DEF GoesTo, JobOK, HasPassed, ClosedCall, Promote
<1>4. job' = [job EXCEPT ![c] = r]
  BY DEF Promote, r
<1> QED BY <1>3, <1>4 DEF Promote, Quiet

LEMMA JobTyped ==
    ASSUME TypeInv, NEW c \in Callers
    PROVE  job[c] \in Jobs /\ job[c].delta \in Int /\ job[c].plan \in Plans \cup {""} /\ job[c].record \in Records
BY DEF TypeInv, Jobs

LEMMA G1Goes ==
    ASSUME PromotionAssumption, TypeInv, NEW c \in Callers, JobOK(job[c]), NEW replays \in Replays, G1(c, replays)
    PROVE  Quiet /\ UNCHANGED caches /\ \E r : GoesTo(c, r) /\ job' = [job EXCEPT ![c] = r]
<1> DEFINE j == job[c]
<1>1. j \in Jobs /\ j.pc = "g1" /\ j.plan \in Plans /\ j.lib \in Libraries /\ j.window \in Windows
      /\ ~j.raced /\ ~j.record.approved /\ ~j.record.g2
  BY JobTyped, NoRecordIs DEF G1, JobOK
<1>2. CASE GateG1(replays) = "pass" /\ job' = [job EXCEPT ![c] = [@ EXCEPT !.pc = "g2", !.replays = replays]]
  <2> DEFINE r == [j EXCEPT !.pc = "g2", !.replays = replays]
  <2>1. /\ r \in Jobs /\ r.pc = "g2" /\ r.record = j.record /\ r.replays = replays
        /\ r.plan = j.plan /\ r.lib = j.lib /\ r.window = j.window /\ r.raced = j.raced
    <3> HIDE DEF j
    <3> QED BY <1>1 DEF Jobs, Pcs
  <2>2. Len(replays) >= MinCount /\ \A k \in DOMAIN replays : replays[k] = "same"
    <3>1. Len(replays) \in Nat /\ MinCount \in Nat
      BY DEF Replays, PromotionAssumption
    <3>2. ~(Len(replays) = 0 \/ Len(replays) < MinCount)
      BY <1>2 DEF GateG1
    <3>3. \A k \in DOMAIN replays : replays[k] = "same"
      <4>1. SUFFICES ASSUME ~\A k \in DOMAIN replays : replays[k] = "same" PROVE GateG1(replays) # "pass"
        BY <1>2
      <4> QED BY <3>2, <4>1 DEF GateG1
    <3> QED BY <3>1, <3>2, <3>3
  <2>3. job' = [job EXCEPT ![c] = r]
    BY <1>2
  <2> HIDE DEF r
  <2>4. JobOK(r)
    BY <1>1, <2>1, <2>2, NoRecordIs DEF JobOK, Replayed, G1
  <2>5. GoesTo(c, r)
    BY <1>1, <2>1, <2>4 DEF GoesTo, HasPassed, ClosedCall
  <2> QED BY <2>3, <2>5 DEF G1, Quiet
<1>3. CASE Goes(c, "raised")
  <2> DEFINE r == [j EXCEPT !.pc = "raised"]
  <2>1. Became(r, j, "raised", j.record)
    <3> HIDE DEF j
    <3> QED BY <1>1, MovedIs DEF Pcs
  <2>2. job' = [job EXCEPT ![c] = r]
    BY <1>3 DEF Goes
  <2> HIDE DEF r
  <2>3. JobOK(r)
    BY <1>1, <2>1 DEF JobOK, Became
  <2>4. GoesTo(c, r)
    BY <1>1, <2>1, <2>3 DEF GoesTo, HasPassed, ClosedCall, Became
  <2> QED BY <2>2, <2>4 DEF G1, Quiet
<1>4. CASE Ends(c, "failed", Record(job[c].plan, FALSE, FALSE, 0, FALSE))
  <2> DEFINE r == [j EXCEPT !.pc = "failed", !.record = Record(j.plan, FALSE, FALSE, 0, FALSE)]
  <2>1. job' = [job EXCEPT ![c] = r]
    BY <1>4 DEF Ends
  <2>2. /\ r \in Jobs /\ r.pc = "failed" /\ r.record.plan = j.plan /\ ~r.record.g2 /\ ~r.record.approved
        /\ r.plan = j.plan /\ r.lib = j.lib /\ r.window = j.window /\ r.raced = j.raced
    <3> DEFINE x == Record(j.plan, FALSE, FALSE, 0, FALSE)
    <3>1. 0 \in Int
      BY Zero
    <3>2. j \in Jobs /\ "failed" \in Pcs /\ j.plan \in Plans \cup {""}
      BY <1>1 DEF Pcs
    <3>3. x \in Records /\ x.plan = j.plan /\ ~x.g2 /\ ~x.approved
      <4> HIDE DEF j
      <4>1. Outcome(j.plan, 0, x) /\ x = Record(j.plan, FALSE, FALSE, 0, FALSE)
        BY DEF Outcome
      <4> HIDE DEF x
      <4> QED BY <3>1, <3>2, <4>1, RecordIs, Zenon
    <3>4. r = [j EXCEPT !.pc = "failed", !.record = x]
      OBVIOUS
    <3> HIDE DEF j, x, r
    <3>5. Became(r, j, "failed", x)
      BY <3>2, <3>3, <3>4, EndedIs
    <3> QED BY <3>3, <3>5 DEF Became
  <2> HIDE DEF r
  <2>3. JobOK(r)
    BY <1>1, <2>2 DEF JobOK
  <2>4. GoesTo(c, r)
    BY <1>1, <2>2, <2>3 DEF GoesTo, HasPassed, ClosedCall
  <2> QED BY <2>1, <2>4 DEF G1, Quiet
<1> QED BY <1>2, <1>3, <1>4 DEF G1

LEMMA G2Goes ==
    ASSUME TypeInv, NEW c \in Callers, JobOK(job[c]), G2(c)
    PROVE  Quiet /\ UNCHANGED caches /\ \E r : GoesTo(c, r) /\ job' = [job EXCEPT ![c] = r]
<1> DEFINE j == job[c]
           ran == [j EXCEPT !.at = Len(log)]
           r == job'[c]
<1>1. /\ j \in Jobs /\ j.pc = "g2" /\ j.plan \in Plans /\ j.lib \in Libraries /\ j.window \in Windows
      /\ ~j.raced /\ ~j.record.approved /\ ~j.record.g2 /\ Replayed(j)
  BY JobTyped, NoRecordIs DEF G2, JobOK
<1>2. Len(log) \in Nat
  BY Long DEF TypeInv
<1>3. /\ ran \in Jobs /\ ran.plan = j.plan /\ ran.lib = j.lib /\ ran.window = j.window
      /\ ran.raced = j.raced /\ ran.at = Len(log) /\ ran.replays = j.replays /\ ran.record = j.record
  <2> HIDE DEF j
  <2> QED BY <1>1, <1>2 DEF Jobs
<1>4. CASE /\ GateG2(log, j.window)
           /\ job' = [job EXCEPT ![c] = [ran EXCEPT !.pc = "g3", !.closed = Closed(ran.window)]]
  <2> DEFINE q == [ran EXCEPT !.pc = "g3", !.closed = Closed(ran.window)]
  <2>1. Closed(ran.window) \in BOOLEAN
    BY DEF Closed
  <2>2. /\ q \in Jobs /\ q.pc = "g3" /\ q.closed = Closed(ran.window) /\ q.plan = ran.plan /\ q.lib = ran.lib
        /\ q.window = ran.window /\ q.raced = ran.raced /\ q.at = ran.at /\ q.replays = ran.replays
        /\ q.record = ran.record
    <3> DEFINE b == Closed(ran.window)
    <3> HIDE DEF b, ran
    <3> QED BY <1>3, <2>1 DEF Jobs, Pcs, b
  <2>3. job' = [job EXCEPT ![c] = q]
    BY <1>4
  <2> HIDE DEF q, ran
  <2>4. JobOK(q)
    BY <1>1, <1>3, <2>2, NoRecordIs DEF JobOK, Replayed, G2
  <2>5. GoesTo(c, q)
    BY <1>1, <1>3, <1>4, <2>2, <2>4 DEF GoesTo, HasPassed, ClosedCall
  <2> QED BY <2>3, <2>5 DEF G2, Quiet
<1>5. CASE job' = [job EXCEPT ![c] =
                     [ran EXCEPT !.pc = "failed", !.record = Record(ran.plan, TRUE, FALSE, 0, FALSE)]]
  <2> DEFINE q == [ran EXCEPT !.pc = "failed", !.record = Record(ran.plan, TRUE, FALSE, 0, FALSE)]
  <2>1. job' = [job EXCEPT ![c] = q]
    BY <1>5
  <2>2. /\ q \in Jobs /\ q.pc = "failed" /\ q.record.plan = j.plan /\ ~q.record.g2 /\ ~q.record.approved
        /\ q.plan = j.plan /\ q.lib = j.lib /\ q.window = j.window /\ q.raced = j.raced
    <3> DEFINE x == Record(ran.plan, TRUE, FALSE, 0, FALSE)
    <3>1. 0 \in Int
      BY Zero
    <3>2. ran \in Jobs /\ "failed" \in Pcs /\ ran.plan \in Plans \cup {""}
      BY <1>1, <1>3 DEF Pcs
    <3>3. x \in Records /\ x.plan = ran.plan /\ ~x.g2 /\ ~x.approved
      <4> HIDE DEF ran
      <4>1. Outcome(ran.plan, 0, x) /\ x = Record(ran.plan, TRUE, FALSE, 0, FALSE)
        BY DEF Outcome
      <4> HIDE DEF x
      <4> QED BY <3>1, <3>2, <4>1, RecordIs, Zenon
    <3>4. q = [ran EXCEPT !.pc = "failed", !.record = x]
      OBVIOUS
    <3> HIDE DEF ran, x, q
    <3>5. Became(q, ran, "failed", x)
      BY <3>2, <3>3, <3>4, EndedIs
    <3> QED BY <1>3, <3>3, <3>5 DEF Became
  <2> HIDE DEF q
  <2>3. JobOK(q)
    BY <1>1, <2>2 DEF JobOK
  <2>4. GoesTo(c, q)
    BY <1>1, <2>2, <2>3 DEF GoesTo, HasPassed, ClosedCall
  <2> QED BY <2>1, <2>4 DEF G2, Quiet
<1> QED BY <1>3, <1>4, <1>5 DEF G2

LEMMA G3Goes ==
    ASSUME TypeInv, NEW c \in Callers, JobOK(job[c]), NEW delta \in Int, G3(c, delta)
    PROVE  Quiet /\ UNCHANGED caches /\ \E r : GoesTo(c, r) /\ job' = [job EXCEPT ![c] = r]
<1> DEFINE j == job[c]
           ran == [j EXCEPT !.delta = delta]
<1>1. /\ j \in Jobs /\ j.pc = "g3" /\ j.plan \in Plans /\ j.lib \in Libraries /\ j.window \in Windows
      /\ ~j.raced /\ ~j.record.approved /\ j.record = NoRecord /\ Replayed(j)
  BY JobTyped, NoRecordIs DEF G3, JobOK
<1>2. /\ ran \in Jobs /\ ran.plan = j.plan /\ ran.lib = j.lib /\ ran.window = j.window
      /\ ran.raced = j.raced /\ ran.at = j.at /\ ran.replays = j.replays /\ ran.record = j.record
      /\ ran.closed = j.closed /\ ran.delta = delta
  <2> HIDE DEF j
  <2> QED BY <1>1 DEF Jobs
<1>3. CASE GateG3(delta) /\ job' = [job EXCEPT ![c] = [ran EXCEPT !.pc = "g4"]]
  <2> DEFINE q == [ran EXCEPT !.pc = "g4"]
  <2>1. Became(q, ran, "g4", ran.record)
    <3> HIDE DEF ran
    <3> QED BY <1>2, MovedIs DEF Pcs
  <2>2. job' = [job EXCEPT ![c] = q]
    BY <1>3
  <2> HIDE DEF q, ran
  <2>3. /\ q \in Jobs /\ q.pc = "g4" /\ q.plan = j.plan /\ q.lib = j.lib /\ q.window = j.window
        /\ q.raced = j.raced /\ q.at = j.at /\ q.replays = j.replays /\ q.record = NoRecord
        /\ q.closed = j.closed /\ q.delta >= Epsilon
    BY <1>1, <1>2, <1>3, <2>1 DEF Became, GateG3
  <2>4. JobOK(q)
    BY <1>1, <2>3, NoRecordIs DEF JobOK, Replayed
  <2>5. GoesTo(c, q)
    BY <1>1, <2>3, <2>4, NoRecordIs DEF GoesTo, HasPassed, ClosedCall
  <2> QED BY <2>2, <2>5 DEF G3, Quiet
<1>4. CASE job' = [job EXCEPT ![c] =
                     [ran EXCEPT !.pc = "failed", !.record = Record(ran.plan, TRUE, TRUE, delta, FALSE)]]
  <2> DEFINE x == Record(ran.plan, TRUE, TRUE, delta, FALSE)
             q == [ran EXCEPT !.pc = "failed", !.record = x]
  <2>1. job' = [job EXCEPT ![c] = q]
    BY <1>4
  <2>2. ran \in Jobs /\ "failed" \in Pcs /\ ran.plan \in Plans \cup {""}
    BY <1>1, <1>2 DEF Pcs
  <2>3. x \in Records /\ x.plan = ran.plan /\ ~x.approved
    <3> HIDE DEF ran
    <3>1. Outcome(ran.plan, delta, x) /\ x = Record(ran.plan, TRUE, TRUE, delta, FALSE)
      BY DEF Outcome
    <3> HIDE DEF x
    <3> QED BY <2>2, <3>1, RecordIs, Zenon
  <2>4. q = [ran EXCEPT !.pc = "failed", !.record = x]
    OBVIOUS
  <2> HIDE DEF ran, x, q
  <2>5. Became(q, ran, "failed", x)
    BY <2>2, <2>3, <2>4, EndedIs
  <2>6. /\ q \in Jobs /\ q.pc = "failed" /\ q.plan = j.plan /\ q.lib = j.lib /\ q.window = j.window
        /\ q.raced = j.raced /\ q.at = j.at /\ q.record.plan = j.plan /\ ~q.record.approved
    BY <1>2, <2>3, <2>5 DEF Became
  <2>7. JobOK(q)
    BY <1>1, <2>6 DEF JobOK
  <2>8. GoesTo(c, q)
    BY <1>1, <2>6, <2>7 DEF GoesTo, HasPassed, ClosedCall
  <2> QED BY <2>1, <2>8 DEF G3, Quiet
<1> QED BY <1>2, <1>3, <1>4 DEF G3

LEMMA G4Goes ==
    ASSUME TypeInv, NEW c \in Callers, JobOK(job[c]), NEW answer \in {"yes", "no", "truthy"}, G4(c, answer)
    PROVE  Quiet /\ UNCHANGED caches /\ \E r : GoesTo(c, r) /\ job' = [job EXCEPT ![c] = r]
<1> DEFINE j == job[c]
           ran == [j EXCEPT !.asked = answer]
           d == ran.delta
<1>1. /\ j \in Jobs /\ j.pc = "g4" /\ j.plan \in Plans /\ j.lib \in Libraries /\ j.window \in Windows
      /\ ~j.raced /\ ~j.record.approved /\ j.record = NoRecord /\ Replayed(j) /\ j.delta >= Epsilon
  BY JobTyped, NoRecordIs DEF G4, JobOK
<1>2. /\ ran \in Jobs /\ ran.plan = j.plan /\ ran.lib = j.lib /\ ran.window = j.window
      /\ ran.raced = j.raced /\ ran.at = j.at /\ ran.replays = j.replays /\ ran.record = j.record
      /\ ran.closed = j.closed /\ ran.delta = j.delta /\ d = j.delta /\ ran.asked = answer
  <2> HIDE DEF j
  <2> QED BY <1>1 DEF Jobs
<1>3. d \in Int /\ ran.plan \in Plans \cup {""}
  BY <1>1, <1>2 DEF Jobs
<1>4. CASE answer = "yes"
  <2> DEFINE x == Record(ran.plan, TRUE, TRUE, d, TRUE)
             q == [ran EXCEPT !.pc = "check", !.record = x]
  <2>1. job' = [job EXCEPT ![c] = q]
    BY <1>4 DEF G4
  <2>2. "check" \in Pcs
    BY DEF Pcs
  <2>3. x \in Records /\ x.plan = ran.plan /\ x.approved
    <3>1. Outcome(ran.plan, d, x)
      BY DEF Outcome
    <3>2. x.approved
      BY DEF Record
    <3> HIDE DEF ran, d, x
    <3> QED BY <1>3, <3>1, <3>2, RecordIs, Zenon
  <2>4. q = [ran EXCEPT !.pc = "check", !.record = x]
    OBVIOUS
  <2>5. x = Record(j.plan, TRUE, TRUE, j.delta, TRUE)
    <3> HIDE DEF ran, d
    <3> QED BY <1>2
  <2> HIDE DEF ran, d, x, q
  <2>6. Became(q, ran, "check", x)
    BY <1>2, <2>2, <2>3, <2>4, EndedIs
  <2>7. /\ q \in Jobs /\ q.pc = "check" /\ q.plan = j.plan /\ q.lib = j.lib /\ q.window = j.window
        /\ q.raced = j.raced /\ q.at = j.at /\ q.replays = j.replays /\ q.record = x
        /\ q.delta = j.delta /\ q.asked = "yes" /\ q.closed = j.closed
    BY <1>2, <1>4, <2>6 DEF Became
  <2>8. q.record = Record(q.plan, TRUE, TRUE, q.delta, TRUE)
    BY <2>5, <2>7
  <2>9. JobOK(q)
    BY <1>1, <2>3, <2>7, <2>8 DEF JobOK, Earned, Replayed
  <2>10. GoesTo(c, q)
    BY <1>1, <2>7, <2>9 DEF GoesTo, HasPassed, ClosedCall
  <2> QED BY <2>1, <2>10 DEF G4, Quiet
<1>5. CASE answer = "no"
  <2> DEFINE x == Record(ran.plan, TRUE, TRUE, d, FALSE)
             q == [ran EXCEPT !.pc = "failed", !.record = x]
  <2>1. job' = [job EXCEPT ![c] = q]
    BY <1>5 DEF G4
  <2>2. "failed" \in Pcs
    BY DEF Pcs
  <2>3. x \in Records /\ x.plan = ran.plan /\ ~x.approved
    <3>1. Outcome(ran.plan, d, x) /\ x = Record(ran.plan, TRUE, TRUE, d, FALSE)
      BY DEF Outcome
    <3> HIDE DEF ran, d, x
    <3> QED BY <1>3, <3>1, RecordIs, Zenon
  <2>4. q = [ran EXCEPT !.pc = "failed", !.record = x]
    OBVIOUS
  <2> HIDE DEF ran, d, x, q
  <2>5. Became(q, ran, "failed", x)
    BY <1>2, <2>2, <2>3, <2>4, EndedIs
  <2>6. /\ q \in Jobs /\ q.pc = "failed" /\ q.plan = j.plan /\ q.lib = j.lib /\ q.window = j.window
        /\ q.raced = j.raced /\ q.at = j.at /\ q.record.plan = j.plan /\ ~q.record.approved
    BY <1>2, <2>3, <2>5 DEF Became
  <2>7. JobOK(q)
    BY <1>1, <2>6 DEF JobOK
  <2>8. GoesTo(c, q)
    BY <1>1, <2>6, <2>7 DEF GoesTo, HasPassed, ClosedCall
  <2> QED BY <2>1, <2>8 DEF G4, Quiet
<1>6. CASE answer = "truthy"
  <2> DEFINE q == [ran EXCEPT !.pc = "raised"]
  <2>1. job' = [job EXCEPT ![c] = q]
    BY <1>6 DEF G4
  <2>2. Became(q, ran, "raised", ran.record)
    <3> HIDE DEF ran
    <3> QED BY <1>2, MovedIs DEF Pcs
  <2> HIDE DEF ran, d, q
  <2>3. /\ q \in Jobs /\ q.pc = "raised" /\ q.plan = j.plan /\ q.lib = j.lib /\ q.window = j.window
        /\ q.raced = j.raced /\ q.at = j.at /\ q.record = j.record
    BY <1>2, <2>2 DEF Became
  <2>4. JobOK(q)
    BY <1>1, <2>3 DEF JobOK
  <2>5. GoesTo(c, q)
    BY <1>1, <2>3, <2>4 DEF GoesTo, HasPassed, ClosedCall
  <2> QED BY <2>1, <2>5 DEF G4, Quiet
<1> QED BY <1>4, <1>5, <1>6

-----------------------------------------------------------------------------
(* SkillLibrary.register.                                                  *)
LEMMA MovesOn ==
    ASSUME TypeInv, NEW c \in Callers, JobOK(job[c]), NEW pc \in Pcs, Goes(c, pc),
           \/ /\ job[c].pc = "check" /\ pc \in {"done", "write"}
              /\ pc = "write" => Registrations(job[c].plan) = {}
           \/ job[c].pc = "write" /\ pc = "raised"
    PROVE  \E r : GoesTo(c, r) /\ job' = [job EXCEPT ![c] = r]
<1> DEFINE j == job[c]
           r == [j EXCEPT !.pc = pc]
<1>1. j \in Jobs /\ j.pc \in {"check", "write"} /\ (j.raced => j.pc = "write")
  BY JobTyped DEF JobOK
<1>2. Became(r, j, pc, j.record)
  <2> HIDE DEF j
  <2> QED BY <1>1, MovedIs
<1>3. job' = [job EXCEPT ![c] = r]
  BY DEF Goes
<1> HIDE DEF r
<1>4. JobOK(r)
  <2>1. /\ r.pc = pc /\ r.record = j.record /\ r.plan = j.plan /\ r.lib = j.lib /\ r.window = j.window
        /\ r.replays = j.replays /\ r.delta = j.delta /\ r.asked = j.asked /\ r.raced = j.raced
    BY <1>2 DEF Became
  <2>2. Earned(j) => Earned(r)
    BY <2>1 DEF Earned, Replayed
  <2>3. Replayed(j) => Replayed(r)
    BY <2>1 DEF Replayed
  <2> QED BY <1>1, <2>1, <2>2, <2>3 DEF JobOK
<1>5. GoesTo(c, r)
  BY <1>1, <1>2, <1>4 DEF GoesTo, HasPassed, ClosedCall, Became
<1> QED BY <1>3, <1>5

LEMMA KnownGoes ==
    ASSUME TypeInv, NEW c \in Callers, JobOK(job[c]), Known(c)
    PROVE  Quiet /\ UNCHANGED caches /\ \E r : GoesTo(c, r) /\ job' = [job EXCEPT ![c] = r]
<1>1. "done" \in Pcs
  BY DEF Pcs
<1> QED BY <1>1, MovesOn DEF Known, Quiet

LEMMA WriteFailsGoes ==
    ASSUME TypeInv, NEW c \in Callers, JobOK(job[c]), WriteFails(c)
    PROVE  Quiet /\ UNCHANGED caches /\ \E r : GoesTo(c, r) /\ job' = [job EXCEPT ![c] = r]
<1>1. "raised" \in Pcs
  BY DEF Pcs
<1> QED BY <1>1, MovesOn DEF WriteFails, Quiet

(* A library that finds a registration caches its plan.                    *)
Cached(c) ==
    /\ Registrations(job[c].plan) # {}
    /\ caches' = [caches EXCEPT ![job[c].lib].plans = @ \cup {job[c].plan}]

LEMMA ScanGoes ==
    ASSUME TypeInv, NEW c \in Callers, JobOK(job[c]), Scan(c)
    PROVE  /\ Quiet /\ \E r : GoesTo(c, r) /\ job' = [job EXCEPT ![c] = r]
           /\ UNCHANGED caches \/ (Cached(c) /\ job[c].pc # "idle")
<1>1. "done" \in Pcs /\ "write" \in Pcs
  BY DEF Pcs
<1>2. CASE Found(c)
  BY <1>1, <1>2, MovesOn DEF Scan, Quiet, Cached, Found
<1>3. CASE ~Found(c)
  BY <1>1, <1>3, MovesOn DEF Scan, Quiet, Found
<1> QED BY <1>2, <1>3

-----------------------------------------------------------------------------
(* What the servers do.                                                    *)
LEMMA HeadTail ==
    ASSUME NEW S, NEW s \in Seq(S), s # <<>>
    PROVE  /\ Tail(s) \in Seq(S) /\ Head(s) \in S /\ 1 \in DOMAIN s /\ Head(s) = s[1]
           /\ \A i \in DOMAIN Tail(s) : i + 1 \in DOMAIN s /\ Tail(s)[i] = s[i + 1]
<1>1. /\ Len(s) \in Nat \ {0} /\ Head(s) = s[1] /\ Tail(s) \in Seq(S) /\ Len(Tail(s)) = Len(s) - 1
      /\ \A i \in 1 .. Len(Tail(s)) : Tail(s)[i] = s[i + 1]
  BY HeadTailProperties, EmptySeq, LenProperties
<1>2. DOMAIN s = 1 .. Len(s) /\ DOMAIN Tail(s) = 1 .. Len(Tail(s)) /\ s[1] \in S
  BY <1>1, Long, Elements
<1> QED BY <1>1, <1>2

LEMMA EntryIs ==
    ASSUME NEW x \in Contents
    PROVE  /\ IsEntry(AuditEntry(x)) /\ AuditEntry(x).content = x
           /\ AuditEntry(x).id = Id(x) /\ AuditEntry(x).id \in Ids
<1>1. AuditEntry(x).content = x /\ AuditEntry(x).id = Id(x)
  BY DEF AuditEntry
<1>2. Id(x) \in Ids
  BY IdIs
<1> QED BY <1>1, <1>2 DEF IsEntry

(* A new entry of the server s.                                            *)
Emits(s, e) ==
    /\ IsEntry(e) /\ e.content.at = clock /\ e.id \in Ids
    /\ head' = [head EXCEPT ![s] = e.id] /\ built' = [built EXCEPT ![s] = Append(@, e)]
    /\ emitted' = emitted \cup {e}
    /\ UNCHANGED <<clock, log, caches, job>>

LEMMA BuildIs ==
    ASSUME TypeInv, NEW s \in Servers, Build(s)
    PROVE  \E e : Emits(s, e)
<1> DEFINE x == [prev |-> head[s], at |-> clock, what |-> Cardinality(emitted)]
           e == AuditEntry(x)
<1>1. Cardinality(emitted) \in Nat
  BY FS_CardinalityType DEF TypeInv
<1>2. head[s] \in Ids /\ clock \in Nat
  BY DEF TypeInv
<1>3. x \in Contents /\ x.at = clock
  BY <1>1, <1>2 DEF Contents
<1>4. /\ head' = [head EXCEPT ![s] = e.id] /\ built' = [built EXCEPT ![s] = Append(@, e)]
      /\ emitted' = emitted \cup {e} /\ UNCHANGED <<clock, log, caches, job>>
  BY DEF Build
<1> HIDE DEF x
<1>5. IsEntry(e) /\ e.content.at = clock /\ e.id \in Ids
  BY <1>3, EntryIs
<1> HIDE DEF e
<1> QED BY <1>4, <1>5 DEF Emits

LEMMA EmitsTyped ==
    ASSUME TypeInv, NEW s \in Servers, NEW e, Emits(s, e)
    PROVE  TypeInv'
<1>1. head' \in [Servers -> Ids]
  BY DEF TypeInv, Emits
<1>2. IsFiniteSet(emitted') /\ \A d \in emitted' : IsEntry(d)
  BY FS_AddElement DEF TypeInv, Emits
<1>3. built' \in [Servers -> Seq(emitted')]
  <2>1. emitted \subseteq emitted' /\ e \in emitted'
    BY DEF Emits
  <2>2. \A t \in Servers : built[t] \in Seq(emitted')
    BY <2>1, Longer DEF TypeInv
  <2>3. Append(built[s], e) \in Seq(emitted')
    BY <2>1, <2>2, Appended
  <2> QED BY <2>2, <2>3 DEF TypeInv, Emits
<1> QED BY <1>1, <1>2, <1>3 DEF TypeInv, Emits

LEMMA PersistTyped ==
    ASSUME TypeInv, NEW s \in Servers, built[s] # <<>>,
           built' = [built EXCEPT ![s] = Tail(@)],
           log' = Append(log, AuditDatom(Head(built[s]))) \/ log' = log,
           UNCHANGED <<clock, head, emitted, caches, job>>
    PROVE  TypeInv' /\ Head(built[s]) \in emitted
<1>1. built[s] \in Seq(emitted)
  BY DEF TypeInv
<1>2. Tail(built[s]) \in Seq(emitted) /\ Head(built[s]) \in emitted
  BY <1>1, HeadTail
<1>3. built' \in [Servers -> Seq(emitted)]
  BY <1>2 DEF TypeInv
<1>4. log' \in Seq(Rows)
  <2>1. AuditDatom(Head(built[s])) \in Rows
    BY <1>2, DatomIs DEF TypeInv
  <2>2. log \in Seq(Rows)
    BY DEF TypeInv
  <2>3. Append(log, AuditDatom(Head(built[s]))) \in Seq(Rows)
    BY <2>1, <2>2, Appended
  <2> QED BY <2>2, <2>3
<1> QED BY <1>2, <1>3, <1>4 DEF TypeInv

LEMMA RestartTyped ==
    ASSUME TypeInv, NEW s \in Servers, Restart(s)
    PROVE  TypeInv'
<1>1. Genesis \in Ids
  BY DEF Genesis, Ids
<1>2. <<>> \in Seq(emitted)
  OBVIOUS
<1> QED BY <1>1, <1>2 DEF TypeInv, Restart

LEMMA TickTyped ==
    ASSUME PromotionAssumption, TypeInv, Tick
    PROVE  TypeInv' /\ clock' \in Nat /\ clock' >= clock
BY DEF TypeInv, Tick, PromotionAssumption

(* A step of a call.                                                       *)
LEMMA CallTyped ==
    ASSUME TypeInv, NEW c \in Callers, NEW r, GoesTo(c, r), job' = [job EXCEPT ![c] = r], Quiet,
           UNCHANGED caches \/ (Cached(c) /\ job[c].pc # "idle"), JobOK(job[c])
    PROVE  TypeInv'
<1>1. job' \in [Callers -> Jobs]
  BY DEF TypeInv, GoesTo
<1>2. caches' \in [Libraries -> [plans : SUBSET Plans, records : SUBSET Records]]
  <2>1. CASE UNCHANGED caches
    BY <2>1 DEF TypeInv
  <2>2. CASE Cached(c) /\ job[c].pc # "idle"
    <3>1. job[c].plan \in Plans /\ job[c].lib \in Libraries
      BY <2>2 DEF JobOK
    <3> DEFINE p == job[c].plan
               l == job[c].lib
    <3>2. caches' = [caches EXCEPT ![l].plans = @ \cup {p}]
      BY <2>2 DEF Cached
    <3> HIDE DEF p, l
    <3> QED BY <3>1, <3>2 DEF TypeInv, p, l
  <2> QED BY <2>1, <2>2
<1> QED BY <1>1, <1>2 DEF TypeInv, Quiet

LEMMA ReopenTyped ==
    ASSUME TypeInv, NEW l \in Libraries, Reopen(l)
    PROVE  TypeInv'
BY DEF TypeInv, Reopen

-----------------------------------------------------------------------------
(* How the log grows.                                                      *)
Grows(s, s2) == Len(s) <= Len(s2) /\ \A i \in DOMAIN s : i \in DOMAIN s2 /\ s2[i] = s[i]

LEMMA PersistIs ==
    ASSUME TypeInv, NEW s \in Servers, Persist(s)
    PROVE  /\ Grows(log, log') /\ Head(built[s]) \in emitted
           /\ \A i \in DOMAIN log' : i \in DOMAIN log \/ log'[i] = AuditDatom(Head(built[s]))
<1> DEFINE d == AuditDatom(Head(built[s]))
<1>1. log \in Seq(Rows) /\ log' = Append(log, d)
  BY DEF TypeInv, Persist
<1>2. Head(built[s]) \in emitted
  BY PersistTyped DEF Persist
<1>3. d \in Rows
  BY <1>2, DatomIs DEF TypeInv
<1> HIDE DEF d
<1>4. /\ Len(log) \in Nat /\ Len(Append(log, d)) = Len(log) + 1
      /\ \A i \in DOMAIN log : i \in DOMAIN Append(log, d) /\ Append(log, d)[i] = log[i]
      /\ Append(log, d)[Len(log) + 1] = d
      /\ \A i \in DOMAIN Append(log, d) : i \in DOMAIN log \/ i = Len(log) + 1
  BY <1>1, <1>3, Appended
<1>5. Grows(log, log')
  BY <1>1, <1>4 DEF Grows
<1>6. \A i \in DOMAIN log' : i \in DOMAIN log \/ log'[i] = d
  BY <1>1, <1>4
<1> QED BY <1>2, <1>5, <1>6 DEF d

LEMMA SkillTyped ==
    ASSUME NEW r \in Records, NEW op \in {"assert", "retract"}
    PROVE  /\ Skill(op, r) \in Rows /\ Skill(op, r).kind = "skill" /\ Skill(op, r).op = op
           /\ Skill(op, r).record = r
BY DEF Skill, Rows, SkillRows

(* What register writes: an assert of its record and nothing else but      *)
(* retracts of records that are registered.                                *)
Writes(c) ==
    /\ log' \in Seq(Rows) /\ Grows(log, log')
    /\ \E m \in DOMAIN log' :
          /\ m \notin DOMAIN log /\ log'[m] = Skill("assert", job[c].record)
          /\ \A i \in DOMAIN log' :
                \/ i \in DOMAIN log \/ i = m
                \/ \E k \in Registrations(job[c].plan) : log'[i] = Skill("retract", log[k].record)

LEMMA RegistrationsAre ==
    ASSUME TypeInv, NEW p
    PROVE  /\ Registrations(p) \in SUBSET (1 .. Len(log)) /\ Len(log) \in Nat
           /\ \A i \in Registrations(p) : log[i].record \in Records /\ log[i].record.plan = p
<1>1. log \in Seq(Rows) /\ Len(log) \in Nat /\ DOMAIN log = 1 .. Len(log)
  BY Long DEF TypeInv
<1>2. \A i \in DOMAIN log : log[i].kind = "skill" => log[i].record \in Records
  BY <1>1, Elements DEF Rows, AuditRows, SkillRows
<1> QED BY <1>1, <1>2 DEF Registrations

LEMMA CompanionsAre ==
    ASSUME TypeInv, NEW p
    PROVE  /\ Companions(p) \in Seq(Rows)
           /\ \A i \in DOMAIN Companions(p) :
                 \E k \in Registrations(p) : Companions(p)[i] = Skill("retract", log[k].record)
<1>1. CASE Registrations(p) = {}
  BY <1>1 DEF Companions
<1>2. CASE Registrations(p) # {}
  <2> DEFINE m == Max(Registrations(p))
             d == Skill("retract", log[m].record)
  <2>1. m \in Registrations(p)
    BY <1>2, RegistrationsAre, MaxIs
  <2>2. d \in Rows
    BY <2>1, RegistrationsAre, SkillTyped
  <2>3. Companions(p) = <<d>>
    BY <1>2 DEF Companions
  <2> HIDE DEF d
  <2>4. <<d>> \in Seq(Rows) /\ \A i \in DOMAIN <<d>> : <<d>>[i] = d
    BY <2>2
  <2> QED BY <2>1, <2>3, <2>4 DEF d
<1> QED BY <1>1, <1>2

LEMMA WriteIs ==
    ASSUME TypeInv, NEW c \in Callers, Write(c)
    PROVE  Writes(c)
<1> DEFINE p == job[c].plan
           d == Skill("assert", job[c].record)
           u == Companions(p)
           v == log \o u
<1>1. log \in Seq(Rows) /\ u \in Seq(Rows) /\ d \in Rows
  BY CompanionsAre, JobTyped, SkillTyped DEF TypeInv
<1>2. log' = v \o <<d>>
  BY DEF Write
<1>3. \A i \in DOMAIN u : \E k \in Registrations(p) : u[i] = Skill("retract", log[k].record)
  BY CompanionsAre
<1> HIDE DEF u, d, p
<1>4. /\ v \in Seq(Rows) /\ Len(v) = Len(log) + Len(u) /\ Len(log) \in Nat /\ Len(u) \in Nat
      /\ \A i \in DOMAIN log : i \in DOMAIN v /\ v[i] = log[i]
      /\ \A i \in DOMAIN v : i \in DOMAIN log \/ (i - Len(log) \in DOMAIN u /\ v[i] = u[i - Len(log)])
  BY <1>1, Joined
<1> HIDE DEF v
<1> DEFINE w == <<d>>
           z == v \o w
<1>5. w \in Seq(Rows) /\ Len(w) = 1 /\ DOMAIN w = {1} /\ w[1] = d
  BY <1>1
<1>6. log' = z
  BY <1>2
<1> HIDE DEF w
<1>7. w \in Seq(Rows) /\ v \in Seq(Rows)
  BY <1>4, <1>5
<1>8. /\ z \in Seq(Rows) /\ Len(z) = Len(v) + Len(w) /\ DOMAIN v = 1 .. Len(v)
      /\ DOMAIN z = 1 .. Len(v) + Len(w)
      /\ \A i \in DOMAIN v : i \in DOMAIN z /\ z[i] = v[i]
      /\ \A i \in DOMAIN w : Len(v) + i \in DOMAIN z /\ z[Len(v) + i] = w[i]
      /\ \A i \in DOMAIN z : (i \in DOMAIN v /\ z[i] = v[i])
                             \/ (i - Len(v) \in DOMAIN w /\ z[i] = w[i - Len(v)])
  BY ONLY <1>7, Joined
<1> DEFINE m == Len(v) + 1
<1>9. m \in DOMAIN z /\ z[m] = d /\ m \notin DOMAIN log
  <2>1. DOMAIN log = 1 .. Len(log)
    BY <1>1, Long
  <2> QED BY <1>4, <1>5, <1>8, <2>1
<1>10. Grows(log, z)
  BY <1>4, <1>5, <1>8 DEF Grows
<1>11. ASSUME NEW i \in DOMAIN z
      PROVE  \/ i \in DOMAIN log \/ i = m
             \/ \E k \in Registrations(p) : z[i] = Skill("retract", log[k].record)
  <2>1. CASE i \in DOMAIN v /\ z[i] = v[i]
    BY <1>3, <1>4, <2>1
  <2>2. CASE i - Len(v) \in DOMAIN w
    <3>1. i - Len(v) = 1 /\ i \in Int /\ Len(v) \in Int
      BY <1>4, <1>5, <1>8, <2>2
    <3> QED BY <3>1
  <2> QED BY <1>8, <2>1, <2>2
<1> HIDE DEF z, m
<1>12. log' \in Seq(Rows) /\ Grows(log, log') /\ m \in DOMAIN log' /\ m \notin DOMAIN log /\ log'[m] = d
  BY <1>8, <1>9, <1>10, <1>6
<1>13. \A i \in DOMAIN log' :
          \/ i \in DOMAIN log \/ i = m
          \/ \E k \in Registrations(p) : log'[i] = Skill("retract", log[k].record)
  BY <1>11, <1>6
<1> QED BY <1>12, <1>13 DEF Writes, p, d

(* The call r is j after a registration: what its gates had found is as    *)
(* before, only its program counter and its race may differ.               *)
Kept(r, j) ==
    /\ r \in Jobs
    /\ r.record = j.record /\ r.plan = j.plan /\ r.lib = j.lib /\ r.window = j.window
    /\ r.replays = j.replays /\ r.delta = j.delta /\ r.asked = j.asked /\ r.closed = j.closed
    /\ r.at = j.at

LEMMA MarkedIs ==
    ASSUME NEW j \in Jobs, NEW b \in BOOLEAN, NEW r, r = [j EXCEPT !.raced = b]
    PROVE  Kept(r, j) /\ r.pc = j.pc /\ (r.raced <=> b)
BY DEF Jobs, Kept

(* The calls after c has written: those about to write the same have raced.*)
Races(c) ==
    /\ job' \in [Callers -> Jobs]
    /\ \A d \in Callers : Kept(job'[d], job[d])
    /\ job'[c].pc = "done" /\ (job'[c].raced <=> job[c].raced)
    /\ \A d \in Callers \ {c} :
         /\ job'[d].pc = job[d].pc
         /\ job'[d].raced <=> job[d].raced \/ d \in Others(c)

LEMMA WriteJobs ==
    ASSUME TypeInv, NEW c \in Callers, Write(c)
    PROVE  Races(c)
<1>1. job \in [Callers -> Jobs]
  BY DEF TypeInv
<1>2. job' = [d \in Callers |-> IF d = c THEN [job[c] EXCEPT !.pc = "done"]
                                ELSE [job[d] EXCEPT !.raced = @ \/ d \in Others(c)]]
  BY DEF Write
<1>3. Kept(job'[c], job[c]) /\ job'[c].pc = "done" /\ (job'[c].raced <=> job[c].raced)
  <2> DEFINE j == job[c]
             r == [j EXCEPT !.pc = "done"]
  <2>1. job'[c] = r
    BY <1>2
  <2>2. Became(r, j, "done", j.record)
    <3>1. j \in Jobs
      BY <1>1
    <3> HIDE DEF j
    <3> QED BY <3>1, MovedIs DEF Pcs
  <2> HIDE DEF j, r
  <2>3. Kept(r, j) /\ r.pc = "done" /\ r.raced = j.raced
    BY <2>2 DEF Became, Kept
  <2> QED BY <2>1, <2>3 DEF j
<1>4. ASSUME NEW d \in Callers \ {c}
      PROVE  /\ Kept(job'[d], job[d]) /\ job'[d].pc = job[d].pc
             /\ job'[d].raced <=> job[d].raced \/ d \in Others(c)
  <2> DEFINE j == job[d]
             b == j.raced \/ d \in Others(c)
             r == [j EXCEPT !.raced = b]
  <2>1. job'[d] = r
    BY <1>2
  <2>2. j \in Jobs /\ b \in BOOLEAN
    BY <1>1
  <2>3. r = [j EXCEPT !.raced = b]
    OBVIOUS
  <2> HIDE DEF j, r
  <2>4. Kept(r, j) /\ r.pc = j.pc /\ (r.raced <=> b)
    <3> HIDE DEF b
    <3> QED BY <2>2, <2>3, MarkedIs
  <2> QED BY <2>1, <2>4 DEF j
<1>5. job' \in [Callers -> Jobs]
  <2>1. \A d \in Callers : job'[d] \in Jobs
    BY <1>3, <1>4 DEF Kept
  <2>2. DOMAIN job' = Callers /\ job' = [d \in Callers |-> job'[d]]
    BY <1>2
  <2> QED BY <2>1, <2>2
<1> QED BY <1>3, <1>4, <1>5 DEF Races

LEMMA WriteTyped ==
    ASSUME TypeInv, NEW c \in Callers, JobOK(job[c]), Write(c)
    PROVE  TypeInv'
<1>1. log' \in Seq(Rows) /\ job' \in [Callers -> Jobs]
  BY WriteIs, WriteJobs DEF Writes, Races
<1>2. caches' \in [Libraries -> [plans : SUBSET Plans, records : SUBSET Records]]
  <2> DEFINE p == job[c].plan
             l == job[c].lib
             r == job[c].record
  <2>1. p \in Plans /\ l \in Libraries /\ r \in Records
    BY JobTyped DEF JobOK, Write
  <2>2. caches' = [caches EXCEPT ![l] = [plans |-> @.plans \cup {p}, records |-> @.records \cup {r}]]
    BY DEF Write
  <2> HIDE DEF p, l, r
  <2>3. caches[l].plans \cup {p} \in SUBSET Plans /\ caches[l].records \cup {r} \in SUBSET Records
    BY <2>1 DEF TypeInv
  <2> QED BY <2>1, <2>2, <2>3 DEF TypeInv
<1> QED BY <1>1, <1>2 DEF TypeInv, Write

-----------------------------------------------------------------------------
(* What has been passed stays passed.                                      *)
JobInv == \A c \in Callers : JobOK(job[c])

Seen(store, w, n) == {i \in EntriesIn(store, w) : i <= n}

(* What G2 saw when it looked at the first j.at datoms.                    *)
GateHeld(store, j) ==
    /\ j.at <= Len(store) /\ Seen(store, j.window, j.at) # {}
    /\ VerifyChain(store, Seen(store, j.window, j.at))

PassInv == \A c \in Callers : HasPassed(job[c]) => GateHeld(log, job[c])

LEMMA ChainKept ==
    ASSUME NEW s, NEW s2, Grows(s, s2), NEW I \in SUBSET DOMAIN s
    PROVE  VerifyChain(s, I) => VerifyChain(s2, I)
<1>1. \A i \in I : s2[i] = s[i]
  BY DEF Grows
<1>2. \A i \in I : Hashed(s[i]) => Hashed(s2[i])
  BY <1>1
<1>3. ASSUME NEW i \in I, Carried(s, I, i, s[i].prev) PROVE Carried(s2, I, i, s2[i].prev)
  BY <1>1, <1>3 DEF Carried
<1> QED BY <1>2, <1>3 DEF VerifyChain

LEMMA SeenKept ==
    ASSUME NEW s \in Seq(Rows), NEW s2 \in Seq(Rows), Grows(s, s2), NEW w, NEW n \in Nat, n <= Len(s)
    PROVE  Seen(s2, w, n) = Seen(s, w, n)
<1>1. DOMAIN s = 1 .. Len(s) /\ DOMAIN s2 = 1 .. Len(s2) /\ Len(s) \in Nat /\ Len(s2) \in Nat
  BY Long
<1>2. \A i : i \in DOMAIN s2 /\ i <= n => i \in DOMAIN s /\ s2[i] = s[i]
  BY <1>1 DEF Grows
<1>3. \A i : i \in DOMAIN s => i \in DOMAIN s2 /\ s2[i] = s[i]
  BY DEF Grows
<1> QED BY <1>2, <1>3 DEF Seen, EntriesIn

LEMMA HeldKept ==
    ASSUME NEW s \in Seq(Rows), NEW s2 \in Seq(Rows), Grows(s, s2), NEW j \in Jobs, NEW r \in Jobs,
           GateHeld(s, j), r.at = j.at, r.window = j.window
    PROVE  GateHeld(s2, r)
<1>1. j.at \in Nat /\ j.at <= Len(s) /\ Len(s) \in Nat /\ Len(s2) \in Nat /\ Len(s) <= Len(s2)
  BY Long DEF Jobs, GateHeld, Grows
<1>2. Seen(s2, r.window, r.at) = Seen(s, j.window, j.at)
  BY <1>1, SeenKept
<1>3. Seen(s, j.window, j.at) \in SUBSET DOMAIN s
  BY DEF Seen, EntriesIn
<1> QED BY <1>1, <1>2, <1>3, ChainKept DEF GateHeld

LEMMA GrowsAlone == ASSUME NEW s \in Seq(Rows) PROVE Grows(s, s)
BY Long DEF Grows

(* A gate that passes now has seen all of the window.                      *)
LEMMA GateSees ==
    ASSUME TypeInv, NEW r \in Jobs, GateG2(log, r.window), r.at = Len(log)
    PROVE  GateHeld(log, r)
<1>1. DOMAIN log = 1 .. Len(log) /\ Len(log) \in Nat
  BY Long DEF TypeInv
<1>2. Seen(log, r.window, r.at) = EntriesIn(log, r.window)
  BY <1>1 DEF Seen, EntriesIn
<1> QED BY <1>1, <1>2 DEF GateHeld, GateG2

LEMMA CallKeeps ==
    ASSUME TypeInv, JobInv, PassInv, NEW c \in Callers, NEW r, GoesTo(c, r),
           job' = [job EXCEPT ![c] = r], Quiet
    PROVE  JobInv' /\ PassInv'
<1>1. job'[c] = r /\ \A d \in Callers \ {c} : job'[d] = job[d]
  BY DEF TypeInv
<1>2. JobInv'
  BY <1>1 DEF JobInv, GoesTo
<1>3. log' = log
  BY DEF Quiet
<1>4. HasPassed(r) => GateHeld(log, r)
  <2>1. r \in Jobs /\ job[c] \in Jobs /\ log \in Seq(Rows)
    BY JobTyped DEF GoesTo, TypeInv
  <2>2. CASE GateG2(log, r.window) /\ r.at = Len(log)
    BY <2>1, <2>2, GateSees
  <2>3. CASE HasPassed(r) => HasPassed(job[c]) /\ r.at = job[c].at /\ r.window = job[c].window
    BY <2>1, <2>3, HeldKept, GrowsAlone DEF PassInv
  <2> QED BY <2>2, <2>3 DEF GoesTo
<1>5. \A d \in Callers : HasPassed(job'[d]) => GateHeld(log', job'[d])
  BY <1>1, <1>3, <1>4 DEF PassInv
<1> QED BY <1>2, <1>5 DEF PassInv

LEMMA LogKeeps ==
    ASSUME TypeInv, PassInv, log' \in Seq(Rows), Grows(log, log'), NEW d \in Callers, Kept(job'[d], job[d]),
           HasPassed(job'[d]) => HasPassed(job[d])
    PROVE  HasPassed(job'[d]) => GateHeld(log', job'[d])
<1>1. job[d] \in Jobs /\ log \in Seq(Rows)
  BY JobTyped DEF TypeInv
<1> QED BY <1>1, HeldKept DEF PassInv, Kept

LEMMA KeptAlone == ASSUME NEW j \in Jobs PROVE Kept(j, j)
BY DEF Kept

LEMMA ServerKeeps ==
    ASSUME TypeInv, TypeInv', JobInv, PassInv, UNCHANGED job, Grows(log, log')
    PROVE  JobInv' /\ PassInv'
<1>1. JobInv'
  BY DEF JobInv
<1>2. ASSUME NEW d \in Callers PROVE HasPassed(job'[d]) => GateHeld(log', job'[d])
  <2>1. Kept(job'[d], job[d]) /\ log' \in Seq(Rows) /\ (HasPassed(job'[d]) => HasPassed(job[d]))
    BY JobTyped, KeptAlone DEF TypeInv
  <2> QED BY <2>1, LogKeeps
<1> QED BY <1>1, <1>2 DEF PassInv

LEMMA WriteKeeps ==
    ASSUME TypeInv, JobInv, PassInv, NEW c \in Callers, Write(c)
    PROVE  JobInv' /\ PassInv'
<1>1. log' \in Seq(Rows) /\ Grows(log, log') /\ Races(c)
  BY WriteIs, WriteJobs DEF Writes
<1>2. job[c].pc = "write" /\ \A d \in Others(c) : job[d].pc = "write"
  BY DEF Write, Others
<1>3. ASSUME NEW d \in Callers
      PROVE  /\ Kept(job'[d], job[d])
             /\ \/ job'[d].pc = job[d].pc /\ (job'[d].raced => job[d].raced \/ job[d].pc = "write")
                \/ job[d].pc = "write" /\ job'[d].pc = "done"
  <2>1. CASE d = c
    BY <1>1, <1>2, <2>1 DEF Races
  <2>2. CASE d # c
    <3>1. d \in Callers \ {c}
      BY <2>2
    <3>2. /\ Kept(job'[d], job[d]) /\ job'[d].pc = job[d].pc
          /\ job'[d].raced <=> job[d].raced \/ d \in Others(c)
      BY <1>1, <3>1, Zenon DEF Races
    <3> QED BY <1>2, <3>2, Zenon
  <2> QED BY <2>1, <2>2
<1>4. ASSUME NEW d \in Callers PROVE JobOK(job'[d])
  <2> DEFINE j == job[d]
             r == job'[d]
  <2>1. JobOK(j) /\ Kept(r, j)
    BY <1>3 DEF JobInv
  <2>2. \/ r.pc = j.pc /\ (r.raced => j.raced \/ j.pc = "write")
        \/ j.pc = "write" /\ r.pc = "done"
    BY <1>3
  <2> HIDE DEF j, r
  <2>3. (Replayed(j) => Replayed(r)) /\ (Earned(j) => Earned(r))
    BY <2>1 DEF Kept, Replayed, Earned
  <2>4. /\ r.record = j.record /\ r.plan = j.plan /\ r.lib = j.lib /\ r.window = j.window
        /\ r.delta = j.delta /\ r.closed = j.closed
    BY <2>1 DEF Kept
  <2>5. JobOK(j)
    BY <2>1
  <2>6. JobOK(r)
    BY ONLY <2>2, <2>3, <2>4, <2>5 DEF JobOK
  <2> QED BY <2>6 DEF r
<1>5. ASSUME NEW d \in Callers PROVE HasPassed(job'[d]) => GateHeld(log', job'[d])
  <2>1. HasPassed(job'[d]) => HasPassed(job[d])
    BY <1>3 DEF HasPassed, Kept
  <2> QED BY <1>1, <1>3, <2>1, LogKeeps
<1> QED BY <1>4, <1>5 DEF JobInv, PassInv

-----------------------------------------------------------------------------
(* What is registered, by whom and how often, and what libraries cache.    *)
SkillInv ==
    \A i \in DOMAIN log : log[i].kind = "skill" =>
        \E c \in Callers : job[c].record = log[i].record /\ job[c].record.approved

WriterInv ==
    \A c \in Callers : job[c].pc = "write" => Registrations(job[c].plan) = {} \/ job[c].raced

Raced(p) == {c \in Callers : job[c].raced /\ job[c].plan = p /\ job[c].pc # "write"}

CountInv == \A p \in Plans : Cardinality(Registrations(p)) <= 1 + Cardinality(Raced(p))

CacheInv ==
    \A l \in Libraries :
        /\ \A p \in caches[l].plans : Registrations(p) # {}
        /\ \A r \in caches[l].records : \E i \in Registrations(r.plan) : log[i].record = r

(* The log gets at most an audit datom.                                    *)
Audits ==
    /\ Grows(log, log')
    /\ \A i \in DOMAIN log' : i \in DOMAIN log \/ log'[i].kind = "audit"

LEMMA RegistrationsGrow ==
    ASSUME Grows(log, log'), NEW p
    PROVE  \A i \in Registrations(p) : i \in Registrations(p)' /\ log'[i] = log[i]
BY DEF Grows, Registrations

LEMMA RegistrationsSame ==
    ASSUME Audits, NEW p
    PROVE  Registrations(p)' = Registrations(p)
<1>1. \A i : i \in DOMAIN log => i \in DOMAIN log' /\ log'[i] = log[i]
  BY DEF Audits, Grows
<1>2. \A i \in DOMAIN log' : i \in DOMAIN log \/ log'[i].kind # "skill"
  BY DEF Audits
<1> QED BY <1>1, <1>2 DEF Registrations

LEMMA AuditsNothing == ASSUME TypeInv, UNCHANGED log PROVE Audits
BY GrowsAlone DEF TypeInv, Audits

LEMMA WriterIs ==
    ASSUME TypeInv, JobInv, NEW c \in Callers, Write(c)
    PROVE  /\ job[c].record \in Records /\ job[c].record.approved
           /\ job[c].plan \in Plans /\ job[c].record.plan = job[c].plan
<1>1. JobOK(job[c]) /\ job[c].pc = "write"
  BY DEF JobInv, Write
<1>2. Earned(job[c]) /\ job[c].plan \in Plans
  BY <1>1 DEF JobOK
<1>3. job[c].record.plan = job[c].plan
  BY <1>2 DEF Earned, Record
<1> QED BY <1>1, <1>2, <1>3, JobTyped DEF JobOK

LEMMA WriteRegisters ==
    ASSUME TypeInv, JobInv, NEW c \in Callers, Write(c)
    PROVE  \E m : \A p :
              /\ p = job[c].plan => Registrations(p)' = Registrations(p) \cup {m} /\ m \notin Registrations(p)
              /\ p # job[c].plan => Registrations(p)' = Registrations(p)
              /\ log'[m].record = job[c].record
<1>1. Grows(log, log')
  BY WriteIs DEF Writes
<1>2. PICK m \in DOMAIN log' :
          /\ m \notin DOMAIN log /\ log'[m] = Skill("assert", job[c].record)
          /\ \A i \in DOMAIN log' :
                \/ i \in DOMAIN log \/ i = m
                \/ \E k \in Registrations(job[c].plan) : log'[i] = Skill("retract", log[k].record)
  BY WriteIs DEF Writes
<1>3. \A i : i \in DOMAIN log => i \in DOMAIN log' /\ log'[i] = log[i]
  BY <1>1 DEF Grows
<1>4. /\ log'[m].kind = "skill" /\ log'[m].op = "assert" /\ log'[m].record = job[c].record
      /\ job[c].record.plan = job[c].plan
  BY <1>2, WriterIs DEF Skill
<1>5. \A i \in DOMAIN log' : i \in DOMAIN log \/ i = m \/ log'[i].op # "assert"
  BY <1>2 DEF Skill
<1>6. ASSUME NEW p
      PROVE  \A i : i \in Registrations(p)' <=> i \in Registrations(p) \/ (i = m /\ p = job[c].plan)
  BY <1>2, <1>3, <1>4, <1>5 DEF Registrations
<1>7. ASSUME NEW p
      PROVE  /\ p = job[c].plan => Registrations(p)' = Registrations(p) \cup {m} /\ m \notin Registrations(p)
             /\ p # job[c].plan => Registrations(p)' = Registrations(p)
  <2>1. m \notin Registrations(p)
    BY <1>2 DEF Registrations
  <2> QED BY <1>6, <2>1
<1> QED BY <1>4, <1>7

LEMMA RegistrationsFinite ==
    ASSUME TypeInv, NEW p
    PROVE  IsFiniteSet(Registrations(p))
<1>1. IsFiniteSet(1 .. Len(log)) /\ Registrations(p) \in SUBSET (1 .. Len(log))
  BY RegistrationsAre, FS_Interval
<1> QED BY <1>1, FS_Subset

(* More calls that raced allow as many registrations.                      *)
LEMMA RacedGrows ==
    ASSUME IsFiniteSet(Callers), NEW A \in SUBSET Callers, NEW B \in SUBSET Callers, A \subseteq B
    PROVE  Cardinality(A) \in Nat /\ Cardinality(B) \in Nat /\ Cardinality(A) <= Cardinality(B)
<1>1. IsFiniteSet(A) /\ IsFiniteSet(B)
  BY FS_Subset
<1> QED BY <1>1, FS_Subset, FS_CardinalityType

LEMMA CountKept ==
    ASSUME PromotionAssumption, TypeInv, NEW p, Registrations(p)' = Registrations(p), Raced(p) \subseteq Raced(p)',
           Cardinality(Registrations(p)) <= 1 + Cardinality(Raced(p))
    PROVE  (Cardinality(Registrations(p)) <= 1 + Cardinality(Raced(p)))'
<1>1. /\ Cardinality(Raced(p)) \in Nat /\ Cardinality(Raced(p)') \in Nat
      /\ Cardinality(Raced(p)) <= Cardinality(Raced(p)')
  <2> DEFINE A == Raced(p)
             B == Raced(p)'
  <2>1. A \in SUBSET Callers /\ B \in SUBSET Callers /\ A \subseteq B
    BY DEF Raced
  <2> HIDE DEF A, B
  <2>2. Cardinality(A) \in Nat /\ Cardinality(B) \in Nat /\ Cardinality(A) <= Cardinality(B)
    BY <2>1, RacedGrows DEF PromotionAssumption
  <2> QED BY <2>2 DEF A, B
<1>2. Cardinality(Registrations(p)) \in Nat
  BY RegistrationsFinite, FS_CardinalityType
<1> QED BY <1>1, <1>2

LEMMA CacheIs ==
    ASSUME TypeInv, NEW l \in Libraries, NEW k, NEW q, caches' = [caches EXCEPT ![k].plans = @ \cup {q}]
    PROVE  caches'[l].records = caches[l].records /\ caches'[l].plans \subseteq caches[l].plans \cup {q}
<1> DEFINE x == caches[l]
<1>1. x \in [plans : SUBSET Plans, records : SUBSET Records] /\ l \in DOMAIN caches
  BY DEF TypeInv
<1>2. l # k => caches'[l] = x
  BY <1>1
<1>3. l = k => caches'[l] = [x EXCEPT !.plans = @ \cup {q}]
  BY <1>1
<1> HIDE DEF x
<1>4. CASE caches'[l] = x
  BY <1>4 DEF x
<1>5. CASE caches'[l] = [x EXCEPT !.plans = @ \cup {q}]
  <2>1. caches'[l].records = x.records /\ caches'[l].plans = x.plans \cup {q}
    BY <1>1, <1>5
  <2> QED BY <2>1 DEF x
<1> QED BY <1>2, <1>3, <1>4, <1>5

LEMMA CallStores ==
    ASSUME PromotionAssumption, TypeInv, JobInv, SkillInv, WriterInv, CountInv, CacheInv,
           NEW c \in Callers, NEW r, GoesTo(c, r), job' = [job EXCEPT ![c] = r], Quiet,
           UNCHANGED caches \/ (Cached(c) /\ job[c].pc # "idle")
    PROVE  SkillInv' /\ WriterInv' /\ CountInv' /\ CacheInv'
<1>1. job'[c] = r /\ (\A d \in Callers \ {c} : job'[d] = job[d]) /\ log' = log
  BY DEF TypeInv, Quiet
<1>2. ASSUME NEW p PROVE Registrations(p)' = Registrations(p)
  BY AuditsNothing, RegistrationsSame, <1>1
<1>3. JobOK(job[c])
  BY DEF JobInv
<1>4. SkillInv'
  <2>1. job[c].record.approved => r.record = job[c].record
    BY <1>3, NoRecordIs DEF GoesTo, JobOK
  <2>2. ASSUME NEW i \in DOMAIN log, log[i].kind = "skill"
        PROVE  \E d \in Callers : job'[d].record = log[i].record /\ job'[d].record.approved
    <3>1. PICK d \in Callers : job[d].record = log[i].record /\ job[d].record.approved
      BY <2>2 DEF SkillInv
    <3>2. job'[d].record = job[d].record
      BY <1>1, <2>1, <3>1
    <3> QED BY <3>1, <3>2
  <2> QED BY <1>1, <2>2 DEF SkillInv
<1>5. WriterInv'
  <2>1. r.pc = "write" => Registrations(r.plan) = {}
    BY DEF GoesTo
  <2>2. ASSUME NEW d \in Callers, job'[d].pc = "write"
        PROVE  Registrations(job'[d].plan) = {} \/ job'[d].raced
    BY <1>1, <2>1, <2>2 DEF WriterInv
  <2> QED BY <1>2, <2>2 DEF WriterInv
<1>6. CountInv'
  <2>1. job[c].raced => job[c].pc = "write"
    BY <1>3 DEF GoesTo, JobOK
  <2>2. ASSUME NEW p \in Plans PROVE (Cardinality(Registrations(p)) <= 1 + Cardinality(Raced(p)))'
    <3>1. Raced(p) \subseteq Raced(p)'
      BY <1>1, <2>1 DEF Raced
    <3> QED BY <1>2, <3>1, CountKept DEF CountInv
  <2> QED BY <2>2 DEF CountInv
<1>7. CacheInv'
  <2>1. ASSUME NEW l \in Libraries, NEW p \in caches'[l].plans PROVE Registrations(p) # {}
    <3> DEFINE q == job[c].plan
               k == job[c].lib
    <3>1. caches' = caches \/ (caches' = [caches EXCEPT ![k].plans = @ \cup {q}] /\ Registrations(q) # {})
      BY DEF Cached
    <3> HIDE DEF q, k
    <3>2. p \in caches[l].plans \/ (p = q /\ Registrations(q) # {})
      BY <3>1, CacheIs
    <3> QED BY <3>2 DEF CacheInv
  <2>2. ASSUME NEW l \in Libraries PROVE caches'[l].records = caches[l].records
    <3> DEFINE q == job[c].plan
               k == job[c].lib
    <3>1. caches' = caches \/ caches' = [caches EXCEPT ![k].plans = @ \cup {q}]
      BY DEF Cached
    <3> HIDE DEF q, k
    <3> QED BY <3>1, CacheIs
  <2>3. \A p : Registrations(p)' = Registrations(p)
    BY <1>2
  <2> QED BY <1>1, <2>1, <2>2, <2>3 DEF CacheInv
<1> QED BY <1>4, <1>5, <1>6, <1>7

LEMMA ServerStores ==
    ASSUME PromotionAssumption, TypeInv, SkillInv, WriterInv, CountInv, CacheInv, Audits, UNCHANGED <<job, caches>>
    PROVE  SkillInv' /\ WriterInv' /\ CountInv' /\ CacheInv'
<1>1. \A p : Registrations(p)' = Registrations(p)
  BY RegistrationsSame
<1>2. \A p : \A i \in Registrations(p) : log'[i] = log[i]
  BY RegistrationsGrow DEF Audits
<1>3. SkillInv'
  <2>1. \A i \in DOMAIN log' : log'[i].kind = "skill" => i \in DOMAIN log /\ log'[i] = log[i]
    BY DEF Audits, Grows
  <2> QED BY <2>1 DEF SkillInv
<1>4. WriterInv'
  BY <1>1 DEF WriterInv
<1>5. CountInv'
  BY <1>1 DEF CountInv, Raced
<1>6. CacheInv'
  BY <1>1, <1>2 DEF CacheInv
<1> QED BY <1>3, <1>4, <1>5, <1>6

LEMMA WriteCaches ==
    ASSUME TypeInv, NEW c \in Callers, Write(c), NEW l \in Libraries
    PROVE  /\ caches'[l].plans \subseteq caches[l].plans \cup {job[c].plan}
           /\ caches'[l].records \subseteq caches[l].records \cup {job[c].record}
<1> DEFINE k == job[c].lib
           p == job[c].plan
           r == job[c].record
<1>1. caches' = [caches EXCEPT ![k] = [plans |-> @.plans \cup {p}, records |-> @.records \cup {r}]]
  BY DEF Write
<1>2. caches'[l] = caches[l]
      \/ caches'[l] = [plans |-> caches[l].plans \cup {p}, records |-> caches[l].records \cup {r}]
  <2> HIDE DEF k, p, r
  <2> QED BY <1>1 DEF TypeInv
<1> HIDE DEF p, r
<1>3. /\ caches'[l].plans \subseteq caches[l].plans \cup {p}
      /\ caches'[l].records \subseteq caches[l].records \cup {r}
  BY <1>2
<1> QED BY <1>3 DEF p, r

LEMMA WriteStores ==
    ASSUME PromotionAssumption, TypeInv, JobInv, SkillInv, WriterInv, CountInv, CacheInv,
           NEW c \in Callers, Write(c)
    PROVE  SkillInv' /\ WriterInv' /\ CountInv' /\ CacheInv'
<1>1. Writes(c) /\ Races(c) /\ Grows(log, log') /\ job[c].pc = "write"
  BY WriteIs, WriteJobs DEF Writes, Write
<1>2. PICK m : \A p :
        /\ p = job[c].plan => Registrations(p)' = Registrations(p) \cup {m} /\ m \notin Registrations(p)
        /\ p # job[c].plan => Registrations(p)' = Registrations(p)
        /\ log'[m].record = job[c].record
  BY WriteRegisters
<1>3. \A p : \A i \in Registrations(p) : i \in Registrations(p)' /\ log'[i] = log[i]
  BY <1>1, RegistrationsGrow
<1>4. \A d \in Callers : job'[d].record = job[d].record /\ job'[d].plan = job[d].plan
  BY <1>1 DEF Races, Kept
<1>5. SkillInv'
  <2>1. ASSUME NEW i \in DOMAIN log', log'[i].kind = "skill"
        PROVE  \E d \in Callers : job[d].record = log'[i].record /\ job[d].record.approved
    <3>1. CASE i \in DOMAIN log
      BY <1>1, <2>1, <3>1 DEF Grows, SkillInv
    <3>2. CASE log'[i] = Skill("assert", job[c].record)
      BY <3>2, WriterIs DEF Skill
    <3>3. CASE \E k \in Registrations(job[c].plan) : log'[i] = Skill("retract", log[k].record)
      <4>1. PICK k \in Registrations(job[c].plan) : log'[i] = Skill("retract", log[k].record)
        BY <3>3
      <4>2. k \in DOMAIN log /\ log[k].kind = "skill" /\ log'[i].record = log[k].record
        BY <4>1 DEF Registrations, Skill
      <4> QED BY <4>2 DEF SkillInv
    <3> QED BY <1>1, <3>1, <3>2, <3>3 DEF Writes
  <2>2. \A i \in DOMAIN log' : log'[i].kind = "skill" =>
           \E d \in Callers : job'[d].record = log'[i].record /\ job'[d].record.approved
    BY <1>4, <2>1
  <2> QED BY <2>2 DEF SkillInv
<1>6. ASSUME NEW d \in Callers
      PROVE  /\ job'[d].pc = "write" <=> d # c /\ job[d].pc = "write"
             /\ job'[d].raced <=> job[d].raced \/ (d # c /\ d \in Others(c))
  <2>1. CASE d = c
    BY <1>1, <2>1 DEF Races
  <2>2. CASE d # c
    <3>1. d \in Callers \ {c}
      BY <2>2
    <3>2. job'[d].pc = job[d].pc /\ (job'[d].raced <=> job[d].raced \/ d \in Others(c))
      BY <1>1, <3>1, Zenon DEF Races
    <3> QED BY <2>2, <3>2, Zenon
  <2> QED BY <2>1, <2>2
<1>7. WriterInv'
  <2>1. ASSUME NEW d \in Callers, job'[d].pc = "write", NEW p, p = job'[d].plan
        PROVE  Registrations(p)' = {} \/ job'[d].raced
    <3>1. d # c /\ job[d].pc = "write" /\ p = job[d].plan
      BY <1>4, <1>6, <2>1
    <3>2. CASE p = job[c].plan
      <4>1. d \in Others(c)
        BY <3>1, <3>2 DEF Others
      <4> QED BY <1>6, <3>1, <4>1, Zenon
    <3>3. CASE p # job[c].plan
      <4>1. Registrations(p)' = Registrations(p)
        BY <1>2, <3>3
      <4>2. Registrations(p) = {} \/ job[d].raced
        BY <3>1 DEF WriterInv
      <4> QED BY <1>6, <4>1, <4>2, Zenon
    <3> QED BY <3>2, <3>3
  <2> QED BY <2>1 DEF WriterInv
<1>8. \A p : \A d \in Raced(p) : d \in Raced(p)' /\ d # c
  <2> SUFFICES ASSUME NEW p, NEW d \in Raced(p) PROVE d \in Raced(p)' /\ d # c
    OBVIOUS
  <2>1. d \in Callers /\ job[d].raced /\ job[d].plan = p /\ job[d].pc # "write"
    BY DEF Raced
  <2>2. job'[d].raced
    BY <1>6, <2>1, Zenon
  <2>3. job'[d].plan = p /\ job'[d].pc # "write"
    BY <1>4, <1>6, <2>1
  <2> QED BY <1>1, <2>1, <2>2, <2>3 DEF Raced
<1>9. CountInv'
  <2>1. ASSUME NEW p \in Plans, p # job[c].plan
        PROVE  (Cardinality(Registrations(p)) <= 1 + Cardinality(Raced(p)))'
    <3>1. Raced(p) \subseteq Raced(p)' /\ Registrations(p)' = Registrations(p)
      BY <1>2, <1>8, <2>1
    <3> QED BY <3>1, CountKept DEF CountInv
  <2>2. ASSUME NEW p \in Plans, p = job[c].plan
        PROVE  (Cardinality(Registrations(p)) <= 1 + Cardinality(Raced(p)))'
    <3> DEFINE A == Raced(p)
               B == Raced(p)'
               R == Registrations(p)
    <3>1. A \in SUBSET Callers /\ B \in SUBSET Callers /\ A \subseteq B /\ c \notin A
      BY <1>8 DEF Raced
    <3>2. Registrations(p)' = R \cup {m} /\ m \notin R
      BY <1>2, <2>2
    <3>3. R = {} \/ job[c].raced
      BY <1>1, <2>2 DEF WriterInv
    <3>4. job[c].raced => c \in B
      <4>1. job'[c].plan = p /\ job'[c].pc # "write"
        BY <1>1, <1>4, <2>2 DEF Races
      <4>2. job[c].raced => job'[c].raced
        BY <1>6, Zenon
      <4> QED BY <4>1, <4>2 DEF Raced
    <3>5. IsFiniteSet(R) /\ Cardinality(R) <= 1 + Cardinality(A)
      BY RegistrationsFinite DEF CountInv
    <3> HIDE DEF A, B, R
    <3>6. Cardinality(R \cup {m}) = Cardinality(R) + 1 /\ Cardinality(R) \in Nat
      BY <3>2, <3>5, FS_AddElement, FS_CardinalityType
    <3>7. Cardinality(B) \in Nat
      BY <3>1, RacedGrows DEF PromotionAssumption
    <3>8. Cardinality(R \cup {m}) <= 1 + Cardinality(B)
      <4>1. CASE R = {}
        BY <3>6, <3>7, <4>1, FS_EmptySet
      <4>2. CASE job[c].raced
        <5>1. A \cup {c} \in SUBSET Callers /\ A \cup {c} \subseteq B
          BY <3>1, <3>4, <4>2
        <5>2. Cardinality(A \cup {c}) <= Cardinality(B) /\ Cardinality(A \cup {c}) \in Nat
          BY <3>1, <5>1, RacedGrows DEF PromotionAssumption
        <5>3. IsFiniteSet(A)
          BY <3>1, FS_Subset DEF PromotionAssumption
        <5>4. Cardinality(A \cup {c}) = Cardinality(A) + 1 /\ Cardinality(A) \in Nat
          BY <3>1, <5>3, FS_AddElement, FS_CardinalityType
        <5> QED BY <3>5, <3>6, <3>7, <5>2, <5>4
      <4> QED BY <3>3, <4>1, <4>2
    <3> QED BY <3>2, <3>8 DEF B
  <2> QED BY <2>1, <2>2 DEF CountInv
<1>10. CacheInv'
  <2>1. ASSUME NEW l \in Libraries, NEW p \in caches'[l].plans PROVE Registrations(p)' # {}
    <3>1. p \in caches[l].plans \/ p = job[c].plan
      BY WriteCaches
    <3>2. CASE p \in caches[l].plans
      BY <1>3, <3>2 DEF CacheInv
    <3>3. CASE p = job[c].plan
      BY <1>2, <3>3
    <3> QED BY <3>1, <3>2, <3>3
  <2>2. ASSUME NEW l \in Libraries, NEW r \in caches'[l].records, NEW p, p = r.plan
        PROVE  \E i \in Registrations(p)' : log'[i].record = r
    <3>1. r \in caches[l].records \/ r = job[c].record
      BY WriteCaches
    <3>2. CASE r \in caches[l].records
      BY <1>3, <2>2, <3>2 DEF CacheInv
    <3>3. CASE r = job[c].record
      <4>1. p = job[c].plan
        BY <2>2, <3>3, WriterIs
      <4> QED BY <1>2, <3>3, <4>1
    <3> QED BY <3>1, <3>2, <3>3
  <2> QED BY <2>1, <2>2 DEF CacheInv
<1> QED BY <1>5, <1>7, <1>9, <1>10

LEMMA ReopenStores ==
    ASSUME TypeInv, SkillInv, WriterInv, CountInv, CacheInv, NEW l \in Libraries, Reopen(l)
    PROVE  SkillInv' /\ WriterInv' /\ CountInv' /\ CacheInv'
<1>1. log' = log /\ job' = job /\ \A k \in Libraries :
         caches'[k] = caches[k] \/ (caches'[k].plans = {} /\ caches'[k].records = {})
  BY DEF Reopen, TypeInv
<1>2. SkillInv'
  BY <1>1 DEF SkillInv
<1>3. \A p : Registrations(p)' = Registrations(p)
  BY <1>1 DEF Registrations
<1>4. WriterInv' /\ CountInv'
  BY <1>1, <1>3 DEF WriterInv, CountInv, Raced
<1>5. CacheInv'
  BY <1>1, <1>3 DEF CacheInv
<1> QED BY <1>2, <1>4, <1>5

-----------------------------------------------------------------------------
(* Which entries can still come to lie in a window.                        *)
Late(w) ==
    /\ clock \div Millisecond > w[2]
    /\ \A s \in Servers : \A i \in DOMAIN built[s] : built[s][i].content.at \div Millisecond > w[2]

ClosedInv ==
    \A c \in Callers : ClosedCall(job[c]) => Late(job[c].window) /\ GateG2(log, job[c].window)

LEMMA LaterMillisecond ==
    ASSUME NEW t \in Nat, NEW u \in Nat, t <= u
    PROVE  t \div Millisecond \in Nat /\ u \div Millisecond \in Nat /\ t \div Millisecond <= u \div Millisecond
BY DEF Millisecond

LEMMA WindowKept ==
    ASSUME TypeInv, Grows(log, log'), NEW w, \A i \in DOMAIN log' : i \in DOMAIN log \/ ~InWindow(log'[i], w)
    PROVE  GateG2(log, w) => GateG2(log', w)
<1>1. EntriesIn(log', w) = EntriesIn(log, w)
  BY DEF EntriesIn, Grows
<1>2. EntriesIn(log, w) \in SUBSET DOMAIN log
  BY DEF EntriesIn
<1> QED BY <1>1, <1>2, ChainKept DEF GateG2

(* A step that writes no entry of a window and builds none leaves the      *)
(* verdicts about it as they are.                                          *)
LEMMA ClosedKept ==
    ASSUME TypeInv, ClosedInv, Grows(log, log'),
           \A d \in Callers : ClosedCall(job'[d]) => ClosedCall(job[d]) /\ job'[d].window = job[d].window,
           \A w \in Nat \X Nat : Late(w) =>
               Late(w)' /\ \A i \in DOMAIN log' : i \in DOMAIN log \/ ~InWindow(log'[i], w)
    PROVE  ClosedInv'
<1> SUFFICES ASSUME NEW d \in Callers, ClosedCall(job'[d]), NEW w, w = job[d].window
             PROVE  Late(w)' /\ GateG2(log', w)
  BY DEF ClosedInv
<1>1. w \in Nat \X Nat /\ Late(w) /\ GateG2(log, w)
  <2>1. job[d] \in Jobs
    BY JobTyped
  <2> QED BY <2>1 DEF ClosedInv, Jobs
<1> QED BY <1>1, WindowKept

LEMMA EntryAt ==
    ASSUME TypeInv, NEW s \in Servers
    PROVE  \A i \in DOMAIN built[s] : built[s][i] \in emitted /\ built[s][i].content.at \in Nat
<1>1. built[s] \in Seq(emitted)
  BY DEF TypeInv
<1>2. \A i \in DOMAIN built[s] : built[s][i] \in emitted
  BY <1>1, Elements
<1> QED BY <1>2 DEF TypeInv, IsEntry, Contents

LEMMA TickLate ==
    ASSUME PromotionAssumption, TypeInv, Tick, NEW w \in Nat \X Nat, Late(w)
    PROVE  Late(w)'
<1>1. clock \in Nat /\ clock' \in Nat /\ clock <= clock' /\ w[2] \in Nat
  BY TickTyped DEF TypeInv
<1>2. clock' \div Millisecond > w[2]
  BY <1>1, LaterMillisecond DEF Late
<1> QED BY <1>2 DEF Late, Tick

LEMMA EmitsLate ==
    ASSUME TypeInv, NEW s \in Servers, NEW e, Emits(s, e), NEW w, Late(w)
    PROVE  Late(w)'
<1>1. built[s] \in Seq(emitted') /\ e \in emitted'
  <2>1. emitted \subseteq emitted' /\ e \in emitted' /\ built[s] \in Seq(emitted)
    BY DEF Emits, TypeInv
  <2> QED BY <2>1, Longer
<1> DEFINE b == built[s]
<1>2. /\ \A i \in DOMAIN b : Append(b, e)[i] = b[i]
      /\ Append(b, e)[Len(b) + 1] = e
      /\ \A i \in DOMAIN Append(b, e) : i \in DOMAIN b \/ i = Len(b) + 1
  <2> HIDE DEF b
  <2>1. b \in Seq(emitted') /\ e \in emitted'
    BY <1>1 DEF b
  <2> QED BY <2>1, Appended
<1>3. clock' = clock /\ e.content.at = clock /\ built' = [built EXCEPT ![s] = Append(b, e)]
  BY DEF Emits
<1>4. built'[s] = Append(b, e) /\ \A t \in Servers \ {s} : built'[t] = built[t]
  BY <1>3 DEF TypeInv
<1>5. \A i \in DOMAIN Append(b, e) : Append(b, e)[i].content.at \div Millisecond > w[2]
  BY <1>2, <1>3 DEF Late
<1> QED BY <1>3, <1>4, <1>5 DEF Late

LEMMA TailLate ==
    ASSUME TypeInv, NEW s \in Servers, built[s] # <<>>, UNCHANGED clock,
           built' = [built EXCEPT ![s] = Tail(@)] \/ built' = [built EXCEPT ![s] = <<>>],
           NEW w \in Nat \X Nat, Late(w)
    PROVE  /\ Late(w)'
           /\ ~InWindow(AuditDatom(Head(built[s])), w)
<1> DEFINE b == built[s]
           e == Head(b)
<1>1. b \in Seq(emitted)
  BY DEF TypeInv
<1>2. /\ e \in emitted /\ 1 \in DOMAIN b /\ e = b[1]
      /\ \A i \in DOMAIN Tail(b) : i + 1 \in DOMAIN b /\ Tail(b)[i] = b[i + 1]
  <2> HIDE DEF b
  <2> QED BY <1>1, HeadTail DEF b
<1>3. \A i \in DOMAIN b : b[i].content.at \div Millisecond > w[2]
  BY DEF Late
<1>4. \A i \in DOMAIN Tail(b) : Tail(b)[i].content.at \div Millisecond > w[2]
  BY <1>2, <1>3
<1>5. Late(w)'
  <2>1. \A t \in Servers \ {s} : built'[t] = built[t]
    BY DEF TypeInv
  <2>2. built'[s] = Tail(b) \/ built'[s] = <<>>
    BY DEF TypeInv
  <2>3. ASSUME NEW x, x = Tail(b) \/ x = <<>>
        PROVE  \A i \in DOMAIN x : x[i].content.at \div Millisecond > w[2]
    <3>1. CASE x = Tail(b)
      BY ONLY <1>4, <3>1
    <3>2. CASE x = <<>>
      BY <3>2
    <3> QED BY <2>3, <3>1, <3>2
  <2> QED BY <2>1, <2>2, <2>3 DEF Late
<1>6. ~InWindow(AuditDatom(e), w)
  <2>1. e.content.at \in Nat /\ AuditDatom(e).at = ToInst(e.content.at)
    BY <1>2, DatomIs DEF TypeInv
  <2>2. AuditDatom(e).at \div Millisecond = e.content.at \div Millisecond
    BY <2>1, InstIs
  <2> DEFINE t == e.content.at
  <2>3. t \in Nat /\ t <= t /\ t \div Millisecond > w[2]
    <3> HIDE DEF b, e
    <3> QED BY <1>2, <1>3, <2>1
  <2>4. t \div Millisecond > w[2] /\ t \div Millisecond \in Nat /\ w[2] \in Nat
    <3> HIDE DEF t
    <3> QED BY <2>3, LaterMillisecond
  <2> HIDE DEF e
  <2> QED BY <2>2, <2>4 DEF InWindow
<1> QED BY <1>5, <1>6

(* A row that is no audit datom lies in no window.                         *)
LEMMA WriteLate ==
    ASSUME TypeInv, NEW c \in Callers, Write(c), NEW w, Late(w)
    PROVE  Late(w)' /\ \A i \in DOMAIN log' : i \in DOMAIN log \/ ~InWindow(log'[i], w)
<1>1. Late(w)'
  BY DEF Write, Late
<1>2. \A i \in DOMAIN log' : i \in DOMAIN log \/ log'[i].kind = "skill"
  BY WriteIs DEF Writes, Skill
<1> QED BY <1>1, <1>2 DEF InWindow

-----------------------------------------------------------------------------
(* The invariant of a promotion, and what each step keeps of it.           *)
PromotionInv ==
    /\ TypeInv /\ JobInv /\ PassInv
    /\ SkillInv /\ WriterInv /\ CountInv /\ CacheInv
    /\ RowsEmitted /\ ClosedInv

LEMMA ServerStep ==
    ASSUME PromotionAssumption, PromotionInv, TypeInv', Audits, UNCHANGED <<job, caches>>, RowsEmitted',
           \A w \in Nat \X Nat : Late(w) =>
               Late(w)' /\ \A i \in DOMAIN log' : i \in DOMAIN log \/ ~InWindow(log'[i], w)
    PROVE  PromotionInv'
<1>1. Grows(log, log')
  BY DEF Audits
<1>2. JobInv' /\ PassInv'
  BY <1>1, ServerKeeps DEF PromotionInv
<1>3. SkillInv' /\ WriterInv' /\ CountInv' /\ CacheInv'
  BY ServerStores DEF PromotionInv
<1>4. ClosedInv'
  <2>1. \A d \in Callers : ClosedCall(job'[d]) => ClosedCall(job[d]) /\ job'[d].window = job[d].window
    OBVIOUS
  <2> QED BY <1>1, <2>1, ClosedKept DEF PromotionInv
<1> QED BY <1>2, <1>3, <1>4 DEF PromotionInv

LEMMA TickStep ==
    ASSUME PromotionAssumption, PromotionInv, Tick
    PROVE  PromotionInv'
<1>1. TypeInv /\ TypeInv' /\ UNCHANGED <<emitted, log, caches, job>>
  BY TickTyped DEF PromotionInv, Tick
<1>2. Audits /\ RowsEmitted'
  BY <1>1, AuditsNothing DEF PromotionInv, RowsEmitted
<1>3. \A w \in Nat \X Nat : Late(w) => Late(w)'
  BY <1>1, TickLate
<1> QED BY <1>1, <1>2, <1>3, ServerStep

LEMMA BuildStep ==
    ASSUME PromotionAssumption, PromotionInv, NEW s \in Servers, Build(s)
    PROVE  PromotionInv'
<1>1. TypeInv
  BY DEF PromotionInv
<1>2. PICK e : Emits(s, e)
  BY <1>1, BuildIs
<1>3. TypeInv' /\ UNCHANGED <<log, caches, job>> /\ emitted \subseteq emitted'
  BY <1>1, <1>2, EmitsTyped DEF Emits
<1>4. Audits
  BY <1>1, <1>3, AuditsNothing
<1>5. RowsEmitted'
  BY <1>3 DEF PromotionInv, RowsEmitted
<1>6. \A w \in Nat \X Nat : Late(w) => Late(w)'
  BY <1>1, <1>2, EmitsLate
<1> QED BY <1>3, <1>4, <1>5, <1>6, ServerStep

LEMMA PersistStep ==
    ASSUME PromotionAssumption, PromotionInv, NEW s \in Servers, Persist(s)
    PROVE  PromotionInv'
<1> DEFINE d == AuditDatom(Head(built[s]))
<1>1. TypeInv /\ TypeInv' /\ UNCHANGED <<job, caches, emitted>>
  BY PersistTyped DEF PromotionInv, Persist
<1>2. /\ Grows(log, log') /\ Head(built[s]) \in emitted
      /\ \A i \in DOMAIN log' : i \in DOMAIN log \/ log'[i] = d
  BY <1>1, PersistIs
<1>3. d.kind = "audit"
  BY <1>1, <1>2, DatomIs DEF TypeInv
<1>4. Audits
  BY <1>2, <1>3 DEF Audits
<1>5. RowsEmitted'
  <2>1. \A i \in DOMAIN log' : (i \in DOMAIN log /\ log'[i] = log[i]) \/ log'[i] = d
    BY <1>2 DEF Grows
  <2>2. \A i \in DOMAIN log : log[i].kind = "audit" => \E e \in emitted : log[i] = AuditDatom(e)
    BY DEF PromotionInv, RowsEmitted
  <2> QED BY <1>1, <1>2, <2>1, <2>2 DEF RowsEmitted
<1>6. ASSUME NEW w \in Nat \X Nat, Late(w)
      PROVE  Late(w)' /\ \A i \in DOMAIN log' : i \in DOMAIN log \/ ~InWindow(log'[i], w)
  <2>1. Late(w)' /\ ~InWindow(d, w)
    BY <1>1, <1>6, TailLate DEF Persist
  <2> HIDE DEF d
  <2> QED BY <1>2, <2>1
<1> QED BY <1>1, <1>4, <1>5, <1>6, ServerStep

LEMMA LostStep ==
    ASSUME PromotionAssumption, PromotionInv, NEW s \in Servers, PersistFails(s) \/ Restart(s)
    PROVE  PromotionInv'
<1>1. TypeInv /\ TypeInv' /\ UNCHANGED <<clock, emitted, log, caches, job>>
  BY PersistTyped, RestartTyped DEF PromotionInv, PersistFails, Restart
<1>2. Audits /\ RowsEmitted'
  BY <1>1, AuditsNothing DEF PromotionInv, RowsEmitted
<1>3. ASSUME NEW w \in Nat \X Nat, Late(w) PROVE Late(w)'
  <2>1. CASE built[s] = <<>>
    <3>1. built' = built
      BY <1>1, <2>1 DEF PersistFails, Restart, TypeInv
    <3> QED BY <1>1, <1>3, <3>1 DEF Late
  <2>2. CASE built[s] # <<>>
    BY <1>1, <1>3, <2>2, TailLate DEF PersistFails, Restart
  <2> QED BY <2>1, <2>2
<1> QED BY <1>1, <1>2, <1>3, ServerStep

LEMMA CallStep ==
    ASSUME PromotionAssumption, PromotionInv, NEW c \in Callers, NEW r, GoesTo(c, r),
           job' = [job EXCEPT ![c] = r], Quiet,
           UNCHANGED caches \/ (Cached(c) /\ job[c].pc # "idle")
    PROVE  PromotionInv'
<1>1. TypeInv /\ JobOK(job[c]) /\ UNCHANGED <<clock, built, log, emitted>>
  BY DEF PromotionInv, JobInv, Quiet
<1>2. TypeInv'
  BY <1>1, CallTyped
<1>3. JobInv' /\ PassInv'
  BY CallKeeps DEF PromotionInv
<1>4. SkillInv' /\ WriterInv' /\ CountInv' /\ CacheInv'
  BY CallStores DEF PromotionInv
<1>5. RowsEmitted'
  BY <1>1 DEF PromotionInv, RowsEmitted
<1>6. ClosedInv'
  <2>1. job'[c] = r /\ \A d \in Callers \ {c} : job'[d] = job[d]
    BY <1>1 DEF TypeInv
  <2>2. \A w : Late(w)' <=> Late(w)
    BY <1>1 DEF Late
  <2>3. ClosedInv
    BY DEF PromotionInv
  <2>4. ASSUME ClosedCall(r) PROVE Late(r.window) /\ GateG2(log, r.window)
    <3>1. CASE GateG2(log, r.window) /\ Closed(r.window)
      BY <3>1 DEF Closed, Late
    <3>2. CASE r.window = job[c].window /\ ClosedCall(job[c])
      BY <2>3, <3>2 DEF ClosedInv
    <3> QED BY <2>4, <3>1, <3>2 DEF GoesTo
  <2>5. ASSUME NEW d \in Callers, ClosedCall(job'[d]) PROVE Late(job'[d].window) /\ GateG2(log, job'[d].window)
    BY <2>1, <2>3, <2>4, <2>5 DEF ClosedInv
  <2> QED BY <1>1, <2>2, <2>5 DEF ClosedInv
<1> QED BY <1>2, <1>3, <1>4, <1>5, <1>6 DEF PromotionInv

LEMMA WriteStep ==
    ASSUME PromotionAssumption, PromotionInv, NEW c \in Callers, Write(c)
    PROVE  PromotionInv'
<1>1. TypeInv /\ JobOK(job[c]) /\ Writes(c) /\ Races(c) /\ job[c].pc = "write" /\ emitted' = emitted
  BY WriteIs, WriteJobs DEF PromotionInv, JobInv, Write
<1>2. TypeInv'
  BY <1>1, WriteTyped
<1>3. JobInv' /\ PassInv'
  BY WriteKeeps DEF PromotionInv
<1>4. SkillInv' /\ WriterInv' /\ CountInv' /\ CacheInv'
  BY WriteStores DEF PromotionInv
<1>5. RowsEmitted'
  <2>1. \A i \in DOMAIN log' : (i \in DOMAIN log /\ log'[i] = log[i]) \/ log'[i].kind = "skill"
    BY <1>1 DEF Writes, Grows, Skill
  <2> QED BY <1>1, <2>1 DEF PromotionInv, RowsEmitted
<1>6. ClosedInv'
  <2>1. ASSUME NEW d \in Callers, ClosedCall(job'[d])
        PROVE  ClosedCall(job[d]) /\ job'[d].window = job[d].window
    <3>1. job'[d].closed = job[d].closed /\ job'[d].window = job[d].window
      BY <1>1 DEF Races, Kept
    <3>2. CASE d = c
      BY <1>1, <2>1, <3>1, <3>2 DEF Races, ClosedCall
    <3>3. CASE d # c
      BY <1>1, <2>1, <3>1, <3>3 DEF Races, ClosedCall
    <3> QED BY <3>2, <3>3
  <2>2. Grows(log, log') /\ ClosedInv
    BY <1>1 DEF Writes, PromotionInv
  <2> QED BY <1>1, <2>1, <2>2, WriteLate, ClosedKept
<1> QED BY <1>2, <1>3, <1>4, <1>5, <1>6 DEF PromotionInv

LEMMA ReopenStep ==
    ASSUME PromotionAssumption, PromotionInv, NEW l \in Libraries, Reopen(l)
    PROVE  PromotionInv'
<1>1. TypeInv /\ TypeInv' /\ UNCHANGED <<clock, built, emitted, log, job>>
  BY ReopenTyped DEF PromotionInv, Reopen
<1>2. JobInv' /\ PassInv'
  <2>1. Grows(log, log')
    BY <1>1, GrowsAlone DEF TypeInv
  <2> QED BY <1>1, <2>1, ServerKeeps DEF PromotionInv
<1>3. SkillInv' /\ WriterInv' /\ CountInv' /\ CacheInv'
  BY ReopenStores DEF PromotionInv
<1>4. RowsEmitted'
  BY <1>1 DEF PromotionInv, RowsEmitted
<1>5. ClosedInv'
  BY <1>1 DEF PromotionInv, ClosedInv, Late
<1> QED BY <1>1, <1>2, <1>3, <1>4, <1>5 DEF PromotionInv

LEMMA InitHolds ==
    ASSUME PromotionAssumption, Init
    PROVE  PromotionInv
<1>1. TypeInv
  <2>1. head \in [Servers -> Ids] /\ built \in [Servers -> Seq(emitted)] /\ log \in Seq(Rows)
    BY DEF Init, Genesis, Ids
  <2>2. IsFiniteSet(emitted) /\ (\A e \in emitted : IsEntry(e)) /\ clock \in 0 .. MaxTime
    BY FS_EmptySet DEF Init, PromotionAssumption
  <2>3. caches \in [Libraries -> [plans : SUBSET Plans, records : SUBSET Records]]
    BY DEF Init
  <2>4. job \in [Callers -> Jobs]
    BY IdleIs DEF Init
  <2> QED BY <2>1, <2>2, <2>3, <2>4 DEF TypeInv
<1>2. \A c \in Callers : job[c] = Idle
  BY DEF Init
<1>3. /\ Idle.pc = "idle" /\ ~Idle.closed /\ ~Idle.raced /\ Idle.record = NoRecord
      /\ ~Idle.record.approved /\ ~Idle.record.g2
  BY NoRecordIs DEF Idle
<1>4. JobInv /\ PassInv /\ WriterInv /\ ClosedInv
  BY <1>2, <1>3 DEF JobInv, JobOK, PassInv, HasPassed, WriterInv, ClosedInv, ClosedCall
<1>5. \A p : Registrations(p) = {}
  BY DEF Init, Registrations
<1>6. CountInv
  <2> SUFFICES ASSUME NEW p \in Plans
               PROVE  Cardinality(Registrations(p)) <= 1 + Cardinality(Raced(p))
    BY DEF CountInv
  <2>1. Cardinality(Raced(p)) \in Nat
    <3>1. Raced(p) \in SUBSET Callers
      BY DEF Raced
    <3> QED BY <3>1, RacedGrows DEF PromotionAssumption
  <2>2. Cardinality(Registrations(p)) = 0
    BY <1>5, FS_EmptySet
  <2> QED BY <2>1, <2>2
<1>7. SkillInv /\ CacheInv /\ RowsEmitted
  BY DEF Init, SkillInv, CacheInv, RowsEmitted
<1> QED BY <1>1, <1>4, <1>6, <1>7 DEF PromotionInv

LEMMA CallerStep ==
    ASSUME PromotionAssumption, PromotionInv, NEW c \in Callers,
           \/ \E p \in Plans, l \in Libraries, w \in Windows : Promote(c, p, l, w)
           \/ \E replays \in Replays : G1(c, replays)
           \/ G2(c)
           \/ \E delta \in Epsilon - 1 .. Epsilon : G3(c, delta)
           \/ \E answer \in {"yes", "no", "truthy"} : G4(c, answer)
           \/ Known(c) \/ Scan(c) \/ WriteFails(c)
    PROVE  PromotionInv'
<1>1. TypeInv /\ JobOK(job[c])
  BY DEF PromotionInv, JobInv
<1>2. CASE \E p \in Plans, l \in Libraries, w \in Windows : Promote(c, p, l, w)
  BY <1>1, <1>2, PromoteGoes, CallStep
<1>3. CASE \E replays \in Replays : G1(c, replays)
  BY <1>1, <1>3, G1Goes, CallStep
<1>4. CASE G2(c)
  BY <1>1, <1>4, G2Goes, CallStep
<1>5. CASE \E delta \in Epsilon - 1 .. Epsilon : G3(c, delta)
  <2>1. PICK delta \in Int : G3(c, delta)
    BY <1>5 DEF PromotionAssumption
  <2> QED BY <1>1, <2>1, G3Goes, CallStep
<1>6. CASE \E answer \in {"yes", "no", "truthy"} : G4(c, answer)
  BY <1>1, <1>6, G4Goes, CallStep
<1>7. CASE Known(c)
  BY <1>1, <1>7, KnownGoes, CallStep
<1>8. CASE Scan(c)
  BY <1>1, <1>8, ScanGoes, CallStep
<1>9. CASE WriteFails(c)
  BY <1>1, <1>9, WriteFailsGoes, CallStep
<1> QED BY <1>2, <1>3, <1>4, <1>5, <1>6, <1>7, <1>8, <1>9

LEMMA NextKeeps ==
    ASSUME PromotionAssumption, PromotionInv, [Next]_vars
    PROVE  PromotionInv'
<1>1. CASE Tick
  BY <1>1, TickStep
<1>2. CASE \E s \in Servers : Build(s) \/ Persist(s) \/ PersistFails(s) \/ Restart(s)
  BY <1>2, BuildStep, PersistStep, LostStep
<1>3. ASSUME NEW c \in Callers, Write(c) PROVE PromotionInv'
  BY <1>3, WriteStep
<1>4. ASSUME NEW c \in Callers,
             \/ \E p \in Plans, l \in Libraries, w \in Windows : Promote(c, p, l, w)
             \/ \E replays \in Replays : G1(c, replays)
             \/ G2(c)
             \/ \E delta \in Epsilon - 1 .. Epsilon : G3(c, delta)
             \/ \E answer \in {"yes", "no", "truthy"} : G4(c, answer)
             \/ Known(c) \/ Scan(c) \/ WriteFails(c)
      PROVE  PromotionInv'
  BY <1>4, CallerStep
<1>5. CASE \E l \in Libraries : Reopen(l)
  BY <1>5, ReopenStep
<1>6. CASE UNCHANGED vars
  <2>1. UNCHANGED <<clock, head, built, emitted, log, caches, job>>
    BY <1>6 DEF vars
  <2>2. TypeInv /\ TypeInv' /\ RowsEmitted'
    BY <2>1 DEF PromotionInv, TypeInv, RowsEmitted
  <2>3. Audits
    BY <2>1, <2>2, AuditsNothing
  <2>4. \A w \in Nat \X Nat : Late(w) => Late(w)'
    BY <2>1 DEF Late
  <2> QED BY <2>1, <2>2, <2>3, <2>4, ServerStep
<1> QED BY <1>1, <1>2, <1>3, <1>4, <1>5, <1>6 DEF Next

LEMMA PromotionHolds == Spec => []PromotionInv
<1>1. Init => PromotionInv
  BY InitHolds, PromotionAssumption
<1>2. PromotionInv /\ [Next]_vars => PromotionInv'
  BY NextKeeps, PromotionAssumption
<1> QED BY <1>1, <1>2, PTL DEF Spec

-----------------------------------------------------------------------------
(* What follows for the skills.                                            *)
LEMMA TypesAre ==
    ASSUME PromotionInv
    PROVE  TypeOK
<1>1. clock \in 0 .. MaxTime
  BY DEF PromotionInv, TypeInv
<1>2. ASSUME NEW l \in Libraries
      PROVE  caches[l].plans \subseteq Plans /\ {r.plan : r \in caches[l].records} \subseteq Plans
  <2>1. caches[l].plans \subseteq Plans
    BY DEF PromotionInv, TypeInv
  <2>2. ASSUME NEW r \in caches[l].records PROVE r.plan \in Plans
    <3>1. PICK i \in Registrations(r.plan) : log[i].record = r
      BY DEF PromotionInv, CacheInv
    <3>2. i \in DOMAIN log /\ log[i].kind = "skill"
      BY <3>1 DEF Registrations
    <3>3. PICK c \in Callers : job[c].record = r /\ r.approved
      BY <3>1, <3>2 DEF PromotionInv, SkillInv
    <3>4. JobOK(job[c])
      BY DEF PromotionInv, JobInv
    <3>5. Earned(job[c]) /\ job[c].pc # "idle"
      BY <3>3, <3>4, NoRecordIs DEF JobOK
    <3> QED BY <3>3, <3>4, <3>5 DEF JobOK, Earned, Record
  <2> QED BY <2>1, <2>2
<1>3. ASSUME NEW c \in Callers
      PROVE  /\ job[c].pc \in Pcs
             /\ job[c].pc \in {"check", "write", "done"} => job[c].record.approved
             /\ job[c].pc = "failed" => job[c].record.plan = job[c].plan /\ ~job[c].record.approved
  <2>1. job[c] \in Jobs /\ JobOK(job[c])
    BY JobTyped DEF PromotionInv, JobInv
  <2> QED BY <2>1 DEF Jobs, JobOK
<1> QED BY <1>1, <1>2, <1>3 DEF TypeOK, Pcs

LEMMA HashedIs ==
    ASSUME TypeInv, NEW i \in DOMAIN log, log[i].kind = "audit", Hashed(log[i])
    PROVE  /\ log[i].signature # Genesis
           /\ \A e \in emitted : e.id = log[i].signature => e.content.prev = log[i].prev
<1> DEFINE d == log[i]
           x == [prev |-> d.prev, at |-> d.at, what |-> d.what]
<1>1. d \in AuditRows
  <2>1. log[i] \in Rows
    BY Elements DEF TypeInv
  <2> QED BY <2>1 DEF Rows, SkillRows
<1>2. x \in Contents /\ x.prev = d.prev
  <2> HIDE DEF d
  <2> QED BY <1>1 DEF AuditRows, Contents
<1>3. d.signature = Id(x)
  BY DEF Hashed, FromDatom
<1> HIDE DEF d, x
<1>4. d.signature # Genesis
  BY <1>2, <1>3, IdIs
<1>5. ASSUME NEW e \in emitted, e.id = d.signature PROVE e.content.prev = d.prev
  <2>1. e.content \in Contents /\ e.id = Id(e.content)
    <3>1. IsEntry(e)
      BY DEF TypeInv
    <3> QED BY <3>1, DatomIs DEF IsEntry
  <2>2. Id(e.content) = Id(x)
    BY <1>3, <1>5, <2>1
  <2>3. e.content.prev = x.prev
    BY <1>2, <2>1, <2>2, IdOnce
  <2> QED BY <1>2, <2>3
<1> QED BY <1>4, <1>5 DEF d

(* A window that verified is complete: it starts with a run's first entry, *)
(* holds what its entries build on, and no entry of another run.           *)
LEMMA VerifiedIsComplete ==
    ASSUME TypeInv, NEW I \in SUBSET DOMAIN log, I # {}, \A i \in I : log[i].kind = "audit", VerifyChain(log, I)
    PROVE  /\ \E i \in I : log[i].prev = Genesis /\ \A j \in I : i <= j
           /\ \A e \in emitted : e.id \in {log[i].signature : i \in I} =>
                 e.content.prev = Genesis \/ e.content.prev \in {log[i].signature : i \in I}
           /\ \A i, j \in I : i < j => log[j].prev # Genesis
<1>1. I \subseteq Nat
  BY Long DEF TypeInv
<1>2. \A i \in I : Hashed(log[i]) /\ Carried(log, I, i, log[i].prev)
  BY DEF VerifyChain
<1>3. \A i \in I : /\ log[i].signature # Genesis
                   /\ \A e \in emitted : e.id = log[i].signature => e.content.prev = log[i].prev
  BY <1>2, HashedIs
<1>4. \E i \in I : log[i].prev = Genesis /\ \A j \in I : i <= j
  <2>1. PICK i \in I : \A j \in I : i <= j
    BY <1>1, LeastNat
  <2>2. ~\E j \in I : j < i
    BY <1>1, <2>1
  <2> QED BY <1>2, <2>1, <2>2 DEF Carried
<1>5. ASSUME NEW e \in emitted, NEW i \in I, e.id = log[i].signature
      PROVE  e.content.prev = Genesis \/ e.content.prev \in {log[k].signature : k \in I}
  BY <1>2, <1>3, <1>5 DEF Carried
<1>6. ASSUME NEW i \in I, NEW j \in I, i < j PROVE log[j].prev # Genesis
  <2>1. ~ (i >= j)
    BY <1>1, <1>6
  <2> QED BY <1>2, <1>3, <2>1 DEF Carried
<1> QED BY <1>4, <1>5, <1>6

LEMMA PassesAreComplete ==
    ASSUME PromotionInv
    PROVE  PassedIsComplete
<1> SUFFICES ASSUME NEW c \in Callers, Passed(c), NEW I,
                    I = {i \in EntriesIn(log, job[c].window) : i <= job[c].at}
             PROVE  /\ \E i \in I : log[i].prev = Genesis /\ \A j \in I : i <= j
                    /\ \A e \in emitted : e.id \in {log[i].signature : i \in I} =>
                          e.content.prev = Genesis \/ e.content.prev \in {log[i].signature : i \in I}
                    /\ \A i, j \in I : i < j => log[j].prev # Genesis
  BY Zenon DEF PassedIsComplete
<1>1. TypeInv /\ GateHeld(log, job[c])
  BY DEF PromotionInv, PassInv, Passed, HasPassed
<1>2. I = Seen(log, job[c].window, job[c].at)
  BY DEF Seen
<1>3. I # {} /\ VerifyChain(log, I)
  BY <1>1, <1>2 DEF GateHeld
<1>4. I \in SUBSET DOMAIN log /\ \A i \in I : log[i].kind = "audit"
  BY DEF EntriesIn, InWindow
<1> QED BY <1>1, <1>3, <1>4, VerifiedIsComplete

LEMMA SkillsArePromoted ==
    ASSUME PromotionInv
    PROVE  SkillIsPromoted
<1> SUFFICES ASSUME NEW i \in DOMAIN log, log[i].kind = "skill"
             PROVE  /\ log[i].record.g1 /\ log[i].record.g2 /\ log[i].record.approved
                    /\ \E c \in Callers :
                         /\ job[c].record = log[i].record /\ job[c].asked = "yes"
                         /\ Len(job[c].replays) >= MinCount
                         /\ \A k \in DOMAIN job[c].replays : job[c].replays[k] = "same"
                         /\ job[c].delta >= Epsilon
  BY DEF SkillIsPromoted
<1>1. PICK c \in Callers : job[c].record = log[i].record /\ job[c].record.approved
  BY DEF PromotionInv, SkillInv
<1>2. Earned(job[c])
  BY <1>1 DEF PromotionInv, JobInv, JobOK
<1>3. job[c].record.g1 /\ job[c].record.g2 /\ job[c].record.approved
  BY <1>2 DEF Earned, Record
<1> QED BY <1>1, <1>2, <1>3 DEF Earned, Replayed

LEMMA RegisteredAre ==
    ASSUME PromotionAssumption, PromotionInv
    PROVE  RegisteredOnce
<1> SUFFICES ASSUME NEW p \in Plans
             PROVE  Cardinality(Registrations(p))
                    <= 1 + Cardinality({c \in Callers : job[c].raced /\ job[c].plan = p})
  BY DEF RegisteredOnce
<1> DEFINE A == Raced(p)
           B == {c \in Callers : job[c].raced /\ job[c].plan = p}
<1>1. A \in SUBSET Callers /\ B \in SUBSET Callers /\ A \subseteq B
  BY DEF Raced
<1>2. Cardinality(Registrations(p)) <= 1 + Cardinality(A)
  BY DEF PromotionInv, CountInv
<1>3. Cardinality(Registrations(p)) \in Nat
  BY RegistrationsFinite, FS_CardinalityType DEF PromotionInv
<1> HIDE DEF A, B
<1>4. Cardinality(A) \in Nat /\ Cardinality(B) \in Nat /\ Cardinality(A) <= Cardinality(B)
  BY <1>1, RacedGrows DEF PromotionAssumption
<1>5. Cardinality(Registrations(p)) <= 1 + Cardinality(B)
  BY <1>2, <1>3, <1>4
<1> QED BY <1>5 DEF B

(* Whatever the servers write and lose while calls, retries and reopened   *)
(* libraries interleave: a registered skill has a record whose four gates  *)
(* passed in a call that was answered yes, G2 over a complete window, and  *)
(* it is registered once but for calls that raced.  (_promotion.py:663     *)
(* promote, _skill_library.py:175 "ZERO additional datoms")                *)
THEOREM SkillsAreEarned == Spec => []SkillsEarned
<1>1. PromotionInv => SkillsEarned
  BY PromotionAssumption, TypesAre, PassesAreComplete, SkillsArePromoted, RegisteredAre DEF SkillsEarned
<1> QED BY <1>1, PromotionHolds, PTL

-----------------------------------------------------------------------------
LEMMA LibrariesFollow ==
    ASSUME PromotionInv
    PROVE  LibraryFollowsStore
<1> SUFFICES ASSUME NEW l \in Libraries
             PROVE  /\ caches[l].plans \subseteq ListSkills
                    /\ \A r \in caches[l].records : \E i \in Registrations(r.plan) : log[i].record = r
                    /\ \A p \in Plans : Lookup(l, p) # NoRecord
                                        => Lookup(l, p).plan = p /\ Lookup(l, p).approved
  BY DEF LibraryFollowsStore
<1>1. caches[l].plans \subseteq ListSkills
  <2> SUFFICES ASSUME NEW p \in caches[l].plans PROVE p \in ListSkills
    OBVIOUS
  <2>1. PICK i \in Registrations(p) : TRUE
    BY DEF PromotionInv, CacheInv
  <2> QED BY <2>1 DEF Registrations, ListSkills
<1>2. \A r \in caches[l].records : \E i \in Registrations(r.plan) : log[i].record = r
  BY DEF PromotionInv, CacheInv
<1>3. ASSUME NEW p \in Plans, Lookup(l, p) # NoRecord
      PROVE  Lookup(l, p).plan = p /\ Lookup(l, p).approved
  <2> DEFINE m == Min(Registrations(p))
  <2>1. Registrations(p) # {} /\ Lookup(l, p) = log[m].record
    BY <1>3 DEF Lookup
  <2>2. m \in Registrations(p)
    <3>1. Registrations(p) \subseteq Nat
      BY RegistrationsAre DEF PromotionInv
    <3> QED BY <2>1, <3>1, MinIs
  <2>3. log[m].record.plan = p /\ m \in DOMAIN log /\ log[m].kind = "skill"
    BY <2>2 DEF Registrations
  <2>4. log[m].record.approved
    BY <2>3, SkillsArePromoted DEF SkillIsPromoted
  <2> QED BY <2>1, <2>3, <2>4
<1> QED BY <1>1, <1>2, <1>3

(* A library never caches what the store does not list, through failed     *)
(* transactions, other libraries' registrations and reopening, and lookup  *)
(* hands out a promoted record of the plan it was asked for.               *)
(* (_skill_library.py register, lookup, list_skills)                       *)
THEOREM LibrariesFollowTheStore == Spec => []LibraryFollowsStore
BY LibrariesFollow, PromotionHolds, PTL

-----------------------------------------------------------------------------
(* A clock that reads whole microseconds gives times a datetime keeps.     *)
WholeClock == Grain % Microsecond = 0

WholeInv == clock % Microsecond = 0 /\ \A e \in emitted : e.content.at % Microsecond = 0

LEMMA WholeTick ==
    ASSUME NEW t \in Nat, NEW g \in Nat, t % Microsecond = 0, g % Microsecond = 0
    PROVE  (t + g) % Microsecond = 0
BY DEF Microsecond

LEMMA WholeKept ==
    ASSUME PromotionAssumption, WholeClock, TypeInv, WholeInv, [Next]_vars
    PROVE  WholeInv'
<1>1. CASE Tick
  <2>1. clock \in Nat /\ Grain \in Nat /\ clock' = clock + Grain /\ emitted' = emitted
    BY <1>1 DEF TypeInv, PromotionAssumption, Tick
  <2>2. clock' % Microsecond = 0
    BY <2>1, WholeTick DEF WholeClock, WholeInv
  <2> QED BY <2>1, <2>2 DEF WholeInv
<1>2. ASSUME NEW s \in Servers, Build(s) PROVE WholeInv'
  <2>1. PICK e : Emits(s, e)
    BY <1>2, BuildIs
  <2> QED BY <2>1 DEF Emits, WholeInv
<1>3. CASE UNCHANGED <<clock, emitted>>
  BY <1>3 DEF WholeInv
<1>4. ASSUME NEW s \in Servers, Persist(s) \/ PersistFails(s) \/ Restart(s) PROVE UNCHANGED <<clock, emitted>>
  BY <1>4 DEF Persist, PersistFails, Restart
<1>5. ASSUME NEW c \in Callers,
             \/ \E p \in Plans, l \in Libraries, w \in Windows : Promote(c, p, l, w)
             \/ \E replays \in Replays : G1(c, replays)
             \/ G2(c)
             \/ \E delta \in Epsilon - 1 .. Epsilon : G3(c, delta)
             \/ \E answer \in {"yes", "no", "truthy"} : G4(c, answer)
             \/ Known(c) \/ Scan(c) \/ Write(c) \/ WriteFails(c)
      PROVE  UNCHANGED <<clock, emitted>>
  BY <1>5 DEF Promote, G1, G2, G3, G4, Known, Scan, Write, WriteFails
<1>6. ASSUME NEW l \in Libraries, Reopen(l) PROVE UNCHANGED <<clock, emitted>>
  BY <1>6 DEF Reopen
<1>7. CASE UNCHANGED vars
  BY <1>3, <1>7 DEF vars
<1> QED BY <1>1, <1>2, <1>3, <1>4, <1>5, <1>6, <1>7 DEF Next

(* The row of an entry at a whole microsecond hashes to its id.            *)
LEMMA WholeHashes ==
    ASSUME NEW e, IsEntry(e), e.content.at % Microsecond = 0, NEW d, d = AuditDatom(e)
    PROVE  Hashed(d) /\ d.prev = e.content.prev /\ d.signature = Id(e.content)
<1> DEFINE x == e.content
           y == [prev |-> d.prev, at |-> d.at, what |-> d.what]
<1>1. x \in Contents /\ d.prev = x.prev /\ d.at = ToInst(x.at) /\ d.what = x.what /\ d.signature = Id(x)
  BY DatomIs DEF IsEntry
<1>2. ToInst(x.at) = x.at
  <2>1. x.at \in Nat
    BY <1>1 DEF Contents
  <2> QED BY <2>1, InstIs
<1>3. y = x
  <2> HIDE DEF x
  <2> QED BY <1>1, <1>2 DEF Contents
<1>4. FromDatom(d).content = y /\ FromDatom(d).id = d.signature
  BY DEF FromDatom
<1> QED BY <1>1, <1>3, <1>4 DEF Hashed

LEMMA WholePasses ==
    ASSUME TypeInv, RowsEmitted, WholeInv
    PROVE  WholeRunPasses
<1> SUFFICES ASSUME NEW w \in Windows, NEW I, I = EntriesIn(log, w), I # {},
                    \A i \in I : \E e \in emitted :
                        e.id = log[i].signature /\ Carried(log, I, i, e.content.prev)
             PROVE  VerifyChain(log, I)
  BY DEF WholeRunPasses, GateG2
<1>1. ASSUME NEW i \in I PROVE Hashed(log[i]) /\ Carried(log, I, i, log[i].prev)
  <2>1. i \in DOMAIN log /\ log[i].kind = "audit"
    BY DEF EntriesIn, InWindow
  <2>2. PICK d \in emitted : log[i] = AuditDatom(d)
    BY <2>1 DEF RowsEmitted
  <2>3. Hashed(log[i]) /\ log[i].prev = d.content.prev /\ log[i].signature = Id(d.content)
    BY <2>2, WholeHashes DEF TypeInv, WholeInv
  <2>4. PICK e \in emitted : e.id = log[i].signature /\ Carried(log, I, i, e.content.prev)
    OBVIOUS
  <2>5. e.id = Id(e.content) /\ e.content \in Contents /\ d.content \in Contents
    BY DatomIs DEF TypeInv, IsEntry
  <2>6. Id(e.content) = Id(d.content)
    BY <2>3, <2>4, <2>5
  <2>7. e.content.prev = d.content.prev
    BY <2>5, <2>6, IdOnce
  <2> QED BY <2>3, <2>4, <2>7
<1> QED BY <1>1 DEF VerifyChain

(* Whatever the clock reads: what G2 found of a window that was over when  *)
(* it looked stays true until the skill is registered, although servers go *)
(* on writing entries and losing them.  (_promotion.py:393 _gate_g2)       *)
THEOREM VerdictsStay == Spec => []VerdictStands
<1>1. PromotionInv => VerdictStands
  BY DEF PromotionInv, ClosedInv, ClosedCall, VerdictStands
<1> QED BY <1>1, PromotionHolds, PTL

(* When the clock reads whole microseconds, G2 passes each window that     *)
(* holds one run of a server as it was built, and what it found of a       *)
(* window that was over stays true until the skill is registered.  Finer   *)
(* clocks are what PromotionClock.cfg refutes it for.                      *)
(* (_promotion.py:393 _gate_g2, audit.py AuditEntry.from_datom)            *)
THEOREM VerdictsAreSound == WholeClock => (Spec => []VerdictSound)
<1> SUFFICES ASSUME WholeClock PROVE Spec => []VerdictSound
  OBVIOUS
<1>1. Init => WholeInv
  BY DEF Init, WholeInv, Microsecond
<1>2. PromotionInv /\ WholeInv /\ [Next]_vars => WholeInv'
  BY PromotionAssumption, WholeKept DEF PromotionInv
<1>3. PromotionInv /\ WholeInv => WholeRunPasses
  BY WholePasses DEF PromotionInv
<1>4. PromotionInv => VerdictStands
  BY DEF PromotionInv, ClosedInv, ClosedCall, VerdictStands
<1>5. PromotionInv /\ WholeInv => VerdictSound
  BY <1>3, <1>4 DEF VerdictSound
<1> QED BY <1>1, <1>2, <1>5, PromotionHolds, PTL DEF Spec
=============================================================================
